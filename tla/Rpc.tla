--------------------------------- MODULE Rpc ---------------------------------
(***************************************************************************)
(* What the scanner and the gateway expect of the client of the daemon     *)
(* (trait Client of library/src/monerod_client/mod.rs): a call asks the    *)
(* daemon for things numbered 1..size, in order, a few at a time and each  *)
(* of them once, and succeeds when all have been asked for, or fails.  How *)
(* a request is authenticated, and how often it is repeated, is not seen.  *)
(***************************************************************************)
EXTENDS Integers, Sequences

CONSTANTS
    Requester,  \* those who call
    Limit,      \* things asked for in one request
    MaxSize     \* bound: things asked for in one call

VARIABLE call   \* the call of each requester

NoCall == [state |-> "idle", size |-> 0, asked |-> <<>>]

Init == call = [r \in Requester |-> NoCall]

Begin(r) ==
    /\ call[r].state = "idle"
    /\ \E n \in 0..MaxSize : call' = [call EXCEPT ![r] = [NoCall EXCEPT !.state = "open", !.size = n]]

(* The daemon looks up the next things on the list.                        *)
Ask(r) ==
    /\ call[r].state = "open"
    /\ \E k \in 1..Limit :
          LET n == Len(call[r].asked)
          IN  /\ n + k <= call[r].size
              /\ call' = [call EXCEPT ![r] =
                    [state |-> "open", size |-> @.size, asked |-> @.asked \o [j \in 1..k |-> n + j]]]

Succeed(r) ==
    /\ call[r].state = "open"
    /\ Len(call[r].asked) = call[r].size
    /\ call' = [call EXCEPT ![r] = [NoCall EXCEPT !.state = "ok"]]

Fail(r) ==
    /\ call[r].state = "open"
    /\ call' = [call EXCEPT ![r] = [NoCall EXCEPT !.state = "failed"]]

(* The caller goes on, or is gone.                                         *)
End(r) == call' = [call EXCEPT ![r] = NoCall]

Next == \E r \in Requester : Begin(r) \/ Ask(r) \/ Succeed(r) \/ Fail(r) \/ End(r)

Spec == Init /\ [][Next]_call
=============================================================================
