------------------------------ MODULE RpcClient ------------------------------
(***************************************************************************)
(* The client of the daemon (library/src/monerod_client): calls made of    *)
(* one or several HTTP requests, each with digest authentication when the  *)
(* daemon wants it.  The client is shared: the scan task and the users of  *)
(* the gateway call it at the same time and meet at the nonce and the      *)
(* counter of the digest, which a mutex guards while a header is made.     *)
(*                                                                         *)
(* Requests are limited in time until the head of the answer is there.     *)
(* Neither reading the body nor being refused again and again is limited.  *)
(***************************************************************************)
EXTENDS Integers, Sequences, FiniteSets, FiniteSetsExt

CONSTANTS
    Requester,  \* those who call
    Limit,      \* MAX_REQUESTED_TRANSACTIONS, 100 in the code
    MaxSize,    \* bound: transactions asked for in one call
    MaxCalls,   \* bound: calls of more than one step
    MaxNonces   \* bound: challenges of the daemon

(* The counter of a nonce is 32 bits wide and would repeat itself after    *)
(* 2^32 requests without a challenge; the bounds stay below.  Most calls   *)
(* ask for one thing.                                                      *)
ASSUME RpcAssumption ==
    /\ Limit \in Nat \ {0}
    /\ MaxSize \in Nat \ {0} /\ MaxCalls \in Nat /\ MaxNonces \in Nat

VARIABLES
    at,         \* where each call is
    size,       \* how many things it asks for
    part,       \* the loop variable i of transactions_by_hashes
    asked,      \* what the daemon was asked for and has looked up
    reply,      \* the head of the answer, once it is there
    header,     \* the AUTHORIZATION header of a request on its way
    digest,     \* last_auth_params and counter of AuthInfo
    login,      \* the daemon wants a login, the client has one
    issued,     \* the daemon's nonces are 1..issued
    used,       \* the headers sent so far
    calls       \* the calls made so far

callVars == <<at, size, part, asked, reply>>
authVars == <<header, digest, login, issued, used>>
rpcVars == <<callVars, authVars, calls>>

(* next: about to ask for the next part; sent: waiting for the head of the *)
(* answer, asleep: has it and sleeps, head: looks at it; body: reading the *)
(* body; hung: for ever so.                                                *)
CallPlaces == {"idle", "next", "sent", "resent", "asleep", "head", "body", "hung", "ok", "failed"}

(* AuthInfo before the first challenge.                                    *)
NewAuthInfo == [nonce |-> 0, counter |-> 1]
NoHeader == [nonce |-> 0, nc |-> 0]
Headers == [nonce : 0..MaxNonces, nc : Nat]

(* An answer, a challenge that the client understands, one that it does    *)
(* not.                                                                    *)
Answer == [nonce |-> 0, usable |-> TRUE]
Replies == [nonce : 0..MaxNonces, usable : BOOLEAN]

RpcTypeOK ==
    /\ at \in [Requester -> CallPlaces]
    /\ size \in [Requester -> 0..MaxSize]
    /\ part \in [Requester -> 0..MaxSize + 1]
    /\ asked \in [Requester -> Seq(1..MaxSize)]
    /\ reply \in [Requester -> Replies]
    /\ header \in [Requester -> Headers]
    /\ digest \in [nonce : 0..MaxNonces, counter : Nat]
    /\ login \in [daemon : BOOLEAN, client : BOOLEAN]
    /\ issued \in 0..MaxNonces
    /\ used \subseteq Headers
    /\ calls \in 0..MaxCalls

RpcInit ==
    /\ at = [r \in Requester |-> "idle"]
    /\ size = [r \in Requester |-> 0]
    /\ part = [r \in Requester |-> 0]
    /\ asked = [r \in Requester |-> <<>>]
    /\ reply = [r \in Requester |-> Answer]
    /\ header = [r \in Requester |-> NoHeader]
    /\ digest = NewAuthInfo
    /\ login \in [daemon : BOOLEAN, client : BOOLEAN]
    /\ issued = 0
    /\ used = {}
    /\ calls = 0

Move(r, place) == at' = [at EXCEPT ![r] = place]

-----------------------------------------------------------------------------
(***************************************************************************)
(* A call, and its parts.  block, txpool, txpool_hashes and daemon_height  *)
(* are calls of size 1; transactions_by_hashes may have any size.          *)
(***************************************************************************)
(* The hashes that iteration i asks for, and the last iteration.           *)
Slice(first, last) == [k \in 1..(last - first) |-> first + k]
(* Defect: asks again for the last hash of the row before.                 *)
RowOverlaps(n, i) == Slice(Max({0, Limit * i - 1}), Min({Limit * (i + 1), n}))
Row(n, i) == Slice(Limit * i, Min({Limit * (i + 1), n}))
LastPart(n) == n \div Limit

Begin(r, n) ==
    /\ at[r] = "idle"
    /\ calls < MaxCalls
    /\ calls' = calls + 1
    /\ Move(r, "next")
    /\ size' = [size EXCEPT ![r] = n]
    /\ UNCHANGED <<part, asked, reply, authVars>>

(* The call is over, and nothing of it is kept but its result.             *)
EndWith(r, result) ==
    /\ Move(r, result)
    /\ size' = [size EXCEPT ![r] = 0]
    /\ part' = [part EXCEPT ![r] = 0]
    /\ asked' = [asked EXCEPT ![r] = <<>>]
    /\ reply' = [reply EXCEPT ![r] = Answer]
    /\ header' = [header EXCEPT ![r] = NoHeader]
    /\ UNCHANGED <<digest, login, issued, used, calls>>

(* The loop ends after its last iteration, or before it when there is      *)
(* nothing left to ask for.                                                *)
Finish(r) ==
    /\ at[r] = "next"
    /\ part[r] > LastPart(size[r]) \/ Row(size[r], part[r]) = <<>>
    /\ EndWith(r, "ok")

(* The caller takes the result, or is gone in the middle of the call.      *)
Close(r) == EndWith(r, "idle")

-----------------------------------------------------------------------------
(***************************************************************************)
(* Digest authentication.  Nonce and counter are read and advanced under   *)
(* the mutex, so a header is made in one step.                             *)
(***************************************************************************)
Authenticate(r, d) ==
    /\ header' = [header EXCEPT ![r] = [nonce |-> d.nonce, nc |-> d.counter]]
    /\ used' = used \cup {header'[r]}
    /\ digest' = [d EXCEPT !.counter = @ + 1]

(* A request starts with the nonce of the last challenge, if there was one.*)
Send(r) ==
    /\ at[r] = "next"
    /\ part[r] <= LastPart(size[r]) /\ Row(size[r], part[r]) # <<>>
    /\ IF login.client /\ digest.nonce # 0
       THEN Authenticate(r, digest)
       ELSE header' = [header EXCEPT ![r] = NoHeader] /\ UNCHANGED <<digest, used>>
    /\ Move(r, "sent")
    /\ UNCHANGED <<size, part, asked, reply, login, issued, calls>>

(* What WWW-AUTHENTICATE headers offer.  Other schemes than Digest do not  *)
(* count, one Digest header that is not understood spoils all, and the     *)
(* best of the rest is taken.                                              *)
Offers == {"Basic", "Digest MD5", "Digest MD5-sess", "Digest SHA-256"}
DigestOffers(offers) == offers \ {"Basic"}
Usable(offers) ==
    /\ DigestOffers(offers) # {}
    /\ "Digest SHA-256" \notin DigestOffers(offers)

(* Defect: the counter starts again although the old nonce stays.          *)
AuthenticateWithRespStale(r) ==
    Authenticate(r, [nonce |-> IF digest.nonce # 0 THEN digest.nonce ELSE reply[r].nonce, counter |-> 1])
(* The nonce of the challenge replaces that of any other request.          *)
AuthenticateWithResp(r) == Authenticate(r, [nonce |-> reply[r].nonce, counter |-> 1])

Refused(r) == at[r] = "head" /\ reply[r].nonce # 0

(* Refused: the request is sent again with a header made for the challenge.*)
Resend(r) ==
    /\ Refused(r)
    /\ login.client /\ reply[r].usable
    /\ AuthenticateWithResp(r)
    /\ reply' = [reply EXCEPT ![r] = Answer]
    /\ Move(r, "resent")
    /\ UNCHANGED <<size, part, asked, login, issued, calls>>

(* No login, or a challenge that is not understood.                        *)
Unauthorized(r) ==
    /\ Refused(r)
    /\ ~(login.client /\ reply[r].usable)
    /\ EndWith(r, "failed")

(* After a request that was repeated the client sleeps, whatever came.     *)
Wake(r) ==
    /\ at[r] = "asleep"
    /\ Move(r, "head")
    /\ UNCHANGED <<size, part, asked, reply, authVars, calls>>

Sent(r) == at[r] \in {"sent", "resent"}

HeadArrives(r, head) ==
    /\ reply' = [reply EXCEPT ![r] = head]
    /\ header' = [header EXCEPT ![r] = NoHeader]
    /\ Move(r, IF at[r] = "resent" THEN "asleep" ELSE "head")

-----------------------------------------------------------------------------
(***************************************************************************)
(* The daemon, and the way there.                                          *)
(***************************************************************************)
(* It looks up what is asked for, if it wants no login or knows the nonce. *)
Serve(r) ==
    /\ Sent(r)
    /\ login.daemon => header[r].nonce # 0
    /\ asked' = [asked EXCEPT ![r] = @ \o Row(size[r], part[r])]
    /\ HeadArrives(r, Answer)
    /\ UNCHANGED <<size, part, digest, login, issued, used, calls>>

(* It may forget nonces at any time; every challenge has a new one.        *)
Challenge(r) ==
    /\ Sent(r)
    /\ login.daemon
    /\ issued < MaxNonces
    /\ issued' = issued + 1
    /\ \E usable \in {Usable(offers) : offers \in SUBSET Offers \ {{}}} :
          HeadArrives(r, [nonce |-> issued + 1, usable |-> usable])
    /\ UNCHANGED <<size, part, asked, digest, login, used, calls>>

(* No connection, or no head within the time limit.                        *)
Timeout(r) ==
    /\ Sent(r)
    /\ EndWith(r, "failed")

StartBody(r) ==
    /\ at[r] = "head" /\ reply[r].nonce = 0
    /\ Move(r, "body")
    /\ UNCHANGED <<size, part, asked, reply, authVars, calls>>

(* The daemon may have left transactions out; that is only logged.         *)
BodyArrives(r) ==
    /\ at[r] = "body"
    /\ part' = [part EXCEPT ![r] = @ + 1]
    /\ Move(r, "next")
    /\ UNCHANGED <<size, asked, reply, authVars, calls>>

(* The connection breaks, or what came cannot be parsed.                   *)
BodyFails(r) ==
    /\ at[r] = "body"
    /\ EndWith(r, "failed")

(* The rest of the body never comes, or every header is refused: nothing   *)
(* ends the call.                                                          *)
NeverEnds(r) ==
    /\ at[r] = "body" \/ (Refused(r) /\ login.client /\ reply[r].usable)
    /\ Move(r, "hung")
    /\ UNCHANGED <<size, part, asked, reply, authVars, calls>>

RpcStep(r) ==
    \/ Finish(r) \/ Send(r) \/ Resend(r) \/ Unauthorized(r) \/ Wake(r)
    \/ Serve(r) \/ Challenge(r) \/ Timeout(r)
    \/ StartBody(r) \/ BodyArrives(r) \/ BodyFails(r) \/ NeverEnds(r)

-----------------------------------------------------------------------------
(***************************************************************************)
(* Properties.                                                             *)
(***************************************************************************)
(* No header is sent twice: requests that overlap, are challenged at the   *)
(* same time or come back to an older nonce never repeat a nonce with its  *)
(* count (authenticate, authenticate_with_resp).                           *)
HeadersFresh ==
    [][\A r \in Requester : Sent(r)' /\ at'[r] # at[r] /\ header'[r] # NoHeader
                                 => header'[r] \notin used]_rpcVars

(* What the trait shows of a call.                                         *)
AbstractCall(r) ==
    [state |-> IF at[r] \in {"idle", "ok", "failed"} THEN at[r] ELSE "open",
     size |-> size[r], asked |-> asked[r]]
AbstractCalls == [r \in Requester |-> AbstractCall(r)]

(* The client keeps what the trait promises: whatever is refused, repeated,*)
(* timed out or asked by others meanwhile, the daemon is asked for every   *)
(* transaction once and for at most Limit at a time, and a call that       *)
(* succeeds has asked for all (request, transactions_by_hashes).           *)
Abstract == INSTANCE Rpc WITH call <- AbstractCalls
KeepsPromise == Abstract!Spec
=============================================================================
