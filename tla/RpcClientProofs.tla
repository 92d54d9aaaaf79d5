--------------------------- MODULE RpcClientProofs ---------------------------
(***************************************************************************)
(* For any number of requesters, sizes, challenges and limits: the steps   *)
(* of the client repeat no header and implement the abstract Rpc.          *)
(***************************************************************************)
EXTENDS RpcClient, TLAPS

(* Everything that happens to a call: it is made, goes on, is closed.      *)
ClientStep(r) == (\E n \in 0..MaxSize : Begin(r, n)) \/ Close(r) \/ RpcStep(r)
ClientNext == \E r \in Requester : ClientStep(r)

-----------------------------------------------------------------------------
(***************************************************************************)
(* Arithmetic of the parts.                                                *)
(***************************************************************************)
(* The smaller one of two numbers.                                         *)
LEMMA MinOfTwo ==
    ASSUME NEW a \in Int, NEW b \in Int
    PROVE  Min({a, b}) = IF a <= b THEN a ELSE b
<1>1. \E x \in {a, b} : \A y \in {a, b} : x <= y
    OBVIOUS
<1>2. Min({a, b}) \in {a, b} /\ \A y \in {a, b} : Min({a, b}) <= y
    BY <1>1 DEF Min
<1> QED
    BY <1>2

(* The parts follow each other without a gap.                              *)
LEMMA PartsFollow ==
    ASSUME NEW i \in Nat
    PROVE  /\ Limit * i \in Nat
           /\ Limit * (i + 1) = Limit * i + Limit
           /\ Limit * i >= i
    BY RpcAssumption

(* After the last part nothing is left over.                               *)
LEMMA LastPartCovers ==
    ASSUME NEW n \in Nat, NEW i \in Nat
    PROVE  /\ LastPart(n) \in Nat /\ LastPart(n) <= n
           /\ i > LastPart(n) => Limit * i > n
<1>1. LastPart(n) \in Nat /\ n < Limit * (LastPart(n) + 1) /\ Limit * LastPart(n) <= n
    BY RpcAssumption DEF LastPart
<1> QED
    BY <1>1, RpcAssumption, PartsFollow

-----------------------------------------------------------------------------
(***************************************************************************)
(* The digest.  What has been used of the present nonce is below its       *)
(* counter, and a nonce that a challenge has brought and that no request   *)
(* has taken up yet is known to nobody else.                               *)
(***************************************************************************)
DigestTypeOK ==
    /\ at \in [Requester -> CallPlaces]
    /\ reply \in [Requester -> Replies]
    /\ header \in [Requester -> Headers]
    /\ digest \in [nonce : 0..MaxNonces, counter : Nat]
    /\ login \in [daemon : BOOLEAN, client : BOOLEAN]
    /\ issued \in 0..MaxNonces
    /\ used \subseteq Headers

UsedBelowCounter ==
    \A h \in used : h.nonce <= issued /\ (h.nonce = digest.nonce => h.nc < digest.counter)

ChallengeUntouched ==
    \A r \in Requester : reply[r].nonce # 0 =>
        /\ reply[r].nonce <= issued
        /\ reply[r].nonce # digest.nonce
        /\ \A h \in used : h.nonce # reply[r].nonce
        /\ \A q \in Requester : q # r => reply[q].nonce # reply[r].nonce

DigestInv ==
    /\ DigestTypeOK
    /\ digest.nonce <= issued
    /\ UsedBelowCounter
    /\ ChallengeUntouched

(* AuthInfo before the first challenge.                                    *)
LEMMA InitDigest == RpcInit => DigestInv
<1> SUFFICES ASSUME RpcInit PROVE DigestInv
    OBVIOUS
<1> USE RpcAssumption
<1>1. Answer \in Replies /\ NoHeader \in Headers
    BY DEF Answer, Replies, NoHeader, Headers
<1> QED
    BY <1>1 DEF RpcInit, DigestInv, DigestTypeOK, UsedBelowCounter, ChallengeUntouched, CallPlaces,
                NewAuthInfo, Answer

(* A step that only drops replies and headers.                             *)
LEMMA DropKeepsDigest ==
    ASSUME DigestInv, NEW r \in Requester, NEW place \in CallPlaces, Move(r, place),
           \/ UNCHANGED <<reply, header>>
           \/ /\ reply' \in {reply, [reply EXCEPT ![r] = Answer]}
              /\ header' = [header EXCEPT ![r] = NoHeader],
           UNCHANGED <<digest, login, issued, used>>
    PROVE  DigestInv'
<1> USE RpcAssumption
<1>1. Answer \in Replies /\ Answer.nonce = 0 /\ NoHeader \in Headers
    BY DEF Answer, Replies, NoHeader, Headers
<1>2. DigestTypeOK'
    BY <1>1 DEF DigestInv, DigestTypeOK, Move
<1>3. \A q \in Requester : reply'[q].nonce \in {0, reply[q].nonce}
    BY <1>1 DEF DigestInv, DigestTypeOK
<1>4. ChallengeUntouched'
    BY <1>3 DEF DigestInv, ChallengeUntouched
<1> QED
    BY <1>2, <1>4 DEF DigestInv, UsedBelowCounter

(* A header is made from a nonce and a count that are beyond what was used.*)
LEMMA AuthenticateFresh ==
    ASSUME DigestInv, NEW r \in Requester,
           NEW d \in [nonce : 1..MaxNonces, counter : Nat], Authenticate(r, d),
           d.nonce <= issued,
           \A h \in used : h.nonce = d.nonce => h.nc < d.counter,
           \A q \in Requester : q # r /\ reply[q].nonce # 0 => reply[q].nonce # d.nonce,
           reply'[r].nonce = 0, reply' \in {reply, [reply EXCEPT ![r] = Answer]},
           NEW place \in CallPlaces, Move(r, place), UNCHANGED <<login, issued>>
    PROVE  DigestInv' /\ header'[r] \notin used
<1> USE RpcAssumption
<1> DEFINE new == [nonce |-> d.nonce, nc |-> d.counter]
<1>1. /\ header' = [header EXCEPT ![r] = new] /\ header'[r] = new /\ new \in Headers
      /\ used' = used \cup {new}
      /\ digest' = [nonce |-> d.nonce, counter |-> d.counter + 1]
    BY DEF Authenticate, DigestInv, DigestTypeOK, Headers
<1>2. new \notin used
    BY DEF Headers
<1>3. Answer \in Replies /\ Answer.nonce = 0
    BY DEF Answer, Replies
<1>4. DigestTypeOK'
    BY <1>1, <1>3 DEF DigestInv, DigestTypeOK, Move
<1>5. UsedBelowCounter' /\ (digest.nonce <= issued)'
    BY <1>1 DEF DigestInv, DigestTypeOK, UsedBelowCounter, Headers
<1>6. \A q \in Requester : reply'[q].nonce # 0 => q # r /\ reply'[q] = reply[q]
    BY DEF DigestInv, DigestTypeOK
<1>7. \A q \in Requester : reply'[q].nonce \in {0, reply[q].nonce}
    BY <1>3 DEF DigestInv, DigestTypeOK
<1>8. ChallengeUntouched'
    BY <1>1, <1>6, <1>7 DEF DigestInv, ChallengeUntouched
<1> QED
    BY <1>1, <1>2, <1>4, <1>5, <1>8 DEF DigestInv

(* The header of a new request goes on counting.                           *)
LEMMA SendFresh ==
    ASSUME DigestInv, NEW r \in Requester, Send(r), reply[r].nonce = 0
    PROVE  DigestInv' /\ (header'[r] # NoHeader => header'[r] \notin used)
<1> USE RpcAssumption
<1>1. Move(r, "sent") /\ "sent" \in CallPlaces /\ UNCHANGED <<reply, login, issued>>
    BY DEF Send, CallPlaces
<1>2. CASE login.client /\ digest.nonce # 0
  <2>1. Authenticate(r, digest)
    BY <1>2 DEF Send
  <2>2. digest \in [nonce : 1..MaxNonces, counter : Nat]
    BY <1>2 DEF DigestInv, DigestTypeOK
  <2>3. /\ digest.nonce <= issued
        /\ \A h \in used : h.nonce = digest.nonce => h.nc < digest.counter
        /\ \A q \in Requester : q # r /\ reply[q].nonce # 0 => reply[q].nonce # digest.nonce
        /\ reply'[r].nonce = 0
    BY <1>1 DEF DigestInv, UsedBelowCounter, ChallengeUntouched
  <2> QED
    BY <1>1, <2>1, <2>2, <2>3, AuthenticateFresh
<1>3. CASE ~(login.client /\ digest.nonce # 0)
  <2>1. header' = [header EXCEPT ![r] = NoHeader] /\ UNCHANGED <<digest, used>>
    BY <1>3, Zenon DEF Send
  <2>2. DigestInv'
    BY <1>1, <2>1, DropKeepsDigest
  <2>3. header'[r] = NoHeader
    BY <2>1 DEF DigestInv, DigestTypeOK
  <2> QED
    BY <2>2, <2>3
<1> QED
    BY <1>2, <1>3

(* The header that answers a challenge is the first one with its nonce.    *)
LEMMA ResendFresh ==
    ASSUME DigestInv, NEW r \in Requester, Resend(r)
    PROVE  DigestInv' /\ header'[r] \notin used
<1> USE RpcAssumption
<1> DEFINE d == [nonce |-> reply[r].nonce, counter |-> 1]
<1>1. /\ Move(r, "resent") /\ "resent" \in CallPlaces /\ UNCHANGED <<login, issued>>
      /\ Authenticate(r, d) /\ reply[r].nonce # 0
      /\ reply' = [reply EXCEPT ![r] = Answer]
    BY DEF Resend, CallPlaces, Refused, AuthenticateWithResp
<1>2. d \in [nonce : 1..MaxNonces, counter : Nat] /\ reply'[r].nonce = 0
    BY <1>1 DEF DigestInv, DigestTypeOK, Replies, Answer
<1>3. /\ d.nonce <= issued
      /\ \A h \in used : h.nonce # d.nonce
      /\ \A q \in Requester : q # r /\ reply[q].nonce # 0 => reply[q].nonce # d.nonce
    BY <1>1 DEF DigestInv, ChallengeUntouched
<1> QED
    BY <1>1, <1>2, <1>3, AuthenticateFresh

(* Every challenge brings a nonce that nobody has seen.                    *)
LEMMA ChallengeKeepsDigest ==
    ASSUME DigestInv, NEW r \in Requester, Challenge(r)
    PROVE  DigestInv'
<1> USE RpcAssumption
<1>1. PICK usable \in BOOLEAN : reply' = [reply EXCEPT ![r] = [nonce |-> issued + 1, usable |-> usable]]
    BY DEF Challenge, HeadArrives, Usable
<1>2. /\ issued' = issued + 1 /\ issued + 1 \in 1..MaxNonces /\ issued \in Nat
      /\ UNCHANGED <<digest, login, used>>
      /\ header' = [header EXCEPT ![r] = NoHeader]
      /\ at' \in [Requester -> CallPlaces]
    BY DEF Challenge, HeadArrives, DigestInv, DigestTypeOK, Move, CallPlaces
<1>3. NoHeader \in Headers /\ [nonce |-> issued + 1, usable |-> usable] \in Replies
    BY <1>2 DEF NoHeader, Headers, Replies
<1>4. DigestTypeOK'
    BY <1>1, <1>2, <1>3 DEF DigestInv, DigestTypeOK
<1>5. /\ digest.nonce <= issued /\ digest.nonce \in Nat
      /\ \A h \in used : h.nonce <= issued /\ h.nonce \in Nat
    BY DEF DigestInv, DigestTypeOK, UsedBelowCounter, Headers
<1>6. UsedBelowCounter' /\ (digest.nonce <= issued)'
    BY <1>2, <1>5 DEF DigestInv, UsedBelowCounter
<1>7. /\ reply'[r].nonce = issued + 1
      /\ \A q \in Requester : q # r => reply'[q] = reply[q]
      /\ \A q \in Requester : reply[q].nonce \in Nat /\ reply[q].nonce <= issued
    BY <1>1, <1>2 DEF DigestInv, DigestTypeOK, ChallengeUntouched, Replies
<1>8. ChallengeUntouched'
    BY <1>2, <1>5, <1>7 DEF DigestInv, ChallengeUntouched
<1> QED
    BY <1>4, <1>6, <1>8 DEF DigestInv

(* A challenge is held only where the client looks at it.                  *)
NonceIsHeld ==
    \A r \in Requester : reply[r].nonce # 0 => at[r] \in {"asleep", "head", "hung"}

(* A step of a requester moves it alone, and only Send and Resend send.    *)
FreshStep ==
    \A r \in Requester : Sent(r)' /\ at'[r] # at[r] /\ header'[r] # NoHeader
                             => header'[r] \notin used

(* A step that sends nothing.                                              *)
LEMMA QuietIsFresh ==
    ASSUME DigestTypeOK, NEW r \in Requester, NEW place \in CallPlaces \ {"sent", "resent"},
           Move(r, place)
    PROVE  FreshStep
    BY DEF DigestTypeOK, Move, FreshStep, Sent

(* A step that sends sends for one requester.                              *)
LEMMA SenderIsFresh ==
    ASSUME DigestTypeOK, NEW r \in Requester, NEW place, Move(r, place),
           header'[r] # NoHeader => header'[r] \notin used
    PROVE  FreshStep
<1>1. \A q \in Requester : q # r => at'[q] = at[q]
    BY DEF DigestTypeOK, Move
<1> QED
    BY <1>1 DEF FreshStep

(* Every step of the client keeps the digest and repeats no header.        *)
LEMMA StepDigest ==
    ASSUME DigestInv, NonceIsHeld, NEW r \in Requester, ClientStep(r)
    PROVE  DigestInv' /\ NonceIsHeld' /\ FreshStep
<1> USE RpcAssumption
<1>0. DigestTypeOK
    BY DEF DigestInv
<1>1. ASSUME NEW result \in {"idle", "ok", "failed"}, EndWith(r, result)
      PROVE  DigestInv' /\ NonceIsHeld' /\ FreshStep
  <2>1. /\ Move(r, result) /\ result \in CallPlaces \ {"sent", "resent"}
        /\ reply' = [reply EXCEPT ![r] = Answer] /\ header' = [header EXCEPT ![r] = NoHeader]
        /\ UNCHANGED <<digest, login, issued, used>>
    BY <1>1 DEF EndWith, CallPlaces
  <2>2. NonceIsHeld'
    BY <1>0, <2>1 DEF NonceIsHeld, DigestTypeOK, Move, Answer
  <2> QED
    BY <1>0, <2>1, <2>2, DropKeepsDigest, QuietIsFresh
<1>2. ASSUME NEW place \in CallPlaces \ {"sent", "resent"}, Move(r, place),
             UNCHANGED <<reply, header, digest, login, issued, used>>,
             reply[r].nonce = 0 \/ place \in {"head", "hung"}
      PROVE  DigestInv' /\ NonceIsHeld' /\ FreshStep
  <2>1. NonceIsHeld'
    BY <1>0, <1>2 DEF NonceIsHeld, DigestTypeOK, Move
  <2> QED
    BY <1>0, <1>2, <2>1, DropKeepsDigest, QuietIsFresh
<1>3. CASE (\E n \in 0..MaxSize : Begin(r, n)) \/ Wake(r) \/ StartBody(r) \/ BodyArrives(r) \/ NeverEnds(r)
  <2>1. at[r] \in {"idle", "body"} => reply[r].nonce = 0
    BY DEF NonceIsHeld
  <2> QED
    BY <1>2, <1>3, <2>1 DEF Begin, Wake, StartBody, BodyArrives, NeverEnds, authVars, CallPlaces
<1>4. CASE Close(r) \/ Finish(r) \/ Unauthorized(r) \/ Timeout(r) \/ BodyFails(r)
    BY <1>1, <1>4 DEF Close, Finish, Unauthorized, Timeout, BodyFails
<1>5. CASE Send(r)
  <2>1. reply[r].nonce = 0 /\ Move(r, "sent") /\ reply' = reply
    BY <1>5 DEF Send, NonceIsHeld
  <2>2. NonceIsHeld'
    BY <1>0, <2>1 DEF NonceIsHeld, DigestTypeOK, Move
  <2> QED
    BY <1>0, <1>5, <2>1, <2>2, SendFresh, SenderIsFresh
<1>6. CASE Resend(r)
  <2>1. Move(r, "resent") /\ reply' = [reply EXCEPT ![r] = Answer]
    BY <1>6 DEF Resend
  <2>2. NonceIsHeld'
    BY <1>0, <2>1 DEF NonceIsHeld, DigestTypeOK, Move, Answer
  <2> QED
    BY <1>0, <1>6, <2>1, <2>2, ResendFresh, SenderIsFresh
<1>7. CASE Serve(r) \/ Challenge(r)
  <2>1. PICK head : HeadArrives(r, head)
    BY <1>7 DEF Serve, Challenge
  <2>2. PICK place \in {"asleep", "head"} : Move(r, place)
    BY <2>1 DEF HeadArrives
  <2>3. place \in CallPlaces \ {"sent", "resent"}
    BY DEF CallPlaces
  <2>4. NonceIsHeld' /\ FreshStep
    BY <1>0, <2>1, <2>2, <2>3, QuietIsFresh DEF HeadArrives, NonceIsHeld, DigestTypeOK, Move
  <2>5. CASE Serve(r)
    <3>1. /\ reply' = [reply EXCEPT ![r] = Answer] /\ header' = [header EXCEPT ![r] = NoHeader]
          /\ UNCHANGED <<digest, login, issued, used>>
      BY <2>5 DEF Serve, HeadArrives
    <3> QED
      BY <2>2, <2>3, <2>4, <3>1, DropKeepsDigest
  <2> QED
    BY <1>7, <2>4, <2>5, ChallengeKeepsDigest
<1> QED
    BY <1>3, <1>4, <1>5, <1>6, <1>7 DEF ClientStep, RpcStep

-----------------------------------------------------------------------------
(***************************************************************************)
(* What a call has asked for.  The first parts are done before a request,  *)
(* and the part at hand once its answer is there.                          *)
(***************************************************************************)
(* The things in the first i parts of n.                                   *)
InParts(n, i) == IF Limit * i <= n THEN Limit * i ELSE n

Over == {"idle", "ok", "failed"}

(* Sent or refused; the daemon has looked nothing up for this part.        *)
Unanswered(r) == Sent(r) \/ (at[r] \in {"asleep", "head"} /\ reply[r].nonce # 0)
Answered(r) == at[r] = "body" \/ (at[r] \in {"asleep", "head"} /\ reply[r].nonce = 0)

Progress(r) ==
    /\ at[r] \in Over => size[r] = 0 /\ part[r] = 0 /\ asked[r] = <<>>
    /\ at[r] = "next" => Len(asked[r]) = InParts(size[r], part[r])
    /\ Unanswered(r) => /\ Len(asked[r]) = Limit * part[r] /\ Limit * part[r] < size[r]
                        /\ part[r] <= LastPart(size[r])
    /\ Answered(r) => /\ Len(asked[r]) = InParts(size[r], part[r] + 1)
                      /\ part[r] <= LastPart(size[r])

CallInv ==
    /\ size \in [Requester -> 0..MaxSize]
    /\ part \in [Requester -> 0..MaxSize + 1]
    /\ asked \in [Requester -> Seq(1..MaxSize)]
    /\ calls \in 0..MaxCalls
    /\ \A r \in Requester : Progress(r)

(* The hashes of one iteration: those that follow the parts before it, no  *)
(* more than the limit; none when the parts before it had them all.        *)
LEMMA RowOfPart ==
    ASSUME NEW n \in Nat, NEW i \in Nat
    PROVE  /\ Limit * i >= n => Row(n, i) = <<>>
           /\ Limit * i < n =>
                \E k \in 1..Limit :
                    /\ Row(n, i) = [j \in 1..k |-> Limit * i + j]
                    /\ Limit * i + k = InParts(n, i + 1) /\ Limit * i + k <= n
                    /\ Row(n, i) \in Seq(1..n) /\ Len(Row(n, i)) = k /\ Row(n, i) # <<>>
<1> USE RpcAssumption
<1> DEFINE m == Limit * i
           e == InParts(n, i + 1)
           k == e - m
<1>1. m \in Nat /\ Limit * (i + 1) = m + Limit /\ Limit * (i + 1) \in Nat
    BY PartsFollow
<1>2. e \in Nat /\ e = Min({Limit * (i + 1), n})
    BY <1>1, MinOfTwo DEF InParts
<1>3. Row(n, i) = [j \in 1..k |-> m + j]
    BY <1>2 DEF Row, Slice
<1>4. CASE m >= n
  <2>1. 1..k = {}
    BY <1>1, <1>2, <1>4 DEF InParts
  <2>2. Row(n, i) = <<>>
    BY <1>3, <2>1
  <2> QED
    BY <1>4, <2>2, <1>1
<1>5. CASE m < n
  <2>1. k \in 1..Limit /\ m + k = e /\ m + k <= n
    BY <1>1, <1>2, <1>5 DEF InParts
  <2>2. Row(n, i) \in Seq(1..n) /\ Len(Row(n, i)) = k
    BY <1>1, <1>3, <2>1
  <2>3. Row(n, i) # <<>>
    BY <2>1, <2>2
  <2> HIDE DEF e, k
  <2>4. \E h \in 1..Limit :
            /\ Row(n, i) = [j \in 1..h |-> Limit * i + j]
            /\ Limit * i + h = e /\ Limit * i + h <= n
            /\ Row(n, i) \in Seq(1..n) /\ Len(Row(n, i)) = h /\ Row(n, i) # <<>>
    BY <1>3, <2>1, <2>2, <2>3, Zenon
  <2> QED
    BY <1>1, <1>5, <2>4 DEF e
<1> QED
    BY <1>1, <1>4, <1>5

(* Before the first call.                                                  *)
LEMMA InitCalls == RpcInit => NonceIsHeld /\ CallInv
    BY RpcAssumption DEF RpcInit, NonceIsHeld, Answer, CallInv, Progress, Over, Unanswered, Answered, Sent

(* A step of one call leaves the others where they are.                    *)
LEMMA OthersProgress ==
    ASSUME DigestTypeOK, CallInv, NEW r \in Requester, NEW place, Move(r, place),
           \A q \in Requester \ {r} :
               UNCHANGED <<size[q], part[q], asked[q], reply[q]>>,
           Progress(r)'
    PROVE  \A q \in Requester : Progress(q)'
<1> SUFFICES ASSUME NEW q \in Requester, q # r PROVE Progress(q)'
    OBVIOUS
<1>1. at'[q] = at[q]
    BY DEF DigestTypeOK, Move
<1>2. UNCHANGED <<size[q], part[q], asked[q], reply[q]>>
    OBVIOUS
<1> QED
    BY <1>1, <1>2 DEF CallInv, Progress, Unanswered, Answered, Sent

(* A call that is over keeps nothing.                                      *)
LEMMA EndKeepsCalls ==
    ASSUME DigestTypeOK, CallInv, NEW r \in Requester, NEW result \in Over, EndWith(r, result)
    PROVE  CallInv'
<1> USE RpcAssumption
<1>1. /\ Move(r, result) /\ calls' = calls
      /\ size' = [size EXCEPT ![r] = 0] /\ part' = [part EXCEPT ![r] = 0]
      /\ asked' = [asked EXCEPT ![r] = <<>>] /\ reply' = [reply EXCEPT ![r] = Answer]
    BY DEF EndWith
<1>2. /\ size' \in [Requester -> 0..MaxSize] /\ part' \in [Requester -> 0..MaxSize + 1]
      /\ asked' \in [Requester -> Seq(1..MaxSize)] /\ calls' \in 0..MaxCalls
    BY <1>1 DEF CallInv
<1>3. Progress(r)'
  <2>1. at'[r] = result /\ size'[r] = 0 /\ part'[r] = 0 /\ asked'[r] = <<>>
    BY <1>1 DEF DigestTypeOK, CallInv, Move
  <2> QED
    BY <2>1 DEF Progress, Over, Unanswered, Answered, Sent
<1>4. \A q \in Requester \ {r} : UNCHANGED <<size[q], part[q], asked[q], reply[q]>>
    BY <1>1 DEF CallInv, DigestTypeOK
<1> QED
    BY <1>1, <1>2, <1>3, <1>4, OthersProgress DEF CallInv

(* Every step of a call but its end.                                       *)
LEMMA GoingOnKeepsCalls ==
    ASSUME DigestTypeOK, NonceIsHeld, CallInv, NEW r \in Requester,
           \/ \E n \in 0..MaxSize : Begin(r, n)
           \/ Send(r) \/ Resend(r) \/ Wake(r) \/ Challenge(r)
           \/ StartBody(r) \/ BodyArrives(r) \/ NeverEnds(r)
    PROVE  CallInv'
<1> USE RpcAssumption
<1>1. /\ asked' = asked /\ size[r] \in Nat /\ part[r] \in Nat /\ Progress(r)
      /\ \A q \in Requester \ {r} : UNCHANGED <<size[q], part[q], asked[q], reply[q]>>
    BY DEF Begin, Send, Resend, Wake, Challenge, HeadArrives, StartBody, BodyArrives, NeverEnds,
           CallInv, DigestTypeOK
<1>2. PICK place : Move(r, place)
    BY DEF Begin, Send, Resend, Wake, Challenge, HeadArrives, StartBody, BodyArrives, NeverEnds
<1>3. at'[r] = place /\ at \in [Requester -> CallPlaces]
    BY <1>2 DEF DigestTypeOK, Move
<1>4. LastPart(size[r]) \in Nat /\ LastPart(size[r]) <= size[r] /\ size[r] <= MaxSize
    BY <1>1, LastPartCovers DEF CallInv
<1>5. /\ size' \in [Requester -> 0..MaxSize] /\ part' \in [Requester -> 0..MaxSize + 1]
      /\ calls' \in 0..MaxCalls
  <2>1. CASE \E n \in 0..MaxSize : Begin(r, n)
    BY <2>1 DEF Begin, CallInv
  <2>2. CASE BodyArrives(r)
    <3>1. part[r] <= LastPart(size[r])
      BY <1>1, <2>2 DEF BodyArrives, Progress, Answered
    <3> QED
      BY <1>1, <1>4, <2>2, <3>1 DEF BodyArrives, CallInv
  <2> QED
    BY <2>1, <2>2 DEF Send, Resend, Wake, Challenge, StartBody, NeverEnds, CallInv
<1>6. Progress(r)'
  <2>1. CASE \E n \in 0..MaxSize : Begin(r, n)
    <3>1. PICK n \in 0..MaxSize : Begin(r, n)
      BY <2>1
    <3>2. /\ at'[r] = "next" /\ size'[r] = n /\ part'[r] = 0 /\ asked'[r] = <<>>
      BY <1>1, <1>3, <3>1 DEF Begin, CallInv, Progress, Over, Move
    <3>3. Limit * 0 = 0 /\ InParts(n, 0) = 0
      BY DEF InParts
    <3> QED
      BY <3>2, <3>3 DEF Progress, Over, Unanswered, Answered, Sent
  <2>2. CASE Send(r)
    <3>1. /\ at[r] = "next" /\ part[r] <= LastPart(size[r]) /\ Row(size[r], part[r]) # <<>>
          /\ at'[r] = "sent" /\ UNCHANGED <<size, part, asked>>
      BY <1>3, <2>2 DEF Send, Move
    <3>2. Limit * part[r] < size[r] /\ Limit * part[r] \in Nat
      <4>1. ~(Limit * part[r] >= size[r])
        BY <1>1, <3>1, RowOfPart, Zenon
      <4>2. Limit * part[r] \in Nat
        BY <1>1, PartsFollow, Zenon
      <4> QED
        BY <1>1, <4>1, <4>2
    <3>3. Len(asked[r]) = Limit * part[r]
      BY <1>1, <3>1, <3>2 DEF Progress, InParts
    <3> QED
      BY <3>1, <3>2, <3>3 DEF Progress, Over, Unanswered, Answered, Sent
  <2>3. CASE Resend(r)
    <3>1. Unanswered(r) /\ at'[r] = "resent" /\ UNCHANGED <<size, part, asked>>
      BY <1>3, <2>3 DEF Resend, Refused, Unanswered, Move
    <3> QED
      BY <1>1, <3>1 DEF Progress, Over, Answered, Sent
  <2>4. CASE Wake(r)
    <3>1. at[r] = "asleep" /\ at'[r] = "head" /\ UNCHANGED <<size, part, asked, reply>>
      BY <1>3, <2>4 DEF Wake, Move
    <3> QED
      BY <1>1, <3>1 DEF Progress, Over, Unanswered, Answered, Sent
  <2>5. CASE Challenge(r)
    <3>1. Unanswered(r) /\ at'[r] \in {"asleep", "head"} /\ UNCHANGED <<size, part, asked>>
      BY <1>3, <2>5 DEF Challenge, HeadArrives, Unanswered, Move
    <3>2. PICK usable : reply' = [reply EXCEPT ![r] = [nonce |-> issued + 1, usable |-> usable]]
      BY <2>5 DEF Challenge, HeadArrives
    <3>3. reply'[r].nonce # 0
      BY <3>2 DEF DigestTypeOK
    <3> QED
      BY <1>1, <3>1, <3>3 DEF Progress, Over, Unanswered, Answered, Sent
  <2>6. CASE StartBody(r)
    <3>1. Answered(r) /\ at'[r] = "body" /\ UNCHANGED <<size, part, asked>>
      BY <1>3, <2>6 DEF StartBody, Answered, Move
    <3> QED
      BY <1>1, <3>1 DEF Progress, Over, Unanswered, Answered, Sent
  <2>7. CASE BodyArrives(r)
    <3>1. Answered(r) /\ at'[r] = "next" /\ UNCHANGED <<size, asked>> /\ part'[r] = part[r] + 1
      BY <1>3, <2>7 DEF BodyArrives, Answered, Move, CallInv
    <3> QED
      BY <1>1, <3>1 DEF Progress, Over, Unanswered, Answered, Sent
  <2>8. CASE NeverEnds(r)
    <3>1. at'[r] = "hung"
      BY <1>3, <2>8 DEF NeverEnds, Move
    <3> QED
      BY <3>1 DEF Progress, Over, Unanswered, Answered, Sent
  <2> QED
    BY <2>1, <2>2, <2>3, <2>4, <2>5, <2>6, <2>7, <2>8
<1> QED
    BY <1>1, <1>2, <1>5, <1>6, OthersProgress DEF CallInv

(* The daemon looks up what comes next.                                    *)
LEMMA ServeKeepsCalls ==
    ASSUME DigestTypeOK, CallInv, NEW r \in Requester, Serve(r)
    PROVE  /\ CallInv'
           /\ \E k \in 1..Limit : /\ Len(asked[r]) + k <= size[r]
                                  /\ asked' = [asked EXCEPT ![r] = @ \o [j \in 1..k |-> Len(asked[r]) + j]]
<1> USE RpcAssumption
<1>1. /\ Unanswered(r) /\ UNCHANGED <<size, part, calls>>
      /\ asked' = [asked EXCEPT ![r] = asked[r] \o Row(size[r], part[r])]
      /\ reply' = [reply EXCEPT ![r] = Answer]
    BY DEF Serve, HeadArrives, Unanswered
<1>2. PICK place \in {"asleep", "head"} : Move(r, place)
    BY DEF Serve, HeadArrives
<1>3. /\ size[r] \in 0..MaxSize /\ part[r] \in Nat /\ asked[r] \in Seq(1..MaxSize)
      /\ Len(asked[r]) = Limit * part[r] /\ Limit * part[r] < size[r]
      /\ part[r] <= LastPart(size[r])
    BY <1>1 DEF CallInv, Progress
<1>4. PICK k \in 1..Limit :
         /\ Row(size[r], part[r]) = [j \in 1..k |-> Limit * part[r] + j]
         /\ Limit * part[r] + k = InParts(size[r], part[r] + 1)
         /\ Limit * part[r] + k <= size[r]
         /\ Row(size[r], part[r]) \in Seq(1..size[r]) /\ Len(Row(size[r], part[r])) = k
  <2>1. size[r] \in Nat
    BY <1>3
  <2> QED
    BY <1>3, <2>1, RowOfPart, Zenon
<1>5. Row(size[r], part[r]) \in Seq(1..MaxSize)
  <2> DEFINE m == Limit * part[r]
  <2>1. m \in Nat /\ m + k <= size[r] /\ Row(size[r], part[r]) = [j \in 1..k |-> m + j]
    BY <1>3, <1>4, PartsFollow, Zenon
  <2> HIDE DEF m
  <2>2. \A j \in 1..k : m + j \in 1..MaxSize
    BY <1>3, <2>1
  <2> QED
    BY <2>1, <2>2
<1>6. asked'[r] = asked[r] \o Row(size[r], part[r]) /\ asked' \in [Requester -> Seq(1..MaxSize)]
    BY <1>1, <1>3, <1>5 DEF CallInv
<1>7. Len(asked'[r]) = InParts(size[r], part[r] + 1)
    BY <1>3, <1>4, <1>5, <1>6
<1>8. at'[r] = place /\ reply'[r].nonce = 0
    BY <1>1, <1>2 DEF DigestTypeOK, Move, Answer
<1>9. Progress(r)'
    BY <1>1, <1>3, <1>7, <1>8 DEF Progress, Over, Unanswered, Answered, Sent
<1>10. \A q \in Requester \ {r} : UNCHANGED <<size[q], part[q], asked[q], reply[q]>>
    BY <1>1 DEF CallInv, DigestTypeOK
<1>11. CallInv'
    BY <1>1, <1>2, <1>6, <1>9, <1>10, OthersProgress DEF CallInv
<1> QED
    BY <1>1, <1>3, <1>4, <1>11

(* Every step of the client keeps the account of what was asked for.       *)
LEMMA StepCalls ==
    ASSUME DigestTypeOK, NonceIsHeld, CallInv, NEW r \in Requester, ClientStep(r)
    PROVE  CallInv'
<1>1. CASE Close(r) \/ Finish(r) \/ Unauthorized(r) \/ Timeout(r) \/ BodyFails(r)
    BY <1>1, EndKeepsCalls DEF Close, Finish, Unauthorized, Timeout, BodyFails, Over
<1> QED
    BY <1>1, GoingOnKeepsCalls, ServeKeepsCalls DEF ClientStep, RpcStep

-----------------------------------------------------------------------------
(***************************************************************************)
(* The abstract call: the refinement mapping of RpcClient.                 *)
(***************************************************************************)
(* A step of one call changes its own abstract call and no other.          *)
LEMMA OneAbstractCall ==
    ASSUME DigestTypeOK, CallInv, NEW r \in Requester, NEW place, Move(r, place),
           \A q \in Requester \ {r} : UNCHANGED <<size[q], asked[q]>>
    PROVE  /\ AbstractCalls' = [AbstractCalls EXCEPT ![r] = AbstractCall(r)']
           /\ AbstractCalls[r] = AbstractCall(r)
<1>1. \A q \in Requester \ {r} : AbstractCall(q)' = AbstractCall(q)
    BY DEF AbstractCall, DigestTypeOK, Move
<1> QED
    BY <1>1 DEF AbstractCalls

(* Every step of the client is one of the abstract client, or is not seen. *)
LEMMA StepAbstract ==
    ASSUME DigestTypeOK, NonceIsHeld, CallInv, NEW r \in Requester, ClientStep(r)
    PROVE  [Abstract!Next]_AbstractCalls
<1> USE RpcAssumption
<1>1. /\ size[r] \in 0..MaxSize /\ part[r] \in Nat /\ asked[r] \in Seq(1..MaxSize) /\ Progress(r)
      /\ at \in [Requester -> CallPlaces]
    BY DEF CallInv, DigestTypeOK
<1>2. ASSUME NEW result \in Over, EndWith(r, result),
             \/ result = "idle"
             \/ result = "failed" /\ at[r] \notin Over
             \/ result = "ok" /\ at[r] \notin Over /\ Len(asked[r]) = size[r]
      PROVE  [Abstract!Next]_AbstractCalls
  <2>1. /\ AbstractCalls' = [AbstractCalls EXCEPT ![r] = AbstractCall(r)']
        /\ AbstractCalls[r] = AbstractCall(r)
    BY <1>2, OneAbstractCall DEF EndWith, CallInv
  <2>2. AbstractCall(r)' = [state |-> result, size |-> 0, asked |-> <<>>]
    BY <1>1, <1>2 DEF AbstractCall, EndWith, Move, CallInv
  <2>3. at[r] \notin Over => AbstractCall(r).state = "open"
    BY DEF AbstractCall, Over
  <2>4. AbstractCall(r).size = size[r] /\ AbstractCall(r).asked = asked[r]
    BY DEF AbstractCall, Over
  <2>5. CASE result = "idle"
    BY <2>1, <2>2, <2>5 DEF Abstract!Next, Abstract!End, Abstract!NoCall
  <2>6. CASE result = "failed" /\ at[r] \notin Over
    BY <2>1, <2>2, <2>3, <2>6
       DEF Abstract!Next, Abstract!Fail, Abstract!NoCall
  <2>7. CASE result = "ok" /\ at[r] \notin Over /\ Len(asked[r]) = size[r]
    BY <2>1, <2>2, <2>3, <2>4, <2>7
       DEF Abstract!Next, Abstract!Succeed, Abstract!NoCall
  <2> QED
    BY <1>2, <2>5, <2>6, <2>7
<1>3. CASE Close(r)
    BY <1>2, <1>3 DEF Close, Over
<1>4. CASE Unauthorized(r) \/ Timeout(r) \/ BodyFails(r)
  <2>1. at[r] \notin Over /\ EndWith(r, "failed")
    BY <1>4 DEF Unauthorized, Timeout, BodyFails, Over, Refused, Sent
  <2> QED
    BY <1>2, <2>1 DEF Over
<1>5. CASE Finish(r)
  <2>1. at[r] = "next" /\ EndWith(r, "ok") /\ Len(asked[r]) = InParts(size[r], part[r])
    BY <1>1, <1>5 DEF Finish, Progress
  <2>2. Limit * part[r] >= size[r] /\ Limit * part[r] \in Nat
    <3>1. size[r] \in Nat /\ Limit * part[r] \in Nat
      BY <1>1, PartsFollow
    <3>2. part[r] > LastPart(size[r]) => Limit * part[r] > size[r]
      BY <1>1, <3>1, LastPartCovers, Zenon
    <3>3. Row(size[r], part[r]) = <<>> => ~(Limit * part[r] < size[r])
      BY <1>1, <3>1, RowOfPart, Zenon
    <3> QED
      BY <1>1, <1>5, <3>1, <3>2, <3>3 DEF Finish
  <2>3. Len(asked[r]) = size[r]
    BY <1>1, <2>1, <2>2 DEF InParts
  <2> QED
    BY <1>2, <2>1, <2>3 DEF Over
<1>6. CASE \E n \in 0..MaxSize : Begin(r, n)
  <2>1. PICK n \in 0..MaxSize : Begin(r, n)
    BY <1>6
  <2>2. /\ AbstractCalls' = [AbstractCalls EXCEPT ![r] = AbstractCall(r)']
        /\ AbstractCalls[r] = AbstractCall(r)
    BY <2>1, OneAbstractCall DEF Begin, CallInv
  <2>3. AbstractCall(r).state = "idle" /\ AbstractCall(r)' = [state |-> "open", size |-> n, asked |-> <<>>]
    BY <1>1, <2>1 DEF AbstractCall, Begin, Move, Over, CallInv, Progress
  <2> QED
    BY <2>2, <2>3 DEF Abstract!Next, Abstract!Begin, Abstract!NoCall
<1>7. CASE Serve(r)
  <2>1. PICK k \in 1..Limit :
           /\ Len(asked[r]) + k <= size[r]
           /\ asked' = [asked EXCEPT ![r] = @ \o [j \in 1..k |-> Len(asked[r]) + j]]
    BY <1>7, ServeKeepsCalls
  <2>2. /\ AbstractCalls' = [AbstractCalls EXCEPT ![r] = AbstractCall(r)']
        /\ AbstractCalls[r] = AbstractCall(r)
    BY <1>7, <2>1, OneAbstractCall DEF Serve, HeadArrives, CallInv
  <2>3. /\ AbstractCall(r) = [state |-> "open", size |-> size[r], asked |-> asked[r]]
        /\ AbstractCall(r)' = [state |-> "open", size |-> size[r],
                               asked |-> asked[r] \o [j \in 1..k |-> Len(asked[r]) + j]]
    BY <1>1, <1>7, <2>1 DEF AbstractCall, Serve, Sent, HeadArrives, Move, Over, CallInv
  <2>4. /\ AbstractCalls[r].state = "open" /\ AbstractCalls[r].size = size[r]
        /\ AbstractCalls[r].asked = asked[r]
    BY <2>2, <2>3
  <2>5. Abstract!Ask(r)
    BY <2>1, <2>2, <2>3, <2>4, Zenon DEF Abstract!Ask
  <2> QED
    BY <2>5 DEF Abstract!Next
<1>8. CASE \/ Send(r) \/ Resend(r) \/ Wake(r) \/ Challenge(r)
           \/ StartBody(r) \/ BodyArrives(r) \/ NeverEnds(r)
  <2>1. at[r] \notin Over /\ UNCHANGED <<size, asked>>
    BY <1>8 DEF Send, Resend, Wake, Challenge, StartBody, BodyArrives, NeverEnds, Refused, Sent, Over
  <2>2. PICK place \in CallPlaces \ Over : Move(r, place)
    BY <1>8 DEF Send, Resend, Wake, Challenge, HeadArrives, StartBody, BodyArrives, NeverEnds,
                CallPlaces, Over
  <2>3. \A q \in Requester : AbstractCall(q)' = AbstractCall(q)
    BY <1>1, <2>1, <2>2 DEF AbstractCall, Move, Over
  <2> QED
    BY <2>3 DEF AbstractCalls
<1> QED
    BY <1>3, <1>4, <1>5, <1>6, <1>7, <1>8 DEF ClientStep, RpcStep

-----------------------------------------------------------------------------
(***************************************************************************)
(* Together, for whoever composes the client with its callers.             *)
(***************************************************************************)
RpcInv == DigestInv /\ NonceIsHeld /\ CallInv

(* The inductive invariant has the types in it.                            *)
LEMMA RpcInvTypes == RpcInv => RpcTypeOK
    BY DEF RpcInv, DigestInv, DigestTypeOK, CallInv, RpcTypeOK

(* It holds before the first call, when the abstract client is idle too.   *)
LEMMA RpcInitially == RpcInit => RpcInv /\ Abstract!Init
<1> SUFFICES ASSUME RpcInit PROVE RpcInv /\ Abstract!Init
    OBVIOUS
<1>1. RpcInv
    BY InitDigest, InitCalls DEF RpcInv
<1>2. \A r \in Requester : AbstractCall(r) = Abstract!NoCall
    BY DEF RpcInit, AbstractCall, Abstract!NoCall
<1> QED
    BY <1>1, <1>2 DEF AbstractCalls, Abstract!Init

(* It holds after every step of the client, and the step repeats no header *)
(* and is one that the trait allows.                                       *)
LEMMA RpcStepwise ==
    ASSUME RpcInv, [ClientNext]_rpcVars
    PROVE  RpcInv' /\ (FreshStep \/ UNCHANGED rpcVars) /\ [Abstract!Next]_AbstractCalls
<1>1. ASSUME NEW r \in Requester, ClientStep(r)
      PROVE  RpcInv' /\ FreshStep /\ [Abstract!Next]_AbstractCalls
  <2>1. DigestInv /\ DigestTypeOK /\ NonceIsHeld /\ CallInv
    BY DEF RpcInv, DigestInv
  <2> QED
    BY <1>1, <2>1, StepDigest, StepCalls, StepAbstract DEF RpcInv
<1>2. CASE UNCHANGED rpcVars
  <2>1. UNCHANGED <<at, size, part, asked, reply, header, digest, login, issued, used, calls>>
    BY <1>2 DEF rpcVars, callVars, authVars
  <2>2. RpcInv'
    BY <2>1 DEF RpcInv, DigestInv, DigestTypeOK, UsedBelowCounter, ChallengeUntouched, NonceIsHeld,
                CallInv, Progress, Unanswered, Answered, Sent
  <2>3. AbstractCalls' = AbstractCalls
    BY <2>1 DEF AbstractCalls, AbstractCall
  <2> QED
    BY <1>2, <2>2, <2>3
<1> QED
    BY <1>1, <1>2 DEF ClientNext
=============================================================================
