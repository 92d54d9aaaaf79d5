---------------------------- MODULE ServerProofs ----------------------------
(***************************************************************************)
(* For any invoices, websockets, buffers, queue and number of failures: no *)
(* update is lost or called back twice, a websocket gets the last word of  *)
(* its invoice, the watching task removes nothing that is pending unless   *)
(* it is behind, and the text of an invoice id is read as this id only.    *)
(***************************************************************************)
EXTENDS Server, FiniteSetTheorems, WellFoundedInduction, TLAPS

-----------------------------------------------------------------------------
(***************************************************************************)
(* Types, in parts; an update that is under way is one.                    *)
(***************************************************************************)
Buffers == Seq(BOOLEAN)
SocketRecords ==
    [at : {"free", "open", "stalled", "ended"}, id : Id \cup {None}, buf : Buffers,
     given : 0..MaxUpdates, closed : BOOLEAN, sender : {"kept", "behind", "gone"}]

StoreTypeOK == invoices \in [Id -> Invoices \cup {None}] /\ made \subseteq Id

ScanTypeOK ==
    /\ scan \in [at : {"idle", "save", "invoice", "global"}, update : Updates \cup {None}]
    /\ scan.at # "idle" => scan.update \in Updates
    /\ count \in 0..MaxUpdates

LoopTypeOK ==
    /\ inbox \in Seq(Updates) /\ Len(inbox) <= BufferLen
    /\ loop \in [at : {"start", "recv", "send", "remove"}, update : Updates \cup {None}]
    /\ loop.at \in {"send", "remove"} => loop.update \in Updates
    /\ missed \subseteq 1..MaxUpdates

FailureRecords ==
    [total : 0..MaxFailures, retries : [1..MaxUpdates -> Nat], removal : BOOLEAN]
CallRecords == [n : 1..MaxUpdates, at : {"call", "requeue"}]

QueueTypeOK ==
    /\ queue \in Seq(1..MaxUpdates) /\ Len(queue) <= QueueSize
    /\ calls \subseteq CallRecords
    /\ acked \subseteq 1..MaxUpdates
    /\ failures \in FailureRecords

SocketTypeOK == socket \in [Socket -> SocketRecords] /\ stale \subseteq Id

Types == StoreTypeOK /\ ScanTypeOK /\ LoopTypeOK /\ QueueTypeOK /\ SocketTypeOK

(* The fields of a websocket.                                              *)
LEMMA SocketFields ==
    ASSUME NEW k \in SocketRecords
    PROVE  /\ k.at \in {"free", "open", "stalled", "ended"} /\ k.id \in Id \cup {None}
           /\ k.buf \in Buffers /\ k.given \in 0..MaxUpdates
           /\ k.sender \in {"kept", "behind", "gone"}
    BY DEF SocketRecords

(* Changes of a websocket.                                                 *)
LEMMA SocketChanges ==
    ASSUME NEW k \in SocketRecords
    PROVE  /\ \A id \in Id, g \in 0..MaxUpdates, w \in {"kept", "behind", "gone"} :
                 [k EXCEPT !.at = "open", !.id = id, !.given = g, !.sender = w] \in SocketRecords
           /\ \A b \in Buffers, g \in 0..MaxUpdates, w \in {"kept", "behind", "gone"} :
                 [k EXCEPT !.buf = b, !.given = g, !.sender = w] \in SocketRecords
           /\ \A b \in Buffers, f \in BOOLEAN :
                 [k EXCEPT !.buf = b, !.closed = f] \in SocketRecords
           /\ \A b \in Buffers : [k EXCEPT !.at = "stalled", !.buf = b] \in SocketRecords
           /\ [k EXCEPT !.at = "ended"] \in SocketRecords
    BY DEF SocketRecords

(* Reading and writing a buffer.                                           *)
LEMMA TailInSeq ==
    ASSUME NEW S, NEW b \in Seq(S), b # <<>>
    PROVE  Tail(b) \in Seq(S) /\ Head(b) \in S
    OBVIOUS

(* A new websocket has an empty buffer.                                    *)
LEMMA NoSocketType == NoSocket \in SocketRecords
<1>1. <<>> \in Buffers
    BY DEF Buffers
<1> QED
    BY <1>1, ServerAssumption DEF NoSocket, SocketRecords

(* One thing more has failed.                                              *)
LEMMA FailureChanges ==
    ASSUME NEW f \in FailureRecords, f.total < MaxFailures
    PROVE  /\ [f EXCEPT !.total = @ + 1] \in FailureRecords
           /\ [f EXCEPT !.total = @ + 1, !.removal = TRUE] \in FailureRecords
           /\ \A n \in 1..MaxUpdates :
                 [f EXCEPT !.total = @ + 1, !.retries[n] = @ + 1] \in FailureRecords
<1> USE ServerAssumption
<1>1. f.total \in 0..MaxFailures /\ f.retries \in [1..MaxUpdates -> Nat] /\ f.removal \in BOOLEAN
    BY DEF FailureRecords
<1>2. f.total + 1 \in 0..MaxFailures
    BY <1>1
<1>3. \A n \in 1..MaxUpdates : [f.retries EXCEPT ![n] = @ + 1] \in [1..MaxUpdates -> Nat]
    BY <1>1
<1> QED
    BY <1>1, <1>2, <1>3 DEF FailureRecords

(* At first there is nothing.                                              *)
LEMMA InitTypes == Init => Types
<1> SUFFICES ASSUME Init PROVE Types
    OBVIOUS
<1> USE ServerAssumption
<1>2. StoreTypeOK /\ SocketTypeOK
    BY NoSocketType DEF Init, StoreTypeOK, SocketTypeOK
<1>3. ScanTypeOK /\ LoopTypeOK
    BY DEF Init, NoScan, ScanTypeOK, LoopTypeOK
<1>4. QueueTypeOK
    BY DEF Init, NoFailures, FailureRecords, QueueTypeOK
<1> QED
    BY <1>2, <1>3, <1>4 DEF Types

(* The API.                                                                *)
LEMMA ApiTypes ==
    ASSUME Types,
           \/ \E id \in Id : NewInvoice(id)
           \/ \E text \in Texts : DeleteInvoice(text) \/ UpgradeFails(text)
           \/ \E s \in Socket, text \in Texts : OpenSocket(s, text)
    PROVE  Types'
<1> USE ServerAssumption DEF Types
<1>1. ASSUME NEW id \in Id, NewInvoice(id)
      PROVE  Types'
  <2>1. [paid |-> FALSE, confirmed |-> FALSE, expired |-> FALSE] \in Invoices
    BY DEF Invoices
  <2>2. StoreTypeOK'
    BY <1>1, <2>1 DEF NewInvoice, StoreTypeOK
  <2> QED
    BY <1>1, <2>2 DEF NewInvoice, ScanTypeOK, LoopTypeOK, QueueTypeOK, SocketTypeOK
<1>2. ASSUME NEW text \in Texts, DeleteInvoice(text)
      PROVE  Types'
  <2>1. StoreTypeOK'
    BY <1>2 DEF DeleteInvoice, Removed, StoreTypeOK
  <2> QED
    BY <1>2, <2>1 DEF DeleteInvoice, ScanTypeOK, LoopTypeOK, QueueTypeOK, SocketTypeOK
<1>3. ASSUME NEW s \in Socket, NEW text \in Texts, OpenSocket(s, text)
      PROVE  Types'
  <2> DEFINE w == IF Decode(text) \in stale THEN "behind" ELSE "kept"
  <2>1. /\ socket' = [socket EXCEPT ![s] = [@ EXCEPT !.at = "open", !.id = Decode(text), !.given = count,
                                                    !.sender = w]]
        /\ Decode(text) \in Id /\ count \in 0..MaxUpdates /\ w \in {"kept", "behind", "gone"}
        /\ stale' = stale
    BY <1>3 DEF OpenSocket, ScanTypeOK, SocketTypeOK
  <2> HIDE DEF w
  <2>2. SocketTypeOK'
    BY <2>1, SocketChanges DEF SocketTypeOK
  <2> QED
    BY <1>3, <2>2 DEF OpenSocket, StoreTypeOK, ScanTypeOK, LoopTypeOK, QueueTypeOK
<1>4. ASSUME NEW text \in Texts, UpgradeFails(text)
      PROVE  Types'
  <2>1. SocketTypeOK'
    BY <1>4 DEF UpgradeFails, SocketTypeOK
  <2>2. QueueTypeOK'
    BY <1>4, FailureChanges DEF UpgradeFails, QueueTypeOK
  <2> QED
    BY <1>4, <2>1, <2>2 DEF UpgradeFails, StoreTypeOK, ScanTypeOK, LoopTypeOK
<1> QED
    BY <1>1, <1>2, <1>3, <1>4

(* The scanner: it reads an invoice, saves it, and publishes it.           *)
LEMMA ScannerTypes ==
    ASSUME Types, (\E id \in Id : ReadInvoice(id)) \/ Publish
    PROVE  Types'
<1> USE ServerAssumption DEF Types
<1>1. ASSUME NEW id \in Id, ReadInvoice(id)
      PROVE  Types'
  <2>1. PICK new \in Invoices :
           scan' = [at |-> "save", update |-> [n |-> count + 1, id |-> id, invoice |-> new]]
    BY <1>1 DEF ReadInvoice
  <2>2. count' = count + 1 /\ count + 1 \in 1..MaxUpdates
    BY <1>1 DEF ReadInvoice, ScanTypeOK
  <2>3. scan'.update \in Updates /\ scan' = [at |-> "save", update |-> scan'.update]
    BY <2>1, <2>2 DEF Updates
  <2>4. ScanTypeOK'
    BY <2>2, <2>3 DEF ScanTypeOK
  <2> QED
    BY <1>1, <2>4 DEF ReadInvoice, StoreTypeOK, LoopTypeOK, QueueTypeOK, SocketTypeOK
<1>2. ASSUME NEW stage \in {"save", "invoice", "global"}, scan.at = stage, scan' = After(stage),
             UNCHANGED count
      PROVE  ScanTypeOK'
    BY <1>2 DEF ScanTypeOK, After, NoScan
<1>3. CASE SaveInvoice
  <2>1. ScanTypeOK'
    BY <1>2, <1>3 DEF SaveInvoice
  <2>2. scan.update \in Updates /\ scan.update.id \in Id /\ scan.update.invoice \in Invoices
    BY <1>3 DEF SaveInvoice, ScanTypeOK, Updates
  <2>3. StoreTypeOK'
    BY <1>3, <2>2 DEF SaveInvoice, StoreTypeOK
  <2> QED
    BY <1>3, <2>1, <2>3 DEF SaveInvoice, LoopTypeOK, QueueTypeOK, SocketTypeOK
<1>4. CASE PublishToInvoice
  <2>1. ScanTypeOK'
    BY <1>2, <1>4 DEF PublishToInvoice
  <2>2. scan.update.n \in 0..MaxUpdates
    <3>1. scan.at = "invoice"
      BY <1>4, Zenon DEF PublishToInvoice
    <3> QED
      BY <3>1 DEF ScanTypeOK, Updates
  <2> DEFINE final == IsFinal(scan.update.invoice)
  <2>3. \A s \in Socket : Append(socket[s].buf, final) \in Buffers
    <3>1. final \in BOOLEAN
      BY DEF IsFinal
    <3> QED
      BY <3>1, SocketFields DEF SocketTypeOK, Buffers
  <2>6. \A s \in Socket : StaysListed(socket[s].sender) \in {"kept", "behind", "gone"}
    BY SocketFields DEF SocketTypeOK, StaysListed
  <2>4. \A s \in Socket : [socket[s] EXCEPT !.buf = Append(socket[s].buf, final),
                                            !.given = scan.update.n,
                                            !.sender = StaysListed(socket[s].sender)] \in SocketRecords
    BY <2>2, <2>3, <2>6, SocketChanges, Zenon DEF SocketTypeOK
  <2>5. SocketTypeOK'
    BY <1>4, <2>4 DEF PublishToInvoice, SocketTypeOK
  <2> QED
    BY <1>4, <2>1, <2>5 DEF PublishToInvoice, StoreTypeOK, LoopTypeOK, QueueTypeOK
<1>5. CASE PublishToAll
  <2>1. ScanTypeOK'
    BY <1>2, <1>5 DEF PublishToAll
  <2>2. scan.update \in Updates /\ scan.update.n \in 1..MaxUpdates
    BY <1>5 DEF PublishToAll, ScanTypeOK, Updates
  <2>3. LoopTypeOK'
    <3>1. CASE inbox' = Append(inbox, scan.update) /\ missed' = missed /\ Len(inbox) < BufferLen
      <4>1. inbox' \in Seq(Updates) /\ Len(inbox') <= BufferLen
        BY <2>2, <3>1 DEF LoopTypeOK
      <4> QED
        BY <1>5, <3>1, <4>1 DEF PublishToAll, LoopTypeOK
    <3>2. CASE inbox' = inbox /\ missed' = missed \cup {scan.update.n}
      BY <1>5, <2>2, <3>2 DEF PublishToAll, LoopTypeOK
    <3> QED
      BY <1>5, <3>1, <3>2, Zenon DEF PublishToAll
  <2> QED
    BY <1>5, <2>1, <2>3 DEF PublishToAll, StoreTypeOK, QueueTypeOK, SocketTypeOK
<1> QED
    BY <1>1, <1>3, <1>4, <1>5 DEF Publish

(* The watching task.                                                      *)
LEMMA WatchTypes ==
    ASSUME Types, Watch
    PROVE  Types'
<1> USE ServerAssumption DEF Types
<1>1. UNCHANGED <<made, scan, count, missed, calls, acked, socket, stale>>
    BY DEF Watch, SubscribeAll, Receive, SendCommand, RemoveInvoice, RemoveFails
<1>2. ScanTypeOK' /\ SocketTypeOK'
    BY <1>1 DEF ScanTypeOK, SocketTypeOK
<1>3. StoreTypeOK'
    BY <1>1 DEF Watch, SubscribeAll, Receive, SendCommand, RemoveInvoice, RemoveFails, Removed,
                StoreTypeOK
<1>4. LoopTypeOK'
  <2>1. CASE SubscribeAll \/ RemoveInvoice \/ RemoveFails
    BY <1>1, <2>1 DEF SubscribeAll, RemoveInvoice, RemoveFails, LoopTypeOK
  <2>2. CASE Receive
    <3>1. Head(inbox) \in Updates /\ Tail(inbox) \in Seq(Updates) /\ Len(Tail(inbox)) <= BufferLen
      BY <2>2 DEF Receive, LoopTypeOK
    <3> QED
      BY <1>1, <2>2, <3>1 DEF Receive, LoopTypeOK
  <2>3. CASE SendCommand
    <3>1. loop' = [loop EXCEPT !.at = "remove"] \/ loop' = [at |-> "recv", update |-> None]
      BY <2>3, Zenon DEF SendCommand
    <3> QED
      BY <1>1, <2>3, <3>1 DEF SendCommand, LoopTypeOK
  <2> QED
    BY <2>1, <2>2, <2>3 DEF Watch
<1>5. QueueTypeOK'
  <2>1. CASE SendCommand
    <3>1. loop.update.n \in 1..MaxUpdates
      BY <2>1 DEF SendCommand, LoopTypeOK, Updates
    <3> QED
      BY <1>1, <2>1, <3>1 DEF SendCommand, QueueTypeOK
  <2>2. CASE SubscribeAll \/ Receive \/ RemoveInvoice
    BY <1>1, <2>2 DEF SubscribeAll, Receive, RemoveInvoice, QueueTypeOK
  <2>3. CASE RemoveFails
    BY <1>1, <2>3, FailureChanges DEF RemoveFails, QueueTypeOK
  <2> QED
    BY <2>1, <2>2, <2>3 DEF Watch
<1> QED
    BY <1>2, <1>3, <1>4, <1>5

(* The callback queue.                                                     *)
LEMMA CallbackTypes ==
    ASSUME Types, TakeCommand \/ \E c \in calls : CallSucceeds(c) \/ CallFails(c) \/ Requeue(c)
    PROVE  Types'
<1> USE ServerAssumption DEF Types
<1>1. UNCHANGED <<invoices, made, scan, count, inbox, loop, missed, socket, stale>>
    BY DEF TakeCommand, CallSucceeds, CallFails, Requeue
<1>2. StoreTypeOK' /\ ScanTypeOK' /\ LoopTypeOK' /\ SocketTypeOK'
    BY <1>1 DEF StoreTypeOK, ScanTypeOK, LoopTypeOK, SocketTypeOK
<1>3. CASE TakeCommand
  <2>1. Head(queue) \in 1..MaxUpdates /\ Tail(queue) \in Seq(1..MaxUpdates) /\ Len(Tail(queue)) <= QueueSize
    BY <1>3 DEF TakeCommand, QueueTypeOK
  <2> QED
    BY <1>2, <1>3, <2>1 DEF TakeCommand, QueueTypeOK, CallRecords
<1>4. ASSUME NEW c \in calls, CallSucceeds(c) \/ CallFails(c) \/ Requeue(c)
      PROVE  Types'
  <2>1. c \in CallRecords /\ c.n \in 1..MaxUpdates /\ [c EXCEPT !.at = "requeue"] \in CallRecords
    BY DEF QueueTypeOK, CallRecords
  <2>2. CASE CallSucceeds(c)
    BY <1>2, <2>1, <2>2 DEF CallSucceeds, QueueTypeOK
  <2>3. CASE CallFails(c)
    <3>1. failures' \in FailureRecords
      BY <2>1, <2>3, FailureChanges DEF CallFails, QueueTypeOK
    <3> QED
      BY <1>2, <2>1, <2>3, <3>1 DEF CallFails, QueueTypeOK
  <2>4. CASE Requeue(c)
    BY <1>2, <2>1, <2>4 DEF Requeue, QueueTypeOK
  <2> QED
    BY <1>4, <2>2, <2>3, <2>4
<1> QED
    BY <1>3, <1>4

(* The websockets.                                                         *)
LEMMA SocketTypes ==
    ASSUME Types, NEW s \in Socket, Forward(s) \/ ClientStalls(s) \/ EndSocket(s)
    PROVE  Types'
<1> USE ServerAssumption DEF Types
<1>1. UNCHANGED <<invoices, made, scan, count, inbox, loop, missed, queue, calls, acked, failures, stale>>
    BY DEF Forward, ClientStalls, EndSocket
<1>2. StoreTypeOK' /\ ScanTypeOK' /\ LoopTypeOK' /\ QueueTypeOK'
    BY <1>1 DEF StoreTypeOK, ScanTypeOK, LoopTypeOK, QueueTypeOK
<1>3. socket[s] \in SocketRecords
    BY DEF SocketTypeOK
<1>4. socket[s].buf # <<>> => Tail(socket[s].buf) \in Buffers
    BY <1>3, SocketFields, TailInSeq, Zenon DEF Buffers
<1>5. CASE Forward(s)
  <2> DEFINE shut == socket[s].closed \/ Head(socket[s].buf)
  <2>1. socket' = [socket EXCEPT ![s] = [socket[s] EXCEPT !.buf = Tail(socket[s].buf), !.closed = shut]]
    BY <1>3, <1>5 DEF Forward, SocketTypeOK
  <2>2. [socket[s] EXCEPT !.buf = Tail(socket[s].buf), !.closed = shut] \in SocketRecords
    BY <1>3, <1>4, <1>5, SocketChanges, Zenon DEF Forward
  <2>3. SocketTypeOK'
    BY <1>1, <2>1, <2>2, Zenon DEF SocketTypeOK
  <2> QED
    BY <1>2, <2>3
<1>6. CASE ClientStalls(s)
  <2>1. socket' = [socket EXCEPT ![s] = [socket[s] EXCEPT !.at = "stalled", !.buf = Tail(socket[s].buf)]]
    BY <1>3, <1>6 DEF ClientStalls, SocketTypeOK
  <2>2. [socket[s] EXCEPT !.at = "stalled", !.buf = Tail(socket[s].buf)] \in SocketRecords
    BY <1>3, <1>4, <1>6, SocketChanges, Zenon DEF ClientStalls
  <2>3. SocketTypeOK'
    BY <1>1, <2>1, <2>2, Zenon DEF SocketTypeOK
  <2> QED
    BY <1>2, <2>3
<1>7. CASE EndSocket(s)
  <2>1. [NoSocket EXCEPT !.at = "ended"] \in SocketRecords
    BY NoSocketType, SocketChanges, Zenon
  <2>2. SocketTypeOK'
    BY <1>1, <1>7, <2>1, Zenon DEF EndSocket, SocketTypeOK
  <2> QED
    BY <1>2, <2>2
<1> QED
    BY <1>5, <1>6, <1>7

(* Every step.                                                             *)
LEMMA StepTypes == Types /\ [Next]_vars => Types'
<1>1. Types /\ UNCHANGED vars => Types'
    BY DEF vars, Types, StoreTypeOK, ScanTypeOK, LoopTypeOK, QueueTypeOK, SocketTypeOK
<1> QED
    BY <1>1, ApiTypes, ScannerTypes, WatchTypes, CallbackTypes, SocketTypes
       DEF Next, CallReturns, Retry

(* The parts in every reachable state.                                     *)
LEMMA TypeInvariance == Spec => []Types
    BY InitTypes, StepTypes, PTL DEF Spec

(* Type correctness of the server.                                         *)
THEOREM TypeCorrect == Spec => []TypeOK
<1>1. Types => TypeOK
    BY DEF Types, StoreTypeOK, ScanTypeOK, LoopTypeOK, QueueTypeOK, SocketTypeOK, SocketRecords,
           Buffers, FailureRecords, CallRecords, TypeOK
<1> QED
    BY <1>1, TypeInvariance, PTL

-----------------------------------------------------------------------------
(***************************************************************************)
(* The course of an update.  Updates are made, saved and published one by  *)
(* one, so those with the watching task are in the order of their numbers  *)
(* and older than the one of the scanner.                                  *)
(***************************************************************************)
Taken == loop.at \in {"send", "remove"}
InInbox == {inbox[i] : i \in 1..Len(inbox)}
Watched == InInbox \cup (IF Taken THEN {loop.update} ELSE {})

StoreKnown == \A id \in Id : invoices[id] # None => id \in made

ScanCurrent == scan.at # "idle" => scan.update.id \in made /\ scan.update.n = count

WatchedKnown ==
    \A u \in Watched : u.id \in made /\ u.n <= count /\ (scan.at # "idle" => u.n < count)

InboxOrdered ==
    /\ \A i, j \in 1..Len(inbox) : i < j => inbox[i].n < inbox[j].n
    /\ Taken => \A i \in 1..Len(inbox) : loop.update.n < inbox[i].n
    /\ loop.at = "start" => inbox = <<>>

Course == StoreKnown /\ ScanCurrent /\ WatchedKnown /\ InboxOrdered

(* Nothing is under way at first.                                          *)
LEMMA InitCourse == Init => Course
    BY DEF Init, NoScan, Course, StoreKnown, ScanCurrent, WatchedKnown, Watched, InInbox, Taken,
           InboxOrdered

(* What the watching task has is updates.                                  *)
LEMMA WatchedTypes ==
    ASSUME Types
    PROVE  /\ \A u \in Watched : u \in Updates /\ u.n \in 1..MaxUpdates /\ u.id \in Id
           /\ count \in Nat
           /\ Len(inbox) \in Nat /\ \A i \in 1..Len(inbox) : inbox[i].n \in Nat
           /\ Taken => loop.update.n \in Nat
<1> USE ServerAssumption
<1>1. count \in Nat /\ Len(inbox) \in Nat
    BY DEF Types, ScanTypeOK, LoopTypeOK
<1>2. \A u \in Updates : u.n \in 1..MaxUpdates /\ u.n \in Nat /\ u.id \in Id
    BY DEF Updates
<1>3. \A i \in 1..Len(inbox) : inbox[i] \in Updates
    BY DEF Types, LoopTypeOK
<1>4. Taken => loop.update \in Updates
    BY DEF Types, LoopTypeOK, Taken
<1> QED
    BY <1>1, <1>2, <1>3, <1>4, Zenon DEF Watched, InInbox

(* A new update goes behind the others.                                    *)
LEMMA PublishCourse ==
    ASSUME Types, Course, PublishToAll
    PROVE  /\ Course'
           /\ loop.at = "start" => Watched' = {}
           /\ loop.at # "start" => Watched' = Watched \cup {scan.update}
<1> USE ServerAssumption
<1>1. /\ scan.at = "global" /\ scan.update.id \in made /\ scan.update.n = count
      /\ scan' = NoScan /\ UNCHANGED <<invoices, made, count, loop>>
    BY DEF PublishToAll, After, Course, ScanCurrent
<1>2. \A u \in Watched : u.id \in made /\ u.n <= count /\ u.n < count /\ u.n \in Nat
    BY <1>1, WatchedTypes DEF Course, WatchedKnown
<1>3. StoreKnown' /\ ScanCurrent'
    BY <1>1 DEF Course, StoreKnown, ScanCurrent, NoScan
<1>4. CASE loop.at = "start"
  <2>1. inbox = <<>> /\ inbox' = inbox /\ ~Taken /\ ~Taken'
    BY <1>1, <1>4 DEF PublishToAll, Course, InboxOrdered, Taken
  <2>2. Watched' = {}
    BY <2>1 DEF Watched, InInbox
  <2> QED
    BY <1>3, <1>4, <2>1, <2>2 DEF Course, WatchedKnown, InboxOrdered
<1>5. CASE loop.at # "start"
  <2>1. inbox' = Append(inbox, scan.update) /\ inbox \in Seq(Updates) /\ scan.update \in Updates
    BY <1>1, <1>5 DEF PublishToAll, Types, LoopTypeOK, ScanTypeOK
  <2>2. /\ Len(inbox') = Len(inbox) + 1 /\ Len(inbox) \in Nat
        /\ \A i \in 1..Len(inbox) : inbox'[i] = inbox[i]
        /\ inbox'[Len(inbox) + 1] = scan.update
    BY <2>1
  <2>3. InInbox' = InInbox \cup {scan.update}
    BY <2>2 DEF InInbox
  <2>4. Taken' = Taken /\ Watched' = Watched \cup {scan.update}
    BY <1>1, <2>3 DEF Taken, Watched
  <2>5. WatchedKnown'
    <3>1. scan'.at = "idle" /\ count' = count /\ made' = made /\ count \in Nat
      BY <1>1, WatchedTypes DEF NoScan
    <3>2. \A u \in Watched' : u \in Watched \/ u = scan.update
      BY <2>4
    <3>3. \A u \in Watched' : u.id \in made' /\ u.n <= count'
      BY <1>1, <1>2, <3>1, <3>2
    <3> QED
      BY <3>1, <3>3 DEF WatchedKnown
  <2>6. \A i \in 1..Len(inbox) : inbox[i].n < scan.update.n
    BY <1>1, <1>2 DEF Watched, InInbox
  <2>7. Taken => loop.update.n < scan.update.n
    BY <1>1, <1>2 DEF Watched
  <2>8. InboxOrdered'
    <3>1. ASSUME NEW i \in 1..Len(inbox'), NEW j \in 1..Len(inbox'), i < j
          PROVE  inbox'[i].n < inbox'[j].n
      <4>1. i \in 1..Len(inbox) /\ inbox'[i] = inbox[i]
        BY <2>2, <3>1
      <4>2. CASE j = Len(inbox) + 1
        BY <2>2, <2>6, <4>1, <4>2
      <4>3. CASE j # Len(inbox) + 1
        <5>1. j \in 1..Len(inbox) /\ inbox'[j] = inbox[j]
          BY <2>2, <4>3
        <5> QED
          BY <3>1, <4>1, <5>1 DEF Course, InboxOrdered
      <4> QED
        BY <4>2, <4>3
    <3>2. Taken' => \A i \in 1..Len(inbox') : loop'.update.n < inbox'[i].n
      BY <1>1, <2>2, <2>4, <2>7 DEF Course, InboxOrdered
    <3> QED
      BY <1>1, <1>5, <3>1, <3>2 DEF InboxOrdered
  <2> QED
    BY <1>3, <1>5, <2>4, <2>5, <2>8 DEF Course
<1> QED
    BY <1>4, <1>5

(* The watching task takes the oldest, and lets go of it.                  *)
LEMMA WatchCourse ==
    ASSUME Types, Course, Watch
    PROVE  /\ Course' /\ Watched' \subseteq Watched
           /\ Watched \ Watched' \subseteq IF Taken THEN {loop.update} ELSE {}
<1> USE ServerAssumption
<1>1. UNCHANGED <<made, scan, count>>
    BY DEF Watch, SubscribeAll, Receive, SendCommand, RemoveInvoice, RemoveFails
<1>2. StoreKnown' /\ ScanCurrent'
    BY <1>1 DEF Course, StoreKnown, ScanCurrent, Watch, SubscribeAll, Receive, SendCommand,
                RemoveInvoice, RemoveFails, Removed, Types, StoreTypeOK
<1>3. CASE Receive
  <2>1. /\ loop.at = "recv" /\ inbox # <<>> /\ inbox \in Seq(Updates)
        /\ loop' = [at |-> "send", update |-> Head(inbox)] /\ inbox' = Tail(inbox)
    BY <1>3 DEF Receive, Types, LoopTypeOK
  <2>2. /\ Len(inbox') = Len(inbox) - 1 /\ Len(inbox) \in Nat \ {0}
        /\ \A i \in 1..Len(inbox') : i + 1 \in 1..Len(inbox) /\ inbox'[i] = inbox[i + 1]
        /\ loop'.update = inbox[1]
    BY <2>1
  <2>3. \A i \in 1..Len(inbox) : i = 1 \/ (i - 1 \in 1..Len(inbox') /\ inbox[i] = inbox'[i - 1])
    BY <2>2
  <2>4. InInbox = InInbox' \cup {loop'.update}
    BY <2>2, <2>3 DEF InInbox
  <2>5. Taken' /\ ~Taken
    BY <2>1 DEF Taken
  <2>6. Watched' = Watched
    BY <2>4, <2>5 DEF Watched
  <2>7. WatchedKnown'
    BY <1>1, <2>6 DEF Course, WatchedKnown
  <2>8. InboxOrdered'
    BY <2>1, <2>2 DEF Course, InboxOrdered
  <2> QED
    BY <1>2, <2>6, <2>7, <2>8 DEF Course
<1>4. CASE SubscribeAll \/ SendCommand \/ RemoveInvoice \/ RemoveFails
  <2>1. inbox' = inbox
    BY <1>4 DEF SubscribeAll, SendCommand, RemoveInvoice, RemoveFails
  <2>2. /\ loop'.at \in {"recv", "remove"}
        /\ loop'.at = "remove" => Taken /\ loop'.update = loop.update
    <3>1. CASE SendCommand
      <4>1. loop' = [loop EXCEPT !.at = "remove"] \/ loop' = [at |-> "recv", update |-> None]
        BY <3>1, Zenon DEF SendCommand
      <4> QED
        BY <3>1, <4>1 DEF SendCommand, Taken, Types, LoopTypeOK
    <3>2. CASE SubscribeAll \/ RemoveInvoice \/ RemoveFails
      BY <3>2 DEF SubscribeAll, RemoveInvoice, RemoveFails
    <3> QED
      BY <1>4, <3>1, <3>2
  <2>3. /\ InInbox' = InInbox
        /\ Watched' \subseteq Watched
        /\ Watched \ Watched' \subseteq IF Taken THEN {loop.update} ELSE {}
    BY <2>1, <2>2 DEF Watched, InInbox, Taken
  <2>4. WatchedKnown'
    BY <1>1, <2>3 DEF Course, WatchedKnown
  <2>5. InboxOrdered'
    BY <2>1, <2>2 DEF Course, InboxOrdered, Taken
  <2> QED
    BY <1>2, <2>3, <2>4, <2>5 DEF Course
<1> QED
    BY <1>3, <1>4 DEF Watch

(* The other steps leave the watching task alone.                          *)
LEMMA OtherCourse ==
    ASSUME Types, Course,
           \/ \E id \in Id : NewInvoice(id) \/ ReadInvoice(id)
           \/ \E text \in Texts : DeleteInvoice(text)
           \/ SaveInvoice \/ PublishToInvoice
           \/ UNCHANGED <<invoices, made, scan, count, inbox, loop>>
    PROVE  Course' /\ Watched' = Watched
<1> USE ServerAssumption
<1>0. UNCHANGED <<inbox, loop>>
    BY DEF NewInvoice, ReadInvoice, DeleteInvoice, SaveInvoice, PublishToInvoice
<1>1. Watched' = Watched /\ InboxOrdered'
    BY <1>0 DEF Watched, InInbox, Taken, Course, InboxOrdered
<1>2. \A u \in Watched : u.n \in Nat /\ count \in Nat
    BY WatchedTypes
<1>3. CASE \E id \in Id : NewInvoice(id)
    BY <1>1, <1>3 DEF NewInvoice, Course, StoreKnown, ScanCurrent, WatchedKnown, Types, StoreTypeOK
<1>4. ASSUME NEW id \in Id, ReadInvoice(id)
      PROVE  Course'
  <2>1. /\ count' = count + 1 /\ scan.at = "idle" /\ invoices[id] # None
        /\ UNCHANGED <<made, invoices>>
        /\ scan'.update.id = id /\ scan'.update.n = count + 1
    BY <1>4 DEF ReadInvoice
  <2>2. StoreKnown' /\ ScanCurrent'
    BY <2>1 DEF Course, StoreKnown, ScanCurrent
  <2>3. WatchedKnown'
    BY <1>1, <1>2, <2>1 DEF Course, WatchedKnown
  <2> QED
    BY <1>1, <2>2, <2>3 DEF Course
<1>5. CASE \E text \in Texts : DeleteInvoice(text)
    BY <1>1, <1>5 DEF DeleteInvoice, Removed, Course, StoreKnown, ScanCurrent, WatchedKnown, Types, StoreTypeOK
<1>6. CASE SaveInvoice \/ PublishToInvoice
  <2>1. /\ UNCHANGED <<made, count>> /\ scan.at # "idle" /\ scan'.update = scan.update
    BY <1>6 DEF SaveInvoice, PublishToInvoice, After, Types, ScanTypeOK
  <2>2. \A id \in Id : invoices'[id] # None => invoices[id] # None
    BY <1>6 DEF SaveInvoice, PublishToInvoice, Types, StoreTypeOK
  <2> QED
    BY <1>1, <2>1, <2>2 DEF Course, StoreKnown, ScanCurrent, WatchedKnown
<1>7. CASE UNCHANGED <<invoices, made, scan, count, inbox, loop>>
    BY <1>1, <1>7 DEF Course, StoreKnown, ScanCurrent, WatchedKnown
<1> QED
    BY <1>1, <1>3, <1>4, <1>5, <1>6, <1>7

(* Callbacks and websockets do not touch the course of updates.            *)
LEMMA QuietSteps ==
    ASSUME \/ TakeCommand
           \/ \E n \in 1..MaxUpdates : CallReturns(n) \/ Retry(n)
           \/ \E text \in Texts : UpgradeFails(text)
           \/ \E s \in Socket, text \in Texts : OpenSocket(s, text)
           \/ \E s \in Socket : Forward(s) \/ ClientStalls(s) \/ EndSocket(s)
           \/ UNCHANGED vars
    PROVE  UNCHANGED <<invoices, made, scan, count, inbox, loop>>
    BY DEF TakeCommand, CallReturns, Retry, CallSucceeds, CallFails, Requeue, UpgradeFails, OpenSocket, Forward,
           ClientStalls, EndSocket, vars

(* Every step.                                                             *)
LEMMA StepCourse == Types /\ Course /\ [Next]_vars => Course'
    BY OtherCourse, PublishCourse, WatchCourse, QuietSteps DEF Next, Publish

(* The order of updates in every reachable state.                          *)
LEMMA CourseInvariance == Spec => []Course
    BY InitCourse, StepCourse, TypeInvariance, PTL DEF Spec

-----------------------------------------------------------------------------
(***************************************************************************)
(* Removal by the watching task.  An update that has been saved is what    *)
(* the database holds, or the invoice is gone, or a later update of it is  *)
(* on its way.                                                             *)
(***************************************************************************)
Saved == Watched \cup (IF scan.at \in {"invoice", "global"} THEN {scan.update} ELSE {})

LatestOrFollowed ==
    \A u \in Saved : \/ invoices[u.id] \in {None, u.invoice}
                     \/ \E v \in Saved : v.id = u.id /\ v.n > u.n

RemovesDeletable == loop.at = "remove" => ShouldDelete(loop.update.invoice)

(* What has been saved is older than what comes, and known.                *)
LEMMA SavedKnown ==
    ASSUME Types, Course
    PROVE  \A u \in Saved : /\ u.id \in made /\ u.id \in Id /\ u.n \in Nat /\ u.n <= count
                            /\ u \in Watched /\ scan.at # "idle" => u.n < count
<1>1. \A u \in Watched : u.id \in made /\ u.id \in Id /\ u.n \in Nat /\ u.n <= count
                         /\ (scan.at # "idle" => u.n < count)
    BY WatchedTypes DEF Course, WatchedKnown
<1>2. scan.at # "idle" => /\ scan.update.id \in made /\ scan.update.id \in Id
                          /\ scan.update.n \in Nat /\ scan.update.n <= count
    BY WatchedTypes DEF Course, ScanCurrent, Types, ScanTypeOK, Updates
<1> QED
    BY <1>1, <1>2 DEF Saved

(* The scanner saves: the new update is the latest of all.                 *)
LEMMA SaveKeepsLatest ==
    ASSUME Types, Course, LatestOrFollowed, SaveInvoice
    PROVE  LatestOrFollowed'
<1>1. scan.at = "save" /\ scan'.at = "invoice" /\ scan'.update = scan.update /\ scan.update \in Updates
    BY DEF SaveInvoice, After, Types, ScanTypeOK
<1>2. Watched' = Watched
    BY OtherCourse
<1>3. Saved = Watched /\ Saved' = Watched \cup {scan.update}
    BY <1>1, <1>2 DEF Saved
<1>4. /\ scan.update.id \in Id /\ scan.update.n = count
      /\ invoices'[scan.update.id] \in {None, scan.update.invoice}
      /\ \A id \in Id : id # scan.update.id => invoices'[id] = invoices[id]
    BY <1>1 DEF SaveInvoice, Types, StoreTypeOK, Updates, Course, ScanCurrent
<1>5. \A u \in Watched : u.n \in Nat /\ u.n < scan.update.n /\ u.id \in Id
    BY <1>1, <1>3, <1>4, SavedKnown
<1> QED
    BY <1>3, <1>4, <1>5, WatchedTypes DEF LatestOrFollowed

(* The watching task lets go of its update, which is older than all that   *)
(* it has still to see.                                                    *)
LEMMA WatchKeepsLatest ==
    ASSUME Types, Course, LatestOrFollowed, Watch
    PROVE  LatestOrFollowed'
<1>1. /\ Watched' \subseteq Watched /\ scan' = scan
      /\ Watched \ Watched' \subseteq IF Taken THEN {loop.update} ELSE {}
    BY WatchCourse DEF Watch, SubscribeAll, Receive, SendCommand, RemoveInvoice, RemoveFails
<1>2. /\ Saved' \subseteq Saved
      /\ Saved \ Saved' \subseteq IF Taken THEN {loop.update} ELSE {}
    BY <1>1 DEF Saved
<1>3. \A id \in Id : invoices'[id] \in {None, invoices[id]}
    BY DEF Watch, SubscribeAll, Receive, SendCommand, RemoveInvoice, RemoveFails, Removed, Types, StoreTypeOK
<1>4. \A u \in Saved : u.n \in Nat /\ u.id \in Id
    BY SavedKnown
<1>5. ASSUME Taken
      PROVE  \A u \in Saved : u.n >= loop.update.n
  <2>1. loop.update \in Watched /\ loop.update.n \in Nat
    BY <1>5, WatchedTypes DEF Watched
  <2>2. \A u \in Watched : u.n >= loop.update.n
    BY <1>5, <2>1, WatchedTypes DEF Watched, InInbox, Course, InboxOrdered
  <2>3. scan.at # "idle" => scan.update.n >= loop.update.n
    BY <2>1, WatchedTypes DEF Course, ScanCurrent, WatchedKnown
  <2> QED
    BY <2>2, <2>3 DEF Saved
<1>6. ASSUME NEW u \in Saved', NEW v \in Saved, v.n > u.n
      PROVE  v \in Saved'
  <2>1. u \in Saved /\ u.n \in Nat /\ v.n \in Nat
    BY <1>2, <1>4
  <2>2. Taken => v # loop.update
    BY <1>5, <1>6, <2>1
  <2> QED
    BY <1>2, <2>2
<1> QED
    BY <1>2, <1>3, <1>4, <1>6 DEF LatestOrFollowed

(* The other steps make no update and forget none, but for the ones that   *)
(* nobody has subscribed to yet.                                           *)
LEMMA OtherKeepsLatest ==
    ASSUME Types, Course, LatestOrFollowed,
           \/ \E id \in Id : NewInvoice(id) \/ ReadInvoice(id)
           \/ \E text \in Texts : DeleteInvoice(text)
           \/ PublishToInvoice \/ PublishToAll
           \/ UNCHANGED <<invoices, made, scan, count, inbox, loop>>
    PROVE  LatestOrFollowed'
<1>0. \A u \in Saved : u.id \in made /\ u.id \in Id /\ u.n \in Nat
    BY SavedKnown
<1>1. ASSUME Saved' = Saved, \A id \in made : invoices'[id] \in {None, invoices[id]}
      PROVE  LatestOrFollowed'
    BY <1>0, <1>1 DEF LatestOrFollowed
<1>2. CASE PublishToAll
  <2>1. scan.at = "global" /\ scan' = NoScan /\ invoices' = invoices
    BY <1>2 DEF PublishToAll, After
  <2>2. CASE loop.at = "start"
    <3>1. Saved' = {}
      BY <1>2, <2>1, <2>2, PublishCourse DEF Saved, NoScan
    <3> QED
      BY <3>1 DEF LatestOrFollowed
  <2>3. CASE loop.at # "start"
    <3>1. Saved' = Saved
      BY <1>2, <2>1, <2>3, PublishCourse DEF Saved, NoScan
    <3> QED
      BY <1>1, <2>1, <3>1
  <2> QED
    BY <2>2, <2>3
<1>3. CASE ~PublishToAll
  <2>1. Watched' = Watched
    BY <1>3, OtherCourse
  <2>2. Saved' = Saved
    <3>1. CASE \E id \in Id : ReadInvoice(id)
      BY <2>1, <3>1 DEF ReadInvoice, Saved
    <3>2. CASE PublishToInvoice
      <4>1. scan.at = "invoice" /\ scan'.at = "global" /\ scan'.update = scan.update
        BY <3>2 DEF PublishToInvoice, After, Types, ScanTypeOK
      <4> QED
        BY <2>1, <4>1 DEF Saved
    <3>3. CASE UNCHANGED scan
      BY <2>1, <3>3 DEF Saved
    <3> QED
      BY <1>3, <3>1, <3>2, <3>3 DEF NewInvoice, DeleteInvoice
  <2>3. \A id \in made : invoices'[id] \in {None, invoices[id]}
    BY <1>3 DEF NewInvoice, ReadInvoice, DeleteInvoice, Removed, PublishToInvoice, Types, StoreTypeOK
  <2> QED
    BY <1>1, <2>2, <2>3
<1> QED
    BY <1>2, <1>3

(* Only an update whose invoice may go leads to a removal.                 *)
LEMMA StepDeletable == Types /\ RemovesDeletable /\ [Next]_vars => RemovesDeletable'
<1> SUFFICES ASSUME Types, RemovesDeletable, [Next]_vars PROVE RemovesDeletable'
    OBVIOUS
<1>1. CASE loop' = loop
    BY <1>1, Zenon DEF RemovesDeletable
<1>2. CASE SendCommand
  <2>1. CASE ShouldDelete(loop.update.invoice)
    <3>1. loop' = [loop EXCEPT !.at = "remove"]
      BY <1>2, <2>1, Zenon DEF SendCommand
    <3>2. loop'.update = loop.update
      BY <3>1 DEF Types, LoopTypeOK
    <3> QED
      BY <2>1, <3>2, Zenon DEF RemovesDeletable, ShouldDelete
  <2>2. CASE ~ShouldDelete(loop.update.invoice)
    <3>1. loop' = [at |-> "recv", update |-> None]
      BY <1>2, <2>2, Zenon DEF SendCommand
    <3>2. loop'.at # "remove"
      BY <3>1
    <3> QED
      BY <3>2, Zenon DEF RemovesDeletable
  <2> QED
    BY <2>1, <2>2
<1>3. CASE SubscribeAll \/ Receive \/ RemoveInvoice \/ RemoveFails
  <2>1. loop'.at # "remove"
    BY <1>3 DEF SubscribeAll, Receive, RemoveInvoice, RemoveFails
  <2> QED
    BY <2>1, Zenon DEF RemovesDeletable
<1>4. [Next]_vars => Watch \/ loop' = loop
    BY DEF Next, NewInvoice, ReadInvoice, DeleteInvoice, UpgradeFails, OpenSocket, Publish, SaveInvoice, PublishToInvoice,
           PublishToAll, TakeCommand, CallReturns, Retry, CallSucceeds, CallFails, Requeue, Forward,
           ClientStalls, EndSocket, vars
<1> QED
    BY <1>1, <1>2, <1>3, <1>4 DEF Watch

LatestInv == LatestOrFollowed /\ RemovesDeletable

(* What the database holds of the updates in every reachable state.        *)
LEMMA LatestInvariance == Spec => []LatestInv
<1>1. Init => LatestInv
    BY DEF Init, NoScan, LatestInv, LatestOrFollowed, Saved, Watched, InInbox, Taken, RemovesDeletable
<1>2. Types /\ Course /\ LatestInv /\ [Next]_vars => LatestInv'
  <2> SUFFICES ASSUME Types, Course, LatestInv, [Next]_vars PROVE LatestInv'
    OBVIOUS
  <2>1. RemovesDeletable'
    BY StepDeletable DEF LatestInv
  <2>2. LatestOrFollowed'
    BY SaveKeepsLatest, WatchKeepsLatest, OtherKeepsLatest, QuietSteps DEF LatestInv, Next, Publish
  <2> QED
    BY <2>1, <2>2 DEF LatestInv
<1> QED
    BY <1>1, <1>2, TypeInvariance, CourseInvariance, PTL DEF Spec

(* The watching task acts on what may be stale and is never wrong: for any *)
(* length of the buffers, if it removes an invoice that is pending it has  *)
(* not yet seen the latest update of it.                                   *)
THEOREM RemovalIsOnlyEverStale == Spec => RemovesPendingOnlyIfStale
<1> DEFINE Stale ==
        \A id \in Id :
          /\ loop.at = "remove" /\ loop'.at = "recv"
          /\ invoices[id] # None /\ invoices'[id] = None
          /\ Pending(invoices[id])
          => \E u \in ToSet(inbox) \cup (IF scan.at = "idle" THEN {} ELSE {scan.update}) :
                u.id = id /\ u.n > loop.update.n
<1>1. Types /\ Course /\ LatestInv /\ [Next]_vars => [Stale]_vars
  <2> SUFFICES ASSUME Types, Course, LatestInv, Next, NEW id \in Id,
                      loop.at = "remove", loop'.at = "recv", invoices[id] # None, invoices'[id] = None,
                      Pending(invoices[id])
               PROVE  \E u \in ToSet(inbox) \cup (IF scan.at = "idle" THEN {} ELSE {scan.update}) :
                         u.id = id /\ u.n > loop.update.n
    BY Zenon
  <2>1. RemoveInvoice
    <3>1. loop' # loop
      OBVIOUS
    <3>2. Watch
      BY <3>1 DEF Next, NewInvoice, ReadInvoice, DeleteInvoice, UpgradeFails, OpenSocket, Publish, SaveInvoice,
           PublishToInvoice, PublishToAll, TakeCommand, CallReturns, Retry, CallSucceeds, CallFails,
           Requeue, Forward, ClientStalls, EndSocket
    <3> QED
      BY <3>2 DEF Watch, SubscribeAll, Receive, SendCommand, RemoveFails
  <2>2. loop.update \in Saved /\ loop.update.id = id
    BY <2>1 DEF RemoveInvoice, Removed, Saved, Watched, Taken, Types, StoreTypeOK
  <2>3. ShouldDelete(loop.update.invoice)
    BY Zenon DEF LatestInv, RemovesDeletable
  <2>4. invoices[id] # loop.update.invoice
    BY <2>3, Zenon DEF ShouldDelete, Pending
  <2>5. PICK v \in Saved : v.id = id /\ v.n > loop.update.n
    BY <2>2, <2>4 DEF LatestInv, LatestOrFollowed
  <2>6. loop.update.n \in Nat
    BY <2>2, SavedKnown
  <2>7. v # loop.update
    BY <2>5, <2>6
  <2>8. v \in InInbox \/ (scan.at # "idle" /\ v = scan.update)
    BY <2>7 DEF Saved, Watched
  <2>9. InInbox \subseteq ToSet(inbox)
    BY DEF InInbox, ToSet, Types, LoopTypeOK
  <2> QED
    BY <2>5, <2>8, <2>9
<1> QED
    BY <1>1, TypeInvariance, CourseInvariance, LatestInvariance, PTL DEF Spec, RemovesPendingOnlyIfStale

-----------------------------------------------------------------------------
(***************************************************************************)
(* The last word.  The publisher comes to the websockets of an invoice     *)
(* before it comes to the watching task, so what the task has, and what is *)
(* about to come to it, has been given to all that follow the invoice.     *)
(***************************************************************************)
PastSockets == Watched \cup (IF scan.at = "global" THEN {scan.update} ELSE {})

Follows(s) == socket[s].at \in {"open", "stalled"} /\ socket[s].sender # "gone"

SocketsKnown ==
    \A s \in Socket : socket[s].given <= count /\ (Follows(s) => socket[s].id \in made)

WordGiven == \A u \in PastSockets : \A s \in Listed(u.id) : socket[s].given >= u.n

WordInv == SocketsKnown /\ WordGiven

(* The fields of all websockets.                                           *)
LEMMA SocketTyped ==
    ASSUME Types
    PROVE  \A s \in Socket : /\ socket[s] \in SocketRecords /\ socket[s].given \in Nat
                             /\ socket[s].given \in 0..MaxUpdates
<1>1. \A s \in Socket : socket[s] \in SocketRecords
    BY DEF Types, SocketTypeOK
<1>2. \A s \in Socket : socket[s].given \in 0..MaxUpdates
    BY <1>1, SocketFields, Zenon
<1> QED
    BY <1>1, <1>2, ServerAssumption

(* A step after which every websocket that follows an invoice did so       *)
(* before, and with the same updates, while invoices only go.              *)
LEMMA FewerListed ==
    ASSUME Types, Course, WordInv, PastSockets' \subseteq PastSockets, made \subseteq made', count' >= count,
           Types',
           \A s \in Socket : /\ socket'[s].given <= count
                             /\ Follows(s)' => /\ Follows(s) /\ socket'[s].id = socket[s].id
                                               /\ socket'[s].given = socket[s].given,
           \A id \in made : invoices'[id] # None => invoices[id] # None
    PROVE  WordInv'
<1> USE ServerAssumption
<1>0. \A u \in PastSockets : u.id \in made
    BY DEF PastSockets, Course, WatchedKnown, ScanCurrent
<1>1. \A u \in PastSockets' : Listed(u.id)' \subseteq Listed(u.id)
    BY <1>0 DEF Listed, Following, Follows
<1>2. \A u \in PastSockets' : \A s \in Listed(u.id)' : s \in Socket /\ Follows(s)'
    BY DEF Listed, Following, Follows
<1>3. WordGiven'
    BY <1>1, <1>2 DEF WordInv, WordGiven
<1>4. count \in Nat /\ count' \in Nat /\ \A s \in Socket : socket'[s].given \in Nat
  <2>1. \A s \in Socket : socket'[s] \in SocketRecords
    BY DEF Types, SocketTypeOK
  <2>2. \A s \in Socket : socket'[s].given \in 0..MaxUpdates
    BY <2>1, SocketFields, Zenon
  <2> QED
    BY <2>2 DEF Types, ScanTypeOK
<1>5. SocketsKnown'
    BY <1>4 DEF WordInv, SocketsKnown
<1> QED
    BY <1>3, <1>5 DEF WordInv

(* A websocket starts with all updates made so far behind it.              *)
LEMMA OpenKeepsWord ==
    ASSUME Types, Course, WordInv, NEW s \in Socket, NEW text \in Texts, OpenSocket(s, text)
    PROVE  WordInv'
<1> USE ServerAssumption
<1> DEFINE w == IF Decode(text) \in stale THEN "behind" ELSE "kept"
<1>1. /\ Decode(text) \in Id /\ invoices[Decode(text)] # None
      /\ UNCHANGED <<invoices, made, scan, count, inbox, loop>>
      /\ socket' = [socket EXCEPT ![s] = [@ EXCEPT !.at = "open", !.id = Decode(text), !.given = count,
                                                  !.sender = w]]
    BY DEF OpenSocket, Types, SocketTypeOK
<1> HIDE DEF w
<1>2. /\ \A r \in Socket : r # s => socket'[r] = socket[r]
      /\ socket'[s].at = "open" /\ socket'[s].id = Decode(text) /\ socket'[s].given = count
  <2>1. socket[s] \in SocketRecords /\ DOMAIN socket = Socket
    BY DEF Types, SocketTypeOK
  <2> QED
    BY <1>1, <2>1 DEF SocketRecords
<1>3. PastSockets' = PastSockets /\ \A u \in PastSockets : u.n \in Nat /\ u.n <= count
  <2>1. PastSockets' = PastSockets
    BY <1>1 DEF PastSockets, Watched, InInbox, Taken
  <2>2. PastSockets \subseteq Saved
    BY DEF PastSockets, Saved
  <2> QED
    BY <2>1, <2>2, SavedKnown
<1>4. count \in Nat /\ count' = count
    BY <1>1 DEF Types, ScanTypeOK
<1>5. SocketsKnown'
    BY <1>1, <1>2, <1>4 DEF WordInv, SocketsKnown, Follows, Course, StoreKnown
<1>6. \A id : \A r \in Listed(id)' : r \in Listed(id) \/ r = s
    BY <1>1, <1>2 DEF Listed, Following
<1>7. WordGiven'
    BY <1>2, <1>3, <1>4, <1>6 DEF WordInv, WordGiven, Listed, Following
<1> QED
    BY <1>5, <1>7 DEF WordInv

(* The publisher gives the update to all websockets of the invoice.        *)
LEMMA GiveKeepsWord ==
    ASSUME Types, Course, WordInv, PublishToInvoice
    PROVE  WordInv'
<1> USE ServerAssumption
<1>1. /\ scan.at = "invoice" /\ scan.update \in Updates
      /\ scan'.at = "global" /\ scan'.update = scan.update
      /\ UNCHANGED <<invoices, made, count>>
    BY DEF PublishToInvoice, After, Types, ScanTypeOK
<1>2. Watched' = Watched /\ PastSockets' = Watched \cup {scan.update} /\ PastSockets = Watched
  <2>1. Watched' = Watched
    BY OtherCourse
  <2> QED
    BY <1>1, <2>1 DEF PastSockets
<1>3. scan.update.n = count /\ count \in Nat /\ count' = count
    BY <1>1 DEF Course, ScanCurrent, Types, ScanTypeOK
<1> DEFINE New(s) == [socket[s] EXCEPT !.buf = Append(socket[s].buf, IsFinal(scan.update.invoice)),
                                       !.given = scan.update.n,
                                       !.sender = StaysListed(socket[s].sender)]
<1>4. \A s \in Socket : /\ s \in Listed(scan.update.id) => socket'[s] = New(s)
                        /\ s \notin Listed(scan.update.id) => socket'[s] = socket[s]
    BY Zenon DEF PublishToInvoice
<1>5. \A s \in Socket : /\ New(s).at = socket[s].at /\ New(s).id = socket[s].id /\ New(s).given = count
                        /\ New(s).sender # "gone" => socket[s].sender # "gone"
  <2>1. \A s \in Socket : socket[s] \in SocketRecords
    BY DEF Types, SocketTypeOK
  <2> QED
    BY <1>3, <2>1 DEF SocketRecords, StaysListed
<1> HIDE DEF New
<1>6. \A s \in Socket : /\ socket'[s].at = socket[s].at /\ socket'[s].id = socket[s].id
                        /\ socket'[s].sender # "gone" => socket[s].sender # "gone"
                        /\ s \in Listed(scan.update.id) => socket'[s].given = count
                        /\ s \notin Listed(scan.update.id) => socket'[s].given = socket[s].given
    BY <1>4, <1>5, Zenon
<1>7. \A id : Listed(id)' \subseteq Listed(id) /\ Listed(id) \subseteq Socket
    BY <1>1, <1>6 DEF Listed, Following
<1>8. \A u \in Watched : u.n \in Nat /\ u.n <= count
    BY WatchedTypes DEF Course, WatchedKnown
<1>9. WordGiven'
  <2> SUFFICES ASSUME NEW u \in PastSockets', NEW s \in Listed(u.id)'
               PROVE  socket'[s].given >= u.n
    BY DEF WordGiven
  <2>1. s \in Socket /\ s \in Listed(u.id)
    BY <1>7
  <2>2. CASE s \in Listed(scan.update.id)
    BY <1>2, <1>3, <1>6, <1>8, <2>1, <2>2
  <2>3. CASE s \notin Listed(scan.update.id)
    BY <1>2, <1>6, <2>1, <2>3 DEF WordInv, WordGiven
  <2> QED
    BY <2>2, <2>3
<1>10. SocketsKnown'
    BY <1>1, <1>3, <1>6 DEF WordInv, SocketsKnown, Follows
<1> QED
    BY <1>9, <1>10 DEF WordInv

(* A websocket that reads, hangs or ends.                                  *)
LEMMA SocketKeepsWord ==
    ASSUME Types, Course, WordInv, Types', NEW s \in Socket,
           Forward(s) \/ ClientStalls(s) \/ EndSocket(s)
    PROVE  WordInv'
<1> USE ServerAssumption
<1>1. UNCHANGED <<invoices, made, scan, count, inbox, loop>>
    BY DEF Forward, ClientStalls, EndSocket
<1>2. PastSockets' = PastSockets /\ count \in Nat
    BY <1>1 DEF PastSockets, Watched, InInbox, Taken, Types, ScanTypeOK
<1>3. socket[s] \in SocketRecords /\ DOMAIN socket = Socket
    BY DEF Types, SocketTypeOK
<1>4. /\ \A r \in Socket : r # s => socket'[r] = socket[r]
      /\ \/ /\ socket[s].at = "open"
            /\ socket'[s].id = socket[s].id /\ socket'[s].given = socket[s].given
            /\ socket'[s].sender = socket[s].sender
         \/ socket'[s].at = "ended" /\ socket'[s].given = 0
  <2>1. CASE Forward(s)
    <3> DEFINE shut == socket[s].closed \/ Head(socket[s].buf)
    <3>1. socket' = [socket EXCEPT ![s] = [socket[s] EXCEPT !.buf = Tail(socket[s].buf), !.closed = shut]]
      BY <1>3, <2>1 DEF Forward
    <3> HIDE DEF shut
    <3>2. /\ \A r \in Socket : r # s => socket'[r] = socket[r]
          /\ socket'[s] = [socket[s] EXCEPT !.buf = Tail(socket[s].buf), !.closed = shut]
      BY <1>3, <3>1, Zenon
    <3>3. /\ socket'[s].id = socket[s].id /\ socket'[s].given = socket[s].given
          /\ socket'[s].sender = socket[s].sender
      BY <1>3, <3>2 DEF SocketRecords
    <3> QED
      BY <2>1, <3>2, <3>3 DEF Forward
  <2>2. CASE ClientStalls(s)
    BY <1>3, <2>2 DEF ClientStalls, SocketRecords
  <2>3. CASE EndSocket(s)
    <3>1. socket'[s] = [NoSocket EXCEPT !.at = "ended"] /\ \A r \in Socket : r # s => socket'[r] = socket[r]
      BY <1>3, <2>3, Zenon DEF EndSocket
    <3>2. socket'[s].at = "ended" /\ socket'[s].given = 0
      BY <3>1 DEF NoSocket
    <3> QED
      BY <3>1, <3>2
  <2> QED
    BY <2>1, <2>2, <2>3
<1>5. \A r \in Socket : /\ socket'[r].given <= count
                        /\ Follows(r)' => /\ Follows(r) /\ socket'[r].id = socket[r].id
                                          /\ socket'[r].given = socket[r].given
    BY <1>2, <1>4 DEF Follows, WordInv, SocketsKnown
<1> QED
    BY <1>1, <1>2, <1>5, FewerListed

(* The steps that leave the websockets as they are.                        *)
LEMMA OtherKeepsWord ==
    ASSUME Types, Course, WordInv, Types',
           \/ \E id \in Id : NewInvoice(id) \/ ReadInvoice(id)
           \/ \E text \in Texts : DeleteInvoice(text)
           \/ \E text \in Texts : UpgradeFails(text)
           \/ SaveInvoice \/ PublishToAll \/ Watch \/ TakeCommand
           \/ \E n \in 1..MaxUpdates : CallReturns(n) \/ Retry(n)
           \/ UNCHANGED vars
    PROVE  WordInv'
<1> USE ServerAssumption
<1>1. socket' = socket /\ made \subseteq made' /\ count \in Nat /\ count' >= count
  <2>1. socket' = socket /\ made \subseteq made' /\ count' \in {count, count + 1}
    BY Zenon DEF NewInvoice, ReadInvoice, DeleteInvoice, UpgradeFails, SaveInvoice, PublishToAll, Watch,
           SubscribeAll, Receive, SendCommand, RemoveInvoice, RemoveFails, TakeCommand, CallReturns, Retry,
           CallSucceeds, CallFails, Requeue, vars
  <2> QED
    BY <2>1 DEF Types, ScanTypeOK
<1>2. \A id \in made : invoices'[id] # None => invoices[id] # None
    BY DEF NewInvoice, ReadInvoice, DeleteInvoice, UpgradeFails, SaveInvoice, PublishToAll, Watch, SubscribeAll, Receive,
           SendCommand, RemoveInvoice, RemoveFails, Removed, TakeCommand, CallReturns, Retry, CallSucceeds,
           CallFails, Requeue, vars, Types, StoreTypeOK
<1>3. PastSockets' \subseteq PastSockets
  <2>1. CASE PublishToAll
    <3>1. scan.at = "global" /\ scan' = NoScan
      BY <2>1 DEF PublishToAll, After
    <3>2. Watched' \subseteq Watched \cup {scan.update}
      BY <2>1, PublishCourse
    <3> QED
      BY <3>1, <3>2 DEF PastSockets, NoScan
  <2>2. CASE Watch
    <3>1. scan' = scan /\ Watched' \subseteq Watched
      BY <2>2, WatchCourse DEF Watch, SubscribeAll, Receive, SendCommand, RemoveInvoice, RemoveFails
    <3> QED
      BY <3>1 DEF PastSockets
  <2>3. CASE ~PublishToAll /\ ~Watch
    <3>1. Watched' = Watched
      BY <2>3, OtherCourse, QuietSteps
    <3>2. scan' = scan \/ scan'.at # "global"
      <4>1. CASE SaveInvoice
        BY <4>1 DEF SaveInvoice, After, Types, ScanTypeOK
      <4>2. CASE \E id \in Id : ReadInvoice(id)
        BY <4>2 DEF ReadInvoice
      <4>3. CASE ~SaveInvoice /\ ~(\E id \in Id : ReadInvoice(id))
        BY <2>3, <4>3, Zenon DEF NewInvoice, DeleteInvoice, UpgradeFails, TakeCommand, CallReturns,
                    Retry, CallSucceeds, CallFails, Requeue, vars
      <4> QED
        BY <4>1, <4>2, <4>3
    <3> QED
      BY <3>1, <3>2 DEF PastSockets
  <2> QED
    BY <2>1, <2>2, <2>3
<1>4. \A s \in Socket : /\ socket'[s].given <= count
                        /\ Follows(s)' => /\ Follows(s) /\ socket'[s].id = socket[s].id
                                          /\ socket'[s].given = socket[s].given
    BY <1>1 DEF Follows, WordInv, SocketsKnown
<1> QED
    BY <1>1, <1>2, <1>3, <1>4, FewerListed

(* Before the watching task removes an invoice because of an update, the   *)
(* websockets of the invoice have been given the update, for any number of *)
(* them, any buffers and however far the task is behind.                   *)
THEOREM WordBeforeRemoval == Spec => []LastWordFirst
<1>1. Init => WordInv
  <2> SUFFICES ASSUME Init PROVE WordInv
    OBVIOUS
  <2>1. PastSockets = {}
    BY DEF Init, NoScan, PastSockets, Watched, InInbox, Taken
  <2>2. \A s \in Socket : socket[s].given = 0 /\ socket[s].at = "free"
    BY DEF Init, NoSocket
  <2>3. count = 0
    BY DEF Init
  <2> QED
    BY <2>1, <2>2, <2>3 DEF WordInv, SocketsKnown, WordGiven, Follows
<1>2. Types /\ Course /\ WordInv /\ [Next]_vars => WordInv'
    BY StepTypes, OpenKeepsWord, GiveKeepsWord, SocketKeepsWord, OtherKeepsWord DEF Next, Publish
<1>3. WordInv => LastWordFirst
    BY DEF WordInv, WordGiven, PastSockets, Watched, Taken, LastWordFirst
<1> QED
    BY <1>1, <1>2, <1>3, TypeInvariance, CourseInvariance, PTL DEF Spec

-----------------------------------------------------------------------------
(***************************************************************************)
(* Every update is in one place.                                           *)
(***************************************************************************)
(* How often n occurs in a sequence, and the numbers of a sequence of      *)
(* updates.                                                                *)
Places(s, n) == {i \in DOMAIN s : s[i] = n}
Numbers(s) == [i \in DOMAIN s |-> s[i].n]

(* The places in a sequence can be counted.                                *)
LEMMA PlacesFinite ==
    ASSUME NEW S, NEW s \in Seq(S), NEW n
    PROVE  IsFiniteSet(Places(s, n)) /\ Cardinality(Places(s, n)) \in Nat
<1>1. IsFiniteSet(1..Len(s)) /\ Places(s, n) \subseteq 1..Len(s)
    BY FS_Interval DEF Places
<1>2. IsFiniteSet(Places(s, n))
    BY <1>1, FS_Subset
<1> QED
    BY <1>2, FS_CardinalityType

(* One place more when n is put at the end.                                *)
LEMMA AppendPlaces ==
    ASSUME NEW S, NEW s \in Seq(S), NEW e \in S, NEW n
    PROVE  Cardinality(Places(Append(s, e), n))
             = Cardinality(Places(s, n)) + (IF e = n THEN 1 ELSE 0)
<1>1. /\ Len(s) \in Nat /\ DOMAIN s = 1..Len(s) /\ DOMAIN Append(s, e) = 1..(Len(s) + 1)
      /\ \A i \in 1..Len(s) : Append(s, e)[i] = s[i]
      /\ Append(s, e)[Len(s) + 1] = e
    OBVIOUS
<1>2. CASE e = n
  <2>1. Places(Append(s, e), n) = Places(s, n) \cup {Len(s) + 1} /\ Len(s) + 1 \notin Places(s, n)
    BY <1>1, <1>2 DEF Places
  <2> QED
    BY <1>2, <2>1, PlacesFinite, FS_AddElement
<1>3. CASE e # n
  <2>1. Places(Append(s, e), n) = Places(s, n)
    BY <1>1, <1>3 DEF Places
  <2> QED
    BY <1>3, <2>1, PlacesFinite
<1> QED
    BY <1>2, <1>3

(* One place less when n was at the front.                                 *)
LEMMA TailPlaces ==
    ASSUME NEW S, NEW s \in Seq(S), s # <<>>, NEW n
    PROVE  Cardinality(Places(s, n))
             = Cardinality(Places(Tail(s), n)) + (IF Head(s) = n THEN 1 ELSE 0)
<1>1. /\ Len(s) \in Nat \ {0} /\ DOMAIN s = 1..Len(s) /\ DOMAIN Tail(s) = 1..(Len(s) - 1)
      /\ \A i \in 1..(Len(s) - 1) : Tail(s)[i] = s[i + 1]
      /\ Head(s) = s[1] /\ Tail(s) \in Seq(S)
    OBVIOUS
<1> DEFINE T == Places(Tail(s), n)
           U == Places(s, n) \ {1}
           f == [i \in T |-> i + 1]
<1>2. f \in Bijection(T, U)
  <2>1. \A i \in T : i \in Nat /\ i + 1 \in U
    BY <1>1 DEF Places
  <2>2. \A j \in U : j - 1 \in T /\ f[j - 1] = j
    BY <1>1 DEF Places
  <2>3. f \in [T -> U]
    BY <2>1
  <2>4. \A a, b \in T : f[a] = f[b] => a = b
    BY <2>1
  <2> QED
    BY <2>2, <2>3, <2>4 DEF Bijection, Injection, Surjection, IsInjective
<1>3. IsFiniteSet(T) /\ Cardinality(T) \in Nat
    BY <1>1, PlacesFinite
<1>4. Cardinality(U) = Cardinality(T) /\ IsFiniteSet(U)
  <2>1. U \in SUBSET Places(s, n) /\ IsFiniteSet(U)
    BY PlacesFinite, FS_Subset
  <2>2. ExistsBijection(T, U)
    BY <1>2 DEF ExistsBijection
  <2> QED
    BY <1>3, <2>1, <2>2, FS_Bijection
<1>5. CASE Head(s) = n
  <2>1. 1 \in Places(s, n)
    BY <1>1, <1>5 DEF Places
  <2>2. Places(s, n) = U \cup {1} /\ 1 \notin U
    BY <2>1
  <2> HIDE DEF U
  <2>3. Cardinality(Places(s, n)) = Cardinality(U) + 1
    BY <1>4, <2>2, FS_AddElement
  <2> QED
    BY <1>4, <1>5, <2>3
<1>6. CASE Head(s) # n
  <2>1. Places(s, n) = U
    BY <1>1, <1>6 DEF Places
  <2>2. Cardinality(Places(s, n)) = Cardinality(Places(Tail(s), n))
    BY <1>4, <2>1, Zenon
  <2> HIDE DEF T, U
  <2> QED
    BY <1>3, <1>6, <2>2 DEF T
<1> QED
    BY <1>5, <1>6

(* The numbers of the updates in a buffer.                                 *)
LEMMA NumbersOf ==
    ASSUME NEW s \in Seq(Updates)
    PROVE  /\ Numbers(s) \in Seq(1..MaxUpdates)
           /\ \A u \in Updates : u.n \in 1..MaxUpdates /\ Numbers(Append(s, u)) = Append(Numbers(s), u.n)
           /\ s # <<>> => /\ Numbers(s) # <<>> /\ Head(Numbers(s)) = Head(s).n
                          /\ Numbers(Tail(s)) = Tail(Numbers(s))
           /\ \A n : Places(Numbers(s), n) = {i \in DOMAIN s : s[i].n = n}
<1>1. \A u \in Updates : u.n \in 1..MaxUpdates
    BY DEF Updates
<1>2. Numbers(s) \in Seq(1..MaxUpdates) /\ Len(Numbers(s)) = Len(s)
  <2>1. /\ Len(s) \in Nat /\ Numbers(s) = [i \in 1..Len(s) |-> s[i].n]
        /\ \A i \in 1..Len(s) : s[i] \in Updates
    BY DEF Numbers
  <2>2. \A i \in 1..Len(s) : s[i].n \in 1..MaxUpdates
    BY <1>1, <2>1
  <2> QED
    BY <2>1, <2>2
<1>3. \A u \in Updates : Numbers(Append(s, u)) = Append(Numbers(s), u.n)
    BY <1>1, <1>2 DEF Numbers
<1>4. ASSUME s # <<>>
      PROVE  /\ Numbers(s) # <<>> /\ Head(Numbers(s)) = Head(s).n
             /\ Numbers(Tail(s)) = Tail(Numbers(s))
    BY <1>1, <1>2, <1>4 DEF Numbers
<1>5. \A n : Places(Numbers(s), n) = {i \in DOMAIN s : s[i].n = n}
    BY DEF Places, Numbers
<1> QED
    BY <1>1, <1>2, <1>3, <1>4, <1>5

(* The tasks for an update.                                                *)
OfNumber(D, n) == {c \in D : c.n = n}

(* One task more, one task less.                                           *)
LEMMA TasksChange ==
    ASSUME NEW D, IsFiniteSet(D), NEW c, c \notin D, NEW n
    PROVE  /\ Cardinality(OfNumber(D, n)) \in Nat
           /\ IsFiniteSet(D \cup {c})
           /\ Cardinality(OfNumber(D \cup {c}, n))
                = Cardinality(OfNumber(D, n)) + (IF c.n = n THEN 1 ELSE 0)
<1>1. IsFiniteSet(OfNumber(D, n)) /\ c \notin OfNumber(D, n)
    BY FS_Subset DEF OfNumber
<1>2. Cardinality(OfNumber(D, n)) \in Nat
    BY <1>1, FS_CardinalityType
<1>3. IsFiniteSet(D \cup {c})
    BY FS_AddElement
<1>4. CASE c.n = n
  <2>1. OfNumber(D \cup {c}, n) = OfNumber(D, n) \cup {c}
    BY <1>4 DEF OfNumber
  <2>2. Cardinality(OfNumber(D, n) \cup {c}) = Cardinality(OfNumber(D, n)) + 1
    BY <1>1, FS_AddElement
  <2> QED
    BY <1>2, <1>3, <1>4, <2>1, <2>2
<1>5. CASE c.n # n
  <2>1. OfNumber(D \cup {c}, n) = OfNumber(D, n)
    BY <1>5 DEF OfNumber
  <2> QED
    BY <1>2, <1>3, <1>5, <2>1
<1> QED
    BY <1>4, <1>5

InboxCount(n) == Cardinality(Places(Numbers(inbox), n))
QueueCount(n) == Cardinality(Places(queue, n))
TaskCount(n) == Cardinality(OfNumber(calls, n))
WithScan(n) == IF scan.at # "idle" /\ scan.update.n = n THEN 1 ELSE 0
WithLoop(n) == IF loop.at = "send" /\ loop.update.n = n THEN 1 ELSE 0
Acked(n) == IF n \in acked THEN 1 ELSE 0
Missed(n) == IF n \in missed THEN 1 ELSE 0

PlaceInv ==
    /\ IsFiniteSet(calls)
    /\ \A n \in 1..MaxUpdates : Copies(n) = IF n <= count THEN 1 ELSE 0

(* The copies of an update, place by place.                                *)
Summed ==
    \A n : /\ Copies(n) = InboxCount(n) + QueueCount(n) + TaskCount(n) + WithScan(n) + WithLoop(n)
                            + Acked(n) + Missed(n)
           /\ InboxCount(n) \in Nat /\ QueueCount(n) \in Nat /\ TaskCount(n) \in Nat

(* This is what the property adds up.                                      *)
LEMMA CopiesSum == Types /\ IsFiniteSet(calls) => Summed
<1> SUFFICES ASSUME Types, IsFiniteSet(calls), NEW n
             PROVE  /\ Copies(n) = InboxCount(n) + QueueCount(n) + TaskCount(n) + WithScan(n) + WithLoop(n)
                            + Acked(n) + Missed(n)
                    /\ InboxCount(n) \in Nat /\ QueueCount(n) \in Nat /\ TaskCount(n) \in Nat
    BY DEF Summed
<1>1. inbox \in Seq(Updates) /\ queue \in Seq(1..MaxUpdates)
    BY DEF Types, LoopTypeOK, QueueTypeOK
<1>2. /\ Cardinality({i \in DOMAIN inbox : inbox[i].n = n}) = InboxCount(n)
      /\ Cardinality({i \in DOMAIN queue : queue[i] = n}) = QueueCount(n)
      /\ Cardinality({c \in calls : c.n = n}) = TaskCount(n)
  <2>1. Places(Numbers(inbox), n) = {i \in DOMAIN inbox : inbox[i].n = n}
    BY <1>1, NumbersOf
  <2> QED
    BY <2>1, Zenon DEF InboxCount, QueueCount, TaskCount, Places, OfNumber
<1>3. InboxCount(n) \in Nat /\ QueueCount(n) \in Nat
  <2>1. Numbers(inbox) \in Seq(1..MaxUpdates)
    BY <1>1, NumbersOf
  <2> QED
    BY <1>1, <2>1, PlacesFinite DEF InboxCount, QueueCount
<1>4. TaskCount(n) \in Nat
  <2>1. IsFiniteSet(OfNumber(calls, n))
    BY FS_Subset DEF OfNumber
  <2> QED
    BY <2>1, FS_CardinalityType DEF TaskCount
<1>5. Copies(n) = InboxCount(n) + QueueCount(n) + TaskCount(n) + WithScan(n) + WithLoop(n)
                            + Acked(n) + Missed(n)
    BY <1>2, Zenon DEF Copies, WithScan, WithLoop, Acked, Missed
<1> QED
    BY <1>3, <1>4, <1>5

(* And after a step.                                                       *)
LEMMA CopiesSumNext == (Types /\ IsFiniteSet(calls) => Summed)'
    BY CopiesSum, PTL

Is(n, m) == IF n = m THEN 1 ELSE 0

(* A step keeps the places if it moves copies and adds none but that of a  *)
(* new update.                                                             *)
LEMMA Balance ==
    ASSUME Types, Types', PlaceInv, IsFiniteSet(calls)',
           NEW new \in {0, 1}, count' = count + new,
           \A n \in 1..MaxUpdates :
              (InboxCount(n) + QueueCount(n) + TaskCount(n) + WithScan(n) + WithLoop(n)
                            + Acked(n) + Missed(n))'
                = InboxCount(n) + QueueCount(n) + TaskCount(n) + WithScan(n) + WithLoop(n)
                            + Acked(n) + Missed(n) + (IF new = 1 THEN Is(n, count + 1) ELSE 0)
    PROVE  PlaceInv'
<1>1. Summed /\ Summed'
    BY CopiesSum, CopiesSumNext DEF PlaceInv
<1>2. count \in Nat /\ MaxUpdates \in Nat
    BY ServerAssumption DEF Types, ScanTypeOK
<1>3. ASSUME NEW n \in 1..MaxUpdates
      PROVE  Copies(n)' = IF n <= count' THEN 1 ELSE 0
  <2>1. Copies(n) = IF n <= count THEN 1 ELSE 0
    BY DEF PlaceInv
  <2>2. Copies(n)' = Copies(n) + (IF new = 1 THEN Is(n, count + 1) ELSE 0)
    BY <1>1 DEF Summed
  <2> QED
    BY <1>2, <2>1, <2>2 DEF Is
<1> QED
    BY <1>3, Zenon DEF PlaceInv

(* What lies in one place lies in no other.                                *)
LEMMA AtMostOne ==
    ASSUME Types, PlaceInv, NEW n \in 1..MaxUpdates
    PROVE  /\ InboxCount(n) \in Nat /\ QueueCount(n) \in Nat /\ TaskCount(n) \in Nat
           /\ TaskCount(n) <= 1
           /\ QueueCount(n) >= 1 => TaskCount(n) = 0
           /\ TaskCount(n) >= 1 => Acked(n) = 0
           /\ WithScan(n) = 1 => Missed(n) = 0
<1>1. Summed
    BY CopiesSum DEF PlaceInv
<1>2. Copies(n) \in {0, 1}
    BY DEF PlaceInv
<1>3. /\ InboxCount(n) \in Nat /\ QueueCount(n) \in Nat /\ TaskCount(n) \in Nat
      /\ Copies(n) = InboxCount(n) + QueueCount(n) + TaskCount(n) + WithScan(n) + WithLoop(n)
                        + Acked(n) + Missed(n)
    BY <1>1, Zenon DEF Summed
<1>4. WithScan(n) \in {0, 1} /\ WithLoop(n) \in {0, 1} /\ Acked(n) \in {0, 1} /\ Missed(n) \in {0, 1}
    BY DEF WithScan, WithLoop, Acked, Missed
<1> QED
    BY <1>2, <1>3, <1>4

(* The scanner makes an update and hands it on.                            *)
LEMMA ScannerPlaces ==
    ASSUME Types, Types', Course, PlaceInv, (\E id \in Id : ReadInvoice(id)) \/ Publish
    PROVE  PlaceInv'
<1> USE ServerAssumption
<1>1. UNCHANGED <<queue, calls, loop, acked>>
    BY DEF ReadInvoice, Publish, SaveInvoice, PublishToInvoice, PublishToAll
<1>2. /\ IsFiniteSet(calls)'
      /\ \A n : QueueCount(n)' = QueueCount(n) /\ TaskCount(n)' = TaskCount(n)
                /\ WithLoop(n)' = WithLoop(n) /\ Acked(n)' = Acked(n)
    BY <1>1, Zenon DEF PlaceInv, QueueCount, TaskCount, WithLoop, Acked
<1>3. \A n \in 1..MaxUpdates : InboxCount(n) \in Nat /\ QueueCount(n) \in Nat /\ TaskCount(n) \in Nat
    BY AtMostOne, Zenon
<1>4. count \in Nat
    BY DEF Types, ScanTypeOK
<1>5. ASSUME NEW id \in Id, ReadInvoice(id)
      PROVE  PlaceInv'
  <2>1. scan.at = "idle" /\ count' = count + 1 /\ scan'.at = "save" /\ scan'.update.n = count + 1
        /\ UNCHANGED <<inbox, missed>>
    BY <1>5 DEF ReadInvoice
  <2>2. \A n : InboxCount(n)' = InboxCount(n) /\ Missed(n)' = Missed(n)
    BY <2>1, Zenon DEF InboxCount, Missed
  <2>3. \A n : WithScan(n) = 0 /\ WithScan(n)' = Is(n, count + 1)
    BY <2>1 DEF WithScan, Is
  <2>4. \A n \in 1..MaxUpdates :
          (InboxCount(n) + QueueCount(n) + TaskCount(n) + WithScan(n) + WithLoop(n)
                            + Acked(n) + Missed(n))'
                = InboxCount(n) + QueueCount(n) + TaskCount(n) + WithScan(n) + WithLoop(n)
                            + Acked(n) + Missed(n) + Is(n, count + 1)
    BY <1>2, <1>3, <2>2, <2>3 DEF Is, WithLoop, Acked, Missed
  <2> QED
    BY <1>2, <1>4, <2>1, <2>4, Balance
<1>6. CASE SaveInvoice \/ PublishToInvoice
  <2>1. scan.at # "idle" /\ scan'.at # "idle" /\ scan'.update = scan.update /\ UNCHANGED <<inbox, missed, count>>
    BY <1>6 DEF SaveInvoice, PublishToInvoice, After, Types, ScanTypeOK
  <2>2. \A n : InboxCount(n)' = InboxCount(n) /\ Missed(n)' = Missed(n) /\ WithScan(n)' = WithScan(n)
    BY <2>1, Zenon DEF InboxCount, Missed, WithScan
  <2>3. \A n \in 1..MaxUpdates :
          (InboxCount(n) + QueueCount(n) + TaskCount(n) + WithScan(n) + WithLoop(n)
                            + Acked(n) + Missed(n))'
                = InboxCount(n) + QueueCount(n) + TaskCount(n) + WithScan(n) + WithLoop(n)
                            + Acked(n) + Missed(n)
    BY <1>2, <2>2
  <2>4. \A n \in 1..MaxUpdates :
          InboxCount(n) + QueueCount(n) + TaskCount(n) + WithScan(n) + WithLoop(n)
                            + Acked(n) + Missed(n) \in Nat
    BY <1>3 DEF WithScan, WithLoop, Acked, Missed
  <2> QED
    BY <1>2, <1>4, <2>1, <2>3, <2>4, Balance
<1>7. CASE PublishToAll
  <2>1. /\ scan.at = "global" /\ scan' = NoScan /\ count' = count
        /\ scan.update \in Updates /\ scan.update.n \in 1..MaxUpdates
    BY <1>7 DEF PublishToAll, After, Types, ScanTypeOK, Updates
  <2>2. \A n : WithScan(n) = Is(scan.update.n, n) /\ WithScan(n)' = 0
    BY <2>1 DEF WithScan, Is, NoScan
  <2>3. \A n \in 1..MaxUpdates :
           /\ InboxCount(n)' + Missed(n)' = InboxCount(n) + Missed(n) + Is(scan.update.n, n)
           /\ InboxCount(n)' \in Nat
    <3>1. CASE inbox' = Append(inbox, scan.update) /\ missed' = missed
      <4>1. inbox \in Seq(Updates)
        BY DEF Types, LoopTypeOK
      <4>2. Numbers(inbox') = Append(Numbers(inbox), scan.update.n) /\ Numbers(inbox) \in Seq(1..MaxUpdates)
        BY <2>1, <3>1, <4>1, NumbersOf, Zenon
      <4>3. ASSUME NEW n
            PROVE  InboxCount(n)' = InboxCount(n) + Is(scan.update.n, n)
        <5>1. Cardinality(Places(Append(Numbers(inbox), scan.update.n), n))
                = Cardinality(Places(Numbers(inbox), n)) + (IF scan.update.n = n THEN 1 ELSE 0)
          BY <2>1, <4>2, AppendPlaces, SMTT(30)
        <5> QED
          BY <4>2, <5>1, Zenon DEF InboxCount, Is
      <4> QED
        BY <1>3, <3>1, <4>3 DEF Is, Missed
    <3>2. CASE inbox' = inbox /\ missed' = missed \cup {scan.update.n}
      <4>1. \A n : InboxCount(n)' = InboxCount(n)
        BY <3>2, Zenon DEF InboxCount
      <4>2. Missed(scan.update.n) = 0
        BY <2>1, <2>2, AtMostOne DEF Is
      <4>3. \A n : Missed(n)' = Missed(n) + Is(scan.update.n, n)
        BY <3>2, <4>2 DEF Missed, Is
      <4> QED
        BY <1>3, <4>1, <4>3 DEF Is, Missed
    <3> QED
      BY <1>7, <3>1, <3>2 DEF PublishToAll
  <2>4. \A n \in 1..MaxUpdates :
          (InboxCount(n) + QueueCount(n) + TaskCount(n) + WithScan(n) + WithLoop(n)
                            + Acked(n) + Missed(n))'
                = InboxCount(n) + QueueCount(n) + TaskCount(n) + WithScan(n) + WithLoop(n)
                            + Acked(n) + Missed(n) + 0
    BY <1>2, <1>3, <2>2, <2>3 DEF Is, WithLoop, Acked, Missed
  <2> QED
    BY <1>2, <1>4, <2>1, <2>4, Balance
<1> QED
    BY <1>5, <1>6, <1>7 DEF Publish

(* The watching task takes an update from its buffer and queues a callback.*)
LEMMA WatchPlaces ==
    ASSUME Types, Types', PlaceInv, Watch
    PROVE  PlaceInv'
<1> USE ServerAssumption
<1>1. UNCHANGED <<scan, count, missed, calls, acked>>
    BY DEF Watch, SubscribeAll, Receive, SendCommand, RemoveInvoice, RemoveFails
<1>2. /\ IsFiniteSet(calls)'
      /\ \A n : /\ TaskCount(n)' = TaskCount(n) /\ WithScan(n)' = WithScan(n)
                /\ Acked(n)' = Acked(n) /\ Missed(n)' = Missed(n)
    BY <1>1, Zenon DEF PlaceInv, TaskCount, WithScan, Acked, Missed
<1>3. \A n \in 1..MaxUpdates : InboxCount(n) \in Nat /\ QueueCount(n) \in Nat /\ TaskCount(n) \in Nat
    BY AtMostOne, Zenon
<1>4. count \in Nat
    BY DEF Types, ScanTypeOK
<1>5. \A n \in 1..MaxUpdates : /\ InboxCount(n)' + QueueCount(n)' + WithLoop(n)'
                                    = InboxCount(n) + QueueCount(n) + WithLoop(n)
                               /\ InboxCount(n)' \in Nat /\ QueueCount(n)' \in Nat
  <2>1. CASE SubscribeAll \/ RemoveInvoice \/ RemoveFails
    <3>1. loop.at # "send" /\ loop'.at # "send" /\ inbox' = inbox /\ queue' = queue
      BY <2>1 DEF SubscribeAll, RemoveInvoice, RemoveFails
    <3>2. \A n : InboxCount(n)' = InboxCount(n) /\ QueueCount(n)' = QueueCount(n)
      BY <3>1, Zenon DEF InboxCount, QueueCount
    <3>3. \A n : WithLoop(n) = 0 /\ WithLoop(n)' = 0
      BY <3>1 DEF WithLoop
    <3> QED
      BY <1>3, <3>2, <3>3
  <2>2. CASE Receive
    <3>1. /\ loop.at = "recv" /\ loop'.at = "send" /\ loop'.update = Head(inbox)
          /\ inbox # <<>> /\ inbox' = Tail(inbox) /\ queue' = queue
          /\ inbox \in Seq(Updates)
      BY <2>2 DEF Receive, Types, LoopTypeOK
    <3>2. /\ Numbers(inbox) \in Seq(1..MaxUpdates) /\ Numbers(inbox) # <<>>
          /\ Numbers(inbox') = Tail(Numbers(inbox)) /\ Head(Numbers(inbox)) = loop'.update.n
          /\ Numbers(inbox') \in Seq(1..MaxUpdates)
      <4>1. Tail(inbox) \in Seq(Updates)
        BY <3>1
      <4> QED
        BY <3>1, <4>1, NumbersOf, Zenon
    <3>3. ASSUME NEW n
          PROVE  InboxCount(n) = InboxCount(n)' + Is(loop'.update.n, n) /\ InboxCount(n)' \in Nat
      <4>1. Cardinality(Places(Numbers(inbox), n))
              = Cardinality(Places(Tail(Numbers(inbox)), n))
                  + (IF Head(Numbers(inbox)) = n THEN 1 ELSE 0)
        BY <3>2, TailPlaces
      <4>2. Cardinality(Places(Numbers(inbox'), n)) \in Nat
        BY <3>2, PlacesFinite
      <4> QED
        BY <3>2, <4>1, <4>2, Zenon DEF InboxCount, Is
    <3>4. \A n : QueueCount(n)' = QueueCount(n)
      BY <3>1, Zenon DEF QueueCount
    <3>5. \A n : WithLoop(n) = 0 /\ WithLoop(n)' = Is(loop'.update.n, n)
      BY <3>1 DEF WithLoop, Is
    <3> QED
      BY <1>3, <3>3, <3>4, <3>5 DEF Is
  <2>3. CASE SendCommand
    <3>1. /\ loop.at = "send" /\ queue' = Append(queue, loop.update.n) /\ inbox' = inbox
          /\ queue \in Seq(1..MaxUpdates) /\ loop.update.n \in 1..MaxUpdates
      BY <2>3 DEF SendCommand, Types, LoopTypeOK, QueueTypeOK, Updates
    <3>2. loop'.at # "send"
      <4>1. loop' = [loop EXCEPT !.at = "remove"] \/ loop' = [at |-> "recv", update |-> None]
        BY <2>3, Zenon DEF SendCommand
      <4> QED
        BY <4>1 DEF Types, LoopTypeOK
    <3>3. ASSUME NEW n
          PROVE  QueueCount(n)' = QueueCount(n) + Is(loop.update.n, n)
      <4>1. Cardinality(Places(Append(queue, loop.update.n), n))
              = Cardinality(Places(queue, n)) + (IF loop.update.n = n THEN 1 ELSE 0)
        BY <3>1, AppendPlaces, SMTT(30)
      <4> QED
        BY <3>1, <4>1, Zenon DEF QueueCount, Is
    <3>4. \A n : InboxCount(n)' = InboxCount(n)
      BY <3>1, Zenon DEF InboxCount
    <3>5. \A n : WithLoop(n)' = 0 /\ WithLoop(n) = Is(loop.update.n, n)
      BY <3>1, <3>2 DEF WithLoop, Is
    <3> QED
      BY <1>3, <3>3, <3>4, <3>5 DEF Is
  <2> QED
    BY <2>1, <2>2, <2>3 DEF Watch
<1>6. \A n \in 1..MaxUpdates :
          (InboxCount(n) + QueueCount(n) + TaskCount(n) + WithScan(n) + WithLoop(n)
                            + Acked(n) + Missed(n))'
                = InboxCount(n) + QueueCount(n) + TaskCount(n) + WithScan(n) + WithLoop(n)
                            + Acked(n) + Missed(n) + 0
    BY <1>2, <1>3, <1>5 DEF WithScan, WithLoop, Acked, Missed
<1> QED
    BY <1>1, <1>2, <1>4, <1>6, Balance

(* A callback is taken from the queue, answered or put back.               *)
LEMMA CallbackPlaces ==
    ASSUME Types, Types', PlaceInv,
           TakeCommand \/ \E c \in calls : CallSucceeds(c) \/ CallFails(c) \/ Requeue(c)
    PROVE  PlaceInv'
<1> USE ServerAssumption
<1>1. UNCHANGED <<scan, count, inbox, loop, missed>>
    BY DEF TakeCommand, CallSucceeds, CallFails, Requeue
<1>2. \A n : /\ InboxCount(n)' = InboxCount(n) /\ WithScan(n)' = WithScan(n)
             /\ WithLoop(n)' = WithLoop(n) /\ Missed(n)' = Missed(n)
    BY <1>1, Zenon DEF InboxCount, WithScan, WithLoop, Missed
<1>3. \A n \in 1..MaxUpdates : InboxCount(n) \in Nat /\ QueueCount(n) \in Nat /\ TaskCount(n) \in Nat
    BY AtMostOne, Zenon
<1>4. count \in Nat /\ IsFiniteSet(calls)
    BY DEF Types, ScanTypeOK, PlaceInv
<1>5. queue \in Seq(1..MaxUpdates) /\ calls \subseteq CallRecords /\ \A c \in calls : c.n \in 1..MaxUpdates
    BY DEF Types, QueueTypeOK, CallRecords
<1>6. \A c \in calls : calls = (calls \ {c}) \cup {c}
    OBVIOUS
<1>7. ASSUME NEW c \in calls
      PROVE  /\ IsFiniteSet(calls \ {c})
             /\ \A n : /\ TaskCount(n) = Cardinality(OfNumber(calls \ {c}, n)) + Is(c.n, n)
                       /\ Cardinality(OfNumber(calls \ {c}, n)) \in Nat
  <2>1. IsFiniteSet(calls \ {c}) /\ c \notin calls \ {c}
    BY <1>4, FS_RemoveElement
  <2>2. \A n : /\ Cardinality(OfNumber((calls \ {c}) \cup {c}, n))
                    = Cardinality(OfNumber(calls \ {c}, n)) + (IF c.n = n THEN 1 ELSE 0)
               /\ Cardinality(OfNumber(calls \ {c}, n)) \in Nat
    BY <2>1, TasksChange
  <2>3. (calls \ {c}) \cup {c} = calls
    OBVIOUS
  <2> QED
    BY <2>1, <2>2, <2>3, Zenon DEF TaskCount, Is
<1>8. /\ IsFiniteSet(calls)'
      /\ \A n \in 1..MaxUpdates : /\ QueueCount(n)' + TaskCount(n)' + Acked(n)'
                                       = QueueCount(n) + TaskCount(n) + Acked(n)
                                  /\ QueueCount(n)' \in Nat /\ TaskCount(n)' \in Nat
  <2>1. CASE TakeCommand
    <3> DEFINE m == Head(queue)
               t == [n |-> m, at |-> "call"]
    <3>1. /\ queue # <<>> /\ queue' = Tail(queue) /\ calls' = calls \cup {t} /\ acked' = acked
          /\ m \in 1..MaxUpdates /\ Tail(queue) \in Seq(1..MaxUpdates) /\ t.n = m
      BY <1>5, <2>1 DEF TakeCommand
    <3> HIDE DEF m, t
    <3>2. ASSUME NEW n
          PROVE  QueueCount(n) = QueueCount(n)' + Is(m, n) /\ QueueCount(n)' \in Nat
      <4>1. Cardinality(Places(queue, n))
              = Cardinality(Places(Tail(queue), n)) + (IF Head(queue) = n THEN 1 ELSE 0)
        BY <1>5, <3>1, TailPlaces
      <4>2. Cardinality(Places(Tail(queue), n)) \in Nat
        BY <3>1, PlacesFinite
      <4> QED
        BY <3>1, <4>1, <4>2, Zenon DEF QueueCount, Is, m
    <3>3. t \notin calls
      <4>1. QueueCount(m) >= 1
        BY <3>1, <3>2 DEF Is
      <4>2. TaskCount(m) = 0
        BY <3>1, <4>1, AtMostOne
      <4>3. ASSUME t \in calls
            PROVE  TaskCount(m) >= 1
        <5>1. TaskCount(m) = Cardinality(OfNumber(calls \ {t}, m)) + Is(m, m)
              /\ Cardinality(OfNumber(calls \ {t}, m)) \in Nat
          BY <1>7, <3>1, <4>3
        <5> QED
          BY <5>1 DEF Is
      <4> QED
        BY <4>2, <4>3
    <3>4. /\ IsFiniteSet(calls)'
          /\ \A n : TaskCount(n)' = TaskCount(n) + Is(m, n) /\ TaskCount(n) \in Nat
      <4>1. /\ IsFiniteSet(calls \cup {t})
            /\ \A n : /\ Cardinality(OfNumber(calls \cup {t}, n))
                           = Cardinality(OfNumber(calls, n)) + (IF t.n = n THEN 1 ELSE 0)
                      /\ Cardinality(OfNumber(calls, n)) \in Nat
        BY <1>4, <3>3, TasksChange
      <4> QED
        BY <3>1, <4>1, Zenon DEF TaskCount, Is
    <3>5. \A n : Acked(n)' = Acked(n)
      BY <3>1, Zenon DEF Acked
    <3> QED
      BY <3>2, <3>4, <3>5 DEF Is, Acked
  <2>2. ASSUME NEW c \in calls, CallSucceeds(c)
        PROVE  <1>8!1 /\ <1>8!2
    <3>1. calls' = calls \ {c} /\ acked' = acked \cup {c.n} /\ queue' = queue
      BY <2>2 DEF CallSucceeds
    <3>2. \A n : TaskCount(n) = TaskCount(n)' + Is(c.n, n) /\ TaskCount(n)' \in Nat
      BY <1>7, <3>1, Zenon DEF TaskCount
    <3>3. Acked(c.n) = 0
      <4>1. TaskCount(c.n) >= 1 /\ c.n \in 1..MaxUpdates
        BY <1>5, <3>2 DEF Is
      <4> QED
        BY <4>1, AtMostOne
    <3>4. \A n : Acked(n)' = Acked(n) + Is(c.n, n)
      BY <3>1, <3>3 DEF Acked, Is
    <3>5. \A n : QueueCount(n)' = QueueCount(n)
      BY <3>1, Zenon DEF QueueCount
    <3>6. IsFiniteSet(calls)'
      BY <1>7, <3>1
    <3> QED
      BY <1>3, <3>2, <3>4, <3>5, <3>6 DEF Is, Acked
  <2>3. ASSUME NEW c \in calls, CallFails(c)
        PROVE  <1>8!1 /\ <1>8!2
    <3> DEFINE d == [c EXCEPT !.at = "requeue"]
    <3>1. calls' = (calls \ {c}) \cup {d} /\ queue' = queue /\ acked' = acked /\ c.at = "call"
      BY <2>3 DEF CallFails
    <3>2. d.n = c.n /\ d.at = "requeue" /\ d # c
      BY <1>5, <3>1 DEF CallRecords
    <3> HIDE DEF d
    <3>3. d \notin calls \ {c}
      <4>1. ASSUME d \in calls \ {c}
            PROVE  TaskCount(c.n) >= 2
        <5>1. OfNumber(calls \ {c}, c.n) # {} /\ IsFiniteSet(OfNumber(calls \ {c}, c.n))
          BY <1>7, <3>2, <4>1, FS_Subset DEF OfNumber
        <5>2. Cardinality(OfNumber(calls \ {c}, c.n)) # 0
          BY <5>1, FS_EmptySet
        <5>3. TaskCount(c.n) = Cardinality(OfNumber(calls \ {c}, c.n)) + Is(c.n, c.n)
              /\ Cardinality(OfNumber(calls \ {c}, c.n)) \in Nat
          BY <1>7
        <5> QED
          BY <5>2, <5>3 DEF Is
      <4>2. TaskCount(c.n) <= 1
        BY <1>5, AtMostOne
      <4>3. TaskCount(c.n) \in Nat
        BY <1>3, <1>5
      <4> QED
        BY <4>1, <4>2, <4>3
    <3>4. /\ IsFiniteSet(calls)'
          /\ \A n : TaskCount(n)' = Cardinality(OfNumber(calls \ {c}, n)) + Is(c.n, n)
      <4>1. /\ IsFiniteSet((calls \ {c}) \cup {d})
            /\ \A n : Cardinality(OfNumber((calls \ {c}) \cup {d}, n))
                           = Cardinality(OfNumber(calls \ {c}, n)) + (IF d.n = n THEN 1 ELSE 0)
        BY <1>7, <3>3, TasksChange
      <4> QED
        BY <3>1, <3>2, <4>1, Zenon DEF TaskCount, Is
    <3>5. \A n : QueueCount(n)' = QueueCount(n) /\ Acked(n)' = Acked(n)
      BY <3>1, Zenon DEF QueueCount, Acked
    <3> QED
      BY <1>3, <1>7, <3>4, <3>5 DEF Is, Acked
  <2>4. ASSUME NEW c \in calls, Requeue(c)
        PROVE  <1>8!1 /\ <1>8!2
    <3>1. calls' = calls \ {c} /\ queue' = Append(queue, c.n) /\ acked' = acked
      BY <2>4 DEF Requeue
    <3>2. \A n : TaskCount(n) = TaskCount(n)' + Is(c.n, n) /\ TaskCount(n)' \in Nat
      BY <1>7, <3>1, Zenon DEF TaskCount
    <3>3. ASSUME NEW n
          PROVE  QueueCount(n)' = QueueCount(n) + Is(c.n, n)
      <4>1. Cardinality(Places(Append(queue, c.n), n))
              = Cardinality(Places(queue, n)) + (IF c.n = n THEN 1 ELSE 0)
        BY <1>5, AppendPlaces, SMTT(30)
      <4> QED
        BY <3>1, <4>1, Zenon DEF QueueCount, Is
    <3>4. \A n : Acked(n)' = Acked(n)
      BY <3>1, Zenon DEF Acked
    <3>5. IsFiniteSet(calls)'
      BY <1>7, <3>1
    <3> QED
      BY <1>3, <3>2, <3>3, <3>4, <3>5 DEF Is, Acked
  <2> QED
    BY <2>1, <2>2, <2>3, <2>4
<1>9. \A n \in 1..MaxUpdates :
          (InboxCount(n) + QueueCount(n) + TaskCount(n) + WithScan(n) + WithLoop(n)
                            + Acked(n) + Missed(n))'
                = InboxCount(n) + QueueCount(n) + TaskCount(n) + WithScan(n) + WithLoop(n)
                            + Acked(n) + Missed(n) + 0
    BY <1>2, <1>3, <1>8 DEF WithScan, WithLoop, Acked, Missed
<1> QED
    BY <1>1, <1>4, <1>8, <1>9, Balance

(* No update is lost between the scanner and its callback, and none is     *)
(* called back again after it has succeeded: for any number of updates,    *)
(* buffers and queue of any length and any number of failures.             *)
THEOREM NoUpdateLostOrRepeated == Spec => []InOnePlace
<1>1. Init => PlaceInv
  <2> SUFFICES ASSUME Init PROVE PlaceInv
    OBVIOUS
  <2>1. IsFiniteSet(calls) /\ Cardinality({}) = 0
    BY FS_EmptySet DEF Init
  <2>2. ASSUME NEW n \in 1..MaxUpdates
        PROVE  Copies(n) = 0
    <3>1. {i \in DOMAIN inbox : inbox[i].n = n} = {} /\ {i \in DOMAIN queue : queue[i] = n} = {}
          /\ {c \in calls : c.n = n} = {}
      BY DEF Init
    <3>2. scan.at = "idle" /\ loop.at = "start" /\ acked = {} /\ missed = {}
      BY DEF Init, NoScan
    <3>3. Copies(n) = Cardinality({}) + Cardinality({}) + Cardinality({})
                        + WithScan(n) + WithLoop(n) + Acked(n) + Missed(n)
      BY <3>1, Zenon DEF Copies, WithScan, WithLoop, Acked, Missed
    <3>4. WithScan(n) = 0 /\ WithLoop(n) = 0 /\ Acked(n) = 0 /\ Missed(n) = 0
      BY <3>2 DEF WithScan, WithLoop, Acked, Missed
    <3> QED
      BY <2>1, <3>3, <3>4
  <2>3. count = 0
    BY DEF Init
  <2> QED
    BY <2>1, <2>2, <2>3 DEF PlaceInv
<1>2. Types /\ Course /\ PlaceInv /\ [Next]_vars => PlaceInv'
  <2> SUFFICES ASSUME Types, Types', Course, PlaceInv, [Next]_vars PROVE PlaceInv'
    BY StepTypes
  <2>1. CASE UNCHANGED <<scan, count, inbox, loop, missed, queue, calls, acked>>
    BY <2>1, ZenonT(60) DEF PlaceInv, Copies
  <2>2. \/ UNCHANGED <<scan, count, inbox, loop, missed, queue, calls, acked>>
        \/ (\E id \in Id : ReadInvoice(id)) \/ Publish
        \/ Watch
        \/ TakeCommand \/ \E c \in calls : CallSucceeds(c) \/ CallFails(c) \/ Requeue(c)
    <3> DEFINE Untouched == UNCHANGED <<scan, count, inbox, loop, missed, queue, calls, acked>>
    <3>1. (\E id \in Id : NewInvoice(id)) => Untouched
      BY Zenon DEF NewInvoice
    <3>2. (\E text \in Texts : DeleteInvoice(text) \/ UpgradeFails(text)) => Untouched
      BY Zenon DEF DeleteInvoice, UpgradeFails
    <3>3. (\E s \in Socket, text \in Texts : OpenSocket(s, text)) => Untouched
      BY Zenon DEF OpenSocket
    <3>4. (\E s \in Socket : Forward(s) \/ ClientStalls(s) \/ EndSocket(s)) => Untouched
      BY Zenon DEF Forward, ClientStalls, EndSocket
    <3>5. UNCHANGED vars => Untouched
      BY Zenon DEF vars
    <3> HIDE DEF Untouched
    <3>6. \/ Untouched \/ (\E id \in Id : ReadInvoice(id)) \/ Publish \/ Watch
          \/ TakeCommand \/ \E c \in calls : CallSucceeds(c) \/ CallFails(c) \/ Requeue(c)
      BY <3>1, <3>2, <3>3, <3>4, <3>5, Zenon DEF Next, CallReturns, Retry
    <3> QED
      BY <3>6 DEF Untouched
  <2> QED
    BY <2>1, <2>2, ScannerPlaces, WatchPlaces, CallbackPlaces
<1>3. Types /\ PlaceInv => InOnePlace
    BY ServerAssumption DEF Types, ScanTypeOK, PlaceInv, InOnePlace
<1> QED
    BY <1>1, <1>2, <1>3, TypeInvariance, CourseInvariance, PTL DEF Spec

-----------------------------------------------------------------------------
(***************************************************************************)
(* The text of an invoice id, for any base and any number of digits.       *)
(***************************************************************************)
USE TextAssumption DEF TextAssumption

(* A set that has 0, and n + 1 with n, has every natural number.  The      *)
(* library's induction theorems take a predicate; this one takes a set.    *)
LEMMA SetInduction ==
    ASSUME NEW S, 0 \in S, \A n \in Nat : n \in S => n + 1 \in S
    PROVE  \A n \in Nat : n \in S
<1> DEFINE T == {n \in Nat : n \notin S}
           R == {ss \in Nat \X Nat : ss[1] < ss[2]}
<1> SUFFICES ASSUME T # {} PROVE FALSE
  OBVIOUS
<1>1. IsWellFoundedOn(R, Nat)
  BY NatLessThanWellFounded DEF OpToRel
<1>2. T \subseteq Nat
  OBVIOUS
<1>3. PICK x \in T : \A y \in T : ~(<<y, x>> \in R)
  <2> HIDE DEF R, T
  <2> QED BY <1>1, <1>2, WFMin
<1>4. x \in Nat /\ x - 1 \in Nat /\ x = (x - 1) + 1
  BY <1>3
<1>5. <<x - 1, x>> \in Nat \X Nat /\ <<x - 1, x>>[1] = x - 1 /\ <<x - 1, x>>[2] = x
  BY <1>4
<1>6. <<x - 1, x>> \in R
  BY <1>4, <1>5
<1>7. x - 1 \in S
  BY <1>3, <1>4, <1>6
<1>8. x \in S
  BY <1>4, <1>7
<1> QED
  BY <1>3, <1>8

(* The first powers exist, and are the only ones, whatever is asked for.   *)
PowersUpTo(f, n) == \A i \in 0..n : f[i] = IF i = 0 THEN 1 ELSE Base * f[i - 1]

LEMMA PowersExist == \A n \in Nat : \E f \in [0..n -> Nat] : PowersUpTo(f, n)
<1> DEFINE S == {n \in Nat : \E f \in [0..n -> Nat] : PowersUpTo(f, n)}
<1>1. 0 \in S
  <2>1. [i \in 0..0 |-> 1] \in [0..0 -> Nat] /\ PowersUpTo([i \in 0..0 |-> 1], 0)
    BY DEF PowersUpTo
  <2> QED BY <2>1
<1>2. ASSUME NEW n \in Nat, n \in S PROVE n + 1 \in S
  <2> PICK f \in [0..n -> Nat] : PowersUpTo(f, n)
    BY <1>2
  <2> DEFINE g == [i \in 0..(n + 1) |-> IF i = n + 1 THEN Base * f[n] ELSE f[i]]
  <2>1. f[n] \in Nat /\ Base * f[n] \in Nat
    OBVIOUS
  <2>2. g \in [0..(n + 1) -> Nat]
    BY <2>1
  <2>3. ASSUME NEW i \in 0..(n + 1) PROVE g[i] = IF i = 0 THEN 1 ELSE Base * g[i - 1]
    <3>1. CASE i = n + 1
      <4>1. n \in 0..(n + 1) /\ n # n + 1 /\ i - 1 = n /\ i # 0
        BY <3>1
      <4> QED BY <3>1, <4>1
    <3>2. CASE i # n + 1
      <4>1. i \in 0..n /\ (i # 0 => i - 1 \in 0..(n + 1) /\ i - 1 # n + 1)
        BY <3>2
      <4> QED BY <3>2, <4>1 DEF PowersUpTo
    <3> QED BY <3>1, <3>2
  <2> HIDE DEF g
  <2>4. PowersUpTo(g, n + 1)
    BY <2>3 DEF PowersUpTo
  <2> QED BY <2>2, <2>4
<1> HIDE DEF S
<1>3. \A n \in Nat : n \in S
  BY <1>1, <1>2, SetInduction
<1> QED
  BY <1>3 DEF S

LEMMA PowersAgree ==
    ASSUME NEW n \in Nat, NEW m \in Nat, NEW f, NEW g, PowersUpTo(f, n), PowersUpTo(g, m)
    PROVE  \A i \in Nat : i <= n /\ i <= m => f[i] = g[i]
<1> DEFINE S == {i \in Nat : i <= n /\ i <= m => f[i] = g[i]}
<1>1. 0 \in S
  BY DEF PowersUpTo
<1>2. ASSUME NEW i \in Nat, i \in S PROVE i + 1 \in S
  <2> SUFFICES ASSUME i + 1 <= n, i + 1 <= m PROVE f[i + 1] = g[i + 1]
    OBVIOUS
  <2>1. f[i] = g[i]
    BY <1>2
  <2>2. i + 1 \in 0..n /\ i + 1 \in 0..m /\ i + 1 # 0 /\ (i + 1) - 1 = i
    OBVIOUS
  <2> QED BY <2>1, <2>2 DEF PowersUpTo
<1> HIDE DEF S
<1>3. \A i \in Nat : i \in S
  BY <1>1, <1>2, SetInduction
<1> QED
  BY <1>3 DEF S

(* There is a function that the recursive definition of Power describes.   *)
LEMMA PowerEquations ==
    /\ Power \in [Nat -> Nat \ {0}]
    /\ Power[0] = 1
    /\ \A n \in Nat : Power[n + 1] = Base * Power[n]
<1> DEFINE upTo(n) == CHOOSE f \in [0..n -> Nat] : PowersUpTo(f, n)
           F == [n \in Nat |-> upTo(n)[n]]
<1>1. \A n \in Nat : upTo(n) \in [0..n -> Nat] /\ PowersUpTo(upTo(n), n)
  BY PowersExist
<1> HIDE DEF upTo
<1>2. ASSUME NEW n \in Nat PROVE F[n] = IF n = 0 THEN 1 ELSE Base * F[n - 1]
  <2>1. CASE n = 0
    BY <1>1, <2>1 DEF PowersUpTo
  <2>2. CASE n # 0
    <3>1. n - 1 \in Nat /\ n \in 0..n /\ n - 1 <= n /\ n - 1 <= n - 1
      BY <2>2
    <3>2. upTo(n)[n] = Base * upTo(n)[n - 1]
      BY <1>1, <2>2, <3>1 DEF PowersUpTo
    <3>3. upTo(n)[n - 1] = upTo(n - 1)[n - 1]
      BY <1>1, <3>1, PowersAgree
    <3> QED BY <2>2, <3>1, <3>2, <3>3
  <2> QED BY <2>1, <2>2
<1>3. F = [n \in Nat |-> IF n = 0 THEN 1 ELSE Base * F[n - 1]]
  BY <1>2
<1> HIDE DEF F
<1>4. Power = [n \in Nat |-> IF n = 0 THEN 1 ELSE Base * Power[n - 1]]
  BY <1>3 DEF Power
<1>5. Power[0] = 1
  BY <1>4
<1>6. ASSUME NEW n \in Nat PROVE Power[n + 1] = Base * Power[n]
  <2>1. n + 1 \in Nat /\ n + 1 # 0 /\ (n + 1) - 1 = n
    OBVIOUS
  <2> QED BY <1>4, <2>1
<1>7. \A n \in Nat : Power[n] \in Nat \ {0}
  <2> DEFINE S == {n \in Nat : Power[n] \in Nat \ {0}}
  <2>1. 0 \in S
    BY <1>5
  <2>2. ASSUME NEW n \in Nat, n \in S PROVE n + 1 \in S
    <3>1. Power[n] \in Nat \ {0}
      BY <2>2
    <3>2. Base * Power[n] \in Nat \ {0}
      BY <3>1
    <3> QED BY <1>6, <3>2
  <2> HIDE DEF S
  <2>3. \A n \in Nat : n \in S
    BY <2>1, <2>2, SetInduction
  <2> QED BY <2>3 DEF S
<1> QED
  BY <1>4, <1>5, <1>6, <1>7

(* Long division.                                                          *)
LEMMA DivUnique ==
    ASSUME NEW d \in Nat \ {0}, NEW q \in Nat, NEW r \in 0..(d - 1)
    PROVE  (q * d + r) \div d = q /\ (q * d + r) % d = r
OBVIOUS

LEMMA DivMod ==
    ASSUME NEW d \in Nat \ {0}, NEW x \in Nat
    PROVE  /\ x = (x \div d) * d + (x % d)
           /\ x \div d \in Nat /\ x % d \in 0..(d - 1)
OBVIOUS

LEMMA DivTwice ==
    ASSUME NEW a \in Nat \ {0}, NEW b \in Nat \ {0}, NEW x \in Nat
    PROVE  (x \div a) \div b = x \div (b * a)
OBVIOUS

LEMMA DivZero ==
    ASSUME NEW d \in Nat \ {0}, NEW x \in Nat
    PROVE  x \div d = 0 <=> x < d
OBVIOUS

LEMMA ValueIsNatural ==
    ASSUME NEW v \in Nat, NEW d \in Nat PROVE v * Base + d \in Nat
<1>1. v * Base \in Nat
  OBVIOUS
<1> QED BY <1>1

(* f[k] is what the first k digits of s stand for.                         *)
ValuesUpTo(f, s, n) == \A k \in 0..n : f[k] = IF k = 0 THEN 0 ELSE f[k - 1] * Base + s[k]

LEMMA ValuesExist ==
    ASSUME NEW N \in Nat, NEW s \in [1..N -> Digit]
    PROVE  \A n \in Nat : n <= N => \E f \in [0..n -> Nat] : ValuesUpTo(f, s, n)
<1> DEFINE S == {n \in Nat : n <= N => \E f \in [0..n -> Nat] : ValuesUpTo(f, s, n)}
<1>1. 0 \in S
  <2>1. [i \in 0..0 |-> 0] \in [0..0 -> Nat] /\ ValuesUpTo([i \in 0..0 |-> 0], s, 0)
    BY DEF ValuesUpTo
  <2> QED BY <2>1
<1>2. ASSUME NEW n \in Nat, n \in S PROVE n + 1 \in S
  <2> SUFFICES ASSUME n + 1 <= N PROVE \E f \in [0..(n + 1) -> Nat] : ValuesUpTo(f, s, n + 1)
    OBVIOUS
  <2> PICK f \in [0..n -> Nat] : ValuesUpTo(f, s, n)
    BY <1>2
  <2> DEFINE g == [i \in 0..(n + 1) |-> IF i = n + 1 THEN f[n] * Base + s[n + 1] ELSE f[i]]
  <2>0. f[n] \in Nat /\ s[n + 1] \in Nat
    BY DEF Digit
  <2>1. f[n] * Base + s[n + 1] \in Nat
    BY <2>0, ValueIsNatural
  <2>2. g \in [0..(n + 1) -> Nat]
    BY <2>1
  <2>3. ASSUME NEW i \in 0..(n + 1) PROVE g[i] = IF i = 0 THEN 0 ELSE g[i - 1] * Base + s[i]
    <3>1. CASE i = n + 1
      <4>1. n \in 0..(n + 1) /\ n # n + 1 /\ i - 1 = n /\ i # 0
        BY <3>1
      <4> QED BY <3>1, <4>1
    <3>2. CASE i # n + 1
      <4>1. i \in 0..n /\ (i # 0 => i - 1 \in 0..(n + 1) /\ i - 1 # n + 1)
        BY <3>2
      <4> QED BY <3>2, <4>1 DEF ValuesUpTo
    <3> QED BY <3>1, <3>2
  <2> HIDE DEF g
  <2>4. ValuesUpTo(g, s, n + 1)
    BY <2>3 DEF ValuesUpTo
  <2> QED BY <2>2, <2>4
<1> HIDE DEF S
<1>3. \A n \in Nat : n \in S
  BY <1>1, <1>2, SetInduction
<1> QED
  BY <1>3 DEF S

(* from_be_bytes gives what all digits stand for.                          *)
LEMMA FromDigitsValue ==
    ASSUME NEW N \in Nat, NEW s \in [1..N -> Digit]
    PROVE  \E f \in [0..N -> Nat] : ValuesUpTo(f, s, N) /\ FromDigits(s) = f[N]
<1>1. Len(s) = N /\ s \in Seq(Digit)
  OBVIOUS
<1> DEFINE value == CHOOSE f : f = [k \in 0..N |-> IF k = 0 THEN 0 ELSE f[k - 1] * Base + s[k]]
<1>2. FromDigits(s) = value[N]
  BY <1>1 DEF FromDigits
<1>3. PICK f \in [0..N -> Nat] : ValuesUpTo(f, s, N)
  <2>1. N <= N
    OBVIOUS
  <2> QED BY <2>1, ValuesExist
<1>4. f = [k \in 0..N |-> IF k = 0 THEN 0 ELSE f[k - 1] * Base + s[k]]
  BY <1>3 DEF ValuesUpTo
<1>5. value = [k \in 0..N |-> IF k = 0 THEN 0 ELSE value[k - 1] * Base + s[k]]
  BY <1>4
<1> HIDE DEF value
<1>6. ValuesUpTo(value, s, N) /\ DOMAIN value = 0..N
  BY <1>5 DEF ValuesUpTo
<1>7. \A k \in Nat : k <= N => value[k] \in Nat
  <2> DEFINE S == {k \in Nat : k <= N => value[k] \in Nat}
  <2>1. 0 \in S
    BY <1>6 DEF ValuesUpTo
  <2>2. ASSUME NEW k \in Nat, k \in S PROVE k + 1 \in S
    <3> SUFFICES ASSUME k + 1 <= N PROVE value[k + 1] \in Nat
      OBVIOUS
    <3>1. k + 1 \in 0..N /\ k + 1 # 0 /\ (k + 1) - 1 = k /\ s[k + 1] \in Nat /\ value[k] \in Nat
      BY <2>2 DEF Digit
    <3>2. value[k + 1] = value[k] * Base + s[k + 1]
      BY <1>6, <3>1 DEF ValuesUpTo
    <3>3. value[k] * Base + s[k + 1] \in Nat
      BY <3>1, ValueIsNatural
    <3> QED BY <3>2, <3>3
  <2> HIDE DEF S
  <2>3. \A k \in Nat : k \in S
    BY <2>1, <2>2, SetInduction
  <2> QED BY <2>3 DEF S
<1>8. value \in [0..N -> Nat]
  BY <1>5, <1>7
<1> QED
  BY <1>2, <1>6, <1>8

(* The last digit of a number and the rest of it.                          *)
LEMMA BaseIsNatural == Base \in Nat \ {0}
OBVIOUS

LEMMA PowerStep ==
    ASSUME NEW j \in Nat
    PROVE  Power[j] \in Nat \ {0} /\ Power[j + 1] = Base * Power[j]
<1>1. Power[j] \in Nat \ {0}
  BY PowerEquations
<1>2. Power[j + 1] = Base * Power[j]
  BY PowerEquations
<1> QED BY <1>1, <1>2

LEMMA AppendDigit ==
    ASSUME NEW q \in Nat, NEW d \in Digit
    PROVE  (q * Base + d) \div Base = q /\ (q * Base + d) % Base = d
<1>1. d \in 0..(Base - 1)
  BY DEF Digit
<1> QED BY <1>1, BaseIsNatural, DivUnique

LEMMA SplitDigit ==
    ASSUME NEW y \in Nat
    PROVE  y = (y \div Base) * Base + (y % Base) /\ y % Base \in Digit
<1>1. y % Base \in 0..(Base - 1) /\ y = (y \div Base) * Base + (y % Base)
  BY BaseIsNatural, DivMod
<1> QED BY <1>1 DEF Digit

(* The value of the leading digits is that of all of them, divided.        *)
LEMMA LeadingDigits ==
    ASSUME NEW N \in Nat, NEW s \in [1..N -> Digit], NEW f \in [0..N -> Nat], ValuesUpTo(f, s, N)
    PROVE  \A j \in Nat : j <= N => f[N] \div Power[j] = f[N - j]
<1> DEFINE S == {j \in Nat : j <= N => f[N] \div Power[j] = f[N - j]}
<1>0. f[N] \in Nat
  OBVIOUS
<1>1. 0 \in S
  <2>1. f[N] \div 1 = f[N] /\ N - 0 = N
    BY <1>0
  <2> QED BY <2>1, PowerEquations
<1>2. ASSUME NEW j \in Nat, j \in S PROVE j + 1 \in S
  <2> SUFFICES ASSUME j + 1 <= N PROVE f[N] \div Power[j + 1] = f[N - (j + 1)]
    OBVIOUS
  <2>1. N - j \in 0..N /\ N - j \in 1..N /\ N - j # 0 /\ (N - j) - 1 = N - (j + 1) /\ N - (j + 1) \in 0..N
    OBVIOUS
  <2>2. f[N - j] = f[N - (j + 1)] * Base + s[N - j]
    BY <2>1 DEF ValuesUpTo
  <2>3. f[N - (j + 1)] \in Nat /\ s[N - j] \in Digit
    BY <2>1
  <2>4. f[N - j] \div Base = f[N - (j + 1)]
    BY <2>2, <2>3, AppendDigit, SMTT(30)
  <2>5. f[N] \div Power[j] = f[N - j]
    BY <1>2
  <2>6. Power[j] \in Nat \ {0} /\ Power[j + 1] = Base * Power[j]
    BY PowerStep
  <2>7. (f[N] \div Power[j]) \div Base = f[N] \div (Base * Power[j])
    BY <1>0, <2>6, BaseIsNatural, DivTwice
  <2> QED BY <2>4, <2>5, <2>6, <2>7
<1> HIDE DEF S
<1>3. \A j \in Nat : j \in S
  BY <1>1, <1>2, SetInduction
<1> QED
  BY <1>3 DEF S

(* Digits that are read fit the integer and are written again as they were.*)
LEMMA WrittenAsRead ==
    ASSUME NEW N \in Nat, NEW s \in [1..N -> Digit]
    PROVE  FromDigits(s) \in 0..(Power[N] - 1) /\ ToDigits(FromDigits(s), N) = s
<1> PICK f \in [0..N -> Nat] : ValuesUpTo(f, s, N) /\ FromDigits(s) = f[N]
  BY FromDigitsValue
<1>1. \A j \in Nat : j <= N => f[N] \div Power[j] = f[N - j]
  BY LeadingDigits
<1>2. f[0] = 0 /\ f[N] \in Nat /\ Power[N] \in Nat \ {0}
  BY PowerEquations DEF ValuesUpTo
<1>3. f[N] \div Power[N] = 0
  <2>1. N <= N /\ N - N = 0
    OBVIOUS
  <2> QED BY <1>1, <1>2, <2>1
<1>4. f[N] < Power[N]
  BY <1>2, <1>3, DivZero
<1>5. ASSUME NEW k \in 1..N PROVE (f[N] \div Power[N - k]) % Base = s[k]
  <2>1. N - k \in Nat /\ N - k <= N /\ N - (N - k) = k /\ k \in 0..N /\ k # 0 /\ k - 1 \in 0..N
    OBVIOUS
  <2>2. f[N] \div Power[N - k] = f[k]
    BY <1>1, <2>1
  <2>3. f[k] = f[k - 1] * Base + s[k]
    BY <2>1 DEF ValuesUpTo
  <2>4. f[k - 1] \in Nat /\ s[k] \in Digit
    BY <2>1
  <2>5. (f[k - 1] * Base + s[k]) % Base = s[k]
    BY <2>4, AppendDigit
  <2> QED BY <2>2, <2>3, <2>5
<1>6. ToDigits(f[N], N) = s
  BY <1>5 DEF ToDigits
<1> QED
  BY <1>2, <1>4, <1>6

LEMMA DigitsAreDigits ==
    ASSUME NEW N \in Nat, NEW x \in Nat
    PROVE  ToDigits(x, N) \in [1..N -> Digit]
<1> SUFFICES ASSUME NEW k \in 1..N PROVE (x \div Power[N - k]) % Base \in Digit
  BY DEF ToDigits
<1>1. N - k \in Nat
  OBVIOUS
<1>2. Power[N - k] \in Nat \ {0}
  BY <1>1, PowerEquations
<1>3. x \div Power[N - k] \in Nat
  BY <1>2, DivMod
<1> QED
  BY <1>3, SplitDigit

(* An integer that fits is read as it was written.                         *)
LEMMA ReadAsWritten ==
    ASSUME NEW N \in Nat, NEW x \in 0..(Power[N] - 1)
    PROVE  FromDigits(ToDigits(x, N)) = x
<1> DEFINE s == ToDigits(x, N)
<1>1. Power[N] \in Nat \ {0} /\ x \in Nat /\ x < Power[N]
  BY PowerEquations
<1>2. s \in [1..N -> Digit]
  BY <1>1, DigitsAreDigits
<1>3. \A k \in 1..N : s[k] = (x \div Power[N - k]) % Base
  BY DEF ToDigits
<1> HIDE DEF s
<1>4. PICK f \in [0..N -> Nat] : ValuesUpTo(f, s, N) /\ FromDigits(s) = f[N]
  BY <1>2, FromDigitsValue
<1> DEFINE S == {k \in Nat : k <= N => f[k] = x \div Power[N - k]}
<1>5. 0 \in S
  <2>1. x \div Power[N] = 0 /\ N - 0 = N
    BY <1>1, DivZero
  <2>2. f[0] = 0
    BY <1>4 DEF ValuesUpTo
  <2> QED BY <2>1, <2>2
<1>6. ASSUME NEW k \in Nat, k \in S PROVE k + 1 \in S
  <2> SUFFICES ASSUME k + 1 <= N PROVE f[k + 1] = x \div Power[N - (k + 1)]
    OBVIOUS
  <2> DEFINE j == N - (k + 1)
             y == x \div Power[j]
  <2>1. k + 1 \in 0..N /\ k + 1 \in 1..N /\ k + 1 # 0 /\ (k + 1) - 1 = k /\ j \in Nat /\ j + 1 = N - k
    OBVIOUS
  <2>2. f[k + 1] = f[k] * Base + s[k + 1]
    BY <1>4, <2>1 DEF ValuesUpTo
  <2>3. f[k] = x \div Power[N - k]
    BY <1>6
  <2>4. s[k + 1] = y % Base
    BY <1>3, <2>1
  <2> HIDE DEF j
  <2>5. Power[j] \in Nat \ {0} /\ Power[j + 1] = Base * Power[j]
    BY <2>1, PowerStep
  <2>6. y \div Base = x \div Power[j + 1]
    BY <1>1, <2>5, BaseIsNatural, DivTwice
  <2>7. y \in Nat
    BY <1>1, <2>5, DivMod
  <2> HIDE DEF y
  <2>8. y = (y \div Base) * Base + (y % Base)
    BY <2>7, SplitDigit
  <2>9. f[k + 1] = y
    BY <2>1, <2>2, <2>3, <2>4, <2>6, <2>8
  <2> QED BY <2>9 DEF y, j
<1> HIDE DEF S
<1>7. \A k \in Nat : k \in S
  BY <1>5, <1>6, SetInduction
<1>8. f[N] = x \div Power[N - N]
  BY <1>7 DEF S
<1>9. x \div Power[N - N] = x
  <2>1. N - N = 0 /\ x \div 1 = x
    BY <1>1
  <2> QED BY <2>1, PowerEquations
<1> QED
  BY <1>4, <1>8, <1>9 DEF s

LEMMA TextIsFunction ==
    ASSUME NEW s \in Seq(Digit)
    PROVE  s \in [1..Len(s) -> Digit] /\ s = [k \in 1..Len(s) |-> s[k]]
OBVIOUS

(* The digits of two indices and a height, one after the other.            *)
Blocks(a, b, c) ==
    [k \in 1..IdLen |-> IF k <= IndexLen THEN a[k]
                        ELSE IF k <= 2 * IndexLen THEN b[k - IndexLen]
                        ELSE c[k - 2 * IndexLen]]

LEMMA Joined ==
    ASSUME NEW a \in Seq(Digit), NEW b \in Seq(Digit)
    PROVE  /\ a \o b \in Seq(Digit) /\ Len(a \o b) = Len(a) + Len(b)
           /\ \A k \in 1..(Len(a) + Len(b)) :
                (a \o b)[k] = IF k <= Len(a) THEN a[k] ELSE b[k - Len(a)]
OBVIOUS

LEMMA BlocksAreJoined ==
    ASSUME NEW a \in [1..IndexLen -> Digit], NEW b \in [1..IndexLen -> Digit],
           NEW c \in [1..HeightLen -> Digit]
    PROVE  a \o b \o c = Blocks(a, b, c)
<1>1. a \in Seq(Digit) /\ b \in Seq(Digit) /\ c \in Seq(Digit)
  OBVIOUS
<1>2. Len(a) = IndexLen /\ Len(b) = IndexLen /\ Len(c) = HeightLen
  OBVIOUS
<1>3. /\ a \o b \in Seq(Digit) /\ Len(a \o b) = 2 * IndexLen
      /\ \A k \in 1..(2 * IndexLen) :
           (a \o b)[k] = IF k <= IndexLen THEN a[k] ELSE b[k - IndexLen]
  BY <1>1, <1>2
<1> DEFINE ab == a \o b
<1> HIDE DEF ab
<1>4. /\ ab \o c \in Seq(Digit) /\ Len(ab \o c) = IdLen
      /\ \A k \in 1..IdLen :
           (ab \o c)[k] = IF k <= 2 * IndexLen THEN ab[k] ELSE c[k - 2 * IndexLen]
  <2>1. ab \in Seq(Digit) /\ Len(ab) = 2 * IndexLen
    BY <1>3 DEF ab
  <2>2. Len(ab) + Len(c) = IdLen
    BY <1>2, <2>1 DEF IdLen
  <2>3. /\ ab \o c \in Seq(Digit) /\ Len(ab \o c) = Len(ab) + Len(c)
        /\ \A k \in 1..(Len(ab) + Len(c)) :
                (ab \o c)[k] = IF k <= Len(ab) THEN ab[k] ELSE c[k - Len(ab)]
    <3> HIDE TextAssumption
    <3> QED BY <1>1, <2>1, Joined
  <2> QED BY <2>1, <2>2, <2>3, Zenon
<1>5. ab \o c = [k \in 1..IdLen |-> (ab \o c)[k]]
  BY <1>4, TextIsFunction
<1>6. \A k \in 1..IdLen : (ab \o c)[k] = Blocks(a, b, c)[k]
  BY <1>3, <1>4 DEF ab, IdLen, Blocks
<1> QED
  BY <1>5, <1>6 DEF ab, Blocks

LEMMA BlocksAreCut ==
    ASSUME NEW s \in [1..IdLen -> Digit]
    PROVE  LET a == SubSeq(s, 1, IndexLen)
               b == SubSeq(s, IndexLen + 1, 2 * IndexLen)
               c == SubSeq(s, 2 * IndexLen + 1, IdLen)
           IN  /\ a = [k \in 1..IndexLen |-> s[k]]
               /\ b = [k \in 1..IndexLen |-> s[IndexLen + k]]
               /\ c = [k \in 1..HeightLen |-> s[2 * IndexLen + k]]
<1>1. s \in Seq(Digit) /\ Len(s) = IdLen
  BY DEF IdLen
<1>2. IdLen \in Nat /\ IdLen = 2 * IndexLen + HeightLen
  BY DEF IdLen
<1>3. SubSeq(s, 1, IndexLen) = [k \in 1..IndexLen |-> s[k]]
  BY <1>1, <1>2
<1>4. SubSeq(s, IndexLen + 1, 2 * IndexLen) = [k \in 1..IndexLen |-> s[IndexLen + k]]
  BY <1>1, <1>2
<1>5. SubSeq(s, 2 * IndexLen + 1, IdLen) = [k \in 1..HeightLen |-> s[2 * IndexLen + k]]
  BY <1>1, <1>2
<1> QED
  BY <1>3, <1>4, <1>5

(* The bits of an id are read as this id.                                  *)
LEMMA BitsThenId ==
    ASSUME NEW id \in InvoiceIds
    PROVE  ToBits(id) \in [1..IdLen -> Digit] /\ FromBits(ToBits(id)) = id
<1> DEFINE a == ToDigits(id.major, IndexLen)
           b == ToDigits(id.minor, IndexLen)
           c == ToDigits(id.creation, HeightLen)
<1>1. /\ id.major \in 0..(Power[IndexLen] - 1) /\ id.minor \in 0..(Power[IndexLen] - 1)
      /\ id.creation \in 0..(Power[HeightLen] - 1)
      /\ id = [major |-> id.major, minor |-> id.minor, creation |-> id.creation]
  BY DEF InvoiceIds
<1>2. /\ id.major \in Nat /\ id.minor \in Nat /\ id.creation \in Nat
      /\ IndexLen \in Nat /\ HeightLen \in Nat
  BY <1>1
<1>3. a \in [1..IndexLen -> Digit] /\ b \in [1..IndexLen -> Digit] /\ c \in [1..HeightLen -> Digit]
  BY <1>2, DigitsAreDigits
<1>4. FromDigits(a) = id.major /\ FromDigits(b) = id.minor /\ FromDigits(c) = id.creation
  BY <1>1, <1>2, ReadAsWritten
<1>5. ToBits(id) = a \o b \o c
  BY DEF ToBits
<1> HIDE DEF a, b, c
<1>6. ToBits(id) = Blocks(a, b, c)
  BY <1>3, <1>5, BlocksAreJoined
<1> DEFINE s == Blocks(a, b, c)
<1>7. s \in [1..IdLen -> Digit]
  BY <1>2, <1>3 DEF Blocks, IdLen
<1>8. /\ \A k \in 1..IndexLen : s[k] = a[k]
      /\ \A k \in 1..IndexLen : s[IndexLen + k] = b[k]
      /\ \A k \in 1..HeightLen : s[2 * IndexLen + k] = c[k]
  BY <1>2 DEF Blocks, IdLen
<1> HIDE DEF s
<1>9. /\ SubSeq(s, 1, IndexLen) = a
      /\ SubSeq(s, IndexLen + 1, 2 * IndexLen) = b
      /\ SubSeq(s, 2 * IndexLen + 1, IdLen) = c
  <2>1. /\ SubSeq(s, 1, IndexLen) = [k \in 1..IndexLen |-> s[k]]
        /\ SubSeq(s, IndexLen + 1, 2 * IndexLen) = [k \in 1..IndexLen |-> s[IndexLen + k]]
        /\ SubSeq(s, 2 * IndexLen + 1, IdLen) = [k \in 1..HeightLen |-> s[2 * IndexLen + k]]
    BY <1>7, BlocksAreCut
  <2>2. /\ [k \in 1..IndexLen |-> s[k]] = a
        /\ [k \in 1..IndexLen |-> s[IndexLen + k]] = b
        /\ [k \in 1..HeightLen |-> s[2 * IndexLen + k]] = c
    BY <1>3, <1>8
  <2> QED BY <2>1, <2>2
<1>10. FromBits(s) = id
  BY <1>1, <1>4, <1>9 DEF FromBits
<1> QED
  BY <1>6, <1>7, <1>10 DEF s

(* Bits are those of the id that they are read as.                         *)
LEMMA IdThenBits ==
    ASSUME NEW t \in [1..IdLen -> Digit]
    PROVE  FromBits(t) \in InvoiceIds /\ ToBits(FromBits(t)) = t
<1> DEFINE a == SubSeq(t, 1, IndexLen)
           b == SubSeq(t, IndexLen + 1, 2 * IndexLen)
           c == SubSeq(t, 2 * IndexLen + 1, IdLen)
<1>1. /\ a = [k \in 1..IndexLen |-> t[k]]
      /\ b = [k \in 1..IndexLen |-> t[IndexLen + k]]
      /\ c = [k \in 1..HeightLen |-> t[2 * IndexLen + k]]
  BY BlocksAreCut
<1>2. FromBits(t) = [major |-> FromDigits(a), minor |-> FromDigits(b), creation |-> FromDigits(c)]
  BY DEF FromBits
<1> HIDE DEF a, b, c
<1>3. a \in [1..IndexLen -> Digit] /\ b \in [1..IndexLen -> Digit] /\ c \in [1..HeightLen -> Digit]
  BY <1>1 DEF IdLen
<1>4. /\ FromDigits(a) \in 0..(Power[IndexLen] - 1) /\ ToDigits(FromDigits(a), IndexLen) = a
      /\ FromDigits(b) \in 0..(Power[IndexLen] - 1) /\ ToDigits(FromDigits(b), IndexLen) = b
      /\ FromDigits(c) \in 0..(Power[HeightLen] - 1) /\ ToDigits(FromDigits(c), HeightLen) = c
  BY <1>3, WrittenAsRead
<1>5. FromBits(t) \in InvoiceIds
  BY <1>2, <1>4 DEF InvoiceIds
<1>6. ToBits(FromBits(t)) = a \o b \o c
  BY <1>2, <1>4 DEF ToBits
<1>7. ToBits(FromBits(t)) = Blocks(a, b, c)
  BY <1>3, <1>6, BlocksAreJoined
<1>8. \A k \in 1..IdLen : Blocks(a, b, c)[k] = t[k]
  BY <1>1 DEF Blocks, IdLen
<1>9. Blocks(a, b, c) = t
  BY <1>8 DEF Blocks
<1> QED
  BY <1>5, <1>7, <1>9

(* A function on 1..n is a sequence, and what its beginning is.            *)
LEMMA FunctionIsSeq ==
    ASSUME NEW S, NEW n \in Nat, NEW f \in [1..n -> S]
    PROVE  f \in Seq(S) /\ Len(f) = n
OBVIOUS

LEMMA PrefixIs ==
    ASSUME NEW S, NEW s \in Seq(S), NEW m \in Nat, m <= Len(s)
    PROVE  SubSeq(s, 1, m) = [p \in 1..m |-> s[p]]
OBVIOUS

(* How many characters the bits of an id take.                             *)
LEMMA Lengths ==
    /\ IdLen \in Nat \ {0} /\ TextLen \in Nat /\ CharLen \in Nat \ {0} /\ ByteLen \in Nat \ {0}
    /\ IdLen <= TextLen * CharLen /\ TextLen * CharLen < IdLen + CharLen
<1>1. IdLen \in Nat \ {0} /\ CharLen \in Nat \ {0} /\ ByteLen \in Nat \ {0}
  BY Base64Assumption DEF IdLen
<1> DEFINE x == IdLen + CharLen - 1
<1>2. x \in Nat
  BY <1>1
<1>3. x = (x \div CharLen) * CharLen + (x % CharLen) /\ x \div CharLen \in Nat /\ x % CharLen \in 0..(CharLen - 1)
  BY <1>1, <1>2, DivMod
<1> DEFINE q == x \div CharLen
           m == q * CharLen
<1>4. q \in Nat /\ m \in Nat
  BY <1>1, <1>3
<1>5. m <= x /\ x < m + CharLen
  <2> HIDE DEF m, q
  <2>1. x = m + (x % CharLen) /\ x % CharLen \in 0..(CharLen - 1)
    BY <1>3 DEF m, q
  <2> QED BY <1>1, <1>2, <1>4, <2>1
<1>6. TextLen = q
  BY DEF TextLen
<1> QED
  BY <1>1, <1>4, <1>5, <1>6

(* A number of characters that is not too large nor too small is the right *)
(* one.                                                                    *)
LEMMA LengthUnique ==
    ASSUME NEW d \in Nat \ {0}, NEW i \in Nat, NEW m \in Nat, NEW n \in Nat,
           i <= m * d, m * d < i + d, i <= n * d, n * d < i + d
    PROVE  m = n
<1>1. ASSUME NEW a \in Nat, NEW b \in Nat, i <= a * d, b * d < i + d, a < b PROVE FALSE
  <2>1. b = a + 1 + (b - a - 1) /\ b - a - 1 \in Nat
    BY <1>1
  <2>2. b * d = a * d + d + (b - a - 1) * d
    BY <2>1
  <2>3. (b - a - 1) * d \in Nat /\ a * d \in Nat
    BY <2>1
  <2>4. \A u, v, w \in Nat : w = u + d + v /\ i <= u => ~(w < i + d)
    OBVIOUS
  <2> QED BY <1>1, <2>2, <2>3, <2>4
<1> QED
  BY <1>1

(* Where the j-th bit of the k-th character stands, and the other way.     *)
Place(k, j) == (k - 1) * CharLen + j

LEMMA PlaceOf ==
    ASSUME NEW n \in Nat, NEW k \in 1..n, NEW j \in 1..CharLen
    PROVE  /\ Place(k, j) \in 1..(n * CharLen)
           /\ ((Place(k, j) - 1) \div CharLen) + 1 = k /\ ((Place(k, j) - 1) % CharLen) + 1 = j
<1> USE Base64Assumption
<1> DEFINE q == k - 1
           r == j - 1
           m == q * CharLen
<1>1. q \in Nat /\ r \in 0..(CharLen - 1) /\ CharLen \in Nat \ {0} /\ m \in Nat
  BY Base64Assumption
<1>2. (q * CharLen + r) \div CharLen = q /\ (q * CharLen + r) % CharLen = r
  BY <1>1, DivUnique
<1>3. Place(k, j) - 1 = q * CharLen + r
  <2>1. Place(k, j) = m + j
    BY DEF Place
  <2> HIDE DEF m
  <2>2. m + j - 1 = m + r
    BY <1>1
  <2> QED BY <2>1, <2>2 DEF m
<1>4. m + CharLen <= n * CharLen
  <2>1. n = q + 1 + (n - q - 1) /\ n - q - 1 \in Nat
    BY <1>1
  <2>2. n * CharLen = q * CharLen + CharLen + (n - q - 1) * CharLen
    BY <1>1, <2>1
  <2>3. (n - q - 1) * CharLen \in Nat
    BY <1>1, <2>1
  <2> HIDE DEF q
  <2>4. \A u, v, w \in Nat : w = u + CharLen + v => u + CharLen <= w
    OBVIOUS
  <2> QED BY <1>1, <2>2, <2>3, <2>4
<1>5. Place(k, j) \in 1..(n * CharLen)
  <2>1. Place(k, j) = m + j /\ n * CharLen \in Nat
    BY DEF Place
  <2> HIDE DEF m
  <2> QED BY <1>1, <1>4, <2>1
<1>6. q + 1 = k /\ r + 1 = j
  OBVIOUS
<1> HIDE DEF q, r
<1> QED
  BY <1>2, <1>3, <1>5, <1>6

LEMMA PlaceAt ==
    ASSUME NEW n \in Nat, NEW p \in 1..(n * CharLen)
    PROVE  /\ ((p - 1) \div CharLen) + 1 \in 1..n /\ ((p - 1) % CharLen) + 1 \in 1..CharLen
           /\ Place(((p - 1) \div CharLen) + 1, ((p - 1) % CharLen) + 1) = p
<1> USE Base64Assumption
<1> DEFINE x == p - 1
           q == x \div CharLen
           r == x % CharLen
           m == q * CharLen
<1>1. x \in Nat /\ CharLen \in Nat \ {0} /\ n * CharLen \in Nat
  BY Base64Assumption
<1>2. x = q * CharLen + r /\ q \in Nat /\ r \in 0..(CharLen - 1)
  BY <1>1, DivMod
<1> HIDE DEF q, r
<1>3. m \in Nat /\ x = m + r
  BY <1>1, <1>2
<1>4. q < n
  <2> SUFFICES ASSUME n <= q PROVE FALSE
    BY <1>2
  <2>1. q = n + (q - n) /\ q - n \in Nat
    BY <1>2
  <2>2. m = n * CharLen + (q - n) * CharLen
    BY <1>1, <1>2, <2>1
  <2>3. (q - n) * CharLen \in Nat
    BY <2>1
  <2>4. m >= n * CharLen
    BY <1>1, <1>3, <2>2, <2>3
  <2> HIDE DEF m
  <2> QED BY <1>1, <1>2, <1>3, <2>4
<1>5. q + 1 \in 1..n /\ r + 1 \in 1..CharLen
  BY <1>2, <1>4
<1>6. Place(q + 1, r + 1) = p
  <2>1. (q + 1) - 1 = q
    BY <1>2
  <2>2. Place(q + 1, r + 1) = m + (r + 1)
    BY <2>1 DEF Place
  <2> HIDE DEF m
  <2> QED BY <1>2, <1>3, <2>2
<1> QED
  BY <1>5, <1>6 DEF q, r

(* Bits that are written as base64 are read again as they were, and the    *)
(* text is accepted.                                                       *)
LEMMA Base64Written ==
    ASSUME NEW bits \in [1..IdLen -> Digit]
    PROVE  LET text == ToBase64(bits)
           IN  /\ text \in [1..TextLen -> Character] /\ Parses(text)
               /\ SubSeq(TextBits(text), 1, IdLen) = bits
<1> DEFINE text == ToBase64(bits)
           len == TextLen * CharLen
<1> USE Lengths, Base64Assumption
<1>0. 0 \in Digit /\ len \in Nat
  BY DEF Digit
<1>1. text \in [1..TextLen -> Character]
  <2>1. ASSUME NEW k \in 1..TextLen, NEW j \in 1..CharLen PROVE Place(k, j) \in Nat /\ Place(k, j) >= 1
    <3>1. Place(k, j) \in 1..(TextLen * CharLen)
      BY PlaceOf
    <3> QED BY <1>0, <3>1
  <2>2. \A k \in 1..TextLen, j \in 1..CharLen :
            (IF Place(k, j) <= IdLen THEN bits[Place(k, j)] ELSE 0) \in Digit
    BY <1>0, <2>1
  <2> QED BY <2>2 DEF ToBase64, Place, Character
<1>2. Len(text) = TextLen /\ \A k \in 1..TextLen : text[k] # Foreign
  BY <1>1
<1>3. \A k \in 1..TextLen, j \in 1..CharLen :
         text[k][j] = IF Place(k, j) <= IdLen THEN bits[Place(k, j)] ELSE 0
  BY DEF ToBase64, Place
<1> HIDE DEF text
<1>4. TextBits(text) = [p \in 1..len |-> text[((p - 1) \div CharLen) + 1][((p - 1) % CharLen) + 1]]
  BY <1>2 DEF TextBits
<1>5. \A p \in 1..len : TextBits(text)[p] = IF p <= IdLen THEN bits[p] ELSE 0
  <2> SUFFICES ASSUME NEW p \in 1..len PROVE TextBits(text)[p] = IF p <= IdLen THEN bits[p] ELSE 0
    OBVIOUS
  <2> DEFINE k == ((p - 1) \div CharLen) + 1
             j == ((p - 1) % CharLen) + 1
  <2>1. k \in 1..TextLen /\ j \in 1..CharLen /\ Place(k, j) = p
    BY PlaceAt
  <2>2. TextBits(text)[p] = text[k][j]
    BY <1>4
  <2> HIDE DEF k, j
  <2> QED BY <1>3, <2>1, <2>2
<1>6. SubSeq(TextBits(text), 1, IdLen) = bits
  <2>1. TextBits(text) \in Seq(Digit) /\ Len(TextBits(text)) = len
    <3>1. \A p \in 1..len : TextBits(text)[p] \in Digit
      BY <1>0, <1>5
    <3>2. TextBits(text) = [p \in 1..len |-> TextBits(text)[p]]
      BY <1>4
    <3> HIDE DEF len
    <3>3. TextBits(text) \in [1..len -> Digit]
      BY <3>1, <3>2
    <3> QED BY <1>0, <3>3, FunctionIsSeq
  <2> HIDE DEF len
  <2>2. SubSeq(TextBits(text), 1, IdLen) = [p \in 1..IdLen |-> TextBits(text)[p]]
    <3>1. IdLen <= Len(TextBits(text)) /\ IdLen \in Nat
      BY <2>1 DEF len
    <3> QED BY <2>1, <3>1, PrefixIs
  <2>3. \A p \in 1..IdLen : TextBits(text)[p] = bits[p]
    BY <1>0, <1>5 DEF len
  <2> QED BY <2>2, <2>3
<1>7. WholeBytes(text) = IdLen
  <2> DEFINE q == IdLen \div ByteLen
             r == len - IdLen
  <2>1. IdLen = q * ByteLen + (IdLen % ByteLen) /\ q \in Nat
    BY DivMod
  <2>2. q * ByteLen = IdLen
    BY <2>1
  <2>3. r \in 0..(ByteLen - 1)
    BY <1>0
  <2>4. len = q * ByteLen + r
    BY <1>0, <2>2
  <2> HIDE DEF q, r
  <2>5. (q * ByteLen + r) \div ByteLen = q
    BY <2>1, <2>3, DivUnique
  <2> QED BY <1>2, <2>2, <2>4, <2>5 DEF WholeBytes
<1>8. Parses(text)
  <2>1. len - IdLen < CharLen
    BY <1>0
  <2>2. \A p \in IdLen + 1..len : TextBits(text)[p] = 0
    BY <1>0, <1>5
  <2> QED BY <1>2, <1>7, <2>1, <2>2 DEF Parses, IsBase64
<1> QED
  BY <1>1, <1>6, <1>8 DEF text

(* A text that is accepted is the one that is written for its bits: it has *)
(* the right length and nothing but zeros after the last byte.             *)
LEMMA Base64Read ==
    ASSUME NEW n \in Nat, NEW text \in [1..n -> Character \cup {Foreign}], Parses(text)
    PROVE  /\ SubSeq(TextBits(text), 1, IdLen) \in [1..IdLen -> Digit]
           /\ ToBase64(SubSeq(TextBits(text), 1, IdLen)) = text
<1> USE Lengths, Base64Assumption
<1> DEFINE len == n * CharLen
<1>1. Len(text) = n /\ len \in Nat
  OBVIOUS
<1>2. \A k \in 1..n : text[k] \in Character
  BY <1>1 DEF Parses, IsBase64
<1>3. IdLen <= len
  <2> DEFINE q == len \div ByteLen
  <2>1. len = q * ByteLen + (len % ByteLen) /\ q \in Nat /\ len % ByteLen \in 0..(ByteLen - 1)
    <3> HIDE DEF len
    <3> QED BY <1>1, DivMod
  <2>2. q * ByteLen = IdLen
    BY <1>1 DEF Parses, WholeBytes
  <2> HIDE DEF q, len
  <2>3. len = IdLen + (len % ByteLen)
    BY <2>1, <2>2
  <2> QED BY <1>1, <2>1, <2>3
<1>4. len < IdLen + CharLen
  <2>1. len - IdLen < CharLen
    BY <1>1 DEF Parses, IsBase64
  <2> HIDE DEF len
  <2> QED BY <1>1, <2>1
<1>5. n = TextLen
  BY <1>3, <1>4, LengthUnique
<1>6. TextBits(text) = [p \in 1..len |-> text[((p - 1) \div CharLen) + 1][((p - 1) % CharLen) + 1]]
  BY <1>1 DEF TextBits
<1>7. \A k \in 1..n, j \in 1..CharLen : Place(k, j) \in 1..len /\ TextBits(text)[Place(k, j)] = text[k][j]
  <2> SUFFICES ASSUME NEW k \in 1..n, NEW j \in 1..CharLen
               PROVE  Place(k, j) \in 1..len /\ TextBits(text)[Place(k, j)] = text[k][j]
    OBVIOUS
  <2> DEFINE p == Place(k, j)
  <2>1. p \in 1..len /\ ((p - 1) \div CharLen) + 1 = k /\ ((p - 1) % CharLen) + 1 = j
    BY PlaceOf
  <2> HIDE DEF p
  <2>2. TextBits(text)[p] = text[k][j]
    BY <1>6, <2>1
  <2> QED BY <2>1, <2>2 DEF p
<1>8. \A p \in 1..len : TextBits(text)[p] \in Digit
  <2> SUFFICES ASSUME NEW p \in 1..len PROVE TextBits(text)[p] \in Digit
    OBVIOUS
  <2> DEFINE k == ((p - 1) \div CharLen) + 1
             j == ((p - 1) % CharLen) + 1
  <2>1. k \in 1..n /\ j \in 1..CharLen
    BY PlaceAt
  <2>2. TextBits(text)[p] = text[k][j]
    BY <1>6
  <2> HIDE DEF k, j
  <2> QED BY <1>2, <2>1, <2>2 DEF Character
<1> DEFINE bits == SubSeq(TextBits(text), 1, IdLen)
<1>9. bits = [p \in 1..IdLen |-> TextBits(text)[p]]
  <2>1. TextBits(text) = [p \in 1..len |-> TextBits(text)[p]]
    BY <1>6
  <2> HIDE DEF len
  <2>2. TextBits(text) \in Seq(Digit) /\ Len(TextBits(text)) = len
    <3>1. TextBits(text) \in [1..len -> Digit]
      BY <1>8, <2>1
    <3> QED BY <1>1, <3>1, FunctionIsSeq
  <2> QED BY <1>3, <2>2, PrefixIs
<1>10. bits \in [1..IdLen -> Digit]
  <2> HIDE DEF len, bits
  <2>1. \A p \in 1..IdLen : TextBits(text)[p] \in Digit
    BY <1>1, <1>3, <1>8
  <2> QED BY <1>9, <2>1
<1>11. \A p \in IdLen + 1..len : TextBits(text)[p] = 0
  BY <1>1 DEF Parses, IsBase64
<1> HIDE DEF bits
<1>12. ASSUME NEW k \in 1..n, NEW j \in 1..CharLen
       PROVE  (IF Place(k, j) <= IdLen THEN bits[Place(k, j)] ELSE 0) = text[k][j]
  <2>1. Place(k, j) \in 1..len /\ TextBits(text)[Place(k, j)] = text[k][j]
    BY <1>7
  <2>2. CASE Place(k, j) <= IdLen
    BY <1>1, <1>9, <2>1, <2>2
  <2>3. CASE ~(Place(k, j) <= IdLen)
    BY <1>1, <1>11, <2>1, <2>3
  <2> QED BY <2>2, <2>3
<1>13. \A k \in 1..n : text[k] = [j \in 1..CharLen |-> IF Place(k, j) <= IdLen THEN bits[Place(k, j)] ELSE 0]
  BY <1>2, <1>12 DEF Character
<1>14. text = [k \in 1..n |-> [j \in 1..CharLen |-> IF Place(k, j) <= IdLen THEN bits[Place(k, j)] ELSE 0]]
  BY <1>13
<1> QED
  BY <1>5, <1>10, <1>14 DEF ToBase64, Place, bits

(* Of all texts, of any length and with any characters, only the one that  *)
(* is written for an id is accepted and read as this id (Base64InvoiceId,  *)
(* invoice_id_from_str).                                                   *)
THEOREM OneTextForId ==
    ASSUME NEW id \in InvoiceIds, NEW n \in Nat, NEW text \in [1..n -> Character \cup {Foreign}]
    PROVE  Parses(text) /\ Decode(text) = id <=> text = Encode(id)
<1>1. ASSUME Parses(text), Decode(text) = id PROVE text = Encode(id)
  <2> DEFINE bits == SubSeq(TextBits(text), 1, IdLen)
  <2>1. bits \in [1..IdLen -> Digit] /\ ToBase64(bits) = text
    BY <1>1, Base64Read
  <2>2. FromBits(bits) = id
    BY <1>1 DEF Decode
  <2> HIDE DEF bits
  <2>3. ToBits(id) = bits
    BY <2>1, <2>2, IdThenBits
  <2> QED BY <2>1, <2>3 DEF Encode
<1>2. ASSUME text = Encode(id) PROVE Parses(text) /\ Decode(text) = id
  <2> DEFINE bits == ToBits(id)
  <2>1. bits \in [1..IdLen -> Digit] /\ FromBits(bits) = id
    BY BitsThenId
  <2>2. text = ToBase64(bits)
    BY <1>2 DEF Encode
  <2> HIDE DEF bits
  <2>3. Parses(text) /\ SubSeq(TextBits(text), 1, IdLen) = bits
    BY <2>1, <2>2, Base64Written
  <2> QED BY <2>1, <2>3 DEF Decode
<1> QED
  BY <1>1, <1>2

LEMMA IdsAreReadOnce ==
    ASSUME NEW id \in InvoiceIds
    PROVE  ReadAs(id) = {Encode(id)}
<1>1. ASSUME NEW t \in ReadAs(id) PROVE t \in AllTexts /\ Parses(t) /\ Decode(t) = id
  <2>1. PICK r \in Readings : r[2] = id /\ t = r[1]
    BY DEF ReadAs
  <2>2. PICK s \in AllTexts : Parses(s) /\ r = <<s, Decode(s)>>
    BY DEF Readings
  <2> QED BY <2>1, <2>2
<1>2. ASSUME NEW t \in AllTexts, Parses(t), Decode(t) = id PROVE t \in ReadAs(id)
  <2> DEFINE r == <<t, Decode(t)>>
  <2>1. r \in Readings /\ r[1] = t /\ r[2] = id
    BY <1>2 DEF Readings
  <2> HIDE DEF r
  <2> QED BY <2>1 DEF ReadAs
<1>3. \A t \in AllTexts : \E n \in Nat : t \in [1..n -> Character \cup {Foreign}]
  <2>1. \A n \in TextLen - 1..TextLen + 1 : n \in Nat \/ (n = -1 /\ 1..n = 1..0)
    BY Lengths
  <2> QED BY <2>1 DEF AllTexts
<1>4. Encode(id) \in AllTexts
  <2>1. ToBits(id) \in [1..IdLen -> Digit]
    BY BitsThenId
  <2>2. Encode(id) \in [1..TextLen -> Character]
    BY <2>1, Base64Written DEF Encode
  <2>3. TextLen \in TextLen - 1..TextLen + 1
    BY Lengths
  <2> QED BY <2>2, <2>3 DEF AllTexts
<1>5. \A t \in AllTexts : Parses(t) /\ Decode(t) = id <=> t = Encode(id)
  BY <1>3, OneTextForId
<1>6. \A t : t \in ReadAs(id) <=> t = Encode(id)
  BY <1>1, <1>2, <1>4, <1>5
<1> QED
  BY <1>6

(* The text that the API hands out for an invoice is read as this invoice, *)
(* and no other text is (Base64InvoiceId, invoice_id_from_str), however    *)
(* wide the integers and the characters are: base64 is decoded only from   *)
(* the text that it would be encoded to.                                   *)
THEOREM TextIsTheInvoice == Spec => []TextNamesInvoice
<1>1. Types => TextNamesInvoice
  <2> SUFFICES ASSUME Types, NEW id \in made PROVE ReadAs(id) = {Encode(id)}
    BY DEF TextNamesInvoice
  <2>1. id \in InvoiceIds
    BY ServerAssumption DEF ServerAssumption, Types, StoreTypeOK
  <2> QED
    BY <2>1, IdsAreReadOnce
<1> QED
  BY <1>1, TypeInvariance, PTL
=============================================================================
