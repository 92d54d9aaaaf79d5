------------------------------- MODULE Server -------------------------------
(***************************************************************************)
(* The server around the gateway (server/src): the API that makes and      *)
(* deletes invoices, the websockets that follow one, the task that takes   *)
(* every update, queues a callback for it and deletes expired invoices,    *)
(* and the queue of callbacks with its retries.                            *)
(*                                                                         *)
(* The scanner is here what it shows to subscribers: it changes a stored   *)
(* invoice and then publishes the change to the subscribers of the invoice *)
(* and to those of all invoices, in this order, waiting for room in their  *)
(* buffers (Scanner and PubSub have the details).                          *)
(***************************************************************************)
EXTENDS InvoiceIdText, FiniteSets, SequencesExt

CONSTANTS
    Id,             \* the invoices that may be made
    Socket,         \* websocket connections
    BufferLen,      \* SUBSCRIPTION_BUFFER_LEN, 2048 in the code
    QueueSize,      \* callback.queue_size of the configuration
    DeleteExpired,  \* database.delete_expired of the configuration
    MaxRetries,     \* callback.max_retries of the configuration
    MaxUpdates,     \* bound: updates published
    MaxFailures,    \* bound: callbacks, removals and upgrades that fail
    None            \* stands for "nothing"

ASSUME ServerAssumption ==
    /\ Id \subseteq InvoiceIds
    /\ BufferLen \in Nat \ {0} /\ QueueSize \in Nat \ {0}
    /\ DeleteExpired \in BOOLEAN
    /\ MaxRetries \in Nat
    /\ MaxUpdates \in Nat /\ MaxFailures \in Nat

VARIABLES
    invoices,   \* the stored invoices
    made,       \* the ids handed out so far
    scan,       \* the update that the scanner is saving or publishing
    count,      \* updates so far
    inbox,      \* buffer of the subscriber of all invoices
    loop,       \* where the watching task is
    missed,     \* updates published before it was there
    queue,      \* the updates to call back in the callback queue
    calls,      \* the tasks that the queue has spawned, by their update
    acked,      \* updates whose callback has succeeded
    failures,   \* what has failed: callbacks, by their update, and removals
    socket,     \* the websockets
    stale       \* invoices with a dropped subscriber in the publisher's list

vars == <<invoices, made, scan, count, inbox, loop, missed, queue, calls, acked, failures,
          socket, stale>>

(* is_paid, is_confirmed and is_expired of an invoice.  A payment is       *)
(* confirmed only if it is there.                                          *)
Invoices ==
    {i \in [paid : BOOLEAN, confirmed : BOOLEAN, expired : BOOLEAN] : i.confirmed => i.paid}

Updates == [n : 1..MaxUpdates, id : Id, invoice : Invoices]

NoScan == [at |-> "idle", update |-> None]
NoFailures == [total |-> 0, retries |-> [n \in 1..MaxUpdates |-> 0], removal |-> FALSE]
NoSocket == [at |-> "free", id |-> None, buf |-> <<>>, given |-> 0, closed |-> FALSE,
             sender |-> "gone"]

TypeOK ==
    /\ invoices \in [Id -> Invoices \cup {None}]
    /\ made \subseteq Id
    /\ scan \in [at : {"idle", "save", "invoice", "global"}, update : Updates \cup {None}]
    /\ count \in 0..MaxUpdates
    /\ inbox \in Seq(Updates) /\ Len(inbox) <= BufferLen
    /\ loop \in [at : {"start", "recv", "send", "remove"}, update : Updates \cup {None}]
    /\ missed \subseteq 1..MaxUpdates
    /\ queue \in Seq(1..MaxUpdates) /\ Len(queue) <= QueueSize
    /\ calls \subseteq [n : 1..MaxUpdates, at : {"call", "requeue"}]
    /\ acked \subseteq 1..MaxUpdates
    /\ failures \in [total : 0..MaxFailures, retries : [1..MaxUpdates -> Nat], removal : BOOLEAN]
    /\ socket \in [Socket -> [at : {"free", "open", "stalled", "ended"}, id : Id \cup {None},
                              buf : Seq(BOOLEAN),
                              given : 0..MaxUpdates, closed : BOOLEAN,
                              sender : {"kept", "behind", "gone"}]]
    /\ stale \subseteq Id

Init ==
    /\ invoices = [id \in Id |-> None]
    /\ made = {}
    /\ scan = NoScan
    /\ count = 0
    /\ inbox = <<>>
    /\ loop = [at |-> "start", update |-> None]
    /\ missed = {}
    /\ queue = <<>>
    /\ calls = {}
    /\ acked = {}
    /\ failures = NoFailures
    /\ socket = [s \in Socket |-> NoSocket]
    /\ stale = {}

-----------------------------------------------------------------------------
(***************************************************************************)
(* The API.                                                                *)
(***************************************************************************)
(* new_invoice: a callback that is no URI is refused and nothing happens.  *)
NewInvoice(id) ==
    /\ id \notin made
    /\ made' = made \cup {id}
    /\ invoices' = [invoices EXCEPT ![id] =
                      [paid |-> FALSE, confirmed |-> FALSE, expired |-> FALSE]]
    /\ UNCHANGED <<scan, count, inbox, loop, missed, queue, calls, acked, failures, socket, stale>>

(* remove_invoice of the gateway takes the invoice out of the database and *)
(* ends the subscriptions to it.                                           *)
Removed(id) == invoices' = [invoices EXCEPT ![id] = None]

DeleteInvoice(text) ==
    /\ Parses(text)
    /\ Decode(text) \in Id
    /\ invoices[Decode(text)] # None
    /\ Removed(Decode(text))
    /\ UNCHANGED <<made, scan, count, inbox, loop, missed, queue, calls, acked, failures, socket, stale>>

(* websocket: only for an invoice that is there.  "given" is the latest    *)
(* update that was made before the socket was opened or was sent to it.    *)
(* Its sender is at the end of the list, behind one that nobody reads any  *)
(* more if an upgrade has failed since the invoice was last published.     *)
OpenSocket(s, text) ==
    /\ socket[s].at = "free"
    /\ Parses(text)
    /\ Decode(text) \in Id
    /\ invoices[Decode(text)] # None
    /\ socket' = [socket EXCEPT
                    ![s].at = "open", ![s].id = Decode(text), ![s].given = count,
                    ![s].sender = IF Decode(text) \in stale THEN "behind" ELSE "kept"]
    /\ UNCHANGED <<invoices, made, scan, count, inbox, loop, missed, queue, calls, acked, failures, stale>>

(* The client has subscribed and goes before the upgrade is done: its      *)
(* subscriber is dropped, the sender stays in the list.                    *)
UpgradeFails(text) ==
    /\ Parses(text)
    /\ Decode(text) \in Id
    /\ invoices[Decode(text)] # None
    /\ failures.total < MaxFailures
    /\ failures' = [failures EXCEPT !.total = @ + 1]
    /\ stale' = stale \cup {Decode(text)}
    /\ UNCHANGED <<invoices, made, scan, count, inbox, loop, missed, queue, calls, acked, socket>>

-----------------------------------------------------------------------------
(***************************************************************************)
(* The scanner, as far as subscribers see it.                              *)
(***************************************************************************)
(* It reads an invoice and makes an update of it; a block passes by or a   *)
(* payment comes, is confirmed or vanishes.                                *)
ReadInvoice(id) ==
    /\ scan.at = "idle"
    /\ count < MaxUpdates
    /\ invoices[id] # None
    /\ \E new \in Invoices :
          /\ invoices[id].expired => new.expired
          /\ scan' = [at |-> "save", update |-> [n |-> count + 1, id |-> id, invoice |-> new]]
    /\ count' = count + 1
    /\ UNCHANGED <<invoices, made, inbox, loop, missed, queue, calls, acked, failures, socket, stale>>

(* Defect: subscribers of all invoices come first.                         *)
AfterSwapped(stage) ==
    CASE stage = "save"    -> [scan EXCEPT !.at = "global"]
      [] stage = "invoice" -> NoScan
      [] stage = "global"  -> [scan EXCEPT !.at = "invoice"]
After(stage) ==
    CASE stage = "save"    -> [scan EXCEPT !.at = "invoice"]
      [] stage = "invoice" -> [scan EXCEPT !.at = "global"]
      [] stage = "global"  -> NoScan

(* An invoice that was removed meanwhile stays so; it is published anyway. *)
SaveInvoice ==
    /\ scan.at = "save"
    /\ scan' = After("save")
    /\ invoices' = [invoices EXCEPT ![scan.update.id] =
                      IF @ = None THEN None ELSE scan.update.invoice]
    /\ UNCHANGED <<made, count, inbox, loop, missed, queue, calls, acked, failures, socket, stale>>

(* The websockets that have a sender in the publisher's list.              *)
Following(id) ==
    {s \in Socket : socket[s].at \in {"open", "stalled"} /\ socket[s].sender # "gone"
                    /\ socket[s].id = id}
Listed(id) == IF invoices[id] = None THEN {} ELSE Following(id)

(* What the websocket's task looks at.                                     *)
IsFinal(i) == i.confirmed \/ i.expired

(* A sender that nobody reads is taken out of the list, and with it all    *)
(* that are behind it: they get this update and no other.                  *)
StaysListed(sender) == IF sender = "behind" THEN "gone" ELSE sender

PublishToInvoice ==
    /\ scan.at = "invoice"
    /\ \A s \in Listed(scan.update.id) : Len(socket[s].buf) < BufferLen
    /\ socket' = [s \in Socket |->
                    IF s \in Listed(scan.update.id)
                    THEN [socket[s] EXCEPT !.buf = Append(@, IsFinal(scan.update.invoice)),
                                         !.given = scan.update.n, !.sender = StaysListed(@)]
                    ELSE socket[s]]
    /\ stale' = stale \ {scan.update.id}
    /\ scan' = After("invoice")
    /\ UNCHANGED <<invoices, made, count, inbox, loop, missed, queue, calls, acked, failures>>

PublishToAll ==
    /\ scan.at = "global"
    /\ \/ /\ loop.at # "start"
          /\ Len(inbox) < BufferLen
          /\ inbox' = Append(inbox, scan.update)
          /\ UNCHANGED missed
       \/ /\ loop.at = "start"                       \* nobody has subscribed yet
          /\ missed' = missed \cup {scan.update.n}
          /\ UNCHANGED inbox
    /\ scan' = After("global")
    /\ UNCHANGED <<invoices, made, count, loop, queue, calls, acked, failures, socket, stale>>

-----------------------------------------------------------------------------
(***************************************************************************)
(* spawn_gateway: the task that watches all updates.                       *)
(***************************************************************************)
(* The gateway runs, and may scan and publish, before the task is polled.  *)
SubscribeAll ==
    /\ loop.at = "start"
    /\ loop' = [at |-> "recv", update |-> None]
    /\ UNCHANGED <<invoices, made, scan, count, inbox, missed, queue, calls, acked, failures, socket, stale>>

Receive ==
    /\ loop.at = "recv"
    /\ inbox # <<>>
    /\ loop' = [at |-> "send", update |-> Head(inbox)]
    /\ inbox' = Tail(inbox)
    /\ UNCHANGED <<invoices, made, scan, count, missed, queue, calls, acked, failures, socket, stale>>

(* Defects: takes every expired invoice; forgets the confirmed ones.       *)
ShouldDeletePending(i) == i.expired /\ DeleteExpired
ShouldDeleteUnpaid(i) == i.expired /\ ~i.paid /\ DeleteExpired
(* Expired and not pending confirmation.                                   *)
ShouldDelete(i) == i.expired /\ (i.confirmed \/ ~i.paid) /\ DeleteExpired

(* Defect: the queue has no limit.                                         *)
SendCommandUnbounded ==
    /\ loop.at = "send"
    /\ queue' = Append(queue, loop.update.n)
    /\ loop' = IF ShouldDelete(loop.update.invoice) THEN [loop EXCEPT !.at = "remove"]
               ELSE [at |-> "recv", update |-> None]
    /\ UNCHANGED <<invoices, made, scan, count, inbox, missed, calls, acked, failures, socket, stale>>

(* The task waits while the queue is full.                                 *)
SendCommand ==
    /\ loop.at = "send"
    /\ Len(queue) < QueueSize
    /\ queue' = Append(queue, loop.update.n)
    /\ loop' = IF ShouldDelete(loop.update.invoice) THEN [loop EXCEPT !.at = "remove"]
               ELSE [at |-> "recv", update |-> None]
    /\ UNCHANGED <<invoices, made, scan, count, inbox, missed, calls, acked, failures, socket, stale>>

(* The invoice goes by its id, whatever became of it since the update.     *)
RemoveInvoice ==
    /\ loop.at = "remove"
    /\ Removed(loop.update.id)
    /\ loop' = [at |-> "recv", update |-> None]
    /\ UNCHANGED <<made, scan, count, inbox, missed, queue, calls, acked, failures, socket, stale>>

(* A removal that fails is logged and not tried again.                     *)
RemoveFails ==
    /\ loop.at = "remove"
    /\ failures.total < MaxFailures
    /\ failures' = [failures EXCEPT !.total = @ + 1, !.removal = TRUE]
    /\ loop' = [at |-> "recv", update |-> None]
    /\ UNCHANGED <<invoices, made, scan, count, inbox, missed, queue, calls, acked, socket, stale>>

-----------------------------------------------------------------------------
(***************************************************************************)
(* The callback queue.                                                     *)
(***************************************************************************)
(* Defect: waits for the retries that want to get in.                      *)
TakeCommandWhenSettled ==
    /\ queue # <<>>
    /\ \A c \in calls : c.at # "requeue"
    /\ calls' = calls \cup {[n |-> Head(queue), at |-> "call"]}
    /\ queue' = Tail(queue)
    /\ UNCHANGED <<invoices, made, scan, count, inbox, loop, missed, acked, failures, socket, stale>>

(* Every command gets a task of its own.  When it has been retried as      *)
(* often as the configuration allows, a warning is logged, and the command *)
(* goes on all the same.                                                   *)
TakeCommand ==
    /\ queue # <<>>
    /\ calls' = calls \cup {[n |-> Head(queue), at |-> "call"]}
    /\ queue' = Tail(queue)
    /\ UNCHANGED <<invoices, made, scan, count, inbox, loop, missed, acked, failures, socket, stale>>

(* The callback is answered, or there is none to call.                     *)
CallSucceeds(c) ==
    /\ c \in calls /\ c.at = "call"
    /\ calls' = calls \ {c}
    /\ acked' = acked \cup {c.n}
    /\ UNCHANGED <<invoices, made, scan, count, inbox, loop, missed, queue, failures, socket, stale>>

(* Defect: the task lives on beside its retry.                             *)
CallFailsTwice(c) ==
    /\ c \in calls /\ c.at = "call"
    /\ failures.total < MaxFailures
    /\ failures' = [failures EXCEPT !.total = @ + 1, !.retries[c.n] = @ + 1]
    /\ calls' = calls \cup {[c EXCEPT !.at = "requeue"]}
    /\ UNCHANGED <<invoices, made, scan, count, inbox, loop, missed, queue, acked, socket, stale>>

(* An error, an error status or no answer in time: one retry more, later.  *)
CallFails(c) ==
    /\ c \in calls /\ c.at = "call"
    /\ failures.total < MaxFailures
    /\ failures' = [failures EXCEPT !.total = @ + 1, !.retries[c.n] = @ + 1]
    /\ calls' = (calls \ {c}) \cup {[c EXCEPT !.at = "requeue"]}
    /\ UNCHANGED <<invoices, made, scan, count, inbox, loop, missed, queue, acked, socket, stale>>

(* The task waits, too, while the queue is full; it sleeps when it is taken*)
(* out again.                                                              *)
Requeue(c) ==
    /\ c \in calls /\ c.at = "requeue"
    /\ Len(queue) < QueueSize
    /\ queue' = Append(queue, c.n)
    /\ calls' = calls \ {c}
    /\ UNCHANGED <<invoices, made, scan, count, inbox, loop, missed, acked, failures, socket, stale>>

-----------------------------------------------------------------------------
(***************************************************************************)
(* The websockets.                                                         *)
(***************************************************************************)
(* Defect: stops reading, and keeps the subscriber, after the close.       *)
ForwardUntilClosed(s) ==
    /\ socket[s].at = "open" /\ ~socket[s].closed
    /\ socket[s].buf # <<>>
    /\ socket' = [socket EXCEPT ![s].buf = Tail(@), ![s].closed = @ \/ Head(socket[s].buf)]
    /\ UNCHANGED <<invoices, made, scan, count, inbox, loop, missed, queue, calls, acked, failures, stale>>

(* The update is sent, and a close after a final one.  The task goes on to *)
(* read after it has closed the socket; what it sends then fails and is    *)
(* only logged.                                                            *)
Forward(s) ==
    /\ socket[s].at = "open"
    /\ socket[s].buf # <<>>
    /\ socket' = [socket EXCEPT ![s].buf = Tail(@), ![s].closed = @ \/ Head(socket[s].buf)]
    /\ UNCHANGED <<invoices, made, scan, count, inbox, loop, missed, queue, calls, acked, failures, stale>>

(* The client neither reads nor goes: the send has no time limit.          *)
ClientStalls(s) ==
    /\ socket[s].at = "open" /\ ~socket[s].closed
    /\ socket[s].buf # <<>>
    /\ socket' = [socket EXCEPT ![s].at = "stalled", ![s].buf = Tail(@)]
    /\ UNCHANGED <<invoices, made, scan, count, inbox, loop, missed, queue, calls, acked, failures, stale>>

(* The invoice or the sender is gone and all was read: recv returns None.  *)
EndSocket(s) ==
    /\ socket[s].at = "open"
    /\ socket[s].buf = <<>>
    /\ invoices[socket[s].id] = None \/ socket[s].sender = "gone"
    /\ socket' = [socket EXCEPT ![s] = [NoSocket EXCEPT !.at = "ended"]]
    /\ UNCHANGED <<invoices, made, scan, count, inbox, loop, missed, queue, calls, acked, failures, stale>>

-----------------------------------------------------------------------------
Texts == {Encode(id) : id \in Id}

Publish == SaveInvoice \/ PublishToInvoice \/ PublishToAll
Watch == SubscribeAll \/ Receive \/ SendCommand \/ RemoveInvoice \/ RemoveFails
CallReturns(n) == \E c \in calls : c.n = n /\ (CallSucceeds(c) \/ CallFails(c))
Retry(n) == \E c \in calls : c.n = n /\ Requeue(c)

Next ==
    \/ \E id \in Id : NewInvoice(id) \/ ReadInvoice(id)
    \/ \E text \in Texts : DeleteInvoice(text) \/ UpgradeFails(text)
    \/ \E s \in Socket, text \in Texts : OpenSocket(s, text)
    \/ Publish
    \/ Watch
    \/ TakeCommand
    \/ \E n \in 1..MaxUpdates : CallReturns(n) \/ Retry(n)
    \/ \E s \in Socket : Forward(s) \/ ClientStalls(s) \/ EndSocket(s)

(* The runtime polls tasks that can go on, and a callback has a time limit.*)
(* A full channel gives its senders room in the order in which they came,  *)
(* so they get in if there is room again and again: strong fairness.       *)
Spec ==
    /\ Init /\ [][Next]_vars
    /\ WF_vars(Publish)
    /\ SF_vars(Watch)
    /\ WF_vars(TakeCommand)
    /\ WF_vars(\E n \in 1..MaxUpdates : CallReturns(n))
    /\ SF_vars(\E n \in 1..MaxUpdates : Retry(n))
    /\ \A s \in Socket : WF_vars(Forward(s)) /\ WF_vars(EndSocket(s))

-----------------------------------------------------------------------------
(***************************************************************************)
(* Properties.                                                             *)
(***************************************************************************)
(* How many places hold update n: on its way to the watching task, in its  *)
(* hands, in the queue, in a task, acknowledged, or missed at the start.   *)
Copies(n) ==
    Cardinality({i \in DOMAIN inbox : inbox[i].n = n})
      + Cardinality({i \in DOMAIN queue : queue[i] = n})
      + Cardinality({c \in calls : c.n = n})
      + (IF scan.at # "idle" /\ scan.update.n = n THEN 1 ELSE 0)
      + (IF loop.at = "send" /\ loop.update.n = n THEN 1 ELSE 0)
      + (IF n \in acked THEN 1 ELSE 0)
      + (IF n \in missed THEN 1 ELSE 0)

(* No update gets lost between the scanner and the callback, and none is   *)
(* called back again after it has succeeded, however full the queue is and *)
(* however retries and new updates crowd into it.                          *)
InOnePlace == \A n \in 1..count : Copies(n) = 1

(* When the scanner comes to rest, every update that was published since   *)
(* the watching task subscribed has been called back, unless its callback  *)
(* has failed more often than it may be retried: nobody waits for ever for *)
(* a queue that is full of retries, and a websocket that hangs does not    *)
(* matter.                                                                 *)
CalledBack ==
    <>[](\A n \in 1..count :
            \/ n \in acked \cup missed \/ (scan.at # "idle" /\ scan.update.n = n)
            \/ failures.retries[n] > MaxRetries)

(* A callback that has been retried max_retries times is not called again, *)
(* as the configuration and the log say.                                   *)
RetriesLimited == \A c \in calls : c.at = "call" => failures.retries[c.n] <= MaxRetries

(* The text that the API hands out for an invoice names this invoice, and  *)
(* no other text does: a link is never taken for that of another invoice   *)
(* (Base64InvoiceId, invoice_id_from_str).                                 *)
TextNamesInvoice == \A id \in made : ReadAs(id) = {Encode(id)}

Stalled == \E s \in Socket : socket[s].at = "stalled"

(* The scanner is not held up: an update that it has begun to publish gets *)
(* to all subscribers, also when a websocket was closed long ago, unless a *)
(* client has stopped reading and keeps its connection open.               *)
PublishEnds == (scan.at # "idle") ~> (scan.at = "idle" \/ Stalled)

Pending(i) == i.paid /\ ~i.confirmed

(* The watching task removes an invoice that is pending confirmation only  *)
(* if it has not yet seen the latest update of it: what it acts on may be  *)
(* stale, but never wrong.                                                 *)
RemovesPendingOnlyIfStale ==
    [][\A id \in Id :
          /\ loop.at = "remove" /\ loop'.at = "recv"
          /\ invoices[id] # None /\ invoices'[id] = None
          /\ Pending(invoices[id])
          => \E u \in ToSet(inbox) \cup (IF scan.at = "idle" THEN {} ELSE {scan.update}) :
                u.id = id /\ u.n > loop.update.n]_vars

(* Before the watching task removes an invoice because of an update, every *)
(* websocket that was open when the update was made has been given it: the *)
(* customer learns that the invoice is expired before the feed ends.       *)
LastWordFirst ==
    loop.at = "remove" =>
        \A s \in Listed(loop.update.id) : socket[s].given >= loop.update.n

(* With delete_expired, an expired invoice that is not pending is not kept *)
(* for good, unless a removal has failed, a stuck client holds up the      *)
(* scanner or an update was missed at the start.                           *)
ExpiredGoes ==
    <>[](\/ ~DeleteExpired
         \/ failures.removal \/ Stalled \/ missed # {}
         \/ \A id \in Id :
               invoices[id] = None \/ ~invoices[id].expired \/ Pending(invoices[id]))
=============================================================================
