------------------------------- MODULE PubSub -------------------------------
(***************************************************************************)
(* The publisher of invoice updates and its subscribers                    *)
(* (library/src/pubsub.rs).  send_updates walks two lists of senders by    *)
(* index, holding no lock while it waits for room in a subscriber's        *)
(* buffer; subscribing, dropping a subscriber, and adding and removing     *)
(* invoices happen between any two of its steps.                           *)
(***************************************************************************)
EXTENDS Integers, Sequences, FiniteSets, SequencesExt

CONSTANTS
    Id,             \* invoice ids
    Subscriber,     \* subscribers that may ever be made
    BufferLen,      \* SUBSCRIPTION_BUFFER_LEN, 2048 in the code
    MaxUpdates,     \* bound: number of updates published
    MaxInserts,     \* bound: calls of insert_invoice
    All,            \* stands for "subscribed to all invoices"
    None            \* stands for "no subscription" and "no sender"

ASSUME PubSubAssumption ==
    /\ BufferLen \in Nat \ {0}
    /\ MaxUpdates \in Nat
    /\ MaxInserts \in Nat
    /\ All \notin Id /\ None \notin Id /\ All # None
    /\ None \notin Subscriber /\ IsFiniteSet(Subscriber)

VARIABLES
    invoiceSubs,    \* tracked invoice -> its senders, in IndexMap order
    globalSubs,     \* senders of subscribe_all, in IndexMap order
    kind,           \* what each subscriber was made for
    dropped,        \* subscribers that were dropped by their owner
    log,            \* what was ever put into each subscriber's buffer
    read,           \* how much of it its owner has read
    sendpc,         \* idle, or the list that send_updates walks
    updates,        \* the invoice of each update published so far
    index,          \* loop index of send_updates
    closed,         \* its flag: a send has failed
    held,           \* the sender it is waiting on
    inserts,        \* calls of insert_invoice so far
    since           \* ghost: updates published before each subscription

vars == <<invoiceSubs, globalSubs, kind, dropped, log, read, sendpc, updates, index,
          closed, held, inserts, since>>

Distinct(seq) == \A i, j \in DOMAIN seq : seq[i] = seq[j] => i = j

TypeOK ==
    /\ DOMAIN invoiceSubs \subseteq Id
    /\ \A id \in DOMAIN invoiceSubs : /\ invoiceSubs[id] \in Seq(Subscriber)
                                      /\ Distinct(invoiceSubs[id])
    /\ globalSubs \in Seq(Subscriber) /\ Distinct(globalSubs)
    /\ kind \in [Subscriber -> Id \cup {All, None}]
    /\ dropped \subseteq Subscriber
    /\ log \in [Subscriber -> Seq(1..MaxUpdates)]
    /\ \A s \in Subscriber : read[s] \in 0..Len(log[s]) /\ Len(log[s]) - read[s] <= BufferLen
    /\ sendpc \in {"idle", "invoice", "global"}
    /\ updates \in Seq(Id)
    /\ index \in 0..Cardinality(Subscriber)
    /\ closed \in BOOLEAN
    /\ held \in Subscriber \cup {None}
    /\ inserts \in 0..MaxInserts
    /\ since \in [Subscriber -> 0..MaxUpdates]

Init ==
    /\ invoiceSubs = [id \in {} |-> <<>>]
    /\ globalSubs = <<>>
    /\ kind = [s \in Subscriber |-> None]
    /\ dropped = {}
    /\ log = [s \in Subscriber |-> <<>>]
    /\ read = [s \in Subscriber |-> 0]
    /\ sendpc = "idle"
    /\ updates = <<>>
    /\ index = 0
    /\ closed = FALSE
    /\ held = None
    /\ inserts = 0
    /\ since = [s \in Subscriber |-> 0]

-----------------------------------------------------------------------------
(* insert_invoice: a new, empty list, even if there was one.               *)
InsertInvoice(id) ==
    /\ inserts < MaxInserts
    /\ inserts' = inserts + 1
    /\ invoiceSubs' = [i \in DOMAIN invoiceSubs \cup {id} |->
                         IF i = id THEN <<>> ELSE invoiceSubs[i]]
    /\ UNCHANGED <<globalSubs, kind, dropped, log, read, sendpc, updates, index, closed, held,
                   since>>

RemoveInvoice(id) ==
    /\ id \in DOMAIN invoiceSubs
    /\ invoiceSubs' = [i \in DOMAIN invoiceSubs \ {id} |-> invoiceSubs[i]]
    /\ UNCHANGED <<globalSubs, kind, dropped, log, read, sendpc, updates, index, closed, held,
                   inserts, since>>

NewSubscriber(s, k) ==
    /\ kind[s] = None
    /\ kind' = [kind EXCEPT ![s] = k]
    /\ since' = [since EXCEPT ![s] = Len(updates)]
    /\ UNCHANGED <<dropped, log, read, sendpc, updates, index, closed, held, inserts>>

Subscribe(s, id) ==
    /\ id \in DOMAIN invoiceSubs
    /\ NewSubscriber(s, id)
    /\ invoiceSubs' = [invoiceSubs EXCEPT ![id] = Append(@, s)]
    /\ UNCHANGED globalSubs

SubscribeAll(s) ==
    /\ NewSubscriber(s, All)
    /\ globalSubs' = Append(globalSubs, s)
    /\ UNCHANGED invoiceSubs

-----------------------------------------------------------------------------
(***************************************************************************)
(* send_updates.                                                           *)
(***************************************************************************)
BeginSend(id) ==
    /\ sendpc = "idle"
    /\ Len(updates) < MaxUpdates
    /\ updates' = Append(updates, id)
    /\ sendpc' = "invoice"
    /\ index' = 0
    /\ closed' = FALSE
    /\ UNCHANGED <<invoiceSubs, globalSubs, kind, dropped, log, read, held, inserts, since>>

Current == updates[Len(updates)]

(* The list that the loop is walking; none for an invoice not tracked.     *)
Senders ==
    IF sendpc = "global" THEN globalSubs
    ELSE IF Current \in DOMAIN invoiceSubs THEN invoiceSubs[Current]
    ELSE <<>>

(* get_sender_by_index finds one: the loop holds a clone of it.            *)
GetSender ==
    /\ sendpc # "idle"
    /\ held = None
    /\ index < Len(Senders)
    /\ held' = Senders[index + 1]
    /\ UNCHANGED <<invoiceSubs, globalSubs, kind, dropped, log, read, sendpc, updates, index,
                   closed, inserts, since>>

(* It finds none: on to the second loop, or done.                          *)
EndOfList ==
    /\ sendpc # "idle"
    /\ held = None
    /\ index >= Len(Senders)
    /\ sendpc' = IF sendpc = "invoice" THEN "global" ELSE "idle"
    /\ index' = 0
    /\ closed' = FALSE
    /\ UNCHANGED <<invoiceSubs, globalSubs, kind, dropped, log, read, updates, held, inserts,
                   since>>

(* swap_remove: the last sender takes the place of the removed one.        *)
SwapRemove(seq, s) ==
    IF s \notin ToSet(seq) THEN seq
    ELSE LET last == Len(seq) IN
         [i \in 1..(last - 1) |-> IF seq[i] = s THEN seq[last] ELSE seq[i]]

RemoveSender(s) ==
    IF sendpc = "global"
    THEN /\ globalSubs' = SwapRemove(globalSubs, s)
         /\ UNCHANGED invoiceSubs
    ELSE /\ invoiceSubs' = [id \in DOMAIN invoiceSubs |->
                              IF id = Current THEN SwapRemove(invoiceSubs[id], s)
                              ELSE invoiceSubs[id]]
         /\ UNCHANGED globalSubs

(* Defects: steps over the sender that took the removed one's place; sends *)
(* to the same one again; keeps trying a sender whose receiver is gone.    *)
AfterSendSkips(failed) ==
    /\ closed' = (closed \/ failed)
    /\ IF closed' THEN RemoveSender(held) ELSE UNCHANGED <<invoiceSubs, globalSubs>>
    /\ index' = index + 1
    /\ held' = None
AfterSendRepeats(failed) ==
    /\ closed' = (closed \/ failed)
    /\ IF closed' THEN RemoveSender(held) ELSE UNCHANGED <<invoiceSubs, globalSubs>>
    /\ UNCHANGED index
    /\ held' = None
AfterSendRetries(failed) ==
    /\ closed' = failed
    /\ index' = IF failed THEN index ELSE index + 1
    /\ held' = None
    /\ UNCHANGED <<invoiceSubs, globalSubs>>

(* After the send: closed, once set, makes the loop remove every sender    *)
(* that it comes to.                                                       *)
AfterSend(failed) ==
    /\ closed' = (closed \/ failed)
    /\ IF closed'
       THEN RemoveSender(held) /\ UNCHANGED index
       ELSE index' = index + 1 /\ UNCHANGED <<invoiceSubs, globalSubs>>
    /\ held' = None

(* Defect: the buffer has no limit.                                        *)
DeliverUnbounded ==
    /\ held # None
    /\ held \notin dropped
    /\ log' = [log EXCEPT ![held] = Append(@, Len(updates))]
    /\ AfterSend(FALSE)
    /\ UNCHANGED <<kind, dropped, read, sendpc, updates, inserts, since>>

(* The send goes through as soon as the buffer has room ...                *)
Deliver ==
    /\ held # None
    /\ held \notin dropped
    /\ Len(log[held]) - read[held] < BufferLen
    /\ log' = [log EXCEPT ![held] = Append(@, Len(updates))]
    /\ AfterSend(FALSE)
    /\ UNCHANGED <<kind, dropped, read, sendpc, updates, inserts, since>>

(* ... and fails if the receiver is gone.                                  *)
DeliverFails ==
    /\ held # None
    /\ held \in dropped
    /\ AfterSend(TRUE)
    /\ UNCHANGED <<kind, dropped, log, read, sendpc, updates, inserts, since>>

-----------------------------------------------------------------------------
(* The owner of a subscriber reads, or drops it.                           *)
Recv(s) ==
    /\ s \notin dropped
    /\ read[s] < Len(log[s])
    /\ read' = [read EXCEPT ![s] = @ + 1]
    /\ UNCHANGED <<invoiceSubs, globalSubs, kind, dropped, log, sendpc, updates, index, closed,
                   held, inserts, since>>

Drop(s) ==
    /\ kind[s] # None
    /\ s \notin dropped
    /\ dropped' = dropped \cup {s}
    /\ UNCHANGED <<invoiceSubs, globalSubs, kind, log, read, sendpc, updates, index, closed,
                   held, inserts, since>>

SendStep == GetSender \/ EndOfList \/ Deliver \/ DeliverFails

Next ==
    \/ \E id \in Id : InsertInvoice(id) \/ RemoveInvoice(id) \/ BeginSend(id)
    \/ \E s \in Subscriber : \/ SubscribeAll(s)
                             \/ \E id \in Id : Subscribe(s, id)
    \/ SendStep
    \/ \E s \in Subscriber : Recv(s) \/ Drop(s)

(* The scanner awaits send_updates, so its steps go on; the owner of a     *)
(* subscriber reads what is there (the server's tasks loop on recv).       *)
Spec ==
    /\ Init /\ [][Next]_vars
    /\ WF_vars(SendStep)
    /\ \A s \in Subscriber : WF_vars(Recv(s))

-----------------------------------------------------------------------------
(***************************************************************************)
(* Properties.                                                             *)
(***************************************************************************)
Listed(s) ==
    \/ s \in ToSet(globalSubs)
    \/ \E id \in DOMAIN invoiceSubs : s \in ToSet(invoiceSubs[id])

(* The updates published since s subscribed that s is to get.              *)
DueTo(s) == {n \in (since[s] + 1)..Len(updates) : kind[s] \in {All, updates[n]}}

(* Between two updates a subscriber that is still listed was given every   *)
(* update that concerns it, however subscriptions, invoices and drops came *)
(* between the steps of the loop: no index shift makes the loop skip one.  *)
NoUpdateSkipped ==
    sendpc = "idle" =>
        \A s \in Subscriber : (Listed(s) /\ s \notin dropped) => DueTo(s) \subseteq ToSet(log[s])

(* A subscriber gets updates in the order of publication, none twice and   *)
(* none of another invoice.                                                *)
InOrderOnce ==
    \A s \in Subscriber :
        /\ \A i, j \in DOMAIN log[s] : i < j => log[s][i] < log[s][j]
        /\ \A i \in DOMAIN log[s] : kind[s] \in {All, updates[log[s][i]]}

(* Every call of send_updates comes to an end, also when buffers fill up   *)
(* and subscribers are dropped under it: the scanner is never stuck on a   *)
(* subscriber whose owner reads or has gone.                               *)
SendTerminates == (sendpc # "idle") ~> (sendpc = "idle")

(* A subscriber made by subscribe_all that its owner keeps stays listed.   *)
LiveGlobalKept ==
    \A s \in Subscriber : (kind[s] = All /\ s \notin dropped) => s \in ToSet(globalSubs)
=============================================================================
