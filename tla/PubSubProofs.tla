---------------------------- MODULE PubSubProofs ----------------------------
(***************************************************************************)
(* For any invoices, subscribers, buffers and number of updates, and       *)
(* whatever happens between two steps of send_updates: a subscriber gets   *)
(* its updates in order and none twice, and one that is listed misses none.*)
(***************************************************************************)
EXTENDS PubSub, FiniteSetTheorems, TLAPS

-----------------------------------------------------------------------------
(***************************************************************************)
(* The inductive invariant.                                                *)
(***************************************************************************)
Kinds == Id \cup {All}

(* The senders by kind: both tables in one.                                *)
Lists ==
    [k \in Kinds |-> IF k = All THEN globalSubs
                    ELSE IF k \in DOMAIN invoiceSubs THEN invoiceSubs[k]
                    ELSE <<>>]

Newest == Len(updates)

(* The kind of the senders that the loop walks.                            *)
Walked == IF sendpc = "global" THEN All ELSE Current

(* The subscribers that were given the current update, and those that came *)
(* after it.                                                               *)
Given == {s \in Subscriber : \E i \in 1..Len(log[s]) : log[s][i] = Newest}
Fresh == {s \in Subscriber : since[s] = Newest}

StateTypes ==
    /\ DOMAIN invoiceSubs \subseteq Id
    /\ kind \in [Subscriber -> Kinds \cup {None}]
    /\ dropped \subseteq Subscriber
    /\ since \in [Subscriber -> Nat] /\ \A s \in Subscriber : since[s] <= Newest
    /\ inserts \in 0..MaxInserts

WalkTypes ==
    /\ sendpc \in {"idle", "invoice", "global"}
    /\ updates \in Seq(Id) /\ Newest \in 0..MaxUpdates
    /\ sendpc # "idle" => Newest >= 1
    /\ index \in Nat
    /\ held \in Subscriber \cup {None}
    /\ sendpc = "idle" => held = None

(* A sender is once in the list of its kind, and in no other list.         *)
ListInv ==
    \A k \in Kinds : /\ Lists[k] \in Seq(Subscriber)
                     /\ Distinct(Lists[k])
                     /\ \A i \in 1..Len(Lists[k]) : kind[Lists[k][i]] = k

LogInv ==
    /\ log \in [Subscriber -> Seq(Nat)]
    /\ \A s \in Subscriber :
          /\ \A i \in 1..Len(log[s]) : log[s][i] \in 1..Newest /\ kind[s] \in {All, updates[log[s][i]]}
          /\ \A i, j \in 1..Len(log[s]) : i < j => log[s][i] < log[s][j]

ReadInv ==
    /\ read \in [Subscriber -> Nat]
    /\ \A s \in Subscriber : read[s] <= Len(log[s]) /\ Len(log[s]) - read[s] <= BufferLen

(* The sender that the loop holds is the next one, unless the whole list   *)
(* was replaced under it; then all that are in it now came since.          *)
HeldInv ==
    held # None =>
        /\ kind[held] = Walked
        /\ held \notin Given
        /\ \/ index < Len(Lists[Walked]) /\ Lists[Walked][index + 1] = held
           \/ \A i \in 1..Len(Lists[Walked]) :
                 Lists[Walked][i] # held /\ Lists[Walked][i] \in Fresh

(* Behind the index nobody is left out, ahead of it nobody has been served.*)
WalkInv ==
    sendpc # "idle" =>
        \A i \in 1..Len(Lists[Walked]) :
            IF i <= index THEN Lists[Walked][i] \in Given \/ Lists[Walked][i] \in Fresh
            ELSE Lists[Walked][i] \notin Given

(* The first loop gives nothing to the senders of the second, and leaves   *)
(* out none of its own.                                                    *)
PhaseInv ==
    /\ sendpc = "invoice" => \A s \in Subscriber : kind[s] = All => s \notin Given
    /\ sendpc = "global" => \A i \in 1..Len(Lists[Current]) :
                               Lists[Current][i] \in Given \/ Lists[Current][i] \in Fresh

(* No listed subscriber has missed an earlier update.                      *)
Complete ==
    {s \in Subscriber :
        \A n \in DueTo(s) :
            (n < Newest \/ sendpc = "idle") => \E j \in 1..Len(log[s]) : log[s][j] = n}
DueInv == \A k \in Kinds : \A i \in 1..Len(Lists[k]) : Lists[k][i] \in Complete

(* The index counts subscribers that have been served.                     *)
Served == {s \in Subscriber : kind[s] = Walked /\ s \in Given}
CountInv == IF sendpc = "idle" THEN index = 0 ELSE index <= Cardinality(Served)

Base == StateTypes /\ WalkTypes /\ ListInv /\ LogInv /\ ReadInv
Walk == HeldInv /\ WalkInv /\ PhaseInv /\ DueInv

(* What the publisher keeps.                                               *)
PubSubInv == Base /\ Walk /\ CountInv

-----------------------------------------------------------------------------
(***************************************************************************)
(* What the operators do.                                                  *)
(***************************************************************************)
(* The last sender has taken the place of the one at position p, and the   *)
(* others are where they were.                                             *)
TakenOut(r, q, p) ==
    /\ r \in Seq(Subscriber) /\ Len(r) = Len(q) - 1
    /\ \A i, j \in 1..Len(r) : r[i] = r[j] => i = j
    /\ \A i \in 1..Len(r) : r[i] = IF i = p THEN q[Len(q)] ELSE q[i]

(* This is what swap_remove does.                                          *)
LEMMA SwapRemoveAt ==
    ASSUME NEW q \in Seq(Subscriber), Distinct(q), NEW p \in 1..Len(q)
    PROVE  TakenOut(SwapRemove(q, q[p]), q, p)
<1> DEFINE r == SwapRemove(q, q[p])
<1>1. q[p] \in ToSet(q) /\ Len(q) \in Nat /\ Len(q) >= 1
    BY DEF ToSet
<1>2. r = [i \in 1..(Len(q) - 1) |-> IF q[i] = q[p] THEN q[Len(q)] ELSE q[i]]
    BY <1>1 DEF SwapRemove
<1>3. \A i, j \in 1..Len(q) : q[i] = q[j] => i = j
    BY DEF Distinct
<1>4. \A i \in 1..(Len(q) - 1) : r[i] = IF i = p THEN q[Len(q)] ELSE q[i]
    BY <1>1, <1>2, <1>3
<1>5. r \in Seq(Subscriber) /\ Len(r) = Len(q) - 1
    BY <1>1, <1>2
<1> HIDE DEF r
<1>6. ASSUME NEW i \in 1..(Len(q) - 1), NEW j \in 1..(Len(q) - 1), r[i] = r[j]
      PROVE  i = j
    BY <1>1, <1>3, <1>4, <1>6
<1> QED
    BY <1>4, <1>5, <1>6 DEF TakenOut, r

(* A sender that is not there is not removed.                              *)
LEMMA SwapRemoveAbsent ==
    ASSUME NEW S, NEW q \in Seq(S), NEW s, \A i \in 1..Len(q) : q[i] # s
    PROVE  SwapRemove(q, s) = q
    BY DEF SwapRemove, ToSet

(* The loop walks the list of one kind.                                    *)
LEMMA SendersList ==
    ASSUME WalkTypes, sendpc # "idle"
    PROVE  Senders = Lists[Walked] /\ Walked \in Kinds /\ Current \in Id
<1>1. Current \in Id
    BY DEF WalkTypes, Current, Newest
<1>2. CASE sendpc = "global"
    BY <1>1, <1>2 DEF Senders, Lists, Walked, Kinds
<1>3. CASE sendpc # "global"
    BY <1>1, <1>3, PubSubAssumption DEF Senders, Lists, Walked, Kinds
<1> QED
    BY <1>2, <1>3

(* What the steps do to the lists, by kind.                                *)
LEMMA ListChanges ==
    ASSUME StateTypes, WalkTypes
    PROVE  /\ \A id \in Id : InsertInvoice(id) \/ RemoveInvoice(id) =>
                 /\ \A k \in Kinds : Lists'[k] = IF k = id THEN <<>> ELSE Lists[k]
                 /\ DOMAIN invoiceSubs' \subseteq Id
           /\ \A s \in Subscriber, k \in Kinds :
                 (k = All /\ SubscribeAll(s)) \/ (k \in Id /\ Subscribe(s, k)) =>
                 /\ \A j \in Kinds : Lists'[j] = IF j = k THEN Append(Lists[k], s) ELSE Lists[j]
                 /\ DOMAIN invoiceSubs' \subseteq Id
           /\ \A s \in Subscriber : RemoveSender(s) /\ sendpc # "idle" =>
                 /\ \A j \in Kinds : Lists'[j] = IF j = Walked THEN SwapRemove(Lists[j], s)
                                                  ELSE Lists[j]
                 /\ DOMAIN invoiceSubs' \subseteq Id
           /\ UNCHANGED <<invoiceSubs, globalSubs>> =>
                 /\ \A j \in Kinds : Lists'[j] = Lists[j]
                 /\ DOMAIN invoiceSubs' \subseteq Id
<1> USE PubSubAssumption
<1>1. \A k \in Kinds : k = All \/ (k \in Id /\ k # All)
    BY DEF Kinds
<1>2. ASSUME NEW id \in Id, InsertInvoice(id) \/ RemoveInvoice(id)
      PROVE  /\ \A k \in Kinds : Lists'[k] = IF k = id THEN <<>> ELSE Lists[k]
             /\ DOMAIN invoiceSubs' \subseteq Id
    BY <1>1, <1>2 DEF InsertInvoice, RemoveInvoice, Lists, StateTypes
<1>3. ASSUME NEW s \in Subscriber, SubscribeAll(s)
      PROVE  /\ \A j \in Kinds : Lists'[j] = IF j = All THEN Append(Lists[All], s) ELSE Lists[j]
             /\ DOMAIN invoiceSubs' \subseteq Id
    BY <1>1, <1>3 DEF SubscribeAll, Lists, StateTypes
<1>4. ASSUME NEW s \in Subscriber, NEW id \in Id, Subscribe(s, id)
      PROVE  /\ \A j \in Kinds : Lists'[j] = IF j = id THEN Append(Lists[id], s) ELSE Lists[j]
             /\ DOMAIN invoiceSubs' \subseteq Id
    BY <1>1, <1>4 DEF Subscribe, Lists, StateTypes
<1>5. ASSUME NEW s \in Subscriber, RemoveSender(s), sendpc # "idle"
      PROVE  /\ \A j \in Kinds : Lists'[j] = IF j = Walked THEN SwapRemove(Lists[j], s) ELSE Lists[j]
             /\ DOMAIN invoiceSubs' \subseteq Id
  <2>1. Current \in Id
    BY <1>5, SendersList
  <2>2. SwapRemove(<<>>, s) = <<>>
    BY DEF SwapRemove, ToSet
  <2>3. CASE sendpc = "global"
    BY <1>1, <1>5, <2>3 DEF RemoveSender, Lists, Walked, StateTypes
  <2>4. CASE sendpc # "global"
    BY <1>1, <1>5, <2>1, <2>2, <2>4 DEF RemoveSender, Lists, Walked, StateTypes
  <2> QED
    BY <2>3, <2>4
<1>6. ASSUME UNCHANGED <<invoiceSubs, globalSubs>>
      PROVE  (\A j \in Kinds : Lists'[j] = Lists[j]) /\ DOMAIN invoiceSubs' \subseteq Id
    BY <1>6 DEF Lists, StateTypes
<1> QED
    BY <1>1, <1>2, <1>3, <1>4, <1>5, <1>6

(* Subscribers in a list, and in it only once.                             *)
LEMMA InList ==
    ASSUME ListInv, NEW k \in Kinds, NEW i \in 1..Len(Lists[k])
    PROVE  /\ Lists[k] \in Seq(Subscriber) /\ Lists[k][i] \in Subscriber
           /\ kind[Lists[k][i]] = k
           /\ \A j \in 1..Len(Lists[k]) : Lists[k][j] = Lists[k][i] => j = i
<1>1. Lists[k] \in Seq(Subscriber) /\ Distinct(Lists[k]) /\ kind[Lists[k][i]] = k
    BY DEF ListInv
<1> QED
    BY <1>1 DEF Distinct

-----------------------------------------------------------------------------
(***************************************************************************)
(* The steps.                                                              *)
(***************************************************************************)
(* At first.                                                               *)
LEMMA InitInv == Init => PubSubInv
<1> SUFFICES ASSUME Init PROVE PubSubInv
    OBVIOUS
<1> USE PubSubAssumption DEF Init, Newest
<1>1. \A k \in Kinds : Lists[k] = <<>>
    BY DEF Lists
<1>2. StateTypes /\ WalkTypes
    BY DEF StateTypes, WalkTypes, Kinds
<1>3. ListInv /\ DueInv
  <2>1. <<>> \in Seq(Subscriber) /\ Distinct(<<>>) /\ Len(<<>>) = 0
    BY DEF Distinct
  <2>2. \A k \in Kinds : Lists[k] \in Seq(Subscriber) /\ Distinct(Lists[k])
    BY <1>1, <2>1, Zenon
  <2>3. \A k \in Kinds : 1..Len(Lists[k]) = {}
    BY <1>1, <2>1
  <2> QED
    BY <2>2, <2>3, Zenon DEF ListInv, DueInv
<1>4. LogInv /\ ReadInv
    BY DEF LogInv, ReadInv
<1>5. HeldInv /\ WalkInv /\ PhaseInv /\ CountInv
    BY DEF HeldInv, WalkInv, PhaseInv, CountInv
<1> QED
    BY <1>2, <1>3, <1>4, <1>5 DEF PubSubInv, Base, Walk

(* insert_invoice and remove_invoice: one list becomes empty.              *)
LEMMA EmptiedInv ==
    ASSUME PubSubInv, NEW id \in Id, InsertInvoice(id) \/ RemoveInvoice(id)
    PROVE  PubSubInv'
<1> USE PubSubAssumption
<1>1. /\ UNCHANGED <<kind, dropped, log, read, sendpc, updates, index, held, since>>
      /\ inserts' \in 0..MaxInserts
    BY DEF InsertInvoice, RemoveInvoice, PubSubInv, Base, StateTypes
<1>2. /\ \A k \in Kinds : Lists'[k] = IF k = id THEN <<>> ELSE Lists[k]
      /\ DOMAIN invoiceSubs' \subseteq Id
    BY ListChanges DEF PubSubInv, Base
<1>3. Newest' = Newest /\ Walked' = Walked /\ Current' = Current
    BY <1>1 DEF Newest, Walked, Current
<1>4. Given' = Given /\ Fresh' = Fresh /\ Complete' = Complete
    BY <1>1, <1>3 DEF Given, Fresh, Complete, DueTo
<1>5. sendpc # "idle" => Walked \in Kinds /\ Current \in Kinds
    BY SendersList DEF PubSubInv, Base, Kinds
<1>6. StateTypes' /\ WalkTypes' /\ LogInv' /\ ReadInv'
    BY <1>1, <1>2, <1>3 DEF PubSubInv, Base, StateTypes, WalkTypes, LogInv, ReadInv
<1>7. ListInv'
  <2>1. <<>> \in Seq(Subscriber) /\ Distinct(<<>>) /\ Len(<<>>) = 0
    BY DEF Distinct
  <2>2. \A k \in Kinds : Lists'[k] \in Seq(Subscriber) /\ Distinct(Lists'[k])
    BY <1>2, <2>1, Zenon DEF PubSubInv, Base, ListInv
  <2>3. \A k \in Kinds : \A i \in 1..Len(Lists'[k]) : kind[Lists'[k][i]] = k
    BY <1>2, <2>1 DEF PubSubInv, Base, ListInv
  <2> QED
    BY <1>1, <2>2, <2>3, Zenon DEF ListInv
<1>8. HeldInv'
    BY <1>1, <1>2, <1>3, <1>4, <1>5 DEF PubSubInv, Base, Walk, HeldInv, WalkTypes
<1>9. WalkInv' /\ PhaseInv'
    BY <1>1, <1>2, <1>3, <1>4, <1>5 DEF PubSubInv, Walk, WalkInv, PhaseInv
<1>10. DueInv'
    BY <1>2, <1>4 DEF PubSubInv, Walk, DueInv
<1>11. CountInv'
  <2>1. Served' = Served
    BY <1>1, <1>3, <1>4 DEF Served
  <2> QED
    BY <1>1, <2>1 DEF PubSubInv, CountInv
<1> QED
    BY <1>6, <1>7, <1>8, <1>9, <1>10, <1>11 DEF PubSubInv, Base, Walk

(* subscribe and subscribe_all: a new sender at the end of a list.         *)
LEMMA SubscribedInv ==
    ASSUME PubSubInv, NEW s \in Subscriber, NEW k \in Kinds,
           (k = All /\ SubscribeAll(s)) \/ (k \in Id /\ Subscribe(s, k))
    PROVE  PubSubInv'
<1> USE PubSubAssumption
<1>1. /\ UNCHANGED <<dropped, log, read, sendpc, updates, index, held, inserts>>
      /\ kind[s] = None
      /\ kind' = [kind EXCEPT ![s] = k] /\ since' = [since EXCEPT ![s] = Newest]
    BY DEF SubscribeAll, Subscribe, NewSubscriber, Newest
<1>2. /\ \A j \in Kinds : Lists'[j] = IF j = k THEN Append(Lists[k], s) ELSE Lists[j]
      /\ DOMAIN invoiceSubs' \subseteq Id
    BY ListChanges DEF PubSubInv, Base
<1>3. Newest' = Newest /\ Walked' = Walked /\ Current' = Current /\ Newest \in 0..MaxUpdates
    BY <1>1 DEF Newest, Walked, Current, PubSubInv, Base, WalkTypes
<1>4. /\ kind \in [Subscriber -> Kinds \cup {None}] /\ None \notin Kinds
      /\ since \in [Subscriber -> Nat]
    BY DEF Kinds, PubSubInv, Base, StateTypes
<1>5. /\ kind'[s] = k /\ since'[s] = Newest
      /\ \A r \in Subscriber : r # s => kind'[r] = kind[r] /\ since'[r] = since[r]
    BY <1>1, <1>4
<1>6. Len(log[s]) = 0 /\ \A i \in 1..Len(log[s]) : FALSE
  <2>1. \A n \in 1..Newest : updates[n] \in Id
    BY DEF Newest, PubSubInv, Base, WalkTypes
  <2>2. log[s] \in Seq(Nat) /\ \A i \in 1..Len(log[s]) : log[s][i] \in 1..Newest /\ kind[s] \in {All, updates[log[s][i]]}
    BY DEF PubSubInv, Base, LogInv
  <2>3. \A i \in 1..Len(log[s]) : FALSE
    BY <1>1, <2>1, <2>2
  <2> QED
    BY <2>2, <2>3
<1>7. \A j \in Kinds : \A i \in 1..Len(Lists[j]) : Lists[j][i] \in Subscriber /\ Lists[j][i] # s
    BY <1>1, <1>4, InList DEF PubSubInv, Base
<1>8. /\ Lists[k] \in Seq(Subscriber) /\ Len(Lists[k]) \in Nat
      /\ Len(Append(Lists[k], s)) = Len(Lists[k]) + 1
      /\ Append(Lists[k], s) \in Seq(Subscriber)
      /\ \A i \in 1..Len(Lists[k]) : Append(Lists[k], s)[i] = Lists[k][i]
      /\ Append(Lists[k], s)[Len(Lists[k]) + 1] = s
  <2>1. Lists[k] \in Seq(Subscriber)
    BY DEF PubSubInv, Base, ListInv
  <2> QED
    BY <2>1
<1>9. \A r \in Subscriber : /\ r \in Given' <=> r \in Given
                            /\ r # s => (r \in Fresh' <=> r \in Fresh) /\ DueTo(r)' = DueTo(r)
  <2>1. \A r \in Subscriber : r \in Given' <=> r \in Given
    BY <1>1, <1>3 DEF Given
  <2>2. \A r \in Subscriber : r # s => (r \in Fresh' <=> r \in Fresh) /\ DueTo(r)' = DueTo(r)
    BY <1>1, <1>3, <1>5 DEF Fresh, DueTo
  <2> QED
    BY <2>1, <2>2
<1>10. s \notin Given /\ s \in Fresh' /\ DueTo(s)' = {}
    BY <1>1, <1>3, <1>5, <1>6 DEF Given, Fresh, DueTo, Newest
<1>11. sendpc # "idle" => Walked \in Kinds /\ Current \in Kinds
    BY SendersList DEF PubSubInv, Base, Kinds
<1>12. held # None => held # s /\ held \in Subscriber /\ sendpc # "idle"
    BY <1>1, <1>4, <1>11 DEF PubSubInv, Base, Walk, HeldInv, WalkTypes
<1>13. StateTypes' /\ WalkTypes' /\ ReadInv'
    BY <1>1, <1>2, <1>3, <1>4, <1>5 DEF PubSubInv, Base, StateTypes, WalkTypes, ReadInv
<1>14. LogInv'
    BY <1>1, <1>3, <1>5, <1>6 DEF PubSubInv, Base, LogInv
<1>15. ASSUME NEW j \in Kinds
       PROVE  /\ \A i \in 1..Len(Lists'[j]) :
                    \/ i \in 1..Len(Lists[j]) /\ Lists'[j][i] = Lists[j][i]
                    \/ j = k /\ i = Len(Lists[j]) + 1 /\ Lists'[j][i] = s
              /\ Len(Lists[j]) \in Nat /\ Len(Lists'[j]) >= Len(Lists[j]) /\ Len(Lists'[j]) \in Nat
              /\ \A i \in 1..Len(Lists[j]) : Lists'[j][i] = Lists[j][i]
  <2>1. CASE j = k
    <3>1. Lists'[j] = Append(Lists[k], s)
      BY <1>2, <2>1
    <3> QED
      BY <1>8, <2>1, <3>1
  <2>2. CASE j # k
    <3>1. Lists'[j] = Lists[j] /\ Lists[j] \in Seq(Subscriber)
      BY <1>2, <2>2 DEF PubSubInv, Base, ListInv
    <3> QED
      BY <3>1
  <2> QED
    BY <2>1, <2>2
<1>17. ListInv'
  <2>1. Distinct(Append(Lists[k], s))
    <3>1. Distinct(Lists[k])
      BY DEF PubSubInv, Base, ListInv
    <3> QED
      BY <1>7, <1>8, <3>1 DEF Distinct
  <2>2. \A j \in Kinds : Lists'[j] \in Seq(Subscriber) /\ Distinct(Lists'[j])
    BY <1>2, <1>8, <2>1, Zenon DEF PubSubInv, Base, ListInv
  <2>3. ASSUME NEW j \in Kinds, NEW i \in 1..Len(Lists'[j])
        PROVE  kind'[Lists'[j][i]] = j
    BY <1>5, <1>7, <1>15, <2>3 DEF PubSubInv, Base, ListInv
  <2> QED
    BY <2>2, <2>3, Zenon DEF ListInv
<1>18. HeldInv'
  <2> SUFFICES ASSUME held # None PROVE HeldInv'
    BY <1>1 DEF HeldInv
  <2>1. kind'[held] = Walked' /\ held \notin Given'
    BY <1>1, <1>3, <1>5, <1>9, <1>12 DEF PubSubInv, Walk, HeldInv
  <2>2. CASE index < Len(Lists[Walked]) /\ Lists[Walked][index + 1] = held
    <3>0. index \in Nat /\ Len(Lists[Walked]) \in Nat /\ index + 1 \in 1..Len(Lists[Walked])
      BY <1>11, <1>12, <1>15, <2>2 DEF PubSubInv, Base, WalkTypes
    <3>1. index < Len(Lists'[Walked]) /\ Lists'[Walked][index + 1] = held
      BY <3>0, <1>11, <1>12, <1>15, <2>2 DEF PubSubInv, Base, WalkTypes
    <3> QED
      BY <1>1, <1>3, <2>1, <3>1 DEF HeldInv
  <2>3. CASE \A i \in 1..Len(Lists[Walked]) : Lists[Walked][i] # held /\ Lists[Walked][i] \in Fresh
    <3>1. \A i \in 1..Len(Lists'[Walked]) : Lists'[Walked][i] # held /\ Lists'[Walked][i] \in Fresh'
      BY <1>7, <1>9, <1>10, <1>11, <1>12, <1>15, <2>3
    <3> QED
      BY <1>1, <1>3, <2>1, <3>1 DEF HeldInv
  <2> QED
    BY <2>2, <2>3 DEF PubSubInv, Walk, HeldInv
<1>19. WalkInv'
  <2> SUFFICES ASSUME sendpc # "idle", NEW i \in 1..Len(Lists'[Walked])
               PROVE  IF i <= index THEN Lists'[Walked][i] \in Given' \/ Lists'[Walked][i] \in Fresh'
                      ELSE Lists'[Walked][i] \notin Given'
    BY <1>1, <1>3 DEF WalkInv
  <2>1. CASE Lists'[Walked][i] = s
    BY <1>9, <1>10, <2>1
  <2>2. CASE i \in 1..Len(Lists[Walked]) /\ Lists'[Walked][i] = Lists[Walked][i]
    BY <1>7, <1>9, <1>11, <2>2 DEF PubSubInv, Walk, WalkInv
  <2> QED
    BY <1>11, <1>15, <2>1, <2>2
<1>20. PhaseInv'
  <2>1. ASSUME sendpc = "invoice", NEW r \in Subscriber, kind'[r] = All
        PROVE  r \notin Given'
    BY <1>5, <1>9, <1>10, <2>1 DEF PubSubInv, Walk, PhaseInv
  <2>2. ASSUME sendpc = "global", NEW i \in 1..Len(Lists'[Current])
        PROVE  Lists'[Current][i] \in Given' \/ Lists'[Current][i] \in Fresh'
    <3>1. CASE Lists'[Current][i] = s
      BY <1>10, <3>1
    <3>2. CASE i \in 1..Len(Lists[Current]) /\ Lists'[Current][i] = Lists[Current][i]
      BY <1>7, <1>9, <1>11, <2>2, <3>2 DEF PubSubInv, Walk, PhaseInv
    <3> QED
      BY <1>11, <1>15, <2>2, <3>1, <3>2
  <2> QED
    BY <1>1, <1>3, <2>1, <2>2 DEF PhaseInv
<1>21. DueInv'
  <2>1. s \in Complete' /\ \A r \in Subscriber : r # s => (r \in Complete' <=> r \in Complete)
    BY <1>1, <1>3, <1>9, <1>10 DEF Complete
  <2> QED
    BY <1>7, <1>15, <2>1 DEF PubSubInv, Walk, DueInv
<1>22. CountInv'
  <2>1. Served' = Served
    BY <1>1, <1>3, <1>5, <1>9, <1>10 DEF Served
  <2> QED
    BY <1>1, <2>1 DEF PubSubInv, CountInv
<1> QED
    BY <1>13, <1>14, <1>17, <1>18, <1>19, <1>20, <1>21, <1>22 DEF PubSubInv, Base, Walk

(* A new update: nobody has it yet.                                        *)
LEMMA BegunInv ==
    ASSUME PubSubInv, NEW id \in Id, BeginSend(id)
    PROVE  PubSubInv'
<1> USE PubSubAssumption
<1>1. /\ sendpc = "idle" /\ Newest < MaxUpdates /\ updates' = Append(updates, id)
      /\ sendpc' = "invoice" /\ index' = 0 /\ held' = None
      /\ UNCHANGED <<invoiceSubs, globalSubs, kind, dropped, log, read, inserts, since>>
    BY DEF BeginSend, Newest, PubSubInv, Base, WalkTypes
<1>2. /\ Newest' = Newest + 1 /\ Newest \in Nat /\ Newest' <= MaxUpdates
      /\ updates' \in Seq(Id)
      /\ \A n \in 1..Newest : updates'[n] = updates[n]
      /\ updates'[Newest'] = id
    BY <1>1 DEF Newest, PubSubInv, Base, WalkTypes
<1>3. Lists' = Lists /\ DOMAIN invoiceSubs' \subseteq Id
    BY <1>1 DEF Lists, PubSubInv, Base, StateTypes
<1>4. Given' = {}
    BY <1>1, <1>2 DEF Given, PubSubInv, Base, LogInv
<1>5. WalkTypes'
    BY <1>1, <1>2 DEF WalkTypes, Newest
<1>6. StateTypes'
  <2>1. \A s \in Subscriber : since[s] \in Nat /\ since[s] <= Newest
    BY DEF PubSubInv, Base, StateTypes
  <2>2. \A s \in Subscriber : since'[s] <= Newest'
    BY <1>1, <1>2, <2>1
  <2> QED
    BY <1>1, <1>3, <2>2 DEF StateTypes, PubSubInv, Base
<1>7. ListInv' /\ ReadInv'
    BY <1>1, <1>3 DEF PubSubInv, Base, ListInv, ReadInv
<1>8. LogInv'
  <2>1. \A s \in Subscriber : \A i \in 1..Len(log[s]) :
           log[s][i] \in 1..Newest' /\ kind[s] \in {All, updates'[log[s][i]]}
    BY <1>2, SMTT(30) DEF PubSubInv, Base, LogInv
  <2> QED
    BY <1>1, <2>1 DEF PubSubInv, Base, LogInv
<1>9. HeldInv' /\ WalkInv' /\ PhaseInv'
  <2>1. HeldInv' /\ PhaseInv'
    BY <1>1, <1>4 DEF HeldInv, PhaseInv
  <2>2. Walked' \in Kinds
    BY <1>1, <1>2 DEF Walked, Current, Newest, Kinds
  <2>3. \A i \in 1..Len(Lists[Walked']) : ~(i <= 0)
    BY <2>2 DEF PubSubInv, Base, ListInv
  <2> QED
    BY <1>1, <1>3, <1>4, <2>1, <2>3 DEF WalkInv
<1>10. DueInv'
  <2>1. ASSUME NEW s \in Subscriber, s \in Complete
        PROVE  s \in Complete'
    <3>1. \A n \in DueTo(s) : \E j \in 1..Len(log[s]) : log[s][j] = n
      BY <1>1, <2>1 DEF Complete
    <3>2. \A n \in DueTo(s)' : n < Newest' => n \in DueTo(s)
      BY <1>1, <1>2 DEF DueTo, Newest, PubSubInv, Base, StateTypes
    <3> QED
      BY <1>1, <3>1, <3>2 DEF Complete
  <2> QED
    BY <1>3, <2>1, InList DEF PubSubInv, Base, Walk, DueInv
<1>11. CountInv'
  <2>1. Served' = {}
    BY <1>4 DEF Served
  <2> QED
    BY <1>1, <2>1, FS_EmptySet DEF CountInv
<1> QED
    BY <1>5, <1>6, <1>7, <1>8, <1>9, <1>10, <1>11 DEF PubSubInv, Base, Walk

(* The loop takes the sender at its index.                                 *)
LEMMA TakenInv ==
    ASSUME PubSubInv, GetSender
    PROVE  PubSubInv'
<1> USE PubSubAssumption
<1>1. /\ sendpc # "idle" /\ index < Len(Lists[Walked]) /\ held' = Lists[Walked][index + 1]
      /\ Walked \in Kinds
      /\ UNCHANGED <<invoiceSubs, globalSubs, kind, dropped, log, read, sendpc, updates, index,
                     inserts, since>>
    BY SendersList DEF GetSender, PubSubInv, Base
<1>2. /\ index + 1 \in 1..Len(Lists[Walked]) /\ index \in Nat
      /\ held' \in Subscriber /\ kind[held'] = Walked
    BY <1>1, InList DEF PubSubInv, Base, ListInv, WalkTypes
<1>3. /\ Newest' = Newest /\ Walked' = Walked /\ Current' = Current /\ Lists' = Lists
      /\ Given' = Given /\ Fresh' = Fresh
    BY <1>1 DEF Newest, Walked, Current, Lists, Given, Fresh
<1>4. Complete' = Complete /\ Served' = Served
    BY <1>1, <1>3 DEF Complete, DueTo, Served
<1>5. held' \notin Given
    BY <1>1, <1>2 DEF PubSubInv, Walk, WalkInv
<1>6. HeldInv'
    BY <1>1, <1>2, <1>3, <1>5 DEF HeldInv
<1>7. StateTypes' /\ WalkTypes' /\ LogInv' /\ ReadInv'
    BY <1>1, <1>2, <1>3 DEF PubSubInv, Base, StateTypes, WalkTypes, LogInv, ReadInv
<1>8. ListInv'
    BY <1>1, <1>3 DEF PubSubInv, Base, ListInv
<1>9. WalkInv' /\ PhaseInv' /\ DueInv' /\ CountInv'
    BY <1>1, <1>3, <1>4 DEF PubSubInv, Walk, WalkInv, PhaseInv, DueInv, CountInv
<1> QED
    BY <1>6, <1>7, <1>8, <1>9 DEF PubSubInv, Base, Walk

(* The end of a list: all that are in it now have been served.             *)
LEMMA EndedInv ==
    ASSUME PubSubInv, EndOfList
    PROVE  PubSubInv'
<1> USE PubSubAssumption
<1>1. /\ sendpc # "idle" /\ held = None /\ index >= Len(Lists[Walked]) /\ Walked \in Kinds
      /\ Current \in Kinds
      /\ sendpc' = IF sendpc = "invoice" THEN "global" ELSE "idle"
      /\ index' = 0 /\ held' = None
      /\ UNCHANGED <<invoiceSubs, globalSubs, kind, dropped, log, read, updates, inserts, since>>
    BY SendersList DEF EndOfList, PubSubInv, Base, Kinds
<1>2. /\ Newest' = Newest /\ Current' = Current /\ Lists' = Lists /\ Given' = Given /\ Fresh' = Fresh
      /\ Newest \in Nat /\ sendpc \in {"invoice", "global"} /\ sendpc' \in {"global", "idle"}
    BY <1>1 DEF Newest, Current, Lists, Given, Fresh, PubSubInv, Base, WalkTypes
<1>3. \A i \in 1..Len(Lists[Walked]) : Lists[Walked][i] \in Given \/ Lists[Walked][i] \in Fresh
    BY <1>1 DEF PubSubInv, Base, Walk, WalkInv, WalkTypes, ListInv
<1>4. StateTypes' /\ WalkTypes' /\ LogInv' /\ ReadInv'
    BY <1>1, <1>2 DEF PubSubInv, Base, StateTypes, WalkTypes, LogInv, ReadInv
<1>5. ListInv'
    BY <1>1, <1>2 DEF PubSubInv, Base, ListInv
<1>6. HeldInv'
    BY <1>1 DEF HeldInv
<1>7. PhaseInv'
    BY <1>1, <1>2, <1>3 DEF PhaseInv, Walked
<1>8. WalkInv'
  <2>1. sendpc' # "idle" => sendpc = "invoice" /\ Walked' = All
    BY <1>1, <1>2 DEF Walked
  <2>2. All \in Kinds
    BY DEF Kinds
  <2>3. \A i \in 1..Len(Lists[All]) : /\ ~(i <= 0) /\ Lists[All][i] \in Subscriber
                                      /\ kind[Lists[All][i]] = All
    BY <2>2, InList DEF PubSubInv, Base
  <2> QED
    BY <1>1, <1>2, <2>1, <2>3 DEF WalkInv, PubSubInv, Walk, PhaseInv
<1>9. DueInv'
  <2> SUFFICES ASSUME NEW k \in Kinds, NEW i \in 1..Len(Lists[k])
               PROVE  Lists[k][i] \in Complete'
    BY <1>2 DEF DueInv
  <2>0. PICK s \in Subscriber : s = Lists[k][i]
    BY InList DEF PubSubInv, Base
  <2>1. kind[s] = k /\ s \in Complete
    BY <2>0, InList DEF PubSubInv, Base, Walk, DueInv
  <2>2. DueTo(s)' = DueTo(s)
    BY <1>1 DEF DueTo
  <2>3. \A n \in DueTo(s) : n < Newest \/ n = Newest
    BY <1>2 DEF DueTo, Newest, PubSubInv, Base, StateTypes
  <2>4. ASSUME sendpc' = "idle", Newest \in DueTo(s)
        PROVE  s \in Given
    <3>1. sendpc = "global" /\ Walked = All /\ s \notin Fresh /\ k \in {All, Current}
      BY <1>1, <1>2, <2>1, <2>4 DEF Walked, Fresh, DueTo, Newest, Current, PubSubInv, Base, StateTypes
    <3> QED
      BY <1>3, <2>0, <3>1 DEF PubSubInv, Walk, PhaseInv
  <2>5. \A n \in DueTo(s) : n < Newest => \E j \in 1..Len(log[s]) : log[s][j] = n
    BY <2>1 DEF Complete
  <2>6. s \in Given => \E j \in 1..Len(log[s]) : log[s][j] = Newest
    BY DEF Given
  <2>7. s \in Complete'
    BY <1>1, <1>2, <2>1, <2>2, <2>3, <2>4, <2>5, <2>6 DEF Complete
  <2> QED
    BY <2>0, <2>7
<1>10. CountInv'
  <2>1. sendpc' # "idle" => Served' = {}
    BY <1>1, <1>2 DEF Served, Walked, PubSubInv, Walk, PhaseInv
  <2> QED
    BY <1>1, <2>1, FS_EmptySet DEF CountInv
<1> QED
    BY <1>4, <1>5, <1>6, <1>7, <1>8, <1>9, <1>10 DEF PubSubInv, Base, Walk

(* After the send the loop steps on, or removes the sender that it held.   *)
LEMMA SentLists ==
    ASSUME PubSubInv, Deliver \/ DeliverFails
    PROVE  /\ held' = None /\ sendpc # "idle" /\ Walked \in Kinds /\ Current \in Kinds
           /\ DOMAIN invoiceSubs' \subseteq Id
           /\ \A j \in Kinds : j # Walked => Lists'[j] = Lists[j]
           /\ \/ Deliver /\ index' = index + 1 /\ Lists'[Walked] = Lists[Walked]
              \/ /\ index' = index
                 /\ Lists'[Walked] = SwapRemove(Lists[Walked], held)
<1>1. sendpc # "idle" /\ Walked \in Kinds /\ Current \in Kinds /\ held \in Subscriber
    BY SendersList DEF Deliver, DeliverFails, PubSubInv, Base, WalkTypes, Kinds
<1>2. /\ held' = None
      /\ \/ Deliver /\ index' = index + 1 /\ UNCHANGED <<invoiceSubs, globalSubs>>
         \/ index' = index /\ RemoveSender(held)
    BY Zenon DEF Deliver, DeliverFails, AfterSend
<1> QED
    BY <1>1, <1>2, ListChanges DEF PubSubInv, Base

(* The lists after a send.  Nobody comes into one, those behind the index  *)
(* stay, and the sender that was held is now behind it or gone, unless the *)
(* whole list was replaced meanwhile.                                      *)
LEMMA SentWalk ==
    ASSUME PubSubInv, Deliver \/ DeliverFails
    PROVE  /\ \A j \in Kinds : /\ Lists'[j] \in Seq(Subscriber)
                               /\ \A i, m \in 1..Len(Lists'[j]) : Lists'[j][i] = Lists'[j][m] => i = m
                               /\ \A i \in 1..Len(Lists'[j]) :
                                     \E p \in 1..Len(Lists[j]) : Lists'[j][i] = Lists[j][p]
           /\ \A i \in 1..Len(Lists'[Walked]) :
                 \/ /\ i <= index /\ i <= index' /\ i \in 1..Len(Lists[Walked])
                    /\ Lists'[Walked][i] = Lists[Walked][i]
                 \/ /\ i > index /\ i > index' /\ Lists'[Walked][i] # held
                    /\ \E p \in 1..Len(Lists[Walked]) : p > index /\ Lists'[Walked][i] = Lists[Walked][p]
                 \/ /\ i <= index' /\ Deliver /\ Lists'[Walked][i] = held
                 \/ /\ i <= index' /\ Lists'[Walked][i] \in Fresh
<1>1. /\ Walked \in Kinds /\ \A j \in Kinds : j # Walked => Lists'[j] = Lists[j]
      /\ \/ Deliver /\ index' = index + 1 /\ Lists'[Walked] = Lists[Walked]
         \/ /\ index' = index
            /\ Lists'[Walked] = SwapRemove(Lists[Walked], held)
    BY SentLists
<1>q. PICK q : q = Lists[Walked]
    OBVIOUS
<1>r. PICK r : r = Lists'[Walked]
    OBVIOUS
<1>2. q \in Seq(Subscriber) /\ index \in Nat /\ Len(q) \in Nat
    BY <1>1, <1>q DEF PubSubInv, Base, ListInv, WalkTypes
<1>3. \A i, j \in 1..Len(q) : q[i] = q[j] => i = j
    BY <1>1, <1>2, <1>q DEF PubSubInv, Base, ListInv, Distinct
<1>4. \/ index < Len(q) /\ q[index + 1] = held
      \/ \A i \in 1..Len(q) : q[i] # held /\ q[i] \in Fresh
    BY <1>q DEF Deliver, DeliverFails, PubSubInv, Walk, HeldInv
<1>5. /\ r \in Seq(Subscriber) /\ \A i, j \in 1..Len(r) : r[i] = r[j] => i = j
      /\ \A i \in 1..Len(r) :
                 \/ /\ i <= index /\ i <= index' /\ i \in 1..Len(q) /\ r[i] = q[i]
                 \/ /\ i > index /\ i > index' /\ r[i] # held
                    /\ \E p \in 1..Len(q) : p > index /\ r[i] = q[p]
                 \/ /\ i <= index' /\ Deliver /\ r[i] = held
                 \/ /\ i <= index' /\ r[i] \in Fresh
      /\ \A i \in 1..Len(r) : \E p \in 1..Len(q) : r[i] = q[p]
  <2>1. CASE Deliver /\ index' = index + 1 /\ r = q
    BY <1>2, <1>3, <1>4, <2>1
  <2>2. CASE index' = index /\ r = SwapRemove(q, held)
    <3>1. CASE index < Len(q) /\ q[index + 1] = held
      <4>1. index + 1 \in 1..Len(q)
        BY <1>2, <3>1
      <4>2. /\ r \in Seq(Subscriber) /\ Len(r) = Len(q) - 1
            /\ \A i, j \in 1..Len(r) : r[i] = r[j] => i = j
            /\ \A i \in 1..Len(r) : r[i] = IF i = index + 1 THEN q[Len(q)] ELSE q[i]
        <5>1. PICK p \in 1..Len(q) : p = index + 1
          BY <4>1
        <5>2. held = q[p]
          BY <3>1, <5>1, Zenon
        <5>3. Distinct(q)
          BY <1>2, <1>3 DEF Distinct
        <5>4. TakenOut(r, q, p)
          BY <1>2, <2>2, <5>2, <5>3, SwapRemoveAt, Zenon
        <5> QED
          BY <5>1, <5>4 DEF TakenOut
      <4>3. ASSUME NEW i \in 1..Len(r), i > index
            PROVE  r[i] # held /\ \E p \in 1..Len(q) : p > index /\ r[i] = q[p]
        <5>1. CASE i = index + 1
          <6>1. r[i] = q[Len(q)] /\ Len(q) # index + 1 /\ Len(q) > index
            BY <1>2, <4>2, <5>1
          <6> QED
            BY <1>2, <1>3, <3>1, <4>1, <6>1
        <5>2. CASE i # index + 1
          <6>1. r[i] = q[i] /\ i \in 1..Len(q)
            BY <1>2, <4>2, <5>2
          <6> QED
            BY <1>3, <3>1, <4>1, <4>3, <5>2, <6>1
        <5> QED
          BY <5>1, <5>2
      <4>4. ASSUME NEW i \in 1..Len(r), i <= index
            PROVE  r[i] = q[i] /\ i \in 1..Len(q)
        BY <1>2, <4>2, <4>4
      <4>5. \A i \in 1..Len(r) : i <= index \/ i > index
        BY <1>2, <4>2
      <4> QED
        BY <2>2, <4>2, <4>3, <4>4, <4>5, Zenon
    <3>2. CASE \A i \in 1..Len(q) : q[i] # held /\ q[i] \in Fresh
      <4>1. r = q
        BY <1>2, <2>2, <3>2, SwapRemoveAbsent
      <4> QED
        BY <1>2, <1>3, <2>2, <3>2, <4>1
    <3> QED
      BY <1>4, <3>1, <3>2
  <2> QED
    BY <1>1, <1>q, <1>r, <2>1, <2>2
<1>6. \A j \in Kinds : j # Walked =>
         /\ Lists'[j] \in Seq(Subscriber)
         /\ \A i, m \in 1..Len(Lists'[j]) : Lists'[j][i] = Lists'[j][m] => i = m
         /\ \A i \in 1..Len(Lists'[j]) : \E p \in 1..Len(Lists[j]) : Lists'[j][i] = Lists[j][p]
    BY <1>1 DEF PubSubInv, Base, ListInv, Distinct
<1>7. ASSUME NEW j \in Kinds
      PROVE  /\ Lists'[j] \in Seq(Subscriber)
             /\ \A i, m \in 1..Len(Lists'[j]) : Lists'[j][i] = Lists'[j][m] => i = m
             /\ \A i \in 1..Len(Lists'[j]) : \E p \in 1..Len(Lists[j]) : Lists'[j][i] = Lists[j][p]
  <2>1. CASE j = Walked
    <3>1. r = Lists'[j] /\ q = Lists[j]
      BY <1>q, <1>r, <2>1
    <3> QED
      BY <1>5, <3>1
  <2>2. CASE j # Walked
    BY <1>6, <2>2
  <2> QED
    BY <2>1, <2>2
<1> QED
    BY <1>5, <1>7, <1>q, <1>r

(* A send that goes through or fails.                                      *)
LEMMA SentInv ==
    ASSUME PubSubInv, Deliver \/ DeliverFails
    PROVE  PubSubInv'
<1> USE PubSubAssumption
<1>1. /\ held # None
      /\ UNCHANGED <<kind, dropped, read, sendpc, updates, inserts, since>>
    BY DEF Deliver, DeliverFails
<1>2. Deliver => /\ Len(log[held]) - read[held] < BufferLen
                 /\ log' = [log EXCEPT ![held] = Append(@, Newest)]
    BY DEF Deliver, Newest
<1>3. PICK h \in Subscriber : h = held
    BY <1>1 DEF PubSubInv, Base, WalkTypes
<1>4. /\ held' = None /\ sendpc # "idle" /\ Walked \in Kinds /\ Current \in Kinds
      /\ DOMAIN invoiceSubs' \subseteq Id /\ index' \in {index, index + 1} /\ index \in Nat
      /\ \A j \in Kinds : j # Walked => Lists'[j] = Lists[j]
      /\ index' = index + 1 => Deliver
    BY SentLists DEF PubSubInv, Base, WalkTypes
<1>5. Newest' = Newest /\ Walked' = Walked /\ Current' = Current /\ Fresh' = Fresh /\ Newest \in Nat /\ Newest >= 1
    BY <1>1, <1>4 DEF Newest, Walked, Current, Fresh, PubSubInv, Base, WalkTypes
<1>6. kind[h] = Walked /\ h \notin Given
    BY <1>1, <1>3 DEF PubSubInv, Walk, HeldInv
<1>7. /\ Given' = IF Deliver THEN Given \cup {h} ELSE Given
      /\ LogInv' /\ ReadInv'
      /\ \A r \in Subscriber : \A i \in 1..Len(log[r]) : i \in 1..Len(log'[r]) /\ log'[r][i] = log[r][i]
  <2>1. CASE Deliver
    <3>1. /\ log[h] \in Seq(Nat) /\ log \in [Subscriber -> Seq(Nat)]
          /\ log' = [log EXCEPT ![h] = Append(log[h], Newest)]
          /\ read[h] \in Nat /\ Len(log[h]) - read[h] < BufferLen
      BY <1>2, <1>3, <2>1 DEF PubSubInv, Base, LogInv, ReadInv
    <3>2. /\ log' \in [Subscriber -> Seq(Nat)]
          /\ log'[h] = Append(log[h], Newest) /\ \A r \in Subscriber : r # h => log'[r] = log[r]
      BY <1>5, <3>1
    <3>3. /\ Len(log[h]) \in Nat /\ Len(log'[h]) = Len(log[h]) + 1
          /\ \A i \in 1..Len(log[h]) : log'[h][i] = log[h][i]
          /\ log'[h][Len(log[h]) + 1] = Newest
      BY <1>5, <3>1, <3>2
    <3>4. \A i \in 1..Len(log[h]) : log[h][i] \in 1..Newest /\ log[h][i] # Newest /\ log[h][i] < Newest
      BY <1>5, <1>6 DEF Given, PubSubInv, Base, LogInv
    <3>5. kind[h] \in {All, updates[Newest]}
      BY <1>6 DEF Walked, Current, Newest
    <3>6. Given' = Given \cup {h}
      <4>1. \A r \in Subscriber : r # h => (r \in Given' <=> r \in Given)
        BY <1>5, <3>2 DEF Given
      <4>2. h \in Given'
        <5>1. Len(log[h]) + 1 \in 1..Len(log'[h])
          BY <3>3
        <5> QED
          BY <1>5, <3>3, <5>1 DEF Given
      <4>3. Given \subseteq Subscriber /\ Given' \subseteq Subscriber
        BY DEF Given
      <4> QED
        BY <4>1, <4>2, <4>3
    <3>7. LogInv'
      <4>1. ASSUME NEW r \in Subscriber
            PROVE  /\ \A i \in 1..Len(log'[r]) : log'[r][i] \in 1..Newest /\ kind[r] \in {All, updates[log'[r][i]]}
                   /\ \A i, j \in 1..Len(log'[r]) : i < j => log'[r][i] < log'[r][j]
        <5>1. CASE r = h
          <6>1. \A i \in 1..Len(log'[h]) : i \in 1..Len(log[h]) \/ i = Len(log[h]) + 1
            BY <3>3
          <6>2. \A i \in 1..Len(log'[h]) : log'[h][i] \in 1..Newest /\ kind[h] \in {All, updates[log'[h][i]]}
            BY <1>5, <3>3, <3>4, <3>5, <6>1, SMTT(30) DEF PubSubInv, Base, LogInv
          <6>3. \A i, j \in 1..Len(log[h]) : i < j => log[h][i] < log[h][j]
            BY DEF PubSubInv, Base, LogInv
          <6>4. ASSUME NEW i \in 1..Len(log'[h]), NEW j \in 1..Len(log'[h]), i < j
                PROVE  log'[h][i] < log'[h][j]
            <7>1. i \in 1..Len(log[h]) /\ log'[h][i] = log[h][i]
              BY <3>3, <6>1, <6>4
            <7>2. CASE j \in 1..Len(log[h])
              BY <3>3, <6>3, <6>4, <7>1, <7>2
            <7>3. CASE j = Len(log[h]) + 1
              BY <3>3, <3>4, <7>1, <7>3
            <7> QED
              BY <6>1, <7>2, <7>3
          <6> QED
            BY <5>1, <6>2, <6>4
        <5>2. CASE r # h
          BY <3>2, <5>2 DEF PubSubInv, Base, LogInv
        <5> QED
          BY <5>1, <5>2
      <4> QED
        BY <1>1, <1>5, <3>2, <4>1 DEF LogInv
    <3>8. ReadInv'
      <4>1. \A r \in Subscriber : read[r] <= Len(log'[r]) /\ Len(log'[r]) - read[r] <= BufferLen
        BY <3>1, <3>2, <3>3 DEF PubSubInv, Base, ReadInv
      <4> QED
        BY <1>1, <4>1 DEF PubSubInv, Base, ReadInv
    <3>9. ASSUME NEW r \in Subscriber, NEW i \in 1..Len(log[r])
          PROVE  i \in 1..Len(log'[r]) /\ log'[r][i] = log[r][i]
      <4>1. CASE r = h
        BY <3>3, <4>1
      <4>2. CASE r # h
        BY <3>2, <4>2
      <4> QED
        BY <4>1, <4>2
    <3> QED
      BY <2>1, <3>6, <3>7, <3>8, <3>9
  <2>2. CASE ~Deliver
    <3>1. log' = log
      BY <2>2 DEF DeliverFails
    <3> QED
      BY <1>1, <1>5, <2>2, <3>1 DEF Given, PubSubInv, Base, LogInv, ReadInv
  <2> QED
    BY <2>1, <2>2
<1>8. StateTypes' /\ WalkTypes'
    BY <1>1, <1>4, <1>5 DEF PubSubInv, Base, StateTypes, WalkTypes
<1>9. \A j \in Kinds : /\ Lists'[j] \in Seq(Subscriber)
                       /\ \A i, m \in 1..Len(Lists'[j]) : Lists'[j][i] = Lists'[j][m] => i = m
                       /\ \A i \in 1..Len(Lists'[j]) :
                             \E p \in 1..Len(Lists[j]) : Lists'[j][i] = Lists[j][p]
    BY SentWalk
<1>10. ListInv'
  <2>1. \A j \in Kinds : Distinct(Lists'[j])
    BY <1>9 DEF Distinct
  <2>2. \A j \in Kinds : \A i \in 1..Len(Lists'[j]) : kind'[Lists'[j][i]] = j
    BY <1>1, <1>9 DEF PubSubInv, Base, ListInv
  <2> QED
    BY <1>9, <2>1, <2>2, Zenon DEF ListInv
<1>11. HeldInv'
    BY <1>4 DEF HeldInv
<1>12. WalkInv'
  <2> SUFFICES ASSUME NEW i \in 1..Len(Lists'[Walked])
               PROVE  IF i <= index' THEN Lists'[Walked][i] \in Given' \/ Lists'[Walked][i] \in Fresh
                      ELSE Lists'[Walked][i] \notin Given'
    BY <1>5 DEF WalkInv
  <2>1. CASE /\ i <= index /\ i <= index' /\ i \in 1..Len(Lists[Walked])
             /\ Lists'[Walked][i] = Lists[Walked][i]
    BY <1>4, <1>7, <2>1 DEF PubSubInv, Walk, WalkInv
  <2>2. CASE /\ i > index /\ i > index' /\ Lists'[Walked][i] # held
             /\ \E p \in 1..Len(Lists[Walked]) : p > index /\ Lists'[Walked][i] = Lists[Walked][p]
    <3>1. PICK p \in 1..Len(Lists[Walked]) : p > index /\ Lists'[Walked][i] = Lists[Walked][p]
      BY <2>2
    <3>2. Lists[Walked][p] \notin Given /\ ~(i <= index')
      BY <1>4, <2>2, <3>1 DEF PubSubInv, Walk, WalkInv
    <3> QED
      BY <1>3, <1>7, <2>2, <3>1, <3>2
  <2>3. CASE i <= index' /\ Deliver /\ Lists'[Walked][i] = held
    BY <1>3, <1>7, <2>3
  <2>4. CASE i <= index' /\ Lists'[Walked][i] \in Fresh
    BY <2>4
  <2> QED
    BY <2>1, <2>2, <2>3, <2>4, SentWalk
<1>13. PhaseInv'
  <2>1. ASSUME sendpc = "invoice", NEW r \in Subscriber, kind[r] = All
        PROVE  r \notin Given'
    <3>1. Walked # All
      BY <1>4, <2>1, SendersList DEF Walked, PubSubInv, Base
    <3> QED
      BY <1>6, <1>7, <2>1, <3>1 DEF PubSubInv, Walk, PhaseInv
  <2>2. ASSUME sendpc = "global"
        PROVE  \A i \in 1..Len(Lists'[Current]) : Lists'[Current][i] \in Given' \/ Lists'[Current][i] \in Fresh
    <3>1. Current # Walked
      BY <1>4, <2>2, SendersList DEF Walked, PubSubInv, Base
    <3> QED
      BY <1>4, <1>7, <2>2, <3>1 DEF PubSubInv, Walk, PhaseInv
  <2> QED
    BY <1>1, <1>5, <2>1, <2>2 DEF PhaseInv
<1>14. DueInv'
  <2>1. ASSUME NEW r \in Complete
        PROVE  r \in Complete'
    <3>1. DueTo(r)' = DueTo(r) /\ r \in Subscriber
      BY <1>1 DEF DueTo, Complete
    <3> QED
      BY <1>1, <1>5, <1>7, <3>1 DEF Complete
  <2> QED
    BY <1>9, <2>1 DEF PubSubInv, Walk, DueInv
<1>15. CountInv'
  <2>1. IsFiniteSet(Served) /\ Cardinality(Served) \in Nat /\ h \notin Served
    BY <1>6, FS_Subset, FS_CardinalityType DEF Served
  <2>2. Served' = IF Deliver THEN Served \cup {h} ELSE Served
    BY <1>1, <1>5, <1>6, <1>7 DEF Served
  <2>3. Cardinality(Served \cup {h}) = Cardinality(Served) + 1
    BY <2>1, FS_AddElement
  <2>4. index <= Cardinality(Served)
    BY <1>4 DEF PubSubInv, CountInv
  <2>5. index' <= Cardinality(Served')
    BY <1>4, <2>1, <2>2, <2>3, <2>4
  <2> QED
    BY <1>1, <1>4, <2>5 DEF CountInv
<1> QED
    BY <1>7, <1>8, <1>10, <1>11, <1>12, <1>13, <1>14, <1>15 DEF PubSubInv, Base, Walk

(* An owner reads or drops its subscriber, or nothing happens: the lists   *)
(* and the logs stay.                                                      *)
LEMMA OwnerInv ==
    ASSUME PubSubInv, (\E s \in Subscriber : Recv(s) \/ Drop(s)) \/ UNCHANGED vars
    PROVE  PubSubInv'
<1> USE PubSubAssumption
<1>1. UNCHANGED <<invoiceSubs, globalSubs, kind, log, sendpc, updates, index, held, inserts, since>>
    BY DEF Recv, Drop, vars
<1>2. /\ Newest' = Newest /\ Walked' = Walked /\ Current' = Current /\ Lists' = Lists
      /\ Given' = Given /\ Fresh' = Fresh
    BY <1>1 DEF Newest, Walked, Current, Lists, Given, Fresh
<1>3. Complete' = Complete /\ Served' = Served
    BY <1>1, <1>2 DEF Complete, DueTo, Served
<1>4. dropped' \subseteq Subscriber
    BY DEF Recv, Drop, vars, PubSubInv, Base, StateTypes
<1>5. StateTypes' /\ WalkTypes' /\ LogInv'
    BY <1>1, <1>2, <1>4 DEF PubSubInv, Base, StateTypes, WalkTypes, LogInv
<1>6. ReadInv'
  <2>1. ASSUME NEW s \in Subscriber, Recv(s)
        PROVE  ReadInv'
    BY <1>1, <2>1 DEF Recv, PubSubInv, Base, ReadInv, LogInv
  <2>2. CASE read' = read
    BY <1>1, <2>2 DEF PubSubInv, Base, ReadInv
  <2> QED
    BY <2>1, <2>2 DEF Drop, vars
<1>7. ListInv'
    BY <1>1, <1>2 DEF PubSubInv, Base, ListInv
<1>8. HeldInv' /\ WalkInv' /\ PhaseInv' /\ DueInv' /\ CountInv'
    BY <1>1, <1>2, <1>3 DEF PubSubInv, Walk, HeldInv, WalkInv, PhaseInv, DueInv, CountInv
<1> QED
    BY <1>5, <1>6, <1>7, <1>8 DEF PubSubInv, Base, Walk

(* The invariant in every reachable state.                                 *)
LEMMA Invariance == Spec => []PubSubInv
<1>1. PubSubInv /\ [Next]_vars => PubSubInv'
  <2> SUFFICES ASSUME PubSubInv, [Next]_vars PROVE PubSubInv'
    OBVIOUS
  <2>1. ASSUME NEW s \in Subscriber, SubscribeAll(s) \/ \E id \in Id : Subscribe(s, id)
        PROVE  PubSubInv'
    BY <2>1, SubscribedInv DEF Kinds
  <2> QED
    BY <2>1, EmptiedInv, BegunInv, TakenInv, EndedInv, SentInv, OwnerInv DEF Next, SendStep
<1> QED
    BY <1>1, InitInv, PTL DEF Spec

-----------------------------------------------------------------------------
(***************************************************************************)
(* The theorems.                                                           *)
(***************************************************************************)
(* Type correctness of the publisher; the index stays within the number of *)
(* subscribers, also when lists are replaced under the loop.               *)
THEOREM TypeCorrect == Spec => []TypeOK
<1> DEFINE ClosedOK == closed \in BOOLEAN
<1>1. ClosedOK /\ [Next]_vars => ClosedOK'
    BY Zenon DEF Next, InsertInvoice, RemoveInvoice, BeginSend, SubscribeAll, Subscribe, NewSubscriber,
          SendStep, GetSender, EndOfList, Deliver, DeliverFails, AfterSend, Recv, Drop, vars
<1>2. Init => ClosedOK
    BY DEF Init
<1>3. PubSubInv /\ ClosedOK => TypeOK
  <2> SUFFICES ASSUME PubSubInv, closed \in BOOLEAN PROVE TypeOK
    OBVIOUS
  <2> USE PubSubAssumption
  <2>1. /\ DOMAIN invoiceSubs \subseteq Id
        /\ \A id \in DOMAIN invoiceSubs : invoiceSubs[id] \in Seq(Subscriber) /\ Distinct(invoiceSubs[id])
    <3>1. DOMAIN invoiceSubs \subseteq Id
      BY DEF PubSubInv, Base, StateTypes
    <3>2. \A id \in DOMAIN invoiceSubs : id \in Kinds /\ invoiceSubs[id] = Lists[id]
      BY <3>1 DEF Lists, Kinds
    <3> QED
      BY <3>1, <3>2, Zenon DEF PubSubInv, Base, ListInv
  <2>2. globalSubs \in Seq(Subscriber) /\ Distinct(globalSubs)
    <3>1. All \in Kinds /\ globalSubs = Lists[All]
      BY DEF Lists, Kinds
    <3> QED
      BY <3>1, Zenon DEF PubSubInv, Base, ListInv
  <2>3. /\ kind \in [Subscriber -> Id \cup {All, None}] /\ dropped \subseteq Subscriber
        /\ since \in [Subscriber -> 0..MaxUpdates]
    BY DEF PubSubInv, Base, StateTypes, WalkTypes, Kinds
  <2>4. log \in [Subscriber -> Seq(1..MaxUpdates)]
    <3>1. \A s \in Subscriber : log[s] \in Seq(Nat) /\ \A i \in 1..Len(log[s]) : log[s][i] \in 1..MaxUpdates
      BY DEF PubSubInv, Base, LogInv, WalkTypes
    <3>2. \A s \in Subscriber : log[s] \in Seq(1..MaxUpdates)
      BY <3>1
    <3> QED
      BY <3>2 DEF PubSubInv, Base, LogInv
  <2>5. \A s \in Subscriber : read[s] \in 0..Len(log[s]) /\ Len(log[s]) - read[s] <= BufferLen
    BY DEF PubSubInv, Base, LogInv, ReadInv
  <2>6. /\ sendpc \in {"idle", "invoice", "global"} /\ updates \in Seq(Id)
        /\ held \in Subscriber \cup {None} /\ inserts \in 0..MaxInserts
    BY DEF PubSubInv, Base, StateTypes, WalkTypes
  <2>7. index \in 0..Cardinality(Subscriber)
    <3>1. /\ Cardinality(Subscriber) \in Nat /\ IsFiniteSet(Served)
          /\ Cardinality(Served) <= Cardinality(Subscriber)
      BY FS_Subset, FS_CardinalityType DEF Served
    <3>2. Cardinality(Served) \in Nat
      BY <3>1, FS_CardinalityType
    <3> QED
      BY <3>1, <3>2 DEF PubSubInv, Base, WalkTypes, CountInv
  <2> QED
    BY <2>1, <2>2, <2>3, <2>4, <2>5, <2>6, <2>7, Zenon DEF TypeOK
<1> HIDE DEF ClosedOK
<1> QED
    BY <1>1, <1>2, <1>3, Invariance, PTL DEF Spec

(* A subscriber gets updates in the order of publication, none twice and   *)
(* none of another invoice, whatever comes between the steps of the loop.  *)
THEOREM DeliveredInOrderOnce == Spec => []InOrderOnce
<1>1. PubSubInv => InOrderOnce
  <2> SUFFICES ASSUME PubSubInv PROVE InOrderOnce
    OBVIOUS
  <2>1. \A s \in Subscriber : DOMAIN log[s] = 1..Len(log[s])
    BY DEF PubSubInv, Base, LogInv
  <2>2. \A s \in Subscriber :
           /\ \A i \in 1..Len(log[s]) : kind[s] \in {All, updates[log[s][i]]}
           /\ \A i, j \in 1..Len(log[s]) : i < j => log[s][i] < log[s][j]
    BY DEF PubSubInv, Base, LogInv
  <2> QED
    BY <2>1, <2>2, Zenon DEF InOrderOnce
<1> QED
    BY <1>1, Invariance, PTL

(* A subscriber that is listed has been given every update since it        *)
(* subscribed that concerns it: neither a removal by swap nor a list that  *)
(* is replaced under the loop makes it skip one.                           *)
THEOREM ListedMissesNothing == Spec => []NoUpdateSkipped
<1>1. PubSubInv => NoUpdateSkipped
  <2> SUFFICES ASSUME PubSubInv, sendpc = "idle", NEW s \in Subscriber, Listed(s), NEW n \in DueTo(s)
               PROVE  n \in ToSet(log[s])
    BY Zenon DEF NoUpdateSkipped
  <2>1. \A k \in Kinds : Lists[k] \in Seq(Subscriber)
    BY DEF PubSubInv, Base, ListInv
  <2>2. PICK k \in Kinds : s \in ToSet(Lists[k])
    BY PubSubAssumption DEF Listed, Lists, Kinds, PubSubInv, Base, StateTypes
  <2>3. PICK i \in 1..Len(Lists[k]) : Lists[k][i] = s
    BY <2>1, <2>2 DEF ToSet
  <2>4. s \in Complete
    BY <2>3 DEF PubSubInv, Walk, DueInv
  <2>5. PICK j \in 1..Len(log[s]) : log[s][j] = n
    BY <2>4 DEF Complete
  <2> QED
    BY <2>5 DEF ToSet, PubSubInv, Base, LogInv
<1> QED
    BY <1>1, Invariance, PTL
=============================================================================
