-------------------------- MODULE SubaddressProofs --------------------------
(***************************************************************************)
(* For any number of callers, any cache size and any number of failures    *)
(* and crashes: no two invoices share a subaddress, every scan can         *)
(* recognise the outputs of the invoices that were tracked when it began,  *)
(* and a draw finds the cache empty only where it must.                    *)
(*                                                                         *)
(* The invariant says where a subaddress may be: in the cache, in the hand *)
(* of one caller that creates or removes an invoice, or in the database,   *)
(* and in only one of these places.                                        *)
(***************************************************************************)
EXTENDS SubaddressCache, FiniteSetTheorems, TLAPS

(* The caller has a subaddress that is neither in the cache nor stored.    *)
Held(c) == pc[c] \in {"height", "insert", "return"}

StoredNotAvailable == \A id \in stored : id.sub \notin available

HeldNowhereElse ==
    \A c \in Caller : Held(c) =>
        /\ ident[c].sub \notin available
        /\ \A id \in stored : id.sub # ident[c].sub

HeldByOne == \A c, d \in Caller : (Held(c) /\ Held(d) /\ ident[c].sub = ident[d].sub) => c = d

(* extend_by only adds indices that nobody can have.                       *)
BelowHighest ==
    up => /\ \A s \in available : s <= highest
          /\ \A id \in stored : id.sub <= highest
          /\ \A c \in Caller : Held(c) => ident[c].sub <= highest

DownIsEmpty ==
    ~up => /\ available = {}
           /\ \A c \in Caller : pc[c] = "idle"
           /\ scanpc = "off"

IInv ==
    /\ TypeOK
    /\ UniqueSubaddress
    /\ StoredNotAvailable
    /\ HeldNowhereElse
    /\ HeldByOne
    /\ BelowHighest
    /\ DownIsEmpty

(* The invariant holds before the gateway is first built.                  *)
LEMMA InitIInv == Init => IInv
<1> SUFFICES ASSUME Init PROVE IInv
    OBVIOUS
<1> USE SubaddressAssumption
<1>1. NoId \in InvoiceId /\ 0 \in Minor
    BY DEF InvoiceId, NoId, Minor
<1>2. TypeOK
  <2>1. /\ pc \in [Caller -> {"idle", "height", "insert", "publish", "return", "unpublish"}]
        /\ ident \in [Caller -> InvoiceId]
    BY <1>1 DEF Init
  <2>2. /\ highest \in Minor /\ cachedHeight \in 0..MaxHeight /\ daemon \in 1..MaxHeight
        /\ table \in 0..(MaxMinor + 1) /\ failures \in 0..MaxFailures /\ draws \in 0..MaxInvoices
    BY <1>1 DEF Init
  <2>3. /\ up \in BOOLEAN /\ drawn \in BOOLEAN /\ reused \in BOOLEAN
        /\ available \subseteq Minor
        /\ stored \subseteq InvoiceId /\ published \subseteq InvoiceId
        /\ startIds \subseteq InvoiceId
        /\ scanpc \in {"off", "start", "loop", "scan"}
    BY DEF Init
  <2> QED
    BY <2>1, <2>2, <2>3 DEF TypeOK
<1> QED
    BY <1>2 DEF Init, IInv, UniqueSubaddress, StoredNotAvailable, HeldNowhereElse, HeldByOne,
                BelowHighest, DownIsEmpty, Held

(* SubaddressCache::init: what it makes available is not in the database,  *)
(* and the highest index covers the database.                              *)
LEMMA BuildKeeps == IInv /\ Build => IInv'
<1> SUFFICES ASSUME IInv, Build PROVE IInv'
    OBVIOUS
<1> USE SubaddressAssumption
<1> PICK h \in Minor : /\ IsHighest(h)
                       /\ highest' = h
                       /\ available' = (0..h) \ Subs(stored)
    BY DEF Build
<1>0. ~up /\ \A c \in Caller : ~Held(c)
    BY DEF Build, IInv, DownIsEmpty, Held
<1>1. TypeOK'
    BY DEF Build, IInv, TypeOK, Minor, callVars, loopVars
<1>2. \A id \in stored : id.sub \in Subs(stored) /\ id.sub <= h
    BY DEF IsHighest, Subs
<1>3. UniqueSubaddress' /\ StoredNotAvailable'
    BY <1>2 DEF Build, IInv, UniqueSubaddress, StoredNotAvailable
<1>4. \A c \in Caller : ~Held(c)'
    BY <1>0 DEF Build, callVars, Held
<1>5. HeldNowhereElse' /\ HeldByOne'
    BY <1>4 DEF HeldNowhereElse, HeldByOne
<1>6. BelowHighest'
    BY <1>2, <1>4 DEF BelowHighest, Build, Minor
<1>7. DownIsEmpty'
    BY DEF DownIsEmpty, Build
<1> QED
    BY <1>1, <1>3, <1>5, <1>6, <1>7 DEF IInv

(* remove_random hands out s; what it adds lies above every index in use.  *)
LEMMA RemoveRandomFacts ==
    ASSUME IInv, NEW s, RemoveRandom(s)
    PROVE  /\ s \in available /\ s \notin available'
           /\ highest' \in Minor /\ highest <= highest'
           /\ available' \subseteq Minor
           /\ \A t \in available' : t <= highest' /\ (t \in available \/ t > highest)
<1> USE SubaddressAssumption
<1>1. TypeOK /\ highest \in Minor /\ available \subseteq Minor /\ s \in available
    BY DEF IInv, TypeOK, RemoveRandom
<1>2. up
    BY <1>1 DEF IInv, DownIsEmpty
<1>3. \A t \in available : t <= highest
    BY <1>2 DEF IInv, BelowHighest
<1>4. ExtendedTo \in Minor /\ highest <= ExtendedTo
    BY <1>1 DEF ExtendedTo, Minor
<1>5. CASE Cardinality(available \ {s}) <= MinAvailable
  <2>1. highest' = ExtendedTo /\ available' = (available \ {s}) \cup ((highest + 1)..ExtendedTo)
    BY <1>5, Zenon DEF RemoveRandom
  <2> QED
    BY <1>1, <1>3, <1>4, <2>1 DEF Minor
<1>6. CASE ~(Cardinality(available \ {s}) <= MinAvailable)
  <2>1. highest' = highest /\ available' = available \ {s}
    BY <1>6, Zenon DEF RemoveRandom
  <2> QED
    BY <1>1, <1>3, <2>1 DEF Minor
<1> QED
    BY <1>5, <1>6

(* new_invoice draws a subaddress.                                         *)
LEMMA TakeKeeps ==
    ASSUME IInv, NEW c \in Caller, NEW s \in available, TakeSubaddress(c, s)
    PROVE  IInv'
<1> USE SubaddressAssumption
<1>1. /\ s \in available /\ s \notin available'
      /\ highest' \in Minor /\ highest <= highest'
      /\ available' \subseteq Minor
      /\ \A t \in available' : t <= highest' /\ (t \in available \/ t > highest)
    BY RemoveRandomFacts DEF TakeSubaddress
<1>2. TypeOK /\ up /\ highest \in Minor /\ s \in Minor /\ ~Held(c) /\ s <= highest
    BY DEF IInv, TypeOK, TakeSubaddress, BelowHighest, Held
<1>3. /\ pc' \in [Caller -> {"idle", "height", "insert", "publish", "return", "unpublish"}]
      /\ ident' \in [Caller -> InvoiceId]
      /\ ident'[c].sub = s
      /\ \A d \in Caller \ {c} : pc'[d] = pc[d] /\ ident'[d] = ident[d]
      /\ reused' \in BOOLEAN
  <2>1. CASE cachedHeight # 0
    BY <1>2, <2>1 DEF TakeSubaddress, MakeId, TypeOK, InvoiceId
  <2>2. CASE cachedHeight = 0
    BY <1>2, <2>2 DEF TakeSubaddress, TypeOK, InvoiceId
  <2> QED
    BY <2>1, <2>2
<1>4. up' = up /\ stored' = stored /\ scanpc' = scanpc
    BY DEF TakeSubaddress, loopVars
<1>5. TypeOK'
    BY <1>1, <1>2, <1>3 DEF TypeOK, TakeSubaddress, loopVars
<1>6. UniqueSubaddress'
    BY <1>4 DEF IInv, UniqueSubaddress
<1>7. \A id \in stored : id.sub \in Minor /\ id.sub \notin available /\ id.sub <= highest
    BY <1>2 DEF IInv, TypeOK, StoredNotAvailable, BelowHighest, InvoiceId
<1>8. StoredNotAvailable'
    BY <1>1, <1>2, <1>4, <1>7 DEF StoredNotAvailable, Minor
<1>9. \A d \in Caller \ {c} : Held(d)' => /\ Held(d)
                                          /\ ident'[d].sub = ident[d].sub
                                          /\ ident[d].sub \in Minor
                                          /\ ident[d].sub \notin available
                                          /\ ident[d].sub <= highest
                                          /\ \A id \in stored : id.sub # ident[d].sub
    BY <1>2, <1>3 DEF IInv, TypeOK, Held, HeldNowhereElse, BelowHighest, InvoiceId
<1>10. HeldNowhereElse'
    BY <1>1, <1>2, <1>3, <1>4, <1>7, <1>9 DEF HeldNowhereElse, Minor
<1>11. HeldByOne'
    BY <1>1, <1>3, <1>9 DEF IInv, HeldByOne
<1>12. BelowHighest'
    BY <1>1, <1>2, <1>3, <1>4, <1>7, <1>9 DEF BelowHighest, Minor
<1>13. DownIsEmpty'
    BY <1>2, <1>4 DEF DownIsEmpty
<1> QED
    BY <1>5, <1>6, <1>8, <1>10, <1>11, <1>12, <1>13 DEF IInv

(* The other steps of new_invoice: the subaddress goes from the hand of    *)
(* the caller into the database, or is lost with the call.                 *)
LEMMA CreateKeeps ==
    ASSUME IInv, NEW c \in Caller,
           AskHeight(c) \/ InsertInvoice(c) \/ NewInvoiceFails(c) \/ PublishInvoice(c)
    PROVE  IInv'
<1> USE SubaddressAssumption DEF IInv, cacheVars, callVars, loopVars
<1>1. TypeOK /\ up
    BY DEF DownIsEmpty, AskHeight, InsertInvoice, NewInvoiceFails, PublishInvoice
<1>2. CASE AskHeight(c)
  <2>1. /\ ident' \in [Caller -> InvoiceId]
        /\ \A d \in Caller : ident'[d].sub = ident[d].sub
        /\ \A d \in Caller : Held(d)' => Held(d)
    BY <1>1, <1>2 DEF AskHeight, MakeId, TypeOK, InvoiceId, Held
  <2>2. TypeOK'
    BY <1>1, <1>2, <2>1 DEF AskHeight, MakeId, TypeOK
  <2>3. available' = available /\ highest' = highest /\ stored' = stored /\ up' = up
    BY <1>2 DEF AskHeight
  <2> QED
    BY <1>1, <2>1, <2>2, <2>3 DEF UniqueSubaddress, StoredNotAvailable, HeldNowhereElse, HeldByOne,
                                  BelowHighest, DownIsEmpty
<1>3. CASE InsertInvoice(c)
  <2>1. /\ TypeOK'
        /\ ~Held(c)'
        /\ \A d \in Caller \ {c} : Held(d)' => Held(d)
    BY <1>1, <1>3 DEF InsertInvoice, TypeOK, Held
  <2>2. Held(c) /\ ident[c].sub \notin available /\ ident[c].sub <= highest
        /\ \A id \in stored : id.sub # ident[c].sub
    BY <1>1, <1>3 DEF InsertInvoice, Held, HeldNowhereElse, BelowHighest
  <2>3. /\ available' = available /\ highest' = highest /\ up' = up /\ ident' = ident
        /\ stored' = stored \cup {ident[c]}
    BY <1>3 DEF InsertInvoice
  <2>4. UniqueSubaddress' /\ StoredNotAvailable'
    BY <2>2, <2>3 DEF UniqueSubaddress, StoredNotAvailable
  <2>5. HeldNowhereElse' /\ HeldByOne'
    BY <2>1, <2>2, <2>3 DEF HeldNowhereElse, HeldByOne
  <2>6. BelowHighest' /\ DownIsEmpty'
    BY <1>1, <2>1, <2>2, <2>3 DEF BelowHighest, DownIsEmpty
  <2> QED
    BY <2>1, <2>4, <2>5, <2>6
<1>4. CASE NewInvoiceFails(c) \/ PublishInvoice(c)
  <2>1. /\ ident' \in [Caller -> InvoiceId]
        /\ ~Held(c)'
        /\ \A d \in Caller \ {c} : ident'[d] = ident[d] /\ (Held(d)' => Held(d))
    <3>1. NoId \in InvoiceId
      BY DEF NoId, InvoiceId, Minor
    <3>2. Finish(c)
      BY <1>4 DEF NewInvoiceFails, PublishInvoice
    <3> QED
      BY <1>1, <3>1, <3>2 DEF Finish, TypeOK, Held
  <2>2. TypeOK'
    <3>1. CASE NewInvoiceFails(c)
      BY <1>1, <2>1, <3>1 DEF NewInvoiceFails, Finish, Fail, TypeOK
    <3>2. CASE PublishInvoice(c)
      BY <1>1, <2>1, <3>2 DEF PublishInvoice, Finish, TypeOK
    <3> QED
      BY <1>4, <3>1, <3>2
  <2>3. available' = available /\ highest' = highest /\ stored' = stored /\ up' = up
    BY <1>4 DEF NewInvoiceFails, PublishInvoice
  <2>4. UniqueSubaddress' /\ StoredNotAvailable'
    BY <2>3 DEF UniqueSubaddress, StoredNotAvailable
  <2>5. HeldNowhereElse' /\ HeldByOne'
    BY <2>1, <2>3 DEF HeldNowhereElse, HeldByOne
  <2>6. BelowHighest' /\ DownIsEmpty'
    BY <1>1, <2>1, <2>3 DEF BelowHighest, DownIsEmpty
  <2> QED
    BY <2>2, <2>4, <2>5, <2>6
<1> QED
    BY <1>2, <1>3, <1>4

(* remove_invoice: the subaddress goes from the database into the hand of  *)
(* the caller and from there into the cache.                               *)
LEMMA RemoveKeeps ==
    ASSUME IInv, NEW c \in Caller,
           (\E id \in stored : RemoveInvoice(c, id)) \/ ReturnSubaddress(c) \/ Unpublish(c)
    PROVE  IInv'
<1> USE SubaddressAssumption DEF IInv, cacheVars, callVars, loopVars
<1>1. TypeOK /\ up
    BY DEF DownIsEmpty, RemoveInvoice, ReturnSubaddress, Unpublish
<1>2. ASSUME NEW id \in stored, RemoveInvoice(c, id)
      PROVE  IInv'
  <2>1. /\ ident' \in [Caller -> InvoiceId]
        /\ ident'[c] = id
        /\ \A d \in Caller \ {c} : ident'[d] = ident[d] /\ (Held(d)' => Held(d))
    BY <1>1, <1>2 DEF RemoveInvoice, TypeOK, Held
  <2>2. TypeOK'
    BY <1>1, <1>2, <2>1 DEF RemoveInvoice, TypeOK
  <2>3. /\ available' = available /\ highest' = highest /\ up' = up
        /\ stored' = stored \ {id}
    BY <1>2 DEF RemoveInvoice
  <2>4. UniqueSubaddress' /\ StoredNotAvailable'
    BY <2>3 DEF UniqueSubaddress, StoredNotAvailable
  <2>5. /\ id.sub \notin available
        /\ \A other \in stored \ {id} : other.sub # id.sub
        /\ \A d \in Caller : Held(d) => ident[d].sub # id.sub
    BY DEF UniqueSubaddress, StoredNotAvailable, HeldNowhereElse
  <2>6. HeldNowhereElse' /\ HeldByOne'
    BY <2>1, <2>3, <2>5 DEF HeldNowhereElse, HeldByOne
  <2>7. BelowHighest' /\ DownIsEmpty'
    BY <1>1, <2>1, <2>3 DEF BelowHighest, DownIsEmpty
  <2> QED
    BY <2>2, <2>4, <2>6, <2>7
<1>3. CASE ReturnSubaddress(c)
  <2>1. /\ TypeOK'
        /\ ~Held(c)'
        /\ \A d \in Caller \ {c} : Held(d)' => Held(d)
    BY <1>1, <1>3 DEF ReturnSubaddress, TypeOK, Held, InvoiceId
  <2>2. Held(c) /\ ident[c].sub <= highest /\ \A id \in stored : id.sub # ident[c].sub
    BY <1>1, <1>3 DEF ReturnSubaddress, Held, HeldNowhereElse, BelowHighest
  <2>3. /\ available' = available \cup {ident[c].sub}
        /\ stored' = stored /\ highest' = highest /\ up' = up /\ ident' = ident
    BY <1>3 DEF ReturnSubaddress
  <2>4. UniqueSubaddress' /\ StoredNotAvailable'
    BY <2>2, <2>3 DEF UniqueSubaddress, StoredNotAvailable
  <2>5. HeldNowhereElse' /\ HeldByOne'
    BY <2>1, <2>2, <2>3 DEF HeldNowhereElse, HeldByOne
  <2>6. BelowHighest' /\ DownIsEmpty'
    BY <1>1, <2>1, <2>2, <2>3 DEF BelowHighest, DownIsEmpty
  <2> QED
    BY <2>1, <2>4, <2>5, <2>6
<1>4. CASE Unpublish(c)
  <2>1. /\ ident' \in [Caller -> InvoiceId]
        /\ ~Held(c)'
        /\ \A d \in Caller \ {c} : ident'[d] = ident[d] /\ (Held(d)' => Held(d))
    BY <1>1, <1>4 DEF Unpublish, Finish, TypeOK, NoId, InvoiceId, Held, Minor
  <2>2. TypeOK'
    BY <1>1, <1>4, <2>1 DEF Unpublish, Finish, TypeOK
  <2>3. available' = available /\ highest' = highest /\ stored' = stored /\ up' = up
    BY <1>4 DEF Unpublish
  <2>4. UniqueSubaddress' /\ StoredNotAvailable'
    BY <2>3 DEF UniqueSubaddress, StoredNotAvailable
  <2>5. HeldNowhereElse' /\ HeldByOne'
    BY <2>1, <2>3 DEF HeldNowhereElse, HeldByOne
  <2>6. BelowHighest' /\ DownIsEmpty'
    BY <1>1, <2>1, <2>3 DEF BelowHighest, DownIsEmpty
  <2> QED
    BY <2>2, <2>4, <2>5, <2>6
<1> QED
    BY <1>2, <1>3, <1>4

(* The scan loop and the daemon leave subaddresses where they are.         *)
LEMMA LoopKeeps ==
    ASSUME IInv, StartRun \/ SpawnLoop \/ BeginScan \/ EndScan \/ StopLoop \/ NewBlock
    PROVE  IInv'
<1> USE SubaddressAssumption DEF IInv, cacheVars, callVars, loopVars
<1>1. TypeOK /\ (scanpc # "off" => up)
    BY DEF DownIsEmpty
<1>2. /\ available' = available /\ highest' = highest /\ stored' = stored
      /\ up' = up /\ pc' = pc /\ ident' = ident
    BY DEF StartRun, SpawnLoop, BeginScan, EndScan, StopLoop, NewBlock
<1>3. TypeOK'
  <2>1. CASE StartRun
    BY <1>1, <2>1 DEF TypeOK, StartRun
  <2>2. CASE SpawnLoop
    BY <1>1, <2>2 DEF TypeOK, SpawnLoop, Minor
  <2>3. CASE BeginScan
    BY <1>1, <2>3 DEF TypeOK, BeginScan, RefreshChecker, Minor
  <2>4. CASE EndScan
    BY <1>1, <2>4 DEF TypeOK, EndScan
  <2>5. CASE StopLoop
    BY <1>1, <2>5 DEF TypeOK, StopLoop, Fail
  <2>6. CASE NewBlock
    BY <1>1, <2>6 DEF TypeOK, NewBlock
  <2> QED
    BY <2>1, <2>2, <2>3, <2>4, <2>5, <2>6
<1>4. \A c \in Caller : Held(c)' <=> Held(c)
    BY <1>2 DEF Held
<1>5. UniqueSubaddress' /\ StoredNotAvailable' /\ HeldNowhereElse' /\ HeldByOne' /\ BelowHighest'
    BY <1>2, <1>4 DEF UniqueSubaddress, StoredNotAvailable, HeldNowhereElse, HeldByOne, BelowHighest
<1>6. DownIsEmpty'
    BY <1>1, <1>2 DEF DownIsEmpty, StartRun, SpawnLoop, BeginScan, EndScan, StopLoop, NewBlock
<1> QED
    BY <1>3, <1>5, <1>6

(* The panic of new_invoice leaves everything as it was.                   *)
LEMMA PanicKeeps ==
    ASSUME IInv, NEW c \in Caller, DrawFromEmpty(c)
    PROVE  IInv'
<1> USE SubaddressAssumption DEF IInv, cacheVars, callVars, loopVars
<1>1. TypeOK'
    BY DEF TypeOK, DrawFromEmpty
<1>2. /\ available' = available /\ highest' = highest /\ stored' = stored
      /\ up' = up /\ pc' = pc /\ ident' = ident /\ scanpc' = scanpc
    BY DEF DrawFromEmpty
<1>3. \A d \in Caller : Held(d)' <=> Held(d)
    BY <1>2 DEF Held
<1>4. UniqueSubaddress' /\ StoredNotAvailable' /\ HeldNowhereElse' /\ HeldByOne' /\ BelowHighest'
    BY <1>2, <1>3 DEF UniqueSubaddress, StoredNotAvailable, HeldNowhereElse, HeldByOne, BelowHighest
<1>5. DownIsEmpty'
    BY <1>2 DEF DownIsEmpty
<1> QED
    BY <1>1, <1>4, <1>5

(* A crash leaves the database; every hand and the cache are empty.        *)
LEMMA CrashKeeps == IInv /\ Crash => IInv'
<1> SUFFICES ASSUME IInv, Crash PROVE IInv'
    OBVIOUS
<1> USE SubaddressAssumption
<1>0. NoId \in InvoiceId /\ 0 \in Minor
    BY DEF InvoiceId, NoId, Minor
<1>1. TypeOK'
  <2>1. /\ pc' \in [Caller -> {"idle", "height", "insert", "publish", "return", "unpublish"}]
        /\ ident' \in [Caller -> InvoiceId]
    BY <1>0 DEF Crash
  <2>2. /\ highest' \in Minor /\ cachedHeight' \in 0..MaxHeight /\ daemon' \in 1..MaxHeight
        /\ table' \in 0..(MaxMinor + 1) /\ failures' \in 0..MaxFailures
        /\ draws' \in 0..MaxInvoices
    BY <1>0 DEF Crash, Fail, IInv, TypeOK
  <2>3. /\ up' \in BOOLEAN /\ drawn' \in BOOLEAN /\ reused' \in BOOLEAN
        /\ available' \subseteq Minor
        /\ stored' \subseteq InvoiceId /\ published' \subseteq InvoiceId
        /\ startIds' \subseteq InvoiceId
        /\ scanpc' \in {"off", "start", "loop", "scan"}
    BY DEF Crash, IInv, TypeOK
  <2> QED
    BY <2>1, <2>2, <2>3 DEF TypeOK
<1>2. \A c \in Caller : ~Held(c)'
    BY DEF Crash, Held
<1> QED
    BY <1>1, <1>2 DEF IInv, Crash, UniqueSubaddress, StoredNotAvailable, HeldNowhereElse,
                      HeldByOne, BelowHighest, DownIsEmpty

(* Every step keeps the invariant.                                         *)
LEMMA StepIInv == IInv /\ [Next]_vars => IInv'
<1> SUFFICES ASSUME IInv, [Next]_vars PROVE IInv'
    OBVIOUS
<1>1. CASE UNCHANGED vars
    BY <1>1 DEF vars, cacheVars, callVars, loopVars, IInv, TypeOK, UniqueSubaddress,
                StoredNotAvailable, HeldNowhereElse, HeldByOne, BelowHighest, DownIsEmpty, Held
<1>2. CASE Next
    BY <1>2, BuildKeeps, TakeKeeps, PanicKeeps, CreateKeeps, RemoveKeeps, LoopKeeps, CrashKeeps
       DEF Next
<1> QED
    BY <1>1, <1>2

(* The inductive invariant holds in every reachable state.                 *)
THEOREM Invariance == Spec => []IInv
    BY InitIInv, StepIInv, PTL DEF Spec

(* remove_random, new_invoice and remove_invoice never give one subaddress *)
(* to two invoices, however many callers there are and whatever fails.     *)
THEOREM NoSharedSubaddress == Spec => []UniqueSubaddress
<1>1. IInv => UniqueSubaddress
    BY DEF IInv
<1> QED
    BY <1>1, Invariance, PTL

(* The scan loop's check of the table against highest_minor_index suffices *)
(* for the invoices that are tracked when a scan begins.                   *)
THEOREM ScanCovers == Spec => CheckerCovers
<1>1. ASSUME IInv, [Next]_vars, scanpc # "scan", scanpc' = "scan", NEW s \in Subs(stored)
      PROVE  s < table'
  <2>1. BeginScan
    BY <1>1 DEF Next, vars, Build, TakeSubaddress, DrawFromEmpty, AskHeight, InsertInvoice,
                NewInvoiceFails, PublishInvoice, RemoveInvoice, ReturnSubaddress, Unpublish,
                StartRun, SpawnLoop, EndScan, StopLoop, Crash, NewBlock, loopVars
  <2>2. up /\ highest \in Nat /\ table \in Nat
    BY <1>1, <2>1, SubaddressAssumption DEF BeginScan, IInv, DownIsEmpty, TypeOK, Minor
  <2>3. s \in Nat /\ s <= highest
    BY <1>1, <2>2, SubaddressAssumption DEF Subs, IInv, BelowHighest, TypeOK, InvoiceId, Minor
  <2> QED
    BY <2>1, <2>2, <2>3 DEF BeginScan, RefreshChecker
<1>2. IInv /\ [Next]_vars =>
        [(scanpc # "scan" /\ scanpc' = "scan") => \A s \in Subs(stored) : s < table']_vars
    BY <1>1
<1> QED
    BY <1>2, Invariance, PTL DEF Spec, CheckerCovers

-----------------------------------------------------------------------------
(***************************************************************************)
(* The types hold, new_invoice finds no subaddress only when they are used *)
(* up, and what is tracked can be subscribed to.                           *)
(***************************************************************************)
(* Every variable keeps to its range, MaxMinor and all bounds included.    *)
THEOREM TypeCorrect == Spec => []TypeOK
<1>1. IInv => TypeOK
    BY DEF IInv
<1> QED
    BY <1>1, Invariance, PTL

DrawnWhileUp == drawn => up

(* Once a draw has succeeded, remove_random leaves enough to draw from     *)
(* until the indices run out.                                              *)
EnoughToDraw == (up /\ drawn /\ highest < MaxMinor) => Cardinality(available) >= MinAvailable

(* Before the first draw nothing is lost: an index that is not available   *)
(* belongs to an invoice.                                                  *)
Placed == (up /\ ~drawn) => \A s \in 0..highest : s \in available \/ InUse(s)

Supply == DrawnWhileUp /\ EnoughToDraw /\ Placed

(* What is available is a finite set.                                      *)
LEMMA FiniteSupply ==
    ASSUME NEW S \in SUBSET Minor
    PROVE  IsFiniteSet(S) /\ Cardinality(S) \in Nat
<1>1. IsFiniteSet(Minor)
    BY FS_Interval, SubaddressAssumption DEF Minor
<1>2. IsFiniteSet(S)
    BY <1>1, FS_Subset
<1> QED
    BY <1>2, FS_CardinalityType

(* After remove_random there is enough to draw from, however little there  *)
(* was before.                                                             *)
LEMMA RemoveRandomSupplies ==
    ASSUME TypeOK, TypeOK', NEW s, RemoveRandom(s), highest' < MaxMinor
    PROVE  Cardinality(available') >= MinAvailable
<1> USE SubaddressAssumption
<1> DEFINE rest == available \ {s}
<1>1. /\ available \subseteq Minor /\ available' \subseteq Minor
      /\ highest \in Nat /\ highest <= MaxMinor
    BY DEF TypeOK, Minor
<1>2. IsFiniteSet(available') /\ Cardinality(available') \in Nat
    BY <1>1, FiniteSupply
<1>3. Cardinality(rest) \in Nat
    BY <1>1, FiniteSupply
<1>4. CASE Cardinality(rest) <= MinAvailable
  <2>1. highest' = ExtendedTo /\ available' = rest \cup ((highest + 1)..ExtendedTo)
    BY <1>4, Zenon DEF RemoveRandom
  <2>2. ExtendedTo = highest + MinAvailable
    BY <1>1, <2>1 DEF ExtendedTo
  <2>3. Cardinality((highest + 1)..(highest + MinAvailable)) = MinAvailable
    <3>1. highest + 1 \in Int /\ highest + MinAvailable \in Int /\ ~(highest + 1 > highest + MinAvailable)
      BY <1>1
    <3>2. Cardinality((highest + 1)..(highest + MinAvailable))
            = (highest + MinAvailable) - (highest + 1) + 1
      BY <3>1, FS_Interval
    <3> QED
      BY <1>1, <3>2
  <2>4. (highest + 1)..(highest + MinAvailable) \in SUBSET available'
    BY <2>1, <2>2
  <2>5. Cardinality((highest + 1)..(highest + MinAvailable)) <= Cardinality(available')
    BY <1>2, <2>4, FS_Subset
  <2> QED
    BY <1>2, <2>3, <2>5
<1>5. CASE ~(Cardinality(rest) <= MinAvailable)
  <2>1. available' = rest
    BY <1>5, Zenon DEF RemoveRandom
  <2> QED
    BY <1>3, <1>5, <2>1
<1> QED
    BY <1>4, <1>5

(* An index that is not available stays with its invoice, or with the      *)
(* caller that removes the invoice, until it is put back.                  *)
LEMMA StepPlaced == IInv /\ DrawnWhileUp /\ Placed /\ [Next]_vars => Placed'
<1> SUFFICES ASSUME IInv, DrawnWhileUp, Placed, [Next]_vars, up', ~drawn',
                    NEW s \in 0..highest'
             PROVE  s \in available' \/ InUse(s)'
    BY DEF Placed
<1> USE DEF cacheVars, callVars, loopVars
<1>1. /\ pc \in [Caller -> {"idle", "height", "insert", "publish", "return", "unpublish"}]
      /\ ident \in [Caller -> InvoiceId]
    BY DEF IInv, TypeOK
<1>2. CASE Build
  <2>1. available' = (0..highest') \ Subs(stored) /\ stored' = stored
    BY <1>2 DEF Build
  <2>2. s \in Subs(stored) => s \in Subs(stored')
    BY <2>1 DEF Subs
  <2> QED
    BY <2>1, <2>2 DEF InUse
<1>3. ASSUME UNCHANGED <<up, drawn, highest>>
      PROVE  s \in available \/ InUse(s)
    BY <1>3 DEF Placed
<1>4. ASSUME NEW c \in Caller, NEW id \in stored, RemoveInvoice(c, id)
      PROVE  s \in available' \/ InUse(s)'
  <2>1. s \in available \/ InUse(s)
    BY <1>3, <1>4 DEF RemoveInvoice
  <2>2. /\ available' = available /\ stored' = stored \ {id}
        /\ pc[c] = "idle" /\ pc'[c] = "return" /\ ident'[c] = id
        /\ \A d \in Caller \ {c} : pc'[d] = pc[d] /\ ident'[d] = ident[d]
    BY <1>1, <1>4 DEF RemoveInvoice
  <2> QED
    BY <2>1, <2>2 DEF InUse, Subs
<1>5. ASSUME NEW c \in Caller, ReturnSubaddress(c)
      PROVE  s \in available' \/ InUse(s)'
  <2>1. s \in available \/ InUse(s)
    BY <1>3, <1>5 DEF ReturnSubaddress
  <2>2. /\ available' = available \cup {ident[c].sub} /\ stored' = stored /\ ident' = ident
        /\ \A d \in Caller \ {c} : pc'[d] = pc[d]
    BY <1>1, <1>5 DEF ReturnSubaddress
  <2>3. Subs(stored') = Subs(stored)
    BY <2>2 DEF Subs
  <2> QED
    BY <2>1, <2>2, <2>3 DEF InUse
<1>6. ASSUME UNCHANGED <<up, drawn, highest, available>>, stored \subseteq stored',
             \A c \in Caller : pc[c] = "return" => pc'[c] = "return" /\ ident'[c] = ident[c]
      PROVE  s \in available' \/ InUse(s)'
  <2>1. s \in available \/ InUse(s)
    BY <1>3, <1>6
  <2>2. Subs(stored) \subseteq Subs(stored')
    BY <1>6 DEF Subs
  <2> QED
    BY <1>6, <2>1, <2>2 DEF InUse
<1>7. ASSUME NEW c \in Caller,
             \/ AskHeight(c) \/ InsertInvoice(c) \/ NewInvoiceFails(c) \/ PublishInvoice(c)
             \/ Unpublish(c)
      PROVE  s \in available' \/ InUse(s)'
  <2>1. UNCHANGED <<up, drawn, highest, available>> /\ stored \subseteq stored'
    BY <1>7 DEF AskHeight, InsertInvoice, NewInvoiceFails, PublishInvoice, Unpublish
  <2>2. /\ pc[c] # "return"
        /\ \A d \in Caller \ {c} : pc'[d] = pc[d] /\ ident'[d] = ident[d]
    BY <1>1, <1>7 DEF AskHeight, MakeId, InsertInvoice, NewInvoiceFails, PublishInvoice,
                      Unpublish, Finish
  <2> QED
    BY <1>6, <2>1, <2>2
<1>8. CASE \/ StartRun \/ SpawnLoop \/ BeginScan \/ EndScan \/ StopLoop \/ NewBlock
           \/ (\E c \in Caller : DrawFromEmpty(c)) \/ UNCHANGED vars
  <2>1. UNCHANGED <<up, drawn, highest, available, stored, pc, ident>>
    BY <1>8 DEF StartRun, SpawnLoop, BeginScan, EndScan, StopLoop, NewBlock, DrawFromEmpty, vars
  <2> QED
    BY <1>6, <2>1
<1>9. ~Crash /\ \A c \in Caller, t \in available : ~TakeSubaddress(c, t)
    BY DEF Crash, TakeSubaddress
<1> QED
    BY <1>2, <1>4, <1>5, <1>7, <1>8, <1>9 DEF Next

(* Draws extend the supply, removals add to it, nothing else changes it    *)
(* while the gateway is up.                                                *)
LEMMA StepSupply == IInv /\ IInv' /\ Supply /\ [Next]_vars => Supply'
<1> SUFFICES ASSUME IInv, IInv', Supply, [Next]_vars PROVE Supply'
    OBVIOUS
<1>0. Placed'
    BY StepPlaced DEF Supply
<1> SUFFICES (DrawnWhileUp /\ EnoughToDraw)'
    BY <1>0 DEF Supply
<1> USE SubaddressAssumption DEF Supply
<1>1. TypeOK /\ TypeOK'
    BY DEF IInv
<1>2. CASE Build
    BY <1>2 DEF Build, DrawnWhileUp, EnoughToDraw
<1>3. ASSUME NEW c \in Caller, NEW s \in available, TakeSubaddress(c, s)
      PROVE  (DrawnWhileUp /\ EnoughToDraw)'
  <2>1. RemoveRandom(s) /\ up' = up /\ up
    BY <1>3 DEF TakeSubaddress
  <2>2. highest' < MaxMinor => Cardinality(available') >= MinAvailable
    BY <1>1, <2>1, RemoveRandomSupplies
  <2> QED
    BY <2>1, <2>2 DEF DrawnWhileUp, EnoughToDraw
<1>4. ASSUME NEW c \in Caller, ReturnSubaddress(c)
      PROVE  (DrawnWhileUp /\ EnoughToDraw)'
  <2>1. /\ available \in SUBSET available'
        /\ up' = up /\ drawn' = drawn /\ highest' = highest
    BY <1>4 DEF ReturnSubaddress
  <2>2. /\ IsFiniteSet(available') /\ Cardinality(available') \in Nat
        /\ Cardinality(available) \in Nat
    BY <1>1, FiniteSupply DEF TypeOK
  <2>3. Cardinality(available) <= Cardinality(available')
    BY <2>1, <2>2, FS_Subset
  <2> QED
    BY <2>1, <2>2, <2>3 DEF DrawnWhileUp, EnoughToDraw
<1>5. CASE Crash
    BY <1>5 DEF Crash, DrawnWhileUp, EnoughToDraw
<1>6. ASSUME /\ available' = available /\ highest' = highest
             /\ up' = up /\ drawn' = drawn
      PROVE  (DrawnWhileUp /\ EnoughToDraw)'
    BY <1>6 DEF DrawnWhileUp, EnoughToDraw
<1>7. CASE \/ StartRun \/ SpawnLoop \/ BeginScan \/ EndScan \/ StopLoop \/ NewBlock
           \/ UNCHANGED vars
    BY <1>6, <1>7 DEF StartRun, SpawnLoop, BeginScan, EndScan, StopLoop, NewBlock, vars, cacheVars
<1>8. ASSUME NEW c \in Caller,
             \/ AskHeight(c) \/ InsertInvoice(c) \/ NewInvoiceFails(c) \/ PublishInvoice(c)
             \/ Unpublish(c) \/ (\E id \in stored : RemoveInvoice(c, id)) \/ DrawFromEmpty(c)
      PROVE  (DrawnWhileUp /\ EnoughToDraw)'
    BY <1>6, <1>8 DEF AskHeight, InsertInvoice, NewInvoiceFails, PublishInvoice, Unpublish,
                      RemoveInvoice, DrawFromEmpty, cacheVars
<1> QED
    BY <1>2, <1>3, <1>4, <1>5, <1>7, <1>8 DEF Next

(* random_index panics on an empty map, and the map is empty only when the *)
(* minor indices have run out, or when no draw has succeeded since the     *)
(* gateway was built on a database that uses every index up to its highest *)
(* one: remove_random and extend_by exclude every other case.              *)
THEOREM EmptyOnlyWhenUsedUp == Spec => PanicsOnlyWhenUsedUp
<1> DEFINE UsedUp == highest = MaxMinor \/ (~drawn /\ \A s \in 0..highest : InUse(s))
<1>1. Init => Supply
    BY DEF Init, Supply, DrawnWhileUp, EnoughToDraw, Placed
<1>2. ASSUME IInv, Supply, [Next]_vars, draws' # draws, pc' = pc
      PROVE  UsedUp
  <2>1. PICK c \in Caller : DrawFromEmpty(c)
    <3>1. \A c \in Caller, s \in available : ~TakeSubaddress(c, s)
      BY <1>2 DEF TakeSubaddress, IInv, TypeOK
    <3> QED
      BY <1>2, <3>1 DEF Next, vars, Build, AskHeight, InsertInvoice, NewInvoiceFails,
                        PublishInvoice, RemoveInvoice, ReturnSubaddress, Unpublish, StartRun,
                        SpawnLoop, BeginScan, EndScan, StopLoop, Crash, NewBlock
  <2>2. up /\ available = {} /\ highest \in 0..MaxMinor
    BY <1>2, <2>1 DEF DrawFromEmpty, IInv, TypeOK, Minor
  <2>3. CASE drawn
    <3>1. Cardinality(available) = 0
      BY <2>2, FS_EmptySet
    <3> QED
      BY <1>2, <2>2, <2>3, <3>1, SubaddressAssumption DEF Supply, EnoughToDraw
  <2>4. CASE ~drawn
    BY <1>2, <2>2, <2>4 DEF Supply, Placed
  <2> QED
    BY <2>3, <2>4
<1>3. IInv /\ Supply /\ [Next]_vars => [(draws' # draws /\ pc' = pc) => UsedUp]_vars
    BY <1>2
<1> QED
    BY <1>1, <1>3, StepSupply, Invariance, PTL DEF Spec, PanicsOnlyWhenUsedUp

(* When no id was made anew while it was being removed: the ids on their   *)
(* way out of the publisher are not in the database and on nobody's way    *)
(* there, and while the loop runs every id in the database is published,   *)
(* about to be, or on the list that Scanner::new has read.                 *)
GoneStaysGone ==
    \A c \in Caller : pc[c] = "unpublish" =>
        /\ ident[c] \notin stored
        /\ \A d \in Caller : pc[d] = "insert" => ident[d] # ident[c]

Announced(id) ==
    \/ id \in published
    \/ scanpc = "start" /\ id \in startIds
    \/ \E c \in Caller : pc[c] = "publish" /\ ident[c] = id

AllAnnounced == scanpc # "off" => \A id \in stored : Announced(id)

Listing == ~reused => GoneStaysGone /\ AllAnnounced

(* The steps of the calls, one after the other.                            *)
LEMMA CallListing ==
    ASSUME IInv, Listing, NEW c \in Caller,
           \/ \E s \in available : TakeSubaddress(c, s)
           \/ AskHeight(c) \/ InsertInvoice(c) \/ NewInvoiceFails(c) \/ PublishInvoice(c)
           \/ (\E id \in stored : RemoveInvoice(c, id)) \/ ReturnSubaddress(c) \/ Unpublish(c),
           ~reused'
    PROVE  (GoneStaysGone /\ AllAnnounced)'
<1> USE DEF loopVars
<1>1. pc \in [Caller -> {"idle", "height", "insert", "publish", "return", "unpublish"}]
      /\ ident \in [Caller -> InvoiceId]
    BY DEF IInv, TypeOK
<1>2. ~reused
    BY DEF TakeSubaddress, MakeId, AskHeight, InsertInvoice, NewInvoiceFails, PublishInvoice,
           RemoveInvoice, ReturnSubaddress, Unpublish
<1>3. GoneStaysGone /\ AllAnnounced
    BY <1>2 DEF Listing
<1>4. ASSUME NEW s \in available, TakeSubaddress(c, s)
      PROVE  (GoneStaysGone /\ AllAnnounced)'
  <2>1. /\ pc[c] = "idle" /\ pc'[c] \in {"insert", "height"}
        /\ \A d \in Caller \ {c} : pc'[d] = pc[d] /\ ident'[d] = ident[d]
        /\ pc'[c] = "insert" =>
             \A d \in Caller : pc[d] = "unpublish" => ident[d] # ident'[c]
    BY <1>1, <1>4 DEF TakeSubaddress, MakeId
  <2>2. stored' = stored /\ published' = published /\ scanpc' = scanpc /\ startIds' = startIds
    BY <1>4 DEF TakeSubaddress
  <2>3. GoneStaysGone'
    BY <1>3, <2>1, <2>2 DEF GoneStaysGone
  <2> QED
    BY <1>3, <2>1, <2>2, <2>3 DEF AllAnnounced, Announced
<1>5. CASE AskHeight(c)
  <2>1. /\ pc[c] = "height" /\ pc'[c] = "insert"
        /\ \A d \in Caller \ {c} : pc'[d] = pc[d] /\ ident'[d] = ident[d]
        /\ \A d \in Caller : pc[d] = "unpublish" => ident[d] # ident'[c]
    BY <1>1, <1>5 DEF AskHeight, MakeId
  <2>2. stored' = stored /\ published' = published /\ scanpc' = scanpc /\ startIds' = startIds
    BY <1>5 DEF AskHeight
  <2>3. GoneStaysGone'
    BY <1>3, <2>1, <2>2 DEF GoneStaysGone
  <2> QED
    BY <1>3, <2>1, <2>2, <2>3 DEF AllAnnounced, Announced
<1>6. CASE InsertInvoice(c)
  <2>1. /\ pc[c] = "insert" /\ pc'[c] = "publish"
        /\ \A d \in Caller \ {c} : pc'[d] = pc[d]
        /\ ident' = ident /\ stored' = stored \cup {ident[c]}
        /\ published' = published /\ scanpc' = scanpc /\ startIds' = startIds
    BY <1>1, <1>6 DEF InsertInvoice
  <2>2. GoneStaysGone'
    BY <1>3, <2>1 DEF GoneStaysGone
  <2> QED
    BY <1>3, <2>1, <2>2 DEF AllAnnounced, Announced
<1>7. CASE NewInvoiceFails(c)
  <2>1. /\ pc[c] \in {"height", "insert"} /\ pc'[c] = "idle"
        /\ \A d \in Caller \ {c} : pc'[d] = pc[d] /\ ident'[d] = ident[d]
        /\ stored' = stored
        /\ published' = published /\ scanpc' = scanpc /\ startIds' = startIds
    BY <1>1, <1>7 DEF NewInvoiceFails, Finish
  <2>2. GoneStaysGone'
    BY <1>3, <2>1 DEF GoneStaysGone
  <2> QED
    BY <1>3, <2>1, <2>2 DEF AllAnnounced, Announced
<1>8. CASE PublishInvoice(c)
  <2>1. /\ pc[c] = "publish" /\ pc'[c] = "idle"
        /\ \A d \in Caller \ {c} : pc'[d] = pc[d] /\ ident'[d] = ident[d]
        /\ stored' = stored
        /\ published' = published \cup {ident[c]} /\ scanpc' = scanpc /\ startIds' = startIds
    BY <1>1, <1>8 DEF PublishInvoice, Finish
  <2>2. GoneStaysGone'
    BY <1>3, <2>1 DEF GoneStaysGone
  <2> QED
    BY <1>3, <2>1, <2>2 DEF AllAnnounced, Announced
<1>9. ASSUME NEW id \in stored, RemoveInvoice(c, id)
      PROVE  (GoneStaysGone /\ AllAnnounced)'
  <2>1. /\ pc[c] = "idle" /\ pc'[c] = "return"
        /\ \A d \in Caller \ {c} : pc'[d] = pc[d] /\ ident'[d] = ident[d]
        /\ stored' = stored \ {id}
        /\ published' = published /\ scanpc' = scanpc /\ startIds' = startIds
    BY <1>1, <1>9 DEF RemoveInvoice
  <2>2. GoneStaysGone'
    BY <1>3, <2>1 DEF GoneStaysGone
  <2> QED
    BY <1>3, <2>1, <2>2 DEF AllAnnounced, Announced
<1>10. CASE ReturnSubaddress(c)
  <2>1. /\ pc[c] = "return" /\ pc'[c] = "unpublish"
        /\ \A d \in Caller \ {c} : pc'[d] = pc[d]
        /\ ident' = ident /\ stored' = stored
        /\ published' = published /\ scanpc' = scanpc /\ startIds' = startIds
    BY <1>1, <1>10 DEF ReturnSubaddress
  <2>2. /\ ident[c] \notin stored
        /\ \A d \in Caller : pc[d] = "insert" => ident[d] # ident[c]
    BY <2>1 DEF IInv, HeldNowhereElse, HeldByOne, Held
  <2>3. GoneStaysGone'
    BY <1>3, <2>1, <2>2 DEF GoneStaysGone
  <2> QED
    BY <1>3, <2>1, <2>3 DEF AllAnnounced, Announced
<1>11. CASE Unpublish(c)
  <2>1. /\ pc[c] = "unpublish" /\ pc'[c] = "idle"
        /\ \A d \in Caller \ {c} : pc'[d] = pc[d] /\ ident'[d] = ident[d]
        /\ stored' = stored
        /\ published' = published \ {ident[c]} /\ scanpc' = scanpc /\ startIds' = startIds
    BY <1>1, <1>11 DEF Unpublish, Finish
  <2>2. GoneStaysGone'
    BY <1>3, <2>1 DEF GoneStaysGone
  <2>3. ident[c] \notin stored
    BY <1>3, <2>1 DEF GoneStaysGone
  <2> QED
    BY <1>3, <2>1, <2>2, <2>3 DEF AllAnnounced, Announced
<1> QED
    BY <1>4, <1>5, <1>6, <1>7, <1>8, <1>9, <1>10, <1>11

(* Every step keeps the listing.                                           *)
LEMMA StepListing == IInv /\ Listing /\ [Next]_vars => Listing'
<1> SUFFICES ASSUME IInv, Listing, [Next]_vars, ~reused'
             PROVE  (GoneStaysGone /\ AllAnnounced)'
    BY DEF Listing
<1> USE DEF loopVars, callVars
<1>1. ASSUME reused' = reused
      PROVE  GoneStaysGone /\ AllAnnounced
    BY <1>1 DEF Listing
<1>2. ASSUME /\ pc' = pc /\ ident' = ident /\ stored' = stored
             /\ GoneStaysGone
      PROVE  GoneStaysGone'
    BY <1>2 DEF GoneStaysGone
<1>3. CASE Build
  <2>1. scanpc' = "off"
    BY <1>3 DEF Build, IInv, DownIsEmpty
  <2>2. GoneStaysGone'
    BY <1>1, <1>2, <1>3 DEF Build
  <2> QED
    BY <2>1, <2>2 DEF AllAnnounced
<1>4. CASE StartRun
  <2>1. GoneStaysGone'
    BY <1>1, <1>2, <1>4 DEF StartRun
  <2> QED
    BY <1>4, <2>1 DEF StartRun, AllAnnounced, Announced
<1>5. CASE SpawnLoop
  <2>1. GoneStaysGone' /\ AllAnnounced
    BY <1>1, <1>2, <1>5 DEF SpawnLoop
  <2> QED
    BY <1>5, <2>1 DEF SpawnLoop, AllAnnounced, Announced
<1>6. CASE \/ BeginScan \/ EndScan \/ StopLoop \/ NewBlock \/ UNCHANGED vars
           \/ \E c \in Caller : DrawFromEmpty(c)
  <2>1. GoneStaysGone' /\ AllAnnounced
    BY <1>1, <1>2, <1>6 DEF BeginScan, EndScan, StopLoop, NewBlock, DrawFromEmpty, vars
  <2> QED
    BY <1>6, <2>1 DEF BeginScan, EndScan, StopLoop, NewBlock, DrawFromEmpty, vars, AllAnnounced,
                      Announced
<1>7. CASE Crash
    BY <1>7 DEF Crash, GoneStaysGone, AllAnnounced
<1> QED
    BY <1>3, <1>4, <1>5, <1>6, <1>7, CallListing DEF Next

(* new_invoice inserts into the database before the publisher learns of    *)
(* the invoice, remove_invoice takes it out there first, and Scanner::new  *)
(* reads the ids before it lists them; whatever comes between these steps, *)
(* a quiet gateway whose loop runs lists everything that it tracks.        *)
THEOREM TrackedCanBeFollowed == Spec => []TrackedIsPublished
<1>1. Init => Listing
    BY DEF Init, Listing, GoneStaysGone, AllAnnounced
<1>2. Listing => TrackedIsPublished
    BY DEF Listing, AllAnnounced, Announced, TrackedIsPublished
<1> QED
    BY <1>1, <1>2, StepListing, Invariance, PTL DEF Spec
=============================================================================
