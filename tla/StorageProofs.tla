---------------------------- MODULE StorageProofs ----------------------------
(***************************************************************************)
(* For any tables, callers, channel and number of faults: the three stores *)
(* behind the manager implement the abstract Store.                        *)
(***************************************************************************)
EXTENDS Storage, TLAPS

-----------------------------------------------------------------------------
(***************************************************************************)
(* Commands and what they do to the contents.                              *)
(***************************************************************************)
(* The operands of a command.                                              *)
LEMMA Operands ==
    ASSUME NEW cmd \in Command
    PROVE  /\ cmd.op \in {"insert", "update", "remove", "get"} => cmd.id \in Id
           /\ cmd.op \in {"insert", "update"} => cmd.value \in Value
           /\ cmd.op \in {"insertKey", "getKey"} => cmd.key \in Key
           /\ cmd.op = "insertKey" => cmd.output \in Output
           /\ cmd.op = "upsert" => cmd.height \in Height
    BY DEF Command

(* Tables with one entry changed are tables.                               *)
LEMMA ChangedContents ==
    ASSUME NEW d \in Contents
    PROVE  /\ \A id \in Id, v \in Value \cup {None} : [d EXCEPT !.invoices[id] = v] \in Contents
           /\ \A k \in Key, o \in Output : [d EXCEPT !.keys[k] = o] \in Contents
           /\ \A h \in Height : [d EXCEPT !.height = h] \in Contents
    BY DEF Contents

(* Writing nothing where nothing is.                                       *)
LEMMA NoChange ==
    ASSUME NEW d \in Contents, NEW id \in Id, d.invoices[id] = None
    PROVE  [d EXCEPT !.invoices[id] = None] = d
    BY DEF Contents

(* A write goes to the disk at once or not at all.                         *)
LEMMA WriteReaches ==
    ASSUME NEW new, Write(new)
    PROVE  db' = new /\ disk' \in {disk, db'}
    BY DEF Write

-----------------------------------------------------------------------------
(***************************************************************************)
(* One command: it is executed as the traits say, or refused.              *)
(***************************************************************************)
(* The tables.                                                             *)
Tables == db \in Contents /\ disk \in Contents

(* insert and insertKey find the place free or are refused.                *)
LEMMA InsertsExecute ==
    ASSUME Tables, NEW cmd \in Command, InsertInvoice(cmd) \/ InsertOutputKey(cmd)
    PROVE  (Execute(cmd) \/ Refuse(cmd)) /\ Tables'
<1>1. CASE InsertInvoice(cmd)
  <2>1. cmd.op = "insert" /\ cmd.id \in Id /\ cmd.value \in Value
    BY <1>1, Operands DEF InsertInvoice
  <2>2. CASE Occupied(cmd.id)
    BY <1>1, <2>2 DEF InsertInvoice, Err, Same, Refuse, Tables
  <2>3. CASE ~Occupied(cmd.id)
    <3>1. Write([db EXCEPT !.invoices[cmd.id] = cmd.value]) /\ Ok(cmd, None)
      BY <1>1, <2>3, Zenon DEF InsertInvoice
    <3>2. After(db, cmd) = [db EXCEPT !.invoices[cmd.id] = cmd.value] /\ Result(db, cmd) = None
      BY <2>1 DEF After, Result
    <3>3. Admissible(db, cmd)
      BY <2>1, <2>3 DEF Admissible, Occupied
    <3> QED
      BY <2>1, <3>1, <3>2, <3>3, WriteReaches, ChangedContents DEF Execute, Ok, Tables
  <2> QED
    BY <2>2, <2>3
<1>2. CASE InsertOutputKey(cmd)
  <2>1. cmd.op = "insertKey" /\ cmd.key \in Key /\ cmd.output \in Output
    BY <1>2, Operands DEF InsertOutputKey
  <2>2. CASE db.keys[cmd.key] # None
    BY <1>2, <2>2 DEF InsertOutputKey, Err, Same, Refuse, Tables
  <2>3. CASE db.keys[cmd.key] = None
    <3>1. Write([db EXCEPT !.keys[cmd.key] = cmd.output]) /\ Ok(cmd, None)
      BY <1>2, <2>3, Zenon DEF InsertOutputKey
    <3>2. After(db, cmd) = [db EXCEPT !.keys[cmd.key] = cmd.output] /\ Result(db, cmd) = None
      BY <2>1 DEF After, Result
    <3>3. Admissible(db, cmd)
      BY <2>1, <2>3 DEF Admissible
    <3> QED
      BY <2>1, <3>1, <3>2, <3>3, WriteReaches, ChangedContents DEF Execute, Ok, Tables
  <2> QED
    BY <2>2, <2>3
<1> QED
    BY <1>1, <1>2

(* update changes an invoice that is there, whichever store it is; an open *)
(* transaction of sqlite makes it fail.                                    *)
LEMMA UpdateExecutes ==
    ASSUME Tables, NEW cmd \in Command, UpdateInvoice(cmd) \/ UpdateInSqlite(cmd)
    PROVE  (Execute(cmd) \/ Refuse(cmd)) /\ Tables'
<1>1. cmd.op = "update" /\ cmd.id \in Id /\ cmd.value \in Value
    BY Operands DEF UpdateInvoice, UpdateInSqlite
<1>2. Admissible(db, cmd) /\ Result(db, cmd) = db.invoices[cmd.id]
    BY <1>1 DEF Admissible, Result
<1>3. After(db, cmd) = [db EXCEPT !.invoices[cmd.id] =
                           IF db.invoices[cmd.id] = None THEN None ELSE cmd.value]
    BY <1>1 DEF After
<1>4. ASSUME Occupied(cmd.id), Write([db EXCEPT !.invoices[cmd.id] = cmd.value]),
             Ok(cmd, db.invoices[cmd.id])
      PROVE  Execute(cmd) /\ Tables'
  <2>1. After(db, cmd) = [db EXCEPT !.invoices[cmd.id] = cmd.value]
    BY <1>3, <1>4 DEF Occupied
  <2> QED
    BY <1>1, <1>2, <1>4, <2>1, WriteReaches, ChangedContents DEF Execute, Ok, Tables
<1>5. ASSUME ~Occupied(cmd.id), UNCHANGED <<db, disk>>, Ok(cmd, db.invoices[cmd.id])
      PROVE  Execute(cmd) /\ Tables'
  <2>1. After(db, cmd) = db
    BY <1>1, <1>3, <1>5, NoChange DEF Occupied, Tables
  <2> QED
    BY <1>2, <1>5, <2>1 DEF Execute, Ok, Tables
<1>6. CASE UpdateInvoice(cmd)
    BY <1>4, <1>5, <1>6, Zenon DEF UpdateInvoice
<1>7. CASE UpdateInSqlite(cmd)
  <2>1. CASE open
    BY <1>7, <2>1 DEF UpdateInSqlite, Err, Same, Refuse, Tables
  <2>2. CASE ~open /\ ~Occupied(cmd.id)
    BY <1>5, <1>7, <2>2 DEF UpdateInSqlite, Occupied
  <2>3. CASE ~open /\ Occupied(cmd.id)
    BY <1>4, <1>7, <2>3, Zenon DEF UpdateInSqlite
  <2> QED
    BY <2>1, <2>2, <2>3
<1> QED
    BY <1>6, <1>7

(* remove and upsert overwrite; remove tells what was there.               *)
LEMMA OverwritesExecute ==
    ASSUME Tables, NEW cmd \in Command, RemoveInvoice(cmd) \/ UpsertHeight(cmd)
    PROVE  (Execute(cmd) \/ Refuse(cmd)) /\ Tables'
<1>1. CASE RemoveInvoice(cmd)
  <2>1. cmd.op = "remove" /\ cmd.id \in Id
    BY <1>1, Operands DEF RemoveInvoice
  <2>2. /\ Admissible(db, cmd) /\ Result(db, cmd) = db.invoices[cmd.id]
        /\ After(db, cmd) = [db EXCEPT !.invoices[cmd.id] = None]
    BY <2>1 DEF Admissible, Result, After
  <2> QED
    BY <1>1, <2>1, <2>2, WriteReaches, ChangedContents DEF RemoveInvoice, Execute, Ok, Tables
<1>2. CASE UpsertHeight(cmd)
  <2>1. cmd.op = "upsert" /\ cmd.height \in Height
    BY <1>2, Operands DEF UpsertHeight
  <2>2. CASE kind = "sqlite" /\ open
    BY <1>2, <2>2 DEF UpsertHeight, Err, Same, Refuse, Tables
  <2>3. CASE ~(kind = "sqlite" /\ open)
    <3>1. Write([db EXCEPT !.height = cmd.height]) /\ Ok(cmd, db.height)
      BY <1>2, <2>3, Zenon DEF UpsertHeight
    <3>2. /\ Admissible(db, cmd) /\ Result(db, cmd) = db.height
          /\ After(db, cmd) = [db EXCEPT !.height = cmd.height]
      BY <2>1 DEF Admissible, Result, After
    <3> QED
      BY <2>1, <3>1, <3>2, WriteReaches, ChangedContents DEF Execute, Ok, Tables
  <2> QED
    BY <2>2, <2>3
<1> QED
    BY <1>1, <1>2

(* Lookups tell what is there, but for the one of the in-memory store that *)
(* takes a later subaddress for the one asked for.                         *)
LEMMA LookupsExecute ==
    ASSUME Tables, NEW cmd \in Command, Lookup(cmd) \/ Flush(cmd)
    PROVE  (Execute(cmd) \/ WrongYes(cmd)) /\ Tables'
<1>1. CASE Lookup(cmd)
  <2>1. UNCHANGED <<db, disk>>
    BY <1>1 DEF Lookup, Same
  <2>2. cmd.op \in {"get", "ids", "contains", "getKey", "getHeight"}
    BY <1>1 DEF Lookup, GetInvoice, GetIds, LookUpSubIndex, GetOutputKey, GetHeight
  <2>3. After(db, cmd) = db /\ Admissible(db, cmd)
    BY <2>2 DEF After, Admissible
  <2>4. CASE GetInvoice(cmd) \/ GetIds(cmd) \/ GetOutputKey(cmd) \/ GetHeight(cmd)
    BY <2>1, <2>3, <2>4 DEF Execute, Ok, GetInvoice, GetIds, GetOutputKey, GetHeight, Result, Tables
  <2>5. CASE LookUpSubIndex(cmd)
    <3>1. cmd.op = "contains" /\ Ok(cmd, ContainsSubIndex(cmd.sub))
      BY <2>5 DEF LookUpSubIndex
    <3>2. /\ Result(db, cmd) = (\E i \in Tracked(db) : i.sub = cmd.sub)
          /\ cmd.sub \in Nat /\ \A i \in Tracked(db) : i.sub \in Nat
      BY <3>1, StoreAssumption DEF Result, Tracked, Id, Command
    <3>3. CASE ContainsSubIndex(cmd.sub) = Result(db, cmd)
      BY <2>1, <2>3, <3>1, <3>3 DEF Execute, Ok, Tables
    <3>4. CASE ContainsSubIndex(cmd.sub) # Result(db, cmd)
      <4>1. /\ kind = "memory" /\ ~Result(db, cmd) /\ ContainsSubIndex(cmd.sub) = TRUE
            /\ \E i \in Tracked(db) : i.sub > cmd.sub
        BY <3>2, <3>4 DEF ContainsSubIndex
      <4> QED
        BY <2>1, <3>1, <4>1 DEF WrongYes, Tables
    <3> QED
      BY <3>3, <3>4
  <2> QED
    BY <1>1, <2>4, <2>5 DEF Lookup
<1>2. CASE Flush(cmd)
  <2>1. cmd.op = "flush" /\ db' = db /\ disk' \in {disk, db} /\ Ok(cmd, None)
    BY <1>2 DEF Flush
  <2>2. After(db, cmd) = db /\ Admissible(db, cmd) /\ Result(db, cmd) = None
    BY <2>1 DEF After, Admissible, Result
  <2> QED
    BY <2>1, <2>2 DEF Execute, Ok, Tables
<1> QED
    BY <1>1, <1>2

(* A command that leaves contents leaves well-formed ones.                 *)
LEMMA AfterContents ==
    ASSUME Tables, NEW cmd \in Command, cmd.op \in {"update", "remove", "upsert"}
    PROVE  After(db, cmd) \in Contents
<1>1. CASE cmd.op = "update"
  <2>1. After(db, cmd) = [db EXCEPT !.invoices[cmd.id] =
                             IF db.invoices[cmd.id] = None THEN None ELSE cmd.value]
    BY <1>1 DEF After
  <2>2. /\ cmd.id \in Id
        /\ (IF db.invoices[cmd.id] = None THEN None ELSE cmd.value) \in Value \cup {None}
    BY <1>1, Operands
  <2> QED
    BY <2>1, <2>2, ChangedContents DEF Tables
<1>2. CASE cmd.op = "remove"
    BY <1>2, Operands, ChangedContents DEF After, Tables
<1>3. CASE cmd.op = "upsert"
    BY <1>3, Operands, ChangedContents DEF After, Tables
<1> QED
    BY <1>1, <1>2, <1>3

(* A command that fails has changed nothing or has taken its effect, and   *)
(* one that inserts has changed nothing.                                   *)
LEMMA FailsAsAllowed ==
    ASSUME Tables, NEW cmd \in Command, CommandFails(cmd)
    PROVE  (Refuse(cmd) \/ LoseAnswer(cmd)) /\ Tables'
<1>1. CASE Same
    BY <1>1 DEF CommandFails, Err, Same, Refuse, Tables
<1>2. CASE FailsInTransaction(cmd)
  <2>1. After(db, cmd) \in Contents
    BY <1>2, AfterContents DEF FailsInTransaction
  <2> QED
    BY <1>2, <2>1 DEF CommandFails, Err, FailsInTransaction, Refuse, LoseAnswer, Tables
<1>3. CASE FailsToDecode(cmd)
  <2>1. cmd.op \in {"update", "remove", "upsert"} /\ Write(After(db, cmd))
    BY <1>3 DEF FailsToDecode
  <2>2. After(db, cmd) \in Contents
    BY <2>1, AfterContents
  <2> QED
    BY <2>1, <2>2, WriteReaches DEF CommandFails, Err, LoseAnswer, Tables
<1> QED
    BY <1>1, <1>2, <1>3 DEF CommandFails

(* What the manager does for a command is what the traits allow.           *)
LEMMA HandleExecutes ==
    ASSUME Tables, NEW cmd \in Command, Handle(cmd)
    PROVE  (Execute(cmd) \/ Refuse(cmd) \/ LoseAnswer(cmd) \/ WrongYes(cmd)) /\ Tables'
<1>1. CASE Perform(cmd)
    BY <1>1, InsertsExecute, UpdateExecutes, OverwritesExecute, LookupsExecute DEF Perform
<1>2. CASE CommandFails(cmd)
    BY <1>2, FailsAsAllowed
<1> QED
    BY <1>1, <1>2 DEF Handle

-----------------------------------------------------------------------------
(***************************************************************************)
(* The channel and the callers.                                            *)
(***************************************************************************)
Entry == [who : Caller, live : BOOLEAN]

(* TypeOK but for the tables and the transaction.                          *)
ManagerTypeOK ==
    /\ kind \in Kinds
    /\ chan \in Seq(Entry) /\ Len(chan) <= QueueLen
    /\ pc \in [Caller -> {"idle", "wait"}]
    /\ faults \in 0..MaxFaults

TransactionTypeOK == open \in BOOLEAN

(* A caller that sends, and one that is dropped.                           *)
LEMMA EntryFacts ==
    /\ \A c \in Caller : [who |-> c, live |-> TRUE] \in Entry
    /\ \A e \in Entry : e.who \in Caller /\ [e EXCEPT !.live = FALSE] \in Entry
    BY DEF Entry

(* Tables and types at the beginning.                                      *)
LEMMA InitTypes == Init => Tables /\ ManagerTypeOK /\ TransactionTypeOK
<1> SUFFICES ASSUME Init PROVE Tables /\ ManagerTypeOK /\ TransactionTypeOK
    OBVIOUS
<1>1. EmptyDb \in Contents
    BY DEF EmptyDb, Contents
<1>2. Tables /\ TransactionTypeOK
    BY <1>1, Zenon DEF Init, StoreInit, Tables, TransactionTypeOK
<1>3. kind \in Kinds /\ chan = <<>> /\ pc = [c \in Caller |-> "idle"] /\ faults = 0
    BY Zenon DEF Init
<1> QED
    BY <1>2, <1>3, StorageAssumption DEF ManagerTypeOK

(* Handling a command keeps the types of everything else.                  *)
LEMMA HandleKeepsTypes ==
    ASSUME ManagerTypeOK, NEW cmd \in Command, Handle(cmd)
    PROVE  ManagerTypeOK'
<1> USE StorageAssumption
<1>0. chan # <<>> /\ chan' = Tail(chan) /\ kind' = kind
    BY Zenon DEF Handle
<1>1. chan # <<>> /\ Head(chan) \in Entry /\ Head(chan).who \in Caller
  <2>1. Head(chan) \in Entry
    BY <1>0 DEF ManagerTypeOK
  <2> QED
    BY <1>0, <2>1, EntryFacts, Zenon
<1>2. chan' = Tail(chan) /\ chan' \in Seq(Entry) /\ Len(chan') <= QueueLen
    BY <1>0 DEF ManagerTypeOK
<1>3. pc' \in [Caller -> {"idle", "wait"}] /\ kind' = kind
  <2>1. pc' = pc \/ pc' = [pc EXCEPT ![Head(chan).who] = "idle"]
    BY Zenon DEF Handle
  <2> QED
    BY <1>0, <1>1, <2>1 DEF ManagerTypeOK
<1>4. faults' \in 0..MaxFaults
  <2>1. faults' = faults \/ (faults < MaxFaults /\ faults' = faults + 1)
    BY Zenon DEF Handle, CommandFails
  <2> QED
    BY <2>1 DEF ManagerTypeOK
<1> QED
    BY <1>2, <1>3, <1>4 DEF ManagerTypeOK

(* A transaction is begun and not ended, or not.                           *)
LEMMA TransactionKeepsType ==
    ASSUME TransactionTypeOK, [Next]_vars
    PROVE  TransactionTypeOK'
<1>1. open' = open \/ open' = TRUE \/ open' = FALSE
  <2>1. ASSUME NEW cmd, Perform(cmd)
        PROVE  open' = open \/ open' = TRUE
    BY <2>1, Zenon DEF Perform, InsertInvoice, RemoveInvoice, UpdateInvoice, UpdateInSqlite, UpsertHeight,
                InsertOutputKey, Lookup, Flush, Same
  <2>2. ASSUME NEW cmd, CommandFails(cmd)
        PROVE  open' = open \/ open' = TRUE
    BY <2>2, Zenon DEF CommandFails, Same, FailsInTransaction, FailsToDecode
  <2> QED
    BY <2>1, <2>2, Zenon DEF Next, HandleNext, Handle, Send, Cancel, SledWrites, Crash, vars
<1> QED
    BY <1>1, Zenon DEF TransactionTypeOK

(* So does everything else that callers, sled and crashes do.              *)
LEMMA OthersKeepTypes ==
    ASSUME Tables, ManagerTypeOK,
           (\E c \in Caller : Send(c) \/ Cancel(c)) \/ SledWrites \/ Crash \/ UNCHANGED vars
    PROVE  Tables' /\ ManagerTypeOK'
<1> USE StorageAssumption
<1>1. ASSUME NEW c \in Caller, Send(c)
      PROVE  Tables' /\ ManagerTypeOK'
  <2>1. Len(chan') = Len(chan) + 1 /\ chan' \in Seq(Entry)
    BY <1>1, EntryFacts DEF Send, ManagerTypeOK
  <2>2. /\ Len(chan) < QueueLen /\ pc' = [pc EXCEPT ![c] = "wait"]
        /\ UNCHANGED <<db, disk, kind, faults>>
    BY <1>1, Zenon DEF Send, storeVars
  <2> QED
    BY <2>1, <2>2 DEF Tables, ManagerTypeOK
<1>2. ASSUME NEW c \in Caller, Cancel(c)
      PROVE  Tables' /\ ManagerTypeOK'
  <2> DEFINE Dropped(n) == IF chan[n].who = c THEN [chan[n] EXCEPT !.live = FALSE] ELSE chan[n]
  <2>1. /\ \A n \in 1..Len(chan) : Dropped(n) \in Entry
        /\ DOMAIN chan = 1..Len(chan) /\ Len(chan) \in Nat
    BY EntryFacts DEF ManagerTypeOK
  <2>2. chan' = [n \in 1..Len(chan) |-> Dropped(n)]
    BY <1>2, <2>1, Zenon DEF Cancel
  <2> HIDE DEF Dropped
  <2>3. chan' \in Seq(Entry) /\ Len(chan') = Len(chan)
    BY <2>1, <2>2
  <2> QED
    BY <1>2, <2>3 DEF Cancel, storeVars, Tables, ManagerTypeOK
<1>3. CASE SledWrites
    BY <1>3 DEF SledWrites, Persist, clientVars, Tables, ManagerTypeOK
<1>4. CASE Crash
    BY <1>4 DEF Crash, Lose, Tables, ManagerTypeOK
<1>5. CASE UNCHANGED vars
    BY <1>5 DEF vars, storeVars, clientVars, Tables, ManagerTypeOK
<1> QED
    BY <1>1, <1>2, <1>3, <1>4, <1>5

(* Tables and types in every reachable state.                              *)
LEMMA TypeInvariance == Spec => [](Tables /\ ManagerTypeOK /\ TransactionTypeOK)
<1>1. /\ Tables /\ ManagerTypeOK /\ TransactionTypeOK
      /\ [Next]_vars
      => (Tables /\ ManagerTypeOK /\ TransactionTypeOK)'
    BY HandleExecutes, HandleKeepsTypes, TransactionKeepsType, OthersKeepTypes DEF Next, HandleNext
<1> QED
    BY <1>1, InitTypes, PTL DEF Spec

(* Type correctness of store, channel and callers.                         *)
THEOREM TypeCorrect == Spec => []TypeOK
<1>1. Tables /\ ManagerTypeOK /\ TransactionTypeOK => TypeOK
    BY DEF Tables, ManagerTypeOK, TransactionTypeOK, TypeOK, Entry
<1> QED
    BY <1>1, TypeInvariance, PTL

-----------------------------------------------------------------------------
(* Each of the three stores implements the abstract store, for any number  *)
(* of callers, dropped callers, failed commands and crashes: commands take *)
(* effect one by one, as a whole or not at all, and answer what the traits *)
(* say, but for contains_sub_index of the in-memory store (WrongYes).      *)
THEOREM StoresImplementStore == Spec => ImplementsStore
<1>1. Init => StoreInit
    BY DEF Init
<1> DEFINE Allowed == StoreNext \/ \E cmd \in Command : WrongYes(cmd)
<1>2. Tables /\ [Next]_vars => [Allowed]_storeVars
  <2> SUFFICES ASSUME Tables, [Next]_vars PROVE [Allowed]_storeVars
    OBVIOUS
  <2>1. CASE HandleNext
    BY <2>1, HandleExecutes DEF HandleNext, StoreNext
  <2>2. CASE SledWrites \/ Crash
    BY <2>2 DEF SledWrites, Crash, StoreNext
  <2>3. CASE (\E c \in Caller : Send(c) \/ Cancel(c)) \/ UNCHANGED vars
    BY <2>3 DEF Send, Cancel, vars
  <2> QED
    BY <2>1, <2>2, <2>3 DEF Next
<1> QED
    BY <1>1, <1>2, TypeInvariance, PTL DEF Spec, ImplementsStore

(* WritesSurvive, which a transaction left open refutes, holds as long as  *)
(* none is: sqlite then has on the disk what its readers see.              *)
ClosedIsDurable == kind = "sqlite" /\ ~open => disk = db

(* Only a transaction that was begun and not ended costs sqlite writes.    *)
THEOREM OnlyOpenTransactionsLose == Spec => []ClosedIsDurable
<1>1. Init => ClosedIsDurable
    BY DEF Init, StoreInit, ClosedIsDurable
<1>2. TransactionTypeOK /\ ClosedIsDurable /\ [Next]_vars => ClosedIsDurable'
  <2> SUFFICES ASSUME TransactionTypeOK, ClosedIsDurable, [Next]_vars, kind' = "sqlite", ~open'
               PROVE  disk' = db'
    BY DEF ClosedIsDurable
  <2>1. ASSUME NEW cmd \in Command, Handle(cmd)
        PROVE  disk' = db'
    <3>1. kind = "sqlite"
      BY <2>1 DEF Handle
    <3>2. CASE CommandFails(cmd)
      <4>1. ~open /\ (UNCHANGED <<db, disk>> \/ Write(After(db, cmd)))
        BY <3>2 DEF CommandFails, Same, FailsInTransaction, FailsToDecode, TransactionTypeOK
      <4> QED
        BY <3>1, <4>1 DEF Write, ClosedIsDurable
    <3>3. CASE \/ InsertInvoice(cmd) \/ RemoveInvoice(cmd) \/ UpdateInvoice(cmd)
               \/ UpdateInSqlite(cmd) \/ UpsertHeight(cmd) \/ InsertOutputKey(cmd)
      <4>1. ~open
        BY <3>3 DEF InsertInvoice, RemoveInvoice, UpdateInvoice, UpdateInSqlite, UpsertHeight,
                    InsertOutputKey, Same, TransactionTypeOK
      <4>2. UNCHANGED <<db, disk>> \/ \E new : Write(new)
        BY <3>3, Zenon DEF InsertInvoice, RemoveInvoice, UpdateInvoice, UpdateInSqlite, UpsertHeight,
                    InsertOutputKey, Same
      <4> QED
        BY <3>1, <4>1, <4>2 DEF Write, ClosedIsDurable
    <3>4. CASE Lookup(cmd) \/ Flush(cmd)
      BY <3>1, <3>4 DEF Lookup, Same, Flush, ClosedIsDurable
    <3> QED
      BY <2>1, <3>2, <3>3, <3>4 DEF Handle, Perform
  <2>2. CASE SledWrites \/ Crash
    BY <2>2 DEF SledWrites, Crash, Persist, Lose
  <2>3. CASE (\E c \in Caller : Send(c) \/ Cancel(c)) \/ UNCHANGED vars
    BY <2>3 DEF Send, Cancel, vars, storeVars, ClosedIsDurable
  <2> QED
    BY <2>1, <2>2, <2>3 DEF Next, HandleNext
<1> QED
    BY <1>1, <1>2, TypeInvariance, PTL DEF Spec
=============================================================================
