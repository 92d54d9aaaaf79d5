------------------------------- MODULE Storage -------------------------------
(***************************************************************************)
(* The storage client, the manager task and the three stores               *)
(* (library/src/storage).  Callers put commands into a bounded channel,    *)
(* each with a channel of its own for the answer; the manager executes     *)
(* them one by one.  A caller may be dropped while it waits, a command may *)
(* fail, and the process may crash.                                        *)
(***************************************************************************)
EXTENDS Store, Sequences

CONSTANTS
    Kinds,      \* the stores to look at: memory, sled, sqlite
    Caller,     \* concurrent users of the client
    QueueLen,   \* length of the channel, 64 in the code
    MaxFaults   \* bound: commands that fail, and crashes

ASSUME StorageAssumption ==
    /\ Kinds \subseteq {"memory", "sled", "sqlite"}
    /\ QueueLen \in Nat \ {0}
    /\ MaxFaults \in Nat

VARIABLES
    kind,       \* which store it is
    open,       \* sqlite: a transaction has been begun and not ended
    chan,       \* commands on their way to the manager
    pc,         \* where each caller is
    faults      \* failed commands and crashes so far

clientVars == <<chan, pc>>
vars == <<storeVars, kind, open, clientVars, faults>>

TypeOK ==
    /\ db \in Contents /\ disk \in Contents
    /\ kind \in Kinds
    /\ open \in BOOLEAN
    /\ chan \in Seq([who : Caller, live : BOOLEAN]) /\ Len(chan) <= QueueLen
    /\ pc \in [Caller -> {"idle", "wait"}]
    /\ faults \in 0..MaxFaults

Init ==
    /\ StoreInit
    /\ kind \in Kinds
    /\ open = FALSE
    /\ chan = <<>>
    /\ pc = [c \in Caller |-> "idle"]
    /\ faults = 0

-----------------------------------------------------------------------------
(***************************************************************************)
(* The stores.  A write reaches the disk at once in sqlite, unless it is   *)
(* part of a transaction; sled writes when it is flushed or sees fit; what *)
(* is in memory never does.                                                *)
(***************************************************************************)
Write(new) ==
    /\ db' = new
    /\ disk' = IF kind = "sqlite" /\ ~open THEN new ELSE disk

Ok(cmd, r) == answer' = [ok |-> TRUE, cmd |-> cmd, result |-> r]
Err(cmd) == answer' = [ok |-> FALSE, cmd |-> cmd, result |-> None]

Same == UNCHANGED <<db, disk, open>>

(* Seen by the contains_key, compare_and_swap or primary key of a store.   *)
Occupied(id) == db.invoices[id] # None

InsertInvoice(cmd) ==
    /\ cmd.op = "insert"
    /\ IF Occupied(cmd.id)
       THEN Err(cmd) /\ Same
       ELSE /\ Write([db EXCEPT !.invoices[cmd.id] = cmd.value])
            /\ Ok(cmd, None)
            /\ UNCHANGED open

RemoveInvoice(cmd) ==
    /\ cmd.op = "remove"
    /\ Write([db EXCEPT !.invoices[cmd.id] = None])
    /\ Ok(cmd, db.invoices[cmd.id])
    /\ UNCHANGED open

(* Defect: an update inserts the invoice if there is none.                 *)
UpdateInvoiceUpserts(cmd) ==
    /\ cmd.op = "update"
    /\ kind # "sqlite"
    /\ Write([db EXCEPT !.invoices[cmd.id] = cmd.value])
    /\ Ok(cmd, db.invoices[cmd.id])
    /\ UNCHANGED open

(* BTreeMap entry, fetch_and_update.                                       *)
UpdateInvoice(cmd) ==
    /\ cmd.op = "update"
    /\ kind # "sqlite"
    /\ IF Occupied(cmd.id)
       THEN Write([db EXCEPT !.invoices[cmd.id] = cmd.value])
       ELSE UNCHANGED <<db, disk>>
    /\ Ok(cmd, db.invoices[cmd.id])
    /\ UNCHANGED open

(* BEGIN, read the old invoice, write the new one, COMMIT.  BEGIN fails    *)
(* inside a transaction; if there is no invoice the transaction stays open.*)
UpdateInSqlite(cmd) ==
    /\ cmd.op = "update"
    /\ kind = "sqlite"
    /\ IF open THEN Err(cmd) /\ Same
       ELSE IF ~Occupied(cmd.id)
       THEN Ok(cmd, None) /\ open' = TRUE /\ UNCHANGED <<db, disk>>
       ELSE /\ Write([db EXCEPT !.invoices[cmd.id] = cmd.value])
            /\ Ok(cmd, db.invoices[cmd.id])
            /\ UNCHANGED open

UpsertHeight(cmd) ==
    /\ cmd.op = "upsert"
    /\ IF kind = "sqlite" /\ open
       THEN Err(cmd) /\ Same
       ELSE /\ Write([db EXCEPT !.height = cmd.height])
            /\ Ok(cmd, db.height)
            /\ UNCHANGED open

InsertOutputKey(cmd) ==
    /\ cmd.op = "insertKey"
    /\ IF db.keys[cmd.key] # None
       THEN Err(cmd) /\ Same
       ELSE /\ Write([db EXCEPT !.keys[cmd.key] = cmd.output])
            /\ Ok(cmd, None)
            /\ UNCHANGED open

(* The in-memory store takes any later subaddress for the one asked for.   *)
ContainsSubIndex(sub) ==
    \E i \in Tracked(db) : IF kind = "memory" THEN i.sub >= sub ELSE i.sub = sub

GetInvoice(cmd) == cmd.op = "get" /\ Ok(cmd, db.invoices[cmd.id])
GetIds(cmd) == cmd.op = "ids" /\ Ok(cmd, Tracked(db))
LookUpSubIndex(cmd) == cmd.op = "contains" /\ Ok(cmd, ContainsSubIndex(cmd.sub))
GetOutputKey(cmd) == cmd.op = "getKey" /\ Ok(cmd, db.keys[cmd.key])
GetHeight(cmd) == cmd.op = "getHeight" /\ Ok(cmd, db.height)

Lookup(cmd) ==
    /\ GetInvoice(cmd) \/ GetIds(cmd) \/ LookUpSubIndex(cmd) \/ GetOutputKey(cmd) \/ GetHeight(cmd)
    /\ Same

(* Only sled implements flush; elsewhere it is a no-op that succeeds.      *)
Flush(cmd) ==
    /\ cmd.op = "flush"
    /\ disk' = IF kind = "sled" THEN db ELSE disk
    /\ Ok(cmd, None)
    /\ UNCHANGED <<db, open>>

(* Past BEGIN, `?` leaves without a ROLLBACK; a COMMIT that fails leaves   *)
(* the write in the open transaction, where this connection reads it.      *)
FailsInTransaction(cmd) ==
    /\ kind = "sqlite" /\ ~open
    /\ cmd.op \in {"update", "upsert"}
    /\ open' = TRUE
    /\ db' \in {db, After(db, cmd)}
    /\ UNCHANGED disk

(* The write is done, and what it replaced cannot be decoded.  An update   *)
(* in sqlite reads the old value first, in its transaction.                *)
FailsToDecode(cmd) ==
    /\ \/ kind = "sled" /\ cmd.op \in {"update", "remove", "upsert"}
       \/ kind = "sqlite" /\ cmd.op = "remove"
    /\ Result(db, cmd) # None
    /\ Write(After(db, cmd))
    /\ UNCHANGED open

CommandFails(cmd) ==
    /\ faults < MaxFaults
    /\ Err(cmd)
    /\ Same \/ FailsInTransaction(cmd) \/ FailsToDecode(cmd)

-----------------------------------------------------------------------------
(***************************************************************************)
(* The client and the manager.                                             *)
(***************************************************************************)
(* Defect: the channel has no limit.                                       *)
SendUnbounded(c) ==
    /\ pc[c] = "idle"
    /\ chan' = Append(chan, [who |-> c, live |-> TRUE])
    /\ pc' = [pc EXCEPT ![c] = "wait"]
    /\ UNCHANGED <<storeVars, kind, open, faults>>

(* A caller waits until there is room in the channel.  Which command it    *)
(* sends matters only when it is handled, and is left open until then.     *)
Send(c) ==
    /\ pc[c] = "idle"
    /\ Len(chan) < QueueLen
    /\ chan' = Append(chan, [who |-> c, live |-> TRUE])
    /\ pc' = [pc EXCEPT ![c] = "wait"]
    /\ UNCHANGED <<storeVars, kind, open, faults>>

(* The caller is dropped.  A command that it has sent is executed anyway.  *)
Cancel(c) ==
    /\ pc[c] # "idle"
    /\ pc' = [pc EXCEPT ![c] = "idle"]
    /\ chan' = [n \in DOMAIN chan |-> IF chan[n].who = c THEN [chan[n] EXCEPT !.live = FALSE]
                                      ELSE chan[n]]
    /\ UNCHANGED <<storeVars, kind, open, faults>>

Perform(cmd) ==
    \/ InsertInvoice(cmd) \/ RemoveInvoice(cmd)
    \/ UpdateInvoice(cmd) \/ UpdateInSqlite(cmd)
    \/ UpsertHeight(cmd) \/ InsertOutputKey(cmd)
    \/ Lookup(cmd) \/ Flush(cmd)

(* Defect: an error is not reported to the caller.                         *)
HandleSilentOnError(cmd) ==
    /\ chan # <<>>
    /\ \/ Perform(cmd) /\ UNCHANGED faults
       \/ CommandFails(cmd) /\ faults' = faults + 1
    /\ pc' = IF Head(chan).live /\ answer'.ok THEN [pc EXCEPT ![Head(chan).who] = "idle"] ELSE pc
    /\ chan' = Tail(chan)
    /\ UNCHANGED kind

(* The answer goes to the caller if it is still there.                     *)
Handle(cmd) ==
    /\ chan # <<>>
    /\ \/ Perform(cmd) /\ UNCHANGED faults
       \/ CommandFails(cmd) /\ faults' = faults + 1
    /\ pc' = IF Head(chan).live THEN [pc EXCEPT ![Head(chan).who] = "idle"] ELSE pc
    /\ chan' = Tail(chan)
    /\ UNCHANGED kind

HandleNext == \E cmd \in Command : Handle(cmd)

(* Sled writes its buffers.                                                *)
SledWrites ==
    /\ kind = "sled"
    /\ Persist
    /\ UNCHANGED <<kind, open, clientVars, faults>>

(* The process dies; an open transaction is rolled back.                   *)
Crash ==
    /\ faults < MaxFaults
    /\ faults' = faults + 1
    /\ Lose
    /\ open' = FALSE
    /\ chan' = <<>>
    /\ pc' = [c \in Caller |-> "idle"]
    /\ UNCHANGED kind

Next ==
    \/ \E c \in Caller : Send(c) \/ Cancel(c)
    \/ HandleNext
    \/ SledWrites
    \/ Crash

(* The manager's loop goes on; nobody has to send.                         *)
Spec == Init /\ [][Next]_vars /\ WF_vars(HandleNext)

-----------------------------------------------------------------------------
(***************************************************************************)
(* Properties.                                                             *)
(***************************************************************************)
(* The one answer that the traits do not allow: contains_sub_index of the  *)
(* in-memory store says yes because of an invoice at a later subaddress.   *)
WrongYes(cmd) ==
    /\ kind = "memory" /\ cmd.op = "contains"
    /\ \E i \in Tracked(db) : i.sub > cmd.sub
    /\ ~Result(db, cmd)
    /\ Ok(cmd, TRUE)
    /\ UNCHANGED <<db, disk>>

(* Every store keeps the promise of the traits, one command after the      *)
(* other, for callers that are dropped, commands that fail and crashes: an *)
(* update brings no removed invoice back, a command takes effect as a      *)
(* whole or not at all, a failed insert leaves nothing, a crash leaves the *)
(* contents of an earlier time, and every answer is exact but for the      *)
(* wrong yes of the in-memory store.                                       *)
ImplementsStore == StoreInit /\ [][StoreNext \/ \E cmd \in Command : WrongYes(cmd)]_storeVars

(* Every command that was sent is answered, whoever else has been dropped, *)
(* has failed or fills the channel.                                        *)
Answered == \A c \in Caller : (pc[c] # "idle") ~> (pc[c] = "idle")

(* Sqlite needs no flush: what a command has written is on the disk when   *)
(* the caller has its answer, so that a crash loses none of it.            *)
WritesSurvive == kind = "sqlite" => disk = db
=============================================================================
