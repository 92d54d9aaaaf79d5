------------------------------- MODULE Scanner -------------------------------
(***************************************************************************)
(* The scanner (library/src/scanner.rs): it keeps the block cache and the  *)
(* txpool cache up to date with the daemon, looks for outputs paid to      *)
(* tracked subaddresses and rewrites the stored invoices.  One step is     *)
(* what runs between two awaits that matter: an RPC or a command to the    *)
(* storage task.  Customers, the daemon, and the calls that create and     *)
(* remove invoices interleave between the steps; any step may fail, and    *)
(* the process may crash and start again on the stored state.              *)
(***************************************************************************)
EXTENDS BlockCache, Invoice

CONSTANTS
    SubIndex,       \* subaddress indices that invoices may use
    Key,            \* output public keys
    SubOf,          \* SubOf[tx]: the subaddress that tx pays
    AmountOf,       \* AmountOf[tx]: the amount that tx pays
    KeyOf,          \* KeyOf[tx]: the one-time public key of the output
    Requested,      \* the amount that an invoice asks for
    Required,       \* the confirmations that an invoice asks for
    ExpiresIn,      \* blocks until an invoice expires
    NoTx,           \* stands for "no output recorded for this key"
    StorageFails,   \* whether storage commands may fail too, or RPCs only
    MaxRestarts     \* bound: number of crashes and stops

ASSUME ScannerAssumption ==
    /\ IsFiniteSet(Tx)
    /\ SubOf \in [Tx -> SubIndex]
    /\ AmountOf \in [Tx -> Nat \ {0}]
    /\ KeyOf \in [Tx -> Key]
    /\ NoTx \notin Tx
    /\ Requested \in Nat /\ Required \in Nat /\ ExpiresIn \in Nat
    /\ StorageFails \in BOOLEAN
    /\ MaxRestarts \in Nat

VARIABLES
    invoices,       \* stored: invoice id -> invoice
    storedHeight,   \* stored: the last scanned height, or none
    outputKeys,     \* stored: first output seen with each key
    spc,            \* which await the scanner is suspended at
    firstScan,      \* Scanner.first_scan
    cachedTxs,      \* TxpoolCache.transactions
    discovered,     \* TxpoolCache.discovered_transfers (its keys)
    newTxs,         \* hashes, then transactions, new in the txpool
    found,          \* transfers found by this scan, with their subaddress
    pending,        \* updated invoices still to be saved
    restarts,       \* crashes and stops so far
    table,          \* the subaddresses that the SubKeyChecker recognises
    drawn,          \* ids of the invoices that new_invoice is about to insert
    standing,       \* ghost: what became of each payment's invoice
    skipped         \* ghost: a scan has passed over payments, with no call failing

storeVars == <<invoices, storedHeight, outputKeys>>
scanVars == <<spc, firstScan, cachedTxs, discovered, newTxs, found, pending>>
sideVars == <<table, drawn, standing, skipped>>
scannerVars == <<daemonVars, cacheVars, storeVars, scanVars, restarts, sideVars>>

InvoiceId == [sub : SubIndex, creation : Nat]

ScannerStages ==
    {"off", "new", "ready", "loop", "begin", "cache", "pool", "fetch", "scan", "update", "save"}

(* A payment is new until a customer makes it, due as long as the invoice  *)
(* that the customer read the address from is in place, stray afterwards.  *)
Standings == {"new", "due", "stray"}

InvoiceValue ==
    [requested : Nat, required : Nat, expiration : Nat, paid : Nat,
     paidHeight : Nat \cup {NoHeight}, current : Nat,
     transfers : Seq([amount : Nat, height : Nat \cup {NoHeight}])]

ScannerTypeOK ==
    /\ TypeOK
    /\ DOMAIN invoices \subseteq InvoiceId
    /\ \A id \in DOMAIN invoices : invoices[id] \in InvoiceValue
    /\ storedHeight \in Nat \cup {NoHeight}
    /\ outputKeys \in [Key -> Tx \cup {NoTx}]
    /\ spc \in ScannerStages
    /\ firstScan \in BOOLEAN
    /\ cachedTxs \subseteq Tx /\ discovered \subseteq Tx /\ newTxs \subseteq Tx
    /\ \A p \in pending : p.id \in InvoiceId /\ p.invoice \in InvoiceValue
    /\ restarts \in 0..MaxRestarts
    /\ table \subseteq SubIndex
    /\ drawn \subseteq InvoiceId
    /\ standing \in [Tx -> Standings]
    /\ skipped \in BOOLEAN

ScannerInit ==
    /\ MonerodInit
    /\ CacheInit
    /\ invoices = Empty
    /\ storedHeight = NoHeight
    /\ outputKeys = [k \in Key |-> NoTx]
    /\ spc = "off"
    /\ firstScan = TRUE
    /\ cachedTxs = {} /\ discovered = {} /\ newTxs = {}
    /\ found = <<>>
    /\ pending = {}
    /\ restarts = 0
    /\ table = {} /\ drawn = {}
    /\ standing = [tx \in Tx |-> "new"]
    /\ skipped = FALSE

-----------------------------------------------------------------------------
(***************************************************************************)
(* Scanner::new.                                                           *)
(***************************************************************************)
Lowest(S) == CHOOSE x \in S : \A y \in S : x <= y

(* lowest_height: the height up to which all invoices have been updated;   *)
(* an invoice that no scan has updated yet is at height 0.                 *)
LowestInvoiceHeight == Lowest({invoices[id].current : id \in DOMAIN invoices})

(* last_height: the stored height, or else that of the invoices, or none.  *)
LastHeight ==
    IF storedHeight # NoHeight THEN storedHeight
    ELSE IF DOMAIN invoices # {} THEN LowestInvoiceHeight
    ELSE NoHeight

(* Defect: does not keep the start at the size of the cache or above.      *)
StartHeightUnclamped ==
    LET last == IF LastHeight = NoHeight THEN len ELSE LastHeight
    IN  (IF last < len THEN last ELSE len) - 1

(* No initial height is configured: without a last height the scanner      *)
(* starts at the daemon's.  min(daemon_height), max(cache_size), minus 1.  *)
StartHeight ==
    LET last == IF LastHeight = NoHeight THEN len ELSE LastHeight
        low  == IF last < len THEN last ELSE len
    IN  (IF low > CacheSize THEN low ELSE CacheSize) - 1

StartScanner ==
    /\ spc = "off"
    /\ StartInit(StartHeight)
    /\ spc' = "new"
    /\ discovered' = {}
    /\ UNCHANGED <<storeVars, firstScan, cachedTxs, newTxs, found, pending, restarts, sideVars>>

(* TxpoolCache::init, concurrent with BlockCache::init.                    *)
InitPool ==
    /\ spc = "new"
    /\ cachedTxs' = pool
    /\ spc' = "ready"
    /\ UNCHANGED <<daemonVars, cacheVars, storeVars, firstScan, discovered, newTxs,
                   found, pending, restarts, sideVars>>

FetchInitial ==
    /\ spc \in {"new", "ready"}
    /\ InitFetch
    /\ UNCHANGED <<storeVars, scanVars, restarts, sideVars>>

FinishNew ==
    /\ spc = "ready"
    /\ InitDone
    /\ firstScan' = TRUE
    /\ spc' = "loop"
    /\ UNCHANGED <<storeVars, cachedTxs, discovered, newTxs, found, pending, restarts, sideVars>>

-----------------------------------------------------------------------------
(***************************************************************************)
(* The loop of PaymentGateway::run: before a scan the SubKeyChecker is made*)
(* anew for the indices that have been handed out by then, and perhaps     *)
(* some more.                                                              *)
(***************************************************************************)
RefreshTable ==
    /\ spc = "loop"
    /\ \E more \in SUBSET SubIndex :
          table' = table \cup {id.sub : id \in drawn \cup DOMAIN invoices} \cup more
    /\ spc' = "begin"
    /\ UNCHANGED <<daemonVars, cacheVars, storeVars, firstScan, cachedTxs, discovered, newTxs,
                   found, pending, restarts, drawn, standing, skipped>>

(***************************************************************************)
(* Scanner::scan: update_caches.                                           *)
(***************************************************************************)
BeginScan ==
    /\ spc = "begin"
    /\ QueryHeight
    /\ spc' = "cache"
    /\ UNCHANGED <<storeVars, firstScan, cachedTxs, discovered, newTxs, found, pending, restarts, sideVars>>

UpdateBlocks ==
    /\ spc = "cache"
    /\ FetchNext \/ FixKeep \/ FixRepair
    /\ UNCHANGED <<storeVars, scanVars, restarts, sideVars>>

BlocksUpdated ==
    /\ spc = "cache"
    /\ FixDone
    /\ spc' = "pool"
    /\ UNCHANGED <<storeVars, firstScan, cachedTxs, discovered, newTxs, found, pending, restarts, sideVars>>

(* Defect: keeps the transfers of transactions that left the pool.         *)
QueryPoolKeepsTransfers ==
    /\ spc = "pool"
    /\ newTxs' = pool \ cachedTxs
    /\ cachedTxs' = cachedTxs \cap pool
    /\ spc' = "fetch"
    /\ UNCHANGED <<daemonVars, cacheVars, storeVars, firstScan, discovered, found, pending, restarts,
                   sideVars>>

(* TxpoolCache::update: ask for the hashes, forget what left the pool ...  *)
QueryPool ==
    /\ spc = "pool"
    /\ newTxs' = pool \ cachedTxs
    /\ cachedTxs' = cachedTxs \cap pool
    /\ discovered' = discovered \cap pool
    /\ spc' = "fetch"
    /\ UNCHANGED <<daemonVars, cacheVars, storeVars, firstScan, found, pending, restarts, sideVars>>

(* ... and fetch the new ones; the daemon leaves out what it knows no more.*)
FetchPool ==
    /\ spc = "fetch"
    /\ newTxs' = newTxs \cap (pool \cup MinedFrom(0))
    /\ cachedTxs' = cachedTxs \cup newTxs'
    /\ spc' = "scan"
    /\ UNCHANGED <<daemonVars, cacheVars, storeVars, firstScan, discovered, found, pending,
                   restarts, sideVars>>

-----------------------------------------------------------------------------
(***************************************************************************)
(* Scanner::scan: scan_blocks and scan_txpool.                             *)
(***************************************************************************)
(* The indices of the window that scan_blocks reads.                       *)
ScannedBlocks == 0..((IF firstScan THEN CacheSize ELSE updated) - 1)

BlockTxs == UNION {blocks[k].txs : k \in ScannedBlocks}

(* check_outputs_with: the transactions that pay a subaddress of the table.*)
Recognised(txs) == {tx \in txs : SubOf[tx] \in table}

(* tx lies in an older scanned block than u.  A window that mixes two      *)
(* branches may hold a transaction twice.                                  *)
ScannedBefore(tx, u) ==
    /\ u \in BlockTxs
    /\ \E j \in ScannedBlocks :
          /\ tx \in blocks[j].txs
          /\ \A k \in ScannedBlocks : u \in blocks[k].txs => j > k

(* output_key_is_unique: the first output seen with a key owns it.  Blocks *)
(* are scanned from the oldest on, the txpool at the same time.  When both *)
(* look a new key up before either has recorded it, see KeyRefused.        *)
KeyOwners(k) ==
    LET seenNow == {tx \in Recognised(BlockTxs \cup newTxs) : KeyOf[tx] = k}
    IN  IF outputKeys[k] # NoTx THEN {outputKeys[k]}
        ELSE IF seenNow = {} THEN {NoTx}
        ELSE {tx \in seenNow : \A u \in seenNow : ~ScannedBefore(u, tx)}

(* The key tables that a scan may leave behind, and those that a scan may  *)
(* leave behind that fails somewhere on the way.                           *)
KeyTables == {t \in [Key -> Tx \cup {NoTx}] : \A k \in Key : t[k] \in KeyOwners(k)}
PartialKeyTables ==
    {t \in [Key -> Tx \cup {NoTx}] : \A k \in Key : t[k] \in KeyOwners(k) \cup {outputKeys[k]}}

(* contains_sub_index.                                                     *)
Tracked(sub) == \E id \in DOMAIN invoices : id.sub = sub

(* scan_transactions: the transactions of txs that count.                  *)
Owned(txs, keys) == {tx \in Recognised(txs) : keys[KeyOf[tx]] = tx /\ Tracked(SubOf[tx])}

FoundIn(txs, h) ==
    [i \in 1..Cardinality(txs) |->
        LET tx == SetToSeq(txs)[i] IN [sub |-> SubOf[tx], transfer |-> Transfer(AmountOf[tx], h)]]

(* The transfers of the scanned blocks, oldest block first.                *)
FoundInBlocks(keys) ==
    LET n == Cardinality(ScannedBlocks)
    IN  FlattenSeq([i \in 1..n |-> FoundIn(Owned(blocks[n - i].txs, keys), height - (n - i))])

(* scan_txpool: transfers discovered by earlier scans count without being  *)
(* scanned again; what the pool held besides is scanned and remembered.    *)
ScanTxpool(keys) ==
    /\ discovered' = discovered \cup Owned(newTxs, keys)
    /\ found' = FoundInBlocks(keys) \o FoundIn(discovered', NoHeight)

Scan ==
    /\ spc = "scan"
    /\ TakeResult
    /\ \E keys \in KeyTables :
        /\ outputKeys' = keys
        /\ ScanTxpool(keys)
    /\ skipped' = (skipped \/ \E tx \in BlockTxs : standing[tx] = "due" /\ SubOf[tx] \notin table)
    /\ firstScan' = FALSE
    /\ spc' = "update"
    /\ UNCHANGED <<invoices, storedHeight, cachedTxs, newTxs, pending, restarts, table, drawn,
                   standing>>

-----------------------------------------------------------------------------
(* Defects: off by one to either side.                                     *)
DeepestUpdateHigh == height - updated + 2
DeepestUpdateLow == height - updated

(***************************************************************************)
(* Scanner::scan: update_invoices and what follows it.                     *)
(***************************************************************************)
DeepestUpdate == height - updated + 1

(* The transfers of an invoice that this scan does not look at again.      *)
Kept(transfers) == Retain(transfers, {t \in ToSet(transfers) : OlderThan(t, DeepestUpdate)})

(* The transfers that this scan found for sub, above height h.             *)
FoundFor(sub, h) ==
    LET mine == Retain(found, {f \in ToSet(found) : f.sub = sub /\ NewerThan(f.transfer, h)})
    IN  [i \in 1..Len(mine) |-> mine[i].transfer]

(* Defect: counts the blocks one too many.                                 *)
UpdateInvoiceAhead(id, old) ==
    [old EXCEPT !.transfers = Kept(old.transfers) \o FoundFor(id.sub, id.creation - 1),
                !.current = height + 2]

(* What the closure that runs over the stored invoices makes of one.       *)
UpdateInvoice(id, old) ==
    [old EXCEPT !.transfers = Kept(old.transfers) \o FoundFor(id.sub, id.creation - 1),
                !.current = height + 1]

UpdateInvoices ==
    /\ spc = "update"
    /\ LET changed == {id \in DOMAIN invoices :
                         ~SameInvoice(UpdateInvoice(id, invoices[id]), invoices[id])}
       IN  pending' = {[id |-> id, invoice |-> Recalculate(UpdateInvoice(id, invoices[id]))]
                         : id \in changed}
    /\ found' = <<>>
    /\ newTxs' = {}
    /\ spc' = "save"
    /\ UNCHANGED <<daemonVars, cacheVars, storeVars, firstScan, cachedTxs, discovered, restarts, sideVars>>

(* Storage update: an invoice removed meanwhile is not written.            *)
Replace(id, inv) ==
    invoices' = IF id \in DOMAIN invoices THEN [invoices EXCEPT ![id] = inv] ELSE invoices

(* Defect: saves the same update over and over.                            *)
SaveInvoiceAgain(p) ==
    /\ spc = "save"
    /\ p \in pending
    /\ Replace(p.id, p.invoice)
    /\ UNCHANGED <<daemonVars, cacheVars, storedHeight, outputKeys, spc, firstScan, cachedTxs,
                   discovered, newTxs, found, pending, restarts, sideVars>>

SaveInvoice(p) ==
    /\ spc = "save"
    /\ p \in pending
    /\ Replace(p.id, p.invoice)
    /\ pending' = pending \ {p}
    /\ UNCHANGED <<daemonVars, cacheVars, storedHeight, outputKeys, spc, firstScan, cachedTxs,
                   discovered, newTxs, found, restarts, sideVars>>

(* Defect: the height of the oldest invoice is saved.                      *)
SaveHeightOfInvoices ==
    /\ spc = "save"
    /\ pending = {}
    /\ storedHeight' = IF DOMAIN invoices = {} THEN height ELSE LowestInvoiceHeight
    /\ spc' = "loop"
    /\ UNCHANGED <<daemonVars, cacheVars, invoices, outputKeys, firstScan, cachedTxs,
                   discovered, newTxs, found, pending, restarts, sideVars>>

(* upsert_height and flush end the scan.                                   *)
SaveHeight ==
    /\ spc = "save"
    /\ pending = {}
    /\ storedHeight' = height
    /\ spc' = "loop"
    /\ UNCHANGED <<daemonVars, cacheVars, invoices, outputKeys, firstScan, cachedTxs,
                   discovered, newTxs, found, pending, restarts, sideVars>>

-----------------------------------------------------------------------------
(***************************************************************************)
(* Failures.  An error ends the scan; the loop only logs it and scans on.  *)
(***************************************************************************)
CountFault == faults < MaxFaults /\ faults' = faults + 1

(* The RPC that the block cache waits for fails.                           *)
BlockRpcFails ==
    /\ spc \in {"new", "ready", "cache"}
    /\ RpcFail \/ InitTooShort
    /\ spc' = IF spc = "cache" THEN "loop" ELSE "off"
    /\ UNCHANGED <<storeVars, firstScan, cachedTxs, discovered, newTxs, found, pending, restarts, sideVars>>

(* The scan ends here; the caches keep what they have.                     *)
GiveUp ==
    /\ CountFault
    /\ bcpc' = "idle"
    /\ spc' = "loop"
    /\ newTxs' = {} /\ found' = <<>>
    /\ UNCHANGED <<daemonVars, height, daemonHeight, blocks, cursor, updated, quiet, seen,
                   invoices, storedHeight, firstScan, cachedTxs, pending, restarts, sideVars>>

(* An RPC of TxpoolCache::update fails.                                    *)
PoolRpcFails ==
    /\ spc \in {"pool", "fetch"}
    /\ GiveUp
    /\ UNCHANGED <<outputKeys, discovered>>

(* An answer without a list of hashes, such as that of a busy daemon, is   *)
(* taken for an empty pool: the cache forgets everything, and the scan goes*)
(* on.                                                                     *)
PoolTakenForEmpty ==
    /\ spc = "pool"
    /\ CountFault
    /\ newTxs' = {} /\ cachedTxs' = {} /\ discovered' = {}
    /\ spc' = "fetch"
    /\ UNCHANGED <<daemonVars, bcpc, height, daemonHeight, blocks, cursor, updated, quiet, seen,
                   storeVars, firstScan, found, pending, restarts, sideVars>>

(* try_for_each_invoice, upsert_height or flush fails.                     *)
StoreFails ==
    /\ StorageFails
    /\ spc = "update" \/ (spc = "save" /\ pending = {})
    /\ GiveUp
    /\ UNCHANGED <<outputKeys, discovered>>

(* Scanning fails on a storage command or on an amount that cannot be      *)
(* read; keys were recorded up to there, and the txpool may have been done.*)
ScanTransactionsFails ==
    /\ StorageFails
    /\ spc = "scan"
    /\ GiveUp
    /\ \E keys \in PartialKeyTables :
        /\ outputKeys' = keys
        /\ discovered' \in {discovered, discovered \cup Owned(newTxs, keys)}

(* scan_blocks and scan_txpool run under one join!: both find that a key   *)
(* has no output yet, one records it, and the store refuses the other,     *)
(* which fails the scan.  No call has failed, but the new blocks are not   *)
(* scanned again.                                                          *)
KeyRefused ==
    /\ spc = "scan"
    /\ TakeResult
    /\ \E keys \in PartialKeyTables, k \in Key :
        /\ outputKeys[k] = NoTx /\ keys[k] # NoTx
        /\ \E tx \in Recognised(BlockTxs), u \in Recognised(newTxs) : KeyOf[tx] = k /\ KeyOf[u] = k
        /\ outputKeys' = keys
        /\ discovered' \in {discovered, discovered \cup Owned(newTxs, keys)}
    /\ skipped' = TRUE
    /\ spc' = "loop"
    /\ newTxs' = {} /\ found' = <<>>
    /\ UNCHANGED <<invoices, storedHeight, firstScan, cachedTxs, pending, restarts, table, drawn,
                   standing>>

(* An update that cannot be written is logged and dropped.                 *)
SaveFails(p) ==
    /\ StorageFails
    /\ spc = "save"
    /\ p \in pending
    /\ CountFault
    /\ pending' = pending \ {p}
    /\ UNCHANGED <<daemonVars, bcpc, height, daemonHeight, blocks, cursor, updated, quiet, seen,
                   storeVars, spc, firstScan, cachedTxs, discovered, newTxs, found, restarts, sideVars>>

(* The scanner and its caches are gone; what is stored remains.            *)
Forget ==
    /\ restarts < MaxRestarts
    /\ restarts' = restarts + 1
    /\ spc' = "off" /\ bcpc' = "off" /\ blocks' = Empty
    /\ cursor' = 0 /\ updated' = 0
    /\ quiet' = TRUE /\ seen' = {}
    /\ firstScan' = TRUE
    /\ cachedTxs' = {} /\ discovered' = {} /\ newTxs' = {}
    /\ found' = <<>> /\ pending' = {}
    /\ UNCHANGED <<daemonVars, faults, storeVars, standing, skipped>>

(* stop ends the scan loop between two scans; the gateway lives on.        *)
Stop ==
    /\ spc = "loop"
    /\ Forget
    /\ UNCHANGED <<height, daemonHeight, table, drawn>>

(* The process dies at any point.                                          *)
Crash ==
    /\ spc # "off"
    /\ Forget
    /\ height' = 0 /\ daemonHeight' = 0
    /\ table' = {} /\ drawn' = {}

-----------------------------------------------------------------------------
(***************************************************************************)
(* PaymentGateway::new_invoice and remove_invoice, and the customers.      *)
(***************************************************************************)
(* The cached daemon height, or the daemon's own while nothing is cached.  *)
CreationHeight == IF daemonHeight # 0 THEN daemonHeight ELSE len

(* new_invoice: it draws a subaddress, which is nobody else's, and reads   *)
(* the height ...                                                          *)
DrawSubaddress(sub) ==
    /\ ~Tracked(sub) /\ \A id \in drawn : id.sub # sub
    /\ drawn' = drawn \cup {[sub |-> sub, creation |-> CreationHeight]}
    /\ UNCHANGED <<daemonVars, cacheVars, storeVars, scanVars, restarts, table, standing, skipped>>

(* ... and stores the invoice later, when blocks above that height may have*)
(* been scanned; never, if it fails.                                       *)
InsertInvoice(id) ==
    /\ id \in drawn
    /\ LET inv == NewInvoiceValue(Requested, Required, id.creation, ExpiresIn)
       IN  invoices' = [i \in DOMAIN invoices \cup {id} |-> IF i = id THEN inv ELSE invoices[i]]
    /\ drawn' = drawn \ {id}
    /\ UNCHANGED <<daemonVars, cacheVars, storedHeight, outputKeys, scanVars, restarts, table,
                   standing, skipped>>

NewInvoice ==
    \/ \E sub \in SubIndex : DrawSubaddress(sub)
    \/ \E id \in drawn : InsertInvoice(id)

RemoveInvoice(id) ==
    /\ id \in DOMAIN invoices
    /\ invoices' = [i \in DOMAIN invoices \ {id} |-> invoices[i]]
    /\ standing' = [tx \in Tx |-> IF SubOf[tx] = id.sub /\ standing[tx] = "due"
                                 THEN "stray" ELSE standing[tx]]
    /\ UNCHANGED <<daemonVars, cacheVars, storedHeight, outputKeys, scanVars, restarts, table,
                   drawn, skipped>>

(* A customer pays an address only once an invoice shows it; a payment that*)
(* the pool has dropped may be relayed again at any time.                  *)
Pay(tx) ==
    /\ standing[tx] = "new" => Tracked(SubOf[tx])
    /\ Submit(tx)
    /\ standing' = [standing EXCEPT ![tx] = IF @ = "new" THEN "due" ELSE @]
    /\ UNCHANGED <<cacheVars, storeVars, scanVars, restarts, table, drawn, skipped>>

DaemonMoves ==
    /\ \/ (\E tx \in Tx : Evict(tx)) /\ UNCHANGED quiet
       \/ (\E txs \in SUBSET pool : Mine(txs)) /\ UNCHANGED quiet
       \/ Reorganise /\ quiet' = FALSE
    /\ UNCHANGED <<bcpc, height, daemonHeight, blocks, cursor, updated, faults, seen,
                   storeVars, scanVars, restarts, sideVars>>

ScanStep ==
    \/ StartScanner \/ InitPool \/ FetchInitial \/ FinishNew
    \/ RefreshTable \/ BeginScan \/ UpdateBlocks \/ BlocksUpdated \/ QueryPool \/ FetchPool
    \/ Scan \/ UpdateInvoices
    \/ \E p \in pending : SaveInvoice(p)
    \/ SaveHeight

Failure ==
    \/ BlockRpcFails
    \/ PoolRpcFails
    \/ PoolTakenForEmpty
    \/ StoreFails
    \/ ScanTransactionsFails
    \/ KeyRefused
    \/ \E p \in pending : SaveFails(p)
    \/ Stop
    \/ Crash

ScannerNext ==
    \/ ScanStep
    \/ Failure
    \/ NewInvoice
    \/ \E id \in DOMAIN invoices : RemoveInvoice(id)
    \/ \E tx \in Tx : Pay(tx)
    \/ DaemonMoves

(* The scan loop never gives up; nothing is assumed of anyone else.        *)
ScannerSpec == ScannerInit /\ [][ScannerNext]_scannerVars /\ WF_scannerVars(ScanStep)

-----------------------------------------------------------------------------
(***************************************************************************)
(* Properties.                                                             *)
(***************************************************************************)
CountOf(t, ts) == Cardinality({i \in DOMAIN ts : ts[i] = t})

(* The transactions that the main chain holds at height h and that an      *)
(* invoice with this id may count with this amount.                        *)
Payments(id, amount, h) ==
    {tx \in chain[h].txs : /\ h >= id.creation
                           /\ SubOf[tx] = id.sub
                           /\ AmountOf[tx] = amount
                           /\ outputKeys[KeyOf[tx]] = tx}

(* Those that it has to count: its own customers made them.  The others    *)
(* were made for an earlier invoice at the same address, and count or not  *)
(* as they are scanned after or before the invoice is stored.              *)
DuePayments(id, amount, h) == {tx \in Payments(id, amount, h) : standing[tx] = "due"}

Amounts == {AmountOf[tx] : tx \in Tx}

(* Up to the scanned height every due payment is listed, with its amount   *)
(* and its height, ...                                                     *)
Complete ==
    \A id \in DOMAIN invoices, a \in Amounts, h \in 0..height :
        CountOf(Transfer(a, h), invoices[id].transfers) >= Cardinality(DuePayments(id, a, h))

(* ... and nothing is listed that the chain does not pay.                  *)
Accurate ==
    /\ Complete
    /\ \A id \in DOMAIN invoices, a \in Amounts, h \in 0..height :
        CountOf(Transfer(a, h), invoices[id].transfers) <= Cardinality(Payments(id, a, h))

(* No call has failed, no scan has passed over payments, and the scanner   *)
(* has run on since the first start.                                       *)
Undisturbed == faults = 0 /\ restarts = 0 /\ ~skipped

(* Between two scans, when the window agrees with the daemon, the stored   *)
(* invoices hold what their customers have paid on the chain up to the     *)
(* scanned height, each payment once, dated right, and nothing that the    *)
(* chain does not pay: reorganisations are undone exactly.                 *)
LedgerAccurate == (spc = "loop" /\ ~firstScan /\ OnChain /\ Undisturbed) => Accurate

(* What the main chain pays to an invoice in the blocks up to height h,    *)
(* added up coin by coin.                                                  *)
PaidUpTo(id, h) ==
    LET txs == {tx \in UNION {chain[g].txs : g \in id.creation..h} : SubOf[tx] = id.sub}
    IN  Cardinality(UNION {{tx} \X (1..AmountOf[tx]) : tx \in txs})

(* Between two scans, when the window agrees with the daemon, an invoice   *)
(* that counts as confirmed has been paid in full under as many blocks as  *)
(* it asks for, through reorganisations that move or drop the payment.     *)
ConfirmedIsMined ==
    (spc = "loop" /\ ~firstScan /\ OnChain /\ Undisturbed) =>
        \A id \in DOMAIN invoices :
            IsConfirmed(invoices[id]) => PaidUpTo(id, height + 1 - Required) >= Requested

(* An invoice counts every one-time output key at most once: neither a     *)
(* transaction twice, pooled and mined, nor two outputs that share a key   *)
(* and of which only one can be spent.  (A transfer shows its key by its   *)
(* amount: outputs with different keys pay different amounts.)             *)
CreditedOnce ==
    \A id \in DOMAIN invoices, k \in Key :
        LET amounts == {AmountOf[tx] : tx \in {u \in Tx : KeyOf[u] = k}}
            ts == invoices[id].transfers
        IN  Cardinality({i \in DOMAIN ts : ts[i].amount \in amounts}) <= 1

(* Failing calls never make an invoice count a key twice, as long as the   *)
(* chain only grows and the scanner runs on: calls may fail at any point.  *)
CreditedOnceDespiteFaults == (restarts = 0 /\ branch = 0) => CreditedOnce

(* The stored height never goes back, through failures, stops and crashes. *)
StoredHeightMonotone == [][storedHeight' >= storedHeight]_scannerVars

(* Down time loses nothing: as long as no call has failed and no scan has  *)
(* passed over payments, the stored invoices hold all that their customers *)
(* have paid on the chain up to the scanned height, also after stops and   *)
(* crashes at any point and blocks mined or reorganised while the gateway  *)
(* was down.                                                               *)
NothingMissed ==
    (spc = "loop" /\ ~firstScan /\ OnChain /\ faults = 0 /\ ~skipped) => Complete

(* Once the daemon has come to rest, the invoices hold the payments of the *)
(* whole chain: none is left out for good and none stays that was undone.  *)
CreditedUndisturbed == <>[](~Undisturbed \/ (height = len - 1 /\ Accurate))

(* The same whatever calls fail.                                           *)
EventuallyCredited == <>[](restarts > 0 \/ skipped \/ (height = len - 1 /\ Accurate))
=============================================================================
