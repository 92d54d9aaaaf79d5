# AcceptXMR payment gateway: TLA+ models, model checks and proofs

The repository holds a Monero payment gateway: a library (`library/`) that hands out
one subaddress per invoice, follows the chain through a daemon's RPC interface, recognises
payments with the view key and keeps invoices up to date in a store; and a server
(`server/`) that offers the library over HTTP and websockets and calls back when
invoices change. This directory models the library and the part of the server that keeps
state. Paths below are relative to `library/src/` unless they begin with `server/`.

## Inventory

| Part | State | Operations | Meets |
|---|---|---|---|
| Daemon (external) | chain, txpool | blocks, pool changes, reorganisations | RPC of `monerod_client/mod.rs` |
| Block cache `caching/block_cache.rs` | window of 10 blocks, atomic cache height and daemon height | `init`, `update`, `check_and_fix_reorg` | daemon; read by the scanner, heights read by `new_invoice` |
| Txpool cache `caching/txpool_cache.rs` | known transactions, transfers found in them | `init`, `update`, `insert_transfers` | daemon, scanner |
| Scanner `scanner.rs` | the two caches, `first_scan` | `new`, `scan` | caches, store, publisher |
| Invoice `invoice.rs` | amounts, heights, transfers | recalculation, confirmations | stored, published, returned by the API |
| Subaddress cache `caching/subaddress_cache.rs` | available subaddresses, highest index | `init`, `remove_random`, `insert`, `extend_by` | gateway calls; the highest index is read by the scan loop |
| Gateway `payment_gateway.rs` | scanner handle, Stop channel, shared atomics | `build`, `run`, `status`, `stop`, `new_invoice`, `remove_invoice`, `subscribe*` | everything |
| Publisher `pubsub.rs` | lists of senders, per invoice and global | `subscribe*`, `insert_invoice`, `remove_invoice`, `send_updates` | scanner sends, users receive |
| Storage `storage/` | invoices, scanned height, output keys; a task with a channel of 64 commands | insert, update, remove, for each, upsert, flush | scanner, gateway |
| RPC client `monerod_client/` | nonce and counter of the digest, behind a mutex | one method per RPC, split into requests | daemon; shared by scan task, `run` and `daemon_height` |
| Callbacks `server/src/callbacks.rs` | bounded queue, a task per command | `call`, retry | fed by the watching task and by its own retries |
| Watching task `server/src/lib.rs` | a subscriber of all invoices | queue a callback, delete what is expired | publisher, callback queue, gateway |
| API, websockets `server/src/server/` | a subscriber per websocket | make, delete, follow an invoice | gateway, publisher |

What is hard here: every RPC and every storage command is an await, so the daemon
reorganises, invoices appear and disappear, and subscribers come and go in the middle of
a scan; any of these calls fails through `?` and leaves behind what was done before; the
process may crash and start again on its database; callers of `run`, `stop` and `status`
meet at an asynchronous mutex; requests of the scan task and of users share one nonce and
one counter; the scanner waits for its subscribers' buffers, the watching task for the
callback queue, and the queue's retries for the queue itself. The `hazards` of `PROJECT.json` list these places line by
line with the properties that watch them.

What makes the parts correct: the window agrees with the daemon after an update; the
stored transfers are the chain's payments, each once; nothing is lost by down time; no
two invoices share a subaddress; a scan knows the keys of every tracked invoice; updates
reach subscribers in order and once; one scan task at a time, and calls that return; a
request asks for every transaction once and repeats no header; every update is called
back, and only invoices that are expired and not pending are deleted.

## Modules

**`Monerod`** is the daemon as the RPC client sees it: `chain`, `len` (what
`get_block_count` answers), `pool`. A block hash is `<<height, branch>>`; every
reorganisation opens a branch of its own, which makes hashes collision free. `Reorganise`
replaces the blocks from any fork within `MaxReorgDepth` by a branch one block longer and
puts the orphaned and pooled transactions anywhere on it, or back into the pool.

**`BlockCache`** extends it with the window. `bcpc` names the await the cache is
suspended at; `StartInit`, `InitFetch`, `InitDone` are `init`; `QueryHeight` and
`FetchNext` the two halves of `update`; `FixKeep`, `FixRepair`, `FixDone` the rounds of
`check_and_fix_reorg`; `TakeResult` hands the count to the scanner; `RpcFail` fails the RPC
under way, `InitTooShort` is the error of the daemon for a block that does not exist
(a chain shorter than the window). `get_block` and the transactions of that block are
fetched by two RPCs and form one step: the second one asks by hash, so its answer does
not depend on what happens between.

**`Invoice`** holds the values that `update_invoices` computes with and the predicates
that users read (`IsPaid`, `Confirmations`, `IsConfirmed`). `Retain` and `Recalculate` are
the loops of `Vec::retain` and of the sum over the transfers, as recursive functions.

**`Scanner`** composes `BlockCache`, the txpool cache and the stored state (`invoices`,
`storedHeight`, `outputKeys`). Its steps are the awaits of `Scanner::new` and
`Scanner::scan`; `Failure` collects the early returns; `Stop` and `Crash` drop everything
that is not stored. `RemoveInvoice`, `Pay` and the daemon interleave, and so do the two
halves of `new_invoice`: `DrawSubaddress` draws an address and reads the height,
`InsertInvoice` stores the invoice later, when blocks above that height may have been scanned
already. What the view key reveals of a transaction is given by the constants `SubOf`,
`AmountOf` and `KeyOf`. `RefreshTable` makes the table of keys before a scan, and the scan
finds only what the table has (`Recognised`): an address drawn meanwhile may be missing.
Scanning blocks and pool is one step, since both hold the caches' locks and only the order in
which output keys are recorded matters. `KeyOwners` has the orders in which one of the two
records a key before the other looks it up; when both look it up first, the second insert is
refused and the scan ends with an error although no call has failed, which is `KeyRefused`.
The reads of `Scanner::new` before the caches are made are one step. An invoice appears only
for a subaddress no other invoice has: that is what `SubaddressCache` shows. Two variables
exist for the properties only. `standing` says of a payment whether it is new, due (a
customer made it for an invoice that is in place; the address is shown only once `new_invoice`
has returned) or stray (that invoice is gone). `skipped` is set when a scan passes over
payments without a failing call, by `KeyRefused` or because a due payment lies at an index
beyond the table.

**`SubaddressCache`** has the calls `new_invoice` and `remove_invoice`, step by step, over
the cache of subaddresses, the database's ids, the publisher's ids, and as much of the
scan loop as shares state with them (the table of keys, `Scanner::new`'s list of ids).
`DrawFromEmpty` is the panic of `gen_range(0..0)` in a draw from an empty map, which ends the
call and leaves everything as it is. A database is used with one account index.

**`PubSub`** is `send_updates` with its two index loops, one step per lookup and per
send; a send waits while the buffer is full and fails when the subscriber is gone.

**`Rpc`** is what the trait `Client` promises its users: a call asks the daemon for its
things in order, each once and at most `Limit` at a time, and succeeds when all were asked
for, or fails. **`RpcClient`** is what `monerod_client/` does: `Begin`, `Send`,
`BodyArrives`, `Finish` are the loop of `transactions_by_hashes` (every other RPC is a call
of size 1); `Authenticate` reads and advances nonce and counter under the mutex; `Challenge`,
`Resend`, `Wake`, `Unauthorized` are the 401 loop of `request` with its sleep; `Timeout` is
the time limit, which ends with the head of the answer, so that `NeverEnds` can happen
while the body is read or while every header is refused. `KeepsPromise` is the refinement
(`INSTANCE Rpc WITH`, hiding the digest and the places in a request).

**`Gateway`** is `run`, `status` and `stop` over the mutex of the scanner handle, the Stop
channel and the scan tasks. It extends `RpcClient`: a scan, `Scanner::new` inside `run`, and
`daemon_height` are calls of the one client, and a task looks for a Stop only between two
scans, so that a request that never ends keeps `stop`, and with it the mutex, waiting.

**`InvoiceIdText`** has the text of invoice ids in the API: the big-endian bits of the two
indices and the height, and base64 without padding over them. A character is the digits it
stands for, or foreign; bytes and characters have different widths, so that the last
character has bits to spare. Decoding refuses foreign characters (padding too), a last
character that is not needed and spare bits that are not zero; `Parses` refuses besides
what has the wrong number of bytes.

**`Server`** composes the API (`NewInvoice`, `DeleteInvoice`, `OpenSocket`, whose texts are
read by `InvoiceIdText`), the scanner as subscribers see it (`ReadInvoice`, `SaveInvoice`,
`PublishToInvoice`, `PublishToAll`), the task of `spawn_gateway` that watches all updates
(`SubscribeAll`, `Receive`, `SendCommand`, `RemoveInvoice`, `RemoveFails`), the callback
queue (`TakeCommand`, `CallSucceeds`, `CallFails`, `Requeue`) and the websocket tasks
(`Forward`, `ClientStalls`, `EndSocket`). `UpgradeFails` is a client that goes between the
subscription and the upgrade: its subscriber is dropped and its sender stays in the
publisher's list (`stale`), which cuts off the websockets behind it at the next update
(`sender`; finding 3). An update is known by its number; `missed` has those that were
published before the watching task subscribed; `failures.retries` is the retry count of each
command. An invoice is the three facts the server asks of it.

**`Store`** is the abstract store: `db` (what readers see), `disk` (what a crash leaves)
and the last `answer`. Each command takes effect as a whole and is answered exactly
(`Result`), is refused, or, where it returns what was there before, takes effect and loses
its answer (`LoseAnswer`). **`Storage`** is `storage/mod.rs` (client, bounded channel, manager
task) above the three stores, with the same variables. `Send` and `Cancel` are a caller waiting
for room and for its answer, and being dropped meanwhile; `Handle` is one turn of the
manager's loop. Which command a caller sent is left open until it is handled. `open` is
sqlite's transaction: `update` without an invoice leaves it open, and so does a failure after
BEGIN; when it is the COMMIT that fails, the write is in the open transaction, where this
connection reads it and a crash loses it (`FailsInTransaction`). `FailsToDecode` is the old value
that cannot be read after the write. `ImplementsStore` is the refinement, with one exception
that it names (`WrongYes`, finding 7).

The `MC*` modules and configurations instantiate them; operators whose comment begins
with "Defect" are wrong variants of the definition that follows them, used to see that a
property notices.

## Runs

| Run | Checks | Bounds |
|---|---|---|
| `scanner` | `ScannerTypeOK`, `LedgerAccurate`, `ConfirmedIsMined`, `NothingMissed`, `CreditedOnceDespiteFaults`, `StoredHeightMonotone`, `CreditedUndisturbed`; of the block cache `HeightsAligned`, `NeverAhead`, `UpdateReportsNewBlocks`, `UpdateHeals`, `CatchesUp` | window 3, chain 3 to 5, one payment, one reorganisation, 2 confirmations, one disturbance anywhere: a failing call, a stop or a crash (`OneDisturbance`); no invoice is made at the end of the chain, where it could not be paid (`CanBePaid`) |
| `scanner_fault_loss` | `EventuallyCredited` is violated | one failing RPC |
| `scanner_restart_credit` | `CreditedOnce` is violated | one stop or crash, no failing call |
| `pubsub` | `TypeOK`, `NoUpdateSkipped`, `InOrderOnce`, `SendTerminates` | 2 subscribers, buffer 1, 2 invoices, 2 updates, 2 inserts |
| `pubsub_global` | `LiveGlobalKept` is violated | 2 subscribers |
| `gateway` | `TypeOK`, `OneScanner`, `NoOrphan`, `StopHasTarget`, `CallsReturn`, `HeadersFresh`, `KeepsPromise` | 2 callers of whom 1 runs, 2 tasks, 1 panic; 3 calls for 0 or 3 things, 2 things per request, 2 nonces |
| `gateway_status` | `StatusReturns` is violated | 2 callers |
| `storage` | `TypeOK`, `ImplementsStore`, `Answered` | the three stores, 2 callers, channel 1, 2 ids, 1 value, 1 key, one failed command or crash |
| `storage_sqlite` | `WritesSurvive` is violated | sqlite, no failing command |
| `server` | `TypeOK`, `InOnePlace`, `LastWordFirst`, `TextNamesInvoice`, `CalledBack`, `PublishEnds`, `RemovesPendingOnlyIfStale`, `ExpiredGoes` | one invoice, 3 updates, one failure, callback queue 1, subscription buffer 1, one websocket; ids of one byte of 4 bits, characters of 3 bits |
| `server_retries` | `RetriesLimited` is violated | 2 failing callbacks, one retry allowed |
| `subaddresses` | `TypeOK`, `UniqueSubaddress`, `PanicsOnlyWhenUsedUp`, `TrackedIsPublished`, `CheckerCovers` | 2 callers, threshold 1, indices 0 to 2, 3 draws, 2 failures or crashes |

The bounds let every case of the code happen: the window is overrun by blocks and by
reorganisations, failures come at every await, the index range is exhausted, buffers are
full. Window 3 is the smallest with a broken link above, at and below a repaired block.
Three things at two per request make a call of two parts with a short last one, and none
a call without a request; two nonces let one challenge overtake another. A queue of one and
a failure let a retry and a new update wait for the same place; three updates are
needed for the watching task to act on one update, have the next in its buffer and the
last one still with the scanner, and for a websocket that reads no more to hold the scanner
up. Texts of one character less and one more than an id takes show every way in which
decoding refuses.
In the instance of `scanner` one payment can be in a block of the window and in the pool of
one scan, so keys are refused in it. Two outputs that share a key, deeper and repeated
reorganisations, and several faults together with restarts are beyond what TLC finishes in
minutes; for them the safety properties rest on the theorems of `ScannerProofs`, which
assume no bound on any of these (but see `Shallow` and `AmountsTell`).

What the violations show (`findings` of `PROJECT.json`):

1. A block that was pushed to the cache is never scanned when the txpool RPC of the same
   scan fails (`scanner.rs:262`).
2. After a restart the first scan credits payments of the window a second time
   (`scanner.rs:279` with `182` and `202`).
3. A dropped subscriber unsubscribes live ones (`pubsub.rs:151`, `170`).
4. `status` locks the mutex that it holds once the scan task has ended
   (`payment_gateway.rs:226`).
5. An update of an invoice that is gone leaves sqlite's transaction open: later updates
   and heights are refused, and what is inserted or removed is lost in a crash
   (`storage/stores/sqlite.rs:162`).
6. The largest number of retries of a callback is logged and not applied
   (`server/src/callbacks.rs:156`).
7. The in-memory store says that a subaddress has an invoice when only a later one has
   (`storage/stores/in_memory.rs:71`). It has no run of its own: `Store` promises the exact
   answer, `ImplementsStore` names the exception, and TLC refutes it without.

Some properties are conditional because of these. `LedgerAccurate`, `ConfirmedIsMined` and
`CreditedUndisturbed` speak of behaviours without failed calls and restarts, `NothingMissed`
and `UpdateReportsNewBlocks` of those without failed calls; and all of the ledger's
properties of those in which no scan has passed over payments (`skipped`). What has to be
credited are due payments: one made for an earlier invoice at the same address counts for
the next one or not, as its block is scanned after or before that invoice is stored, so it
may be listed and need not be. `CreditedOnceDespiteFaults` speaks of behaviours without
restarts and reorganisations, `CallsReturn` of those in which
`status` did not meet an ended task and no request of the caller or of a scan goes on for
ever, `CalledBack` of the updates that were published after the watching task subscribed and
whose callback has not failed more often than the configuration allows,
`PublishEnds` and `ExpiredGoes` of those in which no websocket client keeps its connection
and stops reading (and, for the latter, no update was missed at the start and no removal has
failed: it is not tried again), `OneScanner` and `NoOrphan` of gateways that one
caller runs (two concurrent calls of `run` pass the check together and spawn two tasks),
`TrackedIsPublished` leaves out ids made anew while the same id is being removed.
`PanicsOnlyWhenUsedUp` does not say that a draw never panics: it does when all indices are
used up, and when a gateway is built on a database whose invoices use every index it starts
with; these are the only cases.

Differences between text and code that were met on the way and that have no run of their
own, because the text allows more than one reading or nothing depends on it:

* A retry of a callback that does not find room waits in a task of its own
  (`server/src/callbacks.rs`), so the limit of the queue does not limit the memory. A call
  that is answered after its time limit reaches the recipient again.
* `caching/subaddress_cache.rs:117-118` expects a draw that finds nothing to be "retried";
  an empty map panics before, at line 107.
* A websocket upgrade that fails (`server/src/server/api/external.rs:110-114`) leaves a
  dropped subscriber in the list, and by finding 3 the websockets behind it are cut off.
* `server/src/config/database.rs:11` deletes expired invoices; the watching task decides on
  an update that may be stale. `RemovesPendingOnlyIfStale` says how far that goes.
* `server/src/server/api/external.rs:157` says that the websocket stops checking for updates
  after a final one; it closes the session and goes on to read, which is what keeps the
  scanner from waiting for it.
* The time limit of RPCs (`payment_gateway.rs:538-540`) ends with the head of an answer.
* Updates between `run` and `subscribe_all` (`server/src/lib.rs:130-144`) are not called back.

## Fairness

* `BlockCache`, `Scanner`: weak fairness of the cache's and the scanner's own steps. The
  loop of `run` calls `scan` for ever and only logs errors. Nothing is assumed of daemon,
  customers and failures; the bounds make these come to rest.
* `PubSub`: weak fairness of the steps of `send_updates`, which the scan loop awaits, and
  of `Recv`, since the server's tasks loop on `recv`. A user who keeps a subscriber and never
  reads blocks the scanner when the buffer of 2048 is full.
* `Gateway`: strong fairness of each caller's steps, because the tokio mutex queues its
  waiters in order; weak fairness of a task noticing its Stop. Callers need not call.
  A request has weak fairness because the client's own work or the time limit moves it
  on; `NeverEnds` leaves open whether the daemon sends the rest of a body.
* `Server`: strong fairness of the watching task and of the retries, because a tokio channel
  gives room to its senders in the order in which they came; weak fairness of publishing, of
  taking commands, of callbacks (which have a time limit) and of the websocket tasks, which
  the runtime polls. Clients need not read, the API need not be called, and the bound on
  failures makes callbacks succeed in the end.
* `Storage`: weak fairness of the manager's turn. Its task loops on the channel for as
  long as a client exists.

## Proofs

Every theorem is proved for all values of the constants that the named assumptions allow:
any number of blocks, subscribers, callers, requests, updates, failures and crashes. The
invariants below were first checked with TLC on the instances of the runs.

| Module | Assumptions | Theorems on properties of runs |
|---|---|---|
| `BlockCacheProofs` | `MonerodAssumption`, `BlockCacheAssumption` | `Aligned`, `NotAhead`, `Heals`, `ReportsEveryNewBlock`, of the block cache alone |
| `ScannerProofs` | the same and `ScannerAssumption` (finitely many transactions) | `ScannerTypeOK`, and `HeightsAligned`, `NeverAhead`, `UpdateHeals`, `UpdateReportsNewBlocks`, `StoredHeightMonotone`, of the scanner |
| `ScannerProofs` | and `Shallow` | `LedgerAccurate`, `NothingMissed`; with `Required >= 1`, `ConfirmedIsMined` |
| `ScannerProofs` | and `AmountsTell` | `CreditedOnceDespiteFaults` |
| `SubaddressProofs` | `SubaddressAssumption` | `TypeOK`, `UniqueSubaddress`, `PanicsOnlyWhenUsedUp`, `TrackedIsPublished`, `CheckerCovers` |
| `PubSubProofs` | `PubSubAssumption` (finitely many subscribers) | `TypeOK`, `InOrderOnce`, `NoUpdateSkipped` |
| `RpcClientProofs`, `GatewayProofs` | `RpcAssumption`, `GatewayAssumption` (finitely many callers that run) | `TypeOK`, `OneScanner`, `NoOrphan`, `StopHasTarget`, `HeadersFresh`, `KeepsPromise` |
| `StorageProofs` | `StoreAssumption`, `StorageAssumption` | `TypeOK`, `ImplementsStore` |
| `ServerProofs` | `ServerAssumption`, `TextAssumption`, `Base64Assumption` | `TypeOK`, `InOnePlace`, `LastWordFirst`, `RemovesPendingOnlyIfStale`, `TextNamesInvoice` |

**Block cache.** `IInv` adds to `TypeOK` and alignment what healing needs. `ChainLinked`:
blocks of the chain have their height, link to their predecessors, and none belongs to a
branch yet to come. `HashesIdentify`: a cached block with the hash of a chain block is that
block. `StaleTopIsCovered`: when the top of the window is no longer on the chain, there is
a block above it still to fetch, so a stale top is always found by a broken link.
`RepairedSoFar`: during a repair without a reorganisation the window down to the cursor is
on the chain. `WindowInChain`: the window spans heights the daemon has. `NeverAhead` needs
that reorganisations lengthen the chain.
For what update reports, `Reporting` says where stale blocks lie while no call has failed:
on top, that is, under a block of the chain the window holds the chain (`StaleOnTop`);
hence the breaks that `check_and_fix_reorg` meets follow one another, and its count, which
grows by one per repaired block, is the index of the last of them
(`BreaksAreAdjacent`), also when the daemon reorganises between two repairs. After a
failure half way this is false, which is finding 1.

**Scanner.** `CacheSees` shows that every step of the composition is for the block cache one
of its own steps, a scan that ends with an error in a later stage, or the loss of the
window; so both invariants carry over. `Course` ties the scanner's awaits to those of the
cache. `Resumes`: the stored height is below the length of the chain, a scanner starts at
most one block under it, and it cannot save before it has pushed the block above, because
then `height < len - 1`. `StoreTypes` has the types of the stored and the scanned values;
without a stored height the scanner starts at the lowest height of the invoices, and a set of
natural numbers has a least element (`LeastNatural`, from the library's theorem on
well-founded relations). `Dealings`: a drawn address is nobody else's, a due payment has its
invoice, and a payment that nobody has made is in no block and no pool.

**The ledger.** `LedgerInv` says, for every point of a scan and as long as no call has failed
and no scan has passed over payments (`Clean`), which blocks an invoice covers. It lists at
least the due payments of these blocks and, until the process is restarted, at most all
payments of them (`Holds`), and their output keys are recorded. Between two scans these are
all blocks up to the scanned height as the window shows them (`WindowHolds`); during a scan
all but the newest `updated` ones; at `update_invoices` what is kept plus what was found
covers all (`TotalsHold`), and what was found is bounded for every invoice that may still be
stored before it (`FoundBounded`); at the saves an invoice covers all or its update is pending
(`PendingHold`). For restarts, `StoredHolds` has the blocks under the window of the stored
height, or of the scan that last saved the invoice, and `TrunkHolds` those under the window
of a scanner that starts. An invoice that is stored while blocks above its creation height
have been scanned covers them all the same, because nothing is due to it yet: payments
become due after the insert (`Dealings`), and by then such a block holds none of them.
`Clocks` bounds the heights of the invoices. `TailIsCurrent` says that the oldest block of a
window is on the chain, so that a block leaves it as the chain has it.
`LedgerAccurate` and `NothingMissed` follow where the window agrees with the daemon.
The hypothesis `Shallow` is `MaxReorgDepth < CacheSize`: `check_and_fix_reorg` repairs
blocks within its window only, and a deeper reorganisation does leave wrong transfers behind
(TLC finds a behaviour with a window of 2 blocks and a reorganisation of 3).
What is counted is the number of places of a sequence that hold a value (`Among`), and what
`Retain`, concatenation, `FlattenSeq` and `FoundIn` do to it.

**Counting once.** `OnceInv` speaks of chains that only grow and of scanners that run on, with
calls failing anywhere. Every transfer is `Backed` by an output that owns its key and lies
at the height it is listed with; the txpool is queried after the blocks, so what it
brings is in no block of the window (`PoolApart`); what a scan finds of a key adds to what
`update_invoices` keeps to at most one (`FoundOnce`). `AmountsTell` is what the property needs
to speak of keys, which invoices do not hold: outputs with different keys pay different
amounts. Two outputs may share a key and an amount.

**Confirmed is mined.** `ReckoningInv` adds that transfers are listed by height, those of the
txpool last (`OrderedBy`), although kept and found ones are put together; that `paid_height`
is the height of a transfer at which the coins listed so far reach the requested amount
(`Reckoned`); and that no counting invoice is dated above the scanned height (`Dated`). So at a
confirmed invoice the transfers up to that one lie deep enough; by `LedgerInv` each value
among them is listed as often as the chain pays it, which gives every transfer a transaction
of its own (`OwnTransactions`), and their coins are among those that the chain has paid.
`Required >= 1` is needed because an invoice that asks for no confirmation is confirmed by the
txpool.

**Subaddresses.** A subaddress is available, in the hands of exactly one caller, or in the
database, and never in two of these places; all of them lie below the highest index
(`BelowHighest`). `EnoughToDraw` counts the available ones through `extend_by`: once a draw has
succeeded, the map is filled up until the indices end. `Placed`: before the first draw an
index is available, in the database, or in the hands of the caller that removes its invoice.
The two give `PanicsOnlyWhenUsedUp`.
`GoneStaysGone` keeps the ids that are leaving the publisher apart from those on their way
to it.

**Publisher.** `ListInv`: a sender is once in the list of its kind. `HeldInv`: the sender the
loop holds is the one at its index, unless the list was replaced under it. `WalkInv`: behind
the index nobody is left out, ahead of it nobody has been served, although `swap_remove`
moves the last sender into a gap; `PhaseInv` and `DueInv` carry this across the two loops,
and `CountInv` bounds the index by the number of subscribers served. The proof holds for
dropped subscribers as well, as long as they are listed.

**Gateway and RPC client.** `HolderWaits`: a caller holds the mutex exactly while it joins a
task or is at the second lock of `status`.
`StopsAreMeant`: there is at most one Stop, and its target is being joined. `NothingElseRuns`:
between the check in `run` and the store of the handle no other task runs, if one caller
runs. For the digest: headers used for the present nonce have smaller counts, nonces are
handed out once, and a nonce that a challenge has brought is known to no other request.
For `KeepsPromise`, `InParts` says what a call has asked for in its first parts; every step of
the client is then an abstract `Ask`, beginning, end or stutter.

**Storage.** Every turn of the manager is a command of `Store`, a refusal, a lost answer or
the wrong yes; the channel's steps are stutters. `OnlyOpenTransactionsLose` says how far finding 5 goes: as long as no
transaction is open, sqlite has on the disk what its readers see.

**Server.** Updates are made and published one at a time, so those with the watching task
are in order and older than the scanner's (`Course`); what was saved is what the database
holds, or a later update is on its way; what the watching task has was given to the
websockets before. `InOnePlace` is proved by counting an update's copies place by place.
`TextNamesInvoice` rests on `OneTextForId`: for any widths of bytes and characters, the text
written for an id is read as it, and every text that is read as it is that text. For base64
this is where each bit lies (`PlaceOf`, `PlaceAt`), that one length only gives the right
number of bytes (`LengthUnique`), and that spare bits are zero. Below it is arithmetic: the
digits of a number are those of its quotients by the
powers of the base (`LeadingDigits`), so writing and reading undo each other in both
directions. It needs induction over data. The library's theorems take a predicate, which the
provers cannot instantiate; `SetInduction` takes a set instead and follows from the theorem
on well-founded relations. It gives the recursive functions `Power` and `value` their
equations.

Only model-checked: liveness (`CatchesUp`, `CreditedUndisturbed`, `SendTerminates`,
`CallsReturn`, `Answered`, `CalledBack`, `PublishEnds`, `ExpiredGoes`), which is out of the
prover's reach. Every safety property of the passing runs has a theorem.

## Not modelled

View-key cryptography and amounts beyond what `SubOf`, `AmountOf`, `KeyOf` say;
time-locked transactions, which never count; a configured initial height; more than one
account index per database. Of the RPC client: MD5, the texts of headers, JSON, the length
of the sleep. Of the stores: errors that corrupt a database, sqlite's `get_ids` leaving out
rows it cannot read, the order in which invoices are visited (`for each` and the lowest
height are read by `Scanner`). Of the server: calls that only read, routing, the bearer
token, templates, TLS, configuration, back-off lengths, and the start-up code that builds
the gateway, none of which has state that changes. Formatting, serialisation apart from
ids, logging, examples, testing utilities and the front end.

## Plan

The modules of the inventory are written, and the safety properties of all of them are
proved. What could follow:

1. How far finding 2 goes: how often an invoice may count a payment after some number of
   restarts (so far only the lower bound is proved, `NothingMissed`).
2. Reorganisations as deep as the window: what remains of the ledger above it.
3. More than one account index per database, and a configured initial height.
