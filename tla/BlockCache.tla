----------------------------- MODULE BlockCache -----------------------------
(***************************************************************************)
(* The window of recent blocks that the scanner keeps                      *)
(* (library/src/caching/block_cache.rs).  Every RPC is a step of its own,  *)
(* so the daemon may mine or reorganise between any two of them, and any   *)
(* RPC may fail, which makes the operation return early through `?` and    *)
(* leaves behind whatever it had changed before.                           *)
(***************************************************************************)
EXTENDS Monerod

CONSTANTS
    CacheSize,  \* block_cache_size, DEFAULT_BLOCK_CACHE_SIZE = 10 in the code
    MaxFaults   \* bound: number of failing calls

ASSUME BlockCacheAssumption ==
    /\ CacheSize \in Nat \ {0}
    /\ MaxFaults \in Nat

VARIABLES
    bcpc,           \* which await the block cache is suspended at
    height,         \* the atomic cache height: height of blocks[0]
    daemonHeight,   \* the atomic daemon height: last get_block_count answer
    blocks,         \* blocks[0] is the newest block of the window
    cursor,         \* next index that init fills or check_and_fix_reorg looks at
    updated,        \* the number of blocks that update returns
    faults,         \* failing calls so far
    quiet,          \* ghost: no reorganisation since the update began
    seen            \* ghost: hashes of the blocks handed to the scanner

cacheVars == <<bcpc, height, daemonHeight, blocks, cursor, updated, faults, quiet, seen>>

vars == <<daemonVars, cacheVars>>

Hash(b) == <<b.height, b.branch>>
PrevHash(b) == <<b.height - 1, b.prev>>
Empty == [k \in {} |-> 0]

(* off: no cache; init: filling the window; idle: between updates; next:   *)
(* fetching the next block; fix: in check_and_fix_reorg; done: update has  *)
(* returned and its result has not been taken up.                          *)
Stages == {"off", "init", "idle", "next", "fix", "done"}

(* The indices of the blocks that the cache holds.                         *)
Window == CASE bcpc = "off"  -> {}
            [] bcpc = "init" -> 0..(cursor - 1)
            [] OTHER         -> 0..(CacheSize - 1)

TypeOK ==
    /\ MonerodTypeOK
    /\ bcpc \in Stages
    /\ height \in Nat
    /\ daemonHeight \in Nat
    /\ cursor \in 0..CacheSize
    /\ updated \in 0..CacheSize
    /\ blocks \in [Window -> Block]
    /\ faults \in 0..MaxFaults
    /\ quiet \in BOOLEAN
    /\ seen \in SUBSET (Nat \X Nat)

CacheInit ==
    /\ bcpc = "off"
    /\ height = 0
    /\ daemonHeight = 0
    /\ blocks = Empty
    /\ cursor = 0
    /\ updated = 0
    /\ faults = 0
    /\ quiet = TRUE
    /\ seen = {}

(***************************************************************************)
(* BlockCache::init: the caller has put the starting height and the        *)
(* daemon's height in the atomics; the window is filled from the top down. *)
(***************************************************************************)
StartInit(h) ==
    /\ bcpc = "off"
    /\ height' = h
    /\ daemonHeight' = len
    /\ blocks' = Empty
    /\ cursor' = 0
    /\ updated' = 0
    /\ bcpc' = "init"
    /\ quiet' = TRUE
    /\ seen' = {}
    /\ UNCHANGED <<daemonVars, faults>>

InitFetch ==
    /\ bcpc = "init"
    /\ cursor < CacheSize
    /\ height - cursor < len
    /\ blocks' = [k \in 0..cursor |-> IF k = cursor THEN chain[height - cursor] ELSE blocks[k]]
    /\ cursor' = cursor + 1
    /\ UNCHANGED <<daemonVars, bcpc, height, daemonHeight, updated, faults, quiet, seen>>

(* The chain has no block that high yet: get_block answers with an error.  *)
InitTooShort ==
    /\ bcpc = "init"
    /\ cursor < CacheSize
    /\ height - cursor >= len
    /\ bcpc' = "off"
    /\ blocks' = Empty
    /\ UNCHANGED <<daemonVars, height, daemonHeight, cursor, updated, faults, quiet, seen>>

(* The first scan reads the whole window, whatever update returns.         *)
InitDone ==
    /\ bcpc = "init"
    /\ cursor = CacheSize
    /\ bcpc' = "idle"
    /\ seen' = {Hash(blocks[k]) : k \in DOMAIN blocks}
    /\ UNCHANGED <<daemonVars, height, daemonHeight, blocks, cursor, updated, faults, quiet>>

(* Defect: stays a block behind the daemon.                                *)
QueryHeightLags ==
    /\ bcpc = "idle"
    /\ daemonHeight' = len
    /\ bcpc' = IF height < len - 2 THEN "next" ELSE "fix"
    /\ cursor' = 0
    /\ updated' = 0
    /\ quiet' = TRUE
    /\ UNCHANGED <<daemonVars, height, blocks, faults, seen>>

(***************************************************************************)
(* BlockCache::update.                                                     *)
(***************************************************************************)
QueryHeight ==
    /\ bcpc = "idle"
    /\ daemonHeight' = len
    /\ bcpc' = IF height < len - 1 THEN "next" ELSE "fix"
    /\ cursor' = 0
    /\ updated' = 0
    /\ quiet' = TRUE
    /\ UNCHANGED <<daemonVars, height, blocks, faults, seen>>

(* Defect: the height is raised for the block and for the call.            *)
PushBlockTwice ==
    /\ blocks' = [k \in 0..(CacheSize - 1) |->
                    IF k = 0 THEN chain[height + 1] ELSE blocks[k - 1]]
    /\ height' = height + 2
    /\ updated' = 1

(* insert(0, new block), remove the last block, raise the height.          *)
PushBlock ==
    /\ blocks' = [k \in 0..(CacheSize - 1) |->
                    IF k = 0 THEN chain[height + 1] ELSE blocks[k - 1]]
    /\ height' = height + 1
    /\ updated' = 1

FetchNext ==
    /\ bcpc = "next"
    /\ height + 1 < len
    /\ PushBlock
    /\ bcpc' = "fix"
    /\ UNCHANGED <<daemonVars, daemonHeight, cursor, faults, quiet, seen>>

(* Defect: compares the heights and not the hashes.                        *)
BrokenByHeight(i) == blocks[i].height - 1 # blocks[i + 1].height

(* blocks[i] does not follow blocks[i + 1].                                *)
Broken(i) == PrevHash(blocks[i]) # Hash(blocks[i + 1])

(* Defects: asks for the block above; does not count the repaired block.   *)
RepairAbove(i) ==
    /\ blocks' = [blocks EXCEPT ![i + 1] = chain[height - i]]
    /\ updated' = IF updated = 0 THEN 2 ELSE updated + 1
RepairUncounted(i) ==
    /\ blocks' = [blocks EXCEPT ![i + 1] = chain[height - 1 - i]]
    /\ UNCHANGED updated

(* Replace blocks[i + 1] by what the daemon has at that height; updated is *)
(* max(updated, 1) + 1.                                                    *)
Repair(i) ==
    /\ blocks' = [blocks EXCEPT ![i + 1] = chain[height - 1 - i]]
    /\ updated' = IF updated = 0 THEN 2 ELSE updated + 1

(* One round of the loop of check_and_fix_reorg.                           *)
FixKeep ==
    /\ bcpc = "fix"
    /\ cursor < CacheSize - 1
    /\ ~Broken(cursor)
    /\ cursor' = cursor + 1
    /\ UNCHANGED <<daemonVars, bcpc, height, daemonHeight, blocks, updated, faults, quiet, seen>>

FixRepair ==
    /\ bcpc = "fix"
    /\ cursor < CacheSize - 1
    /\ Broken(cursor)
    /\ Repair(cursor)
    /\ cursor' = cursor + 1
    /\ UNCHANGED <<daemonVars, bcpc, height, daemonHeight, faults, quiet, seen>>

FixDone ==
    /\ bcpc = "fix"
    /\ cursor = CacheSize - 1
    /\ bcpc' = "done"
    /\ UNCHANGED <<daemonVars, height, daemonHeight, blocks, cursor, updated, faults, quiet, seen>>

(* The caller takes the result up and scans the newest `updated` blocks.   *)
TakeResult ==
    /\ bcpc = "done"
    /\ seen' = seen \cup {Hash(blocks[k]) : k \in 0..(updated - 1)}
    /\ bcpc' = "idle"
    /\ UNCHANGED <<daemonVars, height, daemonHeight, blocks, cursor, updated, faults, quiet>>

(* The pending RPC fails: init gives up, update returns early.             *)
RpcFail ==
    /\ \/ bcpc \in {"init", "next"}
       \/ bcpc = "fix" /\ cursor < CacheSize - 1 /\ Broken(cursor)
    /\ faults < MaxFaults
    /\ faults' = faults + 1
    /\ bcpc' = IF bcpc = "init" THEN "off" ELSE "idle"
    /\ blocks' = IF bcpc = "init" THEN Empty ELSE blocks
    /\ UNCHANGED <<daemonVars, height, daemonHeight, cursor, updated, quiet, seen>>

(* The daemon moves; a reorganisation disturbs an update that is under way.*)
DaemonStep ==
    /\ \/ (\E tx \in Tx : Submit(tx) \/ Evict(tx)) /\ UNCHANGED quiet
       \/ (\E txs \in SUBSET pool : Mine(txs)) /\ UNCHANGED quiet
       \/ Reorganise /\ quiet' = FALSE
    /\ UNCHANGED <<bcpc, height, daemonHeight, blocks, cursor, updated, faults, seen>>

Init == MonerodInit /\ CacheInit

(* Scanner::new keeps the starting height at CacheSize - 1 or above, and   *)
(* below the daemon's height whenever the chain is long enough.            *)
StartHeights == (CacheSize - 1)..((IF len > CacheSize THEN len ELSE CacheSize) - 1)

CacheStep ==
    \/ \E h \in StartHeights : StartInit(h)
    \/ InitFetch
    \/ InitTooShort
    \/ InitDone
    \/ QueryHeight
    \/ FetchNext
    \/ FixKeep
    \/ FixRepair
    \/ FixDone
    \/ TakeResult

Next ==
    \/ CacheStep
    \/ RpcFail
    \/ DaemonStep

(* The scan loop never stops calling update, so the cache's own steps go   *)
(* on; nothing is assumed of the daemon.                                   *)
Spec == Init /\ [][Next]_vars /\ WF_vars(CacheStep)

-----------------------------------------------------------------------------
(***************************************************************************)
(* Properties.                                                             *)
(***************************************************************************)

(* The block at index k of the window is one of height `height - k`, also  *)
(* after pushes, repairs and updates that failed half way: scan_blocks     *)
(* dates every transfer with that height.                                  *)
HeightsAligned == \A k \in DOMAIN blocks : blocks[k].height = height - k

(* A window that agrees with the daemon's chain down to its last block.    *)
OnChain == \A k \in DOMAIN blocks : blocks[k] = chain[height - k]

(* An update during which the daemon did not reorganise leaves the window  *)
(* equal to the daemon's chain, whatever failed or was reorganised before  *)
(* it and however deep: update and check_and_fix_reorg heal the cache.     *)
UpdateHeals ==
    (bcpc = "done" /\ quiet) => OnChain

(* As long as no RPC has failed, the number that update returns covers     *)
(* every block of the window that the scanner was not given yet, so that   *)
(* scan_blocks misses none, also when the daemon reorganises half way      *)
(* through a repair.                                                       *)
UpdateReportsNewBlocks ==
    (bcpc = "done" /\ faults = 0) =>
        \A k \in DOMAIN blocks : Hash(blocks[k]) \notin seen => k < updated

(* The window is never ahead of the chain, so block(height - k) asks for a *)
(* block that exists: a reorganisation cannot strand the cache above the   *)
(* daemon.                                                                 *)
NeverAhead == bcpc \in {"idle", "next", "fix", "done"} => height < len

(* Whatever the daemon does and whichever calls fail, when both are over   *)
(* the cache reaches the daemon's top block and agrees with its chain, or  *)
(* init has given up.                                                      *)
CatchesUp == <>[](bcpc \in {"off", "init"} \/ (height = len - 1 /\ OnChain))
=============================================================================
