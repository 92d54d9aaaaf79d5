------------------------------- MODULE Monerod -------------------------------
(***************************************************************************)
(* The Monero daemon as the gateway's RPC client sees it: a chain of       *)
(* blocks read by height, and a pool of transactions that no block holds   *)
(* yet.  The daemon is not part of the repository; what it may do is taken *)
(* from the calls that library/src/monerod_client/mod.rs makes and from    *)
(* the reorganisations that library/src/caching/block_cache.rs repairs.    *)
(*                                                                         *)
(* A block hash is the pair <<height, branch>>: every reorganisation opens *)
(* a branch with a number of its own, so two blocks with one hash are the  *)
(* same block, which is what a collision-free hash promises.               *)
(***************************************************************************)
EXTENDS Integers, FiniteSets

CONSTANTS
    Tx,             \* the transactions that may ever be relayed
    InitialLen,     \* number of blocks of the chain at the start
    MaxLen,         \* bound: number of blocks of the longest chain
    MaxReorgs,      \* bound: number of reorganisations
    MaxReorgDepth   \* bound: blocks that one reorganisation may orphan

ASSUME MonerodAssumption ==
    /\ InitialLen \in Nat \ {0}
    /\ MaxLen \in Nat
    /\ MaxReorgs \in Nat
    /\ MaxReorgDepth \in Nat

VARIABLES
    chain,      \* chain[h] is the block at height h of the main chain
    len,        \* what get_block_count answers
    branch,     \* number of the branch that the main chain ends on
    pool        \* transactions in the txpool

daemonVars == <<chain, len, branch, pool>>

(* A block holds what the gateway reads of it: its own hash (height and   *)
(* branch), the hash of its predecessor (height - 1 and prev) and its txs. *)
Block == [height : Nat, branch : Nat, prev : Nat, txs : SUBSET Tx]

MonerodTypeOK ==
    /\ len \in Nat \ {0}
    /\ chain \in [0..(len - 1) -> Block]
    /\ branch \in Nat
    /\ pool \in SUBSET Tx

MonerodInit ==
    /\ len = InitialLen
    /\ chain = [h \in 0..(InitialLen - 1) |->
                  [height |-> h, branch |-> 0, prev |-> 0, txs |-> {}]]
    /\ branch = 0
    /\ pool = {}

(* The transactions of the blocks of the main chain from height h on.      *)
MinedFrom(h) == UNION {chain[g].txs : g \in h..(len - 1)}

(* A transaction is relayed to the daemon.                                 *)
Submit(tx) ==
    /\ tx \notin pool
    /\ tx \notin MinedFrom(0)
    /\ pool' = pool \cup {tx}
    /\ UNCHANGED <<chain, len, branch>>

(* A transaction leaves the pool without having been mined.                *)
Evict(tx) ==
    /\ tx \in pool
    /\ pool' = pool \ {tx}
    /\ UNCHANGED <<chain, len, branch>>

(* The main chain grows by a block with the transactions txs of the pool.  *)
Mine(txs) ==
    /\ len < MaxLen
    /\ chain' = [h \in 0..len |->
                   IF h = len
                   THEN [height |-> len, branch |-> branch,
                         prev |-> chain[len - 1].branch, txs |-> txs]
                   ELSE chain[h]]
    /\ len' = len + 1
    /\ pool' = pool \ txs
    /\ UNCHANGED branch

(* The blocks from height fork on are orphaned and a branch takes their    *)
(* place that is one block longer (the daemon switches to a branch only    *)
(* when more work went into it).  The transactions that were orphaned or   *)
(* pooled are mined again at the height place gives them, or pooled when   *)
(* place gives none (-1).                                                  *)
Reorg(fork, place) ==
    /\ branch < MaxReorgs
    /\ len < MaxLen
    /\ chain' = [h \in 0..len |->
                   IF h < fork
                   THEN chain[h]
                   ELSE [height |-> h, branch |-> branch + 1,
                         prev |-> IF h = fork THEN chain[h - 1].branch ELSE branch + 1,
                         txs |-> {tx \in DOMAIN place : place[tx] = h}]]
    /\ len' = len + 1
    /\ branch' = branch + 1
    /\ pool' = {tx \in DOMAIN place : place[tx] = -1}

Reorganise ==
    \E fork \in {h \in 1..(len - 1) : h >= len - MaxReorgDepth} :
        \E place \in [pool \cup MinedFrom(fork) -> {-1} \cup fork..len] :
            Reorg(fork, place)
=============================================================================
