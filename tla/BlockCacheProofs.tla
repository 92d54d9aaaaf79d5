--------------------------- MODULE BlockCacheProofs ---------------------------
(***************************************************************************)
(* Proofs about BlockCache, for every cache size, every chain, every       *)
(* number and depth of reorganisations and every pattern of failing RPCs.  *)
(***************************************************************************)
EXTENDS BlockCache, TLAPS

(* The daemon's chain is linked, and no block is of a branch to come.      *)
ChainLinked ==
    \A h \in 0..(len - 1) :
        /\ chain[h].height = h
        /\ chain[h].branch <= branch
        /\ h > 0 => chain[h].prev = chain[h - 1].branch

(* The window lies within the chain and above height 0.                    *)
WindowInChain ==
    /\ bcpc # "off" => height >= CacheSize - 1
    /\ 0 \in DOMAIN blocks => height < len
    /\ bcpc = "next" => height + 1 < len

(* A cached block with the hash of a block of the chain is that block.     *)
HashesIdentify ==
    \A k \in DOMAIN blocks :
        /\ blocks[k].branch <= branch
        /\ blocks[k].branch = chain[height - k].branch => blocks[k] = chain[height - k]

(* A stale top block is never the daemon's last word: there is a block     *)
(* above it to fetch, which is what makes the next update notice.          *)
StaleTopIsCovered ==
    0 \in DOMAIN blocks => (blocks[0] = chain[height] \/ height + 1 < len)

(* What check_and_fix_reorg has looked at so far.                          *)
RepairedSoFar ==
    /\ bcpc = "next" => cursor = 0
    /\ bcpc \in {"fix", "done"} => cursor <= CacheSize - 1 /\ updated <= cursor + 1
    /\ bcpc = "done" => cursor = CacheSize - 1
    /\ (bcpc \in {"fix", "done"} /\ quiet) =>
            \A k \in 0..cursor : blocks[k] = chain[height - k]

IInv ==
    /\ TypeOK
    /\ HeightsAligned
    /\ ChainLinked
    /\ WindowInChain
    /\ HashesIdentify
    /\ StaleTopIsCovered
    /\ RepairedSoFar

-----------------------------------------------------------------------------

USE MonerodAssumption, BlockCacheAssumption DEF MonerodAssumption, BlockCacheAssumption

(* Every state the gateway starts from satisfies the inductive invariant.  *)
LEMMA InitIInv == Init => IInv
<1> SUFFICES ASSUME Init PROVE IInv
  OBVIOUS
<1> USE DEF Init, MonerodInit, CacheInit
<1>1. blocks = Empty /\ DOMAIN blocks = {} /\ Window = {}
  BY DEF Empty, Window
<1>2. MonerodTypeOK
  BY DEF MonerodTypeOK, Block
<1>3. TypeOK
  BY <1>1, <1>2 DEF TypeOK, Stages, Empty
<1>4. ChainLinked
  BY DEF ChainLinked
<1> QED
  BY <1>1, <1>3, <1>4 DEF IInv, HeightsAligned, WindowInChain, HashesIdentify,
       StaleTopIsCovered, RepairedSoFar

(* Filling the window keeps the inductive invariant.                       *)
LEMMA StartKeeps ==
    ASSUME IInv, NEW h \in StartHeights, StartInit(h) PROVE IInv'
<1> USE DEF StartInit, daemonVars
<1>1. DOMAIN blocks' = {} /\ Window' = {} /\ blocks' \in [{} -> Block]
  BY DEF Empty, Window
<1>2. h \in Nat /\ h >= CacheSize - 1
  BY DEF StartHeights, IInv, TypeOK, MonerodTypeOK
<1>3. TypeOK'
  BY <1>1, <1>2 DEF IInv, TypeOK, MonerodTypeOK, Stages
<1>4. ChainLinked'
  BY DEF IInv, ChainLinked
<1> QED
  BY <1>1, <1>2, <1>3, <1>4 DEF IInv, HeightsAligned, WindowInChain, HashesIdentify,
       StaleTopIsCovered, RepairedSoFar

(* Fetching the next older block of the window keeps the invariant.        *)
LEMMA InitFetchKeeps == ASSUME IInv, InitFetch PROVE IInv'
<1> USE DEF InitFetch, daemonVars
<1>0. Window = 0..(cursor - 1)
  BY DEF Window
<1>1. /\ height \in Nat /\ cursor \in 0..CacheSize /\ len \in Nat \ {0}
      /\ height - cursor \in 0..(len - 1)
      /\ blocks \in [0..(cursor - 1) -> Block]
  BY <1>0 DEF IInv, TypeOK, MonerodTypeOK, WindowInChain
<1>2. chain[height - cursor] \in Block
  BY <1>1 DEF IInv, TypeOK, MonerodTypeOK
<1>3. DOMAIN blocks' = 0..cursor /\ Window' = 0..(cursor' - 1) /\ cursor' - 1 = cursor
  BY <1>1 DEF Window
<1>4. \A k \in 0..cursor : blocks'[k] = IF k = cursor THEN chain[height - cursor] ELSE blocks[k]
  OBVIOUS
<1>5. \A k \in 0..cursor : k # cursor => k \in DOMAIN blocks /\ blocks[k] \in Block
  BY <1>1
<1>6. blocks' \in [Window' -> Block]
  BY <1>2, <1>3, <1>5
<1>7. TypeOK'
  <2>1. MonerodTypeOK'
    BY DEF IInv, TypeOK, MonerodTypeOK
  <2>2. cursor' \in 0..CacheSize
    BY <1>1
  <2> QED BY <1>6, <2>1, <2>2 DEF IInv, TypeOK
<1>8. HeightsAligned'
  <2> SUFFICES ASSUME NEW k \in 0..cursor PROVE blocks'[k].height = height - k
    BY <1>3 DEF HeightsAligned
  <2>1. CASE k = cursor
    BY <2>1, <1>1, <1>4 DEF IInv, ChainLinked
  <2>2. CASE k # cursor
    BY <2>2, <1>4, <1>5 DEF IInv, HeightsAligned
  <2> QED BY <2>1, <2>2
<1>9. ChainLinked'
  BY DEF IInv, ChainLinked
<1>10. WindowInChain'
  BY <1>1 DEF IInv, WindowInChain
<1>11. HashesIdentify'
  <2> SUFFICES ASSUME NEW k \in 0..cursor
               PROVE /\ blocks'[k].branch <= branch
                     /\ blocks'[k].branch = chain[height - k].branch
                           => blocks'[k] = chain[height - k]
    BY <1>3 DEF HashesIdentify
  <2>1. CASE k = cursor
    BY <2>1, <1>1, <1>4 DEF IInv, ChainLinked
  <2>2. CASE k # cursor
    BY <2>2, <1>4, <1>5 DEF IInv, HashesIdentify
  <2> QED BY <2>1, <2>2
<1>12. StaleTopIsCovered'
  <2>1. CASE cursor = 0
    BY <2>1, <1>1, <1>4 DEF StaleTopIsCovered
  <2>2. CASE cursor # 0
    BY <2>2, <1>1, <1>4, <1>5 DEF IInv, StaleTopIsCovered
  <2> QED BY <2>1, <2>2
<1>13. RepairedSoFar'
  BY DEF RepairedSoFar
<1> QED
  BY <1>7, <1>8, <1>9, <1>10, <1>11, <1>12, <1>13 DEF IInv

(* A step that leaves the chain, the height and every cached block alone.  *)
LEMMA FrameKeeps ==
    ASSUME IInv, UNCHANGED <<chain, len, branch, height, blocks>>,
           TypeOK', RepairedSoFar',
           bcpc' # "off" => bcpc # "off",
           bcpc' = "next" => height + 1 < len
    PROVE  IInv'
BY DEF IInv, HeightsAligned, ChainLinked, WindowInChain, HashesIdentify, StaleTopIsCovered

(* Giving up during init drops the window.                                 *)
LEMMA GiveUpKeeps ==
    ASSUME IInv, UNCHANGED <<chain, len, branch, height>>,
           bcpc' = "off", blocks' = Empty, TypeOK'
    PROVE  IInv'
<1>1. DOMAIN blocks' = {}
  BY DEF Empty
<1> QED
  BY <1>1 DEF IInv, HeightsAligned, ChainLinked, WindowInChain, HashesIdentify,
       StaleTopIsCovered, RepairedSoFar

(* The steps of init and update that do not touch the window keep the      *)
(* inductive invariant.                                                    *)
LEMMA InitDoneKeeps == ASSUME IInv, InitDone PROVE IInv'
<1> USE DEF InitDone, daemonVars
<1>1. Window = 0..(CacheSize - 1) /\ Window' = 0..(CacheSize - 1)
  BY DEF Window
<1>2. \A k \in DOMAIN blocks : Hash(blocks[k]) \in Nat \X Nat
  BY DEF IInv, TypeOK, Block, Hash
<1>3. MonerodTypeOK'
  BY DEF IInv, TypeOK, MonerodTypeOK
<1>4. TypeOK'
  BY <1>1, <1>2, <1>3 DEF IInv, TypeOK, Stages
<1>5. RepairedSoFar'
  BY DEF RepairedSoFar
<1> QED
  BY <1>4, <1>5, FrameKeeps

(* So does giving up because the chain is too short,                       *)
LEMMA InitTooShortKeeps == ASSUME IInv, InitTooShort PROVE IInv'
<1> USE DEF InitTooShort, daemonVars
<1>1. Window' = {} /\ blocks' \in [{} -> Block]
  BY DEF Window, Empty
<1>2. MonerodTypeOK'
  BY DEF IInv, TypeOK, MonerodTypeOK
<1>3. TypeOK'
  BY <1>1, <1>2 DEF IInv, TypeOK, Stages
<1> QED
  BY <1>3, GiveUpKeeps

(* beginning an update,                                                    *)
LEMMA QueryHeightKeeps == ASSUME IInv, QueryHeight PROVE IInv'
<1> USE DEF QueryHeight, daemonVars
<1>1. Window = 0..(CacheSize - 1) /\ Window' = 0..(CacheSize - 1)
  BY DEF Window
<1>2. MonerodTypeOK'
  BY DEF IInv, TypeOK, MonerodTypeOK
<1>3. len \in Nat \ {0} /\ height \in Nat /\ 0 \in DOMAIN blocks /\ height < len
  BY <1>1 DEF IInv, TypeOK, MonerodTypeOK, WindowInChain
<1>4. TypeOK'
  BY <1>1, <1>2, <1>3 DEF IInv, TypeOK, Stages
<1>5. bcpc' = "fix" => \A k \in 0..0 : blocks[k] = chain[height - k]
  BY <1>3 DEF IInv, StaleTopIsCovered
<1>6. RepairedSoFar'
  BY <1>5 DEF RepairedSoFar
<1> QED
  BY <1>3, <1>4, <1>6, FrameKeeps

(* finding that two neighbouring blocks fit,                               *)
LEMMA FixKeepKeeps == ASSUME IInv, FixKeep PROVE IInv'
<1> USE DEF FixKeep, daemonVars
<1>1. Window = 0..(CacheSize - 1) /\ Window' = 0..(CacheSize - 1)
  BY DEF Window
<1>2. MonerodTypeOK'
  BY DEF IInv, TypeOK, MonerodTypeOK
<1>3. /\ cursor \in 0..(CacheSize - 2) /\ height \in Nat /\ height >= CacheSize - 1
      /\ len \in Nat \ {0} /\ height < len
      /\ blocks \in [0..(CacheSize - 1) -> Block]
  BY <1>1 DEF IInv, TypeOK, MonerodTypeOK, WindowInChain
<1>4. TypeOK'
  BY <1>1, <1>2, <1>3 DEF IInv, TypeOK
<1>5. ASSUME quiet, NEW k \in 0..(cursor + 1) PROVE blocks[k] = chain[height - k]
  <2>1. CASE k \in 0..cursor
    BY <1>5, <2>1 DEF IInv, RepairedSoFar
  <2>2. CASE k = cursor + 1
    <3>1. blocks[cursor] = chain[height - cursor]
      BY <1>3, <1>5 DEF IInv, RepairedSoFar
    <3>2. chain[height - cursor].prev = chain[height - cursor - 1].branch
      BY <1>3 DEF IInv, ChainLinked
    <3>3. blocks[cursor].prev = blocks[cursor + 1].branch
      BY DEF Broken, PrevHash, Hash
    <3>4. blocks[cursor + 1].branch = chain[height - (cursor + 1)].branch
      BY <3>1, <3>2, <3>3, <1>3
    <3> QED
      BY <2>2, <3>4, <1>3 DEF IInv, HashesIdentify
  <2> QED
    BY <1>3, <2>1, <2>2
<1>6. RepairedSoFar'
  BY <1>3, <1>5 DEF IInv, TypeOK, RepairedSoFar
<1> QED
  BY <1>4, <1>6, FrameKeeps

(* ending check_and_fix_reorg,                                             *)
LEMMA FixDoneKeeps == ASSUME IInv, FixDone PROVE IInv'
<1> USE DEF FixDone, daemonVars
<1>1. Window' = Window
  BY DEF Window
<1>2. MonerodTypeOK'
  BY DEF IInv, TypeOK, MonerodTypeOK
<1>3. TypeOK'
  BY <1>1, <1>2 DEF IInv, TypeOK, Stages
<1>4. RepairedSoFar'
  BY DEF IInv, RepairedSoFar
<1> QED
  BY <1>3, <1>4, FrameKeeps

(* and handing the result to the scanner.                                  *)
LEMMA TakeResultKeeps == ASSUME IInv, TakeResult PROVE IInv'
<1> USE DEF TakeResult, daemonVars
<1>1. Window = 0..(CacheSize - 1) /\ Window' = 0..(CacheSize - 1)
  BY DEF Window
<1>2. \A k \in 0..(updated - 1) : Hash(blocks[k]) \in Nat \X Nat
  BY <1>1 DEF IInv, TypeOK, Block, Hash
<1>3. MonerodTypeOK'
  BY DEF IInv, TypeOK, MonerodTypeOK
<1>4. TypeOK'
  BY <1>1, <1>2, <1>3 DEF IInv, TypeOK, Stages
<1>5. RepairedSoFar'
  BY DEF RepairedSoFar
<1> QED
  BY <1>4, <1>5, FrameKeeps

(* A failing call keeps the inductive invariant.                           *)
LEMMA RpcFailKeeps == ASSUME IInv, RpcFail PROVE IInv'
<1> USE DEF RpcFail, daemonVars
<1>1. MonerodTypeOK'
  BY DEF IInv, TypeOK, MonerodTypeOK
<1>2. faults' \in 0..MaxFaults
  BY DEF IInv, TypeOK
<1>3. CASE bcpc = "init"
  <2>1. Window' = {} /\ blocks' \in [{} -> Block]
    BY <1>3 DEF Window, Empty
  <2>2. TypeOK'
    BY <1>1, <1>2, <1>3, <2>1 DEF IInv, TypeOK, Stages
  <2> QED
    BY <1>3, <2>2, GiveUpKeeps
<1>4. CASE bcpc # "init"
  <2>1. Window = 0..(CacheSize - 1) /\ Window' = 0..(CacheSize - 1)
    BY <1>4 DEF Window
  <2>2. TypeOK'
    BY <1>1, <1>2, <1>4, <2>1 DEF IInv, TypeOK, Stages
  <2>3. RepairedSoFar'
    BY <1>4 DEF RepairedSoFar
  <2> QED
    BY <1>4, <2>2, <2>3, FrameKeeps
<1> QED
  BY <1>3, <1>4

(* Pushing the next block keeps the inductive invariant.                   *)
LEMMA FetchNextKeeps == ASSUME IInv, FetchNext PROVE IInv'
<1> USE DEF FetchNext, PushBlock, daemonVars
<1>1. Window = 0..(CacheSize - 1) /\ Window' = 0..(CacheSize - 1)
  BY DEF Window
<1>2. /\ height \in Nat /\ height >= CacheSize - 1 /\ len \in Nat \ {0}
      /\ blocks \in [0..(CacheSize - 1) -> Block]
      /\ chain[height + 1] \in Block
      /\ cursor = 0
  BY <1>1 DEF IInv, TypeOK, MonerodTypeOK, WindowInChain, RepairedSoFar
<1>3. DOMAIN blocks' = 0..(CacheSize - 1) /\ blocks' \in [0..(CacheSize - 1) -> Block]
  BY <1>2
<1>4. \A k \in 0..(CacheSize - 1) :
        blocks'[k] = IF k = 0 THEN chain[height + 1] ELSE blocks[k - 1]
  OBVIOUS
<1>5. \A k \in 0..(CacheSize - 1) : k # 0 =>
        k - 1 \in DOMAIN blocks /\ height' - k = height - (k - 1)
  BY <1>2
<1>6. TypeOK'
  <2>1. MonerodTypeOK'
    BY DEF IInv, TypeOK, MonerodTypeOK
  <2> QED
    BY <1>1, <1>2, <1>3, <2>1 DEF IInv, TypeOK, Stages
<1>7. HeightsAligned'
  <2> SUFFICES ASSUME NEW k \in 0..(CacheSize - 1)
               PROVE  blocks'[k].height = height' - k
    BY <1>3 DEF HeightsAligned
  <2>1. CASE k = 0
    BY <2>1, <1>2, <1>4 DEF IInv, ChainLinked
  <2>2. CASE k # 0
    BY <2>2, <1>4, <1>5 DEF IInv, HeightsAligned
  <2> QED BY <2>1, <2>2
<1>8. ChainLinked'
  BY DEF IInv, ChainLinked
<1>9. WindowInChain'
  BY <1>2 DEF WindowInChain
<1>10. HashesIdentify'
  <2> SUFFICES ASSUME NEW k \in 0..(CacheSize - 1)
               PROVE /\ blocks'[k].branch <= branch
                     /\ blocks'[k].branch = chain[height' - k].branch
                           => blocks'[k] = chain[height' - k]
    BY <1>3 DEF HashesIdentify
  <2>1. CASE k = 0
    BY <2>1, <1>2, <1>4 DEF IInv, ChainLinked
  <2>2. CASE k # 0
    BY <2>2, <1>4, <1>5 DEF IInv, HashesIdentify
  <2> QED BY <2>1, <2>2
<1>11. blocks'[0] = chain[height']
  BY <1>4
<1>12. StaleTopIsCovered' /\ RepairedSoFar'
  BY <1>2, <1>11 DEF StaleTopIsCovered, RepairedSoFar
<1> QED
  BY <1>6, <1>7, <1>8, <1>9, <1>10, <1>12 DEF IInv

(* Replacing a block that does not fit keeps the inductive invariant.      *)
LEMMA FixRepairKeeps == ASSUME IInv, FixRepair PROVE IInv'
<1> USE DEF FixRepair, Repair, daemonVars
<1>1. Window = 0..(CacheSize - 1) /\ Window' = 0..(CacheSize - 1)
  BY DEF Window
<1>2. /\ cursor \in 0..(CacheSize - 2) /\ height \in Nat /\ height >= CacheSize - 1
      /\ len \in Nat \ {0} /\ height < len
      /\ blocks \in [0..(CacheSize - 1) -> Block]
      /\ updated \in Nat /\ updated <= cursor + 1
  BY <1>1 DEF IInv, TypeOK, MonerodTypeOK, WindowInChain, RepairedSoFar
<1>3. height - 1 - cursor = height - (cursor + 1) /\ height - 1 - cursor \in 0..(len - 1)
  BY <1>2
<1>4. chain[height - 1 - cursor] \in Block
  BY <1>3 DEF IInv, TypeOK, MonerodTypeOK
<1>5. DOMAIN blocks' = 0..(CacheSize - 1) /\ blocks' \in [0..(CacheSize - 1) -> Block]
  BY <1>2, <1>4
<1>6. \A k \in 0..(CacheSize - 1) :
        blocks'[k] = IF k = cursor + 1 THEN chain[height - (cursor + 1)] ELSE blocks[k]
  BY <1>2, <1>3
<1>7. updated' \in Nat /\ updated' <= cursor' + 1 /\ cursor' \in 0..(CacheSize - 1)
  BY <1>2
<1>8. TypeOK'
  <2>1. MonerodTypeOK'
    BY DEF IInv, TypeOK, MonerodTypeOK
  <2> QED
    BY <1>1, <1>5, <1>7, <2>1 DEF IInv, TypeOK, Stages
<1>9. HeightsAligned'
  <2> SUFFICES ASSUME NEW k \in 0..(CacheSize - 1)
               PROVE  blocks'[k].height = height - k
    BY <1>5 DEF HeightsAligned
  <2>1. CASE k = cursor + 1
    BY <2>1, <1>3, <1>6 DEF IInv, ChainLinked
  <2>2. CASE k # cursor + 1
    BY <2>2, <1>2, <1>6 DEF IInv, HeightsAligned
  <2> QED BY <2>1, <2>2
<1>10. ChainLinked' /\ WindowInChain'
  BY <1>2 DEF IInv, ChainLinked, WindowInChain
<1>11. HashesIdentify'
  <2> SUFFICES ASSUME NEW k \in 0..(CacheSize - 1)
               PROVE /\ blocks'[k].branch <= branch
                     /\ blocks'[k].branch = chain[height - k].branch
                           => blocks'[k] = chain[height - k]
    BY <1>5 DEF HashesIdentify
  <2>1. CASE k = cursor + 1
    BY <2>1, <1>3, <1>6 DEF IInv, ChainLinked
  <2>2. CASE k # cursor + 1
    BY <2>2, <1>2, <1>6 DEF IInv, HashesIdentify
  <2> QED BY <2>1, <2>2
<1>12. StaleTopIsCovered'
  BY <1>2, <1>5, <1>6 DEF IInv, StaleTopIsCovered
<1>13. ASSUME quiet, NEW k \in 0..(cursor + 1) PROVE blocks'[k] = chain[height - k]
  <2>1. CASE k = cursor + 1
    BY <2>1, <1>2, <1>6
  <2>2. CASE k # cursor + 1
    <3>1. k \in 0..cursor
      BY <2>2, <1>2
    <3> QED
      BY <3>1, <2>2, <1>2, <1>6, <1>13 DEF IInv, RepairedSoFar
  <2> QED BY <2>1, <2>2
<1>14. RepairedSoFar'
  BY <1>2, <1>7, <1>13 DEF RepairedSoFar
<1> QED
  BY <1>8, <1>9, <1>10, <1>11, <1>12, <1>14 DEF IInv

(* A step of the daemon that keeps the blocks under the window's height    *)
(* linked keeps the inductive invariant, provided it extends the chain or  *)
(* replaces blocks by ones of a new branch.                                *)
LEMMA GrowthKeeps ==
    ASSUME IInv, MonerodTypeOK', ChainLinked',
           UNCHANGED <<bcpc, height, daemonHeight, blocks, cursor, updated, faults, seen>>,
           quiet' \in BOOLEAN,
           len' = len + 1, branch' >= branch,
           \A h \in 0..(len - 1) : chain'[h] = chain[h] \/ chain'[h].branch > branch,
           quiet' => quiet /\ \A h \in 0..(len - 1) : chain'[h] = chain[h]
    PROVE  IInv'
<1>1. Window' = Window
  BY DEF Window
<1>2. TypeOK'
  BY <1>1 DEF IInv, TypeOK
<1>3. branch \in Nat /\ len \in Nat \ {0} /\ height \in Nat /\ DOMAIN blocks = Window
      /\ branch' \in Nat
  BY DEF IInv, TypeOK, MonerodTypeOK
<1>4. \A k \in DOMAIN blocks : 0 \in DOMAIN blocks /\ k \in 0..(CacheSize - 1)
  BY <1>3, SMTT(30) DEF IInv, TypeOK, Window, Stages
<1>5. \A k \in DOMAIN blocks : height - k \in 0..(len - 1)
  <2> TAKE k \in DOMAIN blocks
  <2>1. k \in 0..(CacheSize - 1) /\ height < len
    BY <1>4 DEF IInv, WindowInChain
  <2>2. height >= CacheSize - 1
    BY <1>3 DEF IInv, WindowInChain, Window
  <2> QED BY <1>3, <2>1, <2>2
<1>6. HeightsAligned' /\ WindowInChain'
  BY <1>3 DEF IInv, HeightsAligned, WindowInChain
<1>7. HashesIdentify'
  <2> SUFFICES ASSUME NEW k \in DOMAIN blocks
               PROVE /\ blocks[k].branch <= branch'
                     /\ blocks[k].branch = chain'[height - k].branch
                           => blocks[k] = chain'[height - k]
    BY DEF HashesIdentify
  <2>1. blocks[k].branch \in Nat /\ blocks[k].branch <= branch
    BY <1>3 DEF IInv, HashesIdentify, TypeOK, Block
  <2>2. CASE chain'[height - k] = chain[height - k]
    BY <2>1, <2>2, <1>3 DEF IInv, HashesIdentify
  <2>3. CASE chain'[height - k].branch > branch
    <3>1. blocks[k].branch # chain'[height - k].branch
      BY <2>1, <2>3, <1>3
    <3> QED BY <2>1, <1>3, <3>1
  <2> QED BY <1>5, <2>2, <2>3
<1>8. StaleTopIsCovered'
  BY <1>3 DEF IInv, WindowInChain, StaleTopIsCovered
<1>9. RepairedSoFar'
  <2>1. ASSUME bcpc \in {"fix", "done"}, quiet', NEW k \in 0..cursor
        PROVE  blocks[k] = chain'[height - k]
    <3>0. Window = 0..(CacheSize - 1) /\ cursor <= CacheSize - 1 /\ cursor \in Nat
      BY <2>1, SMTT(30) DEF IInv, TypeOK, Window, RepairedSoFar
    <3>1. k \in DOMAIN blocks
      BY <3>0, <1>3
    <3>2. height - k \in 0..(len - 1)
      BY <3>1, <1>5
    <3> QED BY <2>1, <3>2 DEF IInv, RepairedSoFar
  <2> QED BY <2>1 DEF IInv, RepairedSoFar
<1> QED
  BY <1>2, <1>6, <1>7, <1>8, <1>9 DEF IInv

(* Whatever the daemon does keeps the inductive invariant.                 *)
LEMMA DaemonStepKeeps == ASSUME IInv, DaemonStep PROVE IInv'
<1> USE DEF DaemonStep
<1>0. len \in Nat \ {0} /\ branch \in Nat /\ pool \in SUBSET Tx
      /\ chain \in [0..(len - 1) -> Block]
  BY DEF IInv, TypeOK, MonerodTypeOK
<1>1. CASE (\E tx \in Tx : Submit(tx) \/ Evict(tx)) /\ UNCHANGED quiet
  <2>1. pool' \in SUBSET Tx /\ UNCHANGED <<chain, len, branch>>
    BY <1>0, <1>1 DEF Submit, Evict
  <2>2. MonerodTypeOK'
    BY <2>1 DEF IInv, TypeOK, MonerodTypeOK
  <2>3. Window' = Window
    BY DEF Window
  <2>4. TypeOK'
    BY <1>1, <2>2, <2>3 DEF IInv, TypeOK
  <2>5. RepairedSoFar'
    BY <1>1, <2>1 DEF IInv, RepairedSoFar
  <2>6. bcpc' = "next" => height + 1 < len
    BY DEF IInv, WindowInChain
  <2> QED
    BY <2>1, <2>4, <2>5, <2>6, FrameKeeps
<1>2. CASE (\E txs \in SUBSET pool : Mine(txs)) /\ UNCHANGED quiet
  <2> PICK txs \in SUBSET pool : Mine(txs)
    BY <1>2
  <2> DEFINE top == [height |-> len, branch |-> branch,
                     prev |-> chain[len - 1].branch, txs |-> txs]
  <2>1. /\ len' = len + 1 /\ branch' = branch /\ pool' = pool \ txs
        /\ chain' = [h \in 0..len |-> IF h = len THEN top ELSE chain[h]]
    BY DEF Mine
  <2>2. top \in Block
    BY <1>0 DEF Block
  <2>3. MonerodTypeOK'
    BY <1>0, <2>1, <2>2 DEF MonerodTypeOK
  <2>4. \A h \in 0..(len - 1) : chain'[h] = chain[h]
    BY <1>0, <2>1
  <2>5. chain'[len] = top
    BY <1>0, <2>1
  <2>6. ChainLinked'
    <3>0. len' - 1 = len
      BY <1>0, <2>1
    <3> SUFFICES ASSUME NEW h \in 0..len
                 PROVE /\ chain'[h].height = h /\ chain'[h].branch <= branch
                       /\ h > 0 => chain'[h].prev = chain'[h - 1].branch
      BY <2>1, <3>0 DEF ChainLinked
    <3>1. CASE h = len
      BY <3>1, <1>0, <2>4, <2>5
    <3>2. CASE h # len
      <4>1. h \in 0..(len - 1)
        BY <3>2, <1>0
      <4> QED BY <4>1, <1>0, <2>4 DEF IInv, ChainLinked
    <3> QED BY <3>1, <3>2
  <2>7. quiet' \in BOOLEAN
    BY <1>2 DEF IInv, TypeOK
  <2> HIDE DEF top
  <2> QED
    BY <1>0, <1>2, <2>1, <2>3, <2>4, <2>6, <2>7, GrowthKeeps
<1>3. CASE Reorganise /\ quiet' = FALSE
  <2> PICK fork \in {h \in 1..(len - 1) : h >= len - MaxReorgDepth} :
           \E place \in [pool \cup MinedFrom(fork) -> {-1} \cup fork..len] :
              Reorg(fork, place)
    BY <1>3 DEF Reorganise
  <2> PICK place \in [pool \cup MinedFrom(fork) -> {-1} \cup fork..len] : Reorg(fork, place)
    OBVIOUS
  <2> DEFINE fresh(h) == [height |-> h, branch |-> branch + 1,
                        prev |-> IF h = fork THEN chain[h - 1].branch ELSE branch + 1,
                        txs |-> {tx \in DOMAIN place : place[tx] = h}]
  <2>1. /\ len' = len + 1 /\ branch' = branch + 1
        /\ pool' = {tx \in DOMAIN place : place[tx] = -1}
        /\ chain' = [h \in 0..len |-> IF h < fork THEN chain[h] ELSE fresh(h)]
    BY DEF Reorg
  <2>2. DOMAIN place \subseteq Tx
    BY <1>0 DEF MinedFrom, Block
  <2>3. fork \in 1..(len - 1) /\ \A h \in 0..len : h < fork => h \in 0..(len - 1)
    BY <1>0
  <2>4. \A h \in 0..len : h >= fork =>
          /\ fresh(h) \in Block
          /\ fresh(h).height = h /\ fresh(h).branch = branch + 1
          /\ fresh(h).prev = IF h = fork THEN chain[h - 1].branch ELSE branch + 1
    BY <1>0, <2>2, <2>3 DEF Block
  <2> HIDE DEF fresh
  <2>5. \A h \in 0..len : h < fork => chain'[h] = chain[h]
    BY <2>1
  <2>6. \A h \in 0..len : h >= fork => chain'[h] = fresh(h)
    BY <2>1, <2>3
  <2>7. MonerodTypeOK'
    <3>1. \A h \in 0..len : chain'[h] \in Block
      BY <1>0, <2>3, <2>4, <2>5, <2>6
    <3>2. chain' \in [0..len -> Block]
      BY <2>1, <3>1
    <3>3. pool' \in SUBSET Tx
      BY <2>1, <2>2
    <3> QED BY <1>0, <2>1, <3>2, <3>3 DEF MonerodTypeOK
  <2>8. ChainLinked'
    <3>0. len' - 1 = len /\ branch' = branch + 1
      BY <1>0, <2>1
    <3> SUFFICES ASSUME NEW h \in 0..len
                 PROVE /\ chain'[h].height = h /\ chain'[h].branch <= branch'
                       /\ h > 0 => chain'[h].prev = chain'[h - 1].branch
      BY <3>0 DEF ChainLinked
    <3>1. CASE h < fork
      <4>1. h \in 0..(len - 1) /\ (h > 0 => h - 1 < fork /\ h - 1 \in 0..len)
        BY <3>1, <1>0, <2>3
      <4>2. chain[h].branch \in Nat /\ chain[h].branch <= branch
        BY <4>1, <1>0 DEF Block, IInv, ChainLinked
      <4>3. chain'[h] = chain[h] /\ (h > 0 => chain'[h - 1] = chain[h - 1])
        BY <3>1, <4>1, <2>5
      <4>4. chain[h].height = h /\ (h > 0 => chain[h].prev = chain[h - 1].branch)
        BY <4>1 DEF IInv, ChainLinked
      <4> QED BY <4>2, <4>3, <4>4, <1>0, <3>0
    <3>2. CASE h = fork
      <4>1. chain'[h] = fresh(h) /\ chain'[h - 1] = chain[h - 1]
        BY <3>2, <1>0, <2>3, <2>5, <2>6
      <4> QED BY <3>2, <4>1, <1>0, <2>4, <3>0
    <3>3. CASE h > fork
      <4>1. h - 1 \in 0..len /\ h - 1 >= fork /\ h # fork /\ h >= fork
        BY <3>3, <1>0, <2>3
      <4>2. chain'[h] = fresh(h) /\ chain'[h - 1] = fresh(h - 1)
        BY <4>1, <2>6
      <4> QED BY <4>1, <4>2, <1>0, <2>4, <3>0
    <3> QED BY <3>1, <3>2, <3>3, <1>0, <2>3
  <2>9. \A h \in 0..(len - 1) : chain'[h] = chain[h] \/ chain'[h].branch > branch
    <3> TAKE h \in 0..(len - 1)
    <3>1. CASE h < fork
      BY <3>1, <1>0, <2>5
    <3>2. CASE h >= fork
      BY <3>2, <1>0, <2>4, <2>6
    <3> QED BY <3>1, <3>2, <1>0, <2>3
  <2>10. len' = len + 1 /\ branch' >= branch
    BY <1>0, <2>1
  <2>11. quiet' \in BOOLEAN /\ ~quiet'
    BY <1>3
  <2> QED
    BY <2>7, <2>8, <2>9, <2>10, <2>11, GrowthKeeps
<1> QED
  BY <1>1, <1>2, <1>3

-----------------------------------------------------------------------------
(* Every step of the block cache and of the daemon keeps the inductive     *)
(* invariant.                                                              *)
LEMMA StepIInv == ASSUME IInv, [Next]_vars PROVE IInv'
<1>1. CASE \E h \in StartHeights : StartInit(h)
  BY <1>1, StartKeeps
<1>2. CASE InitFetch
  BY <1>2, InitFetchKeeps
<1>3. CASE InitTooShort
  BY <1>3, InitTooShortKeeps
<1>4. CASE InitDone
  BY <1>4, InitDoneKeeps
<1>5. CASE QueryHeight
  BY <1>5, QueryHeightKeeps
<1>6. CASE FetchNext
  BY <1>6, FetchNextKeeps
<1>7. CASE FixKeep
  BY <1>7, FixKeepKeeps
<1>8. CASE FixRepair
  BY <1>8, FixRepairKeeps
<1>9. CASE FixDone
  BY <1>9, FixDoneKeeps
<1>10. CASE TakeResult
  BY <1>10, TakeResultKeeps
<1>11. CASE RpcFail
  BY <1>11, RpcFailKeeps
<1>12. CASE DaemonStep
  BY <1>12, DaemonStepKeeps
<1>13. CASE UNCHANGED vars
  <2>1. Window' = Window
    BY <1>13 DEF vars, cacheVars, Window
  <2>2. TypeOK'
    BY <1>13, <2>1 DEF vars, daemonVars, cacheVars, IInv, TypeOK, MonerodTypeOK
  <2>3. RepairedSoFar'
    BY <1>13 DEF vars, daemonVars, cacheVars, IInv, RepairedSoFar
  <2> QED
    BY <1>13, <2>2, <2>3, FrameKeeps DEF vars, daemonVars, cacheVars, IInv, WindowInChain
<1> QED
  BY <1>1, <1>2, <1>3, <1>4, <1>5, <1>6, <1>7, <1>8, <1>9, <1>10, <1>11, <1>12, <1>13
     DEF Next, CacheStep

(* The inductive invariant holds in every state of every behaviour.        *)
THEOREM Invariance == Spec => []IInv
<1>1. Init => IInv
  BY InitIInv
<1>2. IInv /\ [Next]_vars => IInv'
  BY StepIInv
<1> QED
  BY <1>1, <1>2, PTL DEF Spec

(* Type correctness.  It bounds `updated` by the size of the window, which *)
(* is what keeps the index of scan_blocks (blocks()[i]) in range.          *)
THEOREM TypeCorrect == Spec => []TypeOK
<1>1. IInv => TypeOK
  BY DEF IInv
<1> QED
  BY <1>1, Invariance, PTL

(* The block at index k of the window is one of height `height - k`, the   *)
(* height scan_blocks gives its transfers.                                 *)
THEOREM Aligned == Spec => []HeightsAligned
<1>1. IInv => HeightsAligned
  BY DEF IInv
<1> QED
  BY <1>1, Invariance, PTL

(* The cache is never ahead of the daemon.                                 *)
THEOREM NotAhead == Spec => []NeverAhead
<1>1. ASSUME IInv, bcpc \in {"idle", "next", "fix", "done"} PROVE height < len
  <2>1. Window = 0..(CacheSize - 1)
    BY <1>1 DEF Window
  <2>2. 0 \in DOMAIN blocks
    BY <1>1, <2>1 DEF IInv, TypeOK
  <2> QED BY <1>1, <2>2 DEF IInv, WindowInChain
<1>2. IInv => NeverAhead
  BY <1>1 DEF NeverAhead
<1> QED
  BY <1>2, Invariance, PTL

(* An update that no reorganisation disturbed leaves the window equal to   *)
(* the daemon's chain, for reorganisations of any depth and after any      *)
(* number of updates that failed half way.                                 *)
THEOREM Heals == Spec => []UpdateHeals
<1>1. ASSUME IInv, bcpc = "done", quiet PROVE OnChain
  <2>1. Window = 0..(CacheSize - 1) /\ cursor = CacheSize - 1
    BY <1>1 DEF Window, IInv, RepairedSoFar
  <2>2. DOMAIN blocks = 0..cursor
    BY <1>1, <2>1 DEF IInv, TypeOK
  <2> QED BY <1>1, <2>2 DEF IInv, RepairedSoFar, OnChain
<1>2. IInv => UpdateHeals
  BY <1>1 DEF UpdateHeals
<1> QED
  BY <1>2, Invariance, PTL
-----------------------------------------------------------------------------
(***************************************************************************)
(* What update reports.                                                    *)
(***************************************************************************)
(* The block at index k is the one that the daemon has at that height.     *)
Current(k) == blocks[k] = chain[height - k]

(* Stale blocks lie on top: under a block of the daemon's chain the window *)
(* holds the daemon's chain, on either side of the point that              *)
(* check_and_fix_reorg has reached.                                        *)
StaleOnTop ==
    \A i, j \in DOMAIN blocks :
        (i < j /\ (bcpc = "fix" => ~(i <= cursor /\ cursor < j))) => (Current(i) => Current(j))

(* check_and_fix_reorg has either passed the last break or stands at one,  *)
(* and in that case it has replaced every block above.                     *)
BreaksAreAdjacent ==
    bcpc = "fix" =>
        \/ \A i \in cursor..(CacheSize - 2) : ~Broken(i)
        \/ cursor < CacheSize - 1 /\ updated = cursor + 1 /\ Broken(cursor)

(* The scanner was given every block that update does not report.          *)
RestWasSeen ==
    /\ bcpc \in {"idle", "next"} => \A k \in DOMAIN blocks : Hash(blocks[k]) \in seen
    /\ bcpc \in {"fix", "done"} =>
           \A k \in DOMAIN blocks : k >= updated => Hash(blocks[k]) \in seen

Reporting == faults = 0 => StaleOnTop /\ BreaksAreAdjacent /\ RestWasSeen

(* Next to a block of the daemon's chain, the hashes tell exactly whether  *)
(* the block below is the daemon's too.                                    *)
LinkTest ==
    \A i \in DOMAIN blocks :
        (i + 1 \in DOMAIN blocks /\ Current(i)) => (Current(i + 1) <=> ~Broken(i))

(* Every cached block is of a height that the chain has.                   *)
LEMMA InRange ==
    ASSUME IInv, NEW k \in DOMAIN blocks
    PROVE  height - k \in 0..(len - 1) /\ k \in 0..(CacheSize - 1) /\ 0 \in DOMAIN blocks
<1>1. len \in Nat \ {0} /\ height \in Nat /\ DOMAIN blocks = Window /\ bcpc \in Stages
      /\ cursor \in 0..CacheSize
  BY DEF IInv, TypeOK, MonerodTypeOK
<1>2. 0 \in DOMAIN blocks /\ k \in 0..(CacheSize - 1) /\ bcpc # "off"
  BY <1>1 DEF Window, Stages
<1>3. height < len /\ height >= CacheSize - 1
  BY <1>2 DEF IInv, WindowInChain
<1> QED
  BY <1>1, <1>2, <1>3

(* Comparing hashes is a sound and complete test for staleness.            *)
LEMMA HashesTell == IInv => LinkTest
<1> SUFFICES ASSUME IInv, NEW i \in DOMAIN blocks, i + 1 \in DOMAIN blocks, Current(i)
             PROVE  Current(i + 1) <=> ~Broken(i)
  BY DEF LinkTest
<1>1. /\ height - i \in 0..(len - 1) /\ height - (i + 1) \in 0..(len - 1)
      /\ i \in Nat /\ height \in Nat /\ len \in Nat
  BY InRange DEF IInv, TypeOK, MonerodTypeOK
<1>2. height - i > 0 /\ (height - i) - 1 = height - (i + 1)
  BY <1>1
<1>3. chain[height - i].prev = chain[height - (i + 1)].branch
  BY <1>1, <1>2 DEF IInv, ChainLinked
<1>4. blocks[i].prev = chain[height - (i + 1)].branch
  BY <1>3 DEF Current
<1>5. blocks[i].height = height - i /\ blocks[i + 1].height = height - (i + 1)
  BY DEF IInv, HeightsAligned
<1>6. blocks[i].height - 1 = blocks[i + 1].height
  BY <1>2, <1>5
<1>7. ~Broken(i) <=> blocks[i].prev = blocks[i + 1].branch
  BY <1>6 DEF Broken, PrevHash, Hash
<1>8. blocks[i + 1].branch = chain[height - (i + 1)].branch
        => blocks[i + 1] = chain[height - (i + 1)]
  BY DEF IInv, HashesIdentify
<1> QED
  BY <1>4, <1>7, <1>8 DEF Current

(* The same in the state that a step leads to.                             *)
LEMMA HashesTellNext == IInv' => LinkTest'
BY HashesTell, PTL

(* When the block at index k is the daemon's and all below are, no two     *)
(* blocks below k fail to fit.                                             *)
LEMMA NoBreakBelow ==
    ASSUME LinkTest, NEW k \in Nat, DOMAIN blocks = 0..(CacheSize - 1),
           \A j \in k..(CacheSize - 1) : Current(j)
    PROVE  \A i \in k..(CacheSize - 2) : ~Broken(i)
<1> TAKE i \in k..(CacheSize - 2)
<1>1. i \in DOMAIN blocks /\ i + 1 \in DOMAIN blocks
      /\ i \in k..(CacheSize - 1) /\ i + 1 \in k..(CacheSize - 1)
  OBVIOUS
<1> QED
  BY <1>1 DEF LinkTest

(* A step that keeps the chain, the window and the scanner's blocks, and   *)
(* moves between stages that the parts speak of alike.                     *)
LEMMA ReportingFrame ==
    ASSUME Reporting, UNCHANGED <<chain, height, blocks, faults>>,
           faults' = 0 => /\ bcpc' = "fix" \/ bcpc # "fix"
                          /\ BreaksAreAdjacent' /\ RestWasSeen'
                          /\ bcpc' = "fix" /\ bcpc = "fix" => cursor' = cursor
    PROVE  Reporting'
BY DEF Reporting, StaleOnTop, Current

(* Filling the window,                                                     *)
LEMMA InitReporting ==
    ASSUME IInv, Reporting, InitFetch \/ InitDone PROVE Reporting'
<1>1. CASE InitFetch
  <2> USE <1>1 DEF InitFetch
  <2> SUFFICES ASSUME faults = 0 PROVE StaleOnTop' /\ BreaksAreAdjacent' /\ RestWasSeen'
    BY DEF Reporting
  <2>1. Window = 0..(cursor - 1) /\ DOMAIN blocks = 0..(cursor - 1) /\ cursor \in Nat
    BY DEF Window, IInv, TypeOK
  <2>2. DOMAIN blocks' = 0..cursor
    OBVIOUS
  <2>3. ASSUME NEW i \in 0..cursor, NEW j \in 0..cursor, i < j, blocks'[i] = chain[height - i]
        PROVE  blocks'[j] = chain[height - j]
    <3>1. CASE j = cursor
      BY <3>1
    <3>2. CASE j # cursor
      <4>1. i \in DOMAIN blocks /\ j \in DOMAIN blocks /\ blocks'[i] = blocks[i]
            /\ blocks'[j] = blocks[j]
        BY <2>1, <2>3, <3>2
      <4> QED BY <2>3, <4>1 DEF Reporting, StaleOnTop, Current
    <3> QED BY <3>1, <3>2
  <2>4. StaleOnTop'
    BY <2>2, <2>3 DEF StaleOnTop, Current, daemonVars
  <2> QED
    BY <2>4 DEF BreaksAreAdjacent, RestWasSeen
<1>2. CASE InitDone
  <2> USE <1>2 DEF InitDone, daemonVars
  <2>1. BreaksAreAdjacent' /\ RestWasSeen'
    BY DEF BreaksAreAdjacent, RestWasSeen
  <2> QED
    BY <2>1, ReportingFrame
<1> QED
  BY <1>1, <1>2

(* beginning an update,                                                    *)
LEMMA QueryHeightReporting == ASSUME IInv, IInv', Reporting, QueryHeight PROVE Reporting'
<1> USE DEF QueryHeight, daemonVars
<1> SUFFICES ASSUME faults = 0 PROVE BreaksAreAdjacent' /\ RestWasSeen'
  BY ReportingFrame
<1>1. RestWasSeen'
  BY DEF Reporting, RestWasSeen
<1>2. ASSUME bcpc' = "fix" PROVE \A i \in 0..(CacheSize - 2) : ~Broken(i)
  <2>1. DOMAIN blocks = 0..(CacheSize - 1)
    BY DEF IInv, TypeOK, Window
  <2>2. Current(0)
    <3>1. len \in Nat /\ height \in Nat
      BY DEF IInv, TypeOK, MonerodTypeOK
    <3> QED BY <1>2, <2>1, <3>1 DEF IInv, StaleTopIsCovered, Current
  <2>3. \A j \in 0..(CacheSize - 1) : Current(j)
    BY <2>1, <2>2 DEF Reporting, StaleOnTop
  <2> QED
    BY <2>1, <2>3, HashesTell, NoBreakBelow
<1>3. BreaksAreAdjacent'
  BY <1>2 DEF BreaksAreAdjacent, Broken
<1> QED
  BY <1>1, <1>3

(* walking past blocks that fit,                                           *)
LEMMA FixKeepReporting == ASSUME IInv, IInv', Reporting, FixKeep PROVE Reporting'
<1> USE DEF FixKeep, daemonVars
<1> SUFFICES ASSUME faults = 0 PROVE StaleOnTop' /\ BreaksAreAdjacent' /\ RestWasSeen'
  BY DEF Reporting
<1>1. DOMAIN blocks = 0..(CacheSize - 1) /\ cursor \in 0..(CacheSize - 2)
  BY DEF IInv, TypeOK, Window
<1>2. RestWasSeen'
  BY DEF Reporting, RestWasSeen
<1>3. BreaksAreAdjacent'
  BY <1>1 DEF Reporting, BreaksAreAdjacent, Broken
<1>4. ASSUME NEW i \in DOMAIN blocks, NEW j \in DOMAIN blocks, i < j,
             ~(i <= cursor + 1 /\ cursor + 1 < j), Current(i)
      PROVE  Current(j)
  <2>1. CASE ~(i <= cursor /\ cursor < j)
    BY <1>4, <2>1 DEF Reporting, StaleOnTop
  <2>2. CASE i <= cursor /\ cursor < j
    <3>1. j = cursor + 1
      BY <1>1, <1>4, <2>2
    <3>2. Current(cursor)
      <4>1. CASE i = cursor
        BY <4>1, <1>4
      <4>2. CASE i # cursor
        <5>1. cursor \in DOMAIN blocks /\ i < cursor
          BY <1>1, <2>2, <4>2
        <5> QED BY <5>1, <1>1, <1>4 DEF Reporting, StaleOnTop
      <4> QED BY <4>1, <4>2
    <3>3. cursor \in DOMAIN blocks /\ cursor + 1 \in DOMAIN blocks
      BY <1>1
    <3> QED BY <3>1, <3>2, <3>3, HashesTell DEF LinkTest
  <2> QED BY <2>1, <2>2
<1>5. StaleOnTop'
  BY <1>4 DEF StaleOnTop, Current
<1> QED
  BY <1>2, <1>3, <1>5

(* pushing the next block,                                                 *)
LEMMA FetchNextReporting == ASSUME IInv, IInv', Reporting, FetchNext PROVE Reporting'
<1> USE DEF FetchNext, PushBlock, daemonVars
<1> SUFFICES ASSUME faults = 0 PROVE StaleOnTop' /\ BreaksAreAdjacent' /\ RestWasSeen'
  BY DEF Reporting
<1>1. /\ DOMAIN blocks = 0..(CacheSize - 1) /\ DOMAIN blocks' = 0..(CacheSize - 1)
      /\ height \in Nat /\ cursor = 0
  BY DEF IInv, TypeOK, Window, RepairedSoFar
<1>2. \A k \in 1..(CacheSize - 1) :
        k - 1 \in DOMAIN blocks /\ blocks'[k] = blocks[k - 1] /\ height' - k = height - (k - 1)
  BY <1>1
<1>3. \A k \in 1..(CacheSize - 1) : blocks'[k] = chain'[height' - k] <=> Current(k - 1)
  BY <1>2 DEF Current
<1>4. blocks'[0] = chain'[height' - 0]
  BY <1>1
<1>5. ASSUME NEW i \in 1..(CacheSize - 1), NEW j \in 1..(CacheSize - 1), i < j,
             blocks'[i] = chain'[height' - i]
      PROVE  blocks'[j] = chain'[height' - j]
  <2>1. i - 1 \in DOMAIN blocks /\ j - 1 \in DOMAIN blocks /\ i - 1 < j - 1
    <3>1. i < j
      BY <1>5
    <3> QED BY <3>1, <1>1
  <2>2. Current(i - 1)
    BY <1>3, <1>5
  <2>3. Current(j - 1)
    BY <2>1, <2>2 DEF Reporting, StaleOnTop
  <2> QED BY <1>3, <2>3
<1>6. StaleOnTop'
  <2>0. DOMAIN blocks' = 0..(CacheSize - 1) /\ bcpc' = "fix" /\ cursor' = 0
    BY <1>1
  <2> SUFFICES ASSUME NEW i \in 0..(CacheSize - 1), NEW j \in 0..(CacheSize - 1), i < j,
                      ~(i <= 0 /\ 0 < j), blocks'[i] = chain'[height' - i]
               PROVE  blocks'[j] = chain'[height' - j]
    <3> HIDE DEF FetchNext, PushBlock
    <3> QED BY <2>0, Zenon DEF StaleOnTop, Current
  <2>1. i \in 1..(CacheSize - 1) /\ j \in 1..(CacheSize - 1)
    OBVIOUS
  <2> QED BY <1>5, <2>1
<1>7. RestWasSeen'
  <2> SUFFICES ASSUME NEW k \in 0..(CacheSize - 1), k >= 1 PROVE Hash(blocks'[k]) \in seen
    BY <1>1 DEF RestWasSeen, Hash
  <2>1. k \in 1..(CacheSize - 1)
    OBVIOUS
  <2>2. k - 1 \in DOMAIN blocks /\ blocks'[k] = blocks[k - 1]
    BY <1>2, <2>1
  <2> QED BY <2>2 DEF Reporting, RestWasSeen
<1>8. BreaksAreAdjacent'
  <2>1. CASE CacheSize = 1
    BY <2>1, <1>1 DEF BreaksAreAdjacent
  <2>2. CASE CacheSize # 1 /\ blocks'[1] = chain'[height' - 1]
    <3>1. \A j \in 0..(CacheSize - 1) : blocks'[j] = chain'[height' - j]
      <4> TAKE j \in 0..(CacheSize - 1)
      <4>1. CASE j \in {0, 1}
        BY <4>1, <1>4, <2>2
      <4>2. CASE j \notin {0, 1}
        <5>1. 1 \in 1..(CacheSize - 1) /\ j \in 1..(CacheSize - 1) /\ 1 < j
          BY <4>2
        <5> HIDE DEF PushBlock, FetchNext
        <5> QED BY <5>1, <1>5, <2>2
      <4> QED BY <4>1, <4>2
    <3>2. \A i \in 0..(CacheSize - 2) : ~Broken(i)'
      <4> TAKE i \in 0..(CacheSize - 2)
      <4>1. i \in 0..(CacheSize - 1) /\ i + 1 \in 0..(CacheSize - 1)
        OBVIOUS
      <4> QED BY <1>1, <3>1, <4>1, HashesTellNext DEF LinkTest, Current
    <3> QED BY <1>1, <3>2 DEF BreaksAreAdjacent
  <2>3. CASE CacheSize # 1 /\ blocks'[1] # chain'[height' - 1]
    <3>1. 0 \in DOMAIN blocks' /\ 0 + 1 \in DOMAIN blocks' /\ 0 + 1 = 1
      BY <1>1, <2>3
    <3>2. Broken(0)'
      BY <1>4, <2>3, <3>1, HashesTellNext DEF LinkTest, Current
    <3> QED BY <1>1, <2>3, <3>2 DEF BreaksAreAdjacent
  <2> QED BY <2>1, <2>2, <2>3
<1> QED
  BY <1>6, <1>7, <1>8

(* replacing a block that does not fit,                                    *)
LEMMA FixRepairReporting == ASSUME IInv, IInv', Reporting, FixRepair PROVE Reporting'
<1> USE DEF FixRepair, Repair, daemonVars
<1> SUFFICES ASSUME faults = 0 PROVE StaleOnTop' /\ BreaksAreAdjacent' /\ RestWasSeen'
  BY DEF Reporting
<1>1. /\ DOMAIN blocks = 0..(CacheSize - 1) /\ DOMAIN blocks' = 0..(CacheSize - 1)
      /\ height \in Nat /\ cursor \in 0..(CacheSize - 2)
  BY SMTT(30) DEF IInv, TypeOK, Window
<1>2. \A k \in 0..(CacheSize - 1) : k # cursor + 1 => blocks'[k] = blocks[k]
  BY <1>1
<1>3. blocks'[cursor + 1] = chain'[height' - (cursor + 1)]
  <2>1. height - 1 - cursor = height - (cursor + 1) /\ cursor + 1 \in DOMAIN blocks
    BY <1>1
  <2> QED BY <2>1
<1>4. updated = cursor + 1 /\ updated' = cursor + 2
  <2>1. cursor \in cursor..(CacheSize - 2)
    BY <1>1
  <2>2. updated = cursor + 1
    BY <2>1 DEF Reporting, BreaksAreAdjacent
  <2> QED BY <1>1, <2>2
<1>5. RestWasSeen'
  <2> SUFFICES ASSUME NEW k \in 0..(CacheSize - 1), k >= cursor + 2
               PROVE  Hash(blocks'[k]) \in seen
    BY <1>1, <1>4 DEF RestWasSeen, Hash
  <2>1. blocks'[k] = blocks[k] /\ k >= updated /\ k \in DOMAIN blocks
    BY <1>1, <1>2, <1>4
  <2> QED BY <2>1 DEF Reporting, RestWasSeen
<1>6. ASSUME NEW i \in 0..(CacheSize - 1), NEW j \in 0..(CacheSize - 1), i < j,
             i >= cursor + 2 \/ j <= cursor, blocks'[i] = chain'[height' - i]
      PROVE  blocks'[j] = chain'[height' - j]
  <2>1. blocks'[i] = blocks[i] /\ blocks'[j] = blocks[j] /\ ~(i <= cursor /\ cursor < j)
        /\ i \in DOMAIN blocks /\ j \in DOMAIN blocks
    BY <1>1, <1>2, <1>6
  <2> QED BY <1>6, <2>1 DEF Reporting, StaleOnTop, Current
<1>7. StaleOnTop'
  <2> SUFFICES ASSUME NEW i \in 0..(CacheSize - 1), NEW j \in 0..(CacheSize - 1), i < j,
                      ~(i <= cursor + 1 /\ cursor + 1 < j), blocks'[i] = chain'[height' - i]
               PROVE  blocks'[j] = chain'[height' - j]
    BY <1>1 DEF StaleOnTop, Current
  <2>1. CASE j = cursor + 1
    BY <2>1, <1>3
  <2>2. CASE j # cursor + 1
    <3>1. i >= cursor + 2 \/ j <= cursor
      BY <1>1, <2>2
    <3> QED BY <3>1, <1>6
  <2> QED BY <2>1, <2>2
<1>8. BreaksAreAdjacent'
  <2>0. cursor' = cursor + 1 /\ bcpc' = "fix"
    OBVIOUS
  <2>1. CASE cursor = CacheSize - 2
    BY <2>0, <2>1, <1>1 DEF BreaksAreAdjacent
  <2>2. CASE cursor # CacheSize - 2 /\ blocks'[cursor + 2] = chain'[height' - (cursor + 2)]
    <3>1. \A j \in (cursor + 1)..(CacheSize - 1) : blocks'[j] = chain'[height' - j]
      <4> TAKE j \in (cursor + 1)..(CacheSize - 1)
      <4>1. CASE j \in {cursor + 1, cursor + 2}
        BY <4>1, <1>3, <2>2
      <4>2. CASE j \notin {cursor + 1, cursor + 2}
        <5>1. cursor + 2 \in 0..(CacheSize - 1) /\ j \in 0..(CacheSize - 1) /\ cursor + 2 < j
          BY <4>2, <1>1, <2>2
        <5> QED BY <5>1, <1>1, <1>6, <2>2
      <4> QED BY <4>1, <4>2
    <3>2. \A i \in (cursor + 1)..(CacheSize - 2) : ~Broken(i)'
      <4> TAKE i \in (cursor + 1)..(CacheSize - 2)
      <4>1. /\ i \in 0..(CacheSize - 1) /\ i + 1 \in 0..(CacheSize - 1)
            /\ i \in (cursor + 1)..(CacheSize - 1) /\ i + 1 \in (cursor + 1)..(CacheSize - 1)
        BY <1>1
      <4> QED BY <1>1, <3>1, <4>1, HashesTellNext DEF LinkTest, Current
    <3> QED BY <2>0, <3>2 DEF BreaksAreAdjacent
  <2>3. CASE cursor # CacheSize - 2 /\ blocks'[cursor + 2] # chain'[height' - (cursor + 2)]
    <3>1. /\ cursor + 1 \in DOMAIN blocks' /\ (cursor + 1) + 1 \in DOMAIN blocks'
          /\ (cursor + 1) + 1 = cursor + 2 /\ cursor + 1 < CacheSize - 1
      BY <1>1, <2>3
    <3>2. Broken(cursor)'
      BY <1>3, <2>0, <2>3, <3>1, HashesTellNext DEF LinkTest, Current, Broken
    <3> QED BY <1>1, <1>4, <2>0, <3>1, <3>2 DEF BreaksAreAdjacent
  <2> QED BY <2>1, <2>2, <2>3
<1> QED
  BY <1>5, <1>7, <1>8

(* ending check_and_fix_reorg,                                             *)
LEMMA FixDoneReporting == ASSUME IInv, Reporting, FixDone PROVE Reporting'
<1> USE DEF FixDone, daemonVars
<1> SUFFICES ASSUME faults = 0 PROVE StaleOnTop' /\ BreaksAreAdjacent' /\ RestWasSeen'
  BY DEF Reporting
<1>1. \A k \in DOMAIN blocks : ~(cursor < k)
  BY InRange
<1>2. StaleOnTop'
  BY <1>1 DEF Reporting, StaleOnTop, Current
<1> QED
  BY <1>2 DEF Reporting, BreaksAreAdjacent, RestWasSeen

(* handing the result over,                                                *)
LEMMA TakeResultReporting == ASSUME IInv, Reporting, TakeResult PROVE Reporting'
<1> USE DEF TakeResult, daemonVars
<1>1. \A k \in DOMAIN blocks : k \in Nat /\ updated \in Nat
  BY InRange DEF IInv, TypeOK
<1>2. ASSUME faults = 0, NEW k \in DOMAIN blocks PROVE Hash(blocks[k]) \in seen'
  <2>1. CASE k >= updated
    BY <1>2, <2>1 DEF Reporting, RestWasSeen
  <2>2. CASE ~(k >= updated)
    BY <1>1, <2>2
  <2> QED BY <2>1, <2>2
<1>3. faults' = 0 => RestWasSeen'
  BY <1>2 DEF RestWasSeen, Hash
<1>4. BreaksAreAdjacent'
  BY DEF BreaksAreAdjacent
<1> QED
  BY <1>3, <1>4, ReportingFrame

(* losing the window, and a failing call,                                  *)
LEMMA LossReporting ==
    ASSUME IInv, (bcpc' \in {"off", "init"} /\ blocks' = Empty) \/ faults' > 0
    PROVE  Reporting'
<1>1. CASE bcpc' \in {"off", "init"} /\ blocks' = Empty
  <2>1. DOMAIN blocks' = {}
    BY <1>1 DEF Empty
  <2> QED BY <1>1, <2>1 DEF Reporting, StaleOnTop, BreaksAreAdjacent, RestWasSeen
<1>2. CASE faults' > 0
  BY <1>2 DEF Reporting
<1> QED
  BY <1>1, <1>2

(* The blocks that a step of the daemon leaves alone lie under those that  *)
(* it replaces, and those that it replaces are of a new branch.            *)
LEMMA DaemonKeepsBelow ==
    ASSUME IInv, DaemonStep
    PROVE  \A h \in 0..(len - 1) :
              \/ \A g \in 0..h : chain'[g] = chain[g]
              \/ chain'[h].branch > branch
<1>0. len \in Nat \ {0} /\ branch \in Nat
  BY DEF IInv, TypeOK, MonerodTypeOK
<1>1. CASE \E tx \in Tx : Submit(tx) \/ Evict(tx)
  BY <1>1 DEF Submit, Evict
<1>2. CASE \E txs \in SUBSET pool : Mine(txs)
  BY <1>0, <1>2 DEF Mine
<1>3. CASE Reorganise
  <2> PICK fork \in {h \in 1..(len - 1) : h >= len - MaxReorgDepth} :
           \E place \in [pool \cup MinedFrom(fork) -> {-1} \cup fork..len] :
              Reorg(fork, place)
    BY <1>3 DEF Reorganise
  <2> PICK place \in [pool \cup MinedFrom(fork) -> {-1} \cup fork..len] : Reorg(fork, place)
    OBVIOUS
  <2> TAKE h \in 0..(len - 1)
  <2>1. CASE h < fork
    BY <1>0, <2>1 DEF Reorg
  <2>2. CASE h >= fork
    <3>1. chain'[h].branch = branch + 1
      BY <1>0, <2>2 DEF Reorg
    <3> QED BY <1>0, <3>1
  <2> QED BY <1>0, <2>1, <2>2
<1> QED
  BY <1>1, <1>2, <1>3 DEF DaemonStep

(* and whatever the daemon does keep the report right.                     *)
LEMMA DaemonReporting == ASSUME IInv, Reporting, DaemonStep PROVE Reporting'
<1> SUFFICES ASSUME faults = 0 PROVE StaleOnTop' /\ BreaksAreAdjacent' /\ RestWasSeen'
  BY DEF Reporting, DaemonStep
<1>0. UNCHANGED <<bcpc, height, blocks, cursor, updated, seen>>
  BY DEF DaemonStep
<1>1. BreaksAreAdjacent' /\ RestWasSeen'
  BY <1>0 DEF Reporting, BreaksAreAdjacent, RestWasSeen, Broken, Hash, PrevHash
<1>2. ASSUME NEW i \in DOMAIN blocks, NEW j \in DOMAIN blocks, i < j,
             bcpc = "fix" => ~(i <= cursor /\ cursor < j),
             blocks[i] = chain'[height - i]
      PROVE  blocks[j] = chain'[height - j]
  <2>1. height - i \in 0..(len - 1) /\ height - j \in 0..(height - i)
        /\ height - i \in 0..(height - i)
    <3>1. i < j /\ height \in Nat /\ len \in Nat
      BY <1>2 DEF IInv, TypeOK, MonerodTypeOK
    <3>2. height - i \in 0..(len - 1) /\ height - j \in 0..(len - 1) /\ i \in Nat /\ j \in Nat
      BY InRange
    <3> QED BY <3>1, <3>2
  <2>2. blocks[i].branch <= branch /\ branch \in Nat /\ blocks[i].branch \in Nat
    BY DEF IInv, HashesIdentify, TypeOK, MonerodTypeOK, Block
  <2>3. ~(chain'[height - i].branch > branch)
    BY <1>2, <2>1, <2>2
  <2>4. \A g \in 0..(height - i) : chain'[g] = chain[g]
    BY <2>1, <2>3, DaemonKeepsBelow
  <2>5. Current(i)
    BY <1>2, <2>1, <2>4 DEF Current
  <2>6. Current(j)
    BY <1>2, <2>5 DEF Reporting, StaleOnTop
  <2> QED BY <2>1, <2>4, <2>6 DEF Current
<1>3. StaleOnTop'
  BY <1>0, <1>2 DEF StaleOnTop, Current
<1> QED
  BY <1>1, <1>3

(* Every step of the block cache and of the daemon keeps the report right. *)
LEMMA StepReporting == ASSUME IInv, IInv', Reporting, [Next]_vars PROVE Reporting'
<1>1. CASE (\E h \in StartHeights : StartInit(h)) \/ InitTooShort \/ RpcFail
  <2>1. faults \in Nat
    BY DEF IInv, TypeOK
  <2>2. (bcpc' \in {"off", "init"} /\ blocks' = Empty) \/ faults' > 0
    BY <1>1, <2>1 DEF StartInit, InitTooShort, RpcFail
  <2> QED BY <2>2, LossReporting
<1>2. CASE InitFetch \/ InitDone
  BY <1>2, InitReporting
<1>3. CASE QueryHeight
  BY <1>3, QueryHeightReporting
<1>4. CASE FetchNext
  BY <1>4, FetchNextReporting
<1>5. CASE FixKeep
  BY <1>5, FixKeepReporting
<1>6. CASE FixRepair
  BY <1>6, FixRepairReporting
<1>7. CASE FixDone
  BY <1>7, FixDoneReporting
<1>8. CASE TakeResult
  BY <1>8, TakeResultReporting
<1>9. CASE DaemonStep
  BY <1>9, DaemonReporting
<1>10. CASE UNCHANGED vars
  BY <1>10, ReportingFrame
     DEF vars, daemonVars, cacheVars, Reporting, BreaksAreAdjacent, RestWasSeen, Broken,
         Hash, PrevHash
<1> QED
  BY <1>1, <1>2, <1>3, <1>4, <1>5, <1>6, <1>7, <1>8, <1>9, <1>10 DEF Next, CacheStep

(* At the start there is nothing to report.                                *)
LEMMA InitReports == ASSUME CacheInit PROVE Reporting
<1>1. DOMAIN blocks = {}
  BY DEF CacheInit, Empty
<1> QED
  BY <1>1 DEF CacheInit, Reporting, StaleOnTop, BreaksAreAdjacent, RestWasSeen

(* The invariant gives what update promises.                               *)
LEMMA ReportsNew == ASSUME IInv, Reporting PROVE UpdateReportsNewBlocks
<1> SUFFICES ASSUME bcpc = "done", faults = 0, NEW k \in DOMAIN blocks,
                    Hash(blocks[k]) \notin seen
             PROVE  k < updated
  BY DEF UpdateReportsNewBlocks
<1>1. k \in Nat /\ updated \in Nat
  BY InRange DEF IInv, TypeOK
<1> QED
  BY <1>1 DEF Reporting, RestWasSeen

(* As long as no call has failed, update counts every block that the       *)
(* scanner has not been given, for every window, chain and reorganisation, *)
(* also for those that happen in the middle of a repair.                   *)
THEOREM ReportsEveryNewBlock == Spec => []UpdateReportsNewBlocks
<1>1. Init => IInv /\ Reporting
  BY InitIInv, InitReports DEF Init
<1>2. IInv /\ Reporting /\ [Next]_vars => (IInv /\ Reporting)'
  BY StepIInv, StepReporting
<1>3. IInv /\ Reporting => UpdateReportsNewBlocks
  BY ReportsNew
<1> QED
  BY <1>1, <1>2, <1>3, PTL DEF Spec
=============================================================================
