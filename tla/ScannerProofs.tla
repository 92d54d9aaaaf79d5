---------------------------- MODULE ScannerProofs ----------------------------
(***************************************************************************)
(* Proofs about Scanner.  The block cache keeps its promises inside the    *)
(* scanner, whatever the scanner, the storage, the customers and the       *)
(* daemon do and wherever the process stops or crashes; the stored height  *)
(* never goes back.  Then the ledger: the stored invoices hold the         *)
(* payments of the chain, no output key is counted twice, and what counts  *)
(* as confirmed has been mined.                                            *)
(***************************************************************************)
EXTENDS Scanner, BlockCacheProofs, FiniteSetTheorems, FunctionTheorems,
        WellFoundedInduction, TLAPS

(* Where the block cache stands while the scanner is at each of its awaits.*)
Course ==
    /\ spc \in ScannerStages
    /\ spc = "off" => bcpc = "off"
    /\ spc \in {"new", "ready"} => bcpc = "init"
    /\ spc \in {"loop", "begin", "update", "save"} => bcpc = "idle"
    /\ spc = "cache" => bcpc \in {"next", "fix"}
    /\ spc \in {"pool", "fetch", "scan"} => bcpc = "done"

(* Transfers, and what a scan finds: a transfer and its subaddress.        *)
TransferValue == [amount : Nat, height : Nat \cup {NoHeight}]
FoundValue == [sub : SubIndex, transfer : TransferValue]

(* What the scanner keeps besides its block cache has its type.            *)
StoreTypes ==
    /\ DOMAIN invoices \subseteq InvoiceId
    /\ \A id \in DOMAIN invoices : invoices[id] \in InvoiceValue
    /\ outputKeys \in [Key -> Tx \cup {NoTx}]
    /\ firstScan \in BOOLEAN
    /\ cachedTxs \subseteq Tx /\ discovered \subseteq Tx /\ newTxs \subseteq Tx
    /\ found \in Seq(FoundValue)
    /\ \A p \in pending : p.id \in InvoiceId /\ p.invoice \in InvoiceValue
    /\ restarts \in 0..MaxRestarts
    /\ table \subseteq SubIndex /\ drawn \subseteq InvoiceId
    /\ standing \in [Tx -> Standings] /\ skipped \in BOOLEAN

(* A scanner starts one block under the stored height and pushes a block   *)
(* before it saves again, because the chain is longer than that.           *)
Resumes ==
    /\ storedHeight \in Nat \cup {NoHeight}
    /\ storedHeight < len
    /\ spc \in {"new", "ready", "loop", "begin"} => height >= storedHeight - 1
    /\ spc = "cache" => height >= storedHeight \/ (bcpc = "next" /\ height >= storedHeight - 1)
    /\ spc \in {"pool", "fetch", "scan", "update", "save"} => height >= storedHeight

(* A drawn subaddress is nobody else's; a due payment has its invoice, and *)
(* one that nobody has made yet is nowhere.                                *)
Dealings ==
    /\ \A id \in drawn : id.creation >= 1 /\ ~Tracked(id.sub)
    /\ \A i, j \in drawn : i.sub = j.sub => i = j
    /\ \A tx \in Tx : standing[tx] = "due" => Tracked(SubOf[tx])
    /\ \A tx \in Tx : standing[tx] = "new" =>
          /\ tx \notin pool
          /\ \A h \in DOMAIN chain : tx \notin chain[h].txs
          /\ \A k \in DOMAIN blocks : tx \notin blocks[k].txs

(* The inductive invariant of the scanner and its block cache.             *)
ScannerInv ==
    /\ IInv
    /\ Reporting
    /\ Course
    /\ StoreTypes
    /\ Resumes
    /\ Dealings

-----------------------------------------------------------------------------
USE MonerodAssumption, BlockCacheAssumption DEF MonerodAssumption, BlockCacheAssumption

(***************************************************************************)
(* Induction, and functions on the first numbers.                          *)
(***************************************************************************)
(* A set of natural numbers that is not empty has a least element.         *)
LEMMA LeastNatural ==
    ASSUME NEW T, T \subseteq Nat, T # {}
    PROVE  \E x \in T : \A y \in T : x <= y
<1> DEFINE R == {ss \in Nat \X Nat : ss[1] < ss[2]}
<1>1. IsWellFoundedOn(R, Nat)
  BY NatLessThanWellFounded DEF OpToRel
<1> HIDE DEF R
<1>2. PICK x \in T : \A y \in T : ~(<<y, x>> \in R)
  BY <1>1, WFMin
<1>3. ASSUME NEW y \in T PROVE x <= y
  <2>1. x \in Nat /\ y \in Nat
    OBVIOUS
  <2>2. <<y, x>> \in Nat \X Nat /\ <<y, x>>[1] = y /\ <<y, x>>[2] = x
    BY <2>1
  <2>3. y < x => <<y, x>> \in R
    BY <2>2 DEF R
  <2> QED BY <1>2, <2>1, <2>3
<1> QED
  BY <1>3

(* Induction, for what a set of numbers says.                              *)
LEMMA SetInduction ==
    ASSUME NEW S, 0 \in S, \A n \in Nat : n \in S => n + 1 \in S
    PROVE  \A n \in Nat : n \in S
<1> DEFINE T == {n \in Nat : n \notin S}
<1> SUFFICES ASSUME T # {} PROVE FALSE
  OBVIOUS
<1>1. T \subseteq Nat
  OBVIOUS
<1>2. PICK x \in T : \A y \in T : x <= y
  <2> HIDE DEF T
  <2> QED BY <1>1, LeastNatural
<1>3. x \in Nat /\ x - 1 \in Nat /\ x = (x - 1) + 1
  BY <1>2
<1>4. x - 1 \in S
  BY <1>2, <1>3
<1> QED
  BY <1>2, <1>3, <1>4

(* f starts at x, and G[n] leads from f[n - 1] to f[n].                    *)
Runs(f, N, x, G) == f[0] = x /\ \A n \in 1..N : f[n] = G[n][f[n - 1]]

(* A function that a step gives from one number to the next exists.        *)
LEMMA Iteration ==
    ASSUME NEW S, NEW N \in Nat, NEW x \in S, NEW G \in [1..N -> [S -> S]]
    PROVE  \E f \in [0..N -> S] : Runs(f, N, x, G)
<1> DEFINE Run(f, m) == f[0] = x /\ \A n \in 1..m : f[n] = G[n][f[n - 1]]
           M == {m \in Nat : m <= N => \E f \in [0..m -> S] : Run(f, m)}
<1>1. 0 \in M
  <2>1. [i \in 0..0 |-> x] \in [0..0 -> S] /\ Run([i \in 0..0 |-> x], 0)
    OBVIOUS
  <2> QED BY <2>1
<1>2. ASSUME NEW m \in Nat, m \in M PROVE m + 1 \in M
  <2> SUFFICES ASSUME m + 1 <= N PROVE \E f \in [0..(m + 1) -> S] : Run(f, m + 1)
    OBVIOUS
  <2>1. PICK f \in [0..m -> S] : Run(f, m)
    BY <1>2
  <2> DEFINE y == G[m + 1][f[m]]
             g == [i \in 0..(m + 1) |-> IF i = m + 1 THEN y ELSE f[i]]
  <2>2. y \in S
    <3>1. m + 1 \in 1..N /\ f[m] \in S
      OBVIOUS
    <3> QED BY <3>1
  <2>3. g \in [0..(m + 1) -> S]
    <3> HIDE DEF y
    <3> QED BY <2>2
  <2>4. g[0] = x
    BY <2>1
  <2>5. ASSUME NEW n \in 1..(m + 1) PROVE g[n] = G[n][g[n - 1]]
    <3>1. n - 1 \in 0..m /\ g[n - 1] = f[n - 1]
      OBVIOUS
    <3>2. CASE n = m + 1
      <4>1. n - 1 = m /\ g[n] = y
        BY <3>2
      <4> QED BY <3>1, <3>2, <4>1
    <3>3. CASE n # m + 1
      <4>1. n \in 1..m /\ g[n] = f[n]
        BY <3>3
      <4>2. f[n] = G[n][f[n - 1]]
        BY <2>1, <4>1
      <4> HIDE DEF g
      <4> QED BY <3>1, <4>1, <4>2
    <3> QED BY <3>2, <3>3
  <2> HIDE DEF g
  <2> QED BY <2>3, <2>4, <2>5
<1> HIDE DEF M
<1>3. \A m \in Nat : m \in M
  BY <1>1, <1>2, SetInduction
<1>4. N <= N /\ N \in M
  BY <1>3
<1> QED
  BY <1>4 DEF M, Runs

(* How many elements of s are in K.                                        *)
Spots(s, K) == {i \in DOMAIN s : s[i] \in K}
Among(s, K) == Cardinality(Spots(s, K))

(* That is a number.                                                       *)
LEMMA SpotsFinite ==
    ASSUME NEW T, NEW s \in Seq(T), NEW K
    PROVE  IsFiniteSet(Spots(s, K)) /\ Among(s, K) \in Nat
<1>1. IsFiniteSet(1..Len(s)) /\ Spots(s, K) \subseteq 1..Len(s)
    BY FS_Interval DEF Spots
<1>2. IsFiniteSet(Spots(s, K))
    BY <1>1, FS_Subset
<1> QED
    BY <1>2, FS_CardinalityType DEF Among

(* Nothing is in the empty sequence.                                       *)
LEMMA AmongNone ==
    ASSUME NEW s, NEW K, Spots(s, K) = {}
    PROVE  Among(s, K) = 0
BY FS_EmptySet DEF Among

(* One more when e is put at the end.                                      *)
LEMMA AmongAppend ==
    ASSUME NEW T, NEW s \in Seq(T), NEW e \in T, NEW K
    PROVE  Among(Append(s, e), K) = Among(s, K) + (IF e \in K THEN 1 ELSE 0)
<1>1. /\ Len(s) \in Nat /\ DOMAIN s = 1..Len(s) /\ DOMAIN Append(s, e) = 1..(Len(s) + 1)
      /\ \A i \in 1..Len(s) : Append(s, e)[i] = s[i]
      /\ Append(s, e)[Len(s) + 1] = e
    OBVIOUS
<1>2. IsFiniteSet(Spots(s, K)) /\ Among(s, K) \in Nat
    BY SpotsFinite
<1>3. CASE e \in K
  <2>1. Spots(Append(s, e), K) = Spots(s, K) \cup {Len(s) + 1} /\ Len(s) + 1 \notin Spots(s, K)
    BY <1>1, <1>3 DEF Spots
  <2> QED
    BY <1>2, <1>3, <2>1, FS_AddElement DEF Among
<1>4. CASE e \notin K
  <2>1. Spots(Append(s, e), K) = Spots(s, K)
    BY <1>1, <1>4 DEF Spots
  <2> QED
    BY <1>2, <1>4, <2>1 DEF Among
<1> QED
    BY <1>3, <1>4

(* The elements of two sequences add up.                                   *)
LEMMA AmongConcat ==
    ASSUME NEW T, NEW s \in Seq(T), NEW t \in Seq(T), NEW K
    PROVE  Among(s \o t, K) = Among(s, K) + Among(t, K)
<1>1. /\ Len(s) \in Nat /\ Len(t) \in Nat /\ DOMAIN s = 1..Len(s) /\ DOMAIN t = 1..Len(t)
      /\ DOMAIN (s \o t) = 1..(Len(s) + Len(t))
      /\ \A i \in 1..Len(s) : (s \o t)[i] = s[i]
      /\ \A i \in 1..Len(t) : (s \o t)[Len(s) + i] = t[i]
    OBVIOUS
<1> DEFINE U == {i \in Spots(s \o t, K) : i > Len(s)}
           f == [i \in Spots(t, K) |-> Len(s) + i]
<1>2. f \in Bijection(Spots(t, K), U)
  <2>1. \A i \in Spots(t, K) : i \in Nat /\ Len(s) + i \in U
    BY <1>1 DEF Spots
  <2>2. \A j \in U : j - Len(s) \in Spots(t, K) /\ f[j - Len(s)] = j
    <3> TAKE j \in U
    <3>1. j - Len(s) \in 1..Len(t) /\ Len(s) + (j - Len(s)) = j
      BY <1>1 DEF Spots
    <3>2. t[j - Len(s)] = (s \o t)[j]
      BY <1>1, <3>1
    <3> QED BY <1>1, <3>1, <3>2 DEF Spots
  <2>3. f \in [Spots(t, K) -> U]
    BY <2>1
  <2>4. \A a, b \in Spots(t, K) : f[a] = f[b] => a = b
    BY <1>1, <2>1
  <2> QED
    BY <2>2, <2>3, <2>4 DEF Bijection, Injection, Surjection, IsInjective
<1>3. IsFiniteSet(Spots(t, K)) /\ Among(t, K) \in Nat /\ IsFiniteSet(Spots(s, K)) /\ Among(s, K) \in Nat
  BY SpotsFinite
<1>4. Cardinality(U) = Among(t, K) /\ IsFiniteSet(U)
  <2>1. ExistsBijection(Spots(t, K), U)
    BY <1>2 DEF ExistsBijection
  <2> QED
    BY <1>3, <2>1, FS_Bijection DEF Among
<1>5. Spots(s \o t, K) = Spots(s, K) \cup U /\ Spots(s, K) \cap U = {}
  BY <1>1 DEF Spots
<1> HIDE DEF U
<1>6. Cardinality(Spots(s, K) \cup U) = Cardinality(Spots(s, K)) + Cardinality(U) - Cardinality({})
  BY <1>3, <1>4, <1>5, FS_Union
<1> QED
  BY <1>3, <1>4, <1>5, <1>6, FS_EmptySet DEF Among
(* What holds of the first and passes on from each to the next holds of all*)
LEMMA Passes ==
    ASSUME NEW N \in Nat, NEW M, 0 \in M, \A n \in 1..N : n - 1 \in M => n \in M
    PROVE  \A n \in 0..N : n \in M
<1> DEFINE P == {n \in Nat : n <= N => n \in M}
<1>1. 0 \in P
  OBVIOUS
<1>2. ASSUME NEW n \in Nat, n \in P PROVE n + 1 \in P
  <2> SUFFICES ASSUME n + 1 <= N PROVE n + 1 \in M
    OBVIOUS
  <2>1. n \in M /\ n + 1 \in 1..N /\ (n + 1) - 1 = n
    BY <1>2
  <2> QED BY <2>1
<1> HIDE DEF P
<1>3. \A n \in Nat : n \in P
  BY <1>1, <1>2, SetInduction
<1> QED
  BY <1>3 DEF P

(* Retain goes through the sequence from its first element to its last.    *)
Retains(f, s, K) ==
    \A n \in 0..Len(s) :
        f[n] = IF n = 0 THEN <<>>
               ELSE IF s[n] \in K THEN Append(f[n - 1], s[n]) ELSE f[n - 1]

(* Retain is the last of the sequences that it builds.                     *)
LEMMA RetainRuns ==
    ASSUME NEW T, NEW s \in Seq(T), NEW K
    PROVE  \E f \in [0..Len(s) -> Seq({x \in T : x \in K})] :
              Retains(f, s, K) /\ Retain(s, K) = f[Len(s)]
<1> DEFINE N == Len(s)
           Q == Seq({x \in T : x \in K})
           G == [n \in 1..N |-> [q \in Q |-> IF s[n] \in K THEN Append(q, s[n]) ELSE q]]
           kept == CHOOSE f : f = [n \in 0..N |-> IF n = 0 THEN <<>>
                                     ELSE IF s[n] \in K THEN Append(f[n - 1], s[n]) ELSE f[n - 1]]
<1>1. N \in Nat /\ \A n \in 1..N : s[n] \in T
  OBVIOUS
<1>2. <<>> \in Q
  OBVIOUS
<1>3. ASSUME NEW q \in Q, NEW n \in 1..N, s[n] \in K PROVE Append(q, s[n]) \in Q
  <2> DEFINE V == {x \in T : x \in K}
  <2>1. s[n] \in V /\ q \in Seq(V)
    BY <1>1, <1>3
  <2> HIDE DEF V
  <2>2. Append(q, s[n]) \in Seq(V)
    BY <2>1
  <2> QED BY <2>2 DEF V
<1>4. \A n \in 1..N : G[n] \in [Q -> Q]
  <2> HIDE DEF Q, N
  <2> QED BY <1>3
<1>5. G \in [1..N -> [Q -> Q]] /\ \A n \in 1..N, q \in Q : G[n][q] = IF s[n] \in K THEN Append(q, s[n]) ELSE q
  <2> HIDE DEF Q, N
  <2> QED BY <1>4
<1> HIDE DEF N, Q, G
<1>6. PICK g \in [0..N -> Q] : Runs(g, N, <<>>, G)
  BY <1>1, <1>2, <1>5, Iteration
<1>7. g = [n \in 0..N |-> IF n = 0 THEN <<>>
                          ELSE IF s[n] \in K THEN Append(g[n - 1], s[n]) ELSE g[n - 1]]
  <2>1. ASSUME NEW n \in 0..N
        PROVE  g[n] = IF n = 0 THEN <<>>
                      ELSE IF s[n] \in K THEN Append(g[n - 1], s[n]) ELSE g[n - 1]
    <3>1. n # 0 => n \in 1..N /\ g[n - 1] \in Q
      BY <1>1
    <3> QED BY <1>5, <1>6, <3>1 DEF Runs
  <2> QED BY <2>1
<1>8. kept = [n \in 0..N |-> IF n = 0 THEN <<>>
                             ELSE IF s[n] \in K THEN Append(kept[n - 1], s[n]) ELSE kept[n - 1]]
  BY <1>7
<1>9. Retain(s, K) = kept[N]
  BY DEF Retain, N
<1> HIDE DEF kept
<1>10. Retains(kept, s, K) /\ DOMAIN kept = 0..N
  BY <1>8 DEF Retains, N
<1>11. \A n \in 0..N : kept[n] \in Q
  <2> DEFINE M == {n \in 0..N : kept[n] \in Q}
  <2>1. 0 \in M
    BY <1>1, <1>2, <1>10 DEF Retains, N
  <2>2. ASSUME NEW n \in 1..N, n - 1 \in M PROVE n \in M
    <3>1. n \in 0..N /\ n # 0 /\ kept[n - 1] \in Q
      BY <1>1, <2>2
    <3>2. kept[n] = IF s[n] \in K THEN Append(kept[n - 1], s[n]) ELSE kept[n - 1]
      BY <1>10, <3>1 DEF Retains, N
    <3> QED BY <1>3, <3>1, <3>2
  <2> HIDE DEF M
  <2>3. \A n \in 0..N : n \in M
    BY <1>1, <2>1, <2>2, Passes
  <2> QED BY <2>3 DEF M
<1>12. kept \in [0..N -> Q]
  BY <1>8, <1>10, <1>11
<1> QED
  BY <1>9, <1>10, <1>12 DEF N, Q

(* What is retained is of the sequence and of the set.                     *)
LEMMA RetainType ==
    ASSUME NEW T, NEW s \in Seq(T), NEW K
    PROVE  Retain(s, K) \in Seq({x \in T : x \in K})
<1> DEFINE Q == Seq({x \in T : x \in K})
<1>1. PICK f \in [0..Len(s) -> Q] : Retain(s, K) = f[Len(s)]
  BY RetainRuns
<1>2. Len(s) \in 0..Len(s)
  OBVIOUS
<1> HIDE DEF Q
<1>3. Retain(s, K) \in Q
  BY <1>1, <1>2
<1> QED
  BY <1>3 DEF Q

(* An element is retained as often as it was there, or not at all.         *)
LEMMA AmongRetain ==
    ASSUME NEW T, NEW s \in Seq(T), NEW K, NEW J
    PROVE  Among(Retain(s, K), J) = Among(s, J \cap K)
<1> DEFINE N == Len(s)
           V == {x \in T : x \in K}
           First(n) == {i \in 1..n : s[i] \in J \cap K}
<1>1. N \in Nat /\ DOMAIN s = 1..N /\ \A n \in 1..N : s[n] \in T
  OBVIOUS
<1>2. PICK f \in [0..N -> Seq(V)] : Retains(f, s, K) /\ Retain(s, K) = f[N]
  BY RetainRuns
<1> DEFINE M == {n \in 0..N : Among(f[n], J) = Cardinality(First(n))}
<1>3. 0 \in M
  <2>1. f[0] = <<>> /\ First(0) = {}
    BY <1>1, <1>2 DEF Retains
  <2>2. Spots(f[0], J) = {}
    BY <2>1 DEF Spots
  <2> QED BY <1>1, <2>1, <2>2, AmongNone, FS_EmptySet
<1>4. ASSUME NEW n \in 1..N, n - 1 \in M PROVE n \in M
  <2>1. n \in 0..N /\ n # 0 /\ n - 1 \in 0..N /\ f[n - 1] \in Seq(V)
        /\ Among(f[n - 1], J) = Cardinality(First(n - 1))
    BY <1>1, <1>4
  <2>2. f[n] = IF s[n] \in K THEN Append(f[n - 1], s[n]) ELSE f[n - 1]
    BY <1>2, <2>1 DEF Retains
  <2>3. IsFiniteSet(First(n - 1)) /\ Cardinality(First(n - 1)) \in Nat
    <3>1. IsFiniteSet(1..(n - 1)) /\ First(n - 1) \in SUBSET (1..(n - 1))
      BY <2>1, FS_Interval
    <3>2. IsFiniteSet(First(n - 1))
      BY <3>1, FS_Subset
    <3> QED BY <3>2, FS_CardinalityType
  <2>4. Among(f[n], J) = Cardinality(First(n - 1)) + (IF s[n] \in J \cap K THEN 1 ELSE 0)
    <3>1. CASE s[n] \in K
      <4>1. s[n] \in V
        BY <1>1, <3>1
      <4>2. Among(Append(f[n - 1], s[n]), J) = Among(f[n - 1], J) + (IF s[n] \in J THEN 1 ELSE 0)
        BY <2>1, <4>1, AmongAppend
      <4> QED BY <2>1, <2>2, <3>1, <4>2
    <3>2. CASE s[n] \notin K
      BY <2>1, <2>2, <2>3, <3>2
    <3> QED BY <3>1, <3>2
  <2>5. Cardinality(First(n)) = Cardinality(First(n - 1)) + (IF s[n] \in J \cap K THEN 1 ELSE 0)
    <3>1. CASE s[n] \in J \cap K
      <4>1. First(n) = First(n - 1) \cup {n} /\ n \notin First(n - 1)
        BY <2>1, <3>1
      <4> HIDE DEF First
      <4> QED BY <2>3, <3>1, <4>1, FS_AddElement
    <3>2. CASE s[n] \notin J \cap K
      <4>1. First(n) = First(n - 1)
        BY <2>1, <3>2
      <4> HIDE DEF First
      <4> QED BY <2>3, <3>2, <4>1
    <3> QED BY <3>1, <3>2
  <2> HIDE DEF First
  <2> QED BY <2>1, <2>4, <2>5
<1> HIDE DEF M
<1>5. \A n \in 0..N : n \in M
  BY <1>1, <1>3, <1>4, Passes
<1>6. Among(f[N], J) = Cardinality(First(N))
  BY <1>1, <1>5 DEF M
<1>7. First(N) = Spots(s, J \cap K)
  BY <1>1 DEF Spots
<1> QED
  BY <1>2, <1>6, <1>7 DEF Among
-----------------------------------------------------------------------------
(***************************************************************************)
(* What the scan finds, and what update_invoices makes of it.              *)
(***************************************************************************)
(* What update_invoices keeps of the transfers of an invoice.              *)
LEMMA KeptTransfers ==
    ASSUME NEW ts \in Seq(TransferValue)
    PROVE  /\ Kept(ts) \in Seq(TransferValue)
           /\ \A J : Among(Kept(ts), J) = Among(ts, {t \in J : OlderThan(t, DeepestUpdate)})
<1> DEFINE K == {t \in ToSet(ts) : OlderThan(t, DeepestUpdate)}
<1>1. Kept(ts) = Retain(ts, K)
  BY DEF Kept
<1>2. \A t \in K : OlderThan(t, DeepestUpdate)
  OBVIOUS
<1>3. \A i \in DOMAIN ts : ts[i] \in K <=> OlderThan(ts[i], DeepestUpdate)
  BY DEF ToSet
<1> HIDE DEF K
<1>4. Kept(ts) \in Seq(TransferValue)
  <2>1. Retain(ts, K) \in Seq({x \in TransferValue : x \in K})
    BY RetainType
  <2> QED BY <1>1, <2>1
<1>5. ASSUME NEW J PROVE Among(Kept(ts), J) = Among(ts, {t \in J : OlderThan(t, DeepestUpdate)})
  <2>1. Among(Kept(ts), J) = Among(ts, J \cap K)
    BY <1>1, AmongRetain
  <2>2. Spots(ts, J \cap K) = Spots(ts, {t \in J : OlderThan(t, DeepestUpdate)})
    BY <1>3 DEF Spots
  <2> QED BY <2>1, <2>2 DEF Among
<1> QED
  BY <1>4, <1>5

(* What it adds to them.                                                   *)
ForSub(sub, h, J) ==
    {f \in FoundValue : f.sub = sub /\ NewerThan(f.transfer, h) /\ f.transfer \in J}

(* The transfers of the scan that an invoice gets.                         *)
LEMMA FoundTransfers ==
    ASSUME found \in Seq(FoundValue), NEW sub, NEW h
    PROVE  /\ FoundFor(sub, h) \in Seq(TransferValue)
           /\ \A J : Among(FoundFor(sub, h), J) = Among(found, ForSub(sub, h, J))
<1> DEFINE K == {f \in ToSet(found) : f.sub = sub /\ NewerThan(f.transfer, h)}
           mine == Retain(found, K)
<1>1. FoundFor(sub, h) = [i \in 1..Len(mine) |-> mine[i].transfer]
  BY DEF FoundFor
<1>2. \A i \in DOMAIN found : /\ found[i] \in FoundValue
                               /\ found[i] \in K <=> (found[i].sub = sub /\ NewerThan(found[i].transfer, h))
  BY DEF ToSet
<1> HIDE DEF K
<1>3. mine \in Seq({x \in FoundValue : x \in K})
  BY RetainType
<1>4. mine \in Seq(FoundValue)
  BY <1>3
<1>5. \A J : Among(mine, J) = Among(found, J \cap K)
  BY AmongRetain
<1> HIDE DEF mine
<1>6. Len(mine) \in Nat /\ DOMAIN mine = 1..Len(mine) /\ \A i \in 1..Len(mine) : mine[i] \in FoundValue
  BY <1>4
<1>7. FoundFor(sub, h) \in Seq(TransferValue) /\ DOMAIN FoundFor(sub, h) = 1..Len(mine)
  <2>1. \A i \in 1..Len(mine) : mine[i].transfer \in TransferValue
    BY <1>6 DEF FoundValue
  <2> QED BY <1>1, <1>6, <2>1
<1>8. ASSUME NEW J PROVE Among(FoundFor(sub, h), J) = Among(found, ForSub(sub, h, J))
  <2> DEFINE F == {f \in FoundValue : f.transfer \in J}
  <2>1. Spots(FoundFor(sub, h), J) = Spots(mine, F)
    BY <1>1, <1>6, <1>7 DEF Spots
  <2>2. Spots(found, F \cap K) = Spots(found, ForSub(sub, h, J))
    BY <1>2 DEF Spots, ForSub
  <2> HIDE DEF F
  <2> QED BY <1>5, <2>1, <2>2 DEF Among
<1> QED
  BY <1>7, <1>8

(* SetToSeq lists every element of a finite set once.                      *)
LEMMA Listed ==
    ASSUME NEW S, IsFiniteSet(S)
    PROVE  SetToSeq(S) \in Bijection(1..Cardinality(S), S) /\ Cardinality(S) \in Nat
<1> DEFINE n == Cardinality(S)
<1>1. n \in Nat /\ ExistsBijection(1..n, S)
  BY FS_CardinalityType
<1>2. IsFiniteSet(1..n) /\ Cardinality(1..n) = n
  BY <1>1, FS_Interval
<1>3. \E f \in [1..n -> S] : IsInjective(f)
  BY <1>1 DEF ExistsBijection, Bijection, Injection, IsInjective
<1>4. SetToSeq(S) \in [1..n -> S] /\ IsInjective(SetToSeq(S))
  BY <1>3 DEF SetToSeq
<1>5. SetToSeq(S) \in Injection(1..n, S)
  BY <1>4 DEF Injection, IsInjective
<1>6. SetToSeq(S) \in Surjection(1..n, S)
  BY <1>2, <1>5, FS_Injection
<1> QED
  BY <1>1, <1>5, <1>6 DEF Bijection

(* What scan_transactions makes of a transaction in a block of height h.   *)
Item(tx, h) == [sub |-> SubOf[tx], transfer |-> Transfer(AmountOf[tx], h)]

(* It is something that a scan may find.                                   *)
LEMMA ItemType ==
    ASSUME NEW tx \in Tx, NEW h \in Nat \cup {NoHeight}
    PROVE  Item(tx, h) \in FoundValue
BY ScannerAssumption DEF ScannerAssumption, Item, Transfer, FoundValue, TransferValue

(* The transactions of one block, or of the txpool, are listed once each.  *)
LEMMA AmongFoundIn ==
    ASSUME NEW txs \in SUBSET Tx, NEW h \in Nat \cup {NoHeight}
    PROVE  /\ FoundIn(txs, h) \in Seq(FoundValue)
           /\ \A J : Among(FoundIn(txs, h), J) = Cardinality({tx \in txs : Item(tx, h) \in J})
<1> DEFINE n == Cardinality(txs)
           s == SetToSeq(txs)
<1>1. IsFiniteSet(txs)
  BY ScannerAssumption, FS_Subset DEF ScannerAssumption
<1>2. n \in Nat /\ s \in Bijection(1..n, txs)
  BY <1>1, Listed
<1>3. FoundIn(txs, h) = [i \in 1..n |-> Item(s[i], h)]
  BY DEF FoundIn, Item
<1> HIDE DEF n, s
<1>4. \A i \in 1..n : s[i] \in txs /\ Item(s[i], h) \in FoundValue
  BY <1>2, ItemType DEF Bijection, Injection
<1>5. FoundIn(txs, h) \in Seq(FoundValue)
  <2> HIDE DEF FoundValue
  <2> QED BY <1>2, <1>3, <1>4
<1>6. ASSUME NEW J PROVE Among(FoundIn(txs, h), J) = Cardinality({tx \in txs : Item(tx, h) \in J})
  <2> DEFINE A == Spots(FoundIn(txs, h), J)
             B == {tx \in txs : Item(tx, h) \in J}
             f == [i \in A |-> s[i]]
  <2>0. A = {i \in 1..n : Item(s[i], h) \in J}
    BY <1>3 DEF Spots
  <2>1. \A i \in A : s[i] \in B
    BY <1>4, <2>0
  <2>2. \A i, j \in A : s[i] = s[j] => i = j
    BY <1>2, <2>0 DEF Bijection, Injection, IsInjective
  <2>3. \A tx \in B : \E i \in A : s[i] = tx
    BY <1>2, <2>0 DEF Bijection, Surjection
  <2>4. IsFiniteSet(A)
    BY <1>5, SpotsFinite
  <2> HIDE DEF A, B
  <2>5. f \in Bijection(A, B)
    BY <2>1, <2>2, <2>3 DEF Bijection, Injection, Surjection, IsInjective
  <2>6. Cardinality(B) = Cardinality(A)
    BY <2>4, <2>5, FS_Bijection DEF ExistsBijection
  <2> QED BY <2>6 DEF A, B, Among
<1> QED
  BY <1>5, <1>6

(* FlattenSeq joins the sequences from the first to the last.              *)
Flattens(f, seqs) == \A i \in 1..Len(seqs) : f[i] = IF i = 1 THEN seqs[i] ELSE f[i - 1] \o seqs[i]

(* It is the last of the sequences that it builds.                         *)
LEMMA FlattenRuns ==
    ASSUME NEW T, NEW n \in Nat \ {0}, NEW seqs \in [1..n -> Seq(T)]
    PROVE  \E f \in [1..n -> Seq(T)] : Flattens(f, seqs) /\ FlattenSeq(seqs) = f[n]
<1> DEFINE Q == Seq(T)
           G == [i \in 1..n |-> [q \in Q |-> q \o seqs[i]]]
           flat == CHOOSE f : f = [i \in 1..n |-> IF i = 1 THEN seqs[i] ELSE f[i - 1] \o seqs[i]]
<1>1. Len(seqs) = n
  OBVIOUS
<1>2. \A q \in Q, i \in 1..n : seqs[i] \in Q /\ q \o seqs[i] \in Q
  OBVIOUS
<1>3. <<>> \in Q /\ \A i \in 1..n : <<>> \o seqs[i] = seqs[i]
  OBVIOUS
<1>4. FlattenSeq(seqs) = flat[n]
  BY <1>1 DEF FlattenSeq
<1> HIDE DEF Q
<1>5. \A i \in 1..n : G[i] \in [Q -> Q]
  BY <1>2
<1>6. G \in [1..n -> [Q -> Q]] /\ \A i \in 1..n, q \in Q : G[i][q] = q \o seqs[i]
  BY <1>5
<1> HIDE DEF G
<1>7. PICK g \in [0..n -> Q] : Runs(g, n, <<>>, G)
  BY <1>3, <1>6, Iteration
<1> DEFINE h == [i \in 1..n |-> g[i]]
<1>8. h = [i \in 1..n |-> IF i = 1 THEN seqs[i] ELSE h[i - 1] \o seqs[i]]
  <2>1. ASSUME NEW i \in 1..n PROVE h[i] = IF i = 1 THEN seqs[i] ELSE h[i - 1] \o seqs[i]
    <3>1. i - 1 \in 0..n /\ g[i - 1] \in Q /\ g[i] = G[i][g[i - 1]]
      BY <1>7 DEF Runs
    <3>2. g[i] = g[i - 1] \o seqs[i]
      BY <1>6, <3>1
    <3>3. CASE i = 1
      <4>1. g[i - 1] = <<>>
        BY <1>7, <3>3 DEF Runs
      <4> QED BY <1>3, <3>2, <3>3, <4>1
    <3>4. CASE i # 1
      BY <3>2, <3>4
    <3> QED BY <3>3, <3>4
  <2> HIDE DEF h
  <2>2. h = [i \in 1..n |-> h[i]]
    BY DEF h
  <2> QED BY <2>1, <2>2
<1>9. flat = [i \in 1..n |-> IF i = 1 THEN seqs[i] ELSE flat[i - 1] \o seqs[i]]
  <2> HIDE DEF h
  <2> QED BY <1>8
<1> HIDE DEF flat
<1>10. Flattens(flat, seqs) /\ DOMAIN flat = 1..n
  BY <1>1, <1>9 DEF Flattens
<1>11. \A i \in 0..n : i > 0 => flat[i] \in Q
  <2> DEFINE M == {i \in 0..n : i > 0 => flat[i] \in Q}
  <2>1. 0 \in M
    OBVIOUS
  <2>2. ASSUME NEW i \in 1..n, i - 1 \in M PROVE i \in M
    <3>1. flat[i] = IF i = 1 THEN seqs[i] ELSE flat[i - 1] \o seqs[i]
      BY <1>1, <1>10 DEF Flattens
    <3>2. i # 1 => flat[i - 1] \in Q
      BY <2>2
    <3> QED BY <1>2, <1>3, <3>1, <3>2
  <2> HIDE DEF M
  <2>3. \A i \in 0..n : i \in M
    BY <2>1, <2>2, Passes
  <2> QED BY <2>3 DEF M
<1>12. flat \in [1..n -> Q]
  <2>1. \A i \in 1..n : flat[i] \in Q
    BY <1>11
  <2>2. flat = [i \in 1..n |-> flat[i]]
    BY <1>9
  <2> QED BY <2>1, <2>2
<1> QED
  BY <1>4, <1>10, <1>12 DEF Q

(* Of the first n sequences all but the one at j have no element in K.     *)
OnlyOne(seqs, n, j, K) == \A i \in 1..n : i # j => Among(seqs[i], K) = 0

(* Joining them leaves the elements of that one.                           *)
LEMMA AmongFlatten ==
    ASSUME NEW T, NEW n \in Nat, NEW seqs \in [1..n -> Seq(T)], NEW K, NEW j \in Int,
           OnlyOne(seqs, n, j, K)
    PROVE  /\ FlattenSeq(seqs) \in Seq(T)
           /\ Among(FlattenSeq(seqs), K) = IF j \in 1..n THEN Among(seqs[j], K) ELSE 0
<1>1. Len(seqs) = n
  OBVIOUS
<1>2. CASE n = 0
  <2>1. FlattenSeq(seqs) = seqs /\ seqs \in Seq(T) /\ DOMAIN seqs = {}
    BY <1>1, <1>2 DEF FlattenSeq
  <2>2. Spots(seqs, K) = {}
    BY <2>1 DEF Spots
  <2> QED BY <1>2, <2>1, <2>2, AmongNone
<1>3. CASE n # 0
  <2>1. PICK f \in [1..n -> Seq(T)] : Flattens(f, seqs) /\ FlattenSeq(seqs) = f[n]
    BY <1>3, FlattenRuns
  <2> DEFINE M == {m \in 0..n : m > 0 => Among(f[m], K) = IF j \in 1..m THEN Among(seqs[j], K) ELSE 0}
  <2>2. 0 \in M
    OBVIOUS
  <2>3. ASSUME NEW m \in 1..n, m - 1 \in M PROVE m \in M
    <3>1. f[m] = IF m = 1 THEN seqs[m] ELSE f[m - 1] \o seqs[m]
      BY <1>1, <2>1 DEF Flattens
    <3>2. seqs[m] \in Seq(T) /\ Among(seqs[m], K) \in Nat
      BY SpotsFinite
    <3>3. m # j => Among(seqs[m], K) = 0
      BY DEF OnlyOne
    <3>4. CASE m = 1
      BY <3>1, <3>2, <3>3, <3>4
    <3>5. CASE m # 1
      <4>1. m - 1 \in 1..n /\ f[m - 1] \in Seq(T)
        BY <3>5
      <4>2. Among(f[m - 1], K) = IF j \in 1..(m - 1) THEN Among(seqs[j], K) ELSE 0
        BY <2>3, <4>1
      <4>3. Among(f[m], K) = Among(f[m - 1], K) + Among(seqs[m], K)
        BY <3>1, <3>2, <3>5, <4>1, AmongConcat
      <4>4. CASE m = j
        BY <3>2, <4>2, <4>3, <4>4
      <4>5. CASE m # j
        <5>1. j \in 1..m <=> j \in 1..(m - 1)
          BY <4>5
        <5>2. j \in 1..(m - 1) => Among(seqs[j], K) \in Nat
          <6>1. j \in 1..(m - 1) => seqs[j] \in Seq(T)
            OBVIOUS
          <6> QED BY <6>1, SpotsFinite
        <5> QED BY <3>3, <4>2, <4>3, <4>5, <5>1, <5>2
      <4> QED BY <4>4, <4>5
    <3> QED BY <3>4, <3>5
  <2> HIDE DEF M
  <2>4. \A m \in 0..n : m \in M
    BY <2>2, <2>3, Passes
  <2>5. n \in 0..n /\ n > 0 /\ n \in 1..n
    BY <1>3
  <2> QED BY <2>1, <2>4, <2>5 DEF M
<1> QED
  BY <1>2, <1>3

(* The invoices that differ from inv in what they count as paid only.      *)
Recounted(inv) ==
    {v \in InvoiceValue : /\ v.transfers = inv.transfers /\ v.current = inv.current
                          /\ v.requested = inv.requested /\ v.required = inv.required}

(* Counting a transfer changes what is paid only.                          *)
LEMMA AddTransferKeeps ==
    ASSUME NEW inv, NEW v \in Recounted(inv), NEW t \in TransferValue
    PROVE  AddTransfer(v, t) \in Recounted(inv)
<1>1. v \in InvoiceValue /\ v.paid \in Nat /\ t.amount \in Nat /\ t.height \in Nat \cup {NoHeight}
  BY DEF Recounted, InvoiceValue, TransferValue
<1>2. v.paid + t.amount \in Nat
  BY <1>1
<1>3. AddTransfer(v, t) \in InvoiceValue
  BY <1>1, <1>2 DEF AddTransfer, InvoiceValue
<1> QED
  BY <1>1, <1>3 DEF AddTransfer, Recounted, InvoiceValue

(* Recalculate adds the transfers up from the first to the last.           *)
Sums(f, inv) ==
    \A i \in 0..Len(inv.transfers) :
        f[i] = IF i = 0 THEN [inv EXCEPT !.paid = 0, !.paidHeight = NoHeight]
               ELSE AddTransfer(f[i - 1], inv.transfers[i])

(* It is the last of the sums.                                             *)
LEMMA RecalculateRuns ==
    ASSUME NEW inv \in InvoiceValue
    PROVE  \E f \in [0..Len(inv.transfers) -> Recounted(inv)] :
              Sums(f, inv) /\ Recalculate(inv) = f[Len(inv.transfers)]
<1> DEFINE ts == inv.transfers
           n == Len(ts)
           Q == Recounted(inv)
           x == [inv EXCEPT !.paid = 0, !.paidHeight = NoHeight]
           G == [i \in 1..n |-> [q \in Q |-> AddTransfer(q, ts[i])]]
           sum == CHOOSE f : f = [i \in 0..n |-> IF i = 0 THEN x ELSE AddTransfer(f[i - 1], ts[i])]
<1>1. ts \in Seq(TransferValue)
  BY DEF InvoiceValue, TransferValue
<1>2. n \in Nat /\ \A i \in 1..n : ts[i] \in TransferValue
  BY <1>1
<1>3. x \in Q
  BY DEF Recounted, InvoiceValue
<1>4. Recalculate(inv) = sum[n]
  BY DEF Recalculate
<1> HIDE DEF Q, x
<1>5. ASSUME NEW q \in Q, NEW i \in 1..n PROVE AddTransfer(q, ts[i]) \in Q
  BY <1>2, AddTransferKeeps DEF Q
<1> HIDE DEF ts, n
<1>6. \A i \in 1..n : G[i] \in [Q -> Q]
  BY <1>5
<1>7. G \in [1..n -> [Q -> Q]] /\ \A i \in 1..n, q \in Q : G[i][q] = AddTransfer(q, ts[i])
  BY <1>6
<1> HIDE DEF G
<1>8. PICK g \in [0..n -> Q] : Runs(g, n, x, G)
  BY <1>2, <1>3, <1>7, Iteration
<1>9. g = [i \in 0..n |-> IF i = 0 THEN x ELSE AddTransfer(g[i - 1], ts[i])]
  <2>1. ASSUME NEW i \in 0..n PROVE g[i] = IF i = 0 THEN x ELSE AddTransfer(g[i - 1], ts[i])
    <3>1. CASE i = 0
      BY <1>8, <3>1 DEF Runs
    <3>2. CASE i # 0
      <4>1. i \in 1..n /\ i - 1 \in 0..n /\ g[i - 1] \in Q
        BY <1>2, <3>2
      <4>2. g[i] = G[i][g[i - 1]]
        BY <1>8, <4>1 DEF Runs
      <4> QED BY <1>7, <3>2, <4>1, <4>2
    <3> QED BY <3>1, <3>2
  <2>2. g = [i \in 0..n |-> g[i]]
    OBVIOUS
  <2> QED BY <2>1, <2>2
<1>10. sum = [i \in 0..n |-> IF i = 0 THEN x ELSE AddTransfer(sum[i - 1], ts[i])]
  BY <1>9
<1> HIDE DEF sum
<1>11. \A i \in 0..n : sum[i] = IF i = 0 THEN x ELSE AddTransfer(sum[i - 1], ts[i])
  BY <1>10
<1>12. \A i \in 0..n : sum[i] \in Q
  <2> DEFINE M == {i \in 0..n : sum[i] \in Q}
  <2>1. 0 \in M
    BY <1>2, <1>3, <1>11
  <2>2. ASSUME NEW i \in 1..n, i - 1 \in M PROVE i \in M
    <3>1. i \in 0..n /\ i # 0 /\ sum[i - 1] \in Q
      BY <1>2, <2>2
    <3>2. sum[i] = AddTransfer(sum[i - 1], ts[i])
      BY <1>11, <3>1
    <3> QED BY <1>5, <3>1, <3>2
  <2> HIDE DEF M
  <2>3. \A i \in 0..n : i \in M
    BY <1>2, <2>1, <2>2, Passes
  <2> QED BY <2>3 DEF M
<1>13. sum \in [0..n -> Q]
  <2>1. sum = [i \in 0..n |-> sum[i]]
    BY <1>10
  <2> QED BY <1>12, <2>1
<1>14. Sums(sum, inv)
  BY <1>11 DEF Sums, x, n, ts
<1> QED
  BY <1>4, <1>13, <1>14 DEF n, ts, Q

(* Adding the transfers up changes what is paid and nothing else.          *)
LEMMA RecalculateType ==
    ASSUME NEW inv \in InvoiceValue
    PROVE  Recalculate(inv) \in Recounted(inv) /\ Recalculate(inv) \in InvoiceValue
<1> DEFINE n == Len(inv.transfers)
<1>1. n \in Nat
  BY DEF InvoiceValue
<1>2. PICK f \in [0..n -> Recounted(inv)] : Recalculate(inv) = f[n]
  BY RecalculateRuns
<1>3. Recalculate(inv) \in Recounted(inv)
  BY <1>1, <1>2
<1> QED
  BY <1>3 DEF Recounted

(* What update_invoices makes of an invoice.                               *)
LEMMA UpdateType ==
    ASSUME NEW id, NEW old \in InvoiceValue, height \in Nat, found \in Seq(FoundValue)
    PROVE  /\ UpdateInvoice(id, old) \in InvoiceValue
           /\ UpdateInvoice(id, old).current = height + 1
           /\ UpdateInvoice(id, old).transfers
                = Kept(old.transfers) \o FoundFor(id.sub, id.creation - 1)
<1>1. old.transfers \in Seq(TransferValue)
  BY DEF InvoiceValue, TransferValue
<1> DEFINE a == Kept(old.transfers)
           b == FoundFor(id.sub, id.creation - 1)
<1>2. a \in Seq(TransferValue) /\ b \in Seq(TransferValue)
  BY <1>1, KeptTransfers, FoundTransfers
<1>3. UpdateInvoice(id, old) = [old EXCEPT !.transfers = a \o b, !.current = height + 1]
  BY DEF UpdateInvoice
<1> HIDE DEF a, b
<1>4. a \o b \in Seq(TransferValue) /\ height + 1 \in Nat
  BY <1>2
<1> DEFINE c == a \o b
<1> HIDE DEF c
<1>5. UpdateInvoice(id, old) \in InvoiceValue
  BY <1>3, <1>4 DEF InvoiceValue, TransferValue, c
<1> QED
  BY <1>3, <1>5 DEF a, b, InvoiceValue

(* How often a transfer of a block occurs after update_invoices: what was  *)
(* kept of it, and what the scan found of it.                              *)
LEMMA AmongUpdate ==
    ASSUME NEW id, NEW old \in InvoiceValue, height \in Nat, found \in Seq(FoundValue), NEW J
    PROVE  Among(UpdateInvoice(id, old).transfers, J)
             = Among(old.transfers, {t \in J : OlderThan(t, DeepestUpdate)})
               + Among(found, ForSub(id.sub, id.creation - 1, J))
<1>1. old.transfers \in Seq(TransferValue)
  BY DEF InvoiceValue, TransferValue
<1>2. /\ Kept(old.transfers) \in Seq(TransferValue)
      /\ FoundFor(id.sub, id.creation - 1) \in Seq(TransferValue)
      /\ Among(Kept(old.transfers), J) = Among(old.transfers, {t \in J : OlderThan(t, DeepestUpdate)})
      /\ Among(FoundFor(id.sub, id.creation - 1), J) = Among(found, ForSub(id.sub, id.creation - 1, J))
  BY <1>1, KeptTransfers, FoundTransfers
<1> DEFINE a == Kept(old.transfers)
           b == FoundFor(id.sub, id.creation - 1)
<1>3. UpdateInvoice(id, old).transfers = a \o b
  BY UpdateType
<1> HIDE DEF a, b
<1>4. a \in Seq(TransferValue) /\ b \in Seq(TransferValue)
  BY <1>2 DEF a, b
<1>5. Among(a \o b, J) = Among(a, J) + Among(b, J)
  BY <1>4, AmongConcat
<1> QED
  BY <1>2, <1>3, <1>5, Zenon DEF a, b
-----------------------------------------------------------------------------
(* The lowest height of the invoices is a height.                          *)
LEMMA LowestIsHeight ==
    ASSUME StoreTypes, DOMAIN invoices # {}
    PROVE  LowestInvoiceHeight \in Nat
<1> DEFINE T == {invoices[id].current : id \in DOMAIN invoices}
<1>1. T \subseteq Nat /\ T # {}
  BY DEF StoreTypes, InvoiceValue
<1> HIDE DEF T
<1>2. \E x \in T : \A y \in T : x <= y
  BY <1>1, LeastNatural
<1>3. Lowest(T) \in T
  BY <1>2 DEF Lowest
<1>4. Lowest(T) \in Nat
  BY <1>1, <1>3
<1> QED
  BY <1>4 DEF LowestInvoiceHeight, T

(* Scanner::new starts at a height that the block cache can start from,    *)
(* one below the stored height at the lowest.                              *)
LEMMA StartIsInRange ==
    ASSUME IInv, StoreTypes, Resumes
    PROVE  StartHeight \in StartHeights /\ StartHeight \in Nat /\ StartHeight >= storedHeight - 1
<1>1. len \in Nat \ {0} /\ CacheSize \in Nat \ {0}
  BY DEF IInv, TypeOK, MonerodTypeOK
<1>2. storedHeight \in Nat \cup {-1} /\ storedHeight < len
  BY DEF Resumes, NoHeight
<1>3. LastHeight \in Nat \cup {-1} /\ (storedHeight # -1 => LastHeight = storedHeight)
  BY <1>2, LowestIsHeight DEF LastHeight, NoHeight
<1> DEFINE last == IF LastHeight = NoHeight THEN len ELSE LastHeight
           low == IF last < len THEN last ELSE len
<1>4. last \in Nat /\ (storedHeight # -1 => last = storedHeight)
  BY <1>1, <1>2, <1>3 DEF NoHeight
<1> HIDE DEF last
<1>5. low \in Nat /\ low <= len /\ (storedHeight # -1 => low = storedHeight)
  BY <1>1, <1>2, <1>4
<1>6. StartHeight = (IF low > CacheSize THEN low ELSE CacheSize) - 1
  BY DEF StartHeight, last
<1> HIDE DEF low
<1> QED
  BY <1>1, <1>2, <1>5, <1>6 DEF StartHeights
-----------------------------------------------------------------------------
(***************************************************************************)
(* What the block cache sees of the scanner's steps: its own steps, scans  *)
(* that end in a later stage with an error, and stops and crashes.         *)
(***************************************************************************)
Interrupted ==
    /\ bcpc \in {"idle", "done"}
    /\ bcpc' \in {bcpc, "idle"}
    /\ faults < MaxFaults
    /\ faults' = faults + 1
    /\ UNCHANGED <<daemonVars, height, daemonHeight, blocks, cursor, updated, quiet, seen>>

(* A stop or a crash: the window is gone, the daemon is not.               *)
Dropped ==
    /\ bcpc' = "off" /\ blocks' = Empty
    /\ cursor' = 0 /\ updated' = 0
    /\ quiet' = TRUE /\ seen' = {}
    /\ height' \in {height, 0} /\ daemonHeight' \in {daemonHeight, 0}
    /\ UNCHANGED <<daemonVars, faults>>

(* Every step of the composition is one of these for the block cache.      *)
LEMMA CacheSees ==
    ASSUME ScannerInv, [ScannerNext]_scannerVars
    PROVE  [Next]_vars \/ Interrupted \/ Dropped
<1>1. CASE StartScanner
  <2>1. StartHeight \in StartHeights
    BY StartIsInRange DEF ScannerInv
  <2> QED BY <1>1, <2>1 DEF StartScanner, Next, CacheStep
<1>2. CASE \/ InitPool \/ RefreshTable \/ QueryPool \/ FetchPool \/ UpdateInvoices \/ SaveHeight
           \/ \E p \in pending : SaveInvoice(p)
  <2>1. UNCHANGED vars
    BY <1>2 DEF InitPool, RefreshTable, QueryPool, FetchPool, UpdateInvoices, SaveHeight, SaveInvoice, vars
  <2> QED BY <2>1
<1>3. CASE FetchInitial \/ FinishNew \/ BeginScan \/ UpdateBlocks \/ BlocksUpdated \/ Scan \/ KeyRefused
  <2>1. CacheStep
    BY <1>3 DEF FetchInitial, FinishNew, BeginScan, UpdateBlocks, BlocksUpdated, Scan, KeyRefused, CacheStep
  <2> QED BY <2>1 DEF Next
<1>4. CASE BlockRpcFails
  BY <1>4 DEF BlockRpcFails, Next, CacheStep
<1>5. CASE PoolRpcFails \/ StoreFails \/ ScanTransactionsFails
  <2>1. GiveUp /\ spc \in {"pool", "fetch", "scan", "update", "save"}
    BY <1>5 DEF PoolRpcFails, StoreFails, ScanTransactionsFails
  <2>2. Interrupted
    BY <2>1 DEF GiveUp, CountFault, Interrupted, ScannerInv, Course
  <2> QED BY <2>2
<1>6. CASE PoolTakenForEmpty \/ \E p \in pending : SaveFails(p)
  <2>1. Interrupted
    BY <1>6 DEF PoolTakenForEmpty, SaveFails, CountFault, Interrupted, ScannerInv, Course
  <2> QED BY <2>1
<1>7. CASE Stop \/ Crash
  <2>1. Dropped
    BY <1>7 DEF Stop, Crash, Forget, Dropped
  <2> QED BY <2>1
<1>8. CASE NewInvoice \/ \E id \in DOMAIN invoices : RemoveInvoice(id)
  <2>1. UNCHANGED vars
    BY <1>8 DEF NewInvoice, DrawSubaddress, InsertInvoice, RemoveInvoice, vars
  <2> QED BY <2>1
<1>9. CASE \E tx \in Tx : Pay(tx)
  <2>1. DaemonStep
    BY <1>9 DEF Pay, DaemonStep, cacheVars
  <2> QED BY <2>1 DEF Next
<1>10. CASE DaemonMoves
  <2>1. DaemonStep
    BY <1>10 DEF DaemonMoves, DaemonStep
  <2> QED BY <2>1 DEF Next
<1>11. CASE UNCHANGED scannerVars
  BY <1>11 DEF scannerVars, vars
<1> QED
  BY <1>1, <1>2, <1>3, <1>4, <1>5, <1>6, <1>7, <1>8, <1>9, <1>10, <1>11
     DEF ScannerNext, ScanStep, Failure

(* A scan that ends with an error keeps the block cache's invariant,       *)
LEMMA InterruptedKeeps == ASSUME IInv, Interrupted PROVE IInv'
<1> USE DEF Interrupted, daemonVars
<1>1. Window' = Window
  BY DEF Window
<1>2. MonerodTypeOK'
  BY DEF IInv, TypeOK, MonerodTypeOK
<1>3. faults' \in 0..MaxFaults
  BY DEF IInv, TypeOK
<1>4. TypeOK'
  BY <1>1, <1>2, <1>3 DEF IInv, TypeOK, Stages
<1>5. RepairedSoFar'
  BY DEF IInv, RepairedSoFar
<1> QED
  BY <1>4, <1>5, FrameKeeps

(* and so does losing the window.                                          *)
LEMMA DroppedKeeps == ASSUME IInv, Dropped PROVE IInv'
<1> USE DEF Dropped, daemonVars
<1>1. DOMAIN blocks' = {} /\ Window' = {} /\ blocks' \in [{} -> Block]
  BY DEF Empty, Window
<1>2. MonerodTypeOK'
  BY DEF IInv, TypeOK, MonerodTypeOK
<1>3. height' \in Nat /\ daemonHeight' \in Nat
  BY DEF IInv, TypeOK
<1>4. TypeOK'
  BY <1>1, <1>2, <1>3 DEF IInv, TypeOK, Stages
<1>5. ChainLinked'
  BY DEF IInv, ChainLinked
<1> QED
  BY <1>1, <1>4, <1>5 DEF IInv, HeightsAligned, WindowInChain, HashesIdentify,
       StaleTopIsCovered, RepairedSoFar

(* Every step of the composition keeps both invariants of the block cache. *)
LEMMA CacheKeeps ==
    ASSUME ScannerInv, [ScannerNext]_scannerVars
    PROVE  IInv' /\ Reporting'
<1> USE DEF ScannerInv
<1>1. CASE [Next]_vars
  BY <1>1, StepIInv, StepReporting
<1>2. CASE Interrupted
  <2>1. faults' > 0
    BY <1>2 DEF Interrupted, IInv, TypeOK
  <2> QED BY <1>2, <2>1, InterruptedKeeps, LossReporting
<1>3. CASE Dropped
  <2>1. bcpc' \in {"off", "init"} /\ blocks' = Empty
    BY <1>3 DEF Dropped
  <2> QED BY <1>3, <2>1, DroppedKeeps, LossReporting
<1> QED
  BY <1>1, <1>2, <1>3, CacheSees

(* A scan whose window is filled lies within the chain.                    *)
LEMMA CacheNotAhead ==
    ASSUME IInv, bcpc \in {"idle", "next", "fix", "done"}
    PROVE  height < len
<1>1. Window = 0..(CacheSize - 1)
  BY DEF Window
<1>2. 0 \in DOMAIN blocks
  BY <1>1 DEF IInv, TypeOK
<1> QED
  BY <1>2 DEF IInv, WindowInChain
-----------------------------------------------------------------------------
(* The scanner's stages and the block cache's go together.                 *)
LEMMA CourseKeeps ==
    ASSUME Course, [ScannerNext]_scannerVars PROVE Course'
<1> USE DEF Course, ScannerStages
<1>1. CASE StartScanner \/ InitPool \/ FetchInitial \/ FinishNew
  BY <1>1 DEF StartScanner, InitPool, FetchInitial, FinishNew, StartInit, InitFetch, InitDone,
       cacheVars, scanVars
<1>2. CASE RefreshTable \/ BeginScan \/ BlocksUpdated
  BY <1>2 DEF RefreshTable, BeginScan, BlocksUpdated, QueryHeight, FixDone, cacheVars
<1>3. CASE UpdateBlocks
  BY <1>3 DEF UpdateBlocks, FetchNext, FixKeep, FixRepair, scanVars
<1>4. CASE QueryPool \/ FetchPool \/ Scan \/ KeyRefused \/ UpdateInvoices
  BY <1>4 DEF QueryPool, FetchPool, Scan, KeyRefused, TakeResult, UpdateInvoices, cacheVars
<1>5. CASE SaveHeight \/ \E p \in pending : SaveInvoice(p)
  BY <1>5 DEF SaveHeight, SaveInvoice, cacheVars
<1>6. CASE BlockRpcFails
  BY <1>6 DEF BlockRpcFails, RpcFail, InitTooShort
<1>7. CASE PoolRpcFails \/ StoreFails \/ ScanTransactionsFails
  BY <1>7 DEF PoolRpcFails, StoreFails, ScanTransactionsFails, GiveUp
<1>8. CASE PoolTakenForEmpty \/ \E p \in pending : SaveFails(p)
  BY <1>8 DEF PoolTakenForEmpty, SaveFails
<1>9. CASE Stop \/ Crash
  BY <1>9 DEF Stop, Crash, Forget
<1>10. CASE \/ NewInvoice
            \/ \E id \in DOMAIN invoices : RemoveInvoice(id)
            \/ \E tx \in Tx : Pay(tx)
            \/ DaemonMoves
            \/ UNCHANGED scannerVars
  <2>1. UNCHANGED <<spc, bcpc>>
    BY <1>10 DEF NewInvoice, DrawSubaddress, InsertInvoice, RemoveInvoice, Pay, DaemonMoves, cacheVars, scanVars, scannerVars
  <2> QED BY <2>1
<1> QED
  BY <1>1, <1>2, <1>3, <1>4, <1>5, <1>6, <1>7, <1>8, <1>9, <1>10
     DEF ScannerNext, ScanStep, Failure

(* The blocks that a scan reads are the newest of the window.              *)
ScannedCount == IF firstScan THEN CacheSize ELSE updated

(* Their number, and that they lie in the window and the chain.            *)
LEMMA ScannedRange ==
    ASSUME IInv, bcpc = "done"
    PROVE  /\ ScannedCount \in 0..CacheSize
           /\ ScannedBlocks = 0..(ScannedCount - 1) /\ Cardinality(ScannedBlocks) = ScannedCount
           /\ height \in Nat /\ height >= CacheSize - 1 /\ height < len
           /\ \A k \in 0..(CacheSize - 1) : blocks[k] \in Block /\ blocks[k].txs \in SUBSET Tx
<1>1. Window = 0..(CacheSize - 1)
  BY DEF Window
<1>2. height \in Nat /\ height >= CacheSize - 1 /\ updated \in 0..CacheSize /\ height < len
      /\ blocks \in [0..(CacheSize - 1) -> Block]
  BY <1>1 DEF IInv, TypeOK, WindowInChain
<1>3. ScannedCount \in 0..CacheSize
  BY <1>2 DEF ScannedCount
<1>4. ScannedBlocks = 0..(ScannedCount - 1)
  BY DEF ScannedBlocks, ScannedCount
<1>5. Cardinality(ScannedBlocks) = ScannedCount
  <2>1. Cardinality(0..(ScannedCount - 1))
          = IF 0 > ScannedCount - 1 THEN 0 ELSE (ScannedCount - 1) - 0 + 1
    BY <1>3, FS_Interval
  <2> QED BY <1>3, <1>4, <2>1
<1>6. \A k \in 0..(CacheSize - 1) : blocks[k] \in Block /\ blocks[k].txs \in SUBSET Tx
  BY <1>2 DEF Block
<1> QED
  BY <1>2, <1>3, <1>4, <1>5, <1>6

(* No scanned block but that of height g holds any of K.                   *)
OnlyAt(g, keys, K) ==
    \A k \in ScannedBlocks :
        height - k # g => \A tx \in Owned(blocks[k].txs, keys) : Item(tx, height - k) \notin K

(* What scan_blocks finds of K when only the block of height g holds any.  *)
LEMMA BlocksFound ==
    ASSUME IInv, bcpc = "done", NEW keys, NEW K, NEW g \in Int, OnlyAt(g, keys, K)
    PROVE  /\ FoundInBlocks(keys) \in Seq(FoundValue)
           /\ Among(FoundInBlocks(keys), K)
                = IF height - g \in ScannedBlocks
                  THEN Cardinality({tx \in Owned(blocks[height - g].txs, keys) : Item(tx, g) \in K})
                  ELSE 0
<1> DEFINE n == ScannedCount
           of(i) == Owned(blocks[n - i].txs, keys)
           seqs == [i \in 1..n |-> FoundIn(of(i), height - (n - i))]
           j == n - (height - g)
<1>1. /\ n \in 0..CacheSize /\ ScannedBlocks = 0..(n - 1) /\ Cardinality(ScannedBlocks) = n
      /\ height \in Nat /\ height >= CacheSize - 1
      /\ \A k \in 0..(CacheSize - 1) : blocks[k].txs \in SUBSET Tx
  BY ScannedRange
<1>2. FoundInBlocks(keys) = FlattenSeq(seqs)
  BY <1>1 DEF FoundInBlocks
<1>3. \A i \in 1..n : /\ n - i \in 0..(n - 1) /\ n - i \in 0..(CacheSize - 1)
                      /\ height - (n - i) \in Nat
  BY <1>1
<1>4. \A i \in 1..n : of(i) \in SUBSET Tx
  BY <1>1, <1>3 DEF Owned, Recognised
<1> HIDE DEF n, of
<1>5. ASSUME NEW i \in 1..n
      PROVE  /\ FoundIn(of(i), height - (n - i)) \in Seq(FoundValue)
             /\ Among(FoundIn(of(i), height - (n - i)), K)
                  = Cardinality({tx \in of(i) : Item(tx, height - (n - i)) \in K})
  BY <1>3, <1>4, AmongFoundIn
<1>6. seqs \in [1..n -> Seq(FoundValue)]
  BY <1>5
<1>7. ASSUME NEW i \in 1..n, i # j PROVE Among(seqs[i], K) = 0
  <2>1. height - (n - i) # g
    BY <1>1, <1>7
  <2>2. \A tx \in of(i) : Item(tx, height - (n - i)) \notin K
    BY <1>1, <1>3, <2>1 DEF of, OnlyAt
  <2>3. {tx \in of(i) : Item(tx, height - (n - i)) \in K} = {}
    BY <2>2
  <2> QED BY <1>5, <2>3, FS_EmptySet
<1>8. j \in Int /\ n \in Nat
  BY <1>1
<1> HIDE DEF seqs
<1>9. /\ FlattenSeq(seqs) \in Seq(FoundValue)
      /\ Among(FlattenSeq(seqs), K) = IF j \in 1..n THEN Among(seqs[j], K) ELSE 0
  <2> HIDE DEF j
  <2>1. OnlyOne(seqs, n, j, K)
    BY <1>7 DEF OnlyOne
  <2> QED BY <1>6, <1>8, <2>1, AmongFlatten
<1>10. height - g \in ScannedBlocks <=> j \in 1..n
  BY <1>1
<1>11. ASSUME j \in 1..n
       PROVE  Among(seqs[j], K)
                = Cardinality({tx \in Owned(blocks[height - g].txs, keys) : Item(tx, g) \in K})
  <2>1. n - j = height - g /\ height - (n - j) = g
    BY <1>1
  <2>2. of(j) = Owned(blocks[height - g].txs, keys)
    BY <2>1 DEF of
  <2>3. Among(seqs[j], K) = Cardinality({tx \in of(j) : Item(tx, height - (n - j)) \in K})
    <3> HIDE DEF j
    <3> QED BY <1>5, <1>11 DEF seqs
  <2> QED BY <2>1, <2>2, <2>3
<1> QED
  BY <1>2, <1>9, <1>10, <1>11

(* What a scan finds is typed.                                             *)
LEMMA ScanTypes ==
    ASSUME IInv, Course, StoreTypes, Scan
    PROVE  /\ outputKeys' \in [Key -> Tx \cup {NoTx}] /\ discovered' \subseteq Tx
           /\ FoundInBlocks(outputKeys') \in Seq(FoundValue)
           /\ FoundIn(discovered', NoHeight) \in Seq(FoundValue)
           /\ found' = FoundInBlocks(outputKeys') \o FoundIn(discovered', NoHeight)
           /\ found' \in Seq(FoundValue)
           /\ \A k \in Key : outputKeys'[k] \in KeyOwners(k)
<1>1. bcpc = "done"
  BY DEF Scan, TakeResult
<1>2. /\ outputKeys' \in [Key -> Tx \cup {NoTx}]
      /\ \A k \in Key : outputKeys'[k] \in KeyOwners(k)
      /\ discovered' = discovered \cup Owned(newTxs, outputKeys')
      /\ found' = FoundInBlocks(outputKeys') \o FoundIn(discovered', NoHeight)
  BY DEF Scan, ScanTxpool, KeyTables
<1>3. discovered' \in SUBSET Tx
  BY <1>2 DEF StoreTypes, Owned, Recognised
<1>4. FoundIn(discovered', NoHeight) \in Seq(FoundValue)
  BY <1>3, AmongFoundIn
<1>5. FoundInBlocks(outputKeys') \in Seq(FoundValue)
  <2> DEFINE keys == outputKeys'
             none == {}
             zero == 0
  <2>1. OnlyAt(zero, keys, none) /\ zero \in Int
    BY DEF OnlyAt
  <2> HIDE DEF keys, none, zero
  <2>2. FoundInBlocks(keys) \in Seq(FoundValue)
    BY <1>1, <2>1, BlocksFound
  <2> QED BY <2>2 DEF keys
<1> DEFINE a == FoundInBlocks(outputKeys')
           b == FoundIn(discovered', NoHeight)
<1> HIDE DEF a, b
<1>6. a \o b \in Seq(FoundValue)
  BY <1>4, <1>5 DEF a, b
<1> QED
  BY <1>2, <1>3, <1>4, <1>5, <1>6 DEF a, b

(* The steps that leave invoices and pending updates alone, or drop some.  *)
LEMMA InvoicesKept ==
    ASSUME [ScannerNext]_scannerVars
    PROVE  \/ UpdateInvoices
           \/ \E p \in pending : SaveInvoice(p)
           \/ \E id \in drawn : InsertInvoice(id)
           \/ \E id \in DOMAIN invoices : RemoveInvoice(id)
           \/ UNCHANGED invoices /\ pending' \subseteq pending
<1>1. ScanStep => UpdateInvoices \/ (\E p \in pending : SaveInvoice(p))
                  \/ (UNCHANGED invoices /\ pending' \subseteq pending)
  BY DEF ScanStep, StartScanner, InitPool, FetchInitial, FinishNew, RefreshTable, BeginScan, UpdateBlocks,
       BlocksUpdated, QueryPool, FetchPool, Scan, SaveHeight, storeVars, scanVars
<1>2. Failure => UNCHANGED invoices /\ pending' \subseteq pending
  BY DEF Failure, BlockRpcFails, PoolRpcFails, PoolTakenForEmpty, StoreFails, GiveUp,
       ScanTransactionsFails, KeyRefused, SaveFails, Stop, Crash, Forget, storeVars
<1>3. ((\E tx \in Tx : Pay(tx)) \/ (\E sub \in SubIndex : DrawSubaddress(sub)) \/ DaemonMoves
         \/ UNCHANGED scannerVars)
        => UNCHANGED invoices /\ pending' \subseteq pending
  BY DEF Pay, DrawSubaddress, DaemonMoves, scannerVars, storeVars, scanVars
<1> QED
  BY <1>1, <1>2, <1>3 DEF ScannerNext, NewInvoice

(* A new invoice is typed, and has counted nothing.                        *)
LEMMA NewInvoiceType ==
    ASSUME StoreTypes, Dealings, NEW id \in drawn, InsertInvoice(id)
    PROVE  LET inv == NewInvoiceValue(Requested, Required, id.creation, ExpiresIn)
           IN  /\ id \in InvoiceId /\ inv \in InvoiceValue
               /\ inv.transfers = <<>> /\ inv.current = 0
               /\ inv.requested = Requested /\ inv.required = Required
               /\ DOMAIN invoices' = DOMAIN invoices \cup {id}
               /\ id \notin DOMAIN invoices
               /\ invoices'[id] = inv
               /\ \A i \in DOMAIN invoices : invoices'[i] = invoices[i]
<1> DEFINE inv == NewInvoiceValue(Requested, Required, id.creation, ExpiresIn)
<1>1. id \in InvoiceId /\ id.creation \in Nat
  BY DEF StoreTypes, InvoiceId
<1>2. /\ inv \in InvoiceValue /\ inv.transfers = <<>> /\ inv.current = 0
      /\ inv.requested = Requested /\ inv.required = Required
  <2>1. id.creation + ExpiresIn \in Nat
    BY <1>1, ScannerAssumption DEF ScannerAssumption
  <2> QED BY <2>1, ScannerAssumption DEF ScannerAssumption, NewInvoiceValue, InvoiceValue
<1>3. id \notin DOMAIN invoices
  BY DEF Dealings, Tracked
<1>4. invoices' = [i \in DOMAIN invoices \cup {id} |-> IF i = id THEN inv ELSE invoices[i]]
  BY DEF InsertInvoice
<1> HIDE DEF inv
<1>5. /\ DOMAIN invoices' = DOMAIN invoices \cup {id}
      /\ invoices'[id] = inv
      /\ \A i \in DOMAIN invoices : invoices'[i] = invoices[i]
  BY <1>3, <1>4
<1> QED
  BY <1>1, <1>2, <1>3, <1>5 DEF inv

(* The invoices and the pending updates stay typed,                        *)
LEMMA InvoiceTypesKeep ==
    ASSUME IInv, StoreTypes, Dealings, [ScannerNext]_scannerVars
    PROVE  /\ DOMAIN invoices' \subseteq InvoiceId
           /\ \A id \in DOMAIN invoices' : invoices'[id] \in InvoiceValue
           /\ \A p \in pending' : p.id \in InvoiceId /\ p.invoice \in InvoiceValue
<1> HIDE DEF InvoiceValue, InvoiceId
<1>1. CASE UpdateInvoices
  <2>1. UNCHANGED invoices /\ height \in Nat
    BY <1>1 DEF UpdateInvoices, storeVars, IInv, TypeOK
  <2>2. ASSUME NEW p \in pending' PROVE p.id \in InvoiceId /\ p.invoice \in InvoiceValue
    <3>1. PICK id \in DOMAIN invoices :
             p = [id |-> id, invoice |-> Recalculate(UpdateInvoice(id, invoices[id]))]
      BY <1>1 DEF UpdateInvoices
    <3>2. p.id = id /\ p.invoice = Recalculate(UpdateInvoice(id, invoices[id]))
      BY <3>1
    <3>3. id \in InvoiceId /\ invoices[id] \in InvoiceValue /\ found \in Seq(FoundValue)
      BY DEF StoreTypes
    <3>4. UpdateInvoice(id, invoices[id]) \in InvoiceValue
      BY <2>1, <3>3, UpdateType
    <3> QED BY <3>2, <3>3, <3>4, RecalculateType
  <2> QED BY <2>1, <2>2 DEF StoreTypes
<1>2. CASE \E p \in pending : SaveInvoice(p)
  <2> PICK p \in pending : SaveInvoice(p)
    BY <1>2
  <2>1. pending' \subseteq pending /\ p.invoice \in InvoiceValue
    BY DEF SaveInvoice, StoreTypes
  <2>2. DOMAIN invoices' = DOMAIN invoices
        /\ \A id \in DOMAIN invoices' : invoices'[id] \in {invoices[id], p.invoice}
    BY DEF SaveInvoice, Replace
  <2> QED BY <2>1, <2>2 DEF StoreTypes
<1>3. CASE \E id \in drawn : InsertInvoice(id)
  <2> PICK id \in drawn : InsertInvoice(id)
    BY <1>3
  <2>1. UNCHANGED pending
    BY DEF InsertInvoice, scanVars
  <2> DEFINE inv == NewInvoiceValue(Requested, Required, id.creation, ExpiresIn)
  <2>2. /\ id \in InvoiceId /\ inv \in InvoiceValue
        /\ DOMAIN invoices' = DOMAIN invoices \cup {id}
        /\ invoices'[id] = inv
        /\ \A i \in DOMAIN invoices : invoices'[i] = invoices[i]
    BY NewInvoiceType
  <2> HIDE DEF inv
  <2> QED BY <2>1, <2>2 DEF StoreTypes
<1>4. CASE \E id \in DOMAIN invoices : RemoveInvoice(id)
  <2>1. UNCHANGED pending /\ DOMAIN invoices' \subseteq DOMAIN invoices
        /\ \A i \in DOMAIN invoices' : invoices'[i] = invoices[i]
    BY <1>4 DEF RemoveInvoice, scanVars
  <2> QED BY <2>1 DEF StoreTypes
<1>5. CASE UNCHANGED invoices /\ pending' \subseteq pending
  BY <1>5 DEF StoreTypes
<1> QED
  BY <1>1, <1>2, <1>3, <1>4, <1>5, InvoicesKept

(* so does what passes between the gateway and its customers,              *)
LEMMA SideTypesKeep ==
    ASSUME IInv, StoreTypes, [ScannerNext]_scannerVars
    PROVE  /\ table' \subseteq SubIndex /\ drawn' \subseteq InvoiceId
           /\ standing' \in [Tx -> Standings] /\ skipped' \in BOOLEAN
<1>0. /\ table \subseteq SubIndex /\ drawn \subseteq InvoiceId
      /\ standing \in [Tx -> Standings] /\ skipped \in BOOLEAN
  BY DEF StoreTypes
<1>1. CASE RefreshTable
  <2>1. \A id \in drawn \cup DOMAIN invoices : id.sub \in SubIndex
    BY DEF StoreTypes, InvoiceId
  <2> QED BY <1>0, <1>1, <2>1 DEF RefreshTable
<1>2. CASE Scan \/ KeyRefused
  BY <1>0, <1>2 DEF Scan, KeyRefused
<1>3. CASE \E sub \in SubIndex : DrawSubaddress(sub)
  <2>1. CreationHeight \in Nat
    BY DEF CreationHeight, IInv, TypeOK, MonerodTypeOK
  <2> QED BY <1>0, <1>3, <2>1 DEF DrawSubaddress, InvoiceId
<1>4. CASE \E id \in drawn : InsertInvoice(id)
  BY <1>0, <1>4 DEF InsertInvoice
<1>5. CASE \E id \in DOMAIN invoices : RemoveInvoice(id)
  BY <1>0, <1>5 DEF RemoveInvoice, Standings
<1>6. CASE \E tx \in Tx : Pay(tx)
  BY <1>0, <1>6 DEF Pay, Standings
<1>7. CASE Stop \/ Crash
  BY <1>0, <1>7 DEF Stop, Crash, Forget
<1>8. ScanStep => RefreshTable \/ Scan \/ UNCHANGED sideVars
  BY DEF ScanStep, StartScanner, InitPool, FetchInitial, FinishNew, BeginScan, UpdateBlocks,
       BlocksUpdated, QueryPool, FetchPool, UpdateInvoices, SaveInvoice, SaveHeight
<1>9. Failure => KeyRefused \/ Stop \/ Crash \/ UNCHANGED sideVars
  BY DEF Failure, BlockRpcFails, PoolRpcFails, PoolTakenForEmpty, StoreFails, GiveUp,
       ScanTransactionsFails, SaveFails
<1>10. DaemonMoves \/ UNCHANGED scannerVars => UNCHANGED sideVars
  BY DEF DaemonMoves, scannerVars
<1>11. CASE UNCHANGED sideVars
  BY <1>0, <1>11 DEF sideVars
<1> QED
  BY <1>1, <1>2, <1>3, <1>4, <1>5, <1>6, <1>7, <1>8, <1>9, <1>10, <1>11 DEF ScannerNext, NewInvoice

(* and so does the rest.                                                   *)
LEMMA StoreTypesKeep ==
    ASSUME ScannerInv, [ScannerNext]_scannerVars PROVE StoreTypes'
<1> DEFINE Rest == /\ outputKeys' \in [Key -> Tx \cup {NoTx}]
                   /\ firstScan' \in BOOLEAN
                   /\ cachedTxs' \subseteq Tx /\ discovered' \subseteq Tx /\ newTxs' \subseteq Tx
                   /\ found' \in Seq(FoundValue)
                   /\ restarts' \in 0..MaxRestarts
<1> SUFFICES Rest
  BY InvoiceTypesKeep, SideTypesKeep DEF ScannerInv, StoreTypes
<1>0. /\ outputKeys \in [Key -> Tx \cup {NoTx}] /\ firstScan \in BOOLEAN
      /\ cachedTxs \subseteq Tx /\ discovered \subseteq Tx /\ newTxs \subseteq Tx
      /\ found \in Seq(FoundValue) /\ <<>> \in Seq(FoundValue) /\ restarts \in 0..MaxRestarts
      /\ pool \subseteq Tx
  BY DEF ScannerInv, StoreTypes, IInv, TypeOK, MonerodTypeOK
<1> HIDE DEF FoundValue
<1>1. CASE UNCHANGED <<outputKeys, firstScan, cachedTxs, discovered, newTxs, found, restarts>>
  BY <1>0, <1>1
<1>2. CASE StartScanner \/ InitPool \/ FinishNew \/ QueryPool \/ FetchPool \/ UpdateInvoices
  BY <1>0, <1>2 DEF StartScanner, InitPool, FinishNew, QueryPool, FetchPool, UpdateInvoices, storeVars
<1>3. CASE Scan
  <2>1. outputKeys' \in [Key -> Tx \cup {NoTx}] /\ discovered' \subseteq Tx /\ found' \in Seq(FoundValue)
    BY <1>3, ScanTypes DEF ScannerInv
  <2> QED BY <1>0, <1>3, <2>1 DEF Scan
<1>4. CASE BlockRpcFails \/ PoolRpcFails \/ PoolTakenForEmpty \/ StoreFails \/ \E p \in pending : SaveFails(p)
  BY <1>0, <1>4 DEF BlockRpcFails, PoolRpcFails, PoolTakenForEmpty, StoreFails, SaveFails, GiveUp, storeVars
<1>5. CASE ScanTransactionsFails \/ KeyRefused
  <2>1. outputKeys' \in [Key -> Tx \cup {NoTx}] /\ discovered' \subseteq discovered \cup newTxs
    BY <1>5 DEF ScanTransactionsFails, KeyRefused, PartialKeyTables, Owned, Recognised
  <2>2. newTxs' = {} /\ found' = <<>> /\ UNCHANGED <<firstScan, cachedTxs, restarts>>
    BY <1>5 DEF ScanTransactionsFails, KeyRefused, GiveUp
  <2> QED BY <1>0, <2>1, <2>2
<1>6. CASE Stop \/ Crash
  <2>1. Forget
    BY <1>6 DEF Stop, Crash
  <2>2. restarts' \in 0..MaxRestarts
    BY <1>0, <2>1, ScannerAssumption DEF Forget, ScannerAssumption
  <2> QED BY <1>0, <2>1, <2>2 DEF Forget, storeVars
<1>7. (\/ FetchInitial \/ RefreshTable \/ BeginScan \/ UpdateBlocks \/ BlocksUpdated \/ SaveHeight
       \/ (\E p \in pending : SaveInvoice(p))
       \/ NewInvoice
       \/ (\E id \in DOMAIN invoices : RemoveInvoice(id))
       \/ (\E tx \in Tx : Pay(tx))
       \/ DaemonMoves
       \/ UNCHANGED scannerVars)
      => UNCHANGED <<outputKeys, firstScan, cachedTxs, discovered, newTxs, found, restarts>>
  BY DEF FetchInitial, RefreshTable, BeginScan, UpdateBlocks, BlocksUpdated, SaveHeight, SaveInvoice, NewInvoice, DrawSubaddress, InsertInvoice,
       RemoveInvoice, Pay, DaemonMoves, scannerVars, storeVars, scanVars
<1> QED
  BY <1>1, <1>2, <1>3, <1>4, <1>5, <1>6, <1>7 DEF ScannerNext, ScanStep, Failure

(* The daemon's chain never gets shorter.                                  *)
LEMMA ChainGrows ==
    ASSUME len \in Nat, DaemonMoves PROVE len' \in Nat /\ len' >= len
<1>1. CASE \E tx \in Tx : Evict(tx)
  BY <1>1 DEF Evict
<1>2. CASE \E txs \in SUBSET pool : Mine(txs)
  BY <1>2 DEF Mine
<1>3. CASE Reorganise
  BY <1>3 DEF Reorganise, Reorg
<1> QED
  BY <1>1, <1>2, <1>3 DEF DaemonMoves

(* A scanner resumes under the stored height and passes it before it saves.*)
LEMMA ResumesKeeps ==
    ASSUME ScannerInv, [ScannerNext]_scannerVars PROVE Resumes'
<1>0. /\ len \in Nat \ {0} /\ height \in Nat
      /\ storedHeight \in Nat \cup {-1} /\ storedHeight < len
  BY DEF ScannerInv, IInv, TypeOK, MonerodTypeOK, Resumes, NoHeight
<1>1. bcpc \in {"idle", "next", "fix", "done"} => height < len
  BY CacheNotAhead DEF ScannerInv
<1> USE <1>0 DEF NoHeight, Resumes
<1>2. CASE StartScanner
  <2>1. StartHeight \in Nat /\ StartHeight >= storedHeight - 1
    BY StartIsInRange DEF ScannerInv
  <2> QED
    BY <1>2, <2>1 DEF StartScanner, StartInit, daemonVars, storeVars
<1>3. CASE InitPool \/ FetchInitial \/ FinishNew
  BY <1>3 DEF ScannerInv, InitPool, FetchInitial, FinishNew, InitFetch, InitDone,
       daemonVars, cacheVars, storeVars, scanVars
<1>4. CASE RefreshTable \/ BeginScan
  BY <1>1, <1>4 DEF ScannerInv, RefreshTable, BeginScan, QueryHeight, daemonVars, cacheVars, storeVars
<1>5. CASE UpdateBlocks
  BY <1>5 DEF ScannerInv, UpdateBlocks, FetchNext, PushBlock, FixKeep, FixRepair,
       daemonVars, storeVars, scanVars
<1>6. CASE BlocksUpdated
  BY <1>6 DEF ScannerInv, BlocksUpdated, FixDone, daemonVars, storeVars
<1>7. CASE QueryPool \/ FetchPool \/ Scan \/ KeyRefused \/ UpdateInvoices
  BY <1>7 DEF ScannerInv, QueryPool, FetchPool, Scan, KeyRefused, TakeResult, UpdateInvoices,
       daemonVars, cacheVars, storeVars
<1>8. CASE \E p \in pending : SaveInvoice(p)
  BY <1>8 DEF ScannerInv, SaveInvoice, daemonVars, cacheVars
<1>9. CASE SaveHeight
  BY <1>1, <1>9 DEF ScannerInv, Course, SaveHeight, daemonVars, cacheVars
<1>10. CASE BlockRpcFails
  BY <1>10 DEF ScannerInv, Course, BlockRpcFails, RpcFail, InitTooShort, daemonVars, storeVars
<1>11. CASE PoolRpcFails \/ StoreFails \/ ScanTransactionsFails
  BY <1>11 DEF ScannerInv, PoolRpcFails, StoreFails, ScanTransactionsFails, GiveUp, daemonVars
<1>12. CASE PoolTakenForEmpty \/ \E p \in pending : SaveFails(p)
  BY <1>12 DEF ScannerInv, PoolTakenForEmpty, SaveFails, daemonVars, storeVars
<1>13. CASE Stop \/ Crash
  BY <1>13 DEF Stop, Crash, Forget, daemonVars, storeVars
<1>14. CASE \/ NewInvoice
            \/ \E id \in DOMAIN invoices : RemoveInvoice(id)
            \/ \E tx \in Tx : Pay(tx)
            \/ UNCHANGED scannerVars
  <2>1. UNCHANGED <<spc, bcpc, height, storedHeight, len>>
    BY <1>14 DEF NewInvoice, DrawSubaddress, InsertInvoice, RemoveInvoice, Pay, Submit, daemonVars, cacheVars, scanVars,
         storeVars, scannerVars
  <2> QED BY <2>1 DEF ScannerInv
<1>15. CASE DaemonMoves
  <2>1. UNCHANGED <<spc, bcpc, height, storedHeight>>
    BY <1>15 DEF DaemonMoves, storeVars, scanVars
  <2>2. len' \in Nat /\ len' >= len
    BY <1>15, ChainGrows
  <2> QED BY <2>1, <2>2 DEF ScannerInv
<1> QED
  BY <1>2, <1>3, <1>4, <1>5, <1>6, <1>7, <1>8, <1>9, <1>10, <1>11, <1>12, <1>13, <1>14, <1>15
     DEF ScannerNext, ScanStep, Failure

-----------------------------------------------------------------------------
(* What a step of the daemon puts on the chain was on the chain or in the  *)
(* pool, and what it pools too.                                            *)
LEMMA DaemonMovesTxs ==
    ASSUME IInv, DaemonMoves
    PROVE  /\ pool' \subseteq pool \cup MinedFrom(0)
           /\ \A h \in DOMAIN chain' : chain'[h].txs \subseteq pool \cup MinedFrom(0)
<1>0. /\ len \in Nat \ {0} /\ chain \in [0..(len - 1) -> Block]
      /\ \A h \in 0..(len - 1) : chain[h].txs \subseteq MinedFrom(0)
  BY DEF IInv, TypeOK, MonerodTypeOK, MinedFrom
<1>1. CASE \E tx \in Tx : Evict(tx)
  BY <1>0, <1>1 DEF Evict
<1>2. CASE \E txs \in SUBSET pool : Mine(txs)
  <2> PICK txs \in SUBSET pool : Mine(txs)
    BY <1>2
  <2>1. /\ DOMAIN chain' = 0..len /\ pool' \subseteq pool
        /\ \A h \in 0..len : chain'[h].txs = IF h = len THEN txs ELSE chain[h].txs
    BY DEF Mine
  <2>2. \A h \in 0..len : h # len => h \in 0..(len - 1)
    BY <1>0
  <2> QED BY <1>0, <2>1, <2>2
<1>3. CASE Reorganise
  <2> PICK fork \in {h \in 1..(len - 1) : h >= len - MaxReorgDepth} :
        \E place \in [pool \cup MinedFrom(fork) -> {-1} \cup fork..len] : Reorg(fork, place)
    BY <1>3 DEF Reorganise
  <2> PICK place \in [pool \cup MinedFrom(fork) -> {-1} \cup fork..len] : Reorg(fork, place)
    OBVIOUS
  <2>1. MinedFrom(fork) \subseteq MinedFrom(0)
    BY <1>0 DEF MinedFrom
  <2>2. DOMAIN place \subseteq pool \cup MinedFrom(0)
    BY <2>1
  <2>3. /\ DOMAIN chain' = 0..len /\ pool' \subseteq DOMAIN place
        /\ \A h \in 0..len : chain'[h].txs = IF h < fork THEN chain[h].txs
                                             ELSE {tx \in DOMAIN place : place[tx] = h}
    BY DEF Reorg
  <2>4. \A h \in 0..len : h < fork => h \in 0..(len - 1)
    BY <1>0
  <2> QED BY <1>0, <2>2, <2>3, <2>4
<1> QED
  BY <1>1, <1>2, <1>3 DEF DaemonMoves

(* A block that enters the window comes from the chain.                    *)
LEMMA WindowFromChain ==
    ASSUME ScannerInv, [ScannerNext]_scannerVars, NEW k \in DOMAIN blocks'
    PROVE  \/ \E j \in DOMAIN blocks : blocks'[k] = blocks[j]
           \/ \E h \in DOMAIN chain : blocks'[k] = chain[h]
<1>0. /\ len \in Nat \ {0} /\ DOMAIN chain = 0..(len - 1) /\ height \in Nat /\ cursor \in 0..CacheSize
      /\ DOMAIN blocks = Window /\ (bcpc # "off" => height >= CacheSize - 1)
      /\ (0 \in DOMAIN blocks => height < len)
  BY DEF ScannerInv, IInv, TypeOK, MonerodTypeOK, WindowInChain
<1>1. CASE UNCHANGED blocks \/ blocks' = Empty
  BY <1>1 DEF Empty
<1>2. CASE InitFetch
  <2>0. bcpc = "init" /\ cursor < CacheSize /\ height - cursor < len
    BY <1>2 DEF InitFetch
  <2>1. height - cursor \in DOMAIN chain /\ DOMAIN blocks = 0..(cursor - 1)
    <3>1. height - cursor \in 0..(len - 1)
      BY <1>0, <2>0
    <3>2. Window = 0..(cursor - 1)
      BY <2>0 DEF Window
    <3> QED BY <1>0, <3>1, <3>2
  <2>2. k \in 0..cursor /\ blocks'[k] = IF k = cursor THEN chain[height - cursor] ELSE blocks[k]
    BY <1>2 DEF InitFetch
  <2>3. k # cursor => k \in 0..(cursor - 1)
    BY <1>0, <2>2
  <2> QED BY <2>1, <2>2, <2>3
<1>3. CASE FetchNext
  <2>1. height + 1 \in DOMAIN chain /\ DOMAIN blocks = 0..(CacheSize - 1)
    BY <1>0, <1>3 DEF FetchNext, Window
  <2>2. k \in 0..(CacheSize - 1) /\ blocks'[k] = IF k = 0 THEN chain[height + 1] ELSE blocks[k - 1]
    BY <1>3 DEF FetchNext, PushBlock
  <2>3. k # 0 => k - 1 \in 0..(CacheSize - 1)
    BY <2>2
  <2> QED BY <2>1, <2>2, <2>3
<1>4. CASE FixRepair
  <2>1. height - 1 - cursor \in DOMAIN chain
    BY <1>0, <1>4 DEF FixRepair, Window
  <2>2. DOMAIN blocks' = DOMAIN blocks /\ blocks'[k] \in {chain[height - 1 - cursor], blocks[k]}
    BY <1>4 DEF FixRepair, Repair
  <2> QED BY <2>1, <2>2
<1>5. [Next]_vars => InitFetch \/ FetchNext \/ FixRepair \/ UNCHANGED blocks \/ blocks' = Empty
  BY DEF Next, CacheStep, StartInit, InitTooShort, InitDone, QueryHeight, FixKeep, FixDone, TakeResult,
       RpcFail, DaemonStep, vars, cacheVars
<1>6. Interrupted \/ Dropped => UNCHANGED blocks \/ blocks' = Empty
  BY DEF Interrupted, Dropped
<1> QED
  BY <1>1, <1>2, <1>3, <1>4, <1>5, <1>6, CacheSees

(* Only paying and removing an invoice change how payments stand.          *)
LEMMA StandingKept ==
    ASSUME [ScannerNext]_scannerVars
    PROVE  \/ UNCHANGED standing
           \/ \E id \in DOMAIN invoices : RemoveInvoice(id)
           \/ \E tx \in Tx : Pay(tx)
<1>1. ScanStep => UNCHANGED standing
  BY DEF ScanStep, StartScanner, InitPool, FetchInitial, FinishNew, RefreshTable, BeginScan, UpdateBlocks,
       BlocksUpdated, QueryPool, FetchPool, Scan, UpdateInvoices, SaveInvoice, SaveHeight, sideVars
<1>2. Failure => UNCHANGED standing
  BY DEF Failure, BlockRpcFails, PoolRpcFails, PoolTakenForEmpty, StoreFails, GiveUp,
       ScanTransactionsFails, KeyRefused, SaveFails, Stop, Crash, Forget, sideVars
<1>3. NewInvoice \/ DaemonMoves \/ UNCHANGED scannerVars => UNCHANGED standing
  BY DEF NewInvoice, DrawSubaddress, InsertInvoice, DaemonMoves, scannerVars, sideVars
<1> QED
  BY <1>1, <1>2, <1>3 DEF ScannerNext

(* The dealings stay in order: a payment is due only to an invoice that is *)
(* in place, and a subaddress is handed out once at a time.                *)
LEMMA DealingsKeep ==
    ASSUME ScannerInv, [ScannerNext]_scannerVars PROVE Dealings'
<1>0. /\ \A id \in drawn : id.creation >= 1 /\ ~Tracked(id.sub)
      /\ \A i, j \in drawn : i.sub = j.sub => i = j
      /\ \A tx \in Tx : standing[tx] = "due" => Tracked(SubOf[tx])
      /\ \A tx \in Tx : standing[tx] = "new" =>
            /\ tx \notin pool
            /\ \A h \in DOMAIN chain : tx \notin chain[h].txs
            /\ \A k \in DOMAIN blocks : tx \notin blocks[k].txs
      /\ standing \in [Tx -> Standings]
      /\ DOMAIN chain = 0..(len - 1)
  BY DEF ScannerInv, Dealings, StoreTypes, IInv, TypeOK, MonerodTypeOK
<1>1. \/ UNCHANGED standing
      \/ \E id \in DOMAIN invoices : RemoveInvoice(id)
      \/ \E tx \in Tx : Pay(tx)
  BY StandingKept
<1>2. ScanStep \/ Failure \/ DaemonMoves \/ UNCHANGED scannerVars
        => drawn' \subseteq drawn /\ DOMAIN invoices' = DOMAIN invoices
  <2>1. ScanStep => UNCHANGED drawn /\ DOMAIN invoices' = DOMAIN invoices
    BY DEF ScanStep, StartScanner, InitPool, FetchInitial, FinishNew, RefreshTable, BeginScan, UpdateBlocks,
         BlocksUpdated, QueryPool, FetchPool, Scan, UpdateInvoices, SaveInvoice, Replace, SaveHeight, sideVars,
         storeVars
  <2>2. Failure => drawn' \subseteq drawn /\ UNCHANGED invoices
    BY DEF Failure, BlockRpcFails, PoolRpcFails, PoolTakenForEmpty, StoreFails, GiveUp,
         ScanTransactionsFails, KeyRefused, SaveFails, Stop, Crash, Forget, sideVars, storeVars
  <2> QED BY <2>1, <2>2 DEF DaemonMoves, scannerVars, sideVars, storeVars
<1>3. (ScanStep \/ Failure \/ NewInvoice \/ (\E id \in DOMAIN invoices : RemoveInvoice(id)))
        => UNCHANGED daemonVars
  <2>1. ScanStep => UNCHANGED daemonVars
    BY DEF ScanStep, StartScanner, StartInit, InitPool, FetchInitial, InitFetch, FinishNew, InitDone,
         RefreshTable, BeginScan, QueryHeight, UpdateBlocks, FetchNext, FixKeep, FixRepair, BlocksUpdated, FixDone,
         QueryPool, FetchPool, Scan, TakeResult, UpdateInvoices, SaveInvoice, SaveHeight
  <2>2. Failure => UNCHANGED daemonVars
    BY DEF Failure, BlockRpcFails, RpcFail, InitTooShort, PoolRpcFails, PoolTakenForEmpty, StoreFails,
         GiveUp, ScanTransactionsFails, KeyRefused, TakeResult, SaveFails, Stop, Crash, Forget
  <2> QED BY <2>1, <2>2 DEF NewInvoice, DrawSubaddress, InsertInvoice, RemoveInvoice
<1>4. /\ \A id \in drawn' : id.creation >= 1 /\ ~Tracked(id.sub)'
      /\ \A i, j \in drawn' : i.sub = j.sub => i = j
  <2>1. CASE ScanStep \/ Failure \/ DaemonMoves \/ UNCHANGED scannerVars
    BY <1>0, <1>2, <2>1 DEF Tracked
  <2>2. CASE \E sub \in SubIndex : DrawSubaddress(sub)
    <3> PICK sub \in SubIndex : DrawSubaddress(sub)
      BY <2>2
    <3>1. CreationHeight \in Nat /\ CreationHeight >= 1
      BY DEF CreationHeight, ScannerInv, IInv, TypeOK, MonerodTypeOK
    <3> DEFINE new == [sub |-> sub, creation |-> CreationHeight]
    <3>2. new.sub = sub /\ new.creation >= 1
      BY <3>1
    <3> HIDE DEF new
    <3>3. drawn' = drawn \cup {new} /\ UNCHANGED invoices /\ ~Tracked(sub) /\ \A id \in drawn : id.sub # sub
      BY DEF DrawSubaddress, storeVars, new
    <3> QED BY <1>0, <3>2, <3>3 DEF Tracked
  <2>3. CASE \E id \in drawn : InsertInvoice(id)
    <3> PICK id \in drawn : InsertInvoice(id)
      BY <2>3
    <3>1. drawn' = drawn \ {id} /\ DOMAIN invoices' = DOMAIN invoices \cup {id}
      BY DEF InsertInvoice
    <3> QED BY <1>0, <3>1 DEF Tracked
  <2>4. CASE \E id \in DOMAIN invoices : RemoveInvoice(id)
    BY <1>0, <2>4 DEF RemoveInvoice, Tracked
  <2>5. CASE \E tx \in Tx : Pay(tx)
    BY <1>0, <2>5 DEF Pay, storeVars, Tracked
  <2> QED BY <2>1, <2>2, <2>3, <2>4, <2>5 DEF ScannerNext, NewInvoice
<1>5. ASSUME NEW tx \in Tx, standing'[tx] = "due" PROVE Tracked(SubOf[tx])'
  <2>1. CASE UNCHANGED standing /\ ScannerNext /\ ~\E id \in DOMAIN invoices : RemoveInvoice(id)
    <3>1. DOMAIN invoices \subseteq DOMAIN invoices'
      <4>1. NewInvoice \/ (\E u \in Tx : Pay(u)) => DOMAIN invoices \subseteq DOMAIN invoices'
        BY DEF NewInvoice, DrawSubaddress, InsertInvoice, Pay, storeVars
      <4> QED BY <1>2, <2>1, <4>1 DEF ScannerNext
    <3> QED BY <1>0, <1>5, <2>1, <3>1 DEF Tracked
  <2>2. CASE UNCHANGED scannerVars
    BY <1>0, <1>5, <2>2 DEF scannerVars, sideVars, storeVars, Tracked
  <2>4. CASE \E id \in DOMAIN invoices : RemoveInvoice(id)
    <3> PICK id \in DOMAIN invoices : RemoveInvoice(id)
      BY <2>4
    <3>1. SubOf[tx] # id.sub /\ standing[tx] = "due"
      BY <1>5 DEF RemoveInvoice
    <3>2. PICK i \in DOMAIN invoices : i.sub = SubOf[tx]
      BY <1>0, <3>1 DEF Tracked
    <3>3. i # id /\ DOMAIN invoices' = DOMAIN invoices \ {id}
      BY <3>1, <3>2 DEF RemoveInvoice
    <3> QED BY <3>2, <3>3 DEF Tracked
  <2>5. CASE \E u \in Tx : Pay(u)
    <3> PICK u \in Tx : Pay(u)
      BY <2>5
    <3>1. UNCHANGED invoices /\ (standing[u] = "new" => Tracked(SubOf[u]))
          /\ standing' = [standing EXCEPT ![u] = IF @ = "new" THEN "due" ELSE @]
      BY DEF Pay, storeVars
    <3>2. Tracked(SubOf[tx])
      BY <1>0, <1>5, <3>1
    <3> QED BY <3>1, <3>2 DEF Tracked
  <2> QED BY <1>1, <2>1, <2>2, <2>4, <2>5
<1>6. ASSUME NEW tx \in Tx, standing'[tx] = "new"
      PROVE  tx \notin pool' /\ \A h \in DOMAIN chain' : tx \notin chain'[h].txs
  <2>1. standing[tx] = "new"
    <3>1. CASE \E id \in DOMAIN invoices : RemoveInvoice(id)
      BY <1>0, <1>6, <3>1 DEF RemoveInvoice
    <3>2. CASE \E u \in Tx : Pay(u)
      BY <1>0, <1>6, <3>2 DEF Pay
    <3> QED BY <1>1, <1>6, <3>1, <3>2
  <2>2. tx \notin pool /\ tx \notin MinedFrom(0) /\ \A h \in DOMAIN chain : tx \notin chain[h].txs
    BY <1>0, <2>1 DEF MinedFrom
  <2>3. CASE UNCHANGED daemonVars
    BY <2>2, <2>3 DEF daemonVars
  <2>4. CASE DaemonMoves
    <3>1. /\ pool' \subseteq pool \cup MinedFrom(0)
          /\ \A h \in DOMAIN chain' : chain'[h].txs \subseteq pool \cup MinedFrom(0)
      BY <2>4, DaemonMovesTxs DEF ScannerInv
    <3> QED BY <2>2, <3>1
  <2>5. CASE \E u \in Tx : Pay(u)
    <3> PICK u \in Tx : Pay(u)
      BY <2>5
    <3>1. tx # u
      BY <1>0, <1>6, <2>1 DEF Pay
    <3> QED BY <2>2, <3>1 DEF Pay, Submit
  <2> QED BY <1>3, <2>3, <2>4, <2>5 DEF ScannerNext, scannerVars
<1>7. ASSUME NEW tx \in Tx, standing'[tx] = "new", NEW k \in DOMAIN blocks' PROVE tx \notin blocks'[k].txs
  <2>1. standing[tx] = "new"
    <3>1. CASE \E id \in DOMAIN invoices : RemoveInvoice(id)
      BY <1>0, <1>7, <3>1 DEF RemoveInvoice
    <3>2. CASE \E u \in Tx : Pay(u)
      BY <1>0, <1>7, <3>2 DEF Pay
    <3> QED BY <1>1, <1>7, <3>1, <3>2
  <2>2. \/ \E j \in DOMAIN blocks : blocks'[k] = blocks[j]
        \/ \E h \in DOMAIN chain : blocks'[k] = chain[h]
    BY WindowFromChain
  <2> QED BY <1>0, <2>1, <2>2
<1> QED
  BY <1>4, <1>5, <1>6, <1>7 DEF Dealings

-----------------------------------------------------------------------------
(* The scanner starts in the invariant.                                    *)
LEMMA ScannerStarts == ScannerInit => ScannerInv
<1> SUFFICES ASSUME ScannerInit PROVE ScannerInv
  OBVIOUS
<1>1. IInv
  BY InitIInv DEF ScannerInit, Init
<1>2. Reporting
  BY InitReports DEF ScannerInit
<1>3. Course
  BY DEF ScannerInit, CacheInit, Course, ScannerStages
<1>4. StoreTypes
  <2>1. DOMAIN invoices = {} /\ pending = {} /\ found \in Seq(FoundValue)
    BY DEF ScannerInit, Empty
  <2>2. standing \in [Tx -> Standings] /\ skipped \in BOOLEAN /\ table = {} /\ drawn = {}
    BY DEF ScannerInit, Standings
  <2>3. /\ outputKeys \in [Key -> Tx \cup {NoTx}] /\ firstScan \in BOOLEAN /\ cachedTxs = {}
        /\ discovered = {} /\ newTxs = {} /\ restarts \in 0..MaxRestarts
    BY ScannerAssumption DEF ScannerAssumption, ScannerInit
  <2> QED BY <2>1, <2>2, <2>3 DEF StoreTypes
<1>5. Resumes
  BY DEF ScannerInit, MonerodInit, Resumes, NoHeight
<1>6. Dealings
  <2>1. DOMAIN chain = 0..(InitialLen - 1) /\ \A h \in DOMAIN chain : chain[h].txs = {}
    BY DEF ScannerInit, MonerodInit
  <2>2. DOMAIN blocks = {}
    BY DEF ScannerInit, CacheInit, Empty
  <2> QED BY <2>1, <2>2 DEF ScannerInit, MonerodInit, Dealings
<1> QED
  BY <1>1, <1>2, <1>3, <1>4, <1>5, <1>6 DEF ScannerInv

(* Every step of the scanner and of all around it keeps the invariant.     *)
LEMMA ScannerSteps == ASSUME ScannerInv, [ScannerNext]_scannerVars PROVE ScannerInv'
BY CacheKeeps, CourseKeeps, StoreTypesKeep, ResumesKeeps, DealingsKeep DEF ScannerInv

(* The invariant of the scanner and its block cache, for every cache size, *)
(* chain, pattern of reorganisations, failing calls, stops and crashes.    *)
THEOREM ScannerInvariance == ScannerSpec => []ScannerInv
<1>1. ScannerInit => ScannerInv
  BY ScannerStarts
<1>2. ScannerInv /\ [ScannerNext]_scannerVars => ScannerInv'
  BY ScannerSteps
<1> QED
  BY <1>1, <1>2, PTL DEF ScannerSpec

(* The block at index k of the scanner's window is one of height           *)
(* `height - k`: scan_blocks dates transfers right, also after failures,   *)
(* stops and crashes.                                                      *)
THEOREM DatesAreRight == ScannerSpec => []HeightsAligned
<1>1. ScannerInv => HeightsAligned
  BY DEF ScannerInv, IInv
<1> QED
  BY <1>1, ScannerInvariance, PTL

(* A reorganisation never strands the running scanner above the daemon.    *)
THEOREM ScannerNotAhead == ScannerSpec => []NeverAhead
<1>1. ScannerInv => NeverAhead
  BY CacheNotAhead DEF ScannerInv, NeverAhead
<1> QED
  BY <1>1, ScannerInvariance, PTL

(* An update that no reorganisation disturbs leaves the scanner with the   *)
(* daemon's chain, whatever failed or was reorganised before.              *)
THEOREM ScannerHeals == ScannerSpec => []UpdateHeals
<1>1. ASSUME ScannerInv, bcpc = "done", quiet PROVE OnChain
  <2>1. DOMAIN blocks = 0..cursor
    BY <1>1 DEF ScannerInv, IInv, TypeOK, Window, RepairedSoFar
  <2> QED BY <1>1, <2>1 DEF ScannerInv, IInv, RepairedSoFar, OnChain
<1>2. ScannerInv => UpdateHeals
  BY <1>1 DEF UpdateHeals
<1> QED
  BY <1>2, ScannerInvariance, PTL

(* While no call has failed, scan_blocks is told of every block of the     *)
(* window that it has not scanned.                                         *)
THEOREM NoBlockUnscanned == ScannerSpec => []UpdateReportsNewBlocks
<1>1. ScannerInv => UpdateReportsNewBlocks
  BY ReportsNew DEF ScannerInv
<1> QED
  BY <1>1, ScannerInvariance, PTL

(* The stored height never goes back: a scanner that starts again starts   *)
(* one block lower, and reaches the stored height before it saves.         *)
THEOREM HeightNeverGoesBack == ScannerSpec => StoredHeightMonotone
<1>1. ASSUME ScannerInv, [ScannerNext]_scannerVars PROVE storedHeight' >= storedHeight
  <2>0. storedHeight \in Nat \cup {-1}
    BY <1>1 DEF ScannerInv, Resumes, NoHeight
  <2>1. CASE SaveHeight
    BY <1>1, <2>1 DEF SaveHeight, ScannerInv, Resumes
  <2>2. CASE UNCHANGED storedHeight
    BY <2>0, <2>2
  <2>3. ScanStep => SaveHeight \/ UNCHANGED storedHeight
    BY DEF ScanStep, StartScanner, InitPool, FetchInitial, FinishNew, RefreshTable, BeginScan, UpdateBlocks,
         BlocksUpdated, QueryPool, FetchPool, Scan, UpdateInvoices, SaveInvoice, storeVars
  <2>4. Failure => UNCHANGED storedHeight
    BY DEF Failure, BlockRpcFails, PoolRpcFails, PoolTakenForEmpty, StoreFails, GiveUp,
         ScanTransactionsFails, KeyRefused, SaveFails, Stop, Crash, Forget, storeVars
  <2>5. (\/ NewInvoice
         \/ \E id \in DOMAIN invoices : RemoveInvoice(id)
         \/ \E tx \in Tx : Pay(tx)
         \/ DaemonMoves
         \/ UNCHANGED scannerVars) => UNCHANGED storedHeight
    BY DEF NewInvoice, DrawSubaddress, InsertInvoice, RemoveInvoice, Pay, DaemonMoves, storeVars, scannerVars
  <2> QED BY <1>1, <2>1, <2>2, <2>3, <2>4, <2>5 DEF ScannerNext
<1>2. ScannerInv /\ [ScannerNext]_scannerVars => [storedHeight' >= storedHeight]_scannerVars
  BY <1>1
<1> QED
  BY <1>2, ScannerInvariance, PTL DEF ScannerSpec, StoredHeightMonotone

(* The types of everything the scanner works on, for every instance.       *)
THEOREM ScannerTypesAreRight == ScannerSpec => []ScannerTypeOK
<1>1. ScannerInv => ScannerTypeOK
  BY DEF ScannerInv, IInv, Course, StoreTypes, Resumes, ScannerTypeOK
<1> QED
  BY <1>1, ScannerInvariance, PTL
-----------------------------------------------------------------------------
(***************************************************************************)
(* The ledger: what the invoices hold of the chain.                        *)
(***************************************************************************)
(* The transactions of txs, a block of height h, that an invoice with this *)
(* id should count with amount a, by the outputs recorded in keys.         *)
Due(keys, id, a, h, txs) ==
    {tx \in txs : h >= id.creation /\ SubOf[tx] = id.sub /\ AmountOf[tx] = a
                  /\ keys[KeyOf[tx]] = tx}

(* How often the transfers ts count each amount at height h.               *)
Counts(ts, h) == [a \in Amounts |-> Among(ts, {Transfer(a, h)})]

(* How often a list of a scan counts amount a at height h for an invoice.  *)
Newly(list, id, a, h) == Among(list, ForSub(id.sub, id.creation - 1, {Transfer(a, h)}))

(* The same after update_invoices, which replaces what is not under the    *)
(* height deep by what the scan found.                                     *)
Totals(list, deep, id, ts, h) ==
    [a \in Amounts |-> Among(ts, {t \in {Transfer(a, h)} : OlderThan(t, deep)})
                       + Newly(list, id, a, h)]

(* The payments that their customers' invoices wait for, and all that have *)
(* been made.                                                              *)
Owing == {tx \in Tx : standing[tx] = "due"}
Made == {tx \in Tx : standing[tx] # "new"}

(* The counts cover the block of height h: those of its payments that are  *)
(* owed have their keys recorded and are counted, and no more than all its *)
(* payments are counted if exact.                                          *)
Holds(keys, owed, exact, id, counts, h, txs) ==
    /\ h >= id.creation => \A tx \in txs \cap owed : SubOf[tx] = id.sub => keys[KeyOf[tx]] # NoTx
    /\ \A a \in Amounts :
          /\ counts[a] \in Nat
          /\ counts[a] >= Cardinality(Due(keys, id, a, h, txs \cap owed))
          /\ exact => counts[a] <= Cardinality(Due(keys, id, a, h, txs))

(* A key that is recorded stays with its output.                           *)
Extends(keys, more) == \A k \in Key : keys[k] # NoTx => more[k] = keys[k]

(* There are as many payments as a number says.                            *)
LEMMA DueFinite ==
    ASSUME NEW txs \in SUBSET Tx, NEW S \in SUBSET txs, NEW keys, NEW id, NEW a, NEW h
    PROVE  /\ IsFiniteSet(Due(keys, id, a, h, txs)) /\ Cardinality(Due(keys, id, a, h, txs)) \in Nat
           /\ Cardinality(Due(keys, id, a, h, S)) \in Nat
           /\ Cardinality(Due(keys, id, a, h, S)) <= Cardinality(Due(keys, id, a, h, txs))
<1>1. Due(keys, id, a, h, txs) \subseteq Tx /\ Due(keys, id, a, h, S) \subseteq Due(keys, id, a, h, txs)
  BY DEF Due
<1>2. IsFiniteSet(Due(keys, id, a, h, txs))
  BY <1>1, FS_Subset, ScannerAssumption DEF ScannerAssumption
<1>3. IsFiniteSet(Due(keys, id, a, h, S))
  BY <1>1, <1>2, FS_Subset
<1> QED
  BY <1>1, <1>2, <1>3, FS_Subset, FS_CardinalityType

(* Recording more keys only adds payments.                                 *)
LEMMA DueGrows ==
    ASSUME NEW txs \in SUBSET Tx, NEW keys \in [Key -> Tx \cup {NoTx}], NEW more, Extends(keys, more),
           NEW id, NEW a, NEW h
    PROVE  /\ Due(keys, id, a, h, txs) \subseteq Due(more, id, a, h, txs)
           /\ Cardinality(Due(keys, id, a, h, txs)) <= Cardinality(Due(more, id, a, h, txs))
<1>1. \A tx \in Tx : KeyOf[tx] \in Key /\ (keys[KeyOf[tx]] = tx => more[KeyOf[tx]] = tx)
  BY ScannerAssumption DEF ScannerAssumption, Extends
<1>2. Due(keys, id, a, h, txs) \subseteq Due(more, id, a, h, txs)
  BY <1>1 DEF Due
<1>3. IsFiniteSet(Due(more, id, a, h, txs))
  BY DueFinite
<1> QED
  BY <1>2, <1>3, FS_Subset

(* Recording more keys changes nothing for a block that is covered, and    *)
(* owing less of it only makes it easier.                                  *)
LEMMA HoldsOn ==
    ASSUME NEW txs \in SUBSET Tx, NEW keys \in [Key -> Tx \cup {NoTx}], NEW more, Extends(keys, more),
           NEW owed, NEW owed2, owed2 \cap txs \subseteq owed,
           NEW exact, NEW exact2, exact2 => exact, NEW id, NEW counts, NEW h,
           Holds(keys, owed, exact, id, counts, h, txs)
    PROVE  Holds(more, owed2, exact2, id, counts, h, txs)
<1>1. ASSUME h >= id.creation, NEW tx \in txs \cap owed2, SubOf[tx] = id.sub
      PROVE  /\ more[KeyOf[tx]] = keys[KeyOf[tx]] /\ keys[KeyOf[tx]] # NoTx
             /\ tx \in txs \cap owed
  BY <1>1, ScannerAssumption DEF ScannerAssumption, Holds, Extends
<1>2. ASSUME NEW a \in Amounts
      PROVE  /\ counts[a] \in Nat
             /\ counts[a] >= Cardinality(Due(more, id, a, h, txs \cap owed2))
             /\ exact2 => counts[a] <= Cardinality(Due(more, id, a, h, txs))
  <2> DEFINE A == Due(keys, id, a, h, txs \cap owed)
             B == Due(more, id, a, h, txs \cap owed2)
             C == Due(keys, id, a, h, txs)
             D == Due(more, id, a, h, txs)
  <2>1. B \subseteq A
    BY <1>1 DEF Due
  <2>2. C \subseteq D
    BY DueGrows
  <2>3. IsFiniteSet(A) /\ IsFiniteSet(D)
    <3>1. A \subseteq Tx /\ D \subseteq Tx
      BY DEF Due
    <3> QED BY <3>1, FS_Subset, ScannerAssumption DEF ScannerAssumption
  <2>4. counts[a] \in Nat /\ counts[a] >= Cardinality(A) /\ (exact => counts[a] <= Cardinality(C))
    BY DEF Holds
  <2> HIDE DEF A, B, C, D
  <2>5. Cardinality(B) <= Cardinality(A) /\ Cardinality(A) \in Nat /\ Cardinality(B) \in Nat
    BY <2>1, <2>3, FS_Subset, FS_CardinalityType
  <2>6. Cardinality(C) <= Cardinality(D) /\ Cardinality(C) \in Nat /\ Cardinality(D) \in Nat
    BY <2>2, <2>3, FS_Subset, FS_CardinalityType
  <2>7. counts[a] >= Cardinality(B) /\ (exact2 => counts[a] <= Cardinality(D))
    BY <2>4, <2>5, <2>6
  <2> QED BY <2>4, <2>7 DEF B, D
<1> QED
  BY <1>1, <1>2 DEF Holds

(* A block older than the invoice is covered by counting nothing of it.    *)
LEMMA HoldsOld ==
    ASSUME NEW id, id.creation \in Nat, NEW h \in Nat, h < id.creation, NEW keys, NEW owed, NEW exact,
           NEW counts, NEW txs,
           \A a \in Amounts : counts[a] \in Nat /\ (exact => counts[a] = 0)
    PROVE  Holds(keys, owed, exact, id, counts, h, txs)
<1>1. ASSUME NEW a \in Amounts
      PROVE  /\ counts[a] \in Nat
             /\ counts[a] >= Cardinality(Due(keys, id, a, h, txs \cap owed))
             /\ exact => counts[a] <= Cardinality(Due(keys, id, a, h, txs))
  <2>1. Due(keys, id, a, h, txs) = {} /\ Due(keys, id, a, h, txs \cap owed) = {}
    BY DEF Due
  <2>2. Cardinality({}) = 0
    BY FS_EmptySet
  <2>3. counts[a] \in Nat /\ (exact => counts[a] = 0)
    OBVIOUS
  <2> QED BY <2>1, <2>2, <2>3
<1>2. ~(h >= id.creation)
  OBVIOUS
<1> QED
  BY <1>1, <1>2, Zenon DEF Holds

(* No more is counted than the block pays.                                 *)
AtMostDue(keys, exact, id, counts, h, txs) ==
    \A a \in Amounts : /\ counts[a] \in Nat
                       /\ exact => counts[a] <= Cardinality(Due(keys, id, a, h, txs))

(* A block is covered whatever is counted when nothing of it is owed.      *)
LEMMA HoldsUnowed ==
    ASSUME NEW id, NEW h, NEW keys, NEW owed, NEW exact, NEW counts, NEW txs \in SUBSET Tx,
           \A tx \in txs \cap owed : SubOf[tx] # id.sub,
           AtMostDue(keys, exact, id, counts, h, txs)
    PROVE  Holds(keys, owed, exact, id, counts, h, txs)
<1>1. ASSUME NEW a \in Amounts
      PROVE  /\ counts[a] \in Nat
             /\ counts[a] >= Cardinality(Due(keys, id, a, h, txs \cap owed))
             /\ exact => counts[a] <= Cardinality(Due(keys, id, a, h, txs))
  <2>1. Due(keys, id, a, h, txs \cap owed) = {}
    BY DEF Due
  <2>2. Cardinality(Due(keys, id, a, h, txs \cap owed)) = 0
    BY <2>1, FS_EmptySet
  <2> QED BY <2>2 DEF AtMostDue
<1> QED
  BY <1>1 DEF Holds

(* Counts are numbers, and none of an empty list.                          *)
LEMMA CountsType ==
    ASSUME NEW ts \in Seq(TransferValue), NEW h, NEW a \in Amounts
    PROVE  Counts(ts, h)[a] \in Nat /\ (ts = <<>> => Counts(ts, h)[a] = 0)
<1>1. Counts(ts, h)[a] = Among(ts, {Transfer(a, h)})
  BY DEF Counts
<1>2. Among(ts, {Transfer(a, h)}) \in Nat
  BY SpotsFinite
<1>3. ASSUME ts = <<>> PROVE Among(ts, {Transfer(a, h)}) = 0
  <2>1. Spots(ts, {Transfer(a, h)}) = {}
    BY <1>3 DEF Spots
  <2> QED BY <2>1, AmongNone
<1> QED
  BY <1>1, <1>2, <1>3

(* What update_invoices makes of an invoice counts the totals.             *)
LEMMA TotalsAfter ==
    ASSUME NEW id, NEW old \in InvoiceValue, height \in Nat, found \in Seq(FoundValue), NEW h
    PROVE  Counts(UpdateInvoice(id, old).transfers, h)
             = Totals(found, DeepestUpdate, id, old.transfers, h)
<1>1. ASSUME NEW a \in Amounts
      PROVE  Among(UpdateInvoice(id, old).transfers, {Transfer(a, h)})
               = Among(old.transfers, {t \in {Transfer(a, h)} : OlderThan(t, DeepestUpdate)})
                 + Among(found, ForSub(id.sub, id.creation - 1, {Transfer(a, h)}))
  BY AmongUpdate
<1> QED
  BY <1>1, Zenon DEF Counts, Totals, Newly

(* What is kept of a block: all of it under the deepest update, else none. *)
LEMMA TotalsSplit ==
    ASSUME NEW id, NEW ts \in Seq(TransferValue), NEW list \in Seq(FoundValue),
           NEW deep \in Int, NEW h \in Nat, NEW a \in Amounts
    PROVE  /\ Newly(list, id, a, h) \in Nat
           /\ Totals(list, deep, id, ts, h)[a] \in Nat
           /\ Totals(list, deep, id, ts, h)[a]
                = (IF h < deep THEN Counts(ts, h)[a] ELSE 0)
                  + Newly(list, id, a, h)
<1> DEFINE J == {Transfer(a, h)}
           K == {t \in J : OlderThan(t, deep)}
           n == Newly(list, id, a, h)
<1>1. Totals(list, deep, id, ts, h)[a] = Among(ts, K) + n
  BY DEF Totals
<1>2. Counts(ts, h)[a] = Among(ts, J) /\ Among(ts, J) \in Nat /\ n \in Nat
  BY SpotsFinite DEF Counts, Newly
<1>3. Transfer(a, h).height = h /\ h # NoHeight
  BY DEF Transfer, NoHeight
<1>4. CASE h < deep
  <2>1. K = J
    BY <1>3, <1>4 DEF OlderThan
  <2> HIDE DEF K, J, n
  <2> QED BY <1>1, <1>2, <1>4, <2>1 DEF n, J
<1>5. CASE ~(h < deep)
  <2>1. K = {}
    BY <1>3, <1>5 DEF OlderThan
  <2>2. Spots(ts, K) = {}
    BY <2>1 DEF Spots
  <2>3. Among(ts, K) = 0
    BY <2>2, AmongNone
  <2> HIDE DEF K, J, n
  <2> QED BY <1>1, <1>2, <1>5, <2>3 DEF n, J
<1> QED
  BY <1>4, <1>5

(* Invoices that compare equal count the same.                             *)
LEMMA SameCounts ==
    ASSUME NEW v \in InvoiceValue, NEW w \in InvoiceValue, SameInvoice(v, w), NEW h
    PROVE  Counts(v.transfers, h) = Counts(w.transfers, h)
<1> DEFINE s == v.transfers
           t == w.transfers
<1>1. s \in Seq(TransferValue) /\ t \in Seq(TransferValue)
  BY DEF InvoiceValue, TransferValue
<1>2. Tally(s) = Tally(t)
  BY DEF SameInvoice
<1> HIDE DEF s, t
<1>3. ASSUME NEW x PROVE Among(s, {x}) = Among(t, {x})
  <2>1. ToSet(s) = ToSet(t)
    BY <1>2 DEF Tally
  <2>2. CASE x \in ToSet(s)
    <3>1. Tally(s)[x] = Cardinality({i \in DOMAIN s : s[i] = x})
      BY <2>2 DEF Tally
    <3>2. Tally(t)[x] = Cardinality({i \in DOMAIN t : t[i] = x})
      BY <2>1, <2>2 DEF Tally
    <3>3. Spots(s, {x}) = {i \in DOMAIN s : s[i] = x} /\ Spots(t, {x}) = {i \in DOMAIN t : t[i] = x}
      BY DEF Spots
    <3> QED BY <1>2, <3>1, <3>2, <3>3, Zenon DEF Among
  <2>3. CASE x \notin ToSet(s)
    <3>1. Spots(s, {x}) = {} /\ Spots(t, {x}) = {}
      BY <2>1, <2>3 DEF Spots, ToSet
    <3> QED BY <3>1, AmongNone
  <2> QED BY <2>2, <2>3
<1>4. \A a \in Amounts : Among(s, {Transfer(a, h)}) = Among(t, {Transfer(a, h)})
  BY <1>3
<1> QED
  BY <1>4, Zenon DEF Counts, s, t

(* Counting by places, as the properties do.                               *)
LEMMA CountIsAmong == ASSUME NEW t, NEW ts PROVE CountOf(t, ts) = Among(ts, {t})
<1>1. Spots(ts, {t}) = {i \in DOMAIN ts : ts[i] = t}
  BY DEF Spots
<1> QED
  BY <1>1 DEF CountOf, Among
-----------------------------------------------------------------------------
(***************************************************************************)
(* The oldest block of the window.                                         *)
(***************************************************************************)
(* No reorganisation reaches under the window of a cache at the top.       *)
Shallow == MaxReorgDepth < CacheSize

(* The blocks that no reorganisation reaches any more.                     *)
Buried(h) == h \in 0..(len - 1) /\ (h = 0 \/ h + CacheSize <= len)

(* While no call has failed, the oldest block of the window is the         *)
(* daemon's, or check_and_fix_reorg stands at the break above it: the block*)
(* that the next push drops is never stale.                                *)
TailIsCurrent ==
    CacheSize - 1 \in DOMAIN blocks =>
        \/ Current(CacheSize - 1)
        \/ bcpc = "fix" /\ cursor < CacheSize - 1 /\ Broken(cursor)

(* What the daemon does: buried blocks stay.                               *)
LEMMA BuriedStay ==
    ASSUME Shallow, IInv, DaemonStep, NEW h, Buried(h)
    PROVE  chain'[h] = chain[h] /\ Buried(h)' /\ len' >= len /\ len' \in Nat
<1>0. len \in Nat \ {0} /\ h \in 0..(len - 1) /\ (h = 0 \/ h + CacheSize <= len)
      /\ CacheSize \in Nat /\ MaxReorgDepth \in Nat
  BY DEF IInv, TypeOK, MonerodTypeOK, Buried
<1>1. CASE \E tx \in Tx : Submit(tx) \/ Evict(tx)
  BY <1>0, <1>1 DEF Submit, Evict, Buried
<1>2. CASE \E txs \in SUBSET pool : Mine(txs)
  <2>1. len' = len + 1 /\ chain'[h] = chain[h]
    BY <1>0, <1>2 DEF Mine
  <2> QED BY <1>0, <2>1 DEF Buried
<1>3. CASE Reorganise
  <2> PICK fork \in {g \in 1..(len - 1) : g >= len - MaxReorgDepth} :
           \E place \in [pool \cup MinedFrom(fork) -> {-1} \cup fork..len] : Reorg(fork, place)
    BY <1>3 DEF Reorganise
  <2>1. fork \in Nat /\ h < fork
    BY <1>0 DEF Shallow
  <2>2. len' = len + 1 /\ chain'[h] = chain[h]
    BY <1>0, <2>1 DEF Reorg
  <2> QED BY <1>0, <2>2 DEF Buried
<1> QED
  BY <1>1, <1>2, <1>3 DEF DaemonStep

(* Under a daemon's block the window is the daemon's as far as             *)
(* check_and_fix_reorg has not come, unless it stands at a break.          *)
LEMMA TailAfter ==
    ASSUME IInv, Reporting, faults = 0, bcpc = "fix", Current(cursor), cursor \in DOMAIN blocks
    PROVE  TailIsCurrent
<1>1. DOMAIN blocks = 0..(CacheSize - 1) /\ cursor \in 0..(CacheSize - 1)
  BY DEF IInv, TypeOK, Window
<1>2. CASE cursor = CacheSize - 1
  BY <1>2 DEF TailIsCurrent
<1>3. CASE cursor # CacheSize - 1 /\ ~Broken(cursor)
  <2>1. cursor + 1 \in DOMAIN blocks /\ cursor < cursor + 1
    BY <1>1, <1>3
  <2>2. Current(cursor + 1)
    BY <1>3, <2>1, HashesTell DEF LinkTest
  <2>3. CASE cursor + 1 = CacheSize - 1
    BY <2>2, <2>3 DEF TailIsCurrent
  <2>4. CASE cursor + 1 # CacheSize - 1
    <3>1. CacheSize - 1 \in DOMAIN blocks /\ cursor + 1 < CacheSize - 1 /\ ~(cursor + 1 <= cursor)
      BY <1>1, <1>3, <2>4
    <3>2. Current(CacheSize - 1)
      BY <2>1, <2>2, <3>1 DEF Reporting, StaleOnTop
    <3> QED BY <3>2 DEF TailIsCurrent
  <2> QED BY <2>3, <2>4
<1>4. CASE cursor # CacheSize - 1 /\ Broken(cursor)
  BY <1>1, <1>4 DEF TailIsCurrent
<1> QED
  BY <1>2, <1>3, <1>4

(* The same of the next state.                                             *)
LEMMA TailAfterNext ==
    (IInv /\ Reporting /\ faults = 0 /\ bcpc = "fix" /\ Current(cursor) /\ cursor \in DOMAIN blocks
       => TailIsCurrent)'
<1>1. IInv /\ Reporting /\ faults = 0 /\ bcpc = "fix" /\ Current(cursor) /\ cursor \in DOMAIN blocks
       => TailIsCurrent
  BY TailAfter
<1> QED
  BY <1>1, PTL

(* Every step of the block cache and of the daemon keeps that.             *)
LEMMA TailKeeps ==
    ASSUME Shallow, IInv, IInv', Reporting', TailIsCurrent, [Next]_vars \/ Dropped, faults' = 0
    PROVE  TailIsCurrent'
<1>0. /\ height \in Nat /\ len \in Nat \ {0} /\ cursor \in 0..CacheSize
      /\ DOMAIN blocks = Window /\ DOMAIN blocks' = Window'
  BY DEF IInv, TypeOK, MonerodTypeOK
<1>1. CASE UNCHANGED <<chain, height, blocks>> /\ bcpc # "fix"
  BY <1>1 DEF TailIsCurrent, Current
<1>2. CASE blocks' = Empty
  BY <1>2 DEF TailIsCurrent, Empty
<1>3. CASE InitFetch
  <2>1. DOMAIN blocks = 0..(cursor - 1) /\ bcpc = "init"
    BY <1>0, <1>3 DEF InitFetch, Window
  <2>2. CASE cursor = CacheSize - 1
    BY <1>3, <2>2 DEF InitFetch, daemonVars, TailIsCurrent, Current
  <2>3. CASE cursor # CacheSize - 1
    BY <1>0, <1>3, <2>3 DEF InitFetch, TailIsCurrent
  <2> QED BY <2>2, <2>3
<1>4. CASE FetchNext
  <2>1. /\ bcpc' = "fix" /\ cursor' = 0 /\ blocks'[0] = chain'[height' - 0]
        /\ 0 \in DOMAIN blocks'
    BY <1>0, <1>4 DEF FetchNext, PushBlock, daemonVars, IInv, RepairedSoFar
  <2> QED BY <2>1, TailAfterNext DEF Current
<1>5. CASE FixKeep
  <2>1. CacheSize - 1 \in DOMAIN blocks => Current(CacheSize - 1)
    BY <1>5 DEF FixKeep, TailIsCurrent
  <2> QED BY <1>5, <2>1 DEF FixKeep, TailIsCurrent, Current, daemonVars
<1>6. CASE FixRepair
  <2>1. DOMAIN blocks = 0..(CacheSize - 1) /\ cursor \in 0..(CacheSize - 2)
    BY <1>0, <1>6 DEF FixRepair, Window
  <2>2. /\ bcpc' = "fix" /\ cursor' = cursor + 1 /\ cursor + 1 \in DOMAIN blocks
        /\ DOMAIN blocks' = DOMAIN blocks /\ blocks'[cursor + 1] = chain'[height' - (cursor + 1)]
    <3>1. height - 1 - cursor = height - (cursor + 1)
      BY <1>0
    <3> QED BY <1>6, <2>1, <3>1 DEF FixRepair, Repair, daemonVars
  <2> QED BY <2>1, <2>2, TailAfterNext DEF Current
<1>7. CASE FixDone
  BY <1>7 DEF FixDone, TailIsCurrent, Current, daemonVars
<1>8. CASE DaemonStep
  <2>1. UNCHANGED <<bcpc, height, blocks, cursor>>
    BY <1>8 DEF DaemonStep
  <2>2. ASSUME CacheSize - 1 \in DOMAIN blocks, Current(CacheSize - 1)
        PROVE  (Current(CacheSize - 1))'
    <3>1. height - (CacheSize - 1) \in 0..(len - 1) /\ 0 \in DOMAIN blocks
      BY <2>2, InRange
    <3>2. height < len
      BY <3>1 DEF IInv, WindowInChain
    <3>3. Buried(height - (CacheSize - 1))
      BY <1>0, <3>1, <3>2 DEF Buried
    <3>4. chain'[height - (CacheSize - 1)] = chain[height - (CacheSize - 1)]
      BY <1>8, <3>3, BuriedStay
    <3> QED BY <2>1, <2>2, <3>4 DEF Current
  <2> QED BY <2>1, <2>2 DEF TailIsCurrent, Broken
<1>9. CASE UNCHANGED vars
  BY <1>9 DEF vars, daemonVars, cacheVars, TailIsCurrent, Current, Broken
<1>10. (\E h \in StartHeights : StartInit(h)) \/ InitTooShort \/ Dropped => blocks' = Empty
  BY DEF StartInit, InitTooShort, Dropped
<1>11. InitDone \/ QueryHeight \/ TakeResult => UNCHANGED <<chain, height, blocks>> /\ bcpc # "fix"
  BY DEF InitDone, QueryHeight, TakeResult, daemonVars
<1>12. ~RpcFail
  BY DEF RpcFail, IInv, TypeOK
<1> QED
  BY <1>1, <1>2, <1>3, <1>4, <1>5, <1>6, <1>7, <1>8, <1>9, <1>10, <1>11, <1>12
     DEF Next, CacheStep
-----------------------------------------------------------------------------
(***************************************************************************)
(* The invariant of the ledger, while no payment is passed over.           *)
(***************************************************************************)
(* The block of height h as the scanner knows it.                          *)
View(h) == IF h > height - CacheSize THEN blocks[height - h].txs ELSE chain[h].txs

(* An invoice covers the block of height h when it holds txs.              *)
Covers(id, h, txs) ==
    Holds(outputKeys, Owing, restarts = 0, id, Counts(invoices[id].transfers, h), h, txs)

(* No invoice is older than the chain or ahead of it.                      *)
Clocks ==
    /\ \A id \in DOMAIN invoices : id.creation >= 1 /\ invoices[id].current <= len
    /\ bcpc = "next" => updated = 0
    /\ spc \in {"new", "ready"} => height < len \/ height = CacheSize - 1

(* Before the first scan of all nothing has been counted.                  *)
FirstScans ==
    /\ spc \in {"off", "new", "ready"} => firstScan
    /\ spc \in {"update", "save"} => ~firstScan
    /\ restarts = 0 /\ firstScan => \A id \in DOMAIN invoices : invoices[id].transfers = <<>>

(* What a restart need not scan again: the blocks under the window of the  *)
(* stored height, and under that of the scan that last saved the invoice.  *)
StoredHolds ==
    \A id \in DOMAIN invoices, h \in 0..(len - 1) :
        (h + CacheSize <= storedHeight \/ h + CacheSize <= invoices[id].current)
            => Covers(id, h, chain[h].txs)

(* The blocks under those that the first scan will read.                   *)
TrunkHeight ==
    IF spc \in {"new", "ready", "loop", "begin"} \/ bcpc = "next" THEN height - CacheSize + 1
    ELSE height - CacheSize

(* A scanner that starts has nothing to read under its window.             *)
TrunkHolds ==
    (spc # "off" /\ firstScan) =>
        \A id \in DOMAIN invoices, h \in 0..TrunkHeight : Covers(id, h, chain[h].txs)

(* The blocks that a later scan will not read.                             *)
SettledHeight == IF spc \in {"loop", "begin"} THEN height ELSE height - updated

(* As a scan goes on, the invoices cover what it will not read.            *)
WindowHolds ==
    (spc \in {"loop", "begin", "cache", "pool", "fetch", "scan"} /\ ~firstScan) =>
        \A id \in DOMAIN invoices, h \in 0..SettledHeight : Covers(id, h, View(h))

(* What update_invoices is about to write covers all blocks.               *)
TotalsHold ==
    spc = "update" =>
        \A id \in DOMAIN invoices, h \in 0..height :
            Holds(outputKeys, Owing, restarts = 0, id,
                  Totals(found, DeepestUpdate, id, invoices[id].transfers, h), h, View(h))

(* A scan finds no more than the blocks pay, to whatever invoice: one may  *)
(* be stored between the scan and update_invoices.                         *)
FoundBounded ==
    spc = "update" =>
        \A id \in InvoiceId, a \in Amounts, h \in 0..height :
            Newly(found, id, a, h) <= Cardinality(Due(outputKeys, id, a, h, View(h)))

(* Every invoice covers all blocks, or its update is still pending.        *)
PendingHold ==
    spc = "save" =>
        /\ \A p \in pending :
              /\ p.invoice.current = height + 1
              /\ \A h \in 0..height : Holds(outputKeys, Owing, restarts = 0, p.id,
                                            Counts(p.invoice.transfers, h), h, View(h))
        /\ \A id \in DOMAIN invoices :
              \/ \E p \in pending : p.id = id
              \/ \A h \in 0..height : Covers(id, h, View(h))

(* What the invoices cover at each point of a scan, and why a later scan   *)
(* finds the rest.                                                         *)
Ledger ==
    /\ TailIsCurrent
    /\ Clocks
    /\ FirstScans
    /\ StoredHolds
    /\ TrunkHolds
    /\ WindowHolds
    /\ TotalsHold
    /\ FoundBounded
    /\ PendingHold

(* No call has failed and no scan has passed over payments.                *)
Clean == faults = 0 /\ ~skipped

(* The inductive invariant of the ledger: it holds until a call fails or a *)
(* scan passes over payments.                                              *)
LedgerInv == ScannerInv /\ (Clean => Ledger)

-----------------------------------------------------------------------------
(* The steps of a scanner no call of which fails.                          *)
LEMMA QuietSteps ==
    ASSUME ScannerInv, [ScannerNext]_scannerVars, Clean'
    PROVE  /\ Clean
           /\ \/ ScanStep
              \/ InitTooShort /\ BlockRpcFails
              \/ Stop \/ Crash
              \/ NewInvoice
              \/ \E id \in DOMAIN invoices : RemoveInvoice(id)
              \/ \E tx \in Tx : Pay(tx)
              \/ DaemonMoves
              \/ UNCHANGED scannerVars
<1>0. faults' = 0 /\ ~skipped'
  BY DEF Clean
<1>1. faults \in Nat
  BY DEF ScannerInv, IInv, TypeOK
<1>2. [Next]_vars => faults = 0
  <2>1. RpcFail => faults' = faults + 1
    BY DEF RpcFail
  <2>2. [Next]_vars /\ ~RpcFail => faults' = faults
    BY DEF Next, CacheStep, StartInit, InitFetch, InitTooShort, InitDone, QueryHeight,
         FetchNext, FixKeep, FixRepair, FixDone, TakeResult, DaemonStep, vars, cacheVars
  <2> QED BY <1>0, <1>1, <2>1, <2>2
<1>3. Interrupted => faults = 0
  BY <1>0, <1>1 DEF Interrupted
<1>4. Dropped => faults = 0
  BY <1>0 DEF Dropped
<1>5. faults = 0
  BY <1>2, <1>3, <1>4, CacheSees
<1>6. ~(PoolRpcFails \/ PoolTakenForEmpty \/ StoreFails \/ ScanTransactionsFails
        \/ \E p \in pending : SaveFails(p))
  BY <1>0, <1>5 DEF PoolRpcFails, PoolTakenForEmpty, StoreFails, ScanTransactionsFails, SaveFails,
       GiveUp, CountFault
<1>7. ASSUME BlockRpcFails PROVE InitTooShort
  BY <1>0, <1>5, <1>7 DEF BlockRpcFails, RpcFail
<1>8. ~KeyRefused
  BY <1>0 DEF KeyRefused
<1>9. ~skipped
  <2>1. ScanStep => ~skipped
    BY <1>0 DEF ScanStep, StartScanner, InitPool, FetchInitial, FinishNew, RefreshTable, BeginScan, UpdateBlocks,
         BlocksUpdated, QueryPool, FetchPool, Scan, UpdateInvoices, SaveInvoice, SaveHeight, sideVars
  <2>2. BlockRpcFails \/ Stop \/ Crash => ~skipped
    BY <1>0 DEF BlockRpcFails, Stop, Crash, Forget, sideVars
  <2>3. (\/ NewInvoice
         \/ \E id \in DOMAIN invoices : RemoveInvoice(id)
         \/ \E tx \in Tx : Pay(tx)
         \/ DaemonMoves
         \/ UNCHANGED scannerVars) => ~skipped
    BY <1>0 DEF NewInvoice, DrawSubaddress, InsertInvoice, RemoveInvoice, Pay, DaemonMoves, sideVars,
         scannerVars
  <2> QED BY <1>6, <1>8, <2>1, <2>2, <2>3 DEF ScannerNext, Failure
<1> QED
  BY <1>5, <1>6, <1>7, <1>8, <1>9 DEF ScannerNext, Failure, Clean

(* Blocks that are buried stay, and the chain grows.                       *)
LEMMA ChainStep ==
    ASSUME Shallow, ScannerInv, [ScannerNext]_scannerVars
    PROVE  /\ len \in Nat \ {0} /\ len' \in Nat /\ len' >= len
           /\ \A h : Buried(h) => /\ chain'[h] = chain[h] /\ chain[h].txs \in SUBSET Made
                                  /\ h \in 0..(len - 1) /\ h \in 0..(len' - 1)
<1>1. len \in Nat \ {0} /\ chain \in [0..(len - 1) -> Block]
  BY DEF ScannerInv, IInv, TypeOK, MonerodTypeOK
<1>2. \A h \in 0..(len - 1) : chain[h].txs \in SUBSET Made
  <2>1. \A h \in 0..(len - 1) : chain[h].txs \in SUBSET Tx
    BY <1>1 DEF Block
  <2> QED BY <1>1, <2>1 DEF ScannerInv, Dealings, Made
<1>3. CASE DaemonStep
  <2>1. ASSUME NEW h, Buried(h) PROVE chain'[h] = chain[h] /\ h \in 0..(len - 1)
    BY <1>3, <2>1, BuriedStay DEF ScannerInv, Buried
  <2>2. len' \in Nat /\ len' >= len
    <3>1. Buried(0)
      BY <1>1 DEF Buried
    <3> QED BY <1>3, <3>1, BuriedStay DEF ScannerInv
  <2> QED BY <1>1, <1>2, <2>1, <2>2
<1>4. CASE UNCHANGED daemonVars
  BY <1>1, <1>2, <1>4 DEF daemonVars, Buried
<1>5. [Next]_vars => DaemonStep \/ UNCHANGED daemonVars
  BY DEF Next, CacheStep, StartInit, InitFetch, InitTooShort, InitDone, QueryHeight, FetchNext,
       FixKeep, FixRepair, FixDone, TakeResult, RpcFail, vars
<1>6. Interrupted \/ Dropped => UNCHANGED daemonVars
  BY DEF Interrupted, Dropped, daemonVars
<1> QED
  BY <1>3, <1>4, <1>5, <1>6, CacheSees

(* Of the payments that have been made, no more become due.                *)
LEMMA OwingStays ==
    ASSUME ScannerInv, [ScannerNext]_scannerVars
    PROVE  Owing' \cap Made \subseteq Owing
<1>0. standing \in [Tx -> Standings]
  BY DEF ScannerInv, StoreTypes
<1>1. CASE UNCHANGED standing
  BY <1>1 DEF Owing
<1>2. CASE \E id \in DOMAIN invoices : RemoveInvoice(id)
  BY <1>0, <1>2 DEF RemoveInvoice, Owing
<1>3. CASE \E tx \in Tx : Pay(tx)
  BY <1>0, <1>3 DEF Pay, Owing, Made
<1> QED
  BY <1>1, <1>2, <1>3, StandingKept

(* Recorded keys stay, and restarts are not taken back.                    *)
LEMMA KeysStay ==
    ASSUME ScannerInv, [ScannerNext]_scannerVars, Clean'
    PROVE  /\ Extends(outputKeys, outputKeys') /\ (restarts' = 0 => restarts = 0)
           /\ outputKeys \in [Key -> Tx \cup {NoTx}]
           /\ Owing' \cap Made \subseteq Owing
<1> DEFINE Goal == Extends(outputKeys, outputKeys') /\ (restarts' = 0 => restarts = 0)
<1>0. outputKeys \in [Key -> Tx \cup {NoTx}] /\ Owing' \cap Made \subseteq Owing
  <2>1. outputKeys \in [Key -> Tx \cup {NoTx}]
    BY DEF ScannerInv, StoreTypes
  <2> QED BY <2>1, OwingStays
<1> SUFFICES Goal
  BY <1>0
<1>1. CASE Scan
  <2>1. \A k \in Key : outputKeys'[k] \in KeyOwners(k)
    BY <1>1, ScanTypes DEF ScannerInv
  <2>2. Extends(outputKeys, outputKeys')
    BY <2>1 DEF KeyOwners, Extends
  <2> QED BY <1>1, <2>2 DEF Scan
<1>2. CASE UNCHANGED <<outputKeys, restarts>>
  BY <1>2 DEF Extends
<1>3. CASE Stop \/ Crash
  <2>1. restarts \in Nat
    BY DEF ScannerInv, StoreTypes
  <2> QED BY <1>3, <2>1 DEF Stop, Crash, Forget, storeVars, Extends
<1>4. ScanStep => Scan \/ UNCHANGED <<outputKeys, restarts>>
  BY DEF ScanStep, StartScanner, InitPool, FetchInitial, FinishNew, RefreshTable, BeginScan, UpdateBlocks,
       BlocksUpdated, QueryPool, FetchPool, UpdateInvoices, SaveInvoice, SaveHeight, storeVars
<1>5. (\/ BlockRpcFails
       \/ NewInvoice
       \/ \E id \in DOMAIN invoices : RemoveInvoice(id)
       \/ \E tx \in Tx : Pay(tx)
       \/ DaemonMoves
       \/ UNCHANGED scannerVars) => UNCHANGED <<outputKeys, restarts>>
  BY DEF BlockRpcFails, NewInvoice, DrawSubaddress, InsertInvoice, RemoveInvoice, Pay, DaemonMoves, storeVars, scannerVars
<1> QED
  BY <1>1, <1>2, <1>3, <1>4, <1>5, QuietSteps

(* A block that an invoice covers stays covered.                           *)
LEMMA CoversOn ==
    ASSUME ScannerInv, [ScannerNext]_scannerVars, Clean',
           NEW id, NEW counts, NEW h, NEW txs \in SUBSET Made,
           Holds(outputKeys, Owing, restarts = 0, id, counts, h, txs)
    PROVE  Holds(outputKeys', Owing', restarts' = 0, id, counts, h, txs)
<1>1. txs \in SUBSET Tx /\ Owing' \cap txs \subseteq Owing
  BY KeysStay DEF Made
<1> DEFINE owed == Owing
           owed2 == Owing'
           exact == restarts = 0
           exact2 == restarts' = 0
           more == outputKeys'
<1>2. /\ owed2 \cap txs \subseteq owed /\ (exact2 => exact) /\ Extends(outputKeys, more)
      /\ outputKeys \in [Key -> Tx \cup {NoTx}] /\ Holds(outputKeys, owed, exact, id, counts, h, txs)
  BY <1>1, KeysStay
<1> HIDE DEF owed, owed2, exact, exact2, more
<1>3. Holds(more, owed2, exact2, id, counts, h, txs)
  BY <1>1, <1>2, HoldsOn
<1> QED
  BY <1>3 DEF owed2, exact2, more

(* Only saving, creating and removing changes the stored invoices.         *)
Inherited == \A id \in DOMAIN invoices' : id \in DOMAIN invoices /\ invoices'[id] = invoices[id]

(* A step saves an invoice, creates one, or leaves those it keeps alone.   *)
LEMMA WhoWrites ==
    ASSUME [ScannerNext]_scannerVars
    PROVE  \/ \E p \in pending : SaveInvoice(p)
           \/ \E id \in drawn : InsertInvoice(id)
           \/ Inherited
<1>1. UpdateInvoices => UNCHANGED invoices
  BY DEF UpdateInvoices, storeVars
<1>2. (\E id \in DOMAIN invoices : RemoveInvoice(id)) => Inherited
  BY DEF RemoveInvoice, Inherited
<1>3. UNCHANGED invoices => Inherited
  BY DEF Inherited
<1> QED
  BY <1>1, <1>2, <1>3, InvoicesKept

(* The whole window is there, and lies in the chain.                       *)
LEMMA FullWindow ==
    ASSUME IInv, bcpc \in {"idle", "next", "fix", "done"}
    PROVE  /\ height \in Nat /\ len \in Nat \ {0} /\ CacheSize \in Nat \ {0}
           /\ CacheSize - 1 <= height /\ height < len /\ updated \in 0..CacheSize
           /\ DOMAIN blocks = 0..(CacheSize - 1)
           /\ \A h \in 0..height : View(h) \in SUBSET Tx
<1>1. DOMAIN blocks = 0..(CacheSize - 1) /\ blocks \in [0..(CacheSize - 1) -> Block]
  BY DEF IInv, TypeOK, Window
<1>2. /\ height \in Nat /\ len \in Nat \ {0} /\ CacheSize - 1 <= height /\ height < len
      /\ updated \in 0..CacheSize /\ chain \in [0..(len - 1) -> Block]
  BY <1>1 DEF IInv, TypeOK, MonerodTypeOK, WindowInChain
<1>3. ASSUME NEW h \in 0..height PROVE View(h) \in SUBSET Tx
  <2>1. CASE h > height - CacheSize
    <3>1. height - h \in 0..(CacheSize - 1)
      BY <1>2, <2>1
    <3>2. blocks[height - h].txs \in SUBSET Tx
      BY <1>1, <3>1 DEF Block
    <3> QED BY <2>1, <3>2 DEF View
  <2>2. CASE ~(h > height - CacheSize)
    <3>1. chain[h].txs \in SUBSET Tx
      BY <1>2 DEF Block
    <3> QED BY <2>2, <3>1 DEF View
  <2> QED BY <2>1, <2>2
<1> QED
  BY <1>1, <1>2, <1>3

(* What it holds has been paid.                                            *)
LEMMA ViewMade ==
    ASSUME ScannerInv, bcpc \in {"idle", "next", "fix", "done"}, NEW h \in 0..height
    PROVE  View(h) \in SUBSET Made
<1>1. /\ height \in Nat /\ CacheSize \in Nat \ {0} /\ CacheSize - 1 <= height /\ height < len
      /\ DOMAIN blocks = 0..(CacheSize - 1) /\ View(h) \in SUBSET Tx /\ len \in Nat
  BY FullWindow DEF ScannerInv
<1>2. CASE h > height - CacheSize
  <2>1. height - h \in DOMAIN blocks /\ View(h) = blocks[height - h].txs
    BY <1>1, <1>2 DEF View
  <2> QED BY <1>1, <2>1 DEF ScannerInv, Dealings, Made
<1>3. CASE ~(h > height - CacheSize)
  <2>1. DOMAIN chain = 0..(len - 1)
    BY DEF ScannerInv, IInv, TypeOK, MonerodTypeOK
  <2>2. h \in DOMAIN chain /\ View(h) = chain[h].txs
    BY <1>1, <1>3, <2>1 DEF View
  <2> QED BY <1>1, <2>2 DEF ScannerInv, Dealings, Made
<1> QED
  BY <1>2, <1>3

(* What the scanner knows of the blocks changes with its window only.      *)
LEMMA ViewStays ==
    ASSUME Shallow, ScannerInv, [ScannerNext]_scannerVars, bcpc \in {"idle", "next", "fix", "done"},
           UNCHANGED <<height, blocks>>, NEW h \in 0..height
    PROVE  View(h)' = View(h)
<1>1. height \in Nat /\ height < len /\ len \in Nat
  BY FullWindow DEF ScannerInv
<1>2. CASE h > height - CacheSize
  BY <1>2 DEF View
<1>3. CASE ~(h > height - CacheSize)
  <2>1. Buried(h)
    BY <1>1, <1>3 DEF Buried
  <2> QED BY <1>3, <2>1, ChainStep DEF View
<1> QED
  BY <1>2, <1>3

(* Under the oldest block of the window it is the chain.                   *)
LEMMA ViewIsChain ==
    ASSUME IInv, TailIsCurrent, bcpc \in {"idle", "next", "done"},
           NEW h \in 0..height, h + CacheSize <= height + 1
    PROVE  View(h) = chain[h].txs
<1>1. height \in Nat /\ CacheSize - 1 <= height /\ CacheSize - 1 \in DOMAIN blocks
      /\ height - (height - (CacheSize - 1)) = CacheSize - 1
  BY FullWindow
<1>2. CASE h > height - CacheSize
  <2>1. h = height - (CacheSize - 1) /\ height - h = CacheSize - 1
    BY <1>1, <1>2
  <2>2. blocks[CacheSize - 1] = chain[height - (CacheSize - 1)]
    BY <1>1 DEF TailIsCurrent, Current
  <2> QED BY <1>2, <2>1, <2>2 DEF View
<1>3. CASE ~(h > height - CacheSize)
  BY <1>3 DEF View
<1> QED
  BY <1>2, <1>3
-----------------------------------------------------------------------------
(* The oldest block of the window stays the daemon's.                      *)
LEMMA TailStays ==
    ASSUME Shallow, ScannerInv, [ScannerNext]_scannerVars, TailIsCurrent, Clean'
    PROVE  TailIsCurrent'
<1>1. ~Interrupted
  BY DEF Interrupted, ScannerInv, IInv, TypeOK, Clean
<1> QED
  BY <1>1, CacheSees, CacheKeeps, TailKeeps DEF ScannerInv, Clean

(* Invoices are created and updated within the chain.                      *)
LEMMA ClocksKeep ==
    ASSUME Shallow, ScannerInv, Clocks, PendingHold, [ScannerNext]_scannerVars, Clean'
    PROVE  Clocks'
<1>0. /\ len \in Nat \ {0} /\ len' \in Nat /\ len' >= len /\ height \in Nat /\ CacheSize \in Nat \ {0}
      /\ Course
  BY ChainStep DEF ScannerInv, IInv, TypeOK
<1>1. \A id \in DOMAIN invoices : /\ id.creation >= 1 /\ invoices[id].current <= len
                                  /\ invoices[id].current \in Nat
  BY DEF Clocks, ScannerInv, StoreTypes, InvoiceValue
<1>2. \A id \in DOMAIN invoices' : id.creation >= 1 /\ invoices'[id].current <= len'
  <2>2. CASE \E p \in pending : SaveInvoice(p)
    <3> PICK p \in pending : SaveInvoice(p)
      BY <2>2
    <3>1. p.invoice.current = height + 1 /\ height < len
      <4>1. spc = "save" /\ bcpc = "idle"
        BY DEF SaveInvoice, ScannerInv, Course
      <4> QED BY <4>1, CacheNotAhead DEF PendingHold, ScannerInv
    <3>2. DOMAIN invoices' = DOMAIN invoices
          /\ \A id \in DOMAIN invoices' : invoices'[id] \in {invoices[id], p.invoice}
      BY DEF SaveInvoice, Replace
    <3> QED BY <1>0, <1>1, <3>1, <3>2
  <2>3. CASE \E id \in drawn : InsertInvoice(id)
    <3> PICK id \in drawn : InsertInvoice(id)
      BY <2>3
    <3> DEFINE inv == NewInvoiceValue(Requested, Required, id.creation, ExpiresIn)
    <3>1. /\ inv.current = 0 /\ id.creation >= 1
          /\ DOMAIN invoices' = DOMAIN invoices \cup {id}
          /\ invoices'[id] = inv
          /\ \A i \in DOMAIN invoices : invoices'[i] = invoices[i]
      BY NewInvoiceType DEF ScannerInv, Dealings
    <3> HIDE DEF inv
    <3> QED BY <1>0, <1>1, <3>1
  <2>4. CASE Inherited
    BY <1>0, <1>1, <2>4 DEF Inherited
  <2> QED BY <2>2, <2>3, <2>4, WhoWrites
<1>3. /\ bcpc' = "next" => updated' = 0
      /\ spc' \in {"new", "ready"} => height' < len' \/ height' = CacheSize - 1
  <2>1. CASE StartScanner
    <3>1. StartHeight \in StartHeights
      BY StartIsInRange DEF ScannerInv
    <3>2. StartHeight < len \/ StartHeight = CacheSize - 1
      BY <1>0, <3>1 DEF StartHeights
    <3> QED BY <2>1, <3>2 DEF StartScanner, StartInit, daemonVars
  <2>2. CASE InitPool \/ FetchInitial \/ FinishNew
    <3>1. UNCHANGED <<height, len>> /\ spc \in {"new", "ready"} /\ bcpc' # "next"
      BY <1>0, <2>2 DEF InitPool, FetchInitial, FinishNew, InitFetch, InitDone, daemonVars, cacheVars, Course
    <3> QED BY <3>1 DEF Clocks
  <2>3. CASE BeginScan
    BY <2>3 DEF BeginScan, QueryHeight
  <2>4. CASE UpdateBlocks
    BY <2>4 DEF UpdateBlocks, FetchNext, FixKeep, FixRepair, scanVars
  <2>5. CASE \/ RefreshTable \/ BlocksUpdated \/ QueryPool \/ FetchPool \/ Scan \/ UpdateInvoices \/ SaveHeight
             \/ \E p \in pending : SaveInvoice(p)
    <3>1. bcpc' # "next" /\ spc' \notin {"new", "ready"}
      BY <1>0, <2>5 DEF RefreshTable, BlocksUpdated, FixDone, QueryPool, FetchPool, Scan, TakeResult, UpdateInvoices,
           SaveHeight, SaveInvoice, cacheVars, Course
    <3> QED BY <3>1
  <2>6. CASE (InitTooShort /\ BlockRpcFails) \/ Stop \/ Crash
    <3>1. bcpc' # "next" /\ spc' \notin {"new", "ready"}
      BY <1>0, <2>6 DEF InitTooShort, BlockRpcFails, Stop, Crash, Forget, Course
    <3> QED BY <3>1
  <2>7. CASE UNCHANGED <<bcpc, updated, spc, height>>
    BY <1>0, <2>7 DEF Clocks
  <2>8. (\/ NewInvoice
         \/ \E id \in DOMAIN invoices : RemoveInvoice(id)
         \/ \E tx \in Tx : Pay(tx)
         \/ DaemonMoves
         \/ UNCHANGED scannerVars) => UNCHANGED <<bcpc, updated, spc, height>>
    BY DEF NewInvoice, DrawSubaddress, InsertInvoice, RemoveInvoice, Pay, DaemonMoves, cacheVars, scanVars,
         scannerVars
  <2> QED BY <2>1, <2>2, <2>3, <2>4, <2>5, <2>6, <2>7, <2>8, QuietSteps DEF ScanStep
<1> QED
  BY <1>2, <1>3 DEF Clocks

(* Nothing is counted before the first scan.                               *)
LEMMA FirstScansKeep ==
    ASSUME ScannerInv, FirstScans, [ScannerNext]_scannerVars, Clean'
    PROVE  FirstScans'
<1>0. Course /\ restarts \in Nat
  BY DEF ScannerInv, StoreTypes
<1>1. /\ spc' \in {"off", "new", "ready"} => firstScan'
      /\ spc' \in {"update", "save"} => ~firstScan'
      /\ (restarts' = 0 /\ firstScan') => restarts = 0 /\ firstScan
  <2> USE <1>0 DEF FirstScans
  <2>1. CASE StartScanner \/ InitPool \/ FetchInitial \/ FinishNew
    BY <2>1 DEF StartScanner, InitPool, FetchInitial, FinishNew, scanVars
  <2>2. CASE RefreshTable \/ BeginScan \/ UpdateBlocks \/ BlocksUpdated \/ QueryPool \/ FetchPool
    BY <2>2 DEF RefreshTable, BeginScan, UpdateBlocks, BlocksUpdated, QueryPool, FetchPool, scanVars
  <2>3. CASE Scan \/ UpdateInvoices \/ SaveHeight \/ \E p \in pending : SaveInvoice(p)
    BY <2>3 DEF Scan, UpdateInvoices, SaveHeight, SaveInvoice
  <2>4. CASE (InitTooShort /\ BlockRpcFails) \/ Stop \/ Crash
    BY <2>4 DEF InitTooShort, BlockRpcFails, Stop, Crash, Forget, Course
  <2>5. CASE \/ NewInvoice
             \/ \E id \in DOMAIN invoices : RemoveInvoice(id)
             \/ \E tx \in Tx : Pay(tx)
             \/ DaemonMoves
             \/ UNCHANGED scannerVars
    <3>1. UNCHANGED <<spc, firstScan, restarts>>
      BY <2>5 DEF NewInvoice, DrawSubaddress, InsertInvoice, RemoveInvoice, Pay, DaemonMoves, scanVars, scannerVars
    <3> QED BY <3>1
  <2> QED
    BY <2>1, <2>2, <2>3, <2>4, <2>5, QuietSteps DEF ScanStep
<1> SUFFICES ASSUME restarts' = 0, firstScan', NEW id \in DOMAIN invoices'
             PROVE  invoices'[id].transfers = <<>>
  BY <1>1 DEF FirstScans
<1>2. \A i \in DOMAIN invoices : invoices[i].transfers = <<>>
  BY <1>1 DEF FirstScans
<1>3. CASE \E new \in drawn : InsertInvoice(new)
  <2> PICK new \in drawn : InsertInvoice(new)
    BY <1>3
  <2> DEFINE inv == NewInvoiceValue(Requested, Required, new.creation, ExpiresIn)
  <2>1. /\ inv.transfers = <<>>
        /\ DOMAIN invoices' = DOMAIN invoices \cup {new}
        /\ invoices'[new] = inv
        /\ \A i \in DOMAIN invoices : invoices'[i] = invoices[i]
    BY NewInvoiceType DEF ScannerInv
  <2> HIDE DEF inv
  <2> QED BY <1>2, <2>1
<1>4. CASE Inherited
  BY <1>2, <1>4 DEF Inherited
<1>5. ~\E p \in pending : SaveInvoice(p)
  BY <1>1 DEF FirstScans, SaveInvoice
<1> QED
  BY <1>3, <1>4, <1>5, WhoWrites
-----------------------------------------------------------------------------
(* An invoice that new_invoice has just stored: nobody has paid it yet.    *)
Fresh(id) ==
    /\ id \in InvoiceId
    /\ invoices'[id].transfers = <<>> /\ invoices'[id].current = 0
    /\ \A tx \in Owing' : SubOf[tx] # id.sub

(* Where a stored invoice comes from.                                      *)
LEMMA WhoWrote ==
    ASSUME ScannerInv, [ScannerNext]_scannerVars, NEW id \in DOMAIN invoices'
    PROVE  \/ id \in DOMAIN invoices /\ invoices'[id] = invoices[id]
           \/ NewInvoice /\ Fresh(id)
           \/ \E p \in pending : /\ SaveInvoice(p) /\ p.id = id
                                 /\ id \in DOMAIN invoices /\ invoices'[id] = p.invoice
<1>1. CASE \E p \in pending : SaveInvoice(p)
  <2> PICK p \in pending : SaveInvoice(p)
    BY <1>1
  <2>1. id \in DOMAIN invoices
        /\ (invoices'[id] = invoices[id] \/ (p.id = id /\ invoices'[id] = p.invoice))
    BY DEF SaveInvoice, Replace
  <2> QED BY <2>1
<1>2. CASE \E new \in drawn : InsertInvoice(new)
  <2> PICK new \in drawn : InsertInvoice(new)
    BY <1>2
  <2> DEFINE inv == NewInvoiceValue(Requested, Required, new.creation, ExpiresIn)
  <2>0. \A tx \in Owing' : SubOf[tx] # new.sub
    <3>1. UNCHANGED standing
      BY DEF InsertInvoice
    <3> QED BY <3>1 DEF ScannerInv, Dealings, Owing
  <2>1. /\ new \in InvoiceId
        /\ inv.transfers = <<>> /\ inv.current = 0
        /\ DOMAIN invoices' = DOMAIN invoices \cup {new}
        /\ invoices'[new] = inv
        /\ \A i \in DOMAIN invoices : invoices'[i] = invoices[i]
    BY NewInvoiceType DEF ScannerInv
  <2> HIDE DEF inv
  <2>2. CASE id \in DOMAIN invoices
    BY <2>1, <2>2
  <2>3. CASE id = new
    BY <1>2, <2>0, <2>1, <2>3 DEF Fresh, NewInvoice
  <2> QED BY <2>1, <2>2, <2>3
<1>3. CASE Inherited
  BY <1>3 DEF Inherited
<1> QED
  BY <1>1, <1>2, <1>3, WhoWrites

(* It covers every block.                                                  *)
LEMMA FreshCovers ==
    ASSUME NEW id, Fresh(id), NEW h, NEW keys, NEW exact, NEW txs \in SUBSET Tx
    PROVE  Holds(keys, Owing', exact, id, Counts(invoices'[id].transfers, h), h, txs)
<1> DEFINE ts == invoices'[id].transfers
           counts == Counts(ts, h)
           owed == Owing'
<1>1. ts = <<>> /\ \A tx \in txs \cap owed : SubOf[tx] # id.sub
  BY DEF Fresh
<1>2. ts \in Seq(TransferValue)
  BY <1>1
<1> HIDE DEF ts, owed
<1>3. \A a \in Amounts : counts[a] \in Nat /\ counts[a] = 0
  BY <1>1, <1>2, CountsType
<1>4. \A a \in Amounts : Cardinality(Due(keys, id, a, h, txs)) \in Nat
  <2> TAKE a \in Amounts
  <2>1. txs \in SUBSET txs
    OBVIOUS
  <2> QED BY <2>1, DueFinite
<1> HIDE DEF counts
<1>5. AtMostDue(keys, exact, id, counts, h, txs)
  BY <1>3, <1>4 DEF AtMostDue
<1>6. Holds(keys, owed, exact, id, counts, h, txs)
  BY <1>1, <1>5, HoldsUnowed
<1> QED
  BY <1>6 DEF counts, ts, owed

(* What an invoice covered and keeps, it still covers.                     *)
LEMMA KeptCovers ==
    ASSUME Shallow, ScannerInv, [ScannerNext]_scannerVars, Clean',
           NEW id \in DOMAIN invoices, invoices'[id] = invoices[id],
           NEW h, Buried(h), Covers(id, h, chain[h].txs)
    PROVE  Covers(id, h, chain[h].txs)'
<1>1. chain'[h] = chain[h] /\ chain[h].txs \in SUBSET Made
  BY ChainStep
<1> DEFINE counts == Counts(invoices[id].transfers, h)
           txs == chain[h].txs
<1>2. Holds(outputKeys, Owing, restarts = 0, id, counts, h, txs)
  BY DEF Covers
<1> HIDE DEF counts, txs
<1>3. Holds(outputKeys', Owing', restarts' = 0, id, counts, h, txs)
  BY <1>1, <1>2, CoversOn DEF txs
<1> QED
  BY <1>1, <1>3 DEF Covers, counts, txs

(* What a restart need not scan stays covered.                             *)
LEMMA StoredKeeps ==
    ASSUME Shallow, ScannerInv, TailIsCurrent, Clocks, StoredHolds, PendingHold,
           [ScannerNext]_scannerVars, Clean'
    PROVE  StoredHolds'
<1>0. /\ len \in Nat \ {0} /\ height \in Nat /\ CacheSize \in Nat \ {0}
      /\ storedHeight \in Nat \cup {-1} /\ storedHeight < len
  BY DEF ScannerInv, IInv, TypeOK, MonerodTypeOK, Resumes, NoHeight
<1>1. ASSUME NEW id \in DOMAIN invoices PROVE invoices[id].current \in Nat /\ invoices[id].current <= len
  BY DEF Clocks, ScannerInv, StoreTypes, InvoiceValue
<1>2. len' \in Nat /\ len' >= len
  BY ChainStep
<1> SUFFICES ASSUME NEW id \in DOMAIN invoices', NEW h \in 0..(len' - 1),
                    h + CacheSize <= storedHeight' \/ h + CacheSize <= invoices'[id].current
             PROVE  Covers(id, h, chain[h].txs)'
  BY DEF StoredHolds
<1>3. h \in Nat
  BY <1>2
<1>4. ASSUME id \in DOMAIN invoices, invoices'[id] = invoices[id],
             h + CacheSize <= storedHeight \/ h + CacheSize <= invoices[id].current
      PROVE  Covers(id, h, chain[h].txs)'
  <2>1. Buried(h)
    BY <1>0, <1>1, <1>3, <1>4 DEF Buried
  <2>2. h \in 0..(len - 1)
    BY <2>1 DEF Buried
  <2>3. Covers(id, h, chain[h].txs)
    BY <1>4, <2>2 DEF StoredHolds
  <2> QED BY <1>4, <2>1, <2>3, KeptCovers
<1>5. spc = "save" => bcpc = "idle" /\ storedHeight <= height /\ height < len
  BY CacheNotAhead DEF ScannerInv, Course, Resumes
<1>6. CASE SaveHeight
  <2>1. /\ spc = "save" /\ pending = {} /\ storedHeight' = height
        /\ id \in DOMAIN invoices /\ invoices'[id] = invoices[id]
    BY <1>6 DEF SaveHeight
  <2>2. CASE h + CacheSize <= height
    <3>1. h \in 0..height /\ h + CacheSize <= height + 1 /\ h + CacheSize <= len
      BY <1>0, <1>3, <1>5, <2>1, <2>2
    <3>2. Covers(id, h, View(h))
      BY <2>1, <3>1 DEF PendingHold
    <3>3. View(h) = chain[h].txs
      BY <1>5, <2>1, <3>1, ViewIsChain DEF ScannerInv
    <3>4. Buried(h)
      BY <1>0, <1>3, <3>1 DEF Buried
    <3> QED BY <2>1, <3>2, <3>3, <3>4, KeptCovers
  <2>3. CASE h + CacheSize <= invoices[id].current
    BY <1>4, <2>1, <2>3
  <2> QED BY <2>1, <2>2, <2>3
<1>7. ASSUME NEW p \in pending, SaveInvoice(p), p.id = id, invoices'[id] = p.invoice
      PROVE  Covers(id, h, chain[h].txs)'
  <2>1. spc = "save" /\ storedHeight' = storedHeight
    BY <1>7 DEF SaveInvoice
  <2>2. p.invoice.current = height + 1
    BY <2>1 DEF PendingHold
  <2>3. h \in 0..height /\ h + CacheSize <= height + 1 /\ h + CacheSize <= len
    BY <1>0, <1>3, <1>5, <1>7, <2>1, <2>2
  <2>4. Holds(outputKeys, Owing, restarts = 0, id, Counts(p.invoice.transfers, h), h, View(h))
    BY <1>7, <2>1, <2>3 DEF PendingHold
  <2>5. View(h) = chain[h].txs
    BY <1>5, <2>1, <2>3, ViewIsChain DEF ScannerInv
  <2>6. UNCHANGED <<chain, outputKeys, restarts, standing>>
    BY <1>7 DEF SaveInvoice, daemonVars, sideVars
  <2>7. Owing' = Owing
    BY <2>6 DEF Owing
  <2> QED BY <1>7, <2>4, <2>5, <2>6, <2>7 DEF Covers
<1>8. ASSUME Fresh(id) PROVE Covers(id, h, chain[h].txs)'
  <2>1. chain'[h].txs \in SUBSET Tx
    <3>1. chain' \in [0..(len' - 1) -> Block]
      BY CacheKeeps DEF IInv, TypeOK, MonerodTypeOK
    <3> QED BY <3>1 DEF Block
  <2> DEFINE txs == chain'[h].txs
             keys == outputKeys'
             exact == restarts' = 0
  <2>2. txs \in SUBSET Tx
    BY <2>1
  <2> HIDE DEF txs, keys, exact
  <2>3. Holds(keys, Owing', exact, id, Counts(invoices'[id].transfers, h), h, txs)
    BY <1>8, <2>2, FreshCovers
  <2> QED BY <2>3 DEF Covers, txs, keys, exact
<1>9. CASE storedHeight' = storedHeight
  BY <1>4, <1>7, <1>8, <1>9, WhoWrote
<1>10. SaveHeight \/ storedHeight' = storedHeight
  <2>1. ScanStep => SaveHeight \/ UNCHANGED storedHeight
    BY DEF ScanStep, StartScanner, InitPool, FetchInitial, FinishNew, RefreshTable, BeginScan, UpdateBlocks,
         BlocksUpdated, QueryPool, FetchPool, Scan, UpdateInvoices, SaveInvoice, storeVars
  <2>2. (\/ BlockRpcFails \/ Stop \/ Crash
         \/ NewInvoice
         \/ \E i \in DOMAIN invoices : RemoveInvoice(i)
         \/ \E tx \in Tx : Pay(tx)
         \/ DaemonMoves
         \/ UNCHANGED scannerVars) => UNCHANGED storedHeight
    BY DEF BlockRpcFails, Stop, Crash, Forget, NewInvoice, DrawSubaddress, InsertInvoice, RemoveInvoice, Pay, DaemonMoves,
         storeVars, scannerVars
  <2> QED BY <2>1, <2>2, QuietSteps
<1> QED
  BY <1>6, <1>9, <1>10
-----------------------------------------------------------------------------
(* No invoice is behind the lowest height of the invoices.                 *)
LEMMA LowestIsLow ==
    ASSUME StoreTypes, NEW id \in DOMAIN invoices
    PROVE  LowestInvoiceHeight <= invoices[id].current
<1> DEFINE T == {invoices[i].current : i \in DOMAIN invoices}
<1>1. T \subseteq Nat /\ T # {} /\ invoices[id].current \in T
  BY DEF StoreTypes, InvoiceValue
<1> HIDE DEF T
<1>2. \E x \in T : \A y \in T : x <= y
  BY <1>1, LeastNatural
<1>3. \A y \in T : Lowest(T) <= y
  BY <1>2 DEF Lowest
<1> QED
  BY <1>1, <1>3 DEF LowestInvoiceHeight, T

(* What lies under the window that Scanner::new starts with is covered.    *)
LEMMA StartCovered ==
    ASSUME ScannerInv, Clocks, FirstScans, StoredHolds, spc = "off",
           NEW id \in DOMAIN invoices, NEW h \in Nat, h <= StartHeight - CacheSize + 1
    PROVE  Covers(id, h, chain[h].txs)
<1>0. /\ len \in Nat \ {0} /\ CacheSize \in Nat \ {0}
      /\ storedHeight \in Nat \cup {-1} /\ storedHeight < len
      /\ invoices[id].current \in Nat /\ invoices[id].transfers \in Seq(TransferValue)
      /\ id.creation \in Nat /\ id.creation >= 1
  BY DEF ScannerInv, IInv, TypeOK, MonerodTypeOK, Resumes, NoHeight, StoreTypes, InvoiceValue,
       TransferValue, Clocks, InvoiceId
<1>1. LastHeight = IF storedHeight # -1 THEN storedHeight ELSE LowestInvoiceHeight
  BY DEF LastHeight, NoHeight
<1>2. LowestInvoiceHeight \in Nat /\ LowestInvoiceHeight <= invoices[id].current
  BY LowestIsHeight, LowestIsLow DEF ScannerInv
<1>3. LastHeight \in Nat /\ (LastHeight <= storedHeight \/ LastHeight <= invoices[id].current)
  BY <1>0, <1>1, <1>2
<1> DEFINE low == IF LastHeight < len THEN LastHeight ELSE len
<1>4. low \in Nat /\ low <= len /\ low <= LastHeight
  BY <1>0, <1>3
<1>5. StartHeight = (IF low > CacheSize THEN low ELSE CacheSize) - 1
  BY <1>3 DEF StartHeight, NoHeight
<1> HIDE DEF low
<1>6. CASE h = 0
  <2> DEFINE ts == invoices[id].transfers
             counts == Counts(ts, h)
             exact == restarts = 0
             owed == Owing
             txs == chain[h].txs
  <2>1. \A a \in Amounts : counts[a] \in Nat /\ (ts = <<>> => counts[a] = 0)
    BY <1>0, CountsType
  <2>2. exact => ts = <<>>
    BY DEF FirstScans
  <2> HIDE DEF ts, counts, exact, owed, txs
  <2>3. h < id.creation
    BY <1>0, <1>6
  <2>4. Holds(outputKeys, owed, exact, id, counts, h, txs)
    BY <1>0, <2>1, <2>2, <2>3, HoldsOld
  <2> QED BY <2>4 DEF Covers, ts, counts, exact, owed, txs
<1>7. CASE h # 0
  <2>1. h + CacheSize <= low
    BY <1>0, <1>4, <1>5, <1>7
  <2>2. h \in 0..(len - 1) /\ (h + CacheSize <= storedHeight \/ h + CacheSize <= invoices[id].current)
    BY <1>0, <1>3, <1>4, <2>1
  <2> QED BY <2>2 DEF StoredHolds
<1> QED
  BY <1>6, <1>7

(* The window only rises over what the first scan need not read.           *)
LEMMA TrunkSinks ==
    ASSUME ScannerInv, FirstScans, [ScannerNext]_scannerVars, Clean',
           ~StartScanner, spc' # "off", firstScan'
    PROVE  spc # "off" /\ firstScan /\ TrunkHeight' <= TrunkHeight
<1>0. Course /\ height \in Nat /\ CacheSize \in Nat
  BY DEF ScannerInv, IInv, TypeOK
<1> USE <1>0 DEF TrunkHeight
<1>1. CASE InitPool \/ FetchInitial \/ FinishNew
  <2>1. spc \in {"new", "ready"} /\ spc' \in {"new", "ready", "loop"} /\ height' = height
    BY <1>1 DEF InitPool, FetchInitial, FinishNew, InitFetch, InitDone, cacheVars, scanVars
  <2>2. firstScan
    BY <2>1 DEF FirstScans
  <2>3. TrunkHeight' = height - CacheSize + 1 /\ TrunkHeight = height - CacheSize + 1
    BY <2>1
  <2> QED BY <1>0, <2>1, <2>2, <2>3
<1>2. CASE RefreshTable
  <2>1. spc = "loop" /\ spc' = "begin" /\ height' = height /\ firstScan' = firstScan
    BY <1>2 DEF RefreshTable, cacheVars
  <2> QED BY <1>0, <2>1
<1>9. CASE BeginScan
  <2>1. spc = "begin" /\ spc' = "cache" /\ height' = height /\ firstScan' = firstScan /\ bcpc' \in {"next", "fix"}
    BY <1>9 DEF BeginScan, QueryHeight
  <2> QED BY <1>0, <2>1
<1>3. CASE UpdateBlocks
  <2>1. spc = "cache" /\ spc' = "cache" /\ firstScan' = firstScan
    BY <1>3 DEF UpdateBlocks, scanVars
  <2>2. CASE FetchNext
    BY <2>1, <2>2 DEF FetchNext, PushBlock
  <2>3. CASE FixKeep \/ FixRepair
    BY <2>1, <2>3 DEF FixKeep, FixRepair
  <2> QED BY <1>3, <2>2, <2>3 DEF UpdateBlocks
<1>4. CASE BlocksUpdated \/ QueryPool \/ FetchPool
  <2>1. /\ spc \in {"cache", "pool", "fetch"} /\ spc' \in {"pool", "fetch", "scan"}
        /\ bcpc # "next" /\ bcpc' # "next" /\ UNCHANGED <<height, firstScan>>
    BY <1>4 DEF BlocksUpdated, FixDone, QueryPool, FetchPool, cacheVars, Course
  <2>2. TrunkHeight' = height - CacheSize /\ TrunkHeight = height - CacheSize
    BY <2>1
  <2> QED BY <1>0, <2>1, <2>2
<1>5. ~(Scan \/ UpdateInvoices \/ SaveHeight \/ \E p \in pending : SaveInvoice(p))
  BY DEF Scan, UpdateInvoices, SaveHeight, SaveInvoice, FirstScans
<1>6. ~((InitTooShort /\ BlockRpcFails) \/ Stop \/ Crash)
  BY DEF InitTooShort, BlockRpcFails, Stop, Crash, Forget, Course
<1>7. CASE UNCHANGED <<spc, bcpc, height, firstScan>>
  BY <1>7
<1>8. (\/ NewInvoice
       \/ \E id \in DOMAIN invoices : RemoveInvoice(id)
       \/ \E tx \in Tx : Pay(tx)
       \/ DaemonMoves
       \/ UNCHANGED scannerVars) => UNCHANGED <<spc, bcpc, height, firstScan>>
  BY DEF NewInvoice, DrawSubaddress, InsertInvoice, RemoveInvoice, Pay, DaemonMoves, cacheVars, scanVars, scannerVars
<1> QED
  BY <1>1, <1>2, <1>3, <1>4, <1>5, <1>6, <1>7, <1>8, <1>9, QuietSteps DEF ScanStep

(* So that stays covered until the first scan.                             *)
LEMMA TrunkKeeps ==
    ASSUME Shallow, ScannerInv, Clocks, FirstScans, StoredHolds, TrunkHolds,
           [ScannerNext]_scannerVars, Clean'
    PROVE  TrunkHolds'
<1>0. len \in Nat \ {0} /\ height \in Nat /\ CacheSize \in Nat \ {0}
  BY DEF ScannerInv, IInv, TypeOK, MonerodTypeOK
<1> SUFFICES ASSUME spc' # "off", firstScan', NEW id \in DOMAIN invoices', NEW h \in 0..TrunkHeight'
             PROVE  Covers(id, h, chain[h].txs)'
  BY DEF TrunkHolds
<1>1. CASE StartScanner
  <2>1. TrunkHeight' = StartHeight - CacheSize + 1 /\ StartHeight \in Nat
    BY <1>1, StartIsInRange DEF StartScanner, StartInit, TrunkHeight, ScannerInv
  <2>2. h \in Nat /\ h <= StartHeight - CacheSize + 1
    BY <1>0, <2>1
  <2>3. UNCHANGED <<invoices, outputKeys, restarts, chain, standing>> /\ spc = "off"
    BY <1>1 DEF StartScanner, StartInit, storeVars, daemonVars, sideVars
  <2>4. Covers(id, h, chain[h].txs)
    BY <2>2, <2>3, StartCovered
  <2>5. Owing' = Owing
    BY <2>3 DEF Owing
  <2> QED BY <2>3, <2>4, <2>5 DEF Covers
<1>2. CASE ~StartScanner
  <2>1. spc # "off" /\ firstScan /\ TrunkHeight' <= TrunkHeight
    BY <1>2, TrunkSinks
  <2>2. TrunkHeight \in Int /\ TrunkHeight' \in Int /\ TrunkHeight <= height - CacheSize + 1
    <3>1. height' \in Nat
      BY CacheKeeps DEF IInv, TypeOK
    <3> QED BY <1>0, <3>1 DEF TrunkHeight
  <2>3. h \in Nat /\ h <= height - CacheSize + 1 /\ h \in 0..TrunkHeight
    BY <1>0, <2>1, <2>2
  <2>4. height < len \/ height = CacheSize - 1
    <3>1. bcpc \in {"init", "idle", "next", "fix", "done"}
      BY <2>1 DEF ScannerInv, Course, ScannerStages
    <3>2. CASE bcpc = "init"
      <4>1. spc \in {"new", "ready"}
        BY <2>1, <3>2 DEF ScannerInv, Course, ScannerStages
      <4> QED BY <4>1 DEF Clocks
    <3>3. CASE bcpc # "init"
      BY <3>1, <3>3, CacheNotAhead DEF ScannerInv
    <3> QED BY <3>2, <3>3
  <2>5. Buried(h)
    BY <1>0, <2>3, <2>4 DEF Buried
  <2>6. ASSUME id \in DOMAIN invoices, invoices'[id] = invoices[id]
        PROVE  Covers(id, h, chain[h].txs)'
    <3>1. Covers(id, h, chain[h].txs)
      BY <2>1, <2>3, <2>6 DEF TrunkHolds
    <3> QED BY <2>5, <2>6, <3>1, KeptCovers
  <2>7. ASSUME Fresh(id) PROVE Covers(id, h, chain[h].txs)'
    <3> DEFINE txs == chain'[h].txs
               keys == outputKeys'
               exact == restarts' = 0
    <3>1. txs \in SUBSET Tx
      BY <2>5, ChainStep DEF Made
    <3> HIDE DEF txs, keys, exact
    <3>2. Holds(keys, Owing', exact, id, Counts(invoices'[id].transfers, h), h, txs)
      BY <2>7, <3>1, FreshCovers
    <3> QED BY <3>2 DEF Covers, txs, keys, exact
  <2>8. ~\E p \in pending : SaveInvoice(p)
    BY <2>1 DEF SaveInvoice, FirstScans
  <2> QED BY <2>6, <2>7, <2>8, WhoWrote
<1> QED
  BY <1>1, <1>2
-----------------------------------------------------------------------------
(* The stages at which a later scan has been through once.                 *)
Scanning == spc \in {"loop", "begin", "cache", "pool", "fetch", "scan"}

(* The blocks that are settled after the step were so before, unchanged.   *)
StillSettled == \A h \in 0..SettledHeight' : h \in 0..SettledHeight /\ View(h)' = View(h)

(* Then they stay covered.                                                 *)
LEMMA SettledStays ==
    ASSUME ScannerInv, Clocks, WindowHolds, [ScannerNext]_scannerVars, Clean',
           Scanning, ~firstScan, StillSettled
    PROVE  WindowHolds'
<1>0. /\ height \in Nat /\ updated \in Nat /\ SettledHeight \in Int /\ SettledHeight <= height
      /\ \A h \in 0..height : View(h) \in SUBSET Made
  <2>1. bcpc \in {"idle", "next", "fix", "done"}
    BY DEF Scanning, ScannerInv, Course
  <2> QED BY <2>1, FullWindow, ViewMade DEF ScannerInv, SettledHeight
<1> SUFFICES ASSUME NEW id \in DOMAIN invoices', NEW h \in 0..SettledHeight'
             PROVE  Covers(id, h, View(h))'
  BY DEF WindowHolds
<1>1. h \in 0..SettledHeight /\ View(h)' = View(h)
  BY DEF StillSettled
<1>2. h \in Nat /\ h \in 0..height
  BY <1>0, <1>1
<1> DEFINE txs == View(h)
<1>3. txs \in SUBSET Made /\ txs \in SUBSET Tx /\ View(h)' = txs
  BY <1>0, <1>1, <1>2 DEF Made
<1>4. ASSUME id \in DOMAIN invoices, invoices'[id] = invoices[id] PROVE Covers(id, h, View(h))'
  <2>1. Covers(id, h, View(h))
    BY <1>1, <1>4 DEF WindowHolds, Scanning
  <2> DEFINE counts == Counts(invoices[id].transfers, h)
  <2>2. Holds(outputKeys, Owing, restarts = 0, id, counts, h, txs)
    BY <2>1 DEF Covers
  <2> HIDE DEF counts, txs
  <2>3. Holds(outputKeys', Owing', restarts' = 0, id, counts, h, txs)
    BY <1>3, <2>2, CoversOn
  <2> QED BY <1>3, <1>4, <2>3 DEF Covers, counts
<1>5. ASSUME Fresh(id) PROVE Covers(id, h, View(h))'
  <2> DEFINE keys == outputKeys'
             exact == restarts' = 0
  <2> HIDE DEF txs, keys, exact
  <2>1. Holds(keys, Owing', exact, id, Counts(invoices'[id].transfers, h), h, txs)
    BY <1>3, <1>5, FreshCovers
  <2> QED BY <1>3, <2>1 DEF Covers, keys, exact
<1>6. ~\E p \in pending : SaveInvoice(p)
  BY DEF SaveInvoice, Scanning
<1> QED
  BY <1>4, <1>5, <1>6, WhoWrote

(* The steps that leave the window as it is.                               *)
LEMMA SettledFrame ==
    ASSUME Shallow, ScannerInv, [ScannerNext]_scannerVars, Scanning,
           UNCHANGED <<height, blocks>>, SettledHeight' <= SettledHeight
    PROVE  StillSettled
<1>0. /\ height \in Nat /\ updated \in Nat /\ bcpc \in {"idle", "next", "fix", "done"}
      /\ SettledHeight \in Int /\ SettledHeight <= height /\ updated' \in Nat
  <2>1. bcpc \in {"idle", "next", "fix", "done"}
    BY DEF Scanning, ScannerInv, Course
  <2>2. updated' \in Nat
    BY CacheKeeps DEF IInv, TypeOK
  <2> QED BY <2>1, <2>2, FullWindow DEF ScannerInv, SettledHeight
<1>1. SettledHeight' \in Int
  BY <1>0 DEF SettledHeight
<1>2. ASSUME NEW h \in 0..SettledHeight' PROVE h \in 0..SettledHeight /\ h \in 0..height
  BY <1>0, <1>1
<1> QED
  BY <1>0, <1>2, ViewStays DEF StillSettled

(* A block that update pushes does not change what lies under it.          *)
LEMMA PushSettles ==
    ASSUME ScannerInv, TailIsCurrent, Clocks, spc = "cache", spc' = "cache", FetchNext
    PROVE  StillSettled
<1>0. /\ height \in Nat /\ CacheSize \in Nat \ {0} /\ CacheSize - 1 <= height
      /\ bcpc = "next" /\ updated = 0 /\ height' = height + 1 /\ updated' = 1 /\ chain' = chain
      /\ blocks' = [k \in 0..(CacheSize - 1) |->
                       IF k = 0 THEN chain[height + 1] ELSE blocks[k - 1]]
  <2>1. bcpc = "next"
    BY DEF FetchNext
  <2> QED BY <2>1, FullWindow DEF ScannerInv, Clocks, FetchNext, PushBlock, daemonVars
<1>1. SettledHeight' = height /\ SettledHeight = height
  BY <1>0 DEF SettledHeight
<1>2. ASSUME NEW h \in 0..height PROVE View(h)' = View(h)
  <2>1. View(h)' = IF h > (height + 1) - CacheSize THEN blocks'[(height + 1) - h].txs ELSE chain[h].txs
    BY <1>0 DEF View
  <2>2. CASE h > (height + 1) - CacheSize
    <3>1. (height + 1) - h \in 0..(CacheSize - 1) /\ (height + 1) - h # 0 /\ h > height - CacheSize
          /\ (height + 1) - h - 1 = height - h
      BY <1>0, <2>2
    <3>2. blocks'[(height + 1) - h] = blocks[height - h]
      BY <1>0, <3>1
    <3> QED BY <2>1, <2>2, <3>1, <3>2 DEF View
  <2>3. CASE ~(h > (height + 1) - CacheSize)
    <3>1. h + CacheSize <= height + 1
      BY <1>0, <2>3
    <3>2. View(h) = chain[h].txs
      BY <1>0, <3>1, ViewIsChain DEF ScannerInv
    <3> QED BY <2>1, <2>3, <3>2
  <2> QED BY <2>2, <2>3
<1> QED
  BY <1>1, <1>2 DEF StillSettled

(* A block that check_and_fix_reorg replaces will be scanned.              *)
LEMMA RepairSettles ==
    ASSUME ScannerInv, faults = 0, spc = "cache", spc' = "cache", FixRepair
    PROVE  StillSettled
<1>0. /\ height \in Nat /\ CacheSize \in Nat \ {0} /\ CacheSize - 1 <= height
      /\ bcpc = "fix" /\ height' = height /\ chain' = chain /\ cursor \in 0..(CacheSize - 2)
      /\ DOMAIN blocks = 0..(CacheSize - 1)
      /\ blocks' = [blocks EXCEPT ![cursor + 1] = chain[height - 1 - cursor]]
      /\ updated' = IF updated = 0 THEN 2 ELSE updated + 1
  <2>1. bcpc = "fix" /\ cursor < CacheSize - 1
    BY DEF FixRepair
  <2> QED BY <2>1, FullWindow DEF ScannerInv, FixRepair, Repair, daemonVars, IInv, TypeOK
<1>1. updated = cursor + 1
  <2>1. BreaksAreAdjacent /\ Broken(cursor)
    BY DEF ScannerInv, Reporting, FixRepair
  <2>2. cursor \in cursor..(CacheSize - 2)
    BY <1>0
  <2> QED BY <1>0, <2>1, <2>2 DEF BreaksAreAdjacent
<1>2. SettledHeight' = height - (cursor + 2) /\ SettledHeight = height - (cursor + 1)
  BY <1>0, <1>1 DEF SettledHeight
<1>3. ASSUME NEW h \in 0..(height - (cursor + 2)) PROVE h \in 0..SettledHeight /\ View(h)' = View(h)
  <2>1. h \in 0..SettledHeight /\ height - h # cursor + 1
    BY <1>0, <1>2
  <2>2. View(h)' = IF h > height - CacheSize THEN blocks'[height - h].txs ELSE chain[h].txs
    BY <1>0 DEF View
  <2>3. CASE h > height - CacheSize
    <3>1. height - h \in 0..(CacheSize - 1)
      BY <1>0, <2>3
    <3>2. blocks'[height - h] = blocks[height - h]
      BY <1>0, <2>1, <3>1
    <3> QED BY <2>1, <2>2, <2>3, <3>2 DEF View
  <2>4. CASE ~(h > height - CacheSize)
    BY <2>1, <2>2, <2>4 DEF View
  <2> QED BY <2>3, <2>4
<1> QED
  BY <1>2, <1>3 DEF StillSettled

(* The blocks that a later scan will not read stay covered.                *)
LEMMA WindowKeeps ==
    ASSUME Shallow, ScannerInv, TailIsCurrent, Clocks, FirstScans, WindowHolds, PendingHold,
           [ScannerNext]_scannerVars, Clean'
    PROVE  WindowHolds'
<1>0. /\ faults = 0 /\ Course /\ height \in Nat /\ updated \in Nat
  BY QuietSteps DEF ScannerInv, IInv, TypeOK, Clean
<1> SUFFICES ASSUME Scanning', ~firstScan' PROVE WindowHolds'
  BY DEF WindowHolds, Scanning
<1>1. CASE SaveHeight
  <2>1. /\ spc = "save" /\ pending = {} /\ spc' = "loop" /\ bcpc = "idle"
        /\ UNCHANGED <<height, blocks, chain, outputKeys, restarts, invoices, standing>>
    BY <1>0, <1>1 DEF SaveHeight, Course, cacheVars, daemonVars, sideVars
  <2>2. SettledHeight' = height
    BY <2>1 DEF SettledHeight
  <2>3. ASSUME NEW id \in DOMAIN invoices, NEW h \in 0..height PROVE Covers(id, h, View(h))
    BY <2>1, <2>3 DEF PendingHold
  <2> QED BY <2>1, <2>2, <2>3 DEF WindowHolds, Covers, View, Owing
<1>2. CASE Scanning /\ ~firstScan /\ UNCHANGED <<height, blocks>> /\ SettledHeight' <= SettledHeight
  BY <1>2, SettledFrame, SettledStays
<1>11. CASE RefreshTable
  <2>1. /\ Scanning /\ ~firstScan /\ UNCHANGED <<height, blocks>>
        /\ spc = "loop" /\ spc' = "begin"
    BY <1>11 DEF RefreshTable, Scanning, cacheVars
  <2>2. SettledHeight' = height /\ SettledHeight = height
    BY <1>0, <2>1 DEF SettledHeight
  <2> QED BY <1>0, <1>2, <2>1, <2>2
<1>3. CASE BeginScan
  <2>1. /\ Scanning /\ ~firstScan /\ UNCHANGED <<height, blocks>> /\ updated' = 0
        /\ spc = "begin" /\ spc' = "cache"
    BY <1>3 DEF BeginScan, QueryHeight, Scanning
  <2>2. SettledHeight' = height /\ SettledHeight = height
    BY <1>0, <2>1 DEF SettledHeight
  <2> QED BY <1>0, <1>2, <2>1, <2>2
<1>4. CASE UpdateBlocks
  <2>1. spc = "cache" /\ spc' = "cache" /\ Scanning /\ ~firstScan
    BY <1>4 DEF UpdateBlocks, Scanning, scanVars
  <2>2. CASE FetchNext
    BY <2>1, <2>2, PushSettles, SettledStays
  <2>3. CASE FixRepair
    BY <1>0, <2>1, <2>3, RepairSettles, SettledStays
  <2>4. CASE FixKeep
    <3>1. UNCHANGED <<height, blocks, updated>>
      BY <2>4 DEF FixKeep
    <3>2. SettledHeight' = SettledHeight /\ SettledHeight \in Int
      BY <1>0, <2>1, <3>1 DEF SettledHeight
    <3> QED BY <1>2, <2>1, <3>1, <3>2
  <2> QED BY <1>4, <2>2, <2>3, <2>4 DEF UpdateBlocks
<1>5. CASE BlocksUpdated \/ QueryPool \/ FetchPool
  <2>1. /\ spc \in {"cache", "pool", "fetch"} /\ spc' \in {"pool", "fetch", "scan"}
        /\ UNCHANGED <<height, blocks, updated, firstScan>>
    BY <1>5 DEF BlocksUpdated, FixDone, QueryPool, FetchPool, cacheVars
  <2>2. SettledHeight' = SettledHeight /\ SettledHeight \in Int /\ Scanning
    BY <1>0, <2>1 DEF SettledHeight, Scanning
  <2> QED BY <1>2, <2>1, <2>2
<1>6. CASE UNCHANGED <<height, blocks, updated, firstScan, spc>>
  <2>1. SettledHeight' = SettledHeight /\ SettledHeight \in Int /\ Scanning
    BY <1>0, <1>6 DEF SettledHeight, Scanning
  <2> QED BY <1>2, <1>6, <2>1
<1>7. (\/ NewInvoice
       \/ \E id \in DOMAIN invoices : RemoveInvoice(id)
       \/ \E tx \in Tx : Pay(tx)
       \/ DaemonMoves
       \/ UNCHANGED scannerVars) => UNCHANGED <<height, blocks, updated, firstScan, spc>>
  BY DEF NewInvoice, DrawSubaddress, InsertInvoice, RemoveInvoice, Pay, DaemonMoves, cacheVars, scanVars, scannerVars
<1>8. ~(StartScanner \/ InitPool \/ FetchInitial \/ FinishNew)
  BY DEF StartScanner, InitPool, FetchInitial, FinishNew, scanVars, Scanning
<1>9. ~(Scan \/ UpdateInvoices \/ \E p \in pending : SaveInvoice(p))
  BY DEF Scan, UpdateInvoices, SaveInvoice, Scanning
<1>10. ~((InitTooShort /\ BlockRpcFails) \/ Stop \/ Crash)
  BY <1>0 DEF InitTooShort, BlockRpcFails, Stop, Crash, Forget, Course, Scanning
<1> QED
  BY <1>1, <1>3, <1>4, <1>5, <1>6, <1>7, <1>8, <1>9, <1>10, <1>11, QuietSteps DEF ScanStep
-----------------------------------------------------------------------------
(* What a scan finds for an invoice in the block of height h: the payments *)
(* that it makes, if the scan reads that block, its table has the          *)
(* subaddress and an invoice uses it.                                      *)
LEMMA ScanCounts ==
    ASSUME ScannerInv, Scan, NEW id \in InvoiceId, NEW a \in Amounts, NEW h \in Nat
    PROVE  Newly(found', id, a, h)
             = IF height - h \in ScannedBlocks /\ id.sub \in table /\ Tracked(id.sub)
               THEN Cardinality(Due(outputKeys', id, a, h, blocks[height - h].txs))
               ELSE 0
<1> DEFINE K == ForSub(id.sub, id.creation - 1, {Transfer(a, h)})
           keys == outputKeys'
<1>0. /\ bcpc = "done" /\ id.creation \in Nat /\ discovered' \in SUBSET Tx
      /\ FoundInBlocks(keys) \in Seq(FoundValue) /\ FoundIn(discovered', NoHeight) \in Seq(FoundValue)
      /\ found' = FoundInBlocks(keys) \o FoundIn(discovered', NoHeight)
  BY ScanTypes DEF Scan, TakeResult, ScannerInv, StoreTypes, InvoiceId
<1>1. /\ ScannedBlocks \subseteq 0..(CacheSize - 1) /\ height \in Nat /\ height >= CacheSize - 1
      /\ \A k \in 0..(CacheSize - 1) : blocks[k].txs \in SUBSET Tx
  BY <1>0, ScannedRange DEF ScannerInv
<1>2. ASSUME NEW tx \in Tx, NEW g \in Nat \cup {NoHeight}
      PROVE  Item(tx, g) \in K <=> /\ g = h /\ h >= id.creation /\ SubOf[tx] = id.sub
                                   /\ AmountOf[tx] = a
  <2>1. Item(tx, g) \in FoundValue
    BY ItemType
  <2>2. Item(tx, g).sub = SubOf[tx] /\ Item(tx, g).transfer = Transfer(AmountOf[tx], g)
    BY DEF Item
  <2>3. Transfer(AmountOf[tx], g) = Transfer(a, h) <=> (AmountOf[tx] = a /\ g = h)
    BY DEF Transfer
  <2>4. NewerThan(Transfer(a, h), id.creation - 1) <=> h >= id.creation
    BY <1>0 DEF NewerThan, Transfer, NoHeight
  <2> QED BY <2>1, <2>2, <2>3, <2>4 DEF ForSub
<1> HIDE DEF K, keys
<1>3. OnlyAt(h, keys, K)
  <2> SUFFICES ASSUME NEW k \in ScannedBlocks, height - k # h,
                      NEW tx \in Owned(blocks[k].txs, keys)
               PROVE  Item(tx, height - k) \notin K
    BY DEF OnlyAt
  <2>1. tx \in Tx /\ height - k \in Nat
    BY <1>1 DEF Owned, Recognised
  <2> QED BY <1>2, <2>1
<1>4. Among(FoundInBlocks(keys), K)
        = IF height - h \in ScannedBlocks
          THEN Cardinality({tx \in Owned(blocks[height - h].txs, keys) : Item(tx, h) \in K})
          ELSE 0
  <2>1. IInv /\ h \in Int
    BY DEF ScannerInv
  <2> QED BY <1>0, <1>3, <2>1, BlocksFound
<1>5. Among(FoundIn(discovered', NoHeight), K) = 0
  <2> DEFINE D == discovered'
             g == NoHeight
  <2>1. D \in SUBSET Tx /\ h # g /\ g \in Nat \cup {NoHeight}
    BY <1>0 DEF NoHeight
  <2> HIDE DEF D, g
  <2>2. {tx \in D : Item(tx, g) \in K} = {}
    BY <1>2, <2>1
  <2>3. Among(FoundIn(D, g), K) = Cardinality({tx \in D : Item(tx, g) \in K})
    BY <2>1, AmongFoundIn
  <2>4. Among(FoundIn(D, g), K) = 0
    BY <2>2, <2>3, FS_EmptySet
  <2> QED BY <2>4 DEF D, g
<1>6. ASSUME height - h \in ScannedBlocks
      PROVE  Cardinality({tx \in Owned(blocks[height - h].txs, keys) : Item(tx, h) \in K})
               = IF id.sub \in table /\ Tracked(id.sub)
                 THEN Cardinality(Due(keys, id, a, h, blocks[height - h].txs)) ELSE 0
  <2>1. blocks[height - h].txs \in SUBSET Tx
    BY <1>1, <1>6
  <2> HIDE DEF Tracked
  <2>2. CASE id.sub \in table /\ Tracked(id.sub)
    <3>1. {tx \in Owned(blocks[height - h].txs, keys) : Item(tx, h) \in K}
            = Due(keys, id, a, h, blocks[height - h].txs)
      BY <1>2, <2>1, <2>2 DEF Owned, Recognised, Due
    <3> QED BY <2>2, <3>1
  <2>3. CASE ~(id.sub \in table /\ Tracked(id.sub))
    <3>1. {tx \in Owned(blocks[height - h].txs, keys) : Item(tx, h) \in K} = {}
      BY <1>2, <2>1, <2>3 DEF Owned, Recognised
    <3> QED BY <2>3, <3>1, FS_EmptySet
  <2> QED BY <2>2, <2>3
<1> DEFINE one == FoundInBlocks(keys)
           two == FoundIn(discovered', NoHeight)
<1> HIDE DEF one, two
<1>7. one \in Seq(FoundValue) /\ two \in Seq(FoundValue) /\ found' = one \o two
  BY <1>0 DEF one, two
<1>8. Among(found', K) = Among(one, K) + Among(two, K) /\ Among(one, K) \in Nat
  BY <1>7, AmongConcat, SpotsFinite
<1>9. Among(found', K) = Among(one, K)
  BY <1>5, <1>8 DEF two
<1> QED
  BY <1>4, <1>6, <1>9 DEF Newly, one, keys, K

(* The keys that a scan recognises in the blocks that it reads are recorded*)
(* by it.                                                                  *)
LEMMA ScanRecords ==
    ASSUME ScannerInv, Scan, NEW k \in ScannedBlocks, NEW tx \in blocks[k].txs, SubOf[tx] \in table
    PROVE  outputKeys'[KeyOf[tx]] # NoTx
<1>1. tx \in Tx /\ newTxs \subseteq Tx /\ \A j \in ScannedBlocks : blocks[j].txs \in SUBSET Tx
  <2>1. bcpc = "done"
    BY DEF Scan, TakeResult
  <2> QED BY <2>1, ScannedRange DEF ScannerInv, StoreTypes
<1>2. tx \in BlockTxs /\ BlockTxs \subseteq Tx
  BY <1>1 DEF BlockTxs
<1>3. KeyOf[tx] \in Key
  BY <1>1, ScannerAssumption DEF ScannerAssumption
<1>4. outputKeys'[KeyOf[tx]] \in KeyOwners(KeyOf[tx])
  BY <1>3, ScanTypes DEF ScannerInv
<1> QED
  BY <1>1, <1>2, <1>4, ScannerAssumption DEF KeyOwners, Recognised, ScannerAssumption

(* After a scan the totals cover all blocks.                               *)
LEMMA ScanTotals ==
    ASSUME ScannerInv, Scan, FirstScans, TrunkHolds, WindowHolds,
           [ScannerNext]_scannerVars, Clean',
           NEW id \in DOMAIN invoices, NEW h \in 0..height
    PROVE  Holds(outputKeys', Owing', restarts' = 0, id,
                 Totals(found', DeepestUpdate, id, invoices[id].transfers, h), h, View(h))
<1> DEFINE ts == invoices[id].transfers
           deep == DeepestUpdate
           list == found'
           keys == outputKeys'
           exact == restarts' = 0
           owed == Owing'
           totals == Totals(list, deep, id, ts, h)
           txs == View(h)
<1>0. /\ height \in Nat /\ updated \in 0..CacheSize /\ CacheSize \in Nat \ {0} /\ h \in Nat
      /\ ScannedBlocks = 0..(ScannedCount - 1) /\ height >= CacheSize - 1
      /\ bcpc = "done" /\ spc = "scan" /\ txs \in SUBSET Tx /\ txs \in SUBSET Made
  <2>1. bcpc = "done" /\ spc = "scan"
    BY DEF Scan, TakeResult
  <2> QED BY <2>1, ScannedRange, FullWindow, ViewMade DEF ScannerInv
<1>1. /\ ts \in Seq(TransferValue) /\ list \in Seq(FoundValue) /\ deep = height - updated + 1
      /\ deep \in Int
  <2>1. list \in Seq(FoundValue)
    BY ScanTypes DEF ScannerInv
  <2>2. ts \in Seq(TransferValue)
    BY DEF ScannerInv, StoreTypes, InvoiceValue, TransferValue
  <2>3. deep = height - updated + 1 /\ deep \in Int
    BY <1>0 DEF DeepestUpdate
  <2> QED BY <2>1, <2>2, <2>3
<1>2. height - h \in ScannedBlocks <=> h > height - ScannedCount
  BY <1>0 DEF ScannedCount
<1>3. firstScan => /\ h <= height - CacheSize => Covers(id, h, View(h))
                   /\ exact => ts = <<>>
  <2>1. ASSUME firstScan, h <= height - CacheSize PROVE Covers(id, h, View(h))
    <3>1. h \in 0..TrunkHeight
      BY <1>0, <2>1 DEF TrunkHeight
    <3>2. View(h) = chain[h].txs
      BY <1>0, <2>1 DEF View
    <3> QED BY <1>0, <2>1, <3>1, <3>2 DEF TrunkHolds
  <2> QED BY <2>1, KeysStay DEF FirstScans
<1>4. (~firstScan /\ h <= height - updated) => Covers(id, h, View(h))
  <2>1. (h <= height - updated) => h \in 0..SettledHeight
    BY <1>0 DEF SettledHeight
  <2> QED BY <1>0, <2>1 DEF WindowHolds
<1>5. ScannedCount = IF firstScan THEN CacheSize ELSE updated
  BY DEF ScannedCount
<1> DEFINE due(a) == Cardinality(Due(keys, id, a, h, txs))
           new(a) == Newly(list, id, a, h)
<1>6. ASSUME NEW a \in Amounts
      PROVE  /\ new(a) \in Nat /\ totals[a] \in Nat
             /\ totals[a] = (IF h < deep THEN Counts(ts, h)[a] ELSE 0) + new(a)
             /\ Counts(ts, h)[a] \in Nat /\ (ts = <<>> => Counts(ts, h)[a] = 0)
  <2> HIDE DEF ts, list, deep
  <2>1. /\ new(a) \in Nat /\ totals[a] \in Nat
        /\ totals[a] = (IF h < deep THEN Counts(ts, h)[a] ELSE 0) + new(a)
    <3>1. /\ h \in Nat /\ deep \in Int /\ ts \in Seq(TransferValue) /\ list \in Seq(FoundValue)
      BY <1>0, <1>1
    <3> QED BY <3>1, TotalsSplit
  <2>2. Counts(ts, h)[a] \in Nat /\ (ts = <<>> => Counts(ts, h)[a] = 0)
    BY <1>1, CountsType
  <2> QED BY <2>1, <2>2
<1>7. CASE h > height - ScannedCount
  <2>1. height - h \in ScannedBlocks
    BY <1>2, <1>7
  <2>2. View(h) = blocks[height - h].txs
    BY <1>0, <1>5, <1>7 DEF View
  <2>3. id \in InvoiceId /\ Tracked(id.sub)
    BY DEF Tracked, ScannerInv, StoreTypes
  <2>4. ASSUME NEW a \in Amounts PROVE new(a) = IF id.sub \in table THEN due(a) ELSE 0
    BY <1>0, <2>1, <2>2, <2>3, ScanCounts
  <2>5. h < deep /\ exact => ts = <<>>
    BY <1>0, <1>1, <1>3, <1>5, <1>7
  <2>6. CASE id.sub \in table
    <3>1. \A tx \in txs : SubOf[tx] = id.sub => keys[KeyOf[tx]] # NoTx
      BY <2>1, <2>2, <2>6, ScanRecords
    <3>2. txs \cap owed \in SUBSET txs
      OBVIOUS
    <3> HIDE DEF ts, deep, list, keys, owed, exact, totals, txs, new, due
    <3>3. ASSUME NEW a \in Amounts
          PROVE  /\ totals[a] >= Cardinality(Due(keys, id, a, h, txs \cap owed))
                 /\ exact => totals[a] <= due(a)
      <4>1. /\ due(a) \in Nat /\ Cardinality(Due(keys, id, a, h, txs \cap owed)) \in Nat
            /\ Cardinality(Due(keys, id, a, h, txs \cap owed)) <= due(a)
        BY <1>0, <3>2, DueFinite DEF due
      <4>2. new(a) = due(a)
        BY <2>4, <2>6
      <4>3. totals[a] = (IF h < deep THEN Counts(ts, h)[a] ELSE 0) + new(a)
            /\ Counts(ts, h)[a] \in Nat /\ (ts = <<>> => Counts(ts, h)[a] = 0)
        BY <1>6
      <4> QED BY <2>5, <4>1, <4>2, <4>3
    <3>4. Holds(keys, owed, exact, id, totals, h, txs)
      BY <1>6, <3>1, <3>3 DEF Holds, due
    <3> QED BY <3>4 DEF ts, deep, list, keys, owed, exact, totals, txs
  <2>7. CASE id.sub \notin table
    <3>1. \A tx \in txs \cap owed : SubOf[tx] # id.sub
      <4>1. ~\E tx \in BlockTxs : standing[tx] = "due" /\ SubOf[tx] \notin table
        BY DEF Scan, Clean
      <4>2. txs \subseteq BlockTxs
        BY <2>1, <2>2 DEF BlockTxs
      <4>3. owed = Owing
        BY DEF Scan, Owing
      <4> QED BY <2>7, <4>1, <4>2, <4>3 DEF Owing
    <3>2. txs \in SUBSET txs
      OBVIOUS
    <3> HIDE DEF ts, deep, list, keys, owed, exact, totals, txs, new, due
    <3>3. ASSUME NEW a \in Amounts PROVE exact => totals[a] <= due(a)
      <4>1. due(a) \in Nat
        BY <1>0, <3>2, DueFinite DEF due
      <4>2. new(a) = 0
        BY <2>4, <2>7
      <4>3. totals[a] = (IF h < deep THEN Counts(ts, h)[a] ELSE 0) + new(a)
            /\ Counts(ts, h)[a] \in Nat /\ (ts = <<>> => Counts(ts, h)[a] = 0)
        BY <1>6
      <4> QED BY <2>5, <4>1, <4>2, <4>3
    <3>4. AtMostDue(keys, exact, id, totals, h, txs)
      BY <1>6, <3>3 DEF AtMostDue, due
    <3>5. Holds(keys, owed, exact, id, totals, h, txs)
      BY <1>0, <3>1, <3>4, HoldsUnowed
    <3> QED BY <3>5 DEF ts, deep, list, keys, owed, exact, totals, txs
  <2> QED BY <2>6, <2>7
<1>8. CASE h <= height - ScannedCount
  <2>1. Covers(id, h, txs) /\ h < deep
    BY <1>0, <1>1, <1>3, <1>4, <1>5, <1>8
  <2>2. height - h \notin ScannedBlocks
    BY <1>0, <1>2, <1>5, <1>8
  <2>3. ASSUME NEW a \in Amounts PROVE new(a) = 0
    <3>1. id \in InvoiceId
      BY DEF ScannerInv, StoreTypes
    <3> QED BY <1>0, <2>2, <3>1, ScanCounts
  <2> DEFINE counts == Counts(ts, h)
  <2>4. Holds(outputKeys, Owing, restarts = 0, id, counts, h, txs)
    BY <2>1 DEF Covers
  <2> HIDE DEF ts, deep, list, keys, owed, exact, totals, txs, new, due, counts
  <2>5. Holds(keys, owed, exact, id, counts, h, txs)
    BY <1>0, <2>4, CoversOn DEF keys, owed, exact
  <2>6. ASSUME NEW a \in Amounts PROVE totals[a] = counts[a]
    BY <1>6, <2>1, <2>3 DEF counts
  <2>7. Holds(keys, owed, exact, id, totals, h, txs)
    BY <2>5, <2>6 DEF Holds
  <2> QED BY <2>7 DEF ts, deep, list, keys, owed, exact, totals, txs
<1> QED
  BY <1>0, <1>5, <1>7, <1>8

(* The steps between the scan and the end of the writing.                  *)
Writing == spc \in {"update", "save"} /\ UNCHANGED <<spc, height, blocks, found, updated>>

(* Until then, what covers a block as the scanner knows it goes on to.     *)
LEMMA SeenCovers ==
    ASSUME Shallow, ScannerInv, [ScannerNext]_scannerVars, Clean', Writing,
           NEW id, NEW counts, NEW h \in 0..height,
           Holds(outputKeys, Owing, restarts = 0, id, counts, h, View(h))
    PROVE  Holds(outputKeys', Owing', restarts' = 0, id, counts, h, View(h)')
<1>1. bcpc \in {"idle", "next", "fix", "done"}
  BY DEF Writing, ScannerInv, Course
<1> DEFINE txs == View(h)
<1>2. txs \in SUBSET Made /\ View(h)' = txs
  BY <1>1, ViewMade, ViewStays DEF Writing
<1> HIDE DEF txs
<1>3. Holds(outputKeys', Owing', restarts' = 0, id, counts, h, txs)
  BY <1>2, CoversOn DEF txs
<1> QED
  BY <1>2, <1>3

(* The steps that come after a scan, and those of others.                  *)
LEMMA WritingSteps ==
    ASSUME ScannerInv, [ScannerNext]_scannerVars, Clean', spc' \in {"update", "save"}
    PROVE  \/ Scan /\ spc' = "update"
           \/ UpdateInvoices /\ spc' = "save"
           \/ Writing /\ (UNCHANGED pending \/ \E p \in pending : SaveInvoice(p))
<1>0. Course
  BY DEF ScannerInv
<1>1. ScanStep => Scan \/ UpdateInvoices \/ \E p \in pending : SaveInvoice(p)
  BY DEF ScanStep, StartScanner, InitPool, FetchInitial, FinishNew, RefreshTable, BeginScan, UpdateBlocks,
       BlocksUpdated, QueryPool, FetchPool, SaveHeight, scanVars
<1>2. ~((InitTooShort /\ BlockRpcFails) \/ Stop \/ Crash)
  BY <1>0 DEF InitTooShort, BlockRpcFails, Stop, Crash, Forget, Course
<1>3. (\E p \in pending : SaveInvoice(p)) => Writing
  BY DEF SaveInvoice, Writing, cacheVars
<1>4. (\/ NewInvoice
       \/ \E id \in DOMAIN invoices : RemoveInvoice(id)
       \/ \E tx \in Tx : Pay(tx)
       \/ DaemonMoves
       \/ UNCHANGED scannerVars) => Writing /\ UNCHANGED pending
  BY DEF NewInvoice, DrawSubaddress, InsertInvoice, RemoveInvoice, Pay, DaemonMoves, Writing, cacheVars, scanVars, scannerVars
<1>5. Scan \/ UpdateInvoices => (Scan /\ spc' = "update") \/ (UpdateInvoices /\ spc' = "save")
  BY DEF Scan, UpdateInvoices
<1> QED
  BY <1>1, <1>2, <1>3, <1>4, <1>5, QuietSteps

(* Until update_invoices runs, no more is found than the blocks pay.       *)
LEMMA FoundKeeps ==
    ASSUME Shallow, ScannerInv, FoundBounded, [ScannerNext]_scannerVars, Clean'
    PROVE  FoundBounded'
<1>0. height \in Nat
  BY DEF ScannerInv, IInv, TypeOK
<1> SUFFICES ASSUME spc' = "update", NEW id \in InvoiceId, NEW a \in Amounts, NEW h \in 0..height'
             PROVE  Newly(found', id, a, h) <= Cardinality(Due(outputKeys', id, a, h, View(h)'))
  BY DEF FoundBounded
<1> DEFINE keys == outputKeys'
           txs == View(h)
<1>1. CASE Scan
  <2>1. UNCHANGED <<height, blocks, chain>> /\ bcpc = "done"
    BY <1>1 DEF Scan, TakeResult, daemonVars
  <2>2. View(h)' = txs /\ h \in 0..height /\ h \in Nat
    BY <1>0, <2>1 DEF View
  <2>3. txs \in SUBSET Tx /\ txs \in SUBSET txs
    BY <2>1, <2>2, FullWindow DEF ScannerInv
  <2>4. height - h \in ScannedBlocks => txs = blocks[height - h].txs
    <3>1. ScannedBlocks \subseteq 0..(CacheSize - 1)
      BY <2>1, ScannedRange DEF ScannerInv
    <3> QED BY <1>0, <2>2, <3>1 DEF View
  <2>5. \/ Newly(found', id, a, h) = 0
        \/ Newly(found', id, a, h) = Cardinality(Due(keys, id, a, h, txs))
    BY <1>1, <2>2, <2>4, ScanCounts
  <2> HIDE DEF keys, txs
  <2>6. Cardinality(Due(keys, id, a, h, txs)) \in Nat
    BY <2>3, DueFinite
  <2>7. Newly(found', id, a, h) <= Cardinality(Due(keys, id, a, h, txs))
    BY <2>5, <2>6
  <2> QED BY <2>2, <2>7 DEF keys
<1>2. CASE Writing
  <2>1. spc = "update" /\ h \in 0..height /\ found' = found /\ bcpc \in {"idle", "next", "fix", "done"}
    BY <1>2 DEF Writing, ScannerInv, Course
  <2>2. View(h)' = txs
    BY <1>2, <2>1, ViewStays DEF Writing
  <2>3. txs \in SUBSET Tx /\ txs \in SUBSET txs
    BY <2>1, FullWindow DEF ScannerInv
  <2>4. Newly(found, id, a, h) <= Cardinality(Due(outputKeys, id, a, h, txs))
    BY <2>1 DEF FoundBounded
  <2>5. Extends(outputKeys, keys) /\ outputKeys \in [Key -> Tx \cup {NoTx}]
    BY KeysStay
  <2>6. Newly(found, id, a, h) \in Nat
    <3>1. found \in Seq(FoundValue)
      BY DEF ScannerInv, StoreTypes
    <3> QED BY <3>1, SpotsFinite DEF Newly
  <2> HIDE DEF keys, txs
  <2>7. /\ Cardinality(Due(outputKeys, id, a, h, txs)) <= Cardinality(Due(keys, id, a, h, txs))
        /\ Cardinality(Due(outputKeys, id, a, h, txs)) \in Nat
        /\ Cardinality(Due(keys, id, a, h, txs)) \in Nat
    BY <2>3, <2>5, DueGrows, DueFinite
  <2>8. Newly(found, id, a, h) <= Cardinality(Due(keys, id, a, h, txs))
    BY <2>4, <2>6, <2>7
  <2> QED BY <2>1, <2>2, <2>8 DEF keys
<1>3. ~UpdateInvoices
  BY DEF UpdateInvoices
<1> QED
  BY <1>1, <1>2, <1>3, WritingSteps

(* Until update_invoices runs, the totals cover all blocks.                *)
LEMMA TotalsKeep ==
    ASSUME Shallow, ScannerInv, Clocks, FirstScans, TrunkHolds, WindowHolds, TotalsHold,
           FoundBounded', [ScannerNext]_scannerVars, Clean'
    PROVE  TotalsHold'
<1>0. height \in Nat /\ updated \in Nat /\ found \in Seq(FoundValue) /\ DeepestUpdate \in Int
  BY DEF ScannerInv, IInv, TypeOK, StoreTypes, DeepestUpdate
<1> SUFFICES ASSUME spc' = "update", NEW id \in DOMAIN invoices', NEW h \in 0..height'
             PROVE  Holds(outputKeys', Owing', restarts' = 0, id,
                          Totals(found', DeepestUpdate', id, invoices'[id].transfers, h), h, View(h)')
  BY DEF TotalsHold
<1>1. CASE Scan
  <2>1. UNCHANGED <<invoices, height, updated, blocks, chain>>
    BY <1>1 DEF Scan, TakeResult, daemonVars
  <2>2. DeepestUpdate' = DeepestUpdate /\ View(h)' = View(h)
    BY <2>1 DEF DeepestUpdate, View
  <2>3. id \in DOMAIN invoices /\ h \in 0..height
    BY <2>1
  <2>4. Holds(outputKeys', Owing', restarts' = 0, id,
              Totals(found', DeepestUpdate, id, invoices[id].transfers, h), h, View(h))
    BY <1>1, <2>3, ScanTotals
  <2> QED BY <2>1, <2>2, <2>4
<1>2. CASE Writing
  <2>1. /\ spc = "update" /\ height' = height /\ found' = found /\ DeepestUpdate' = DeepestUpdate
        /\ h \in 0..height /\ h \in Nat
    BY <1>0, <1>2 DEF Writing, DeepestUpdate
  <2>2. ASSUME id \in DOMAIN invoices, invoices'[id] = invoices[id]
        PROVE  Holds(outputKeys', Owing', restarts' = 0, id,
                     Totals(found', DeepestUpdate', id, invoices'[id].transfers, h), h, View(h)')
    <3> DEFINE counts == Totals(found, DeepestUpdate, id, invoices[id].transfers, h)
    <3>1. Holds(outputKeys, Owing, restarts = 0, id, counts, h, View(h))
      BY <2>1, <2>2 DEF TotalsHold
    <3> HIDE DEF counts
    <3>2. Holds(outputKeys', Owing', restarts' = 0, id, counts, h, View(h)')
      BY <1>2, <2>1, <3>1, SeenCovers
    <3> QED BY <2>1, <2>2, <3>2 DEF counts
  <2>3. ASSUME Fresh(id)
        PROVE  Holds(outputKeys', Owing', restarts' = 0, id,
                     Totals(found', DeepestUpdate', id, invoices'[id].transfers, h), h, View(h)')
    <3> DEFINE ts == invoices'[id].transfers
               deep == DeepestUpdate
               list == found
               totals == Totals(list, deep, id, ts, h)
               keys == outputKeys'
               exact == restarts' = 0
               owed == Owing'
               txs == View(h)'
    <3>1. txs \in SUBSET Tx
      <4>1. bcpc \in {"idle", "next", "fix", "done"}
        BY <1>2 DEF Writing, ScannerInv, Course
      <4> QED BY <1>2, <2>1, <4>1, FullWindow, ViewStays DEF ScannerInv, Writing
    <3>2. \A a \in Amounts : Newly(list, id, a, h) <= Cardinality(Due(keys, id, a, h, txs))
      BY <2>1, <2>3 DEF FoundBounded, Fresh
    <3>3. ts = <<>> /\ \A tx \in txs \cap owed : SubOf[tx] # id.sub
      BY <2>3 DEF Fresh
    <3>4. ts \in Seq(TransferValue) /\ deep \in Int /\ list \in Seq(FoundValue)
      BY <1>0, <3>3
    <3> HIDE DEF ts, deep, list, keys, owed, exact, txs
    <3>5. ASSUME NEW a \in Amounts
          PROVE  totals[a] \in Nat /\ totals[a] <= Cardinality(Due(keys, id, a, h, txs))
      <4>1. Newly(list, id, a, h) <= Cardinality(Due(keys, id, a, h, txs))
        BY <3>2
      <4>2. /\ totals[a] = (IF h < deep THEN Counts(ts, h)[a] ELSE 0) + Newly(list, id, a, h)
            /\ totals[a] \in Nat /\ Newly(list, id, a, h) \in Nat
        BY <2>1, <3>4, TotalsSplit
      <4>3. Counts(ts, h)[a] = 0
        BY <3>3, <3>4, CountsType
      <4>4. totals[a] = Newly(list, id, a, h)
        BY <4>2, <4>3
      <4> QED BY <4>1, <4>2, <4>4
    <3> HIDE DEF totals
    <3>6. AtMostDue(keys, exact, id, totals, h, txs)
      BY <3>5 DEF AtMostDue
    <3>7. Holds(keys, owed, exact, id, totals, h, txs)
      BY <3>1, <3>3, <3>6, HoldsUnowed
    <3> QED BY <2>1, <3>7 DEF ts, deep, list, totals, keys, owed, exact, txs
  <2>4. ~\E p \in pending : SaveInvoice(p)
    BY <2>1 DEF SaveInvoice
  <2> QED BY <2>2, <2>3, <2>4, WhoWrote
<1>3. ~UpdateInvoices
  BY DEF UpdateInvoices
<1> QED
  BY <1>1, <1>2, <1>3, WritingSteps

(* What update_invoices prepares covers all blocks.                        *)
LEMMA UpdatesCover ==
    ASSUME ScannerInv, TotalsHold, UpdateInvoices
    PROVE  PendingHold'
<1>0. /\ height \in Nat /\ found \in Seq(FoundValue) /\ spc = "update"
      /\ UNCHANGED <<height, blocks, chain, outputKeys, restarts, invoices, standing>>
  BY DEF UpdateInvoices, cacheVars, daemonVars, storeVars, sideVars, ScannerInv, IInv, TypeOK, StoreTypes
<1>1. Owing' = Owing /\ \A h : View(h)' = View(h)
  BY <1>0 DEF View, Owing
<1>2. ASSUME NEW id \in DOMAIN invoices, NEW h \in 0..height
      PROVE  /\ UpdateInvoice(id, invoices[id]) \in InvoiceValue
             /\ invoices[id] \in InvoiceValue
             /\ UpdateInvoice(id, invoices[id]).current = height + 1
             /\ Holds(outputKeys, Owing, restarts = 0, id,
                      Counts(UpdateInvoice(id, invoices[id]).transfers, h), h, View(h))
  <2> DEFINE old == invoices[id]
  <2>1. old \in InvoiceValue
    BY DEF ScannerInv, StoreTypes
  <2>2. Holds(outputKeys, Owing, restarts = 0, id,
              Totals(found, DeepestUpdate, id, old.transfers, h), h, View(h))
    BY <1>0 DEF TotalsHold
  <2> HIDE DEF old
  <2>3. UpdateInvoice(id, old) \in InvoiceValue /\ UpdateInvoice(id, old).current = height + 1
    BY <1>0, <2>1, UpdateType
  <2>4. Counts(UpdateInvoice(id, old).transfers, h) = Totals(found, DeepestUpdate, id, old.transfers, h)
    BY <1>0, <2>1, TotalsAfter
  <2> QED BY <2>1, <2>2, <2>3, <2>4 DEF old
<1>3. ASSUME NEW p \in pending'
      PROVE  /\ p.invoice.current = height + 1
             /\ \A h \in 0..height : Holds(outputKeys, Owing, restarts = 0, p.id,
                                           Counts(p.invoice.transfers, h), h, View(h))
  <2>1. PICK id \in DOMAIN invoices :
           p = [id |-> id, invoice |-> Recalculate(UpdateInvoice(id, invoices[id]))]
    BY DEF UpdateInvoices
  <2> DEFINE new == UpdateInvoice(id, invoices[id])
  <2>2. p.id = id /\ p.invoice = Recalculate(new)
    BY <2>1
  <2>3. 0 \in 0..height
    BY <1>0
  <2>4. new \in InvoiceValue /\ new.current = height + 1
    BY <1>2, <2>3
  <2>5. \A h \in 0..height : Holds(outputKeys, Owing, restarts = 0, id, Counts(new.transfers, h), h, View(h))
    BY <1>2
  <2> HIDE DEF new
  <2>6. Recalculate(new).transfers = new.transfers /\ Recalculate(new).current = new.current
    BY <2>4, RecalculateType DEF Recounted
  <2> QED BY <2>2, <2>4, <2>5, <2>6
<1>4. ASSUME NEW id \in DOMAIN invoices
      PROVE  \/ \E p \in pending' : p.id = id
             \/ \A h \in 0..height : Covers(id, h, View(h))
  <2> DEFINE old == invoices[id]
             new == UpdateInvoice(id, old)
  <2>1. CASE SameInvoice(new, old)
    <3>1. ASSUME NEW h \in 0..height PROVE Covers(id, h, View(h))
      <4>1. /\ new \in InvoiceValue /\ old \in InvoiceValue
            /\ Holds(outputKeys, Owing, restarts = 0, id, Counts(new.transfers, h), h, View(h))
        BY <1>2
      <4> HIDE DEF new, old
      <4>2. Counts(new.transfers, h) = Counts(old.transfers, h)
        BY <2>1, <4>1, SameCounts
      <4> QED BY <4>1, <4>2 DEF Covers, old
    <3> QED BY <3>1
  <2>2. CASE ~SameInvoice(new, old)
    <3> DEFINE p == [id |-> id, invoice |-> Recalculate(new)]
    <3>1. p \in pending'
      BY <2>2 DEF UpdateInvoices
    <3>2. p.id = id
      OBVIOUS
    <3> QED BY <3>1, <3>2
  <2> QED BY <2>1, <2>2
<1> QED
  BY <1>0, <1>1, <1>3, <1>4 DEF PendingHold, Covers

(* Until the last is saved, every invoice covers all blocks or will.       *)
LEMMA PendingKeeps ==
    ASSUME Shallow, ScannerInv, Clocks, TotalsHold, PendingHold, [ScannerNext]_scannerVars, Clean'
    PROVE  PendingHold'
<1>0. height \in Nat
  BY DEF ScannerInv, IInv, TypeOK
<1>1. CASE UpdateInvoices
  BY <1>1, UpdatesCover
<1>2. CASE spc' = "save" /\ Writing /\ (UNCHANGED pending \/ \E p \in pending : SaveInvoice(p))
  <2>1. spc = "save" /\ height' = height /\ Writing /\ pending' \subseteq pending
    BY <1>2 DEF Writing, SaveInvoice
  <2>2. ASSUME NEW p \in pending, NEW h \in 0..height
        PROVE  Holds(outputKeys', Owing', restarts' = 0, p.id, Counts(p.invoice.transfers, h), h, View(h)')
    <3> DEFINE id == p.id
               counts == Counts(p.invoice.transfers, h)
    <3>1. Holds(outputKeys, Owing, restarts = 0, id, counts, h, View(h))
      BY <2>1 DEF PendingHold
    <3> HIDE DEF id, counts
    <3>2. Holds(outputKeys', Owing', restarts' = 0, id, counts, h, View(h)')
      BY <2>1, <3>1, SeenCovers
    <3> QED BY <3>2 DEF id, counts
  <2>3. \A p \in pending : p.invoice.current = height + 1
    BY <2>1 DEF PendingHold
  <2>4. ASSUME NEW id \in DOMAIN invoices'
        PROVE  \/ \E p \in pending' : p.id = id
               \/ \A h \in 0..height : Covers(id, h, View(h))'
    <3>1. ASSUME id \in DOMAIN invoices, invoices'[id] = invoices[id]
          PROVE  \/ \E p \in pending : p.id = id
                 \/ \A h \in 0..height : Covers(id, h, View(h))'
      <4>1. CASE \E p \in pending : p.id = id
        BY <4>1
      <4>2. CASE ~\E p \in pending : p.id = id
        <5>1. ASSUME NEW h \in 0..height PROVE Covers(id, h, View(h))'
          <6> DEFINE counts == Counts(invoices[id].transfers, h)
          <6>1. Covers(id, h, View(h))
            BY <2>1, <3>1, <4>2 DEF PendingHold
          <6>2. Holds(outputKeys, Owing, restarts = 0, id, counts, h, View(h))
            BY <6>1 DEF Covers
          <6> HIDE DEF counts
          <6>3. Holds(outputKeys', Owing', restarts' = 0, id, counts, h, View(h)')
            BY <2>1, <6>2, SeenCovers
          <6> QED BY <3>1, <6>3 DEF Covers, counts
        <5> QED BY <5>1
      <4> QED BY <4>1, <4>2
    <3>2. ASSUME NEW p \in pending, p.id = id, invoices'[id] = p.invoice
          PROVE  \A h \in 0..height : Covers(id, h, View(h))'
      BY <2>2, <3>2 DEF Covers
    <3>3. ASSUME Fresh(id) PROVE \A h \in 0..height : Covers(id, h, View(h))'
      <4> SUFFICES ASSUME NEW h \in 0..height PROVE Covers(id, h, View(h))'
        OBVIOUS
      <4> DEFINE txs == View(h)'
                 keys == outputKeys'
                 exact == restarts' = 0
      <4>1. txs \in SUBSET Tx
        <5>1. bcpc \in {"idle", "next", "fix", "done"}
          BY <2>1 DEF ScannerInv, Course
        <5> QED BY <2>1, <5>1, FullWindow, ViewStays DEF ScannerInv, Writing
      <4> HIDE DEF txs, keys, exact
      <4>2. Holds(keys, Owing', exact, id, Counts(invoices'[id].transfers, h), h, txs)
        BY <3>3, <4>1, FreshCovers
      <4> QED BY <4>2 DEF Covers, txs, keys, exact
    <3>4. CASE UNCHANGED pending
      BY <3>1, <3>2, <3>3, <3>4, WhoWrote
    <3>5. CASE \E p \in pending : SaveInvoice(p)
      <4> PICK p \in pending : SaveInvoice(p)
        BY <3>5
      <4>1. /\ pending' = pending \ {p} /\ DOMAIN invoices' = DOMAIN invoices
            /\ invoices'[id] = IF p.id = id THEN p.invoice ELSE invoices[id]
        BY DEF SaveInvoice, Replace
      <4>2. CASE p.id = id
        BY <3>2, <4>1, <4>2
      <4>3. CASE p.id # id
        BY <3>1, <4>1, <4>3
      <4> QED BY <4>2, <4>3
    <3> QED BY <1>2, <3>4, <3>5
  <2> QED BY <2>1, <2>2, <2>3, <2>4 DEF PendingHold
<1>3. CASE spc' # "save"
  BY <1>3 DEF PendingHold
<1> QED
  BY <1>1, <1>2, <1>3, WritingSteps
-----------------------------------------------------------------------------
(* The scanner starts with a ledger.                                       *)
LEMMA LedgerStarts == ScannerInit => Ledger
<1> SUFFICES ASSUME ScannerInit PROVE Ledger
  OBVIOUS
<1>1. DOMAIN invoices = {} /\ DOMAIN blocks = {} /\ spc = "off" /\ bcpc = "off" /\ daemonHeight = 0
      /\ firstScan
  BY DEF ScannerInit, CacheInit, Empty
<1>2. TailIsCurrent
  BY <1>1 DEF TailIsCurrent
<1>3. Clocks /\ FirstScans
  BY <1>1 DEF Clocks, FirstScans
<1>4. StoredHolds /\ TrunkHolds /\ WindowHolds /\ TotalsHold /\ FoundBounded /\ PendingHold
  BY <1>1 DEF StoredHolds, TrunkHolds, WindowHolds, TotalsHold, FoundBounded, PendingHold
<1> QED
  BY <1>2, <1>3, <1>4 DEF Ledger

(* Every step keeps it while no call fails.                                *)
LEMMA LedgerSteps ==
    ASSUME Shallow, LedgerInv, [ScannerNext]_scannerVars PROVE LedgerInv'
<1>1. ScannerInv /\ ScannerInv'
  BY ScannerSteps DEF LedgerInv
<1>2. ASSUME Clean' PROVE Ledger'
  <2>1. Ledger
    BY <1>1, <1>2, QuietSteps DEF LedgerInv
  <2> USE DEF Ledger
  <2>2. TailIsCurrent' /\ Clocks' /\ FirstScans'
    BY <1>1, <1>2, <2>1, TailStays, ClocksKeep, FirstScansKeep
  <2>3. StoredHolds' /\ TrunkHolds' /\ WindowHolds'
    BY <1>1, <1>2, <2>1, StoredKeeps, TrunkKeeps, WindowKeeps
  <2>4. FoundBounded'
    BY <1>1, <1>2, <2>1, FoundKeeps
  <2>5. TotalsHold' /\ PendingHold'
    BY <1>1, <1>2, <2>1, <2>4, TotalsKeep, PendingKeeps
  <2> QED BY <2>2, <2>3, <2>4, <2>5
<1> QED
  BY <1>1, <1>2 DEF LedgerInv

(* The invariant of the ledger, for reorganisations that are shallower     *)
(* than the window, through stops and crashes at any point.                *)
THEOREM LedgerInvariance == Shallow => (ScannerSpec => []LedgerInv)
<1> SUFFICES ASSUME Shallow PROVE ScannerSpec => []LedgerInv
  OBVIOUS
<1>1. ScannerInit => LedgerInv
  BY ScannerStarts, LedgerStarts DEF LedgerInv
<1>2. LedgerInv /\ [ScannerNext]_scannerVars => LedgerInv'
  BY LedgerSteps
<1> QED
  BY <1>1, <1>2, PTL DEF ScannerSpec

(* Between two scans of a window that is the daemon's, all blocks of the   *)
(* chain up to the scanned height are covered.                             *)
LEMMA LedgerCovers ==
    ASSUME LedgerInv, Clean, spc = "loop", ~firstScan, OnChain,
           NEW id \in DOMAIN invoices, NEW a \in Amounts, NEW h \in 0..height
    PROVE  /\ CountOf(Transfer(a, h), invoices[id].transfers) >= Cardinality(DuePayments(id, a, h))
           /\ restarts = 0 => CountOf(Transfer(a, h), invoices[id].transfers)
                                <= Cardinality(Payments(id, a, h))
<1>1. ScannerInv /\ WindowHolds /\ bcpc = "idle"
  BY DEF LedgerInv, Ledger, ScannerInv, Course
<1>2. View(h) = chain[h].txs
  <2>1. CASE h > height - CacheSize
    <3>1. height - h \in DOMAIN blocks /\ height - (height - h) = h
      BY <1>1, <2>1, FullWindow DEF ScannerInv
    <3> QED BY <2>1, <3>1 DEF View, OnChain
  <2>2. CASE ~(h > height - CacheSize)
    BY <2>2 DEF View
  <2> QED BY <2>1, <2>2
<1>3. Covers(id, h, chain[h].txs)
  BY <1>1, <1>2 DEF WindowHolds, SettledHeight
<1>4. /\ Payments(id, a, h) = Due(outputKeys, id, a, h, chain[h].txs)
      /\ DuePayments(id, a, h) = Due(outputKeys, id, a, h, chain[h].txs \cap Owing)
  <2>1. chain[h].txs \in SUBSET Tx
    BY <1>1, <1>2, FullWindow DEF ScannerInv
  <2> QED BY <2>1 DEF Payments, DuePayments, Due, Owing
<1>5. CountOf(Transfer(a, h), invoices[id].transfers) = Counts(invoices[id].transfers, h)[a]
  BY CountIsAmong DEF Counts
<1> QED
  BY <1>3, <1>4, <1>5 DEF Covers, Holds

(* Reorganisations are undone exactly: between two scans, when the window  *)
(* is the daemon's, the invoices hold what their customers have paid on the*)
(* chain up to the scanned height, each payment once, dated right, and     *)
(* nothing that the chain does not pay, as long as no reorganisation is as *)
(* deep as the window, no call has failed and no scan has passed over      *)
(* payments: also when blocks are scanned between the creation height that *)
(* new_invoice reads and the insert.                                       *)
THEOREM LedgerIsAccurate == Shallow => (ScannerSpec => []LedgerAccurate)
<1>1. LedgerInv => LedgerAccurate
  BY LedgerCovers DEF LedgerAccurate, Undisturbed, Accurate, Complete, Clean
<1> QED
  BY <1>1, LedgerInvariance, PTL

(* Down time loses nothing: the same, as a lower bound, after stops and    *)
(* crashes at any point.                                                   *)
THEOREM NoPaymentMissed == Shallow => (ScannerSpec => []NothingMissed)
<1>1. LedgerInv => NothingMissed
  BY LedgerCovers DEF NothingMissed, Complete, Clean
<1> QED
  BY <1>1, LedgerInvariance, PTL
-----------------------------------------------------------------------------
(***************************************************************************)
(* Every output key is counted once, whatever calls fail, as long as the   *)
(* chain only grows and the scanner runs on.                               *)
(***************************************************************************)
(* CreditedOnce tells the outputs of a key by their amounts.               *)
AmountsTell == \A t, u \in Tx : AmountOf[t] = AmountOf[u] => KeyOf[t] = KeyOf[u]

(* The amounts that the outputs with key k pay.                            *)
KeyAmounts(k) == {AmountOf[tx] : tx \in {u \in Tx : KeyOf[u] = k}}

(* The transfers of a key, and what a scan finds of it.                    *)
OfKey(k) == {t \in TransferValue : t.amount \in KeyAmounts(k)}
FoundOf(k) == {f \in FoundValue : f.transfer.amount \in KeyAmounts(k)}

(* A transfer of an output that owns its key and lies where it says.       *)
Backed(t) ==
    \E tx \in Tx : /\ outputKeys[KeyOf[tx]] = tx
                   /\ AmountOf[tx] = t.amount
                   /\ t.height # NoHeight => t.height \in 0..(len - 1) /\ tx \in chain[t.height].txs

(* The transfers of an invoice are backed, and count no key twice.         *)
Sound(ts) == (\A i \in DOMAIN ts : Backed(ts[i])) /\ \A k \in Key : Among(ts, OfKey(k)) <= 1

(* A transaction is mined once, and not pooled any more then.              *)
MinedOnce ==
    /\ \A g \in 0..(len - 1) : \A tx \in chain[g].txs : tx \notin pool
    /\ \A g, h \in 0..(len - 1) : \A tx \in chain[g].txs : tx \in chain[h].txs => g = h

(* The txpool is looked at after the blocks: nothing is in both.           *)
PoolApart ==
    spc \in {"fetch", "scan"} =>
        \A tx \in newTxs \cup discovered, g \in 0..height : tx \notin chain[g].txs

(* What the txpool cache remembers owns its key.                           *)
DiscoveredOwn == \A tx \in discovered : outputKeys[KeyOf[tx]] = tx

(* Nothing is counted before the first scan.                               *)
NothingYet ==
    /\ spc \in {"off", "new", "ready"} => firstScan
    /\ spc \in {"update", "save"} => ~firstScan
    /\ firstScan => \A id \in DOMAIN invoices : invoices[id].transfers = <<>>

(* A scan finds only outputs that own their keys, where they are.          *)
FoundBacked == \A i \in DOMAIN found : Backed(found[i].transfer)

(* What is found adds to what update_invoices keeps, key by key.           *)
FoundOnce ==
    spc = "update" =>
        /\ FoundBacked
        /\ \A k \in Key :
              /\ Among(found, FoundOf(k)) <= 1
              /\ \A id \in DOMAIN invoices :
                    Among(invoices[id].transfers, {t \in OfKey(k) : OlderThan(t, DeepestUpdate)})
                      + Among(found, FoundOf(k)) <= 1

(* No key is counted twice, at any point of a scan.                        *)
Once ==
    /\ MinedOnce
    /\ PoolApart
    /\ DiscoveredOwn
    /\ NothingYet
    /\ FoundOnce
    /\ \A id \in DOMAIN invoices : Sound(invoices[id].transfers)
    /\ \A p \in pending : Sound(p.invoice.transfers)

(* The inductive invariant of counting once.                               *)
OnceInv == ScannerInv /\ ((restarts = 0 /\ branch = 0) => Once)

-----------------------------------------------------------------------------
(* Fewer elements are in a smaller set.                                    *)
LEMMA AmongLess ==
    ASSUME NEW T, NEW s \in Seq(T), NEW J, NEW K, J \cap T \subseteq K
    PROVE  Among(s, J) <= Among(s, K) /\ Among(s, J) \in Nat /\ Among(s, K) \in Nat
<1>1. Spots(s, J) \subseteq Spots(s, K)
  BY DEF Spots
<1>2. IsFiniteSet(Spots(s, K)) /\ Among(s, J) \in Nat /\ Among(s, K) \in Nat
  BY SpotsFinite
<1>3. Cardinality(Spots(s, J)) <= Cardinality(Spots(s, K))
  BY <1>1, <1>2, FS_Subset
<1> QED
  BY <1>2, <1>3 DEF Among

(* No element is in K when there are none.                                 *)
LEMMA NoneAmong ==
    ASSUME NEW T, NEW s \in Seq(T), NEW K, Among(s, K) = 0
    PROVE  \A i \in DOMAIN s : s[i] \notin K
<1>1. IsFiniteSet(Spots(s, K))
  BY SpotsFinite
<1>2. Spots(s, K) = {}
  BY <1>1, FS_EmptySet DEF Among
<1> QED
  BY <1>2 DEF Spots

(* A set whose elements are all the same has one at the most.              *)
LEMMA AtMostOne ==
    ASSUME NEW o, NEW S, S \subseteq {o}
    PROVE  Cardinality(S) \in Nat /\ Cardinality(S) <= 1
<1>1. IsFiniteSet({o}) /\ Cardinality({o}) = 1
  BY FS_Singleton
<1>2. IsFiniteSet(S) /\ Cardinality(S) <= Cardinality({o})
  BY <1>1, FS_Subset
<1>3. Cardinality(S) \in Nat
  BY <1>2, FS_CardinalityType
<1> QED
  BY <1>1, <1>2, <1>3

(* The chain has grown, and what it had stays.                             *)
Grows == len' >= len /\ \A g \in 0..(len - 1) : chain'[g] = chain[g]

(* Where neither the chain nor the scanner has gone back, neither has ever.*)
LEMMA StraightOn ==
    ASSUME ScannerInv, [ScannerNext]_scannerVars, restarts' = 0, branch' = 0
    PROVE  /\ restarts = 0 /\ branch = 0 /\ Grows /\ Extends(outputKeys, outputKeys')
           /\ ~Stop /\ ~Crash
<1>0. restarts \in Nat /\ branch \in Nat /\ len \in Nat
  BY DEF ScannerInv, StoreTypes, IInv, TypeOK, MonerodTypeOK
<1>1. ~Stop /\ ~Crash
  BY <1>0 DEF Stop, Crash, Forget
<1>2. restarts = 0
  <2>1. ScanStep => restarts' = restarts
    BY DEF ScanStep, StartScanner, InitPool, FetchInitial, FinishNew, RefreshTable, BeginScan, UpdateBlocks,
         BlocksUpdated, QueryPool, FetchPool, Scan, UpdateInvoices, SaveInvoice, SaveHeight
  <2>2. Failure => restarts' = restarts
    BY <1>1 DEF Failure, BlockRpcFails, PoolRpcFails, PoolTakenForEmpty, StoreFails, GiveUp,
         ScanTransactionsFails, KeyRefused, SaveFails
  <2>3. (\/ NewInvoice
         \/ \E id \in DOMAIN invoices : RemoveInvoice(id)
         \/ \E tx \in Tx : Pay(tx)
         \/ DaemonMoves
         \/ UNCHANGED scannerVars) => restarts' = restarts
    BY DEF NewInvoice, DrawSubaddress, InsertInvoice, RemoveInvoice, Pay, DaemonMoves, scannerVars
  <2> QED BY <2>1, <2>2, <2>3 DEF ScannerNext
<1>3. branch = 0 /\ Grows
  <2>1. [Next]_vars => DaemonStep \/ UNCHANGED daemonVars
    BY DEF Next, CacheStep, StartInit, InitFetch, InitTooShort, InitDone, QueryHeight, FetchNext,
         FixKeep, FixRepair, FixDone, TakeResult, RpcFail, vars
  <2>2. Interrupted \/ Dropped => UNCHANGED daemonVars
    BY DEF Interrupted, Dropped, daemonVars
  <2>3. CASE UNCHANGED daemonVars
    BY <1>0, <2>3 DEF daemonVars, Grows
  <2>4. CASE DaemonStep
    <3>1. CASE \E tx \in Tx : Submit(tx) \/ Evict(tx)
      BY <1>0, <3>1 DEF Submit, Evict, Grows
    <3>2. CASE \E txs \in SUBSET pool : Mine(txs)
      <4>1. len' = len + 1 /\ branch' = branch
        BY <3>2 DEF Mine
      <4>2. ASSUME NEW g \in 0..(len - 1) PROVE chain'[g] = chain[g]
        <5>1. g \in 0..len /\ g # len
          BY <1>0
        <5> QED BY <3>2, <5>1 DEF Mine
      <4> QED BY <1>0, <4>1, <4>2 DEF Grows
    <3>3. ~Reorganise
      <4>1. \A fork, place : Reorg(fork, place) => branch' = branch + 1
        BY DEF Reorg
      <4>2. Reorganise => branch' = branch + 1
        BY <4>1 DEF Reorganise
      <4> QED BY <1>0, <4>2
    <3> QED BY <2>4, <3>1, <3>2, <3>3 DEF DaemonStep
  <2> QED BY <2>1, <2>2, <2>3, <2>4, CacheSees
<1>4. Extends(outputKeys, outputKeys')
  <2>1. CASE Scan
    <3>1. \A k \in Key : outputKeys'[k] \in KeyOwners(k)
      BY <2>1, ScanTypes DEF ScannerInv
    <3> QED BY <3>1 DEF KeyOwners, Extends
  <2>2. CASE ScanTransactionsFails \/ KeyRefused
    <3>1. \A k \in Key : outputKeys'[k] \in KeyOwners(k) \cup {outputKeys[k]}
      BY <2>2 DEF ScanTransactionsFails, KeyRefused, PartialKeyTables
    <3> QED BY <3>1 DEF KeyOwners, Extends
  <2>3. CASE UNCHANGED outputKeys
    BY <2>3 DEF Extends
  <2>4. ScanStep => Scan \/ UNCHANGED outputKeys
    BY DEF ScanStep, StartScanner, InitPool, FetchInitial, FinishNew, RefreshTable, BeginScan, UpdateBlocks,
         BlocksUpdated, QueryPool, FetchPool, UpdateInvoices, SaveInvoice, SaveHeight, storeVars
  <2>5. Failure => ScanTransactionsFails \/ KeyRefused \/ UNCHANGED outputKeys
    BY DEF Failure, BlockRpcFails, PoolRpcFails, PoolTakenForEmpty, StoreFails, SaveFails,
         Stop, Crash, Forget, storeVars
  <2>6. (\/ NewInvoice
         \/ \E id \in DOMAIN invoices : RemoveInvoice(id)
         \/ \E tx \in Tx : Pay(tx)
         \/ DaemonMoves
         \/ UNCHANGED scannerVars) => UNCHANGED outputKeys
    BY DEF NewInvoice, DrawSubaddress, InsertInvoice, RemoveInvoice, Pay, DaemonMoves, storeVars, scannerVars
  <2> QED BY <2>1, <2>2, <2>3, <2>4, <2>5, <2>6 DEF ScannerNext
<1> QED
  BY <1>1, <1>2, <1>3, <1>4

(* What is backed stays backed, and what is sound stays sound.             *)
LEMMA BackedOn ==
    ASSUME ScannerInv, [ScannerNext]_scannerVars, restarts' = 0, branch' = 0
    PROVE  (\A t : Backed(t) => Backed(t)') /\ (\A ts : Sound(ts) => Sound(ts)')
<1>1. Grows /\ Extends(outputKeys, outputKeys') /\ len \in Nat /\ len' \in Nat
  <2>1. len' \in Nat
    BY CacheKeeps DEF IInv, TypeOK, MonerodTypeOK
  <2> QED BY <2>1, StraightOn DEF ScannerInv, IInv, TypeOK, MonerodTypeOK
<1>2. ASSUME NEW t, Backed(t) PROVE Backed(t)'
  <2>1. PICK tx \in Tx : /\ outputKeys[KeyOf[tx]] = tx
                         /\ AmountOf[tx] = t.amount
                         /\ t.height # NoHeight => t.height \in 0..(len - 1) /\ tx \in chain[t.height].txs
    BY <1>2 DEF Backed
  <2>2. outputKeys'[KeyOf[tx]] = tx
    BY <1>1, <2>1, ScannerAssumption DEF Extends, ScannerAssumption
  <2>3. t.height # NoHeight => t.height \in 0..(len' - 1) /\ tx \in chain'[t.height].txs
    BY <1>1, <2>1 DEF Grows
  <2> QED BY <2>1, <2>2, <2>3 DEF Backed
<1> QED
  BY <1>2 DEF Sound

(* Without a reorganisation the window is the daemon's chain.              *)
LEMMA WindowIsChain ==
    ASSUME IInv, branch = 0, NEW k \in DOMAIN blocks
    PROVE  blocks[k] = chain[height - k] /\ height - k \in 0..(len - 1)
<1>1. height - k \in 0..(len - 1)
  BY InRange
<1>2. blocks[k] \in Block /\ chain[height - k] \in Block
  BY <1>1 DEF IInv, TypeOK, MonerodTypeOK
<1>3. blocks[k].branch \in Nat /\ chain[height - k].branch \in Nat
  BY <1>2 DEF Block
<1>4. blocks[k].branch <= 0 /\ chain[height - k].branch <= 0
  BY <1>1 DEF IInv, HashesIdentify, ChainLinked
<1>5. blocks[k].branch = chain[height - k].branch
  BY <1>3, <1>4
<1> QED
  BY <1>1, <1>5 DEF IInv, HashesIdentify

(* The amounts of a key belong to its outputs.                             *)
LEMMA AmountTells ==
    ASSUME AmountsTell, NEW k, NEW tx \in Tx, AmountOf[tx] \in KeyAmounts(k)
    PROVE  KeyOf[tx] = k
<1>1. PICK u \in Tx : KeyOf[u] = k /\ AmountOf[tx] = AmountOf[u]
  BY DEF KeyAmounts
<1> QED
  BY <1>1 DEF AmountsTell

(* Of a key, an invoice keeps and gets one transfer at the most.           *)
LEMMA ScanAddsOnce ==
    ASSUME ScannerInv, [ScannerNext]_scannerVars, Scan, restarts' = 0, branch' = 0, AmountsTell,
           MinedOnce, PoolApart, DiscoveredOwn, NEW k \in Key,
           NEW ts \in Seq(TransferValue), Sound(ts), firstScan => ts = <<>>
    PROVE  Among(ts, {t \in OfKey(k) : OlderThan(t, DeepestUpdate)}) + Among(found', FoundOf(k)) <= 1
<1> DEFINE J == OfKey(k)
           Old == {t \in J : OlderThan(t, DeepestUpdate)}
           K == FoundOf(k)
           keys == outputKeys'
           o == keys[k]
           D == discovered'
           one == FoundInBlocks(keys)
           two == FoundIn(D, NoHeight)
<1>0. /\ bcpc = "done" /\ spc = "scan" /\ branch = 0 /\ Extends(outputKeys, keys)
      /\ D \in SUBSET Tx /\ D = discovered \cup Owned(newTxs, keys) /\ keys \in [Key -> Tx \cup {NoTx}]
      /\ one \in Seq(FoundValue) /\ two \in Seq(FoundValue) /\ found' = one \o two
      /\ discovered \subseteq Tx /\ newTxs \subseteq Tx
  <2>1. bcpc = "done" /\ spc = "scan" /\ D = discovered \cup Owned(newTxs, keys)
    BY DEF Scan, TakeResult, ScanTxpool
  <2>2. branch = 0 /\ Extends(outputKeys, keys)
    BY StraightOn
  <2> QED BY <2>1, <2>2, ScanTypes DEF ScannerInv, StoreTypes
<1>1. /\ height \in Nat /\ len \in Nat /\ height < len /\ CacheSize \in Nat \ {0}
      /\ height >= CacheSize - 1 /\ updated \in 0..CacheSize
      /\ ScannedBlocks = 0..(ScannedCount - 1) /\ ScannedCount \in 0..CacheSize
      /\ ScannedCount = IF firstScan THEN CacheSize ELSE updated
      /\ DOMAIN blocks = 0..(CacheSize - 1) /\ DeepestUpdate = height - updated + 1
      /\ \A g \in 0..(len - 1) : chain[g].txs \in SUBSET Tx
  <2>1. \A g \in 0..(len - 1) : chain[g].txs \in SUBSET Tx
    BY DEF ScannerInv, IInv, TypeOK, MonerodTypeOK, Block
  <2> QED BY <1>0, <2>1, ScannedRange, FullWindow DEF ScannerInv, ScannedCount, DeepestUpdate
<1>2. \A j \in ScannedBlocks : blocks[j] = chain[height - j] /\ height - j \in 0..height
                               /\ blocks[j].txs \in SUBSET Tx
  <2>1. ASSUME NEW j \in ScannedBlocks
        PROVE  blocks[j] = chain[height - j] /\ height - j \in 0..height /\ height - j \in 0..(len - 1)
    <3>1. j \in DOMAIN blocks /\ height - j \in 0..height /\ height - j \in 0..(len - 1)
      BY <1>1
    <3> QED BY <1>0, <3>1, WindowIsChain DEF ScannerInv
  <2> QED BY <1>1, <2>1
<1>3. ASSUME NEW tx \in Tx, NEW g \in Nat \cup {NoHeight}, keys[KeyOf[tx]] = tx, Item(tx, g) \in K
      PROVE  tx = o
  <2>1. AmountOf[tx] \in KeyAmounts(k)
    BY <1>3 DEF FoundOf, Item, Transfer
  <2> QED BY <1>3, <2>1, AmountTells
<1>4. ASSUME NEW i \in Spots(ts, J)
      PROVE  ts[i].height # NoHeight => ts[i].height \in 0..(len - 1) /\ o \in chain[ts[i].height].txs
  <2>1. Backed(ts[i]) /\ ts[i].amount \in KeyAmounts(k)
    BY DEF Spots, Sound, OfKey
  <2>2. PICK tx \in Tx : /\ outputKeys[KeyOf[tx]] = tx /\ AmountOf[tx] = ts[i].amount
                         /\ ts[i].height # NoHeight
                              => ts[i].height \in 0..(len - 1) /\ tx \in chain[ts[i].height].txs
    BY <2>1 DEF Backed
  <2>3. KeyOf[tx] = k
    BY <2>1, <2>2, AmountTells
  <2>4. o = tx
    BY <1>0, <2>2, <2>3, ScannerAssumption DEF Extends, ScannerAssumption
  <2> QED BY <2>2, <2>4
<1>5. /\ Among(found', K) = Among(one, K) + Among(two, K)
      /\ Among(one, K) \in Nat /\ Among(two, K) \in Nat
  <2> HIDE DEF one, two, K
  <2> QED BY <1>0, AmongConcat, SpotsFinite
<1>6. Among(two, K) = Cardinality({tx \in D : Item(tx, NoHeight) \in K})
  <2> DEFINE none == NoHeight
  <2>1. none \in Nat \cup {NoHeight}
    OBVIOUS
  <2> HIDE DEF D, K, none
  <2>2. Among(FoundIn(D, none), K) = Cardinality({tx \in D : Item(tx, none) \in K})
    BY <1>0, <2>1, AmongFoundIn
  <2> QED BY <2>2 DEF none
<1>7. ASSUME NEW tx \in D, Item(tx, NoHeight) \in K PROVE tx = o /\ tx \in newTxs \cup discovered
  <2>1. tx \in Tx /\ tx \in newTxs \cup discovered
    BY <1>0 DEF Owned, Recognised
  <2>2. keys[KeyOf[tx]] = tx
    <3>1. CASE tx \in discovered
      <4>1. outputKeys[KeyOf[tx]] = tx /\ tx # NoTx /\ KeyOf[tx] \in Key
        BY <2>1, <3>1, ScannerAssumption DEF DiscoveredOwn, ScannerAssumption
      <4> QED BY <1>0, <4>1 DEF Extends
    <3>2. CASE tx \in Owned(newTxs, keys)
      BY <3>2 DEF Owned, Recognised
    <3> QED BY <1>0, <3>1, <3>2
  <2> DEFINE none == NoHeight
  <2>3. none \in Nat \cup {NoHeight} /\ Item(tx, none) \in K
    BY <1>7
  <2> HIDE DEF none, K, keys, o
  <2> QED BY <1>3, <2>1, <2>2, <2>3
<1>8. /\ Among(ts, Old) \in Nat /\ Among(ts, J) \in Nat /\ Among(ts, Old) <= Among(ts, J)
      /\ Among(ts, J) <= 1
  <2>1. Among(ts, J) <= 1
    BY DEF Sound
  <2>2. Old \cap TransferValue \subseteq J
    OBVIOUS
  <2> HIDE DEF Old, J
  <2> QED BY <2>1, <2>2, AmongLess
<1>9. ASSUME NEW i \in Spots(ts, Old)
      PROVE  /\ ts[i].height \in 0..(len - 1) /\ o \in chain[ts[i].height].txs
             /\ ts[i].height < DeepestUpdate
  <2>1. i \in Spots(ts, J) /\ OlderThan(ts[i], DeepestUpdate)
    BY DEF Spots
  <2>2. ts[i].height # NoHeight /\ ts[i].height < DeepestUpdate
    BY <2>1 DEF OlderThan
  <2> QED BY <1>4, <2>1, <2>2
<1> HIDE DEF J, Old, K, keys, o, D, one, two
<1>10. CASE \E g \in 0..height : o \in chain[g].txs
  <2>1. PICK g \in 0..height : o \in chain[g].txs
    BY <1>10
  <2>2. g \in 0..(len - 1) /\ g \in Int /\ o \in Tx
    BY <1>1, <2>1
  <2>3. {tx \in D : Item(tx, NoHeight) \in K} = {}
    BY <1>0, <1>7, <2>1 DEF PoolApart
  <2>4. Among(two, K) = 0
    BY <1>6, <2>3, FS_EmptySet
  <2>5. OnlyAt(g, keys, K)
    <3> SUFFICES ASSUME NEW j \in ScannedBlocks, height - j # g,
                        NEW tx \in Owned(blocks[j].txs, keys), Item(tx, height - j) \in K
                 PROVE  FALSE
      BY DEF OnlyAt
    <3>1. tx \in chain[height - j].txs /\ tx \in Tx /\ keys[KeyOf[tx]] = tx /\ height - j \in 0..height
      BY <1>2 DEF Owned, Recognised
    <3>2. height - j \in Nat /\ height - j \in 0..(len - 1)
      BY <1>1, <3>1
    <3>3. tx = o
      BY <1>3, <3>1, <3>2
    <3> QED BY <2>1, <2>2, <3>1, <3>2, <3>3 DEF MinedOnce
  <2>6. Among(one, K) = IF height - g \in ScannedBlocks
                        THEN Cardinality({tx \in Owned(blocks[height - g].txs, keys) : Item(tx, g) \in K})
                        ELSE 0
    <3>1. IInv
      BY DEF ScannerInv
    <3> QED BY <1>0, <2>2, <2>5, <3>1, BlocksFound DEF one
  <2>7. CASE height - g \in ScannedBlocks
    <3> DEFINE S == {tx \in Owned(blocks[height - g].txs, keys) : Item(tx, g) \in K}
    <3>1. S \subseteq {o}
      <4>1. ASSUME NEW tx \in S PROVE tx = o
        <5>1. tx \in Tx /\ keys[KeyOf[tx]] = tx /\ Item(tx, g) \in K /\ g \in Nat
          BY <1>2, <2>1, <2>7 DEF Owned, Recognised
        <5> QED BY <1>3, <5>1
      <4> QED BY <4>1
    <3> HIDE DEF S
    <3>2. Cardinality(S) <= 1 /\ Cardinality(S) \in Nat
      BY <3>1, AtMostOne
    <3>3. Among(one, K) <= 1
      BY <2>6, <2>7, <3>2 DEF S
    <3>4. Spots(ts, Old) = {}
      <4>1. CASE firstScan
        BY <4>1 DEF Spots
      <4>2. CASE ~firstScan
        <5>1. ~(g < DeepestUpdate)
          BY <1>1, <2>1, <2>7, <4>2
        <5>2. \A i \in Spots(ts, Old) : ts[i].height = g
          BY <1>9, <2>1, <2>2 DEF MinedOnce
        <5> QED BY <1>9, <5>1, <5>2
      <4> QED BY <4>1, <4>2
    <3>5. Among(ts, Old) = 0
      BY <3>4, AmongNone
    <3> QED BY <1>5, <2>4, <3>3, <3>5 DEF Old, J, K
  <2>8. CASE height - g \notin ScannedBlocks
    <3>1. Among(one, K) = 0
      BY <2>6, <2>8
    <3> QED BY <1>5, <1>8, <2>4, <3>1 DEF Old, J, K
  <2> QED BY <2>7, <2>8
<1>11. CASE ~\E g \in 0..height : o \in chain[g].txs
  <2> DEFINE g == height + 1
  <2>1. g \in Int /\ height - g \notin ScannedBlocks
    BY <1>1
  <2>2. OnlyAt(g, keys, K)
    <3> SUFFICES ASSUME NEW j \in ScannedBlocks,
                        NEW tx \in Owned(blocks[j].txs, keys), Item(tx, height - j) \in K
                 PROVE  FALSE
      BY DEF OnlyAt
    <3>1. tx \in chain[height - j].txs /\ tx \in Tx /\ keys[KeyOf[tx]] = tx /\ height - j \in 0..height
      BY <1>2 DEF Owned, Recognised
    <3>2. height - j \in Nat
      BY <1>1, <3>1
    <3>3. tx = o
      BY <1>3, <3>1, <3>2
    <3> QED BY <1>11, <3>1, <3>3
  <2> HIDE DEF g
  <2>3. Among(one, K) = 0
    <3>1. IInv
      BY DEF ScannerInv
    <3> QED BY <1>0, <2>1, <2>2, <3>1, BlocksFound DEF one
  <2>4. Spots(ts, Old) = {}
    <3>1. ASSUME NEW i \in Spots(ts, Old) PROVE FALSE
      <4>1. ts[i].height \in 0..height
        BY <1>1, <1>9
      <4> QED BY <1>9, <1>11, <4>1
    <3> QED BY <3>1
  <2>5. Among(ts, Old) = 0
    BY <2>4, AmongNone
  <2> DEFINE S == {tx \in D : Item(tx, NoHeight) \in K}
  <2>6. S \subseteq {o}
    BY <1>7
  <2> HIDE DEF S
  <2>7. Among(two, K) <= 1
    BY <1>6, <2>6, AtMostOne DEF S
  <2> QED BY <1>5, <2>3, <2>5, <2>7 DEF Old, J, K
<1> QED
  BY <1>10, <1>11
-----------------------------------------------------------------------------
(* What the steps of the composition are for the daemon.                   *)
LEMMA DaemonSees ==
    ASSUME ScannerInv, [ScannerNext]_scannerVars
    PROVE  \/ UNCHANGED daemonVars
           \/ \E tx \in Tx : Submit(tx) \/ Evict(tx)
           \/ \E txs \in SUBSET pool : Mine(txs)
           \/ Reorganise
<1>1. [Next]_vars => DaemonStep \/ UNCHANGED daemonVars
  BY DEF Next, CacheStep, StartInit, InitFetch, InitTooShort, InitDone, QueryHeight, FetchNext,
       FixKeep, FixRepair, FixDone, TakeResult, RpcFail, vars
<1>2. Interrupted \/ Dropped => UNCHANGED daemonVars
  BY DEF Interrupted, Dropped, daemonVars
<1> QED
  BY <1>1, <1>2, CacheSees DEF DaemonStep

(* The daemon mines what is pooled, and takes no transaction twice, through*)
(* reorganisations too.                                                    *)
LEMMA MinedOnceKeeps ==
    ASSUME ScannerInv, MinedOnce, [ScannerNext]_scannerVars
    PROVE  MinedOnce'
<1>0. len \in Nat
  BY DEF ScannerInv, IInv, TypeOK, MonerodTypeOK
<1>1. CASE UNCHANGED daemonVars
  BY <1>1 DEF daemonVars, MinedOnce
<1>2. CASE \E tx \in Tx : Submit(tx) \/ Evict(tx)
  <2> PICK t \in Tx : Submit(t) \/ Evict(t)
    BY <1>2
  <2>1. UNCHANGED <<chain, len>>
    BY DEF Submit, Evict
  <2>2. ASSUME NEW g \in 0..(len - 1), NEW tx \in chain[g].txs PROVE tx \notin pool'
    <3>1. tx \notin pool /\ tx \in MinedFrom(0)
      BY <2>2 DEF MinedOnce, MinedFrom
    <3> QED BY <3>1 DEF Submit, Evict
  <2> QED BY <2>1, <2>2 DEF MinedOnce
<1>3. CASE \E txs \in SUBSET pool : Mine(txs)
  <2> PICK txs \in SUBSET pool : Mine(txs)
    BY <1>3
  <2>1. len' = len + 1 /\ pool' = pool \ txs /\ 0..(len' - 1) = 0..len
    BY <1>0 DEF Mine
  <2>2. chain'[len].txs = txs
    BY <1>0 DEF Mine
  <2>3. \A g \in 0..(len - 1) : chain'[g].txs = chain[g].txs
    <3>1. \A g \in 0..(len - 1) : g \in 0..len /\ g # len
      BY <1>0
    <3> QED BY <3>1 DEF Mine
  <2>4. \A g \in 0..len : g \in 0..(len - 1) \/ g = len
    BY <1>0
  <2>5. \A g \in 0..(len - 1) : \A tx \in chain'[g].txs : tx \notin pool
    BY <2>3 DEF MinedOnce
  <2>6. \A g \in 0..(len' - 1) : \A tx \in chain'[g].txs : tx \notin pool'
    BY <2>1, <2>2, <2>4, <2>5
  <2>7. ASSUME NEW g \in 0..(len' - 1), NEW h \in 0..(len' - 1), NEW tx \in chain'[g].txs,
               tx \in chain'[h].txs
        PROVE  g = h
    <3>1. CASE g = len \/ h = len
      BY <2>1, <2>2, <2>4, <2>5, <2>7, <3>1
    <3>2. CASE g \in 0..(len - 1) /\ h \in 0..(len - 1)
      BY <2>3, <2>7, <3>2 DEF MinedOnce
    <3> QED BY <2>1, <2>4, <3>1, <3>2
  <2> QED BY <2>6, <2>7 DEF MinedOnce
<1>4. CASE Reorganise
  <2> PICK fork \in {g \in 1..(len - 1) : g >= len - MaxReorgDepth} :
           \E place \in [pool \cup MinedFrom(fork) -> {-1} \cup fork..len] : Reorg(fork, place)
    BY <1>4 DEF Reorganise
  <2> PICK place \in [pool \cup MinedFrom(fork) -> {-1} \cup fork..len] : Reorg(fork, place)
    OBVIOUS
  <2> DEFINE D == pool \cup MinedFrom(fork)
  <2>1. fork \in 1..(len - 1) /\ DOMAIN place = D /\ len' = len + 1 /\ 0..(len' - 1) = 0..len
        /\ pool' = {tx \in D : place[tx] = -1}
    BY <1>0 DEF Reorg
  <2>2. ASSUME NEW g \in 0..len, g < fork
        PROVE  chain'[g].txs = chain[g].txs /\ g \in 0..(len - 1) /\ \A tx \in chain[g].txs : tx \notin D
    <3>1. chain'[g].txs = chain[g].txs /\ g \in 0..(len - 1)
      BY <1>0, <2>1, <2>2 DEF Reorg
    <3>2. ASSUME NEW tx \in chain[g].txs PROVE tx \notin pool
      BY <3>1 DEF MinedOnce
    <3>3. ASSUME NEW tx \in chain[g].txs, tx \in MinedFrom(fork) PROVE FALSE
      <4>1. PICK h \in fork..(len - 1) : tx \in chain[h].txs
        BY <3>3 DEF MinedFrom
      <4>2. h \in 0..(len - 1) /\ h # g
        BY <2>1, <2>2
      <4> QED BY <3>1, <4>1, <4>2 DEF MinedOnce
    <3> QED BY <3>1, <3>2, <3>3
  <2>3. ASSUME NEW g \in 0..len, ~(g < fork)
        PROVE  chain'[g].txs = {tx \in D : place[tx] = g} /\ g # -1
    BY <2>1, <2>3 DEF Reorg
  <2> HIDE DEF D
  <2>4. ASSUME NEW g \in 0..len, NEW tx \in chain'[g].txs PROVE tx \notin pool'
    <3>1. CASE g < fork
      BY <2>1, <2>2, <2>4, <3>1
    <3>2. CASE ~(g < fork)
      BY <2>1, <2>3, <2>4, <3>2
    <3> QED BY <3>1, <3>2
  <2>5. ASSUME NEW g \in 0..len, NEW h \in 0..len, NEW tx \in chain'[g].txs, tx \in chain'[h].txs
        PROVE  g = h
    <3>1. CASE g < fork /\ h < fork
      BY <2>2, <2>5, <3>1 DEF MinedOnce
    <3>2. CASE ~(g < fork) /\ ~(h < fork)
      BY <2>3, <2>5, <3>2
    <3>3. CASE g < fork /\ ~(h < fork)
      BY <2>2, <2>3, <2>5, <3>3
    <3>4. CASE ~(g < fork) /\ h < fork
      BY <2>2, <2>3, <2>5, <3>4
    <3> QED BY <3>1, <3>2, <3>3, <3>4
  <2> QED BY <2>1, <2>4, <2>5 DEF MinedOnce
<1> QED
  BY <1>1, <1>2, <1>3, <1>4, DaemonSees

(* What the scanner does with the txpool.                                  *)
LEMMA PoolSteps ==
    ASSUME ScannerInv, [ScannerNext]_scannerVars, restarts' = 0, branch' = 0
    PROVE  /\ discovered' \subseteq discovered \cup Owned(newTxs, outputKeys')
           /\ spc' \in {"fetch", "scan"} =>
                \/ QueryPool
                \/ newTxs' \cup discovered' = {}
                \/ /\ newTxs' \cup discovered' \subseteq newTxs \cup discovered
                   /\ spc \in {"fetch", "scan"} /\ height' = height
<1>0. Course
  BY DEF ScannerInv
<1> DEFINE Same == /\ newTxs' \cup discovered' \subseteq newTxs \cup discovered
                   /\ spc \in {"fetch", "scan"} /\ height' = height
<1>1. CASE StartScanner \/ InitPool \/ FetchInitial \/ FinishNew \/ RefreshTable \/ BeginScan
  BY <1>0, <1>1 DEF StartScanner, InitPool, FetchInitial, FinishNew, RefreshTable, BeginScan, Course, scanVars
<1>2. CASE UpdateBlocks \/ BlocksUpdated
  BY <1>0, <1>2 DEF UpdateBlocks, BlocksUpdated, Course, scanVars
<1>3. CASE QueryPool
  BY <1>3 DEF QueryPool
<1>4. CASE FetchPool
  BY <1>4 DEF FetchPool, cacheVars
<1>5. CASE Scan \/ UpdateInvoices \/ SaveHeight \/ \E p \in pending : SaveInvoice(p)
  BY <1>5 DEF Scan, ScanTxpool, UpdateInvoices, SaveHeight, SaveInvoice
<1>6. CASE BlockRpcFails
  BY <1>6 DEF BlockRpcFails
<1>7. CASE PoolRpcFails \/ StoreFails
  BY <1>7 DEF PoolRpcFails, StoreFails, GiveUp
<1>8. CASE ScanTransactionsFails \/ KeyRefused
  BY <1>8 DEF ScanTransactionsFails, KeyRefused, GiveUp
<1>9. CASE PoolTakenForEmpty
  BY <1>9 DEF PoolTakenForEmpty
<1>10. CASE \/ \E p \in pending : SaveFails(p)
            \/ NewInvoice
            \/ \E id \in DOMAIN invoices : RemoveInvoice(id)
            \/ \E tx \in Tx : Pay(tx)
            \/ DaemonMoves
            \/ UNCHANGED scannerVars
  <2>1. UNCHANGED <<spc, height, newTxs, discovered>>
    BY <1>10 DEF SaveFails, NewInvoice, DrawSubaddress, InsertInvoice, RemoveInvoice, Pay, DaemonMoves, cacheVars, scanVars, scannerVars
  <2> QED BY <2>1
<1> QED
  BY <1>1, <1>2, <1>3, <1>4, <1>5, <1>6, <1>7, <1>8, <1>9, <1>10, StraightOn
     DEF ScannerNext, ScanStep, Failure

(* What is new in the txpool lies in none of the scanned blocks.           *)
LEMMA PoolApartKeeps ==
    ASSUME ScannerInv, MinedOnce, PoolApart, [ScannerNext]_scannerVars, restarts' = 0, branch' = 0
    PROVE  PoolApart'
<1> SUFFICES ASSUME spc' \in {"fetch", "scan"}
             PROVE  \A tx \in newTxs' \cup discovered', g \in 0..height' : tx \notin chain'[g].txs
  BY DEF PoolApart
<1>1. CASE QueryPool
  <2>1. bcpc = "done"
    BY <1>1 DEF QueryPool, ScannerInv, Course
  <2>2. height < len /\ height \in Nat /\ len \in Nat
    BY <2>1, CacheNotAhead DEF ScannerInv, IInv, TypeOK, MonerodTypeOK
  <2>3. newTxs' \cup discovered' \subseteq pool /\ height' = height /\ chain' = chain
    BY <1>1 DEF QueryPool, cacheVars, daemonVars
  <2>4. \A g \in 0..height : g \in 0..(len - 1)
    BY <2>2
  <2> QED BY <2>3, <2>4 DEF MinedOnce
<1>2. CASE newTxs' \cup discovered' = {}
  BY <1>2
<1>3. CASE /\ newTxs' \cup discovered' \subseteq newTxs \cup discovered
           /\ spc \in {"fetch", "scan"} /\ height' = height
  <2>1. bcpc = "done"
    BY <1>3 DEF ScannerInv, Course
  <2>2. height < len /\ height \in Nat /\ len \in Nat
    BY <2>1, CacheNotAhead DEF ScannerInv, IInv, TypeOK, MonerodTypeOK
  <2>3. \A g \in 0..height : chain'[g] = chain[g]
    BY <2>2, StraightOn DEF Grows
  <2> QED BY <1>3, <2>3 DEF PoolApart
<1> QED
  BY <1>1, <1>2, <1>3, PoolSteps

(* What was found in the txpool owns its key, also after a scan that fails.*)
LEMMA DiscoveredOwnKeeps ==
    ASSUME ScannerInv, DiscoveredOwn, [ScannerNext]_scannerVars, restarts' = 0, branch' = 0
    PROVE  DiscoveredOwn'
<1> SUFFICES ASSUME NEW tx \in discovered' PROVE outputKeys'[KeyOf[tx]] = tx
  BY DEF DiscoveredOwn
<1>1. tx \in discovered \cup Owned(newTxs, outputKeys')
  BY PoolSteps
<1>2. CASE tx \in discovered
  <2>1. tx \in Tx /\ outputKeys[KeyOf[tx]] = tx
    BY <1>2 DEF DiscoveredOwn, ScannerInv, StoreTypes
  <2>2. tx # NoTx /\ KeyOf[tx] \in Key
    BY <2>1, ScannerAssumption DEF ScannerAssumption
  <2> QED BY <2>1, <2>2, StraightOn DEF Extends
<1>3. CASE tx \in Owned(newTxs, outputKeys')
  BY <1>3 DEF Owned, Recognised
<1> QED
  BY <1>1, <1>2, <1>3

(* Nothing is counted before the first scan is through.                    *)
LEMMA NothingYetKeeps ==
    ASSUME ScannerInv, NothingYet, [ScannerNext]_scannerVars, restarts' = 0, branch' = 0
    PROVE  NothingYet'
<1>0. Course
  BY DEF ScannerInv
<1>1. /\ spc' \in {"off", "new", "ready"} => firstScan'
      /\ spc' \in {"update", "save"} => ~firstScan'
      /\ firstScan' => firstScan
  <2> USE <1>0 DEF NothingYet
  <2>1. CASE StartScanner \/ InitPool \/ FetchInitial \/ FinishNew
    BY <2>1 DEF StartScanner, InitPool, FetchInitial, FinishNew, scanVars
  <2>2. CASE RefreshTable \/ BeginScan \/ UpdateBlocks \/ BlocksUpdated \/ QueryPool \/ FetchPool
    BY <2>2 DEF RefreshTable, BeginScan, UpdateBlocks, BlocksUpdated, QueryPool, FetchPool, scanVars
  <2>3. CASE Scan \/ UpdateInvoices \/ SaveHeight \/ \E p \in pending : SaveInvoice(p)
    BY <2>3 DEF Scan, UpdateInvoices, SaveHeight, SaveInvoice
  <2>4. CASE BlockRpcFails
    BY <2>4 DEF BlockRpcFails
  <2>5. CASE PoolRpcFails \/ StoreFails \/ ScanTransactionsFails \/ KeyRefused
    BY <2>5 DEF PoolRpcFails, StoreFails, ScanTransactionsFails, KeyRefused, GiveUp
  <2>6. CASE PoolTakenForEmpty
    BY <2>6 DEF PoolTakenForEmpty
  <2>7. CASE \/ \E p \in pending : SaveFails(p)
             \/ NewInvoice
             \/ \E id \in DOMAIN invoices : RemoveInvoice(id)
             \/ \E tx \in Tx : Pay(tx)
             \/ DaemonMoves
             \/ UNCHANGED scannerVars
    <3>1. UNCHANGED <<spc, firstScan>>
      BY <2>7 DEF SaveFails, NewInvoice, DrawSubaddress, InsertInvoice, RemoveInvoice, Pay, DaemonMoves, scanVars, scannerVars
    <3> QED BY <3>1
  <2> QED
    BY <2>1, <2>2, <2>3, <2>4, <2>5, <2>6, <2>7, StraightOn DEF ScannerNext, ScanStep, Failure
<1> SUFFICES ASSUME firstScan', NEW id \in DOMAIN invoices'
             PROVE  invoices'[id].transfers = <<>>
  BY <1>1 DEF NothingYet
<1>2. \A i \in DOMAIN invoices : invoices[i].transfers = <<>>
  BY <1>1 DEF NothingYet
<1>3. ~\E p \in pending : SaveInvoice(p)
  BY <1>1 DEF NothingYet, SaveInvoice
<1> QED
  BY <1>2, <1>3, WhoWrote DEF Fresh

(* What a scan finds is backed.                                            *)
Unbacked == {f \in FoundValue : ~Backed(f.transfer)}

(* A scan leaves nothing unbacked in what it found.                        *)
LEMMA ScanBacks ==
    ASSUME ScannerInv, DiscoveredOwn, [ScannerNext]_scannerVars, Scan, restarts' = 0, branch' = 0
    PROVE  FoundBacked'
<1> DEFINE K == Unbacked'
           keys == outputKeys'
           D == discovered'
           one == FoundInBlocks(keys)
           two == FoundIn(D, NoHeight)
<1>0. /\ bcpc = "done" /\ branch = 0 /\ chain' = chain /\ len' = len
      /\ D \in SUBSET Tx /\ one \in Seq(FoundValue) /\ two \in Seq(FoundValue) /\ found' = one \o two
      /\ found' \in Seq(FoundValue)
  <2>1. bcpc = "done" /\ chain' = chain /\ len' = len
    BY DEF Scan, TakeResult, daemonVars
  <2> QED BY <2>1, StraightOn, ScanTypes DEF ScannerInv
<1>1. ASSUME NEW tx \in Tx, NEW h, keys[KeyOf[tx]] = tx,
             h # NoHeight => h \in 0..(len - 1) /\ tx \in chain[h].txs
      PROVE  Item(tx, h) \notin K
  <2>1. Item(tx, h).transfer.amount = AmountOf[tx] /\ Item(tx, h).transfer.height = h
    BY DEF Item, Transfer
  <2>2. Backed(Item(tx, h).transfer)'
    BY <1>0, <1>1, <2>1 DEF Backed
  <2> QED BY <2>2 DEF Unbacked
<1>2. Among(one, K) = 0
  <2> DEFINE g == height + 1
  <2>1. /\ height \in Nat /\ len \in Nat /\ height < len /\ ScannedBlocks = 0..(ScannedCount - 1)
        /\ ScannedCount \in 0..CacheSize /\ DOMAIN blocks = 0..(CacheSize - 1)
        /\ CacheSize \in Nat \ {0} /\ height >= CacheSize - 1
        /\ \A h \in 0..(len - 1) : chain[h].txs \in SUBSET Tx
    <3>1. \A h \in 0..(len - 1) : chain[h].txs \in SUBSET Tx
      BY DEF ScannerInv, IInv, TypeOK, MonerodTypeOK, Block
    <3>2. spc = "scan"
      BY DEF Scan
    <3> QED BY <1>0, <3>1, <3>2, ScannedRange, FullWindow DEF ScannerInv, IInv, TypeOK, MonerodTypeOK
  <2>2. g \in Int /\ height - g \notin ScannedBlocks
    BY <2>1
  <2>3. OnlyAt(g, keys, K)
    <3> SUFFICES ASSUME NEW j \in ScannedBlocks, NEW tx \in Owned(blocks[j].txs, keys)
                 PROVE  Item(tx, height - j) \notin K
      BY DEF OnlyAt
    <3>1. j \in DOMAIN blocks
      BY <2>1
    <3>2. blocks[j] = chain[height - j] /\ height - j \in 0..(len - 1)
      BY <1>0, <3>1, WindowIsChain DEF ScannerInv
    <3>3. tx \in chain[height - j].txs /\ tx \in Tx /\ keys[KeyOf[tx]] = tx
      BY <2>1, <3>2 DEF Owned, Recognised
    <3> HIDE DEF K, keys
    <3> QED BY <1>1, <3>2, <3>3
  <2>4. IInv
    BY DEF ScannerInv
  <2> HIDE DEF g, K, keys
  <2> QED BY <1>0, <2>2, <2>3, <2>4, BlocksFound
<1>3. Among(two, K) = 0
  <2> DEFINE none == NoHeight
  <2>1. none \in Nat \cup {NoHeight}
    OBVIOUS
  <2>2. ASSUME NEW tx \in D PROVE Item(tx, NoHeight) \notin K
    <3>1. tx \in Tx /\ keys[KeyOf[tx]] = tx
      BY <1>0, DiscoveredOwnKeeps DEF DiscoveredOwn
    <3> HIDE DEF K, keys
    <3> QED BY <1>1, <3>1
  <2> HIDE DEF D, K, none
  <2>3. Among(FoundIn(D, none), K) = Cardinality({tx \in D : Item(tx, none) \in K})
    BY <1>0, <2>1, AmongFoundIn
  <2>4. {tx \in D : Item(tx, none) \in K} = {}
    BY <2>2 DEF none
  <2> QED BY <2>3, <2>4, FS_EmptySet DEF none
<1>4. Among(found', K) = 0
  <2> HIDE DEF one, two, K
  <2>1. Among(one \o two, K) = Among(one, K) + Among(two, K)
    BY <1>0, AmongConcat
  <2> QED BY <1>0, <1>2, <1>3, <2>1
<1>5. \A i \in DOMAIN found' : found'[i] \notin K
  <2> DEFINE list == found'
  <2>1. list \in Seq(FoundValue) /\ Among(list, K) = 0
    BY <1>0, <1>4
  <2> HIDE DEF list, K
  <2>2. \A i \in DOMAIN list : list[i] \notin K
    BY <2>1, NoneAmong
  <2> QED BY <2>2 DEF list
<1> QED
  BY <1>0, <1>5 DEF Unbacked, FoundBacked

(* Nothing is counted of an empty list.                                    *)
LEMMA NothingAmong ==
    ASSUME NEW s, s = <<>>, NEW K
    PROVE  Among(s, K) = 0
<1>1. Spots(s, K) = {}
  BY DEF Spots
<1> QED
  BY <1>1, AmongNone

(* The steps that leave what is found to update_invoices.                  *)
LEMMA FoundWaits ==
    ASSUME ScannerInv, [ScannerNext]_scannerVars, spc' = "update", restarts' = 0
    PROVE  \/ Scan
           \/ /\ UNCHANGED <<spc, found, height, updated>>
              /\ ~\E p \in pending : SaveInvoice(p)
<1>0. Course /\ restarts \in Nat
  BY DEF ScannerInv, StoreTypes
<1>1. ScanStep => Scan
  BY <1>0 DEF ScanStep, StartScanner, InitPool, FetchInitial, FinishNew, RefreshTable, BeginScan, UpdateBlocks,
       BlocksUpdated, QueryPool, FetchPool, UpdateInvoices, SaveInvoice, SaveHeight, Course, scanVars
<1>2. ~Failure
  BY <1>0 DEF Failure, BlockRpcFails, PoolRpcFails, PoolTakenForEmpty, StoreFails, GiveUp,
       ScanTransactionsFails, KeyRefused, SaveFails, Stop, Crash, Forget
<1>3. (\/ NewInvoice
       \/ \E id \in DOMAIN invoices : RemoveInvoice(id)
       \/ \E tx \in Tx : Pay(tx)
       \/ DaemonMoves
       \/ UNCHANGED scannerVars) => UNCHANGED <<spc, found, height, updated>>
  BY DEF NewInvoice, DrawSubaddress, InsertInvoice, RemoveInvoice, Pay, DaemonMoves, cacheVars, scanVars, scannerVars
<1>4. (\E p \in pending : SaveInvoice(p)) => spc' = "save"
  BY DEF SaveInvoice
<1> QED
  BY <1>1, <1>2, <1>3, <1>4 DEF ScannerNext

(* What an invoice keeps and what it is about to get count no key twice.   *)
LEMMA FoundOnceKeeps ==
    ASSUME ScannerInv, Once, [ScannerNext]_scannerVars, restarts' = 0, branch' = 0, AmountsTell
    PROVE  FoundOnce'
<1> SUFFICES ASSUME spc' = "update"
             PROVE  /\ FoundBacked'
                    /\ \A k \in Key :
                          /\ Among(found', FoundOf(k)) <= 1
                          /\ \A id \in DOMAIN invoices' :
                                Among(invoices'[id].transfers, {t \in OfKey(k) : OlderThan(t, DeepestUpdate')})
                                  + Among(found', FoundOf(k)) <= 1
  BY DEF FoundOnce
<1>0. \A id \in DOMAIN invoices : invoices[id].transfers \in Seq(TransferValue)
  BY DEF ScannerInv, StoreTypes, InvoiceValue, TransferValue
<1>1. CASE Scan
  <2>1. UNCHANGED <<invoices, height>> /\ updated' = updated
    BY <1>1 DEF Scan, TakeResult
  <2>2. DeepestUpdate' = DeepestUpdate
    BY <2>1 DEF DeepestUpdate
  <2>3. MinedOnce /\ PoolApart /\ DiscoveredOwn /\ NothingYet
    BY DEF Once
  <2>4. FoundBacked'
    BY <1>1, <2>3, ScanBacks
  <2>5. found' \in Seq(FoundValue)
    BY <1>1, ScanTypes DEF ScannerInv
  <2>6. ASSUME NEW k \in Key, NEW id \in DOMAIN invoices
        PROVE  Among(invoices[id].transfers, {t \in OfKey(k) : OlderThan(t, DeepestUpdate)})
                 + Among(found', FoundOf(k)) <= 1
    <3> DEFINE ts == invoices[id].transfers
    <3>1. ts \in Seq(TransferValue) /\ Sound(ts) /\ (firstScan => ts = <<>>)
      BY <1>0, <2>3 DEF Once, NothingYet
    <3> HIDE DEF ts
    <3>2. Among(ts, {t \in OfKey(k) : OlderThan(t, DeepestUpdate)}) + Among(found', FoundOf(k)) <= 1
      BY <1>1, <2>3, <3>1, ScanAddsOnce
    <3> QED BY <3>2 DEF ts
  <2>7. ASSUME NEW k \in Key PROVE Among(found', FoundOf(k)) <= 1
    <3> DEFINE ts == <<>>
               Old == {t \in OfKey(k) : OlderThan(t, DeepestUpdate)}
    <3>0. ts = <<>> /\ ts \in Seq(TransferValue) /\ DOMAIN ts = {}
      OBVIOUS
    <3> HIDE DEF ts, Old
    <3>1. Sound(ts)
      BY <3>0, NothingAmong DEF Sound
    <3>2. Among(ts, Old) = 0
      BY <3>0, NothingAmong
    <3>3. firstScan => ts = <<>>
      BY <3>0
    <3>4. ts \in Seq(TransferValue)
      BY <3>0
    <3>5. Among(ts, Old) + Among(found', FoundOf(k)) <= 1
      BY <1>1, <2>3, <3>1, <3>3, <3>4, ScanAddsOnce DEF Old
    <3>6. Among(found', FoundOf(k)) \in Nat
      BY <2>5, SpotsFinite
    <3> QED BY <3>2, <3>5, <3>6
  <2> QED BY <2>1, <2>2, <2>4, <2>6, <2>7
<1>2. CASE UNCHANGED <<spc, found, height, updated>> /\ ~\E p \in pending : SaveInvoice(p)
  <2>1. FoundOnce /\ spc = "update" /\ found \in Seq(FoundValue)
    BY <1>2 DEF Once, ScannerInv, StoreTypes
  <2>2. DeepestUpdate' = DeepestUpdate
    BY <1>2 DEF DeepestUpdate
  <2>3. FoundBacked'
    BY <1>2, <2>1, BackedOn DEF FoundOnce, FoundBacked
  <2>4. ASSUME NEW k \in Key PROVE Among(found, FoundOf(k)) <= 1 /\ Among(found, FoundOf(k)) \in Nat
    BY <2>1, SpotsFinite DEF FoundOnce
  <2>5. ASSUME NEW k \in Key, NEW id \in DOMAIN invoices'
        PROVE  Among(invoices'[id].transfers, {t \in OfKey(k) : OlderThan(t, DeepestUpdate)})
                 + Among(found, FoundOf(k)) <= 1
    <3> DEFINE Old == {t \in OfKey(k) : OlderThan(t, DeepestUpdate)}
    <3>1. CASE id \in DOMAIN invoices /\ invoices'[id] = invoices[id]
      BY <2>1, <3>1 DEF FoundOnce
    <3>2. CASE Fresh(id)
      <4> DEFINE ts == invoices'[id].transfers
      <4>1. ts = <<>>
        BY <3>2 DEF Fresh
      <4> HIDE DEF ts, Old
      <4>2. Among(ts, Old) = 0
        BY <4>1, NothingAmong
      <4>3. Among(ts, Old) + Among(found, FoundOf(k)) <= 1
        BY <2>4, <4>2
      <4> QED BY <4>3 DEF ts, Old
    <3> QED BY <1>2, <3>1, <3>2, WhoWrote
  <2> QED BY <1>2, <2>2, <2>3, <2>4, <2>5
<1> QED
  BY <1>1, <1>2, FoundWaits

(* What update_invoices makes of an invoice is sound.                      *)
LEMMA UpdateSound ==
    ASSUME ScannerInv, Once, spc = "update", NEW id \in DOMAIN invoices
    PROVE  Sound(UpdateInvoice(id, invoices[id]).transfers)
<1> DEFINE old == invoices[id]
           ts == UpdateInvoice(id, old).transfers
<1>0. /\ old \in InvoiceValue /\ height \in Nat /\ found \in Seq(FoundValue)
      /\ old.transfers \in Seq(TransferValue) /\ Sound(old.transfers) /\ FoundOnce
  BY DEF ScannerInv, StoreTypes, IInv, TypeOK, Once, InvoiceValue, TransferValue
<1>1. ts \in Seq(TransferValue)
  <2>1. UpdateInvoice(id, old) \in InvoiceValue
    BY <1>0, UpdateType
  <2> QED BY <2>1 DEF InvoiceValue, TransferValue
<1>2. ASSUME NEW J
      PROVE  Among(ts, J) = Among(old.transfers, {t \in J : OlderThan(t, DeepestUpdate)})
                            + Among(found, ForSub(id.sub, id.creation - 1, J))
  BY <1>0, AmongUpdate
<1>3. ASSUME NEW i \in DOMAIN ts PROVE Backed(ts[i])
  <2> DEFINE J == {t \in TransferValue : ~Backed(t)}
             Old == {t \in J : OlderThan(t, DeepestUpdate)}
             New == ForSub(id.sub, id.creation - 1, J)
  <2>1. Spots(old.transfers, Old) = {}
    BY <1>0 DEF Spots, Sound
  <2>2. Spots(found, New) = {}
    BY <1>0 DEF Spots, FoundOnce, FoundBacked, ForSub
  <2>3. Among(ts, J) = Among(old.transfers, Old) + Among(found, New)
    BY <1>2
  <2> HIDE DEF J, Old, New, ts
  <2>4. Among(old.transfers, Old) = 0 /\ Among(found, New) = 0
    BY <2>1, <2>2, AmongNone
  <2>5. Among(ts, J) = 0
    BY <2>3, <2>4
  <2>6. ts[i] \notin J /\ ts[i] \in TransferValue
    BY <1>1, <2>5, NoneAmong
  <2> QED BY <2>6 DEF J
<1>4. ASSUME NEW k \in Key PROVE Among(ts, OfKey(k)) <= 1
  <2> DEFINE J == OfKey(k)
             Old == {t \in J : OlderThan(t, DeepestUpdate)}
             New == ForSub(id.sub, id.creation - 1, J)
             All == FoundOf(k)
  <2>1. Among(old.transfers, Old) + Among(found, All) <= 1
    BY <1>0 DEF FoundOnce
  <2>2. New \cap FoundValue \subseteq All
    BY DEF ForSub, OfKey, FoundOf
  <2>3. Among(ts, J) = Among(old.transfers, Old) + Among(found, New)
    BY <1>2
  <2> HIDE DEF J, Old, New, All, ts
  <2>4. /\ Among(found, New) <= Among(found, All)
        /\ Among(found, New) \in Nat /\ Among(found, All) \in Nat
    BY <1>0, <2>2, AmongLess
  <2>5. Among(old.transfers, Old) \in Nat
    BY <1>0, SpotsFinite
  <2>6. Among(ts, J) <= 1
    BY <2>1, <2>3, <2>4, <2>5
  <2> QED BY <2>6 DEF J
<1> QED
  BY <1>3, <1>4 DEF Sound

(* Updates that wait to be saved stay sound,                               *)
LEMMA PendingSound ==
    ASSUME ScannerInv, Once, [ScannerNext]_scannerVars, restarts' = 0, branch' = 0,
           NEW p \in pending'
    PROVE  Sound(p.invoice.transfers)'
<1> SUFFICES Sound(p.invoice.transfers)
  BY BackedOn
<1>1. CASE p \in pending
  BY <1>1 DEF Once
<1>2. CASE UpdateInvoices
  <2>1. PICK id \in DOMAIN invoices :
           p = [id |-> id, invoice |-> Recalculate(UpdateInvoice(id, invoices[id]))]
    BY <1>2 DEF UpdateInvoices
  <2> DEFINE inv == UpdateInvoice(id, invoices[id])
  <2>2. p.invoice = Recalculate(inv)
    BY <2>1
  <2>3. inv \in InvoiceValue
    BY UpdateType DEF ScannerInv, StoreTypes, IInv, TypeOK
  <2>4. Sound(inv.transfers)
    BY <1>2, UpdateSound DEF UpdateInvoices
  <2> HIDE DEF inv
  <2>5. Recalculate(inv) \in Recounted(inv)
    BY <2>3, RecalculateType
  <2>6. Recalculate(inv).transfers = inv.transfers
    BY <2>5 DEF Recounted
  <2> QED BY <2>2, <2>4, <2>6
<1>3. pending' \subseteq pending \/ UpdateInvoices
  BY InvoicesKept DEF SaveInvoice, NewInvoice, DrawSubaddress, InsertInvoice, RemoveInvoice, scanVars
<1> QED
  BY <1>1, <1>2, <1>3

(* and so do the stored invoices.                                          *)
LEMMA InvoicesSound ==
    ASSUME ScannerInv, Once, [ScannerNext]_scannerVars, restarts' = 0, branch' = 0
    PROVE  (\A id \in DOMAIN invoices : Sound(invoices[id].transfers))'
<1>1. ASSUME NEW ts, Sound(ts) PROVE Sound(ts)'
  BY <1>1, BackedOn
<1>2. ASSUME NEW id \in DOMAIN invoices'
      PROVE  \E ts : Sound(ts)' /\ invoices'[id].transfers = ts
  <2>1. CASE id \in DOMAIN invoices /\ invoices'[id] = invoices[id]
    <3>1. PICK ts : ts = invoices[id].transfers
      OBVIOUS
    <3>2. Sound(ts)
      BY <2>1, <3>1 DEF Once
    <3> QED BY <1>1, <2>1, <3>1, <3>2
  <2>2. CASE Fresh(id)
    <3>1. PICK ts : ts = <<>>
      OBVIOUS
    <3>2. Sound(ts)
      <4>1. DOMAIN ts = {}
        BY <3>1
      <4> QED BY <3>1, <4>1, NothingAmong DEF Sound
    <3> QED BY <1>1, <2>2, <3>1, <3>2 DEF Fresh
  <2>3. CASE \E p \in pending : SaveInvoice(p) /\ p.id = id /\ invoices'[id] = p.invoice
    <3>1. PICK p \in pending : invoices'[id] = p.invoice
      BY <2>3
    <3>2. PICK ts : ts = p.invoice.transfers
      OBVIOUS
    <3>3. Sound(ts)
      BY <3>2 DEF Once
    <3> QED BY <1>1, <3>1, <3>2, <3>3
  <2> QED BY <2>1, <2>2, <2>3, WhoWrote
<1> QED
  BY <1>2 DEF Sound, Backed

(* Nothing is mined or counted at first.                                   *)
LEMMA OnceStarts == ScannerInit => Once
<1> SUFFICES ASSUME ScannerInit PROVE Once
  OBVIOUS
<1>1. \A g \in 0..(len - 1) : chain[g].txs = {}
  BY DEF ScannerInit, MonerodInit
<1>2. /\ pool = {} /\ spc = "off" /\ firstScan /\ DOMAIN invoices = {} /\ pending = {}
      /\ discovered = {}
  BY DEF ScannerInit, MonerodInit, Empty
<1> QED
  BY <1>1, <1>2 DEF Once, MinedOnce, PoolApart, DiscoveredOwn, NothingYet, FoundOnce

(* Every step keeps it, also one that fails.                               *)
LEMMA OnceSteps ==
    ASSUME AmountsTell, OnceInv, [ScannerNext]_scannerVars
    PROVE  OnceInv'
<1>1. ScannerInv /\ ScannerInv'
  BY ScannerSteps DEF OnceInv
<1>2. ASSUME restarts' = 0, branch' = 0 PROVE Once'
  <2>1. Once
    BY <1>1, <1>2, StraightOn DEF OnceInv
  <2>2. MinedOnce /\ PoolApart /\ DiscoveredOwn /\ NothingYet
    BY <2>1 DEF Once
  <2>3. MinedOnce' /\ PoolApart' /\ DiscoveredOwn' /\ NothingYet'
    BY <1>1, <1>2, <2>2, MinedOnceKeeps, PoolApartKeeps, DiscoveredOwnKeeps, NothingYetKeeps
  <2>4. FoundOnce'
    BY <1>1, <1>2, <2>1, FoundOnceKeeps
  <2>5. (\A id \in DOMAIN invoices : Sound(invoices[id].transfers))'
    BY <1>1, <1>2, <2>1, InvoicesSound
  <2>6. \A p \in pending' : Sound(p.invoice.transfers)'
    BY <1>1, <1>2, <2>1, PendingSound
  <2> QED BY <2>3, <2>4, <2>5, <2>6 DEF Once
<1> QED
  BY <1>1, <1>2 DEF OnceInv

(* The invariant behind counting once, for every instance in which the     *)
(* amounts tell the keys apart.                                            *)
THEOREM OnceInvariance == AmountsTell => (ScannerSpec => []OnceInv)
<1> SUFFICES ASSUME AmountsTell PROVE ScannerSpec => []OnceInv
  OBVIOUS
<1>1. ScannerInit => OnceInv
  BY ScannerStarts, OnceStarts DEF OnceInv
<1>2. OnceInv /\ [ScannerNext]_scannerVars => OnceInv'
  BY OnceSteps
<1> QED
  BY <1>1, <1>2, PTL DEF ScannerSpec

(* No failing call, at whatever point of a scan, makes update_invoices     *)
(* count an output key twice, as long as the chain only grows and the      *)
(* scanner runs on.                                                        *)
THEOREM CreditsOnce == AmountsTell => (ScannerSpec => []CreditedOnceDespiteFaults)
<1>1. OnceInv => CreditedOnceDespiteFaults
  <2> SUFFICES ASSUME OnceInv, restarts = 0, branch = 0, NEW id \in DOMAIN invoices, NEW k \in Key
               PROVE  Cardinality({i \in DOMAIN invoices[id].transfers :
                                     invoices[id].transfers[i].amount \in KeyAmounts(k)}) <= 1
    BY DEF CreditedOnceDespiteFaults, CreditedOnce, KeyAmounts
  <2> DEFINE ts == invoices[id].transfers
  <2>1. ts \in Seq(TransferValue) /\ Among(ts, OfKey(k)) <= 1
    BY DEF OnceInv, Once, Sound, ScannerInv, StoreTypes, InvoiceValue, TransferValue
  <2> HIDE DEF ts
  <2>2. {i \in DOMAIN ts : ts[i].amount \in KeyAmounts(k)} = Spots(ts, OfKey(k))
    BY <2>1 DEF Spots, OfKey
  <2>3. Cardinality({i \in DOMAIN ts : ts[i].amount \in KeyAmounts(k)}) <= 1
    BY <2>1, <2>2 DEF Among
  <2> QED BY <2>3 DEF ts
<1> QED
  BY <1>1, OnceInvariance, PTL
-----------------------------------------------------------------------------
(***************************************************************************)
(* What counts as confirmed has been mined.                                *)
(***************************************************************************)
(* The coins of the first n transfers.                                     *)
Coins(ts, n) == UNION {{i} \X (1..ts[i].amount) : i \in 1..n}

(* paid_height is the height of a transfer with which, and with those      *)
(* before it, the invoice is paid in full.                                 *)
Reckoned(inv) ==
    inv.paidHeight # NoHeight =>
        \E j \in DOMAIN inv.transfers :
            /\ inv.paidHeight = inv.transfers[j].height
            /\ Cardinality(Coins(inv.transfers, j)) >= inv.requested

(* Transfers are listed by height, those of the txpool last.               *)
NotLater(t, u) == u.height = NoHeight \/ (t.height # NoHeight /\ t.height <= u.height)
HeightOrder == {w \in TransferValue \X TransferValue : NotLater(w[1], w[2])}
FoundOrder == {w \in FoundValue \X FoundValue : NotLater(w[1].transfer, w[2].transfer)}

(* The elements of s are in the order R.                                   *)
OrderedBy(s, R) == \A i, j \in DOMAIN s : i < j => <<s[i], s[j]>> \in R

(* What an invoice is at any time.                                         *)
Proper(inv) ==
    /\ inv.requested = Requested /\ inv.required = Required
    /\ \A i \in DOMAIN inv.transfers : inv.transfers[i].amount \in Amounts
    /\ OrderedBy(inv.transfers, HeightOrder)
    /\ Reckoned(inv)

(* What the transfers of a scan are, and that they come after those that   *)
(* update_invoices keeps.                                                  *)
FoundProper ==
    spc = "update" =>
        /\ \A i \in DOMAIN found : found[i].transfer.amount \in Amounts
        /\ OrderedBy(found, FoundOrder)
        /\ \A id \in DOMAIN invoices :
              \A i \in DOMAIN invoices[id].transfers, j \in DOMAIN found :
                  OlderThan(invoices[id].transfers[i], DeepestUpdate)
                      => NotLater(invoices[id].transfers[i], found[j].transfer)

(* An invoice that counts something is dated within the scanned height.    *)
Dated ==
    \A id \in DOMAIN invoices :
        invoices[id].transfers = <<>> \/ invoices[id].current <= height + 1

(* What the invoices count as paid at each point of a scan.                *)
Reckoning ==
    /\ FoundProper
    /\ Dated
    /\ \A id \in DOMAIN invoices : Proper(invoices[id])
    /\ \A p \in pending : Proper(p.invoice)

(* The inductive invariant of what counts as confirmed.                    *)
ReckoningInv == LedgerInv /\ MinedOnce /\ (Undisturbed => Reckoning)

(* One coin for every unit of an amount.                                   *)
LEMMA CoinsOfOne ==
    ASSUME NEW x, NEW a \in Nat
    PROVE  IsFiniteSet({x} \X (1..a)) /\ Cardinality({x} \X (1..a)) = a
<1>1. IsFiniteSet({x}) /\ Cardinality({x}) = 1
  BY FS_Singleton
<1>2. IsFiniteSet(1..a) /\ Cardinality(1..a) = a
  <2>1. IsFiniteSet(1..a) /\ Cardinality(1..a) = IF 1 > a THEN 0 ELSE a - 1 + 1
    BY FS_Interval
  <2> QED BY <2>1
<1>3. IsFiniteSet({x} \X (1..a)) /\ Cardinality({x} \X (1..a)) = Cardinality({x}) * Cardinality(1..a)
  BY <1>1, <1>2, FS_Product
<1> QED
  BY <1>1, <1>2, <1>3

(* A transfer adds its amount to the coins.                                *)
LEMMA CoinsGrow ==
    ASSUME NEW ts, NEW n \in Nat \ {0}, ts[n].amount \in Nat, IsFiniteSet(Coins(ts, n - 1))
    PROVE  /\ IsFiniteSet(Coins(ts, n))
           /\ Cardinality(Coins(ts, n)) = Cardinality(Coins(ts, n - 1)) + ts[n].amount
<1> DEFINE A == Coins(ts, n - 1)
           B == {n} \X (1..ts[n].amount)
<1>1. Coins(ts, n) = A \cup B
  <2>1. 1..n = (1..(n - 1)) \cup {n}
    OBVIOUS
  <2> QED BY <2>1 DEF Coins
<1>2. A \cap B = {}
  <2>1. n \notin 1..(n - 1)
    OBVIOUS
  <2>2. ASSUME NEW c \in A, c \in B PROVE FALSE
    <3>1. PICK i \in 1..(n - 1) : c \in {i} \X (1..ts[i].amount)
      BY DEF Coins
    <3>2. c[1] = i /\ c[1] = n
      BY <2>2, <3>1
    <3> QED BY <2>1, <3>2
  <2> QED BY <2>2
<1>3. IsFiniteSet(B) /\ Cardinality(B) = ts[n].amount
  BY CoinsOfOne
<1> HIDE DEF A, B
<1>4. IsFiniteSet(A)
  BY DEF A
<1>5. IsFiniteSet(A \cup B) /\ Cardinality(A \cup B) = Cardinality(A) + Cardinality(B) - Cardinality(A \cap B)
  BY <1>3, <1>4, FS_Union
<1>6. Cardinality(A \cap B) = 0 /\ Cardinality(A) \in Nat
  BY <1>2, <1>4, FS_EmptySet, FS_CardinalityType
<1> QED
  BY <1>1, <1>3, <1>5, <1>6 DEF A

(* What Recalculate counts as paid are the coins of the transfers.         *)
LEMMA RecalculateReckons ==
    ASSUME NEW inv \in InvoiceValue
    PROVE  Reckoned(Recalculate(inv))
<1> DEFINE ts == inv.transfers
           n == Len(ts)
<1>1. ts \in Seq(TransferValue)
  BY DEF InvoiceValue, TransferValue
<1>2. n \in Nat /\ DOMAIN ts = 1..n /\ \A i \in 1..n : ts[i] \in TransferValue
  BY <1>1
<1>3. PICK f \in [0..n -> Recounted(inv)] : Sums(f, inv) /\ Recalculate(inv) = f[n]
  BY RecalculateRuns
<1>4. \A i \in 0..n : /\ f[i] \in InvoiceValue /\ f[i].transfers = ts /\ f[i].requested = inv.requested
                      /\ f[i] = IF i = 0 THEN [inv EXCEPT !.paid = 0, !.paidHeight = NoHeight]
                                ELSE AddTransfer(f[i - 1], ts[i])
  BY <1>3 DEF Sums, Recounted
<1> DEFINE Reached(i) == \E j \in 1..i : /\ f[i].paidHeight = ts[j].height
                                          /\ Cardinality(Coins(ts, j)) >= inv.requested
           M == {i \in 0..n : /\ IsFiniteSet(Coins(ts, i)) /\ f[i].paid = Cardinality(Coins(ts, i))
                              /\ f[i].paidHeight # NoHeight => Reached(i)}
<1>5. 0 \in M
  <2>1. f[0].paid = 0 /\ f[0].paidHeight = NoHeight
    <3>1. f[0] = [inv EXCEPT !.paid = 0, !.paidHeight = NoHeight]
      BY <1>2, <1>4
    <3> QED BY <3>1 DEF InvoiceValue
  <2>2. Coins(ts, 0) = {}
    BY DEF Coins
  <2> QED BY <1>2, <2>1, <2>2, FS_EmptySet
<1>6. ASSUME NEW i \in 1..n, i - 1 \in M PROVE i \in M
  <2>1. /\ i \in 0..n /\ i # 0 /\ i - 1 \in 0..n /\ i \in Nat \ {0} /\ ts[i] \in TransferValue
        /\ f[i - 1] \in InvoiceValue /\ f[i - 1].requested = inv.requested
    BY <1>2, <1>4
  <2>2. /\ IsFiniteSet(Coins(ts, i - 1)) /\ f[i - 1].paid = Cardinality(Coins(ts, i - 1))
        /\ f[i - 1].paidHeight # NoHeight => Reached(i - 1)
    BY <1>6
  <2>3. ts[i].amount \in Nat /\ f[i - 1].paid \in Nat /\ inv.requested \in Nat
    BY <2>1 DEF TransferValue, InvoiceValue
  <2>4. f[i] = AddTransfer(f[i - 1], ts[i])
    BY <1>4, <2>1
  <2>5. /\ f[i].paid = f[i - 1].paid + ts[i].amount
        /\ f[i].paidHeight = IF f[i].paid >= inv.requested /\ f[i - 1].paidHeight = NoHeight
                             THEN ts[i].height ELSE f[i - 1].paidHeight
    BY <2>1, <2>4 DEF AddTransfer, InvoiceValue
  <2>6. IsFiniteSet(Coins(ts, i)) /\ Cardinality(Coins(ts, i)) = Cardinality(Coins(ts, i - 1)) + ts[i].amount
    BY <2>1, <2>2, <2>3, CoinsGrow
  <2>7. f[i].paid = Cardinality(Coins(ts, i))
    BY <2>2, <2>5, <2>6
  <2>8. ASSUME f[i].paidHeight # NoHeight PROVE Reached(i)
    <3>1. CASE f[i].paid >= inv.requested /\ f[i - 1].paidHeight = NoHeight
      <4>1. i \in 1..i /\ f[i].paidHeight = ts[i].height /\ Cardinality(Coins(ts, i)) >= inv.requested
        BY <2>1, <2>5, <2>7, <3>1
      <4> QED BY <4>1
    <3>2. CASE ~(f[i].paid >= inv.requested /\ f[i - 1].paidHeight = NoHeight)
      <4>1. f[i].paidHeight = f[i - 1].paidHeight
        BY <2>5, <3>2
      <4>2. Reached(i - 1)
        BY <2>2, <2>8, <4>1
      <4>3. PICK j \in 1..(i - 1) : /\ f[i - 1].paidHeight = ts[j].height
                                    /\ Cardinality(Coins(ts, j)) >= inv.requested
        BY <4>2
      <4>4. j \in 1..i
        BY <2>1
      <4> QED BY <4>1, <4>3, <4>4
    <3> QED BY <3>1, <3>2
  <2> QED BY <2>1, <2>6, <2>7, <2>8
<1> HIDE DEF M
<1>7. \A i \in 0..n : i \in M
  BY <1>2, <1>5, <1>6, Passes
<1>8. n \in 0..n /\ n \in M
  BY <1>2, <1>7
<1>9. f[n].paidHeight # NoHeight => Reached(n)
  BY <1>8 DEF M
<1>10. f[n].transfers = ts /\ f[n].requested = inv.requested
  BY <1>4, <1>8
<1> HIDE DEF ts, n
<1> QED
  BY <1>2, <1>3, <1>9, <1>10 DEF Reckoned
-----------------------------------------------------------------------------
(* A list that goes on with what is not earlier stays in order.            *)
LEMMA OrderedConcat ==
    ASSUME NEW T, NEW a \in Seq(T), NEW b \in Seq(T), NEW R, OrderedBy(a, R), OrderedBy(b, R),
           \A i \in DOMAIN a, j \in DOMAIN b : <<a[i], b[j]>> \in R
    PROVE  OrderedBy(a \o b, R)
<1> DEFINE c == a \o b
           m == Len(a)
<1>1. /\ m \in Nat /\ Len(b) \in Nat /\ DOMAIN a = 1..m /\ DOMAIN b = 1..Len(b)
      /\ DOMAIN c = 1..(m + Len(b))
      /\ \A i \in 1..(m + Len(b)) : c[i] = IF i <= m THEN a[i] ELSE b[i - m]
  OBVIOUS
<1> HIDE DEF c, m
<1>2. ASSUME NEW i \in DOMAIN c, NEW j \in DOMAIN c, i < j PROVE <<c[i], c[j]>> \in R
  <2>1. CASE j <= m
    <3>1. i \in DOMAIN a /\ j \in DOMAIN a /\ c[i] = a[i] /\ c[j] = a[j]
      BY <1>1, <1>2, <2>1
    <3> QED BY <1>2, <3>1 DEF OrderedBy
  <2>2. CASE i > m
    <3>1. i - m \in DOMAIN b /\ j - m \in DOMAIN b /\ c[i] = b[i - m] /\ c[j] = b[j - m] /\ i - m < j - m
      BY <1>1, <1>2, <2>2
    <3> QED BY <3>1 DEF OrderedBy
  <2>3. CASE i <= m /\ j > m
    <3>1. i \in DOMAIN a /\ j - m \in DOMAIN b /\ c[i] = a[i] /\ c[j] = b[j - m]
      BY <1>1, <1>2, <2>3
    <3> QED BY <3>1
  <2> QED BY <1>1, <2>1, <2>2, <2>3
<1> QED
  BY <1>2 DEF OrderedBy, c

(* What is retained comes in the order in which it was there.              *)
LEMMA OrderedRetain ==
    ASSUME NEW T, NEW s \in Seq(T), NEW K, NEW R, OrderedBy(s, R)
    PROVE  OrderedBy(Retain(s, K), R)
<1> DEFINE N == Len(s)
           V == {x \in T : x \in K}
<1>1. N \in Nat /\ DOMAIN s = 1..N /\ \A n \in 1..N : s[n] \in T
  OBVIOUS
<1>2. PICK f \in [0..N -> Seq(V)] : Retains(f, s, K) /\ Retain(s, K) = f[N]
  BY RetainRuns
<1> DEFINE From(n) == \A i \in DOMAIN f[n] : \E j \in 1..n : f[n][i] = s[j]
           M == {n \in 0..N : OrderedBy(f[n], R) /\ From(n)}
<1>3. 0 \in M
  <2>1. f[0] = <<>>
    BY <1>1, <1>2 DEF Retains
  <2>2. DOMAIN f[0] = {}
    BY <2>1
  <2> QED BY <1>1, <2>2 DEF OrderedBy
<1>4. ASSUME NEW n \in 1..N, n - 1 \in M PROVE n \in M
  <2>1. n \in 0..N /\ n # 0 /\ n - 1 \in 0..N /\ f[n - 1] \in Seq(V)
        /\ OrderedBy(f[n - 1], R) /\ From(n - 1)
    BY <1>1, <1>4
  <2>2. f[n] = IF s[n] \in K THEN Append(f[n - 1], s[n]) ELSE f[n - 1]
    BY <1>2, <2>1 DEF Retains
  <2>3. \A j \in 1..(n - 1) : j \in 1..n /\ j \in DOMAIN s /\ n \in DOMAIN s /\ j < n
    BY <1>1
  <2>4. CASE s[n] \in K
    <3> DEFINE g == f[n - 1]
               m == Len(g)
    <3>1. /\ m \in Nat /\ DOMAIN g = 1..m /\ DOMAIN f[n] = 1..(m + 1)
          /\ f[n][m + 1] = s[n] /\ \A i \in 1..m : f[n][i] = g[i]
      <4>1. g \in Seq(V) /\ s[n] \in V
        BY <1>1, <2>1, <2>4
      <4> HIDE DEF V, g
      <4> QED BY <2>2, <2>4, <4>1 DEF g
    <3>2. \A i \in 1..m : <<g[i], s[n]>> \in R
      BY <2>1, <2>3, <3>1 DEF OrderedBy
    <3>3. From(n)
      <4>1. ASSUME NEW i \in DOMAIN f[n] PROVE \E j \in 1..n : f[n][i] = s[j]
        <5>1. CASE i \in 1..m
          BY <2>1, <2>3, <3>1, <5>1
        <5>2. CASE i = m + 1
          <6>1. n \in 1..n
            OBVIOUS
          <6> QED BY <3>1, <5>2, <6>1
        <5> QED BY <3>1, <5>1, <5>2
      <4> QED BY <4>1
    <3>4. OrderedBy(f[n], R)
      <4>1. ASSUME NEW i \in DOMAIN f[n], NEW j \in DOMAIN f[n], i < j PROVE <<f[n][i], f[n][j]>> \in R
        <5>1. CASE j \in 1..m
          <6>1. i \in 1..m
            BY <3>1, <4>1, <5>1
          <6> QED BY <2>1, <3>1, <4>1, <5>1, <6>1 DEF OrderedBy
        <5>2. CASE j = m + 1
          <6>1. i \in 1..m
            BY <3>1, <4>1, <5>2
          <6> QED BY <3>1, <3>2, <5>2, <6>1
        <5> QED BY <3>1, <5>1, <5>2
      <4> QED BY <4>1 DEF OrderedBy
    <3> QED BY <2>1, <3>3, <3>4
  <2>5. CASE s[n] \notin K
    BY <2>1, <2>2, <2>3, <2>5
  <2> QED BY <2>4, <2>5
<1> HIDE DEF M
<1>5. \A n \in 0..N : n \in M
  BY <1>1, <1>3, <1>4, Passes
<1> QED
  BY <1>1, <1>2, <1>5 DEF M

(* What the transactions of a block, or of the txpool, are listed as.      *)
LEMMA FoundInHas ==
    ASSUME NEW txs \in SUBSET Tx, NEW h, NEW i \in DOMAIN FoundIn(txs, h)
    PROVE  FoundIn(txs, h)[i].transfer.height = h /\ FoundIn(txs, h)[i].transfer.amount \in Amounts
<1> DEFINE s == SetToSeq(txs)
<1>1. IsFiniteSet(txs)
  BY ScannerAssumption, FS_Subset DEF ScannerAssumption
<1>2. s \in Bijection(1..Cardinality(txs), txs)
  BY <1>1, Listed
<1>3. FoundIn(txs, h) = [k \in 1..Cardinality(txs) |-> Item(s[k], h)]
  BY DEF FoundIn, Item
<1> HIDE DEF s
<1>4. i \in 1..Cardinality(txs) /\ FoundIn(txs, h)[i] = Item(s[i], h)
  BY <1>3
<1>5. s[i] \in Tx
  BY <1>2, <1>4 DEF Bijection, Injection
<1> QED
  BY <1>4, <1>5 DEF Item, Transfer, Amounts

(* The elements of a list of a scan lie within these heights.              *)
Within(s, low, high) ==
    \A i \in DOMAIN s : s[i].transfer.amount \in Amounts /\ s[i].transfer.height \in low..high

(* A list goes on in order with a higher block.                            *)
LEMMA GoesOn ==
    ASSUME NEW a \in Seq(FoundValue), NEW b \in Seq(FoundValue), NEW low \in Nat, NEW h \in Nat,
           OrderedBy(a, FoundOrder), Within(a, low, h - 1), Within(b, h, h), low <= h
    PROVE  OrderedBy(a \o b, FoundOrder) /\ Within(a \o b, low, h)
<1>1. \A i \in DOMAIN a : /\ a[i] \in FoundValue /\ a[i].transfer.amount \in Amounts
                          /\ a[i].transfer.height \in low..(h - 1)
  BY DEF Within
<1>2. \A i \in DOMAIN b : /\ b[i] \in FoundValue /\ b[i].transfer.amount \in Amounts
                          /\ b[i].transfer.height = h
  BY DEF Within
<1>3. \A t, u \in FoundValue :
         t.transfer.height \in low..h /\ u.transfer.height = h => <<t, u>> \in FoundOrder
  BY DEF FoundOrder, NotLater, NoHeight
<1>4. \A i \in DOMAIN a : a[i].transfer.height \in low..h
  BY <1>1
<1>5. OrderedBy(b, FoundOrder)
  <2>1. h \in low..h
    OBVIOUS
  <2> QED BY <1>2, <1>3, <2>1 DEF OrderedBy
<1>6. \A i \in DOMAIN a, j \in DOMAIN b : <<a[i], b[j]>> \in FoundOrder
  BY <1>1, <1>2, <1>3, <1>4
<1>7. OrderedBy(a \o b, FoundOrder)
  BY <1>5, <1>6, OrderedConcat
<1>8. Within(a \o b, low, h)
  <2>1. ASSUME NEW i \in DOMAIN (a \o b)
        PROVE  (\E j \in DOMAIN a : (a \o b)[i] = a[j]) \/ (\E j \in DOMAIN b : (a \o b)[i] = b[j])
    <3>1. CASE i <= Len(a)
      <4>1. i \in DOMAIN a /\ (a \o b)[i] = a[i]
        BY <3>1
      <4> QED BY <4>1
    <3>2. CASE ~(i <= Len(a))
      <4>1. i - Len(a) \in DOMAIN b /\ (a \o b)[i] = b[i - Len(a)]
        BY <3>2
      <4> QED BY <4>1
    <3> QED BY <3>1, <3>2
  <2>2. h \in low..h
    OBVIOUS
  <2> QED BY <1>1, <1>2, <1>4, <2>1, <2>2 DEF Within
<1> QED
  BY <1>7, <1>8

(* scan_blocks lists the blocks from the oldest on.                        *)
LEMMA BlocksOrdered ==
    ASSUME IInv, bcpc = "done", NEW keys
    PROVE  /\ OrderedBy(FoundInBlocks(keys), FoundOrder)
           /\ Within(FoundInBlocks(keys), height - ScannedCount + 1, height)
<1> DEFINE n == ScannedCount
           of(i) == Owned(blocks[n - i].txs, keys)
           seqs == [i \in 1..n |-> FoundIn(of(i), height - (n - i))]
           low == height - n + 1
<1>1. /\ n \in 0..CacheSize /\ ScannedBlocks = 0..(n - 1) /\ Cardinality(ScannedBlocks) = n
      /\ height \in Nat /\ height >= CacheSize - 1 /\ CacheSize \in Nat
      /\ \A k \in 0..(CacheSize - 1) : blocks[k].txs \in SUBSET Tx
  BY ScannedRange DEF IInv, TypeOK
<1>2. FoundInBlocks(keys) = FlattenSeq(seqs)
  BY <1>1 DEF FoundInBlocks
<1>3. /\ low \in Nat /\ n \in Nat
      /\ \A i \in 1..n : /\ n - i \in 0..(CacheSize - 1) /\ height - (n - i) \in Nat
                         /\ low <= height - (n - i) /\ low + (i - 1) = height - (n - i)
  BY <1>1
<1>4. \A i \in 1..n : of(i) \in SUBSET Tx
  BY <1>1, <1>3 DEF Owned, Recognised
<1> HIDE DEF n, of, low
<1>5. ASSUME NEW i \in 1..n
      PROVE  /\ FoundIn(of(i), height - (n - i)) \in Seq(FoundValue)
             /\ Within(FoundIn(of(i), height - (n - i)), height - (n - i), height - (n - i))
  <2> DEFINE h == height - (n - i)
             txs == of(i)
  <2>1. h \in Nat /\ txs \in SUBSET Tx /\ h \in h..h
    BY <1>3, <1>4
  <2> HIDE DEF h, txs
  <2>2. FoundIn(txs, h) \in Seq(FoundValue)
    BY <2>1, AmongFoundIn
  <2>3. Within(FoundIn(txs, h), h, h)
    BY <2>1, FoundInHas DEF Within
  <2> QED BY <2>2, <2>3 DEF h, txs
<1>6. seqs \in [1..n -> Seq(FoundValue)] /\ Len(seqs) = n
      /\ \A i \in 1..n : Within(seqs[i], height - (n - i), height - (n - i))
  BY <1>3, <1>5
<1> HIDE DEF seqs
<1>7. CASE n = 0
  <2>1. FlattenSeq(seqs) = seqs /\ DOMAIN seqs = {}
    BY <1>6, <1>7 DEF FlattenSeq
  <2> QED BY <1>2, <2>1 DEF OrderedBy, Within
<1>8. CASE n # 0
  <2>1. PICK f \in [1..n -> Seq(FoundValue)] : Flattens(f, seqs) /\ FlattenSeq(seqs) = f[n]
    BY <1>3, <1>6, <1>8, FlattenRuns
  <2> DEFINE M == {m \in 0..n : m > 0 => /\ OrderedBy(f[m], FoundOrder)
                                         /\ Within(f[m], low, height - (n - m))}
  <2>2. 0 \in M
    BY <1>3
  <2>3. ASSUME NEW m \in 1..n, m - 1 \in M PROVE m \in M
    <3> DEFINE h == height - (n - m)
               b == seqs[m]
    <3>1. f[m] = IF m = 1 THEN b ELSE f[m - 1] \o b
      BY <1>6, <2>1 DEF Flattens
    <3>2. b \in Seq(FoundValue) /\ Within(b, h, h) /\ h \in Nat /\ low <= h
      BY <1>3, <1>6
    <3>3. CASE m = 1
      <4>1. f[m] = <<>> \o b
        BY <3>1, <3>2, <3>3
      <4>2. PICK a \in Seq(FoundValue) : a = <<>> /\ DOMAIN a = {}
        <5>1. <<>> \in Seq(FoundValue) /\ DOMAIN <<>> = {}
          OBVIOUS
        <5> QED BY <5>1
      <4>3. OrderedBy(a, FoundOrder) /\ Within(a, low, h - 1)
        BY <4>2 DEF OrderedBy, Within
      <4> HIDE DEF b, h
      <4>4. OrderedBy(a \o b, FoundOrder) /\ Within(a \o b, low, h)
        <5>1. a \in Seq(FoundValue)
          BY <4>2
        <5> QED BY <1>3, <3>2, <4>3, <5>1, GoesOn
      <4> QED BY <1>3, <4>1, <4>2, <4>4 DEF h
    <3>4. CASE m # 1
      <4>1. m - 1 \in 1..n /\ m - 1 > 0 /\ height - (n - (m - 1)) = h - 1
        BY <1>1, <1>3, <3>4
      <4>2. f[m - 1] \in Seq(FoundValue) /\ OrderedBy(f[m - 1], FoundOrder) /\ Within(f[m - 1], low, h - 1)
        BY <2>3, <4>1
      <4> HIDE DEF b, h
      <4>3. OrderedBy(f[m - 1] \o b, FoundOrder) /\ Within(f[m - 1] \o b, low, h)
        BY <1>3, <3>2, <4>2, GoesOn
      <4>4. f[m] = f[m - 1] \o b
        BY <3>1, <3>4
      <4>5. OrderedBy(f[m], FoundOrder) /\ Within(f[m], low, height - (n - m))
        BY <4>3, <4>4 DEF h
      <4> QED BY <1>3, <4>5
    <3> QED BY <3>3, <3>4
  <2> HIDE DEF M
  <2>4. \A m \in 0..n : m \in M
    BY <1>3, <2>2, <2>3, Passes
  <2>5. n \in 0..n /\ n > 0 /\ height - (n - n) = height
    BY <1>1, <1>3, <1>8
  <2> QED BY <1>2, <2>1, <2>4, <2>5 DEF M, low, n
<1> QED
  BY <1>7, <1>8

(* What a scan finds: the blocks in order, and then the txpool.            *)
LEMMA ScanOrders ==
    ASSUME ScannerInv, Scan
    PROVE  /\ OrderedBy(found', FoundOrder)
           /\ \A j \in DOMAIN found' :
                 /\ found'[j].transfer.amount \in Amounts
                 /\ \/ found'[j].transfer.height = NoHeight
                    \/ /\ found'[j].transfer.height \in Nat
                       /\ found'[j].transfer.height >= height - ScannedCount + 1
<1> DEFINE one == FoundInBlocks(outputKeys')
           two == FoundIn(discovered', NoHeight)
           low == height - ScannedCount + 1
<1>1. /\ bcpc = "done" /\ one \in Seq(FoundValue) /\ two \in Seq(FoundValue) /\ found' = one \o two
      /\ discovered' \in SUBSET Tx
  <2>1. bcpc = "done"
    BY DEF Scan, TakeResult
  <2> QED BY <2>1, ScanTypes DEF ScannerInv
<1>2. OrderedBy(one, FoundOrder) /\ Within(one, low, height) /\ low \in Nat /\ height \in Nat
  <2> DEFINE keys == outputKeys'
  <2>1. IInv
    BY DEF ScannerInv
  <2>2. low \in Nat /\ height \in Nat
    BY <1>1, <2>1, ScannedRange DEF IInv, TypeOK
  <2> HIDE DEF keys
  <2>3. OrderedBy(FoundInBlocks(keys), FoundOrder) /\ Within(FoundInBlocks(keys), low, height)
    BY <1>1, <2>1, BlocksOrdered
  <2> QED BY <2>2, <2>3 DEF keys
<1>3. \A j \in DOMAIN two : two[j].transfer.height = NoHeight /\ two[j].transfer.amount \in Amounts
  <2> DEFINE D == discovered'
             none == NoHeight
  <2> HIDE DEF D, none
  <2>1. D \in SUBSET Tx
    BY <1>1 DEF D
  <2>2. \A j \in DOMAIN FoundIn(D, none) : /\ FoundIn(D, none)[j].transfer.height = none
                                           /\ FoundIn(D, none)[j].transfer.amount \in Amounts
    BY <2>1, FoundInHas
  <2> QED BY <2>2 DEF D, none
<1> HIDE DEF one, two, low
<1>4. \A t, u \in FoundValue : u.transfer.height = NoHeight => <<t, u>> \in FoundOrder
  BY DEF FoundOrder, NotLater
<1>5. OrderedBy(two, FoundOrder)
  BY <1>1, <1>3, <1>4 DEF OrderedBy
<1>6. \A i \in DOMAIN one, j \in DOMAIN two : <<one[i], two[j]>> \in FoundOrder
  BY <1>1, <1>3, <1>4
<1>7. OrderedBy(one \o two, FoundOrder)
  BY <1>1, <1>2, <1>5, <1>6, OrderedConcat
<1>8. ASSUME NEW j \in DOMAIN (one \o two)
      PROVE  \/ \E i \in DOMAIN one : (one \o two)[j] = one[i]
             \/ \E i \in DOMAIN two : (one \o two)[j] = two[i]
  <2>1. CASE j <= Len(one)
    <3>1. j \in DOMAIN one /\ (one \o two)[j] = one[j]
      BY <1>1, <2>1
    <3> QED BY <3>1
  <2>2. CASE ~(j <= Len(one))
    <3>1. j - Len(one) \in DOMAIN two /\ (one \o two)[j] = two[j - Len(one)]
      BY <1>1, <2>2
    <3> QED BY <3>1
  <2> QED BY <2>1, <2>2
<1>9. \A i \in DOMAIN one : /\ one[i].transfer.amount \in Amounts
                            /\ one[i].transfer.height \in Nat /\ one[i].transfer.height >= low
  BY <1>2 DEF Within
<1> QED
  BY <1>1, <1>3, <1>7, <1>8, <1>9 DEF low

(* What update_invoices makes of an invoice.                               *)
LEMMA UpdateOrdered ==
    ASSUME ScannerInv, FoundProper, spc = "update", NEW id \in DOMAIN invoices, Proper(invoices[id])
    PROVE  LET ts == UpdateInvoice(id, invoices[id]).transfers
           IN  /\ OrderedBy(ts, HeightOrder)
               /\ \A i \in DOMAIN ts : ts[i].amount \in Amounts
<1> DEFINE old == invoices[id]
           ts == old.transfers
           K == {t \in ToSet(ts) : OlderThan(t, DeepestUpdate)}
           J == {f \in ToSet(found) : f.sub = id.sub /\ NewerThan(f.transfer, id.creation - 1)}
           mine == Retain(found, J)
           a == Kept(ts)
           b == FoundFor(id.sub, id.creation - 1)
<1>0. /\ old \in InvoiceValue /\ height \in Nat /\ found \in Seq(FoundValue)
      /\ ts \in Seq(TransferValue)
  BY DEF ScannerInv, StoreTypes, IInv, TypeOK, InvoiceValue, TransferValue
<1>1. /\ UpdateInvoice(id, old).transfers = a \o b
      /\ a \in Seq(TransferValue) /\ b \in Seq(TransferValue)
  <2>1. a \in Seq(TransferValue)
    BY <1>0, KeptTransfers
  <2>2. b \in Seq(TransferValue)
    BY <1>0, FoundTransfers
  <2> QED BY <1>0, <2>1, <2>2, UpdateType
<1>2. a = Retain(ts, K) /\ b = [i \in 1..Len(mine) |-> mine[i].transfer]
  BY DEF Kept, FoundFor
<1>3. /\ OrderedBy(ts, HeightOrder) /\ OrderedBy(found, FoundOrder)
      /\ \A i \in DOMAIN ts : ts[i].amount \in Amounts
      /\ \A i \in DOMAIN found : found[i].transfer.amount \in Amounts
      /\ \A i \in DOMAIN ts, j \in DOMAIN found :
            OlderThan(ts[i], DeepestUpdate) => NotLater(ts[i], found[j].transfer)
  BY DEF Proper, FoundProper
<1>4. \A t \in K : OlderThan(t, DeepestUpdate) /\ \E i \in DOMAIN ts : t = ts[i]
  BY DEF ToSet
<1>5. \A f \in J : \E i \in DOMAIN found : f = found[i]
  BY DEF ToSet
<1> HIDE DEF ts, K, J
<1>6. OrderedBy(a, HeightOrder) /\ OrderedBy(mine, FoundOrder)
  BY <1>0, <1>2, <1>3, OrderedRetain
<1>7. \A i \in DOMAIN a : a[i] \in TransferValue /\ a[i] \in K
  <2>1. Retain(ts, K) \in Seq({x \in TransferValue : x \in K})
    BY <1>0, RetainType
  <2> HIDE DEF a
  <2> QED BY <1>2, <2>1
<1>8. mine \in Seq(FoundValue) /\ \A i \in DOMAIN mine : mine[i] \in FoundValue /\ mine[i] \in J
  <2>1. mine \in Seq({x \in FoundValue : x \in J})
    BY <1>0, RetainType
  <2> HIDE DEF mine
  <2> QED BY <2>1
<1> HIDE DEF a, b, mine
<1>9. /\ DOMAIN b = DOMAIN mine
      /\ \A i \in DOMAIN b : b[i] = mine[i].transfer /\ b[i] \in TransferValue
  <2>1. Len(mine) \in Nat /\ DOMAIN mine = 1..Len(mine)
    BY <1>8
  <2>2. \A i \in DOMAIN mine : mine[i].transfer \in TransferValue
    BY <1>8 DEF FoundValue
  <2> QED BY <1>2, <2>1, <2>2
<1>10. OrderedBy(b, HeightOrder)
  <2>1. \A f, g \in FoundValue : <<f, g>> \in FoundOrder => <<f.transfer, g.transfer>> \in HeightOrder
    BY DEF FoundOrder, HeightOrder, FoundValue
  <2> QED BY <1>6, <1>8, <1>9, <2>1 DEF OrderedBy
<1>11. ASSUME NEW i \in DOMAIN a, NEW j \in DOMAIN b PROVE <<a[i], b[j]>> \in HeightOrder
  <2>1. PICK k \in DOMAIN ts : a[i] = ts[k]
    BY <1>4, <1>7
  <2>2. PICK m \in DOMAIN found : mine[j] = found[m]
    BY <1>5, <1>8, <1>9
  <2>3. NotLater(a[i], b[j])
    <3>1. OlderThan(ts[k], DeepestUpdate) /\ b[j] = found[m].transfer
      BY <1>4, <1>7, <1>9, <2>1, <2>2
    <3> QED BY <1>3, <2>1, <3>1
  <2> QED BY <1>7, <1>9, <2>3 DEF HeightOrder
<1>12. OrderedBy(a \o b, HeightOrder)
  BY <1>1, <1>6, <1>10, <1>11, OrderedConcat
<1>13. ASSUME NEW i \in DOMAIN (a \o b) PROVE (a \o b)[i].amount \in Amounts
  <2>1. CASE i <= Len(a)
    <3>1. i \in DOMAIN a /\ (a \o b)[i] = a[i]
      BY <1>1, <2>1
    <3> QED BY <1>3, <1>4, <1>7, <3>1
  <2>2. CASE ~(i <= Len(a))
    <3>1. i - Len(a) \in DOMAIN b /\ (a \o b)[i] = b[i - Len(a)]
      BY <1>1, <2>2
    <3> DEFINE j == i - Len(a)
    <3> HIDE DEF j
    <3>2. j \in DOMAIN b /\ (a \o b)[i] = b[j]
      BY <3>1 DEF j
    <3>3. PICK m \in DOMAIN found : mine[j] = found[m]
      BY <1>5, <1>8, <1>9, <3>2
    <3> QED BY <1>3, <1>9, <3>2, <3>3
  <2> QED BY <2>1, <2>2
<1> QED
  BY <1>1, <1>12, <1>13

(* and what Recalculate makes of that.                                     *)
LEMMA UpdateProper ==
    ASSUME ScannerInv, FoundProper, spc = "update", NEW id \in DOMAIN invoices, Proper(invoices[id])
    PROVE  Proper(Recalculate(UpdateInvoice(id, invoices[id])))
<1> DEFINE old == invoices[id]
           inv == UpdateInvoice(id, old)
<1>0. old \in InvoiceValue /\ height \in Nat /\ found \in Seq(FoundValue)
  BY DEF ScannerInv, StoreTypes, IInv, TypeOK
<1>1. inv \in InvoiceValue
  BY <1>0, UpdateType
<1>2. inv.requested = Requested /\ inv.required = Required
  <2>1. inv.requested = old.requested /\ inv.required = old.required
    BY <1>0 DEF UpdateInvoice, InvoiceValue
  <2> QED BY <2>1 DEF Proper
<1>3. OrderedBy(inv.transfers, HeightOrder) /\ \A i \in DOMAIN inv.transfers : inv.transfers[i].amount \in Amounts
  BY UpdateOrdered
<1> HIDE DEF inv
<1>4. Recalculate(inv) \in Recounted(inv) /\ Reckoned(Recalculate(inv))
  BY <1>1, RecalculateType, RecalculateReckons
<1>5. /\ Recalculate(inv).transfers = inv.transfers
      /\ Recalculate(inv).requested = inv.requested /\ Recalculate(inv).required = inv.required
  BY <1>4 DEF Recounted
<1> QED
  BY <1>2, <1>3, <1>4, <1>5 DEF Proper, inv

(* A new invoice.                                                          *)
LEMMA NewProper ==
    ASSUME ScannerInv, NEW new \in drawn, InsertInvoice(new), NEW id \in DOMAIN invoices',
           id \notin DOMAIN invoices
    PROVE  Proper(invoices'[id])
<1> DEFINE inv == NewInvoiceValue(Requested, Required, new.creation, ExpiresIn)
<1>1. /\ inv.transfers = <<>> /\ inv.requested = Requested /\ inv.required = Required
      /\ DOMAIN invoices' = DOMAIN invoices \cup {new}
      /\ invoices'[new] = inv
  BY NewInvoiceType DEF ScannerInv
<1>2. inv.paidHeight = NoHeight
  BY DEF NewInvoiceValue
<1> HIDE DEF inv
<1>3. invoices'[id] = inv /\ DOMAIN inv.transfers = {}
  BY <1>1
<1> QED
  BY <1>1, <1>2, <1>3 DEF Proper, OrderedBy, Reckoned

(* Invoices and pending updates stay as they have to be,                   *)
LEMMA ProperKeeps ==
    ASSUME ScannerInv, Reckoning, [ScannerNext]_scannerVars
    PROVE  /\ \A id \in DOMAIN invoices' : Proper(invoices'[id])
           /\ \A p \in pending' : Proper(p.invoice)
<1>1. ASSUME NEW id \in DOMAIN invoices' PROVE Proper(invoices'[id])
  <2>1. CASE id \in DOMAIN invoices /\ invoices'[id] = invoices[id]
    BY <2>1 DEF Reckoning
  <2>2. CASE \E p \in pending : invoices'[id] = p.invoice
    BY <2>2 DEF Reckoning
  <2>3. CASE NewInvoice /\ ~(id \in DOMAIN invoices /\ invoices'[id] = invoices[id])
    <3> PICK new \in drawn : InsertInvoice(new)
      BY <2>3 DEF NewInvoice, DrawSubaddress, storeVars
    <3>1. id \notin DOMAIN invoices
      <4>1. \A i \in DOMAIN invoices : invoices'[i] = invoices[i]
        BY NewInvoiceType DEF ScannerInv
      <4> QED BY <2>3, <4>1
    <3> QED BY <3>1, NewProper
  <2> QED BY <2>1, <2>2, <2>3, WhoWrote
<1>2. ASSUME NEW p \in pending' PROVE Proper(p.invoice)
  <2>1. CASE p \in pending
    BY <2>1 DEF Reckoning
  <2>2. CASE UpdateInvoices
    <3>1. PICK id \in DOMAIN invoices :
             p = [id |-> id, invoice |-> Recalculate(UpdateInvoice(id, invoices[id]))]
      BY <2>2 DEF UpdateInvoices
    <3>2. p.invoice = Recalculate(UpdateInvoice(id, invoices[id]))
      BY <3>1
    <3>3. spc = "update"
      BY <2>2 DEF UpdateInvoices
    <3> QED BY <3>2, <3>3, UpdateProper DEF Reckoning
  <2>3. pending' \subseteq pending \/ UpdateInvoices
    BY InvoicesKept DEF SaveInvoice, NewInvoice, DrawSubaddress, InsertInvoice, RemoveInvoice, scanVars
  <2> QED BY <2>1, <2>2, <2>3
<1> QED
  BY <1>1, <1>2

(* so does what waits for update_invoices,                                 *)
LEMMA FoundProperKeeps ==
    ASSUME ScannerInv, FirstScans, FoundProper, [ScannerNext]_scannerVars, restarts' = 0, restarts = 0
    PROVE  FoundProper'
<1> SUFFICES ASSUME spc' = "update"
             PROVE  /\ \A i \in DOMAIN found' : found'[i].transfer.amount \in Amounts
                    /\ OrderedBy(found', FoundOrder)
                    /\ \A id \in DOMAIN invoices' :
                          \A i \in DOMAIN invoices'[id].transfers, j \in DOMAIN found' :
                              OlderThan(invoices'[id].transfers[i], DeepestUpdate')
                                  => NotLater(invoices'[id].transfers[i], found'[j].transfer)
  BY DEF FoundProper, OrderedBy
<1>1. CASE Scan
  <2>1. UNCHANGED <<invoices, height>> /\ updated' = updated
    BY <1>1 DEF Scan, TakeResult
  <2>2. DeepestUpdate' = DeepestUpdate
    BY <2>1 DEF DeepestUpdate
  <2>3. ASSUME NEW id \in DOMAIN invoices, NEW i \in DOMAIN invoices[id].transfers,
               NEW j \in DOMAIN found', OlderThan(invoices[id].transfers[i], DeepestUpdate)
        PROVE  NotLater(invoices[id].transfers[i], found'[j].transfer)
    <3>1. CASE firstScan
      <4>1. invoices[id].transfers = <<>>
        BY <3>1 DEF FirstScans
      <4> QED BY <4>1
    <3>2. CASE ~firstScan
      <4> DEFINE t == invoices[id].transfers[i]
                 h == found'[j].transfer.height
      <4>1. h = NoHeight \/ (h \in Nat /\ h >= DeepestUpdate)
        <5>1. h = NoHeight \/ (h \in Nat /\ h >= height - ScannedCount + 1)
          BY <1>1, ScanOrders
        <5>2. height - ScannedCount + 1 = DeepestUpdate
          BY <3>2 DEF ScannedCount, DeepestUpdate
        <5> QED BY <5>1, <5>2
      <4>2. t.height # NoHeight /\ t.height < DeepestUpdate /\ t.height \in Nat \cup {NoHeight}
        <5>1. invoices[id] \in InvoiceValue
          BY DEF ScannerInv, StoreTypes
        <5>2. invoices[id].transfers \in Seq(TransferValue)
          BY <5>1 DEF InvoiceValue, TransferValue
        <5>3. t \in TransferValue
          BY <5>2
        <5> QED BY <2>3, <5>3 DEF OlderThan, TransferValue
      <4>3. DeepestUpdate \in Int
        BY DEF DeepestUpdate, ScannerInv, IInv, TypeOK
      <4> HIDE DEF t, h
      <4>4. h = NoHeight \/ (t.height # NoHeight /\ t.height <= h)
        BY <4>1, <4>2, <4>3
      <4> QED BY <4>4 DEF NotLater, t, h
    <3> QED BY <3>1, <3>2
  <2>4. /\ \A i \in DOMAIN found' : found'[i].transfer.amount \in Amounts
        /\ OrderedBy(found', FoundOrder)
    BY <1>1, ScanOrders
  <2> QED BY <2>1, <2>2, <2>3, <2>4
<1>2. CASE UNCHANGED <<spc, found, height, updated>> /\ ~\E p \in pending : SaveInvoice(p)
  <2>1. spc = "update"
    BY <1>2
  <2>2. DeepestUpdate' = DeepestUpdate
    BY <1>2 DEF DeepestUpdate
  <2>3. ASSUME NEW id \in DOMAIN invoices', NEW i \in DOMAIN invoices'[id].transfers
        PROVE  id \in DOMAIN invoices /\ invoices'[id] = invoices[id]
    <3>1. CASE Fresh(id)
      <4>1. DOMAIN invoices'[id].transfers = {}
        BY <3>1 DEF Fresh
      <4> QED BY <4>1
    <3> QED BY <1>2, <3>1, WhoWrote
  <2> QED BY <1>2, <2>1, <2>2, <2>3 DEF FoundProper
<1> QED
  BY <1>1, <1>2, FoundWaits

(* and no invoice is dated above the scanned height.                       *)
LEMMA DatedKeeps ==
    ASSUME ScannerInv, FirstScans, PendingHold, Dated, [ScannerNext]_scannerVars,
           Clean', restarts' = 0, restarts = 0
    PROVE  Dated'
<1>0. /\ height \in Nat /\ Course
      /\ \A id \in DOMAIN invoices : invoices[id].current \in Nat
  BY DEF ScannerInv, IInv, TypeOK, StoreTypes, InvoiceValue
<1>1. CASE StartScanner
  <2>1. firstScan /\ UNCHANGED invoices
    BY <1>1 DEF StartScanner, FirstScans, storeVars
  <2> QED BY <2>1 DEF FirstScans, Dated
<1>2. CASE \E p \in pending : SaveInvoice(p)
  <2> PICK p \in pending : SaveInvoice(p)
    BY <1>2
  <2>1. height' = height /\ p.invoice.current = height + 1
    BY DEF SaveInvoice, PendingHold, cacheVars
  <2>2. DOMAIN invoices' = DOMAIN invoices
        /\ \A id \in DOMAIN invoices' : invoices'[id] \in {invoices[id], p.invoice}
    BY DEF SaveInvoice, Replace
  <2> QED BY <1>0, <2>1, <2>2 DEF Dated
<1>3. CASE height' >= height /\ height' \in Nat /\ ~\E p \in pending : SaveInvoice(p)
  <2> SUFFICES ASSUME NEW id \in DOMAIN invoices'
               PROVE  invoices'[id].transfers = <<>> \/ invoices'[id].current <= height' + 1
    BY DEF Dated
  <2>1. CASE id \in DOMAIN invoices /\ invoices'[id] = invoices[id]
    BY <1>0, <1>3, <2>1 DEF Dated
  <2>2. CASE Fresh(id)
    BY <2>2 DEF Fresh
  <2> QED BY <1>3, <2>1, <2>2, WhoWrote
<1>4. ~(Stop \/ Crash)
  BY DEF Stop, Crash, Forget
<1>5. ASSUME ~StartScanner, ~\E p \in pending : SaveInvoice(p)
      PROVE  height' >= height /\ height' \in Nat
  <2> USE <1>0
  <2>1. CASE InitPool \/ FetchInitial \/ FinishNew \/ RefreshTable \/ BeginScan \/ UpdateBlocks \/ BlocksUpdated
    BY <2>1 DEF InitPool, FetchInitial, FinishNew, RefreshTable, BeginScan, UpdateBlocks, BlocksUpdated, InitFetch,
         InitDone, QueryHeight, FetchNext, PushBlock, FixKeep, FixRepair, FixDone, cacheVars
  <2>2. CASE QueryPool \/ FetchPool \/ Scan \/ UpdateInvoices \/ SaveHeight
    BY <2>2 DEF QueryPool, FetchPool, Scan, TakeResult, UpdateInvoices, SaveHeight, cacheVars
  <2>3. CASE InitTooShort /\ BlockRpcFails
    BY <2>3 DEF InitTooShort
  <2>4. CASE \/ NewInvoice
             \/ \E id \in DOMAIN invoices : RemoveInvoice(id)
             \/ \E tx \in Tx : Pay(tx)
             \/ DaemonMoves
             \/ UNCHANGED scannerVars
    <3>1. height' = height
      BY <2>4 DEF NewInvoice, DrawSubaddress, InsertInvoice, RemoveInvoice, Pay, DaemonMoves, cacheVars, scannerVars
    <3> QED BY <3>1
  <2> QED BY <1>4, <1>5, <2>1, <2>2, <2>3, <2>4, QuietSteps DEF ScanStep
<1> QED
  BY <1>1, <1>2, <1>3, <1>5

(* Nothing is counted at first.                                            *)
LEMMA ReckoningStarts == ScannerInit => MinedOnce /\ Reckoning
<1> SUFFICES ASSUME ScannerInit PROVE MinedOnce /\ Reckoning
  OBVIOUS
<1>1. \A g \in 0..(len - 1) : chain[g].txs = {}
  BY DEF ScannerInit, MonerodInit
<1>2. DOMAIN invoices = {} /\ pending = {} /\ spc = "off"
  BY DEF ScannerInit, Empty
<1> QED
  BY <1>1, <1>2 DEF MinedOnce, Reckoning, FoundProper, Dated

(* Every step keeps it.                                                    *)
LEMMA ReckoningSteps ==
    ASSUME Shallow, ReckoningInv, [ScannerNext]_scannerVars
    PROVE  ReckoningInv'
<1>1. LedgerInv /\ LedgerInv' /\ ScannerInv /\ MinedOnce
  BY LedgerSteps DEF ReckoningInv, LedgerInv
<1>2. MinedOnce'
  BY <1>1, MinedOnceKeeps
<1>3. ASSUME Undisturbed' PROVE Reckoning'
  <2>1. Clean' /\ restarts' = 0
    BY <1>3 DEF Undisturbed, Clean
  <2>2. Clean
    BY <1>1, <2>1, QuietSteps
  <2>3. restarts = 0
    <3>1. restarts \in Nat
      BY <1>1 DEF ScannerInv, StoreTypes
    <3>2. ~(Stop \/ Crash)
      BY <2>1, <3>1 DEF Stop, Crash, Forget
    <3>3. ScanStep \/ (InitTooShort /\ BlockRpcFails) => restarts' = restarts
      BY DEF ScanStep, StartScanner, InitPool, FetchInitial, FinishNew, RefreshTable, BeginScan, UpdateBlocks,
           BlocksUpdated, QueryPool, FetchPool, Scan, UpdateInvoices, SaveInvoice, SaveHeight,
           BlockRpcFails
    <3>4. (\/ NewInvoice
           \/ \E id \in DOMAIN invoices : RemoveInvoice(id)
           \/ \E tx \in Tx : Pay(tx)
           \/ DaemonMoves
           \/ UNCHANGED scannerVars) => restarts' = restarts
      BY DEF NewInvoice, DrawSubaddress, InsertInvoice, RemoveInvoice, Pay, DaemonMoves, scannerVars
    <3> QED BY <1>1, <2>1, <3>2, <3>3, <3>4, QuietSteps
  <2>4. Reckoning /\ FirstScans /\ PendingHold
    BY <1>1, <2>2, <2>3 DEF ReckoningInv, Undisturbed, Clean, LedgerInv, Ledger
  <2>5. FoundProper' /\ Dated'
    BY <1>1, <2>1, <2>3, <2>4, FoundProperKeeps, DatedKeeps DEF Reckoning
  <2>6. /\ \A id \in DOMAIN invoices' : Proper(invoices'[id])
        /\ \A p \in pending' : Proper(p.invoice)
    BY <1>1, <2>4, ProperKeeps
  <2>7. /\ (\A id \in DOMAIN invoices : Proper(invoices[id]))'
        /\ (\A p \in pending : Proper(p.invoice))'
    BY <2>6 DEF Proper, OrderedBy, Reckoned, HeightOrder
  <2> QED BY <2>5, <2>7 DEF Reckoning
<1> QED
  BY <1>1, <1>2, <1>3 DEF ReckoningInv

(* The invariant of what the invoices count as paid.                       *)
THEOREM ReckoningInvariance == Shallow => (ScannerSpec => []ReckoningInv)
<1> SUFFICES ASSUME Shallow PROVE ScannerSpec => []ReckoningInv
  OBVIOUS
<1>1. ScannerInit => ReckoningInv
  BY ScannerStarts, LedgerStarts, ReckoningStarts DEF LedgerInv, ReckoningInv
<1>2. ReckoningInv /\ [ScannerNext]_scannerVars => ReckoningInv'
  BY ReckoningSteps
<1> QED
  BY <1>1, <1>2, PTL DEF ScannerSpec

(* Between two scans, when the window agrees with the daemon.              *)
Settled == spc = "loop" /\ ~firstScan /\ OnChain /\ Undisturbed

(* The places at which an invoice lists a transfer, the transactions of    *)
(* the chain behind it, and the former matched with the latter.            *)
Places(id, t) == Spots(invoices[id].transfers, {t})
Paying(id, t) == Payments(id, t.amount, t.height)
Match(id, t) == CHOOSE b : b \in Injection(Places(id, t), Paying(id, t))

(* A set fits into one that has at least as many elements.                 *)
LEMMA Fits ==
    ASSUME NEW S, NEW T, IsFiniteSet(S), IsFiniteSet(T), Cardinality(S) <= Cardinality(T)
    PROVE  \E b : b \in Injection(S, T)
<1> DEFINE m == Cardinality(S)
           n == Cardinality(T)
<1>1. m \in Nat /\ ExistsBijection(1..m, S) /\ n \in Nat /\ ExistsBijection(1..n, T)
  BY FS_CardinalityType
<1>2. m <= n
  OBVIOUS
<1> HIDE DEF m, n
<1>3. ExistsInjection(S, 1..m)
  <2>1. ExistsBijection(S, 1..m)
    BY <1>1, Fun_ExistsBijSymmetric
  <2> QED BY <2>1 DEF ExistsBijection, ExistsInjection, Bijection
<1>4. ExistsInjection(1..m, 1..n)
  <2> DEFINE f == [i \in 1..m |-> i]
  <2>1. f \in Injection(1..m, 1..n)
    BY <1>1, <1>2 DEF Injection, IsInjective
  <2> HIDE DEF f
  <2> QED BY <2>1 DEF ExistsInjection
<1>5. ExistsInjection(1..n, T)
  BY <1>1 DEF ExistsBijection, ExistsInjection, Bijection
<1>6. ExistsInjection(S, T)
  BY <1>3, <1>4, <1>5, Fun_ExistsInjTransitive
<1> QED
  BY <1>6 DEF ExistsInjection

(* A transfer is listed no more often than the chain pays it.              *)
LEMMA Matched ==
    ASSUME ReckoningInv, Settled, NEW id \in DOMAIN invoices,
           NEW t \in TransferValue, t.amount \in Amounts, t.height \in 0..height
    PROVE  Match(id, t) \in Injection(Places(id, t), Paying(id, t))
<1>1. LedgerInv /\ ScannerInv /\ Clean /\ restarts = 0
  BY DEF ReckoningInv, LedgerInv, Settled, Undisturbed, Clean
<1>2. t = Transfer(t.amount, t.height)
  BY DEF TransferValue, Transfer
<1>3. CountOf(Transfer(t.amount, t.height), invoices[id].transfers)
        <= Cardinality(Payments(id, t.amount, t.height))
  BY <1>1, LedgerCovers DEF Settled
<1>4. Cardinality(Places(id, t)) <= Cardinality(Paying(id, t))
  <2>1. CountOf(t, invoices[id].transfers) <= Cardinality(Payments(id, t.amount, t.height))
    BY <1>2, <1>3
  <2>2. CountOf(t, invoices[id].transfers) = Among(invoices[id].transfers, {t})
    BY CountIsAmong
  <2> QED BY <2>1, <2>2 DEF Among, Places, Paying
<1>5. IsFiniteSet(Places(id, t))
  <2>1. invoices[id].transfers \in Seq(TransferValue)
    BY <1>1 DEF ScannerInv, StoreTypes, InvoiceValue, TransferValue
  <2> QED BY <2>1, SpotsFinite DEF Places
<1>6. IsFiniteSet(Paying(id, t))
  <2>1. t.height \in 0..(len - 1)
    <3>1. bcpc = "idle" /\ IInv /\ height \in Nat /\ len \in Nat
      BY <1>1 DEF ScannerInv, Course, Settled, IInv, TypeOK, MonerodTypeOK
    <3>2. height < len
      BY <3>1, CacheNotAhead
    <3> QED BY <3>1, <3>2
  <2>2. chain[t.height].txs \in SUBSET Tx
    BY <1>1, <2>1 DEF ScannerInv, IInv, TypeOK, MonerodTypeOK, Block
  <2>3. Paying(id, t) \in SUBSET Tx
    BY <2>2 DEF Paying, Payments
  <2> QED BY <2>3, FS_Subset, ScannerAssumption DEF ScannerAssumption
<1>7. \E b : b \in Injection(Places(id, t), Paying(id, t))
  BY <1>4, <1>5, <1>6, Fits
<1> QED
  BY <1>7, Zenon DEF Match

(* So every one of the first transfers of an invoice has a transaction of  *)
(* its own.                                                                *)
LEMMA OwnTransactions ==
    ASSUME ReckoningInv, Settled, NEW id \in DOMAIN invoices, NEW j \in Nat,
           \A i \in 1..j : /\ i \in DOMAIN invoices[id].transfers
                           /\ invoices[id].transfers[i].amount \in Amounts
                           /\ invoices[id].transfers[i].height \in 0..height
    PROVE  \E e \in [1..j -> Tx] :
              /\ IsInjective(e)
              /\ \A i \in 1..j : e[i] \in Paying(id, invoices[id].transfers[i])
<1> DEFINE ts == invoices[id].transfers
           e == [i \in 1..j |-> Match(id, ts[i])[i]]
<1>1. ScannerInv /\ MinedOnce
  BY DEF ReckoningInv, LedgerInv
<1>2. ts \in Seq(TransferValue)
  BY <1>1 DEF ScannerInv, StoreTypes, InvoiceValue, TransferValue
<1>3. \A i \in 1..j : ts[i] \in TransferValue /\ i \in Places(id, ts[i])
  BY <1>2 DEF Places, Spots
<1>4. ASSUME NEW i \in 1..j PROVE Match(id, ts[i]) \in Injection(Places(id, ts[i]), Paying(id, ts[i]))
  <2>1. ts[i] \in TransferValue /\ ts[i].amount \in Amounts /\ ts[i].height \in 0..height
    BY <1>3
  <2> HIDE DEF ts
  <2> QED BY <2>1, Matched
<1>5. \A i \in 1..j : e[i] \in Paying(id, ts[i])
  BY <1>3, <1>4 DEF Injection
<1>6. height \in Nat /\ len \in Nat /\ height < len
  <2>1. bcpc = "idle" /\ IInv /\ height \in Nat /\ len \in Nat
    BY <1>1 DEF ScannerInv, Course, Settled, IInv, TypeOK, MonerodTypeOK
  <2> QED BY <2>1, CacheNotAhead
<1>7. \A i \in 1..j : ts[i].height \in 0..(len - 1)
  <2>1. \A i \in 1..j : ts[i].height \in 0..height
    OBVIOUS
  <2> HIDE DEF ts
  <2> QED BY <1>6, <2>1
<1>8. \A i \in 1..j : /\ e[i] \in chain[ts[i].height].txs
                      /\ AmountOf[e[i]] = ts[i].amount
                      /\ e[i] \in Tx
  <2>1. \A i \in 1..j : e[i] \in chain[ts[i].height].txs /\ AmountOf[e[i]] = ts[i].amount
    BY <1>5 DEF Paying, Payments
  <2>2. \A h \in 0..(len - 1) : chain[h].txs \in SUBSET Tx
    BY <1>1 DEF ScannerInv, IInv, TypeOK, MonerodTypeOK, Block
  <2> QED BY <1>7, <2>1, <2>2
<1>9. ASSUME NEW i \in 1..j, NEW k \in 1..j, e[i] = e[k] PROVE i = k
  <2>1. ts[i].amount = ts[k].amount
    BY <1>8, <1>9
  <2>2. ts[i].height = ts[k].height
    <3> HIDE DEF e, ts
    <3> QED BY <1>1, <1>7, <1>8, <1>9 DEF MinedOnce
  <2>3. ts[i] = ts[k]
    BY <1>3, <2>1, <2>2 DEF TransferValue
  <2>4. Match(id, ts[i])[i] = Match(id, ts[i])[k]
    BY <1>9, <2>3
  <2>5. i \in Places(id, ts[i]) /\ k \in Places(id, ts[i])
    BY <1>3, <2>3
  <2>6. Match(id, ts[i]) \in Injection(Places(id, ts[i]), Paying(id, ts[i]))
    BY <1>4
  <2> HIDE DEF ts, e
  <2> QED BY <2>4, <2>5, <2>6 DEF Injection, IsInjective
<1>10. e \in [1..j -> Tx]
  BY <1>8
<1>11. IsInjective(e)
  BY <1>9 DEF IsInjective
<1> HIDE DEF e
<1> QED
  BY <1>5, <1>10, <1>11

(* The coins that some transactions pay.                                   *)
Paid(txs) == UNION {{tx} \X (1..AmountOf[tx]) : tx \in txs}

(* They are finitely many.                                                 *)
LEMMA PaidFinite == ASSUME NEW txs \in SUBSET Tx PROVE IsFiniteSet(Paid(txs))
<1> DEFINE F == [tx \in txs |-> {tx} \X (1..AmountOf[tx])]
           S == {F[tx] : tx \in txs}
<1>1. IsFiniteSet(txs)
  BY FS_Subset, ScannerAssumption DEF ScannerAssumption
<1>2. IsFiniteSet(S)
  <2>1. F \in Surjection(txs, S)
    BY DEF Surjection
  <2> HIDE DEF F, S
  <2> QED BY <1>1, <2>1, FS_Surjection
<1>3. ASSUME NEW T \in S PROVE IsFiniteSet(T)
  <2>1. PICK tx \in txs : T = {tx} \X (1..AmountOf[tx])
    BY <1>3
  <2>2. AmountOf[tx] \in Nat
    BY ScannerAssumption DEF ScannerAssumption
  <2> QED BY <2>1, <2>2, CoinsOfOne
<1>4. Paid(txs) = UNION S
  BY DEF Paid
<1> HIDE DEF S
<1> QED
  BY <1>2, <1>3, <1>4, FS_UNION

(* Transfers with transactions of their own are worth no more than these.  *)
LEMMA CoinsPaid ==
    ASSUME NEW txs \in SUBSET Tx, NEW ts, NEW j \in Nat, NEW e \in [1..j -> txs], IsInjective(e),
           \A i \in 1..j : AmountOf[e[i]] = ts[i].amount
    PROVE  /\ IsFiniteSet(Coins(ts, j)) /\ IsFiniteSet(Paid(txs))
           /\ Cardinality(Coins(ts, j)) <= Cardinality(Paid(txs))
<1> DEFINE f == [c \in Coins(ts, j) |-> <<e[c[1]], c[2]>>]
<1>1. ASSUME NEW c \in Coins(ts, j)
      PROVE  c[1] \in 1..j /\ c[2] \in 1..ts[c[1]].amount /\ c = <<c[1], c[2]>>
  <2>1. PICK i \in 1..j : c \in {i} \X (1..ts[i].amount)
    BY DEF Coins
  <2> QED BY <2>1
<1>2. ASSUME NEW c \in Coins(ts, j) PROVE f[c] \in Paid(txs)
  <2>1. e[c[1]] \in txs /\ c[2] \in 1..AmountOf[e[c[1]]]
    BY <1>1
  <2>2. <<e[c[1]], c[2]>> \in {e[c[1]]} \X (1..AmountOf[e[c[1]]])
    BY <2>1
  <2>3. <<e[c[1]], c[2]>> \in Paid(txs)
    BY <2>1, <2>2 DEF Paid
  <2> QED BY <2>3
<1>3. ASSUME NEW c \in Coins(ts, j), NEW d \in Coins(ts, j), f[c] = f[d] PROVE c = d
  <2>1. e[c[1]] = e[d[1]] /\ c[2] = d[2]
    BY <1>3
  <2>2. c[1] = d[1]
    BY <1>1, <2>1 DEF IsInjective
  <2> QED BY <1>1, <2>1, <2>2
<1>4. f \in Injection(Coins(ts, j), Paid(txs))
  BY <1>2, <1>3 DEF Injection, IsInjective
<1>5. IsFiniteSet(Paid(txs))
  BY PaidFinite
<1> HIDE DEF f
<1> QED
  BY <1>4, <1>5, FS_Injection

(* What counts as confirmed, at a transfer j that pays the invoice, is     *)
(* under as many blocks as it asks for.                                    *)
LEMMA ConfirmedIsDeep ==
    ASSUME NEW inv \in InvoiceValue, Proper(inv), IsConfirmed(inv), Required >= 1,
           NEW top \in Nat, inv.transfers = <<>> \/ inv.current <= top + 1
    PROVE  \E j \in DOMAIN inv.transfers :
              /\ Cardinality(Coins(inv.transfers, j)) >= Requested
              /\ \A i \in 1..j : /\ i \in DOMAIN inv.transfers
                                 /\ inv.transfers[i].height \in 0..(top + 1 - Required)
<1> DEFINE ts == inv.transfers
<1>1. ts \in Seq(TransferValue) /\ inv.current \in Nat /\ inv.paidHeight \in Nat \cup {NoHeight}
  BY DEF InvoiceValue, TransferValue
<1>2. Required \in Nat /\ inv.required = Required /\ inv.requested = Requested
  BY ScannerAssumption DEF ScannerAssumption, Proper
<1>3. inv.paidHeight # NoHeight /\ inv.current - inv.paidHeight >= Required
  BY <1>1, <1>2 DEF IsConfirmed, Confirmations, NoHeight
<1>4. PICK j \in DOMAIN ts : inv.paidHeight = ts[j].height /\ Cardinality(Coins(ts, j)) >= inv.requested
  BY <1>3 DEF Proper, Reckoned
<1>5. j \in Nat /\ DOMAIN ts = 1..Len(ts) /\ Len(ts) \in Nat /\ j <= Len(ts)
  BY <1>1
<1>6. inv.current <= top + 1
  <2>1. ts # <<>>
    BY <1>5, <1>4
  <2> QED BY <2>1
<1>7. ts[j].height \in Nat /\ ts[j].height # NoHeight /\ ts[j].height <= top + 1 - Required
  BY <1>1, <1>2, <1>3, <1>4, <1>6 DEF NoHeight
<1>8. ASSUME NEW i \in 1..j PROVE i \in DOMAIN ts /\ ts[i].height \in 0..(top + 1 - Required)
  <2>1. i \in DOMAIN ts /\ i \in Nat
    BY <1>5
  <2>2. ts[i] \in TransferValue
    BY <1>1, <2>1
  <2>3. CASE i = j
    BY <1>2, <1>7, <2>1, <2>3
  <2>4. CASE i < j
    <3>1. <<ts[i], ts[j]>> \in HeightOrder
      BY <1>5, <2>1, <2>4 DEF Proper, OrderedBy
    <3>2. NotLater(ts[i], ts[j])
      BY <3>1 DEF HeightOrder
    <3>3. ts[i].height # NoHeight /\ ts[i].height <= ts[j].height
      BY <1>7, <3>2 DEF NotLater
    <3>4. ts[i].height \in Nat
      BY <2>2, <3>3 DEF TransferValue
    <3> HIDE DEF ts
    <3> QED BY <1>2, <1>7, <2>1, <3>3, <3>4
  <2> QED BY <1>5, <2>3, <2>4
<1> QED
  BY <1>2, <1>4, <1>8

(* What an invoice counts as confirmed is on the chain, under as many      *)
(* blocks as it asks for: reorganisations move or drop payments, and no    *)
(* invoice stays confirmed by what they took away.  (An invoice that asks  *)
(* for no confirmation is confirmed by the txpool.)                        *)
THEOREM ConfirmedPaymentsAreMined ==
    Shallow /\ Required >= 1 => (ScannerSpec => []ConfirmedIsMined)
<1> SUFFICES ASSUME Shallow, Required >= 1 PROVE ScannerSpec => []ConfirmedIsMined
  OBVIOUS
<1>1. ReckoningInv => ConfirmedIsMined
  <2> SUFFICES ASSUME ReckoningInv, Settled, NEW id \in DOMAIN invoices, IsConfirmed(invoices[id])
               PROVE  PaidUpTo(id, height + 1 - Required) >= Requested
    BY DEF ConfirmedIsMined, Settled
  <2> DEFINE ts == invoices[id].transfers
             H == height + 1 - Required
             txs == {tx \in UNION {chain[g].txs : g \in id.creation..H} : SubOf[tx] = id.sub}
  <2>1. /\ ScannerInv /\ Reckoning /\ height \in Nat /\ len \in Nat /\ Required \in Nat
        /\ Requested \in Nat
    BY ScannerAssumption
       DEF ReckoningInv, LedgerInv, Settled, ScannerInv, IInv, TypeOK, MonerodTypeOK, ScannerAssumption
  <2>2. invoices[id] \in InvoiceValue /\ Proper(invoices[id]) /\ id \in InvoiceId
    BY <2>1 DEF ScannerInv, StoreTypes, Reckoning
  <2>3. ts = <<>> \/ invoices[id].current <= height + 1
    BY <2>1 DEF Reckoning, Dated
  <2>4. PICK j \in DOMAIN ts : /\ Cardinality(Coins(ts, j)) >= Requested
                               /\ \A i \in 1..j : i \in DOMAIN ts /\ ts[i].height \in 0..H
    BY <2>1, <2>2, <2>3, ConfirmedIsDeep
  <2>5. j \in Nat
    <3>1. ts \in Seq(TransferValue)
      BY <2>2 DEF InvoiceValue, TransferValue
    <3> QED BY <3>1
  <2>6. \A i \in 1..j : /\ i \in DOMAIN ts /\ ts[i].amount \in Amounts
                        /\ ts[i].height \in 0..height
    <3>1. \A h \in 0..H : h \in 0..height
      BY <2>1
    <3>2. \A i \in DOMAIN ts : ts[i].amount \in Amounts
      BY <2>2 DEF Proper
    <3> HIDE DEF ts, H
    <3> QED BY <2>4, <3>1, <3>2
  <2>7. PICK e \in [1..j -> Tx] : IsInjective(e) /\ \A i \in 1..j : e[i] \in Paying(id, ts[i])
    <3> QED BY <2>5, <2>6, OwnTransactions
  <2>8. ASSUME NEW i \in 1..j PROVE e[i] \in txs /\ AmountOf[e[i]] = ts[i].amount
    <3>1. /\ e[i] \in chain[ts[i].height].txs /\ ts[i].height >= id.creation
          /\ SubOf[e[i]] = id.sub /\ AmountOf[e[i]] = ts[i].amount
      BY <2>7 DEF Paying, Payments
    <3>2. ts[i].height \in id.creation..H
      <4>1. ts[i].height \in 0..H /\ id.creation \in Nat /\ H \in Int
        BY <2>1, <2>2, <2>4 DEF InvoiceId
      <4> HIDE DEF ts, H
      <4> QED BY <3>1, <4>1
    <3> HIDE DEF ts, H
    <3> QED BY <3>1, <3>2
  <2>9. txs \in SUBSET Tx
    <3>1. height < len
      <4>1. bcpc = "idle" /\ IInv
        BY <2>1 DEF ScannerInv, Course, Settled
      <4> QED BY <4>1, CacheNotAhead
    <3>2. id.creation \in Nat
      BY <2>2 DEF InvoiceId
    <3>3. \A g \in id.creation..H : g \in 0..(len - 1)
      BY <2>1, <3>1, <3>2
    <3>4. \A g \in 0..(len - 1) : chain[g].txs \in SUBSET Tx
      BY <2>1 DEF ScannerInv, IInv, TypeOK, MonerodTypeOK, Block
    <3> HIDE DEF H
    <3> QED BY <3>3, <3>4
  <2>10. PaidUpTo(id, H) = Cardinality(Paid(txs))
    BY DEF PaidUpTo, Paid
  <2>11. e \in [1..j -> txs] /\ \A i \in 1..j : AmountOf[e[i]] = ts[i].amount
    <3> HIDE DEF txs, ts
    <3> QED BY <2>7, <2>8
  <2>12. /\ IsFiniteSet(Coins(ts, j)) /\ IsFiniteSet(Paid(txs))
         /\ Cardinality(Coins(ts, j)) <= Cardinality(Paid(txs))
    <3> HIDE DEF txs, ts
    <3> QED BY <2>5, <2>7, <2>9, <2>11, CoinsPaid
  <2>13. Cardinality(Coins(ts, j)) \in Nat /\ Cardinality(Paid(txs)) \in Nat
    <3> HIDE DEF txs, ts
    <3> QED BY <2>12, FS_CardinalityType
  <2>14. Cardinality(Paid(txs)) >= Requested
    <3> HIDE DEF txs, ts
    <3> QED BY <2>1, <2>4, <2>12, <2>13
  <2> QED BY <2>10, <2>14
<1> QED
  BY <1>1, ReckoningInvariance, PTL
=============================================================================
