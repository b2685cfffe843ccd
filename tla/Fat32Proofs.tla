------------------------------ MODULE Fat32Proofs ------------------------------
(***************************************************************************)
(* For every volume, every set of paths and every device that may fail: a  *)
(* FAT32 volume keeps its types.  As long as the device works and the      *)
(* current directory is there, the clusters are tiled by chains and the    *)
(* directories form a tree that names each chain once, so that no two      *)
(* files share a cluster, every file can be read, dot entries lead where   *)
(* they should and the path in the prompt leads to the current directory.  *)
(***************************************************************************)
EXTENDS Fat32, FiniteSetTheorems, TLAPS

\* What a volume holds.  A directory has a cluster: the cluster of an entry of
\* makeDirectory is the one that allocateCluster has chosen.
FatValue == {Free, endOfChain} \cup Cluster
Stored   == {s \in Slot : s.kind = "entry" /\ s.dir => s.first \in Cluster}
Row      == [1 .. Slots -> Stored]
Volume   == [fat : [Cluster -> FatValue], slots : [Cluster -> Row]]

--------------------------------------------------------------------------------
(* Induction *)

\* A set of numbers that is not empty has a least one.
LEMMA LeastOf ==
  ASSUME NEW T \in SUBSET Nat, T # {}
  PROVE  \E x \in T : \A y \in T : x <= y
<1> DEFINE Below == {0 .. n : n \in T}
<1>1. IsWellFoundedOn(StrictSubsetOrdering(Nat), FiniteSubsetsOf(Nat))
  BY FS_StrictSubsetOrderingWellFounded
<1>2. Below \subseteq FiniteSubsetsOf(Nat)
  <2>1. \A n \in T : IsFiniteSet(0 .. n)
    BY FS_Interval
  <2> QED BY <2>1, SMT DEF FiniteSubsetsOf
<1>3. Below # {}
  OBVIOUS
<1>4. PICK s \in Below : \A t \in Below : <<t, s>> \notin StrictSubsetOrdering(Nat)
  <2> HIDE DEF Below
  <2> QED BY <1>1, <1>2, <1>3, WFMin
<1>5. PICK x \in T : s = 0 .. x
  OBVIOUS
<1>6. \A y \in T : x <= y
  <2> SUFFICES ASSUME NEW y \in T, y < x PROVE FALSE
    BY SMT
  <2>1. 0 .. y \in Below
    OBVIOUS
  <2>2. 0 .. y \subseteq s /\ 0 .. y # s
    <3>1. x \in s /\ x \notin 0 .. y
      BY <1>5, SMT
    <3>2. 0 .. y \subseteq s
      BY <1>5, SMT
    <3> QED BY <3>1, <3>2
  <2>3. s \subseteq Nat /\ 0 .. y \subseteq Nat
    BY <1>5, SMT
  <2> QED BY <2>1, <2>2, <2>3, <1>4, Zenon DEF StrictSubsetOrdering
<1> QED BY <1>6

\* What holds at 0 and is handed on holds everywhere.
LEMMA HandedOn ==
  ASSUME NEW T \in SUBSET Nat, 0 \in T, \A n \in T : n + 1 \in T
  PROVE  T = Nat
<1> SUFFICES ASSUME Nat \ T # {} PROVE FALSE
  OBVIOUS
<1>1. PICK x \in Nat \ T : \A y \in Nat \ T : x <= y
  BY LeastOf, Zenon
<1>2. x # 0 /\ x - 1 \in Nat
  BY <1>1, SMT
<1>3. x - 1 \in T
  BY <1>1, <1>2, SMT
<1>4. x - 1 + 1 = x
  BY <1>1, SMT
<1> QED BY <1>1, <1>2, <1>3, <1>4, Zenon

IsRun(g, a, n, F) == g = [k \in 0 .. n |-> IF k = 0 THEN a ELSE F[<<g[k - 1], k>>]]

\* A recursive function over 0 .. n whose step stays in a set exists.
LEMMA Iterated ==
  ASSUME NEW S, NEW a \in S, NEW n \in Nat, NEW F \in [S \X Nat -> S]
  PROVE  \E g \in [0 .. n -> S] : IsRun(g, a, n, F)
<1> DEFINE Run(g, m) == /\ g \in [0 .. m -> S]
                        /\ g[0] = a
                        /\ \A k \in 1 .. m : g[k] = F[<<g[k - 1], k>>]
           T == {m \in Nat : \E g : Run(g, m)}
<1>1. 0 \in T
  <2>1. Run([k \in 0 .. 0 |-> a], 0)
    BY SMT
  <2> QED BY <2>1
<1>2. ASSUME NEW m \in T PROVE m + 1 \in T
  <2>1. PICK g : Run(g, m)
    OBVIOUS
  <2> DEFINE h == [k \in 0 .. m + 1 |-> IF k = m + 1 THEN F[<<g[m], m + 1>>] ELSE g[k]]
  <2>2. m \in Nat
    OBVIOUS
  <2>3. g[m] \in S
    BY <2>1, <2>2, SMT
  <2>4. F[<<g[m], m + 1>>] \in S
    BY <2>3, <2>2, SMT
  <2>5. h \in [0 .. m + 1 -> S] /\ h[0] = a
    BY <2>1, <2>4, <2>2, SMT
  <2>6. ASSUME NEW k \in 1 .. m + 1 PROVE h[k] = F[<<h[k - 1], k>>]
    <3>1. CASE k = m + 1
      <4>1. h[m + 1] = F[<<g[m], m + 1>>]
        BY <2>2, SMT
      <4>2. h[m] = g[m]
        BY <2>2, SMT
      <4>3. k - 1 = m
        BY <3>1, <2>2, SMT
      <4> HIDE DEF h
      <4> QED BY <3>1, <4>1, <4>2, <4>3, Zenon
    <3>2. CASE k # m + 1
      <4>1. k \in 1 .. m /\ k - 1 \in 0 .. m
        BY <3>2, <2>2, SMT
      <4>2. h[k] = g[k] /\ h[k - 1] = g[k - 1]
        BY <4>1, <2>2, SMT
      <4> QED BY <4>1, <4>2, <2>1
    <3> QED BY <3>1, <3>2
  <2>7. Run(h, m + 1)
    <3> HIDE DEF h
    <3> QED BY <2>5, <2>6
  <2> HIDE DEF h, Run
  <2> QED BY <2>7, <2>2, SMT
<1>3. T = Nat
  <2> HIDE DEF T
  <2>1. T \in SUBSET Nat
    BY DEF T
  <2> QED BY <1>1, <1>2, <2>1, HandedOn
<1>4. PICK g : Run(g, n)
  <2> HIDE DEF Run
  <2> QED BY <1>3
<1>5. IsRun(g, a, n, F)
  <2>1. \A k \in 0 .. n : g[k] = IF k = 0 THEN a ELSE F[<<g[k - 1], k>>]
    BY <1>4, SMT
  <2> QED BY <2>1, <1>4, Zenon DEF IsRun
<1> QED BY <1>4, <1>5

--------------------------------------------------------------------------------
(* Numbers and slots *)

LEMMA Sizes ==
  /\ Clusters \in Nat \ {0} /\ Slots \in Nat \ {0, 1}
  /\ Cluster \subseteq Nat /\ rootCluster \in Cluster /\ IsFiniteSet(Cluster)
  /\ Cardinality(Cluster) = Clusters
  /\ none = Free /\ none \notin Cluster /\ endOfChain \notin Cluster /\ endOfChain # Free
  /\ \A c \in Cluster : c # none /\ c # endOfChain
<1>1. Clusters \in Nat \ {0} /\ Slots \in Nat \ {0, 1}
  BY ConstantsAssumption DEF ConstantsAssumption
<1>2. 2 \in Int /\ Clusters + 1 \in Int /\ (Clusters + 1) - 2 + 1 = Clusters /\ ~(2 > Clusters + 1)
  BY <1>1, SMT
<1>3. IsFiniteSet(Cluster) /\ Cardinality(Cluster) = Clusters
  <2>1. /\ IsFiniteSet(2 .. (Clusters + 1))
        /\ Cardinality(2 .. (Clusters + 1)) = IF 2 > Clusters + 1 THEN 0 ELSE (Clusters + 1) - 2 + 1
    BY <1>2, FS_Interval
  <2> QED BY <2>1, <1>2, Zenon DEF Cluster
<1>4. /\ Cluster \subseteq Nat /\ rootCluster \in Cluster
      /\ none = Free /\ none \notin Cluster /\ endOfChain \notin Cluster /\ endOfChain # Free
      /\ \A c \in Cluster : c # none /\ c # endOfChain
  BY <1>1, SMT DEF Cluster, rootCluster, none, Free, endOfChain
<1> QED BY <1>1, <1>3, <1>4

LEMMA Slotted ==
  ASSUME NEW s \in Stored
  PROVE  /\ s.kind \in {"end", "deleted", "text", "entry"}
         /\ s.kind = "end" <=> s = End
         /\ s.kind = "deleted" <=> s = Deleted
         /\ s.kind = "entry" =>
              /\ s.name \in Names \cup {".", ".."} /\ s.dir \in BOOLEAN
              /\ s.first \in {none} \cup Cluster /\ s.size \in 0 .. MaxSize
              /\ s.dir => s.first \in Cluster
<1> DEFINE Entries0 == [kind: {"entry"}, name: Names \cup {".", ".."}, dir: BOOLEAN,
                        first: {none} \cup Cluster, size: 0 .. MaxSize]
<1>1. s \in {End, Deleted, Text} \cup Entries0
  BY DEF Stored, Slot
<1>2. CASE s \in {End, Deleted, Text}
  BY <1>2 DEF End, Deleted, Text
<1>3. CASE s \in Entries0
  <2>1. s.kind = "entry" /\ s.name \in Names \cup {".", ".."} /\ s.dir \in BOOLEAN
        /\ s.first \in {none} \cup Cluster /\ s.size \in 0 .. MaxSize
    BY <1>3
  <2>2. End.kind = "end" /\ Deleted.kind = "deleted"
    BY DEF End, Deleted
  <2> QED BY <2>1, <2>2 DEF Stored
<1> QED BY <1>1, <1>2, <1>3

LEMMA Plain == End \in Stored /\ Deleted \in Stored /\ Text \in Stored
               /\ End.kind = "end" /\ Deleted.kind = "deleted" /\ Text.kind = "text"
  BY DEF Stored, Slot, End, Deleted, Text

LEMMA EntryStored ==
  ASSUME NEW name \in Names \cup {".", ".."}, NEW dir \in BOOLEAN,
         NEW first \in {none} \cup Cluster, NEW size \in 0 .. MaxSize, dir => first \in Cluster
  PROVE  /\ Entry(name, dir, first, size) \in Stored
         /\ Entry(name, dir, first, size).kind = "entry"
         /\ Entry(name, dir, first, size).name = name
         /\ Entry(name, dir, first, size).dir = dir
         /\ Entry(name, dir, first, size).first = first
         /\ Entry(name, dir, first, size).size = size
  BY DEF Entry, Stored, Slot

\* e with another first cluster and another size.
Changed(e, first, size, x) ==
  /\ x \in Stored /\ x.kind = "entry" /\ x.name = e.name /\ x.dir = e.dir
  /\ x.first = first /\ x.size = size

LEMMA EntryChanged ==
  ASSUME NEW e \in Stored, e.kind = "entry", ~e.dir,
         NEW first \in {none} \cup Cluster, NEW size \in 0 .. MaxSize
  PROVE  Changed(e, first, size, [e EXCEPT !.first = first, !.size = size])
<1> DEFINE x == [e EXCEPT !.first = first, !.size = size]
<1>1. e \in [kind: {"entry"}, name: Names \cup {".", ".."}, dir: BOOLEAN,
             first: {none} \cup Cluster, size: 0 .. MaxSize]
  BY DEF Stored, Slot, End, Deleted, Text
<1>2. x \in [kind: {"entry"}, name: Names \cup {".", ".."}, dir: BOOLEAN,
             first: {none} \cup Cluster, size: 0 .. MaxSize]
  BY <1>1
<1>3. x.dir = e.dir
  BY <1>1
<1>4. x.name = e.name /\ x.first = first /\ x.size = size
  BY <1>1
<1> HIDE DEF x
<1>5. Changed(e, first, size, x)
  BY <1>2, <1>3, <1>4 DEF Changed, Stored, Slot
<1> QED BY <1>5 DEF x

--------------------------------------------------------------------------------
(* The types of the table *)

LEMMA TableTypes ==
  ASSUME NEW v \in Volume, NEW f, NEW c \in Cluster
  PROVE  /\ readFat(v, f, c) \in FatValue
         /\ nextCluster(v, f, c) \in {none} \cup Cluster
         /\ \A x \in FatValue : writeFat(v, f, c, x) \in Volume
<1>1. v.fat[c] \in FatValue
  BY DEF Volume
<1>2. readFat(v, f, c) \in FatValue
  BY <1>1 DEF readFat, FatValue
<1>3. nextCluster(v, f, c) \in {none} \cup Cluster
  BY <1>2, Sizes DEF nextCluster, FatValue
<1>4. ASSUME NEW x \in FatValue PROVE writeFat(v, f, c, x) \in Volume
  <2>1. [v EXCEPT !.fat[c] = x] \in Volume
    BY DEF Volume
  <2> QED BY <2>1 DEF writeFat
<1> QED BY <1>2, <1>3, <1>4

\* A walk from c: clusters, linked one to the next, to the end of the chain or
\* as many as there are.
IsWalk(v, f, c, s) ==
  /\ s \in Seq(Cluster) /\ Len(s) \in Nat /\ Len(s) <= Clusters
  /\ c \in Cluster => Len(s) >= 1 /\ s[1] = c
  /\ c \notin Cluster => Len(s) = 0
  /\ \A k \in Nat : 1 <= k /\ k + 1 <= Len(s) => s[k + 1] = nextCluster(v, f, s[k])
  /\ 1 <= Len(s) /\ Len(s) < Clusters => nextCluster(v, f, s[Len(s)]) \notin Cluster

LEMMA ChainWalks ==
  ASSUME NEW v \in Volume, NEW f, NEW c
  PROVE  IsWalk(v, f, c, Chain(v, f, c))
<1> DEFINE n == Clusters
           S == {none, c} \cup Cluster
           N(x) == IF x \in Cluster THEN nextCluster(v, f, x) ELSE none
           F == [p \in S \X Nat |-> N(p[1])]
           Is(h) == h = [k \in 0 .. n |->
                          IF k = 0 THEN c
                          ELSE LET before == h[k - 1]
                               IN  IF before \in Cluster THEN nextCluster(v, f, before) ELSE none]
           at == CHOOSE h : Is(h)
<1>1. n \in Nat \ {0}
  BY Sizes
<1>2. \A x \in S : N(x) \in S
  BY TableTypes
<1>3. F \in [S \X Nat -> S]
  <2> HIDE DEF S, N
  <2>1. \A p \in S \X Nat : N(p[1]) \in S
    BY <1>2
  <2> QED BY <2>1
<1>4. PICK g \in [0 .. n -> S] : IsRun(g, c, n, F)
  <2>1. c \in S /\ n \in Nat
    BY <1>1
  <2> HIDE DEF S, F, n
  <2> QED BY <2>1, <1>3, Iterated
<1>5. Is(g)
  <2>1. ASSUME NEW k \in 1 .. n PROVE F[<<g[k - 1], k>>] = N(g[k - 1])
    <3>1. k - 1 \in 0 .. n /\ k \in Nat
      BY <1>1, SMT
    <3>2. g[k - 1] \in S
      BY <3>1, <1>4
    <3> HIDE DEF N, S
    <3> QED BY <3>1, <3>2
  <2> HIDE DEF F
  <2>2. \A k \in 0 .. n : (IF k = 0 THEN c ELSE F[<<g[k - 1], k>>])
                          = (IF k = 0 THEN c ELSE N(g[k - 1]))
    <3> HIDE DEF N
    <3> QED BY <1>1, <2>1, SMT
  <2> HIDE DEF n
  <2>3. g = [k \in 0 .. n |-> IF k = 0 THEN c ELSE N(g[k - 1])]
    <3> HIDE DEF N
    <3> QED BY <1>4, <2>2, Zenon DEF IsRun
  <2> QED BY <2>3
<1>6. Is(at)
  <2> HIDE DEF Is
  <2> QED BY <1>5, Zenon
<1> DEFINE M == {m \in 1 .. n : at[m - 1] \in Cluster}
<1>7. Chain(v, f, c) = [k \in 1 .. Cardinality(M) |-> at[k - 1]]
  BY DEF Chain
<1> HIDE DEF at
<1>8. at[0] = c /\ \A k \in 1 .. n : at[k] = N(at[k - 1])
  BY <1>6, <1>1, SMT
<1> HIDE DEF Is
<1>9. PICK L \in 0 .. n : /\ \A k \in Nat : k < L => at[k] \in Cluster
                          /\ L < n => at[L] \notin Cluster
                          /\ \A k \in Nat : L <= k /\ k < n => at[k] \notin Cluster
  <2> DEFINE Out == {m \in Nat : m < n /\ at[m] \notin Cluster}
  <2>1. CASE Out = {}
    <3>1. n \in 0 .. n /\ \A k \in Nat : k < n => at[k] \in Cluster
      BY <1>1, <2>1
    <3> QED BY <3>1, <1>1, SMT
  <2>2. CASE Out # {}
    <3>0. Out \in SUBSET Nat
      OBVIOUS
    <3>1. PICK L \in Out : \A y \in Out : L <= y
      <4> HIDE DEF Out
      <4> QED BY <2>2, <3>0, LeastOf, Zenon
    <3>2. L \in 0 .. n /\ L \in Nat /\ L < n /\ at[L] \notin Cluster
      BY <1>1
    <3>3. \A k \in Nat : k < L => at[k] \in Cluster
      BY <3>1, <3>2, <1>1
    <3> DEFINE T == {k \in Nat : L <= k /\ k < n => at[k] \notin Cluster}
    <3>4. T = Nat
      <4>1. 0 \in T
        BY <3>2, SMT
      <4>2. ASSUME NEW k \in T PROVE k + 1 \in T
        <5>1. k \in Nat /\ k + 1 \in Nat
          OBVIOUS
        <5>2. CASE L <= k + 1 /\ k + 1 < n
          <6>1. k + 1 \in 1 .. n /\ k + 1 - 1 = k
            BY <5>2, <1>1, <5>1, SMT
          <6>2. at[k + 1] = N(at[k])
            BY <6>1, <1>8
          <6>3. CASE L = k + 1
            BY <6>3, <3>2
          <6>4. CASE L <= k
            <7>1. at[k] \notin Cluster
              BY <6>4, <5>2, <5>1, <1>1, SMT
            <7> QED BY <7>1, <6>2, Sizes
          <6>5. L = k + 1 \/ L <= k
            BY <5>2, <5>1, <3>2, SMT
          <6> QED BY <6>3, <6>4, <6>5
        <5>3. CASE ~(L <= k + 1 /\ k + 1 < n)
          BY <5>3, <5>1
        <5> QED BY <5>2, <5>3
      <4>3. T \in SUBSET Nat
        OBVIOUS
      <4> HIDE DEF T
      <4> QED BY <4>1, <4>2, <4>3, HandedOn
    <3>5. \A k \in Nat : L <= k /\ k < n => at[k] \notin Cluster
      BY <3>4
    <3> QED BY <3>2, <3>3, <3>5
  <2> QED BY <2>1, <2>2
<1>10. M = 1 .. L
  <2>1. ASSUME NEW m \in 1 .. n PROVE at[m - 1] \in Cluster <=> m <= L
    <3>1. m - 1 \in Nat /\ (m <= L <=> m - 1 < L) /\ m - 1 < n
      BY <1>1, SMT
    <3> QED BY <3>1, <1>9, SMT
  <2> QED BY <2>1, <1>1, SMT
<1>11. Cardinality(1 .. L) = L
  <2>1. 1 \in Int /\ L \in Int /\ (1 > L => L = 0) /\ (1 <= L => L - 1 + 1 = L)
    BY <1>1, SMT
  <2>2. Cardinality(1 .. L) = IF 1 > L THEN 0 ELSE L - 1 + 1
    BY <2>1, FS_Interval
  <2> QED BY <2>1, <2>2, SMT
<1> DEFINE s == Chain(v, f, c)
<1>12. s = [k \in 1 .. L |-> at[k - 1]]
  <2> HIDE DEF M
  <2> QED BY <1>7, <1>10, <1>11
<1> HIDE DEF s, M
<1>13. \A k \in 1 .. L : at[k - 1] \in Cluster
  BY <1>9, <1>1, SMT
<1>14. s \in Seq(Cluster) /\ Len(s) = L /\ \A k \in 1 .. L : s[k] = at[k - 1]
  <2> HIDE DEF n
  <2>1. L \in Nat
    BY <1>1
  <2> QED BY <1>12, <1>13, <2>1
<1>15. c \in Cluster => L >= 1 /\ s[1] = c
  <2> SUFFICES ASSUME c \in Cluster PROVE L >= 1 /\ s[1] = c
    OBVIOUS
  <2>1. L >= 1
    BY <1>9, <1>8, <1>1, SMT
  <2>2. 1 \in 1 .. L /\ 1 - 1 = 0
    BY <2>1, <1>1, SMT
  <2> QED BY <2>1, <2>2, <1>14, <1>8
<1>16. c \notin Cluster => L = 0
  BY <1>9, <1>8, <1>1, SMT
<1>17. ASSUME NEW k \in Nat, 1 <= k, k + 1 <= L PROVE s[k + 1] = nextCluster(v, f, s[k])
  <2>1. k \in 1 .. L /\ k + 1 \in 1 .. L /\ k \in 1 .. n /\ k + 1 - 1 = k
    BY <1>17, <1>1, SMT
  <2>2. s[k + 1] = at[k] /\ s[k] = at[k - 1] /\ at[k] = N(at[k - 1]) /\ at[k - 1] \in Cluster
    BY <2>1, <1>14, <1>8, <1>13
  <2> QED BY <2>2
<1>18. 1 <= L /\ L < Clusters => nextCluster(v, f, s[L]) \notin Cluster
  <2> SUFFICES ASSUME 1 <= L, L < Clusters PROVE nextCluster(v, f, s[L]) \notin Cluster
    OBVIOUS
  <2>1. L \in 1 .. L /\ L \in 1 .. n
    BY <1>1, SMT
  <2>2. s[L] = at[L - 1] /\ at[L] = N(at[L - 1]) /\ at[L - 1] \in Cluster /\ at[L] \notin Cluster
    BY <2>1, <1>14, <1>8, <1>13, <1>9
  <2> QED BY <2>2
<1>19. L \in Nat /\ L <= Clusters
  BY <1>1, SMT
<1> QED BY <1>14, <1>15, <1>16, <1>17, <1>18, <1>19 DEF IsWalk, s

\* The first slot of a chain that a scan wants.
Pos(c, i) == [cluster |-> c, index |-> i]

FoundAt(s, wanted, r, k, i) ==
  /\ 1 <= k /\ k <= Len(s) /\ 1 <= i /\ i <= Slots
  /\ r = Pos(s[k], i) /\ r.cluster = s[k] /\ r.index = i /\ r \in wanted
  /\ \A l, j \in Nat : 1 <= l /\ l < k /\ 1 <= j /\ j <= Slots => Pos(s[l], j) \notin wanted
  /\ \A j \in Nat : 1 <= j /\ j < i => Pos(s[k], j) \notin wanted

IsFirst(s, wanted, r) ==
  \/ /\ r = Nowhere
     /\ \A l, j \in Nat : 1 <= l /\ l <= Len(s) /\ 1 <= j /\ j <= Slots => Pos(s[l], j) \notin wanted
  \/ r # Nowhere /\ \E k, i \in Nat : FoundAt(s, wanted, r, k, i)

LEMMA MinIsLeast ==
  ASSUME NEW T \in SUBSET Nat, T # {}
  PROVE  Min(T) \in T /\ \A y \in T : Min(T) <= y
<1>1. \E x \in T : \A y \in T : x <= y
  BY LeastOf
<1> QED BY <1>1, Zenon DEF Min

LEMMA FirstFound ==
  ASSUME NEW s \in Seq(Cluster), NEW wanted
  PROVE  IsFirst(s, wanted, FirstIn(s, wanted))
<1> DEFINE hits(k)  == {i \in 1 .. Slots : [cluster |-> s[k], index |-> i] \in wanted}
           clusters == {k \in 1 .. Len(s) : hits(k) # {}}
           K == Min(clusters)
           I == Min(hits(K))
           r == FirstIn(s, wanted)
<1>0. Slots \in Nat /\ Len(s) \in Nat
  BY Sizes
<1>1. r = IF clusters = {} THEN Nowhere ELSE [cluster |-> s[K], index |-> I]
  BY Zenon DEF FirstIn
<1>2. \A k, i \in Nat : 1 <= k /\ k <= Len(s) /\ 1 <= i /\ i <= Slots /\ Pos(s[k], i) \in wanted
                       => k \in clusters /\ i \in hits(k)
  <2> SUFFICES ASSUME NEW k \in Nat, NEW i \in Nat, 1 <= k, k <= Len(s), 1 <= i, i <= Slots,
                      Pos(s[k], i) \in wanted
               PROVE  k \in clusters /\ i \in hits(k)
    OBVIOUS
  <2>1. i \in 1 .. Slots /\ k \in 1 .. Len(s)
    BY <1>0
  <2>2. i \in hits(k)
    BY <2>1, Zenon DEF Pos
  <2>3. k \in clusters
    <3> HIDE DEF hits
    <3> QED BY <2>1, <2>2
  <2> QED BY <2>2, <2>3
<1> HIDE DEF r
<1>3. CASE clusters = {}
  <2>1. r = Nowhere
    BY <1>1, <1>3, Zenon
  <2>2. \A l, j \in Nat : 1 <= l /\ l <= Len(s) /\ 1 <= j /\ j <= Slots => Pos(s[l], j) \notin wanted
    <3> HIDE DEF clusters, hits
    <3> QED BY <1>2, <1>3
  <2> QED BY <2>1, <2>2 DEF IsFirst, r
<1>4. CASE clusters # {}
  <2>1. clusters \in SUBSET Nat /\ \A k : hits(k) \in SUBSET Nat
    BY <1>0
  <2>2. K \in clusters /\ \A k \in clusters : K <= k
    <3> HIDE DEF clusters
    <3> QED BY <1>4, <2>1, MinIsLeast
  <2>3. hits(K) # {}
    <3> HIDE DEF K
    <3> QED BY <2>2
  <2>4. I \in hits(K) /\ \A i \in hits(K) : I <= i
    <3> HIDE DEF hits, K
    <3> QED BY <2>1, <2>3, MinIsLeast
  <2> HIDE DEF K, I
  <2>5. r = Pos(s[K], I)
    BY <1>1, <1>4, Zenon DEF Pos
  <2>6. /\ K \in Nat /\ I \in Nat /\ 1 <= K /\ K <= Len(s) /\ 1 <= I /\ I <= Slots
        /\ Pos(s[K], I) \in wanted
    BY <2>2, <2>4, <1>0 DEF Pos
  <2>7. r.cluster = s[K] /\ r.index = I
    BY <2>5 DEF Pos
  <2>8. s[K] \in Cluster
    BY <2>6, <1>0
  <2>9. r # Nowhere
    BY <2>7, <2>8, Sizes DEF Nowhere
  <2>10. ASSUME NEW l \in Nat, NEW j \in Nat, 1 <= l, l < K, 1 <= j, j <= Slots
         PROVE  Pos(s[l], j) \notin wanted
    <3> HIDE DEF hits, clusters
    <3>1. l <= Len(s)
      BY <2>10, <2>6, <1>0
    <3> QED BY <3>1, <2>10, <1>2, <2>2, <2>6
  <2>11. ASSUME NEW j \in Nat, 1 <= j, j < I PROVE Pos(s[K], j) \notin wanted
    <3> HIDE DEF hits, clusters
    <3>1. j <= Slots
      BY <2>11, <2>6, <1>0
    <3> QED BY <3>1, <2>11, <1>2, <2>4, <2>6
  <2>12. FoundAt(s, wanted, r, K, I)
    <3> HIDE DEF hits, clusters
    <3> QED BY <2>5, <2>6, <2>7, <2>10, <2>11, Zenon DEF FoundAt
  <2> QED BY <2>9, <2>12, <2>6 DEF IsFirst, r
<1> QED BY <1>3, <1>4

\* What a search returns is a slot of the volume, if it returns one.
FoundType(found, v) ==
  /\ found.status \in {"ok", "notFound", "ioError"}
  /\ found.status = "ok" =>
       /\ found.pos.cluster \in Cluster /\ found.pos.index \in 1 .. Slots
       /\ found.entry = v.slots[found.pos.cluster][found.pos.index]
       /\ found.entry \in Stored

PlaceType(place) ==
  /\ place.v \in Volume /\ place.status \in {"ok", "noSpace", "ioError"}
  /\ place.status = "ok" => place.pos.cluster \in Cluster /\ place.pos.index \in 1 .. Slots

Result(r) == r.v \in Volume /\ r.status \in Status

LEMMA SlotIn ==
  ASSUME NEW v \in Volume, NEW c \in Cluster, NEW i \in 1 .. Slots
  PROVE  v.slots[c][i] \in Stored
  BY DEF Volume, Row

LEMMA FirstType ==
  ASSUME NEW v \in Volume, NEW f, NEW c, NEW wanted, NEW r, r = FirstIn(Chain(v, f, c), wanted), r # Nowhere
  PROVE  r.cluster \in Cluster /\ r.index \in 1 .. Slots /\ r \in wanted /\ r = Pos(r.cluster, r.index)
<1>1. Chain(v, f, c) \in Seq(Cluster)
  BY ChainWalks DEF IsWalk
<1> DEFINE s == Chain(v, f, c)
<1> HIDE DEF s
<1>2. PICK k, i \in Nat : FoundAt(s, wanted, r, k, i)
  BY <1>1, FirstFound DEF IsFirst, s
<1>3. k \in 1 .. Len(s) /\ i \in 1 .. Slots
  BY <1>1, <1>2, Sizes DEF FoundAt, s
<1>4. s[k] \in Cluster
  BY <1>1, <1>3 DEF s
<1> QED BY <1>2, <1>3, <1>4 DEF FoundAt

LEMMA EntryType ==
  ASSUME NEW v \in Volume, NEW f, NEW c, NEW wanted
  PROVE  FoundType(EntryAt(v, f, FirstIn(Chain(v, f, c), wanted)), v)
<1> DEFINE r == FirstIn(Chain(v, f, c), wanted)
<1>1. CASE r = Nowhere
  BY <1>1 DEF EntryAt, FoundType
<1>2. CASE r # Nowhere
  <2>1. r.cluster \in Cluster /\ r.index \in 1 .. Slots
    BY <1>2, FirstType
  <2> HIDE DEF r
  <2>2. v.slots[r.cluster][r.index] \in Stored
    BY <2>1, SlotIn
  <2> QED BY <2>1, <2>2, <1>2 DEF EntryAt, FoundType, SlotAt, r
<1> QED BY <1>1, <1>2

LEMMA FindType ==
  ASSUME NEW v \in Volume, NEW f, NEW dir, NEW name
  PROVE  FoundType(findEntry(v, f, dir, name), v)
  BY EntryType DEF findEntry

\* What is found is an entry of that name.
LEMMA FindsEntry ==
  ASSUME NEW v \in Volume, NEW f, NEW dir, NEW name, findEntry(v, f, dir, name).status = "ok"
  PROVE  LET e == findEntry(v, f, dir, name).entry
         IN  e \in Stored /\ e.kind = "entry" /\ e.name = name
<1> DEFINE wanted == {p \in Position : \/ p.cluster = Unreadable(f)
                                       \/ SlotAt(v, p) = End
                                       \/ SlotAt(v, p).kind = "entry" /\ SlotAt(v, p).name = name}
           r == FirstIn(Chain(v, f, dir), wanted)
<1>1. findEntry(v, f, dir, name) = EntryAt(v, f, r)
  BY Zenon DEF findEntry
<1>2. EntryAt(v, f, r).status = "ok"
  BY <1>1, Zenon
<1> HIDE DEF r
<1>3. r # Nowhere /\ r.cluster # Unreadable(f) /\ SlotAt(v, r) # End
  BY <1>2 DEF EntryAt
<1>4. r \in wanted
  <2> HIDE DEF wanted
  <2> QED BY <1>3, FirstType DEF r
<1>5. EntryAt(v, f, r).entry = SlotAt(v, r)
  BY <1>3 DEF EntryAt
<1>6. FoundType(EntryAt(v, f, r), v)
  BY <1>1, FindType, Zenon
<1>7. EntryAt(v, f, r).entry \in Stored
  BY <1>6, <1>2 DEF FoundType
<1> QED BY <1>1, <1>3, <1>4, <1>5, <1>7, Zenon

LEMMA RowTypes ==
  ASSUME NEW v \in Volume, NEW c \in Cluster
  PROVE  /\ [v EXCEPT !.slots[c] = [i \in 1 .. Slots |-> End]] \in Volume
         /\ \A i \in 1 .. Slots, x \in Stored : [v EXCEPT !.slots[c][i] = x] \in Volume
<1>1. [i \in 1 .. Slots |-> End] \in Row
  BY Plain DEF Row
<1>2. [v EXCEPT !.slots[c] = [i \in 1 .. Slots |-> End]] \in Volume
  BY <1>1 DEF Volume
<1>3. ASSUME NEW i \in 1 .. Slots, NEW x \in Stored PROVE [v EXCEPT !.slots[c][i] = x] \in Volume
  <2>1. v.slots[c] \in Row
    BY DEF Volume
  <2>2. [v.slots[c] EXCEPT ![i] = x] \in Row
    BY <2>1 DEF Row
  <2>3. [v EXCEPT !.slots[c] = [v.slots[c] EXCEPT ![i] = x]] \in Volume
    BY <2>2 DEF Volume
  <2> QED BY <2>3
<1> QED BY <1>2, <1>3

\* allocateCluster: the cluster it hands out, on the way even if it cannot be
\* cleared.
NewType(new) ==
  /\ new.v \in Volume /\ new.status \in {"ok", "noSpace", "ioError"}
  /\ new.status = "noSpace" => new.cluster = none
  /\ new.status # "noSpace" => new.cluster \in Cluster

LEMMA AllocateType ==
  ASSUME NEW v \in Volume, NEW f
  PROVE  NewType(allocateCluster(v, f))
<1> DEFINE free == {c \in Cluster : readFat(v, f, c) = Free}
           c == Min(free)
           v1 == writeFat(v, f, c, endOfChain)
           row == [i \in 1 .. Slots |-> End]
<1>1. CASE free = {}
  BY <1>1 DEF allocateCluster, NewType
<1>2. CASE free # {}
  <2>1. free \in SUBSET Nat /\ free \subseteq Cluster
    BY Sizes
  <2>2. c \in Cluster
    <3> HIDE DEF free
    <3> QED BY <2>1, <1>2, MinIsLeast
  <2> HIDE DEF c
  <2>3. v1 \in Volume
    BY <2>2, TableTypes DEF FatValue
  <2> HIDE DEF v1
  <2>4. [v1 EXCEPT !.slots[c] = row] \in Volume
    BY <2>2, <2>3, RowTypes
  <2>5. allocateCluster(v, f) =
          IF c = f.data THEN [v |-> v1, status |-> "ioError", cluster |-> c]
          ELSE [v |-> [v1 EXCEPT !.slots[c] = row], status |-> "ok", cluster |-> c]
    <3> HIDE DEF row
    <3> QED BY <1>2, Zenon DEF allocateCluster, c, v1, row
  <2> HIDE DEF row
  <2> QED BY <2>2, <2>3, <2>4, <2>5 DEF NewType
<1> QED BY <1>1, <1>2

LEMMA FreeType ==
  ASSUME NEW v \in Volume, NEW f, NEW c
  PROVE  freeChain(v, f, c) \in Volume
<1> DEFINE fat == [x \in Cluster |-> IF x \in ToSet(Chain(v, f, c)) /\ x # f.read THEN Free ELSE v.fat[x]]
<1>1. fat \in [Cluster -> FatValue]
  BY DEF Volume, FatValue
<1>2. freeChain(v, f, c) = [v EXCEPT !.fat = fat]
  BY DEF freeChain
<1> HIDE DEF fat
<1> QED BY <1>1, <1>2 DEF Volume

LEMMA LastOfChain ==
  ASSUME NEW v \in Volume, NEW f, NEW c \in Cluster
  PROVE  Last(Chain(v, f, c)) \in Cluster
<1> DEFINE s == Chain(v, f, c)
<1>1. s \in Seq(Cluster) /\ Len(s) \in Nat /\ Len(s) >= 1
  BY ChainWalks DEF IsWalk
<1> HIDE DEF s
<1>2. s[Len(s)] \in Cluster
  BY <1>1
<1> QED BY <1>2 DEF Last, s

LEMMA LinkType ==
  ASSUME NEW v \in Volume, NEW f, NEW last \in Cluster, NEW c \in Cluster
  PROVE  writeFat(writeFat(v, f, last, c), f, c, endOfChain) \in Volume
<1>1. writeFat(v, f, last, c) \in Volume
  BY TableTypes DEF FatValue
<1> QED BY <1>1, TableTypes DEF FatValue

LEMMA FreeEntryType ==
  ASSUME NEW v \in Volume, NEW f, NEW dir \in Cluster
  PROVE  PlaceType(findFreeEntry(v, f, dir))
<1> DEFINE wanted == {p \in Position : \/ p.cluster = Unreadable(f)
                                       \/ SlotAt(v, p) \in {End, Deleted}}
           r == FirstIn(Chain(v, f, dir), wanted)
           new == allocateCluster(v, f)
           last == Last(Chain(v, f, dir))
<1>1. findFreeEntry(v, f, dir) = FreeEntryAt(v, f, dir, r)
  BY Zenon DEF findFreeEntry
<1>2. r # Nowhere => r.cluster \in Cluster /\ r.index \in 1 .. Slots
  <2> HIDE DEF wanted
  <2> QED BY FirstType
<1>3. last \in Cluster /\ NewType(new)
  BY LastOfChain, AllocateType
<1> HIDE DEF r, new, last, wanted
<1>4. new.status = "ok" => writeFat(writeFat(new.v, f, last, new.cluster), f, new.cluster, endOfChain) \in Volume
  BY <1>3, LinkType DEF NewType
<1>5. PlaceType(Extended(f, last, new))
  <2>1. CASE new.status # "ok"
    BY <2>1, <1>3 DEF Extended, PlaceType, NewType
  <2>2. CASE new.status = "ok"
    <3> DEFINE w == writeFat(writeFat(new.v, f, last, new.cluster), f, new.cluster, endOfChain)
    <3>1. new.cluster \in Cluster /\ 1 \in 1 .. Slots /\ w \in Volume
      BY <2>2, <1>3, <1>4, Sizes DEF NewType
    <3>2. Extended(f, last, new) = [v |-> w, status |-> "ok", pos |-> [cluster |-> new.cluster, index |-> 1]]
      BY <2>2, Zenon DEF Extended
    <3> HIDE DEF w
    <3> QED BY <3>1, <3>2 DEF PlaceType
  <2> QED BY <2>1, <2>2
<1>6. CASE r = Nowhere
  BY <1>6, <1>1, <1>5 DEF FreeEntryAt, last, new
<1>7. CASE r # Nowhere
  BY <1>7, <1>1, <1>2 DEF FreeEntryAt, PlaceType
<1> QED BY <1>6, <1>7

LEMMA WriteEntryType ==
  ASSUME NEW v \in Volume, NEW f, NEW pos, NEW slot \in Stored,
         pos.cluster \in Cluster, pos.index \in 1 .. Slots
  PROVE  Result(writeEntry(v, f, pos, slot))
<1>1. [v EXCEPT !.slots[pos.cluster][pos.index] = slot] \in Volume
  BY RowTypes
<1> QED BY <1>1 DEF writeEntry, Result, Status

LEMMA CreateEntryType ==
  ASSUME NEW v \in Volume, NEW f, NEW parent \in Cluster, NEW entry \in Stored
  PROVE  Result(createEntry(v, f, parent, entry))
<1> DEFINE found == findEntry(v, f, parent, entry.name).status
           slot == findFreeEntry(v, f, parent)
<1>1. found \in {"ok", "notFound", "ioError"}
  BY FindType DEF FoundType
<1>2. PlaceType(slot)
  BY FreeEntryType
<1>3. createEntry(v, f, parent, entry) = PutEntry(v, f, found, slot, entry)
  BY Zenon DEF createEntry
<1> HIDE DEF found, slot
<1>4. slot.status = "ok" => Result(writeEntry(slot.v, f, slot.pos, entry))
  BY <1>2, WriteEntryType DEF PlaceType
<1>5. Result(PutEntry(v, f, found, slot, entry))
  BY <1>1, <1>2, <1>4 DEF PutEntry, PlaceType, Result, Status
<1> QED BY <1>3, <1>5

LEMMA InitializeType ==
  ASSUME NEW v \in Volume, NEW f, NEW c \in Cluster, NEW parent \in Cluster
  PROVE  Result(initializeDirectory(v, f, c, parent))
<1> DEFINE row == [i \in 1 .. Slots |->
                     IF i = 1 THEN Entry(".", TRUE, c, 0)
                     ELSE IF i = 2 THEN Entry("..", TRUE, parent, 0) ELSE End]
<1>0. 0 \in 0 .. MaxSize
  BY ConstantsAssumption DEF ConstantsAssumption
<1>1. Entry(".", TRUE, c, 0) \in Stored /\ Entry("..", TRUE, parent, 0) \in Stored
  BY <1>0, EntryStored
<1>2. row \in Row
  BY <1>1, Plain DEF Row
<1>3. initializeDirectory(v, f, c, parent) =
        IF c = f.data THEN [v |-> v, status |-> "ioError"]
        ELSE [v |-> [v EXCEPT !.slots[c] = row], status |-> "ok"]
  BY DEF initializeDirectory
<1> HIDE DEF row
<1>4. [v EXCEPT !.slots[c] = row] \in Volume
  BY <1>2 DEF Volume
<1> QED BY <1>3, <1>4 DEF Result, Status

--------------------------------------------------------------------------------
(* The types of a walk *)

WalkSet == {at \in [status: Status, cluster: {none} \cup Cluster] : at.status = "ok" => at.cluster \in Cluster}

LEMMA PathTyped ==
  ASSUME NEW path \in Paths
  PROVE  /\ path.abs \in BOOLEAN
         /\ Len(path.comps) \in Nat /\ Len(path.comps) >= 1
         /\ \A k \in 1 .. Len(path.comps) : path.comps[k] \in Names \cup {".."}
         /\ Last(path.comps) \in Names \cup {".."}
<1>1. path.abs \in BOOLEAN /\ path.comps \in Seq(Names \cup {".."}) /\ path.comps # <<>>
  BY ConstantsAssumption DEF ConstantsAssumption
<1>2. Len(path.comps) \in Nat /\ Len(path.comps) >= 1
  BY <1>1
<1> QED BY <1>1, <1>2 DEF Last

LEMMA NoDots == "." \notin Names /\ ".." \notin Names /\ "." # ".."
  BY ConstantsAssumption DEF ConstantsAssumption

LEMMA StartType ==
  ASSUME cwd \in Cluster, NEW path \in Paths
  PROVE  Start(path) \in WalkSet /\ Start(path).status = "ok" /\ Start(path).cluster \in Cluster
  BY Sizes, PathTyped DEF Start, WalkSet, Status

LEMMA EnteredType ==
  ASSUME NEW v \in Volume, NEW at \in WalkSet, NEW comp, NEW found, FoundType(found, v),
         found.status = "ok" => found.entry.kind = "entry"
  PROVE  Entered(at, comp, found) \in WalkSet
<1>1. found.status \in Status
  BY DEF FoundType, Status
<1>2. found.status = "ok" => found.entry.dir \in BOOLEAN /\ (found.entry.dir => found.entry.first \in Cluster)
  BY Slotted DEF FoundType
<1> QED BY <1>1, <1>2, Sizes DEF Entered, WalkSet, Status

LEMMA StepType ==
  ASSUME vol \in Volume, NEW f, NEW at \in WalkSet, NEW comp
  PROVE  Step(f, at, comp) \in WalkSet /\ ParentStep(f, at, comp) \in WalkSet
<1> DEFINE found == findEntry(vol, f, at.cluster, comp)
<1>1. FoundType(found, vol)
  BY FindType
<1>2. found.status = "ok" => found.entry.kind = "entry"
  BY FindsEntry
<1> HIDE DEF found
<1>3. Entered(at, comp, found) \in WalkSet
  BY <1>1, <1>2, EnteredType
<1>4. Step(f, at, comp) \in WalkSet
  BY <1>3 DEF Step, found
<1> QED BY <1>4 DEF ParentStep

\* A walk, step by step: the directories it visits.
ExistingRun(f, path, h, n) ==
  /\ h[0] = Start(path)
  /\ \A k \in Nat : 1 <= k /\ k <= n => h[k] = Step(f, h[k - 1], path.comps[k])

ParentRun(f, path, h, n) ==
  /\ h[0] = Start(path)
  /\ \A k \in Nat : 1 <= k /\ k <= n => h[k] = ParentStep(f, h[k - 1], path.comps[k])

\* The walk of changeDirectory with the text it edits.
PathSet == [walk: WalkSet, text: Seq(Names)]

PathStart(path) == [walk |-> Start(path), text |-> IF path.abs THEN <<>> ELSE cwdPath]

PathRun(f, path, h, n) ==
  /\ h[0] = PathStart(path)
  /\ \A k \in Nat : 1 <= k /\ k <= n => h[k] = PathStep(f, h[k - 1], path.comps[k])

LEMMA EditedType ==
  ASSUME NEW text \in Seq(Names), NEW comp \in Names \cup {".."}, NEW cluster
  PROVE  Edited(text, comp, cluster) \in Seq(Names)
<1>1. comp # ".." => Append(text, comp) \in Seq(Names)
  OBVIOUS
<1>2. text # <<>> => Front(text) \in Seq(Names)
  <2> SUFFICES ASSUME text # <<>> PROVE Front(text) \in Seq(Names)
    OBVIOUS
  <2>1. Len(text) \in Nat /\ Len(text) >= 1 /\ Len(text) - 1 \in Nat
    OBVIOUS
  <2>2. \A i \in 1 .. Len(text) - 1 : text[i] \in Names
    BY <2>1
  <2>3. SubSeq(text, 1, Len(text) - 1) \in Seq(Names)
    BY <2>1, <2>2
  <2> QED BY <2>3 DEF Front
<1>3. <<>> \in Seq(Names)
  OBVIOUS
<1> QED BY <1>1, <1>2, <1>3 DEF Edited

LEMMA PathStepType ==
  ASSUME vol \in Volume, NEW f, NEW at \in PathSet, NEW comp \in Names \cup {".."}
  PROVE  PathStep(f, at, comp) \in PathSet
<1>1. at.walk \in WalkSet /\ at.text \in Seq(Names)
  BY DEF PathSet
<1>2. Step(f, at.walk, comp) \in WalkSet /\ Edited(at.text, comp, at.walk.cluster) \in Seq(Names)
  BY <1>1, StepType, EditedType
<1>3. PathStep(f, at, comp) = IF at.walk.status # "ok" THEN at
        ELSE [walk |-> Step(f, at.walk, comp), text |-> Edited(at.text, comp, at.walk.cluster)]
  BY Zenon DEF PathStep
<1> QED BY <1>2, <1>3 DEF PathSet


LEMMA ExistingUnfolds ==
  ASSUME vol \in Volume, cwd \in Cluster, NEW f, NEW path \in Paths
  PROVE  \E h : /\ ExistingRun(f, path, h, Len(path.comps) - 1)
                /\ \A k \in Nat : k <= Len(path.comps) - 1 => h[k] \in WalkSet
                /\ ExistingParent(f, path) = h[Len(path.comps) - 1]
<1> DEFINE n == Len(path.comps) - 1
           a == Start(path)
           F == [p \in WalkSet \X Nat |->
                   IF p[2] \in 1 .. n THEN Step(f, p[1], path.comps[p[2]]) ELSE p[1]]
           Is(h) == h = [k \in 0 .. n |-> IF k = 0 THEN a ELSE Step(f, h[k - 1], path.comps[k])]
           at == CHOOSE h : Is(h)
<1>0. n \in Nat /\ n <= Len(path.comps) /\ \A k \in 1 .. n : path.comps[k] \in Names \cup {".."}
  BY PathTyped
<1>1. a \in WalkSet
  BY StartType
<1>2. F \in [WalkSet \X Nat -> WalkSet]
  <2>1. ASSUME NEW p \in WalkSet \X Nat
        PROVE  (IF p[2] \in 1 .. n THEN Step(f, p[1], path.comps[p[2]]) ELSE p[1]) \in WalkSet
    <3>1. p[1] \in WalkSet
      OBVIOUS
    <3> HIDE DEF n
    <3> QED BY <3>1, <1>0, StepType
  <2> HIDE DEF n
  <2> QED BY <2>1
<1>3. PICK g \in [0 .. n -> WalkSet] : IsRun(g, a, n, F)
  <2> HIDE DEF F, n, a
  <2> QED BY <1>0, <1>1, <1>2, Iterated
<1>4. Is(g)
  <2>1. ASSUME NEW k \in 1 .. n PROVE F[<<g[k - 1], k>>] = Step(f, g[k - 1], path.comps[k])
    <3>1. k - 1 \in 0 .. n /\ k \in Nat
      BY <1>0
    <3>2. g[k - 1] \in WalkSet
      BY <3>1, <1>3
    <3> HIDE DEF n
    <3> QED BY <3>1, <3>2
  <2> HIDE DEF F, a, n
  <2>2. \A k \in 0 .. n : (IF k = 0 THEN a ELSE F[<<g[k - 1], k>>])
                          = (IF k = 0 THEN a ELSE Step(f, g[k - 1], path.comps[k]))
    BY <1>0, <2>1
  <2>3. g = [k \in 0 .. n |-> IF k = 0 THEN a ELSE Step(f, g[k - 1], path.comps[k])]
    BY <1>3, <2>2, Zenon DEF IsRun
  <2> QED BY <2>3
<1>5. Is(at)
  <2> HIDE DEF Is
  <2> QED BY <1>4, Zenon
<1>6. ExistingParent(f, path) = at[Len(path.comps) - 1]
  BY Zenon DEF ExistingParent
<1> HIDE DEF at, n, a
<1>7. at[0] = a /\ \A k \in Nat : 1 <= k /\ k <= n => at[k] = Step(f, at[k - 1], path.comps[k])
  BY <1>0, <1>5
<1> HIDE DEF Is
<1> DEFINE T == {k \in Nat : k <= n => at[k] \in WalkSet}
<1>8. T = Nat
  <2>1. 0 \in T
    BY <1>7, <1>1
  <2>2. ASSUME NEW k \in T PROVE k + 1 \in T
    <3>1. k \in Nat /\ k + 1 \in Nat
      OBVIOUS
    <3>2. CASE k + 1 <= n
      <4>1. at[k] \in WalkSet /\ k + 1 \in 1 .. n /\ k + 1 - 1 = k
        BY <3>1, <3>2, <1>0
      <4>2. at[k + 1] = Step(f, at[k], path.comps[k + 1])
        BY <4>1, <3>1, <3>2, <1>7
      <4>3. at[k + 1] \in WalkSet
        BY <4>1, <4>2, <1>0, StepType
      <4> QED BY <3>1, <4>3
    <3>3. CASE ~(k + 1 <= n)
      BY <3>1, <3>3
    <3> QED BY <3>2, <3>3
  <2>3. T \in SUBSET Nat
    OBVIOUS
  <2> HIDE DEF T
  <2> QED BY <2>1, <2>2, <2>3, HandedOn
<1>9. \A k \in Nat : k <= n => at[k] \in WalkSet
  BY <1>8
<1>10. ExistingRun(f, path, at, n)
  BY <1>7 DEF ExistingRun, a
<1> QED BY <1>6, <1>9, <1>10 DEF n

LEMMA ParentUnfolds ==
  ASSUME vol \in Volume, cwd \in Cluster, NEW f, NEW path \in Paths
  PROVE  \E h : /\ ParentRun(f, path, h, Len(path.comps) - 1)
                /\ \A k \in Nat : k <= Len(path.comps) - 1 => h[k] \in WalkSet
                /\ resolveParent(f, path) = NotDots(h[Len(path.comps) - 1], path)
<1> DEFINE n == Len(path.comps) - 1
           a == Start(path)
           F == [p \in WalkSet \X Nat |->
                   IF p[2] \in 1 .. n THEN ParentStep(f, p[1], path.comps[p[2]]) ELSE p[1]]
           Is(h) == h = [k \in 0 .. n |-> IF k = 0 THEN a ELSE ParentStep(f, h[k - 1], path.comps[k])]
           at == CHOOSE h : Is(h)
<1>0. n \in Nat /\ n <= Len(path.comps) /\ \A k \in 1 .. n : path.comps[k] \in Names \cup {".."}
  BY PathTyped
<1>1. a \in WalkSet
  BY StartType
<1>2. F \in [WalkSet \X Nat -> WalkSet]
  <2>1. ASSUME NEW p \in WalkSet \X Nat
        PROVE  (IF p[2] \in 1 .. n THEN ParentStep(f, p[1], path.comps[p[2]]) ELSE p[1]) \in WalkSet
    <3>1. p[1] \in WalkSet
      OBVIOUS
    <3> HIDE DEF n
    <3> QED BY <3>1, <1>0, StepType
  <2> HIDE DEF n
  <2> QED BY <2>1
<1>3. PICK g \in [0 .. n -> WalkSet] : IsRun(g, a, n, F)
  <2> HIDE DEF F, n, a
  <2> QED BY <1>0, <1>1, <1>2, Iterated
<1>4. Is(g)
  <2>1. ASSUME NEW k \in 1 .. n PROVE F[<<g[k - 1], k>>] = ParentStep(f, g[k - 1], path.comps[k])
    <3>1. k - 1 \in 0 .. n /\ k \in Nat
      BY <1>0
    <3>2. g[k - 1] \in WalkSet
      BY <3>1, <1>3
    <3> HIDE DEF n
    <3> QED BY <3>1, <3>2
  <2> HIDE DEF F, a, n
  <2>2. \A k \in 0 .. n : (IF k = 0 THEN a ELSE F[<<g[k - 1], k>>])
                          = (IF k = 0 THEN a ELSE ParentStep(f, g[k - 1], path.comps[k]))
    BY <1>0, <2>1
  <2>3. g = [k \in 0 .. n |-> IF k = 0 THEN a ELSE ParentStep(f, g[k - 1], path.comps[k])]
    BY <1>3, <2>2, Zenon DEF IsRun
  <2> QED BY <2>3
<1>5. Is(at)
  <2> HIDE DEF Is
  <2> QED BY <1>4, Zenon
<1>6. resolveParent(f, path) = NotDots(at[Len(path.comps) - 1], path)
  BY Zenon DEF resolveParent
<1> HIDE DEF at, n, a
<1>7. at[0] = a /\ \A k \in Nat : 1 <= k /\ k <= n => at[k] = ParentStep(f, at[k - 1], path.comps[k])
  BY <1>0, <1>5
<1> HIDE DEF Is
<1> DEFINE T == {k \in Nat : k <= n => at[k] \in WalkSet}
<1>8. T = Nat
  <2>1. 0 \in T
    BY <1>7, <1>1
  <2>2. ASSUME NEW k \in T PROVE k + 1 \in T
    <3>1. k \in Nat /\ k + 1 \in Nat
      OBVIOUS
    <3>2. CASE k + 1 <= n
      <4>1. at[k] \in WalkSet /\ k + 1 \in 1 .. n /\ k + 1 - 1 = k
        BY <3>1, <3>2, <1>0
      <4>2. at[k + 1] = ParentStep(f, at[k], path.comps[k + 1])
        BY <4>1, <3>1, <3>2, <1>7
      <4>3. at[k + 1] \in WalkSet
        BY <4>1, <4>2, <1>0, StepType
      <4> QED BY <3>1, <4>3
    <3>3. CASE ~(k + 1 <= n)
      BY <3>1, <3>3
    <3> QED BY <3>2, <3>3
  <2>3. T \in SUBSET Nat
    OBVIOUS
  <2> HIDE DEF T
  <2> QED BY <2>1, <2>2, <2>3, HandedOn
<1>9. \A k \in Nat : k <= n => at[k] \in WalkSet
  BY <1>8
<1>10. ParentRun(f, path, at, n)
  BY <1>7 DEF ParentRun, a
<1> QED BY <1>6, <1>9, <1>10 DEF n

LEMMA PathUnfolds ==
  ASSUME vol \in Volume, cwd \in Cluster, cwdPath \in Seq(Names), NEW f, NEW path \in Paths
  PROVE  \E h : /\ PathRun(f, path, h, Len(path.comps))
                /\ \A k \in Nat : k <= Len(path.comps) => h[k] \in PathSet
                /\ PathWalk(f, path) = h[Len(path.comps)]
<1> DEFINE n == Len(path.comps)
           a == PathStart(path)
           F == [p \in PathSet \X Nat |->
                   IF p[2] \in 1 .. n THEN PathStep(f, p[1], path.comps[p[2]]) ELSE p[1]]
           Is(h) == h = [k \in 0 .. n |-> IF k = 0 THEN a ELSE PathStep(f, h[k - 1], path.comps[k])]
           at == CHOOSE h : Is(h)
<1>0. n \in Nat /\ n <= Len(path.comps) /\ \A k \in 1 .. n : path.comps[k] \in Names \cup {".."}
  BY PathTyped
<1>1. a \in PathSet
  BY StartType, PathTyped DEF PathSet, PathStart
<1>2. F \in [PathSet \X Nat -> PathSet]
  <2>1. ASSUME NEW p \in PathSet \X Nat
        PROVE  (IF p[2] \in 1 .. n THEN PathStep(f, p[1], path.comps[p[2]]) ELSE p[1]) \in PathSet
    <3>1. p[1] \in PathSet
      OBVIOUS
    <3> HIDE DEF n
    <3> QED BY <3>1, <1>0, PathStepType
  <2> HIDE DEF n
  <2> QED BY <2>1
<1>3. PICK g \in [0 .. n -> PathSet] : IsRun(g, a, n, F)
  <2> HIDE DEF F, n, a
  <2> QED BY <1>0, <1>1, <1>2, Iterated
<1>4. Is(g)
  <2>1. ASSUME NEW k \in 1 .. n PROVE F[<<g[k - 1], k>>] = PathStep(f, g[k - 1], path.comps[k])
    <3>1. k - 1 \in 0 .. n /\ k \in Nat
      BY <1>0
    <3>2. g[k - 1] \in PathSet
      BY <3>1, <1>3
    <3> HIDE DEF n
    <3> QED BY <3>1, <3>2
  <2> HIDE DEF F, a, n
  <2>2. \A k \in 0 .. n : (IF k = 0 THEN a ELSE F[<<g[k - 1], k>>])
                          = (IF k = 0 THEN a ELSE PathStep(f, g[k - 1], path.comps[k]))
    BY <1>0, <2>1
  <2>3. g = [k \in 0 .. n |-> IF k = 0 THEN a ELSE PathStep(f, g[k - 1], path.comps[k])]
    BY <1>3, <2>2, Zenon DEF IsRun
  <2> QED BY <2>3
<1>5. Is(at)
  <2> HIDE DEF Is
  <2> QED BY <1>4, Zenon
<1>6. PathWalk(f, path) = at[Len(path.comps)]
  BY Zenon DEF PathWalk, PathStart
<1> HIDE DEF at, n, a
<1>7. at[0] = a /\ \A k \in Nat : 1 <= k /\ k <= n => at[k] = PathStep(f, at[k - 1], path.comps[k])
  BY <1>0, <1>5
<1> HIDE DEF Is
<1> DEFINE T == {k \in Nat : k <= n => at[k] \in PathSet}
<1>8. T = Nat
  <2>1. 0 \in T
    BY <1>7, <1>1
  <2>2. ASSUME NEW k \in T PROVE k + 1 \in T
    <3>1. k \in Nat /\ k + 1 \in Nat
      OBVIOUS
    <3>2. CASE k + 1 <= n
      <4>1. at[k] \in PathSet /\ k + 1 \in 1 .. n /\ k + 1 - 1 = k
        BY <3>1, <3>2, <1>0
      <4>2. at[k + 1] = PathStep(f, at[k], path.comps[k + 1])
        BY <4>1, <3>1, <3>2, <1>7
      <4>3. at[k + 1] \in PathSet
        BY <4>1, <4>2, <1>0, PathStepType
      <4> QED BY <3>1, <4>3
    <3>3. CASE ~(k + 1 <= n)
      BY <3>1, <3>3
    <3> QED BY <3>2, <3>3
  <2>3. T \in SUBSET Nat
    OBVIOUS
  <2> HIDE DEF T
  <2> QED BY <2>1, <2>2, <2>3, HandedOn
<1>9. \A k \in Nat : k <= n => at[k] \in PathSet
  BY <1>8
<1>10. PathRun(f, path, at, n)
  BY <1>7 DEF PathRun, a
<1> QED BY <1>6, <1>9, <1>10 DEF n

--------------------------------------------------------------------------------
(* The types of a chain that grows and of its text *)

LEMMA Covering ==
  ASSUME NEW n \in Nat
  PROVE  /\ ClustersFor(n) \in Nat
         /\ n >= 1 => ClustersFor(n) >= 1
         /\ n <= ClustersFor(n) * Slots /\ ClustersFor(n) * Slots < n + Slots
<1>1. Slots \in Nat /\ Slots >= 2
  BY Sizes
<1> DEFINE m == n + Slots - 1
           q == m \div Slots
           r == m % Slots
<1>2. m \in Nat
  BY <1>1
<1>3. q \in Nat /\ r \in Nat /\ r < Slots /\ m = q * Slots + r
  <2> HIDE DEF m
  <2> QED BY <1>1, <1>2
<1>4. ClustersFor(n) = q
  BY DEF ClustersFor
<1> HIDE DEF q, r
<1>5. n <= q * Slots /\ q * Slots < n + Slots
  BY <1>1, <1>3
<1>6. n >= 1 => q >= 1
  BY <1>1, <1>3, <1>5
<1> QED BY <1>3, <1>4, <1>5, <1>6

GrowSet == [v: Volume, status: Status, at: Cluster]

LEMMA GrowStepType ==
  ASSUME NEW f, NEW g \in GrowSet
  PROVE  GrowStep(f, g) \in GrowSet
<1> DEFINE new == allocateCluster(g.v, f)
           w == writeFat(writeFat(new.v, f, g.at, new.cluster), f, new.cluster, endOfChain)
           next == nextCluster(g.v, f, g.at)
<1>1. g.v \in Volume /\ g.status \in Status /\ g.at \in Cluster
  BY DEF GrowSet
<1>2. NewType(new) /\ next \in {none} \cup Cluster
  BY <1>1, AllocateType, TableTypes
<1>3. new.status = "ok" => w \in Volume
  BY <1>1, <1>2, LinkType DEF NewType
<1>4. Appended(f, g, new) =
        IF new.status # "ok" THEN [g EXCEPT !.v = new.v, !.status = new.status]
        ELSE [g EXCEPT !.v = w, !.at = new.cluster]
  BY Zenon DEF Appended
<1>5. GrowStep(f, g) = IF g.status # "ok" THEN g
                       ELSE IF next # none THEN [g EXCEPT !.at = next]
                       ELSE Appended(f, g, new)
  BY Zenon DEF GrowStep
<1> HIDE DEF new, w, next
<1>6. new.v \in Volume /\ new.status \in Status
  BY <1>2 DEF NewType, Status
<1>7. Appended(f, g, new) \in GrowSet
  BY <1>2, <1>3, <1>4, <1>6 DEF GrowSet, NewType
<1>8. next # none => [g EXCEPT !.at = next] \in GrowSet
  BY <1>2 DEF GrowSet
<1> QED BY <1>5, <1>7, <1>8

\* The loop of ensureChainSize, turn by turn.
GrowStart(v, c) == [v |-> v, status |-> "ok", at |-> c]

GrowRun(v, f, c, h, n) ==
  /\ h[0] = GrowStart(v, c)
  /\ \A k \in Nat : 1 <= k /\ k <= n => h[k] = IF k = 1 THEN GrowStart(v, c) ELSE GrowStep(f, h[k - 1])

LEMMA GrowUnfolds ==
  ASSUME NEW v \in Volume, NEW f, NEW c \in Cluster, NEW n \in Nat
  PROVE  \E h : /\ GrowRun(v, f, c, h, n)
                /\ \A k \in Nat : k <= n => h[k] \in GrowSet
                /\ GrowFrom(v, f, c, n) = h[n]
<1> DEFINE a == GrowStart(v, c)
           F == [p \in GrowSet \X Nat |-> IF p[2] <= 1 THEN a ELSE GrowStep(f, p[1])]
           Is(h) == h = [k \in 0 .. n |-> IF k <= 1 THEN a ELSE GrowStep(f, h[k - 1])]
           at == CHOOSE h : Is(h)
<1>1. a \in GrowSet
  BY DEF GrowSet, GrowStart, Status
<1>2. F \in [GrowSet \X Nat -> GrowSet]
  <2>1. ASSUME NEW p \in GrowSet \X Nat
        PROVE  (IF p[2] <= 1 THEN a ELSE GrowStep(f, p[1])) \in GrowSet
    <3>1. p[1] \in GrowSet
      OBVIOUS
    <3> HIDE DEF a
    <3> QED BY <3>1, <1>1, GrowStepType
  <2> HIDE DEF a
  <2> QED BY <2>1
<1>3. PICK g \in [0 .. n -> GrowSet] : IsRun(g, a, n, F)
  <2> HIDE DEF F, a
  <2> QED BY <1>1, <1>2, Iterated
<1>4. Is(g)
  <2>1. ASSUME NEW k \in 1 .. n PROVE F[<<g[k - 1], k>>] = IF k <= 1 THEN a ELSE GrowStep(f, g[k - 1])
    <3>1. k - 1 \in 0 .. n /\ k \in Nat
      OBVIOUS
    <3>2. g[k - 1] \in GrowSet
      BY <3>1, <1>3
    <3> HIDE DEF a
    <3> QED BY <3>1, <3>2
  <2> HIDE DEF F, a
  <2>2. \A k \in 0 .. n : (IF k = 0 THEN a ELSE F[<<g[k - 1], k>>])
                          = (IF k <= 1 THEN a ELSE GrowStep(f, g[k - 1]))
    BY <2>1
  <2>3. g = [k \in 0 .. n |-> IF k <= 1 THEN a ELSE GrowStep(f, g[k - 1])]
    BY <1>3, <2>2, Zenon DEF IsRun
  <2> QED BY <2>3
<1>5. Is(at)
  <2> HIDE DEF Is
  <2> QED BY <1>4, Zenon
<1>6. GrowFrom(v, f, c, n) = at[n]
  BY Zenon DEF GrowFrom, GrowStart
<1> HIDE DEF at, a
<1>7. at[0] = a /\ \A k \in Nat : 1 <= k /\ k <= n => at[k] = IF k = 1 THEN a ELSE GrowStep(f, at[k - 1])
  BY <1>5
<1> HIDE DEF Is
<1> DEFINE T == {k \in Nat : k <= n => at[k] \in GrowSet}
<1>8. T = Nat
  <2>1. 0 \in T
    BY <1>7, <1>1
  <2>2. ASSUME NEW k \in T PROVE k + 1 \in T
    <3>1. k \in Nat /\ k + 1 \in Nat
      OBVIOUS
    <3>2. CASE k + 1 <= n
      <4>1. at[k] \in GrowSet /\ k + 1 - 1 = k /\ 1 <= k + 1
        BY <3>1, <3>2
      <4>2. at[k + 1] = IF k + 1 = 1 THEN a ELSE GrowStep(f, at[k])
        BY <4>1, <3>1, <3>2, <1>7
      <4>3. at[k + 1] \in GrowSet
        BY <4>1, <4>2, <1>1, GrowStepType
      <4> QED BY <3>1, <4>3
    <3>3. CASE ~(k + 1 <= n)
      BY <3>1, <3>3
    <3> QED BY <3>2, <3>3
  <2>3. T \in SUBSET Nat
    OBVIOUS
  <2> HIDE DEF T
  <2> QED BY <2>1, <2>2, <2>3, HandedOn
<1>9. \A k \in Nat : k <= n => at[k] \in GrowSet
  BY <1>8
<1>10. GrowRun(v, f, c, at, n)
  BY <1>7 DEF GrowRun, a
<1> QED BY <1>6, <1>9, <1>10

LEMMA GrowType ==
  ASSUME NEW v \in Volume, NEW f, NEW c \in Cluster, NEW n \in Nat
  PROVE  GrowFrom(v, f, c, n) \in GrowSet
  BY GrowUnfolds

ChainType(r) == r.v \in Volume /\ r.status \in Status /\ r.first \in {none} \cup Cluster

LEMMA EnsureType ==
  ASSUME NEW v \in Volume, NEW f, NEW first \in {none} \cup Cluster, NEW size \in Nat
  PROVE  ChainType(ensureChainSize(v, f, first, size))
<1> DEFINE new == allocateCluster(v, f)
<1>1. NewType(new)
  BY AllocateType
<1> HIDE DEF new
<1>2. CASE size = 0
  BY <1>2 DEF ensureChainSize, ChainType, Status
<1>3. CASE size # 0
  <2>1. ClustersFor(size) \in Nat /\ ClustersFor(size) >= 1
    BY <1>3, Covering
  <2>2. ClustersFor(size) - 1 \in Nat
    BY <2>1
  <2>3. CASE first = none
    <3>1. ChainType(NewChain(f, new, size))
      <4>1. new.status = "ok" => GrowFrom(new.v, f, new.cluster, ClustersFor(size) - 1) \in GrowSet
        BY <1>1, <2>2, GrowType DEF NewType
      <4>2. CASE new.status = "ok"
        BY <4>1, <4>2, <1>1 DEF NewChain, Chained, ChainType, GrowSet, NewType
      <4>3. CASE new.status # "ok"
        BY <4>3, <1>1 DEF NewChain, Chained, ChainType, NewType, Status
      <4> QED BY <4>2, <4>3
    <3>2. ensureChainSize(v, f, first, size) = NewChain(f, new, size)
      BY <1>3, <2>3, Zenon DEF ensureChainSize, new
    <3> QED BY <3>1, <3>2
  <2>4. CASE first # none
    <3>1. GrowFrom(v, f, first, ClustersFor(size)) \in GrowSet
      BY <2>1, <2>4, GrowType
    <3>2. ensureChainSize(v, f, first, size) = Chained(GrowFrom(v, f, first, ClustersFor(size)), first)
      BY <1>3, <2>4, Zenon DEF ensureChainSize
    <3> QED BY <3>1, <3>2 DEF Chained, ChainType, GrowSet
  <2> QED BY <2>3, <2>4
<1> QED BY <1>2, <1>3

LEMMA WriteDataType ==
  ASSUME NEW v \in Volume, NEW f, NEW first, NEW from, NEW to
  PROVE  Result(writeData(v, f, first, from, to)) /\ writeData(v, f, first, from, to).v.fat = v.fat
<1> DEFINE chain == Chain(v, f, first)
           touched == {k \in 1 .. ClustersFor(to) : k * Slots > from}
           bad     == {k \in touched : k > Len(chain) \/ chain[k] = Unreadable(f)}
           copied  == {k \in touched : \A b \in bad : k < b}
           text(k) == {i \in 1 .. Slots : from < (k - 1) * Slots + i /\ (k - 1) * Slots + i <= to}
           new(c, i) == IF \E k \in copied : chain[k] = c /\ i \in text(k) THEN Text ELSE v.slots[c][i]
           slots == [c \in Cluster |-> [i \in 1 .. Slots |-> new(c, i)]]
<1>1. CopyInto(v, f, chain, from, to) =
        [v |-> [v EXCEPT !.slots = slots], status |-> IF bad = {} THEN "ok" ELSE "ioError"]
  BY Zenon DEF CopyInto
<1>2. slots \in [Cluster -> Row]
  <2> HIDE DEF copied, text
  <2>1. \A c \in Cluster, i \in 1 .. Slots : new(c, i) \in Stored
    BY SlotIn, Plain
  <2> HIDE DEF new
  <2> QED BY <2>1 DEF Row
<1> HIDE DEF slots, bad
<1>3. Result(CopyInto(v, f, chain, from, to)) /\ CopyInto(v, f, chain, from, to).v.fat = v.fat
  BY <1>1, <1>2 DEF Result, Status, Volume
<1> HIDE DEF chain
<1> QED BY <1>3 DEF writeData, Result, Status, chain

--------------------------------------------------------------------------------
(* The types of the commands *)

TypeInv ==
  /\ vol \in Volume
  /\ cwd \in Cluster /\ cwdPath \in Seq(Names)
  /\ status \in Status /\ harm \in Harm

LEMMA ParentType ==
  ASSUME TypeInv, NEW f, NEW path \in Paths
  PROVE  resolveParent(f, path) \in WalkSet /\ ExistingParent(f, path) \in WalkSet
<1>1. Len(path.comps) - 1 \in Nat
  BY PathTyped
<1>2. ExistingParent(f, path) \in WalkSet
  BY <1>1, ExistingUnfolds DEF TypeInv
<1>3. PICK at \in WalkSet : resolveParent(f, path) = NotDots(at, path)
  BY <1>1, ParentUnfolds DEF TypeInv
<1>4. NotDots(at, path) \in WalkSet
  BY <1>3 DEF NotDots, WalkSet, Status
<1> QED BY <1>2, <1>3, <1>4

\* resolveParent accepts a path only if it ends in a name.
LEMMA ParentNamed ==
  ASSUME NEW f, NEW path \in Paths, TypeInv, resolveParent(f, path).status = "ok"
  PROVE  Last(path.comps) \in Names
<1>1. Len(path.comps) - 1 \in Nat
  BY PathTyped
<1>2. PICK at \in WalkSet : resolveParent(f, path) = NotDots(at, path)
  BY <1>1, ParentUnfolds DEF TypeInv
<1>3. Last(path.comps) # ".."
  BY <1>2 DEF NotDots, WalkSet
<1> QED BY <1>3, PathTyped

LEMMA LastType ==
  ASSUME TypeInv, NEW f, NEW parent, NEW path
  PROVE  /\ FoundType(LastIn(f, parent, path), vol)
         /\ LastIn(f, parent, path).status = "ok" =>
              /\ LastIn(f, parent, path).entry.kind = "entry"
              /\ LastIn(f, parent, path).entry.name = Last(path.comps)
  BY FindType, FindsEntry DEF LastIn, TypeInv

LEMMA Bounds ==
  /\ MaxSize \in Nat /\ 0 \in 0 .. MaxSize
  /\ \A n \in Lengths : n \in Nat /\ n \in 0 .. MaxSize /\ n <= Slots
<1>1. MaxSize \in Nat /\ Lengths \subseteq 0 .. MaxSize
  BY ConstantsAssumption, Zenon DEF ConstantsAssumption
<1>2. \A n \in Lengths : n <= Slots
  BY LinesAreShort, Zenon DEF LinesAreShort
<1> QED BY <1>1, <1>2

LEMMA WriteNewType ==
  ASSUME NEW f, NEW parent \in Cluster, NEW name \in Names, NEW n \in 0 .. MaxSize,
         NEW chain, ChainType(chain)
  PROVE  Result(WriteNew(f, parent, name, n, chain))
<1> DEFINE written == writeData(chain.v, f, chain.first, 0, n)
<1>1. Result(written)
  BY WriteDataType DEF ChainType
<1> HIDE DEF written
<1>2. Entry(name, FALSE, chain.first, n) \in Stored
  BY EntryStored DEF ChainType
<1>3. Result(createEntry(written.v, f, parent, Entry(name, FALSE, chain.first, n)))
  BY <1>1, <1>2, CreateEntryType DEF Result
<1>4. freeChain(written.v, f, chain.first) \in Volume
  BY <1>1, FreeType DEF Result
<1>5. Result(NameText(f, parent, name, n, chain.first, written))
  BY <1>1, <1>3, <1>4 DEF NameText, Done, Result
<1> QED BY <1>5 DEF WriteNew, written, Done, Result, ChainType

LEMMA WriteOldType ==
  ASSUME NEW v \in Volume, NEW f, NEW found, FoundType(found, v), IsFile(found), found.entry.kind = "entry",
         NEW from, NEW to \in 0 .. MaxSize, NEW chain, ChainType(chain)
  PROVE  Result(WriteOld(f, found, from, to, chain))
<1> DEFINE written == writeData(chain.v, f, chain.first, from, to)
           new == [found.entry EXCEPT !.first = chain.first, !.size = to]
<1>1. Result(written)
  BY WriteDataType DEF ChainType
<1> HIDE DEF written
<1>2. new \in Stored
  <2>1. Changed(found.entry, chain.first, to, new)
    BY EntryChanged DEF ChainType, IsFile, FoundType
  <2> HIDE DEF new
  <2> QED BY <2>1 DEF Changed
<1> HIDE DEF new
<1>3. Result(writeEntry(written.v, f, found.pos, new))
  BY <1>1, <1>2, WriteEntryType DEF Result, IsFile, FoundType
<1>4. Result(UpdateEntry(f, found, chain.first, to, written))
  BY <1>1, <1>3 DEF UpdateEntry, Done, Result, new
<1> QED BY <1>4 DEF WriteOld, written, Done, Result, ChainType

LEMMA WriteFileType ==
  ASSUME TypeInv, NEW f, NEW path \in Paths, NEW n \in Lengths, NEW append \in BOOLEAN,
         NEW parent, parent = resolveParent(f, path), NEW found, found = LastIn(f, parent, path),
         append => SizeIn(parent, found) + n <= MaxSize
  PROVE  Result(writeFile(f, path, n, append, parent, found))
<1>1. parent \in WalkSet
  BY ParentType
<1>2. FoundType(found, vol) /\ (found.status = "ok" => found.entry.kind = "entry")
  BY LastType
<1>3. vol \in Volume /\ n \in Nat /\ n \in 0 .. MaxSize
  BY Bounds DEF TypeInv
<1> DEFINE new == ensureChainSize(vol, f, none, n)
           size == found.entry.size + n
           longer == ensureChainSize(vol, f, found.entry.first, size)
           again == ensureChainSize(freeChain(vol, f, found.entry.first), f, none, n)
<1>4. parent.status = "ok" => parent.cluster \in Cluster /\ Last(path.comps) \in Names
  BY <1>1, ParentNamed DEF WalkSet
<1>5. ChainType(new) /\ ChainType(again)
  BY <1>3, EnsureType, FreeType
<1>6. IsFile(found) => found.entry.first \in {none} \cup Cluster /\ found.entry.size \in 0 .. MaxSize
  BY <1>2, Slotted DEF IsFile, FoundType
<1>7. IsFile(found) => ChainType(longer) /\ size \in Nat
  <2> SUFFICES ASSUME IsFile(found) PROVE ChainType(longer) /\ size \in Nat
    OBVIOUS
  <2>1. size \in Nat
    BY <1>6, <1>3
  <2> HIDE DEF size
  <2> QED BY <2>1, <1>6, <1>3, EnsureType
<1>8. append /\ IsFile(found) /\ parent.status = "ok" => size \in 0 .. MaxSize
  BY <1>6, <1>7, Bounds DEF SizeIn, IsFile
<1> HIDE DEF new, size, longer, again
<1>9. CASE parent.status # "ok"
  BY <1>9, <1>1, <1>3 DEF writeFile, Done, Result, WalkSet
<1>10. CASE parent.status = "ok" /\ found.status = "notFound"
  <2>1. Result(WriteNew(f, parent.cluster, Last(path.comps), n, new))
    BY <1>10, <1>3, <1>4, <1>5, WriteNewType
  <2> QED BY <2>1, <1>10 DEF writeFile, new
<1>11. CASE parent.status = "ok" /\ found.status # "notFound" /\ ~IsFile(found)
  <2>1. Result(Done(vol, "isDirectory")) /\ Result(Done(vol, found.status))
    BY <1>2, <1>3 DEF Done, Result, Status, FoundType
  <2>2. IsDir(found) \/ found.status # "ok"
    BY <1>11 DEF IsFile, IsDir
  <2> QED BY <2>1, <2>2, <1>11 DEF writeFile
<1>12. CASE parent.status = "ok" /\ IsFile(found)
  <2>0. found.entry.kind = "entry" /\ IsFile(found) /\ FoundType(found, vol)
    BY <1>12, <1>2 DEF IsFile
  <2>1. Result(WriteOld(f, found, 0, n, again))
    BY <2>0, <1>3, <1>5, WriteOldType
  <2>2. append => Result(WriteOld(f, found, found.entry.size, size, longer))
    BY <2>0, <1>12, <1>3, <1>7, <1>8, WriteOldType
  <2> QED BY <2>1, <2>2, <1>12 DEF writeFile, IsFile, IsDir, size, longer, again
<1> QED BY <1>9, <1>10, <1>11, <1>12 DEF IsFile

LEMMA TouchType ==
  ASSUME TypeInv, NEW f, NEW path \in Paths,
         NEW parent, parent = resolveParent(f, path), NEW found, found = LastIn(f, parent, path)
  PROVE  Result(touch(f, path, parent, found))
<1>1. parent \in WalkSet /\ FoundType(found, vol) /\ vol \in Volume
  BY ParentType, LastType DEF TypeInv
<1>2. parent.status = "ok" => parent.cluster \in Cluster /\ Last(path.comps) \in Names
  BY <1>1, ParentNamed DEF WalkSet
<1> DEFINE entry == Entry(Last(path.comps), FALSE, none, 0)
<1>3. parent.status = "ok" => Result(createEntry(vol, f, parent.cluster, entry))
  <2> SUFFICES ASSUME parent.status = "ok" PROVE Result(createEntry(vol, f, parent.cluster, entry))
    OBVIOUS
  <2>1. entry \in Stored
    BY <1>2, Bounds, EntryStored
  <2> HIDE DEF entry
  <2> QED BY <1>1, <1>2, <2>1, CreateEntryType
<1> HIDE DEF entry
<1> QED BY <1>1, <1>3 DEF touch, Done, Result, Status, WalkSet, FoundType, entry

LEMMA MakeDirectoryType ==
  ASSUME TypeInv, NEW f, NEW path \in Paths,
         NEW parent, parent = resolveParent(f, path), NEW found, found = LastIn(f, parent, path)
  PROVE  Result(makeDirectory(f, path, parent, found))
<1>1. parent \in WalkSet /\ FoundType(found, vol) /\ vol \in Volume
  BY ParentType, LastType DEF TypeInv
<1>2. parent.status = "ok" => parent.cluster \in Cluster /\ Last(path.comps) \in Names
  BY <1>1, ParentNamed DEF WalkSet
<1> DEFINE new == allocateCluster(vol, f)
           dots == initializeDirectory(new.v, f, new.cluster, parent.cluster)
           made == NameDirectory(f, parent, Last(path.comps), new.cluster, dots)
<1>3. NewType(new)
  BY <1>1, AllocateType
<1>4. parent.status = "ok" => Result(NewDirectory(f, parent, Last(path.comps), new))
  <2> SUFFICES ASSUME parent.status = "ok" PROVE Result(NewDirectory(f, parent, Last(path.comps), new))
    OBVIOUS
  <2>1. CASE new.status # "ok"
    BY <2>1, <1>3 DEF NewDirectory, Done, Result, NewType, Status
  <2>2. CASE new.status = "ok"
    <3>1. new.cluster \in Cluster /\ new.v \in Volume
      BY <2>2, <1>3 DEF NewType
    <3>2. Result(dots)
      BY <3>1, <1>2, InitializeType
    <3>3. Entry(Last(path.comps), TRUE, new.cluster, 0) \in Stored
      BY <3>1, <1>2, Bounds, EntryStored
    <3> HIDE DEF dots, new
    <3>4. Result(createEntry(dots.v, f, parent.cluster, Entry(Last(path.comps), TRUE, new.cluster, 0)))
      BY <3>2, <3>3, <1>2, CreateEntryType DEF Result
    <3>5. Result(made)
      BY <3>2, <3>4 DEF NameDirectory
    <3> HIDE DEF made
    <3>6. Result(UnlessMade(f, new.cluster, made))
      BY <3>5, FreeType DEF UnlessMade, Done, Result
    <3> QED BY <3>6, <2>2, Zenon DEF NewDirectory, made, dots
  <2> QED BY <2>1, <2>2
<1> HIDE DEF new, dots, made
<1> QED BY <1>1, <1>4 DEF makeDirectory, new, Done, Result, Status, WalkSet, FoundType

LEMMA RemoveType ==
  ASSUME TypeInv, NEW f, NEW path \in Paths,
         NEW parent, parent = ExistingParent(f, path), NEW found, found = LastIn(f, parent, path)
  PROVE  Result(remove(f, path, parent, found))
<1>1. parent \in WalkSet /\ FoundType(found, vol) /\ vol \in Volume
  BY ParentType, LastType DEF TypeInv
<1> DEFINE v == freeChain(vol, f, found.entry.first)
<1>2. found.status = "ok" => Result(writeEntry(v, f, found.pos, Deleted))
  <2> SUFFICES ASSUME found.status = "ok" PROVE Result(writeEntry(v, f, found.pos, Deleted))
    OBVIOUS
  <2>1. v \in Volume
    BY <1>1, FreeType
  <2> HIDE DEF v
  <2> QED BY <2>1, <1>1, Plain, WriteEntryType DEF FoundType
<1> HIDE DEF v
<1> QED BY <1>1, <1>2 DEF remove, v, Done, Result, Status, WalkSet, FoundType

LEMMA FinishType ==
  ASSUME TypeInv, NEW f, NEW r, Result(r), Finish(f, r)
  PROVE  TypeInv'
<1>1. vol' \in Volume /\ status' \in Status /\ cwd' = cwd /\ cwdPath' = cwdPath
  BY DEF Finish, Result
<1>2. harm' \in Harm
  BY DEF Finish, Struck, Harm, TypeInv
<1> QED BY <1>1, <1>2 DEF TypeInv

\* Init: a volume with an empty root.
LEMMA InitType == Init => TypeInv
<1> SUFFICES ASSUME Init PROVE TypeInv
  OBVIOUS
<1> DEFINE fat == [c \in Cluster |-> IF c = rootCluster THEN endOfChain ELSE Free]
           slots == [c \in Cluster |-> [i \in 1 .. Slots |-> End]]
<1>1. fat \in [Cluster -> FatValue] /\ slots \in [Cluster -> Row]
  BY Plain DEF FatValue, Row
<1>2. vol = [fat |-> fat, slots |-> slots] /\ cwd = rootCluster /\ cwdPath = <<>>
      /\ status = "ok" /\ harm = "none"
  BY DEF Init
<1> HIDE DEF fat, slots
<1>3. vol \in Volume
  BY <1>1, <1>2 DEF Volume
<1> QED BY <1>2, <1>3, Sizes DEF TypeInv, Status, Harm

LEMMA NextType == TypeInv /\ [Next]_vars => TypeInv'
<1> SUFFICES ASSUME TypeInv, [Next]_vars PROVE TypeInv'
  OBVIOUS
<1>1. CASE WriteFile
  <2>1. PICK f \in Fault, path \in Paths, n \in Lengths, append \in BOOLEAN :
          \E parent \in {resolveParent(f, path)} : \E found \in {LastIn(f, parent, path)} :
            /\ append => SizeIn(parent, found) + n <= MaxSize
            /\ \E r \in {writeFile(f, path, n, append, parent, found)} : Finish(f, r)
    BY <1>1 DEF WriteFile
  <2>2. PICK parent, found :
          /\ parent = resolveParent(f, path) /\ found = LastIn(f, parent, path)
          /\ append => SizeIn(parent, found) + n <= MaxSize
          /\ Finish(f, writeFile(f, path, n, append, parent, found))
    BY <2>1
  <2> QED BY <2>2, WriteFileType, FinishType
<1>2. CASE Touch
  <2>1. PICK f, path, parent, found :
          /\ f \in Fault /\ path \in Paths
          /\ parent = resolveParent(f, path) /\ found = LastIn(f, parent, path)
          /\ Finish(f, touch(f, path, parent, found))
    BY <1>2 DEF Touch
  <2> QED BY <2>1, TouchType, FinishType
<1>3. CASE MakeDirectory
  <2>1. PICK f, path, parent, found :
          /\ f \in Fault /\ path \in Paths
          /\ parent = resolveParent(f, path) /\ found = LastIn(f, parent, path)
          /\ Finish(f, makeDirectory(f, path, parent, found))
    BY <1>3 DEF MakeDirectory
  <2> QED BY <2>1, MakeDirectoryType, FinishType
<1>4. CASE RemovePath
  <2>1. PICK f, path, parent, found :
          /\ f \in Fault /\ path \in Paths
          /\ parent = ExistingParent(f, path) /\ found = LastIn(f, parent, path)
          /\ Finish(f, remove(f, path, parent, found))
    BY <1>4 DEF RemovePath
  <2> QED BY <2>1, RemoveType, FinishType
<1>5. CASE ChangeDirectory
  <2>1. PICK f, path, at :
          /\ f \in Fault /\ path \in Paths
          /\ at = PathWalk(f, path)
          /\ status' = at.walk.status
          /\ harm' = IF Sound THEN Struck(f) ELSE harm
          /\ cwd' = IF at.walk.status = "ok" THEN at.walk.cluster ELSE cwd
          /\ cwdPath' = IF at.walk.status = "ok" THEN at.text ELSE cwdPath
          /\ vol' = vol
    BY <1>5 DEF ChangeDirectory
  <2>2. at \in PathSet
    BY <2>1, PathUnfolds, PathTyped DEF TypeInv
  <2>3. at.walk \in WalkSet /\ at.text \in Seq(Names)
    BY <2>2 DEF PathSet
  <2>4. harm' \in Harm
    BY <2>1 DEF TypeInv, Harm, Struck
  <2> QED BY <2>1, <2>3, <2>4 DEF TypeInv, WalkSet
<1>6. CASE Remount
  BY <1>6, Sizes DEF Remount, TypeInv, Status
<1>7. CASE UNCHANGED vars
  BY <1>7 DEF vars, TypeInv
<1> QED BY <1>1, <1>2, <1>3, <1>4, <1>5, <1>6, <1>7 DEF Next

THEOREM TypesInvariant == Spec => []TypeInv
<1>1. Init => TypeInv
  BY InitType
<1>2. TypeInv /\ [Next]_vars => TypeInv'
  BY NextType
<1> QED BY <1>1, <1>2, PTL DEF Spec

LEMMA TypeInvImplies == TypeInv => TypeOK
<1>1. Volume \subseteq [fat   : [Cluster -> {Free, endOfChain} \cup Cluster],
                        slots : [Cluster -> [1 .. Slots -> Slot]]]
  <2>1. Row \subseteq [1 .. Slots -> Slot]
    BY DEF Row, Stored
  <2> QED BY <2>1 DEF Volume, FatValue
<1> QED BY <1>1 DEF TypeInv, TypeOK

\* The volume, the current directory and the status keep their types, whatever
\* the device fails to deliver.
THEOREM TypeCorrect == Spec => []TypeOK
  BY TypesInvariant, TypeInvImplies, PTL

--------------------------------------------------------------------------------
(* A sound volume *)

\* Every used cluster is in one chain: own is the first cluster of that chain,
\* rank its place there.  The table links the clusters of a chain in the order
\* of their ranks.
Tiled(v, own, rank) ==
  /\ own \in [Cluster -> {none} \cup Cluster] /\ rank \in [Cluster -> Nat]
  /\ \A c \in Cluster : own[c] = none <=> v.fat[c] = Free
  /\ \A c \in Cluster : own[c] # none =>
       own[own[c]] = own[c] /\ rank[c] >= 1 /\ (rank[c] = 1 <=> own[c] = c)
  /\ \A c \in Cluster : v.fat[c] \in Cluster =>
       own[v.fat[c]] = own[c] /\ rank[v.fat[c]] = rank[c] + 1
  /\ \A c \in Cluster : own[c] # none /\ rank[c] >= 2 => \E b \in Cluster : v.fat[b] = c
  /\ \A b, c \in Cluster : own[b] # none /\ own[b] = own[c] /\ rank[b] = rank[c] => b = c

\* The slots of directories: no text, and nothing behind the first never-used
\* slot.
Scanned(v, own, D) ==
  /\ \A c \in Cluster, i \in 1 .. Slots : own[c] \in D => v.slots[c][i].kind # "text"
  /\ \A c \in Cluster, i, j \in 1 .. Slots :
       own[c] \in D /\ i < j /\ v.slots[c][i].kind = "end" => v.slots[c][j].kind = "end"
  /\ \A c \in Cluster : own[c] \in D /\ v.fat[c] \in Cluster /\ v.slots[c][Slots].kind = "end" =>
       v.slots[v.fat[c]][1].kind = "end"

\* The directory entry of a file or a directory, in a directory.
IsChild(s) == s.kind = "entry" /\ s.name \notin {".", ".."}
Lists(v, own, D, c, i) ==
  c \in Cluster /\ i \in 1 .. Slots /\ own[c] \in D /\ IsChild(v.slots[c][i])

\* An entry that counts: not the one a command is about to rewrite.
Counts(v, own, D, sc, si, c, i) == Lists(v, own, D, c, i) /\ ~(c = sc /\ i = si)

\* An entry leads to the head of a chain, to that of a directory if it says so,
\* and no other entry leads there.
Named(v, own, D, sc, si) ==
  /\ \A c \in Cluster, i \in 1 .. Slots :
       Counts(v, own, D, sc, si, c, i) /\ v.slots[c][i].first # none =>
         LET first == v.slots[c][i].first
         IN  own[first] = first /\ first # rootCluster /\ (first \in D <=> v.slots[c][i].dir)
  /\ \A b, c \in Cluster, i, j \in 1 .. Slots :
       /\ Counts(v, own, D, sc, si, b, i) /\ Counts(v, own, D, sc, si, c, j)
       /\ v.slots[b][i].first = v.slots[c][j].first /\ v.slots[b][i].first # none
       => b = c /\ i = j

\* A name is in a directory once.
Unique(v, own, D) ==
  \A b, c \in Cluster, i, j \in 1 .. Slots :
    /\ own[b] \in D /\ own[c] = own[b]
    /\ v.slots[b][i].kind = "entry" /\ v.slots[c][j].kind = "entry"
    /\ v.slots[b][i].name = v.slots[c][j].name
    => b = c /\ i = j

IsDot(s, name) == s.kind = "entry" /\ s.name = name /\ s.dir

\* A directory but the root has its dot entries, and its parent lists it.
Dotted(v, own, D, sc, si) ==
  /\ rootCluster \in D /\ D \subseteq Cluster
  /\ \A d \in D : own[d] = d
  /\ \A c \in Cluster, i \in 1 .. Slots :
       own[c] = rootCluster /\ v.slots[c][i].kind = "entry" => v.slots[c][i].name \notin {".", ".."}
  /\ \A d \in D : d # rootCluster =>
       /\ IsDot(v.slots[d][1], ".") /\ v.slots[d][1].first = d
       /\ IsDot(v.slots[d][2], "..") /\ v.slots[d][2].first \in D
       /\ \E c \in Cluster, i \in 1 .. Slots :
            /\ Counts(v, own, D, sc, si, c, i) /\ own[c] = v.slots[d][2].first
            /\ v.slots[c][i].dir /\ v.slots[c][i].first = d

Whole(v, own, rank, D, sc, si) ==
  /\ v \in Volume
  /\ Tiled(v, own, rank)
  /\ Scanned(v, own, D)
  /\ Named(v, own, D, sc, si)
  /\ Unique(v, own, D)
  /\ Dotted(v, own, D, sc, si)

--------------------------------------------------------------------------------
(* The chains of a sound volume *)

Working(f) == f.read = none /\ f.data = none

LEMMA TileFacts ==
  ASSUME NEW v \in Volume, NEW own, NEW rank, Tiled(v, own, rank), NEW c \in Cluster
  PROVE  /\ own[c] \in {none} \cup Cluster /\ rank[c] \in Nat /\ v.fat[c] \in FatValue
         /\ own[c] = none <=> v.fat[c] = Free
         /\ own[c] # none => /\ own[own[c]] = own[c] /\ rank[c] >= 1 /\ own[c] \in Cluster
                             /\ (rank[c] = 1 <=> own[c] = c)
         /\ v.fat[c] \in Cluster => own[v.fat[c]] = own[c] /\ rank[v.fat[c]] = rank[c] + 1
         /\ own[c] # none /\ rank[c] >= 2 => \E b \in Cluster : v.fat[b] = c
  BY DEF Tiled, Volume

LEMMA NextHealthy ==
  ASSUME NEW v \in Volume, NEW own, NEW rank, Tiled(v, own, rank), NEW f, Working(f),
         NEW c \in Cluster, own[c] # none
  PROVE  /\ nextCluster(v, f, c) \in Cluster <=> v.fat[c] \in Cluster
         /\ v.fat[c] \in Cluster => nextCluster(v, f, c) = v.fat[c]
         /\ v.fat[c] \in Cluster \/ v.fat[c] = endOfChain
         /\ nextCluster(v, f, c) = none <=> v.fat[c] = endOfChain
<1>1. v.fat[c] \in FatValue /\ v.fat[c] # Free
  BY TileFacts
<1>2. readFat(v, f, c) = v.fat[c]
  BY Sizes DEF readFat, Working
<1> QED BY <1>1, <1>2, Sizes DEF nextCluster, FatValue

\* The walk from the head of a chain: each of its clusters at its rank.
Traces(v, own, rank, h, s) ==
  /\ s \in Seq(Cluster) /\ Len(s) \in Nat /\ 1 <= Len(s)
  /\ \A k \in Nat : 1 <= k /\ k <= Len(s) => s[k] \in Cluster /\ own[s[k]] = h /\ rank[s[k]] = k
  /\ \A c \in Cluster : own[c] = h => 1 <= rank[c] /\ rank[c] <= Len(s) /\ s[rank[c]] = c
  /\ v.fat[s[Len(s)]] = endOfChain

LEMMA ChainTraces ==
  ASSUME NEW v \in Volume, NEW own, NEW rank, Tiled(v, own, rank), NEW f, Working(f),
         NEW h \in Cluster, own[h] = h
  PROVE  Traces(v, own, rank, h, Chain(v, f, h))
<1> DEFINE s == Chain(v, f, h)
<1>1. IsWalk(v, f, h, s)
  BY ChainWalks
<1> HIDE DEF s
<1>2. /\ s \in Seq(Cluster) /\ Len(s) \in Nat /\ 1 <= Len(s) /\ Len(s) <= Clusters /\ s[1] = h
      /\ \A k \in Nat : 1 <= k /\ k + 1 <= Len(s) => s[k + 1] = nextCluster(v, f, s[k])
      /\ Len(s) < Clusters => nextCluster(v, f, s[Len(s)]) \notin Cluster
  BY <1>1 DEF IsWalk
<1>3. \A k \in Nat : 1 <= k /\ k <= Len(s) => s[k] \in Cluster
  <2>1. \A k \in Nat : 1 <= k /\ k <= Len(s) => k \in 1 .. Len(s)
    BY <1>2
  <2>2. \A k \in 1 .. Len(s) : s[k] \in Cluster
    BY <1>2
  <2> QED BY <2>1, <2>2
<1>4. h # none
  BY Sizes
<1>5. ASSUME NEW k \in Nat, 1 <= k, k + 1 <= Len(s), own[s[k]] = h, rank[s[k]] = k
      PROVE  v.fat[s[k]] = s[k + 1] /\ own[s[k + 1]] = h /\ rank[s[k + 1]] = k + 1
  <2>1. s[k] \in Cluster /\ s[k + 1] \in Cluster /\ s[k + 1] = nextCluster(v, f, s[k])
    BY <1>2, <1>3, <1>5
  <2>2. v.fat[s[k]] \in Cluster /\ s[k + 1] = v.fat[s[k]]
    BY <2>1, <1>4, <1>5, NextHealthy
  <2> QED BY <2>1, <2>2, <1>5, TileFacts
<1>6. \A k \in Nat : 1 <= k /\ k <= Len(s) => own[s[k]] = h /\ rank[s[k]] = k
  <2> DEFINE T == {k \in Nat : k + 1 <= Len(s) => own[s[k + 1]] = h /\ rank[s[k + 1]] = k + 1}
  <2>1. 0 \in T
    <3>1. own[s[1]] = h /\ rank[s[1]] = 1
      BY <1>2, <1>4, TileFacts
    <3>2. 0 + 1 = 1
      OBVIOUS
    <3> QED BY <3>1, <3>2
  <2>2. ASSUME NEW k \in T PROVE k + 1 \in T
    <3>1. k \in Nat /\ k + 1 \in Nat /\ 1 <= k + 1
      OBVIOUS
    <3>2. CASE (k + 1) + 1 <= Len(s)
      <4>1. k + 1 <= Len(s)
        BY <3>1, <3>2, <1>2
      <4>2. own[s[k + 1]] = h /\ rank[s[k + 1]] = k + 1
        BY <4>1
      <4>3. own[s[(k + 1) + 1]] = h /\ rank[s[(k + 1) + 1]] = (k + 1) + 1
        BY <4>2, <3>1, <3>2, <1>5
      <4> QED BY <4>3, <3>1
    <3>3. CASE ~((k + 1) + 1 <= Len(s))
      BY <3>1, <3>3
    <3> QED BY <3>2, <3>3
  <2>3. T \in SUBSET Nat
    OBVIOUS
  <2>4. T = Nat
    <3> HIDE DEF T
    <3> QED BY <2>1, <2>2, <2>3, HandedOn
  <2>5. ASSUME NEW k \in Nat, 1 <= k, k <= Len(s) PROVE own[s[k]] = h /\ rank[s[k]] = k
    <3>1. k - 1 \in Nat /\ (k - 1) + 1 = k
      BY <2>5
    <3>2. k - 1 \in T
      <4> HIDE DEF T
      <4> QED BY <3>1, <2>4
    <3>3. (k - 1) + 1 <= Len(s) => own[s[(k - 1) + 1]] = h /\ rank[s[(k - 1) + 1]] = (k - 1) + 1
      BY <3>2
    <3> HIDE DEF T
    <3> QED BY <3>1, <3>3, <2>5
  <2> QED BY <2>5
<1>7. v.fat[s[Len(s)]] = endOfChain
  <2> DEFINE last == s[Len(s)]
             x == v.fat[last]
  <2>1. last \in Cluster /\ own[last] = h /\ rank[last] = Len(s)
    BY <1>2, <1>3, <1>6
  <2>2. x \in Cluster \/ x = endOfChain
    BY <2>1, <1>4, NextHealthy
  <2>3. CASE x \in Cluster
    <3>1. own[x] = h /\ rank[x] = Len(s) + 1
      BY <2>1, <2>3, TileFacts
    <3>2. Len(s) = Clusters
      <4>1. nextCluster(v, f, last) \in Cluster
        BY <2>1, <2>3, <1>4, NextHealthy
      <4> QED BY <4>1, <1>2, Sizes
    <3> DEFINE g == [k \in 1 .. Clusters + 1 |-> IF k <= Clusters THEN s[k] ELSE x]
    <3>3. g \in [1 .. Clusters + 1 -> Cluster]
      <4> HIDE DEF x
      <4> QED BY <1>3, <2>3, <3>2, Sizes
    <3>4. \A k \in 1 .. Clusters + 1 : rank[g[k]] = k
      <4> HIDE DEF x
      <4> QED BY <1>6, <3>1, <3>2, Sizes
    <3> HIDE DEF g
    <3>5. IsFiniteSet(1 .. Clusters + 1) /\ Cardinality(1 .. Clusters + 1) = Clusters + 1
      <4>1. 1 \in Int /\ Clusters + 1 \in Int /\ ~(1 > Clusters + 1) /\ (Clusters + 1) - 1 + 1 = Clusters + 1
        BY Sizes
      <4>2. /\ IsFiniteSet(1 .. Clusters + 1)
            /\ Cardinality(1 .. Clusters + 1) = IF 1 > Clusters + 1 THEN 0 ELSE (Clusters + 1) - 1 + 1
        BY <4>1, FS_Interval
      <4> QED BY <4>1, <4>2, Zenon
    <3>6. \E k, l \in 1 .. Clusters + 1 : k # l /\ g[k] = g[l]
      <4>1. Cardinality(Cluster) < Cardinality(1 .. Clusters + 1)
        BY <3>5, Sizes
      <4> QED BY <3>3, <3>5, <4>1, Sizes, FS_PigeonHole
    <3> QED BY <3>4, <3>6
  <2> QED BY <2>2, <2>3
<1>8. ASSUME NEW c \in Cluster, own[c] = h PROVE 1 <= rank[c] /\ rank[c] <= Len(s) /\ s[rank[c]] = c
  <2> DEFINE T == {n \in Nat : \A b \in Cluster : own[b] = h /\ rank[b] = n + 1 => n + 1 <= Len(s) /\ s[n + 1] = b}
  <2>1. 0 \in T
    <3>1. ASSUME NEW b \in Cluster, own[b] = h, rank[b] = 0 + 1 PROVE 0 + 1 <= Len(s) /\ s[0 + 1] = b
      <4>1. own[b] = b
        BY <3>1, <1>4, TileFacts
      <4> QED BY <4>1, <3>1, <1>2
    <3> QED BY <3>1
  <2>2. ASSUME NEW n \in T PROVE n + 1 \in T
    <3>1. n \in Nat /\ n + 1 \in Nat
      OBVIOUS
    <3>2. ASSUME NEW b \in Cluster, own[b] = h, rank[b] = (n + 1) + 1
          PROVE  (n + 1) + 1 <= Len(s) /\ s[(n + 1) + 1] = b
      <4>0. own[b] # none /\ rank[b] >= 2
        BY <3>1, <3>2, <1>4
      <4>1. PICK a \in Cluster : v.fat[a] = b
        BY <4>0, TileFacts
      <4>2. own[a] = h /\ rank[a] = n + 1
        <5>1. own[b] = own[a] /\ rank[b] = rank[a] + 1 /\ rank[a] \in Nat
          BY <4>1, TileFacts
        <5> QED BY <5>1, <3>1, <3>2
      <4>3. n + 1 <= Len(s) /\ s[n + 1] = a
        BY <4>2
      <4>4. n + 1 # Len(s)
        BY <4>1, <4>3, <1>7, Sizes
      <4>5. (n + 1) + 1 <= Len(s)
        BY <4>3, <4>4, <3>1, <1>2
      <4>6. v.fat[s[n + 1]] = s[(n + 1) + 1]
        BY <4>2, <4>3, <4>5, <3>1, <1>5
      <4> QED BY <4>1, <4>3, <4>5, <4>6
    <3> QED BY <3>1, <3>2
  <2>3. T \in SUBSET Nat
    OBVIOUS
  <2>4. T = Nat
    <3> HIDE DEF T
    <3> QED BY <2>1, <2>2, <2>3, HandedOn
  <2>5. rank[c] \in Nat /\ rank[c] >= 1
    BY <1>4, <1>8, TileFacts
  <2>6. rank[c] - 1 \in T /\ (rank[c] - 1) + 1 = rank[c]
    BY <2>4, <2>5
  <2> QED BY <2>5, <2>6, <1>8
<1>9. Traces(v, own, rank, h, s)
  BY <1>2, <1>3, <1>6, <1>7, <1>8 DEF Traces
<1> QED BY <1>9 DEF s

\* A scan of a chain: what comes before the slot it stops at is not wanted.
Scans(own, rank, d, wanted, r) ==
  \/ /\ r = Nowhere
     /\ \A c \in Cluster, i \in Nat : own[c] = d /\ 1 <= i /\ i <= Slots => Pos(c, i) \notin wanted
  \/ /\ r # Nowhere
     /\ r.cluster \in Cluster /\ own[r.cluster] = d /\ r.index \in 1 .. Slots
     /\ r = Pos(r.cluster, r.index) /\ r \in wanted
     /\ \A c \in Cluster, i \in Nat :
          own[c] = d /\ 1 <= i /\ i <= Slots /\ (rank[c] < rank[r.cluster] \/ (c = r.cluster /\ i < r.index))
          => Pos(c, i) \notin wanted

LEMMA ScanSpec ==
  ASSUME NEW v \in Volume, NEW own, NEW rank, Tiled(v, own, rank), NEW f, Working(f),
         NEW d \in Cluster, own[d] = d, NEW wanted
  PROVE  Scans(own, rank, d, wanted, FirstIn(Chain(v, f, d), wanted))
<1> DEFINE s == Chain(v, f, d)
           r == FirstIn(s, wanted)
<1>1. Traces(v, own, rank, d, s)
  BY ChainTraces
<1> HIDE DEF s
<1>2. /\ s \in Seq(Cluster) /\ Len(s) \in Nat
      /\ \A k \in Nat : 1 <= k /\ k <= Len(s) => s[k] \in Cluster /\ own[s[k]] = d /\ rank[s[k]] = k
      /\ \A c \in Cluster : own[c] = d => 1 <= rank[c] /\ rank[c] <= Len(s) /\ s[rank[c]] = c
  BY <1>1 DEF Traces
<1>3. IsFirst(s, wanted, r)
  BY <1>2, FirstFound
<1> HIDE DEF r
<1>4. \A c \in Cluster : rank[c] \in Nat
  BY TileFacts
<1>5. CASE r = Nowhere
  <2>1. \A l, j \in Nat : 1 <= l /\ l <= Len(s) /\ 1 <= j /\ j <= Slots => Pos(s[l], j) \notin wanted
    BY <1>3, <1>5 DEF IsFirst
  <2>2. ASSUME NEW c \in Cluster, NEW i \in Nat, own[c] = d, 1 <= i, i <= Slots
        PROVE  Pos(c, i) \notin wanted
    <3>1. rank[c] \in Nat /\ 1 <= rank[c] /\ rank[c] <= Len(s) /\ s[rank[c]] = c
      BY <1>2, <1>4, <2>2
    <3>2. Pos(s[rank[c]], i) \notin wanted
      BY <3>1, <2>1, <2>2
    <3> QED BY <3>1, <3>2
  <2> QED BY <2>2, <1>5 DEF Scans, r, s
<1>6. CASE r # Nowhere
  <2>1. PICK k, i \in Nat : FoundAt(s, wanted, r, k, i)
    BY <1>3, <1>6 DEF IsFirst
  <2>2. /\ 1 <= k /\ k <= Len(s) /\ 1 <= i /\ i <= Slots
        /\ r = Pos(s[k], i) /\ r.cluster = s[k] /\ r.index = i /\ r \in wanted
        /\ \A l, j \in Nat : 1 <= l /\ l < k /\ 1 <= j /\ j <= Slots => Pos(s[l], j) \notin wanted
        /\ \A j \in Nat : 1 <= j /\ j < i => Pos(s[k], j) \notin wanted
    BY <2>1 DEF FoundAt
  <2>3. r.cluster \in Cluster /\ own[r.cluster] = d /\ rank[r.cluster] = k /\ r.index \in 1 .. Slots
    BY <2>2, <1>2, Sizes
  <2>4. ASSUME NEW c \in Cluster, NEW j \in Nat, own[c] = d, 1 <= j, j <= Slots,
               rank[c] < rank[r.cluster] \/ (c = r.cluster /\ j < r.index)
        PROVE  Pos(c, j) \notin wanted
    <3>1. CASE rank[c] < k
      <4>1. rank[c] \in Nat /\ 1 <= rank[c] /\ s[rank[c]] = c
        BY <1>2, <1>4, <2>4
      <4>2. Pos(s[rank[c]], j) \notin wanted
        BY <4>1, <3>1, <2>2, <2>4
      <4> QED BY <4>1, <4>2
    <3>2. CASE c = r.cluster /\ j < r.index
      BY <3>2, <2>2, <2>4
    <3> QED BY <3>1, <3>2, <2>3, <2>4
  <2>5. r = Pos(r.cluster, r.index)
    BY <2>2
  <2> QED BY <2>2, <2>3, <2>4, <2>5, <1>6 DEF Scans, r, s
<1> QED BY <1>5, <1>6

\* Behind the first never-used slot of a directory there are only such slots.
LEMMA EndsBehind ==
  ASSUME NEW v \in Volume, NEW own, NEW rank, Tiled(v, own, rank), NEW D, Scanned(v, own, D),
         NEW c \in Cluster, NEW i \in 1 .. Slots, own[c] \in D, own[c] # none, v.slots[c][i].kind = "end",
         NEW b \in Cluster, NEW j \in 1 .. Slots, own[b] = own[c],
         rank[c] < rank[b] \/ (b = c /\ i <= j)
  PROVE  v.slots[b][j].kind = "end"
<1>0. Slots \in Nat /\ Slots >= 2 /\ 1 \in 1 .. Slots /\ Slots \in 1 .. Slots
  BY Sizes
<1>1. \A a \in Cluster, k, l \in 1 .. Slots :
        own[a] = own[c] /\ k <= l /\ v.slots[a][k].kind = "end" => v.slots[a][l].kind = "end"
  <2> SUFFICES ASSUME NEW a \in Cluster, NEW k \in 1 .. Slots, NEW l \in 1 .. Slots,
                      own[a] = own[c], k <= l, v.slots[a][k].kind = "end"
               PROVE  v.slots[a][l].kind = "end"
    OBVIOUS
  <2>1. k = l \/ k < l
    BY <1>0
  <2> QED BY <2>1 DEF Scanned
<1>2. \A a \in Cluster : rank[a] \in Nat
  BY TileFacts
<1> DEFINE T == {n \in Nat : \A a \in Cluster : own[a] = own[c] /\ rank[a] = rank[c] + n
                                             => v.slots[a][Slots].kind = "end"}
<1>3. 0 \in T
  <2>1. ASSUME NEW a \in Cluster, own[a] = own[c], rank[a] = rank[c] + 0
        PROVE  v.slots[a][Slots].kind = "end"
    <3>1. rank[a] = rank[c]
      BY <2>1, <1>2
    <3>2. a = c
      BY <3>1, <2>1 DEF Tiled
    <3> QED BY <3>2, <1>0, <1>1
  <2> QED BY <2>1
<1>4. ASSUME NEW n \in T, NEW a \in Cluster, own[a] = own[c], rank[a] = rank[c] + (n + 1)
      PROVE  v.slots[a][1].kind = "end" /\ v.slots[a][Slots].kind = "end"
  <2>1. rank[a] >= 2 /\ own[a] # none
    <3>1. rank[c] >= 1 /\ rank[c] \in Nat /\ n \in Nat
      BY TileFacts
    <3> QED BY <3>1, <1>4
  <2>2. PICK e \in Cluster : v.fat[e] = a
    BY <2>1, TileFacts
  <2>3. own[e] = own[c] /\ rank[e] = rank[c] + n
    <3>1. own[a] = own[e] /\ rank[a] = rank[e] + 1 /\ rank[e] \in Nat /\ rank[c] \in Nat
      BY <2>2, TileFacts
    <3> QED BY <3>1, <1>4
  <2>4. v.slots[e][Slots].kind = "end"
    BY <2>3
  <2>5. v.slots[a][1].kind = "end"
    BY <2>2, <2>3, <2>4 DEF Scanned
  <2> QED BY <2>5, <1>0, <1>1, <1>4
<1>5. T = Nat
  <2>1. ASSUME NEW n \in T PROVE n + 1 \in T
    <3>1. \A a \in Cluster : own[a] = own[c] /\ rank[a] = rank[c] + (n + 1) => v.slots[a][Slots].kind = "end"
      <4> HIDE DEF T
      <4> QED BY <1>4
    <3> QED BY <3>1
  <2>2. T \in SUBSET Nat
    OBVIOUS
  <2> HIDE DEF T
  <2> QED BY <1>3, <2>1, <2>2, HandedOn
<1>6. CASE rank[c] < rank[b]
  <2>1. rank[b] - rank[c] - 1 \in Nat /\ rank[b] = rank[c] + ((rank[b] - rank[c] - 1) + 1)
    BY <1>6, <1>2
  <2>2. rank[b] - rank[c] - 1 \in T
    <3> HIDE DEF T
    <3> QED BY <2>1, <1>5
  <2>3. v.slots[b][1].kind = "end"
    <3> HIDE DEF T
    <3> QED BY <2>1, <2>2, <1>4
  <2>4. 1 <= j
    BY <1>0
  <2> QED BY <2>3, <2>4, <1>0, <1>1
<1>7. CASE b = c /\ i <= j
  BY <1>7, <1>1
<1> QED BY <1>6, <1>7

\* findEntry finds the entry of a name, or there is none.
Finds(v, own, d, name, found) ==
  /\ found.status \in {"ok", "notFound"}
  /\ found.status = "ok" =>
       /\ found.pos.cluster \in Cluster /\ found.pos.index \in 1 .. Slots
       /\ own[found.pos.cluster] = d
       /\ found.entry = v.slots[found.pos.cluster][found.pos.index] /\ found.entry \in Stored
       /\ found.entry.kind = "entry" /\ found.entry.name = name
  /\ found.status = "notFound" =>
       \A c \in Cluster, i \in 1 .. Slots :
         own[c] = d /\ v.slots[c][i].kind = "entry" => v.slots[c][i].name # name

LEMMA FindSpec ==
  ASSUME NEW v \in Volume, NEW own, NEW rank, Tiled(v, own, rank), NEW D, Scanned(v, own, D),
         NEW f, Working(f), NEW d \in Cluster, own[d] = d, d \in D, NEW name
  PROVE  Finds(v, own, d, name, findEntry(v, f, d, name))
<1> DEFINE wanted == {p \in Position : \/ p.cluster = Unreadable(f)
                                       \/ SlotAt(v, p) = End
                                       \/ SlotAt(v, p).kind = "entry" /\ SlotAt(v, p).name = name}
           r == FirstIn(Chain(v, f, d), wanted)
<1>1. findEntry(v, f, d, name) = EntryAt(v, f, r)
  BY Zenon DEF findEntry
<1>2. Scans(own, rank, d, wanted, r)
  <2> HIDE DEF wanted
  <2> QED BY ScanSpec
<1>3. Unreadable(f) = none
  BY DEF Unreadable, Working
<1>4. \A c \in Cluster, i \in 1 .. Slots :
        Pos(c, i) \in wanted <=> \/ v.slots[c][i] = End
                                 \/ v.slots[c][i].kind = "entry" /\ v.slots[c][i].name = name
  <2> SUFFICES ASSUME NEW c \in Cluster, NEW i \in 1 .. Slots
               PROVE  Pos(c, i) \in wanted <=> \/ v.slots[c][i] = End
                                               \/ v.slots[c][i].kind = "entry" /\ v.slots[c][i].name = name
    OBVIOUS
  <2>1. Pos(c, i) \in Position /\ Pos(c, i).cluster = c /\ Pos(c, i).index = i
    BY DEF Pos, Position
  <2>2. c # Unreadable(f)
    BY <1>3, Sizes
  <2> QED BY <2>1, <2>2 DEF SlotAt
<1> HIDE DEF r, wanted
<1>5. CASE r = Nowhere
  <2>1. EntryAt(v, f, r).status = "notFound"
    BY <1>5 DEF EntryAt
  <2>2. ASSUME NEW c \in Cluster, NEW i \in 1 .. Slots, own[c] = d, v.slots[c][i].kind = "entry"
        PROVE  v.slots[c][i].name # name
    <3>1. i \in Nat /\ 1 <= i /\ i <= Slots
      BY Sizes
    <3>2. Pos(c, i) \notin wanted
      BY <3>1, <2>2, <1>2, <1>5 DEF Scans
    <3> QED BY <3>2, <2>2, <1>4
  <2>3. Finds(v, own, d, name, EntryAt(v, f, r))
    BY <2>1, <2>2 DEF Finds
  <2> QED BY <2>3, <1>1
<1>6. CASE r # Nowhere
  <2>1. /\ r.cluster \in Cluster /\ own[r.cluster] = d /\ r.index \in 1 .. Slots
        /\ r = Pos(r.cluster, r.index) /\ r \in wanted
        /\ \A c \in Cluster, i \in Nat :
             own[c] = d /\ 1 <= i /\ i <= Slots /\ (rank[c] < rank[r.cluster] \/ (c = r.cluster /\ i < r.index))
             => Pos(c, i) \notin wanted
    BY <1>2, <1>6 DEF Scans
  <2> DEFINE slot == v.slots[r.cluster][r.index]
  <2>2. slot \in Stored
    BY <2>1, SlotIn
  <2>3. EntryAt(v, f, r) = IF slot = End THEN [status |-> "notFound"]
                           ELSE [status |-> "ok", pos |-> r, entry |-> slot]
    <3>1. r.cluster # Unreadable(f)
      BY <2>1, <1>3, Sizes
    <3> QED BY <3>1, <1>6, Zenon DEF EntryAt, SlotAt
  <2>4. slot = End \/ (slot.kind = "entry" /\ slot.name = name)
    <3>1. Pos(r.cluster, r.index) \in wanted
      BY <2>1
    <3> QED BY <3>1, <2>1, <1>4
  <2>5. CASE slot = End
    <3>1. slot.kind = "end"
      BY <2>5, Plain
    <3> HIDE DEF slot
    <3>2. EntryAt(v, f, r).status = "notFound"
      BY <2>3, <2>5
    <3>3. ASSUME NEW c \in Cluster, NEW i \in 1 .. Slots, own[c] = d, v.slots[c][i].kind = "entry"
          PROVE  v.slots[c][i].name # name
      <4>1. i \in Nat /\ 1 <= i /\ i <= Slots /\ r.index \in Nat
        BY <2>1, Sizes
      <4>2. CASE rank[c] < rank[r.cluster] \/ (c = r.cluster /\ i < r.index)
        <5>1. Pos(c, i) \notin wanted
          BY <4>1, <4>2, <2>1, <3>3
        <5> QED BY <5>1, <3>3, <1>4
      <4>3. CASE rank[r.cluster] < rank[c] \/ (c = r.cluster /\ r.index <= i)
        <5>1. v.slots[c][i].kind = "end"
          <6>1. own[r.cluster] \in D /\ own[r.cluster] # none /\ own[c] = own[r.cluster]
            BY <2>1, <3>3, Sizes
          <6>2. v.slots[r.cluster][r.index].kind = "end"
            BY <3>1 DEF slot
          <6> QED BY <6>1, <6>2, <4>3, <2>1, EndsBehind
        <5> QED BY <5>1, <3>3
      <4>4. CASE rank[c] = rank[r.cluster] /\ c # r.cluster
        <5>1. own[c] # none /\ own[c] = own[r.cluster]
          BY <2>1, <3>3, Sizes
        <5> QED BY <5>1, <4>4, <2>1 DEF Tiled
      <4>5. rank[c] \in Nat /\ rank[r.cluster] \in Nat
        BY <2>1, TileFacts
      <4> QED BY <4>1, <4>2, <4>3, <4>4, <4>5
    <3>4. Finds(v, own, d, name, EntryAt(v, f, r))
      BY <3>2, <3>3 DEF Finds
    <3> QED BY <3>4, <1>1
  <2>6. CASE slot # End
    <3> HIDE DEF slot
    <3>1. EntryAt(v, f, r) = [status |-> "ok", pos |-> r, entry |-> slot]
      BY <2>3, <2>6
    <3>2. Finds(v, own, d, name, EntryAt(v, f, r))
      BY <3>1, <2>1, <2>2, <2>4, <2>6 DEF Finds, slot
    <3> QED BY <3>2, <1>1
  <2> QED BY <2>5, <2>6
<1> QED BY <1>5, <1>6

--------------------------------------------------------------------------------
(* A cluster more *)

\* allocateCluster hands out a free cluster, cleared, if there is one.
Grants(v, new) ==
  \/ new.status = "noSpace" /\ new.v = v /\ \A b \in Cluster : v.fat[b] # Free
  \/ /\ new.status = "ok" /\ new.cluster \in Cluster /\ v.fat[new.cluster] = Free
     /\ new.v \in Volume
     /\ \A b \in Cluster : new.v.fat[b] = IF b = new.cluster THEN endOfChain ELSE v.fat[b]
     /\ \A b \in Cluster : b # new.cluster => new.v.slots[b] = v.slots[b]
     /\ \A i \in 1 .. Slots : new.v.slots[new.cluster][i] = End

LEMMA AllocateSpec ==
  ASSUME NEW v \in Volume, NEW f, Working(f)
  PROVE  Grants(v, allocateCluster(v, f))
<1> DEFINE free == {c \in Cluster : readFat(v, f, c) = Free}
           c == Min(free)
           row == [i \in 1 .. Slots |-> End]
           v1 == [v EXCEPT !.fat[c] = endOfChain]
           w == [v1 EXCEPT !.slots[c] = row]
           new == allocateCluster(v, f)
<1>1. CASE free = {}
  <2>1. \A b \in Cluster : v.fat[b] # Free
    BY <1>1, Sizes DEF readFat, Working
  <2> QED BY <1>1, <2>1 DEF allocateCluster, Grants
<1>2. CASE free # {}
  <2>1. free \in SUBSET Nat /\ free \subseteq Cluster
    BY Sizes
  <2>2. c \in free
    <3> HIDE DEF free
    <3> QED BY <2>1, <1>2, MinIsLeast
  <2> HIDE DEF c
  <2>3. c \in Cluster /\ v.fat[c] = Free /\ c # none
    BY <2>2, Sizes DEF readFat, Working
  <2>4. writeFat(v, f, c, endOfChain) = v1
    BY <2>3 DEF writeFat, Working
  <2>5. new = [v |-> w, status |-> "ok", cluster |-> c]
    <3>1. c # f.data
      BY <2>3 DEF Working
    <3> HIDE DEF row
    <3> QED BY <1>2, <2>4, <3>1, Zenon DEF allocateCluster, c, v1, row, w
  <2>6. /\ \A b \in Cluster : v1.fat[b] = IF b = c THEN endOfChain ELSE v.fat[b]
        /\ v1.slots = v.slots /\ v1 \in Volume
    BY <2>3, Sizes DEF Volume, FatValue
  <2> HIDE DEF v1
  <2>7. row \in Row
    BY Plain DEF Row
  <2>8. /\ w.fat = v1.fat /\ w \in Volume
        /\ \A b \in Cluster : w.slots[b] = IF b = c THEN row ELSE v1.slots[b]
    <3> HIDE DEF row
    <3> QED BY <2>3, <2>6, <2>7 DEF Volume
  <2> HIDE DEF w
  <2>9. \A i \in 1 .. Slots : w.slots[c][i] = End
    BY <2>8, <2>3
  <2> HIDE DEF row, new
  <2>10. new.status = "ok" /\ new.cluster = c /\ new.v = w
    BY <2>5
  <2>11. Grants(v, new)
    BY <2>10, <2>3, <2>6, <2>8, <2>9 DEF Grants
  <2> QED BY <2>11 DEF new
<1> QED BY <1>1, <1>2

\* A volume with a cluster more: c was free and is clear, and what else has
\* changed is the end of the chain it was put behind.
Adds(v, own, w, own2, c) ==
  /\ c \in Cluster /\ own[c] = none /\ own2[c] \in Cluster
  /\ \A b \in Cluster : b # c => own2[b] = own[b] /\ w.slots[b] = v.slots[b]
  /\ \A i \in 1 .. Slots : w.slots[c][i].kind = "end"
  /\ w.fat[c] = endOfChain
  /\ \A b \in Cluster : b # c => w.fat[b] = v.fat[b] \/ w.fat[b] = c

LEMMA AddedTiles ==
  ASSUME NEW v \in Volume, NEW own, NEW rank, Tiled(v, own, rank), NEW w \in Volume, NEW own2, NEW rank2,
         NEW c \in Cluster, Adds(v, own, w, own2, c),
         own2 \in [Cluster -> {none} \cup Cluster], rank2 \in [Cluster -> Nat],
         \A b \in Cluster : b # c => rank2[b] = rank[b],
         \/ own2[c] = c /\ rank2[c] = 1 /\ \A b \in Cluster : b # c => w.fat[b] = v.fat[b]
         \/ \E last \in Cluster :
              /\ v.fat[last] = endOfChain /\ w.fat[last] = c
              /\ own2[c] = own[last] /\ rank2[c] = rank[last] + 1
              /\ \A b \in Cluster : b # c /\ b # last => w.fat[b] = v.fat[b]
  PROVE  Tiled(w, own2, rank2)
<1>0. \A b \in Cluster : /\ own[b] \in {none} \cup Cluster /\ rank[b] \in Nat /\ v.fat[b] \in FatValue
                         /\ own[b] = none <=> v.fat[b] = Free
                         /\ own[b] # none => /\ own[own[b]] = own[b] /\ rank[b] >= 1 /\ own[b] \in Cluster
                                             /\ (rank[b] = 1 <=> own[b] = b)
                         /\ v.fat[b] \in Cluster => own[v.fat[b]] = own[b] /\ rank[v.fat[b]] = rank[b] + 1
                         /\ own[b] # none /\ rank[b] >= 2 => \E a \in Cluster : v.fat[a] = b
  BY TileFacts
<1>1. /\ own[c] = none /\ v.fat[c] = Free /\ w.fat[c] = endOfChain /\ own2[c] \in Cluster /\ own2[c] # none
      /\ \A b \in Cluster : b # c => own2[b] = own[b]
  BY <1>0, Sizes DEF Adds
<1>2. \A b \in Cluster : v.fat[b] # c
  BY <1>0, <1>1, Sizes
<1>3. \A b \in Cluster : own2[b] = none <=> w.fat[b] = Free
  <2> SUFFICES ASSUME NEW b \in Cluster PROVE own2[b] = none <=> w.fat[b] = Free
    OBVIOUS
  <2>1. CASE b = c
    BY <2>1, <1>1, Sizes
  <2>2. CASE b # c /\ w.fat[b] = v.fat[b]
    BY <2>2, <1>0, <1>1
  <2>3. CASE b # c /\ w.fat[b] = c /\ w.fat[b] # v.fat[b]
    <3>1. v.fat[b] = endOfChain
      BY <2>3, <1>1
    <3> QED BY <3>1, <2>3, <1>0, <1>1, Sizes
  <2> QED BY <2>1, <2>2, <2>3 DEF Adds
<1>4. CASE own2[c] = c /\ rank2[c] = 1 /\ \A b \in Cluster : b # c => w.fat[b] = v.fat[b]
  <2>1. \A b \in Cluster : own2[b] # none =>
          own2[own2[b]] = own2[b] /\ rank2[b] >= 1 /\ (rank2[b] = 1 <=> own2[b] = b)
    BY <1>0, <1>1, <1>4
  <2>2. \A b \in Cluster : w.fat[b] \in Cluster =>
          own2[w.fat[b]] = own2[b] /\ rank2[w.fat[b]] = rank2[b] + 1
    BY <1>0, <1>1, <1>2, <1>4, Sizes
  <2>3. \A b \in Cluster : own2[b] # none /\ rank2[b] >= 2 => \E a \in Cluster : w.fat[a] = b
    <3> SUFFICES ASSUME NEW b \in Cluster, own2[b] # none, rank2[b] >= 2 PROVE \E a \in Cluster : w.fat[a] = b
      OBVIOUS
    <3>1. b # c
      BY <1>4
    <3>2. PICK a \in Cluster : v.fat[a] = b
      BY <3>1, <1>0, <1>1
    <3>3. a # c
      BY <3>2, <1>1, Sizes
    <3> QED BY <3>2, <3>3, <1>4
  <2>4. \A a, b \in Cluster : own2[a] # none /\ own2[a] = own2[b] /\ rank2[a] = rank2[b] => a = b
    <3> SUFFICES ASSUME NEW a \in Cluster, NEW b \in Cluster, own2[a] # none, own2[a] = own2[b],
                        rank2[a] = rank2[b]
                 PROVE a = b
      OBVIOUS
    <3>1. CASE a # c /\ b # c
      <4>1. own[a] # none /\ own[a] = own[b] /\ rank[a] = rank[b]
        BY <3>1, <1>1
      <4> QED BY <4>1 DEF Tiled
    <3>2. CASE a = c \/ b = c
      BY <3>2, <1>0, <1>1, <1>4
    <3> QED BY <3>1, <3>2
  <2> QED BY <1>3, <2>1, <2>2, <2>3, <2>4 DEF Tiled
<1>5. CASE \E last \in Cluster :
             /\ v.fat[last] = endOfChain /\ w.fat[last] = c
             /\ own2[c] = own[last] /\ rank2[c] = rank[last] + 1
             /\ \A b \in Cluster : b # c /\ b # last => w.fat[b] = v.fat[b]
  <2>0. PICK last \in Cluster :
             /\ v.fat[last] = endOfChain /\ w.fat[last] = c
             /\ own2[c] = own[last] /\ rank2[c] = rank[last] + 1
             /\ \A b \in Cluster : b # c /\ b # last => w.fat[b] = v.fat[b]
    BY <1>5
  <2>1. last # c /\ own[last] # none /\ own2[last] = own[last] /\ own[last] # c /\ rank[last] \in Nat
        /\ rank[last] >= 1
    BY <2>0, <1>0, <1>1, Sizes
  <2>2. \A b \in Cluster : own2[b] # none =>
          own2[own2[b]] = own2[b] /\ rank2[b] >= 1 /\ (rank2[b] = 1 <=> own2[b] = b)
    <3> SUFFICES ASSUME NEW b \in Cluster, own2[b] # none
                 PROVE  own2[own2[b]] = own2[b] /\ rank2[b] >= 1 /\ (rank2[b] = 1 <=> own2[b] = b)
      OBVIOUS
    <3>1. CASE b = c
      <4>1. own2[own[last]] = own[own[last]]
        BY <2>1, <1>0, <1>1
      <4> QED BY <3>1, <4>1, <2>0, <2>1, <1>0, <1>1
    <3>2. CASE b # c
      <4>1. own[b] # none /\ own[b] # c /\ own[b] \in Cluster
        BY <3>2, <1>0, <1>1
      <4> QED BY <3>2, <4>1, <1>0, <1>1
    <3> QED BY <3>1, <3>2
  <2>3. \A b \in Cluster : w.fat[b] \in Cluster =>
          own2[w.fat[b]] = own2[b] /\ rank2[w.fat[b]] = rank2[b] + 1
    <3> SUFFICES ASSUME NEW b \in Cluster, w.fat[b] \in Cluster
                 PROVE  own2[w.fat[b]] = own2[b] /\ rank2[w.fat[b]] = rank2[b] + 1
      OBVIOUS
    <3>1. b # c
      BY <1>1, Sizes
    <3>2. CASE b = last
      BY <3>2, <2>0, <2>1
    <3>3. CASE b # last
      <4>1. w.fat[b] = v.fat[b] /\ v.fat[b] # c
        BY <3>1, <3>3, <2>0, <1>2
      <4> QED BY <3>1, <4>1, <1>0, <1>1
    <3> QED BY <3>2, <3>3
  <2>4. \A b \in Cluster : own2[b] # none /\ rank2[b] >= 2 => \E a \in Cluster : w.fat[a] = b
    <3> SUFFICES ASSUME NEW b \in Cluster, own2[b] # none, rank2[b] >= 2 PROVE \E a \in Cluster : w.fat[a] = b
      OBVIOUS
    <3>1. CASE b = c
      BY <3>1, <2>0
    <3>2. CASE b # c
      <4>1. PICK a \in Cluster : v.fat[a] = b
        BY <3>2, <1>0, <1>1
      <4>2. a # c /\ a # last
        BY <4>1, <2>0, <1>1, Sizes
      <4> QED BY <4>1, <4>2, <2>0
    <3> QED BY <3>1, <3>2
  <2>5. ASSUME NEW b \in Cluster, b # c, own2[b] = own2[c], rank2[b] = rank2[c] PROVE FALSE
    <3>1. own[b] = own[last] /\ rank[b] = rank[last] + 1 /\ rank[b] >= 2
      BY <2>5, <2>0, <2>1, <1>1
    <3>2. PICK a \in Cluster : v.fat[a] = b
      BY <3>1, <2>1, <1>0
    <3>3. own[a] = own[last] /\ rank[a] = rank[last]
      BY <3>1, <3>2, <2>1, <1>0
    <3>4. a = last
      BY <3>3, <2>1 DEF Tiled
    <3> QED BY <3>2, <3>4, <2>0, Sizes
  <2>6. \A a, b \in Cluster : own2[a] # none /\ own2[a] = own2[b] /\ rank2[a] = rank2[b] => a = b
    <3> SUFFICES ASSUME NEW a \in Cluster, NEW b \in Cluster, own2[a] # none, own2[a] = own2[b],
                        rank2[a] = rank2[b]
                 PROVE a = b
      OBVIOUS
    <3>1. CASE a # c /\ b # c
      <4>1. own[a] # none /\ own[a] = own[b] /\ rank[a] = rank[b]
        BY <3>1, <1>1
      <4> QED BY <4>1 DEF Tiled
    <3>2. CASE a = c \/ b = c
      BY <3>2, <2>5
    <3> QED BY <3>1, <3>2
  <2> QED BY <1>3, <2>2, <2>3, <2>4, <2>6 DEF Tiled
<1> QED BY <1>4, <1>5

\* What the entries say does not change with the new cluster.
LEMMA AddedRest ==
  ASSUME NEW v \in Volume, NEW own, NEW rank, NEW D, NEW sc, NEW si,
         Whole(v, own, rank, D, sc, si),
         NEW w \in Volume, NEW own2, NEW c \in Cluster, Adds(v, own, w, own2, c)
  PROVE  /\ Scanned(w, own2, D) /\ Named(w, own2, D, sc, si)
         /\ Unique(w, own2, D) /\ Dotted(w, own2, D, sc, si)
<1>1. /\ Tiled(v, own, rank) /\ Scanned(v, own, D) /\ Named(v, own, D, sc, si)
      /\ Unique(v, own, D) /\ Dotted(v, own, D, sc, si)
  BY DEF Whole
<1>2. /\ own[c] = none /\ own2[c] \in Cluster /\ own2[c] # none
      /\ \A b \in Cluster : b # c => own2[b] = own[b] /\ w.slots[b] = v.slots[b]
      /\ \A i \in 1 .. Slots : w.slots[c][i].kind = "end"
      /\ w.fat[c] = endOfChain
      /\ \A b \in Cluster : b # c => w.fat[b] = v.fat[b] \/ w.fat[b] = c
  BY Sizes DEF Adds
<1>3. /\ rootCluster \in D /\ D \subseteq Cluster /\ none \notin D /\ c \notin D
      /\ \A d \in D : own[d] = d /\ d # c /\ own2[d] = d
  BY <1>1, <1>2, Sizes DEF Dotted
<1>4. \A b \in Cluster, i \in 1 .. Slots :
        Counts(w, own2, D, sc, si, b, i) <=> b # c /\ Counts(v, own, D, sc, si, b, i)
  BY <1>2 DEF Counts, Lists, IsChild
<1>5. Scanned(w, own2, D)
  <2>1. \A b \in Cluster, i \in 1 .. Slots : own2[b] \in D => w.slots[b][i].kind # "text"
    BY <1>1, <1>2 DEF Scanned
  <2>2. \A b \in Cluster, i, j \in 1 .. Slots :
          own2[b] \in D /\ i < j /\ w.slots[b][i].kind = "end" => w.slots[b][j].kind = "end"
    <3> SUFFICES ASSUME NEW b \in Cluster, NEW i \in 1 .. Slots, NEW j \in 1 .. Slots,
                        own2[b] \in D, i < j, w.slots[b][i].kind = "end"
                 PROVE  w.slots[b][j].kind = "end"
      OBVIOUS
    <3>1. CASE b = c
      BY <3>1, <1>2
    <3>2. CASE b # c
      BY <3>2, <1>1, <1>2 DEF Scanned
    <3> QED BY <3>1, <3>2
  <2>3. \A b \in Cluster : own2[b] \in D /\ w.fat[b] \in Cluster /\ w.slots[b][Slots].kind = "end" =>
          w.slots[w.fat[b]][1].kind = "end"
    <3> SUFFICES ASSUME NEW b \in Cluster, own2[b] \in D, w.fat[b] \in Cluster, w.slots[b][Slots].kind = "end"
                 PROVE  w.slots[w.fat[b]][1].kind = "end"
      OBVIOUS
    <3>1. b # c /\ 1 \in 1 .. Slots
      BY <1>2, Sizes
    <3>2. CASE w.fat[b] = c
      BY <3>1, <3>2, <1>2
    <3>3. CASE w.fat[b] # c
      <4>1. w.fat[b] = v.fat[b] /\ own[b] \in D /\ v.slots[b][Slots].kind = "end"
        BY <3>1, <3>3, <1>2
      <4>2. v.slots[v.fat[b]][1].kind = "end"
        BY <4>1, <1>1 DEF Scanned
      <4> QED BY <4>1, <4>2, <3>3, <1>2
    <3> QED BY <3>2, <3>3
  <2> QED BY <2>1, <2>2, <2>3 DEF Scanned
<1>6. Named(w, own2, D, sc, si)
  <2>1. ASSUME NEW b \in Cluster, NEW i \in 1 .. Slots,
               Counts(w, own2, D, sc, si, b, i), w.slots[b][i].first # none
        PROVE  LET first == w.slots[b][i].first
               IN  own2[first] = first /\ first # rootCluster /\ (first \in D <=> w.slots[b][i].dir)
    <3>1. Counts(v, own, D, sc, si, b, i) /\ w.slots[b] = v.slots[b]
      BY <2>1, <1>2, <1>4
    <3> DEFINE x == v.slots[b][i].first
    <3>2. own[x] = x /\ x # rootCluster /\ (x \in D <=> v.slots[b][i].dir)
      BY <3>1, <2>1, <1>1 DEF Named
    <3>3. x \in Cluster /\ x # none
      <4>1. v.slots[b][i] \in Stored /\ v.slots[b][i].kind = "entry"
        BY <3>1, SlotIn DEF Counts, Lists, IsChild
      <4>2. x \in {none} \cup Cluster
        BY <4>1, Slotted
      <4> QED BY <4>2, <3>1, <2>1
    <3>4. x # c
      BY <3>2, <3>3, <1>2
    <3> QED BY <3>1, <3>2, <3>3, <3>4, <1>2
  <2>2. ASSUME NEW a \in Cluster, NEW b \in Cluster, NEW i \in 1 .. Slots, NEW j \in 1 .. Slots,
               Counts(w, own2, D, sc, si, a, i), Counts(w, own2, D, sc, si, b, j),
               w.slots[a][i].first = w.slots[b][j].first, w.slots[a][i].first # none
        PROVE  a = b /\ i = j
    <3>1. /\ Counts(v, own, D, sc, si, a, i) /\ Counts(v, own, D, sc, si, b, j)
          /\ w.slots[a] = v.slots[a] /\ w.slots[b] = v.slots[b]
      BY <2>2, <1>2, <1>4
    <3> QED BY <3>1, <2>2, <1>1 DEF Named
  <2> QED BY <2>1, <2>2 DEF Named
<1>7. Unique(w, own2, D)
  <2> SUFFICES ASSUME NEW a \in Cluster, NEW b \in Cluster, NEW i \in 1 .. Slots, NEW j \in 1 .. Slots,
                      own2[a] \in D, own2[b] = own2[a],
                      w.slots[a][i].kind = "entry", w.slots[b][j].kind = "entry",
                      w.slots[a][i].name = w.slots[b][j].name
               PROVE  a = b /\ i = j
    BY DEF Unique
  <2>1. a # c /\ b # c
    BY <1>2
  <2> QED BY <2>1, <1>1, <1>2 DEF Unique
<1>8. Dotted(w, own2, D, sc, si)
  <2>1. \A b \in Cluster, i \in 1 .. Slots :
          own2[b] = rootCluster /\ w.slots[b][i].kind = "entry" => w.slots[b][i].name \notin {".", ".."}
    <3> SUFFICES ASSUME NEW b \in Cluster, NEW i \in 1 .. Slots, own2[b] = rootCluster,
                        w.slots[b][i].kind = "entry"
                 PROVE  w.slots[b][i].name \notin {".", ".."}
      OBVIOUS
    <3>1. b # c
      BY <1>2
    <3> QED BY <3>1, <1>1, <1>2 DEF Dotted
  <2>2. ASSUME NEW d \in D, d # rootCluster
        PROVE  /\ IsDot(w.slots[d][1], ".") /\ w.slots[d][1].first = d
               /\ IsDot(w.slots[d][2], "..") /\ w.slots[d][2].first \in D
               /\ \E b \in Cluster, i \in 1 .. Slots :
                    /\ Counts(w, own2, D, sc, si, b, i) /\ own2[b] = w.slots[d][2].first
                    /\ w.slots[b][i].dir /\ w.slots[b][i].first = d
    <3>1. w.slots[d] = v.slots[d]
      BY <1>2, <1>3
    <3>2. /\ IsDot(v.slots[d][1], ".") /\ v.slots[d][1].first = d
          /\ IsDot(v.slots[d][2], "..") /\ v.slots[d][2].first \in D
      BY <1>1, <2>2 DEF Dotted
    <3>3. PICK b \in Cluster, i \in 1 .. Slots :
            /\ Counts(v, own, D, sc, si, b, i) /\ own[b] = v.slots[d][2].first
            /\ v.slots[b][i].dir /\ v.slots[b][i].first = d
      BY <1>1, <2>2 DEF Dotted
    <3>4. b # c
      BY <3>2, <3>3, <1>2, <1>3
    <3>5. Counts(w, own2, D, sc, si, b, i) /\ own2[b] = w.slots[d][2].first /\ w.slots[b] = v.slots[b]
      BY <3>1, <3>3, <3>4, <1>2, <1>4
    <3> QED BY <3>1, <3>2, <3>3, <3>5
  <2> QED BY <1>3, <2>1, <2>2 DEF Dotted
<1> QED BY <1>5, <1>6, <1>7, <1>8

\* What a chain that grows leaves alone: h is its head.
Kept(v, own, rank, w, own2, rank2, h) ==
  /\ \A c \in Cluster : own[c] # none =>
       /\ own2[c] = own[c] /\ rank2[c] = rank[c] /\ w.slots[c] = v.slots[c]
       /\ own[c] # h => w.fat[c] = v.fat[c]
  /\ \A c \in Cluster : own[c] = none =>
       /\ own2[c] \in {none, h}
       /\ own2[c] = h => \A i \in 1 .. Slots : w.slots[c][i].kind = "end"

LEMMA KeptThere ==
  ASSUME NEW v, NEW own, NEW rank, NEW w, NEW own2, NEW rank2, NEW h,
         Kept(v, own, rank, w, own2, rank2, h), NEW c \in Cluster, own[c] # none
  PROVE  own2[c] = own[c] /\ w.slots[c] = v.slots[c]
  BY DEF Kept

\* A free slot of a directory; a never-used one is the first.
Vacant(v, c, i) ==
  /\ v.slots[c][i].kind \in {"end", "deleted"}
  /\ v.slots[c][i].kind = "end" =>
       /\ \A j \in 1 .. Slots : j < i => v.slots[c][j].kind # "end"
       /\ i = 1 => \A b \in Cluster : v.fat[b] = c => v.slots[b][Slots].kind # "end"

\* A chain with head h and its last cluster gets the cluster that new grants.
LEMMA GrownWhole ==
  ASSUME NEW v \in Volume, NEW own, NEW rank, NEW D, NEW sc, NEW si, Whole(v, own, rank, D, sc, si),
         NEW f, Working(f), NEW new, Grants(v, new), new.status = "ok",
         NEW last \in Cluster, own[last] # none, v.fat[last] = endOfChain,
         NEW w, w = writeFat(writeFat(new.v, f, last, new.cluster), f, new.cluster, endOfChain)
  PROVE  \E own2, rank2 :
           /\ w \in Volume /\ Whole(w, own2, rank2, D, sc, si)
           /\ Kept(v, own, rank, w, own2, rank2, own[last])
           /\ own2[new.cluster] = own[last] /\ rank2[new.cluster] = rank[last] + 1
           /\ w.fat[last] = new.cluster /\ w.fat[new.cluster] = endOfChain
           /\ \A b \in Cluster : w.fat[b] = new.cluster => b = last
           /\ \A i \in 1 .. Slots : w.slots[new.cluster][i] = End
<1> DEFINE c == new.cluster
           u == new.v
           own2 == [own EXCEPT ![c] = own[last]]
           rank2 == [rank EXCEPT ![c] = rank[last] + 1]
<1>1. /\ c \in Cluster /\ v.fat[c] = Free /\ u \in Volume
      /\ \A b \in Cluster : u.fat[b] = IF b = c THEN endOfChain ELSE v.fat[b]
      /\ \A b \in Cluster : b # c => u.slots[b] = v.slots[b]
      /\ \A i \in 1 .. Slots : u.slots[c][i] = End
  BY DEF Grants
<1>2. Tiled(v, own, rank)
  BY DEF Whole
<1>3. own[c] = none /\ last # c /\ own[last] \in Cluster /\ rank[last] \in Nat
  BY <1>1, <1>2, TileFacts
<1> HIDE DEF c, u
<1>4. /\ w \in Volume /\ w.slots = u.slots
      /\ \A b \in Cluster : w.fat[b] = IF b = c THEN endOfChain ELSE IF b = last THEN c ELSE v.fat[b]
  <2> DEFINE x == [u EXCEPT !.fat[last] = c]
  <2>1. writeFat(u, f, last, c) = x
    BY Sizes DEF writeFat, Working
  <2>2. /\ x \in Volume /\ x.slots = u.slots
        /\ \A b \in Cluster : x.fat[b] = IF b = last THEN c ELSE u.fat[b]
    BY <1>1 DEF Volume, FatValue
  <2> HIDE DEF x
  <2>3. w = [x EXCEPT !.fat[c] = endOfChain]
    BY <2>1, <1>1, Sizes DEF writeFat, Working, c, u
  <2>4. /\ w \in Volume /\ w.slots = x.slots
        /\ \A b \in Cluster : w.fat[b] = IF b = c THEN endOfChain ELSE x.fat[b]
    BY <1>1, <2>2, <2>3 DEF Volume, FatValue
  <2> QED BY <1>1, <1>3, <2>2, <2>4
<1>5. /\ own \in [Cluster -> {none} \cup Cluster] /\ rank \in [Cluster -> Nat]
  BY <1>2 DEF Tiled
<1>6. /\ own2 \in [Cluster -> {none} \cup Cluster] /\ rank2 \in [Cluster -> Nat]
      /\ own2[c] = own[last] /\ rank2[c] = rank[last] + 1
      /\ \A b \in Cluster : b # c => own2[b] = own[b] /\ rank2[b] = rank[b]
  BY <1>1, <1>3, <1>5
<1> HIDE DEF own2, rank2
<1>7. Adds(v, own, w, own2, c)
  BY <1>1, <1>3, <1>4, <1>6, Plain DEF Adds
<1>8. Tiled(w, own2, rank2)
  <2>1. /\ w.fat[last] = c /\ \A b \in Cluster : b # c /\ b # last => w.fat[b] = v.fat[b]
    BY <1>3, <1>4
  <2> QED BY <2>1, <1>1, <1>2, <1>4, <1>6, <1>7, AddedTiles
<1>9. Whole(w, own2, rank2, D, sc, si)
  BY <1>1, <1>4, <1>7, <1>8, AddedRest DEF Whole
<1>10. \A b \in Cluster : v.fat[b] # c
  BY <1>1, <1>2, <1>3, TileFacts, Sizes
<1>11. \A b \in Cluster : w.fat[b] = c => b = last
  BY <1>4, <1>10, <1>1, Sizes
<1>12. Kept(v, own, rank, w, own2, rank2, own[last])
  BY <1>1, <1>3, <1>4, <1>6, Plain DEF Kept
<1>13. /\ w.fat[last] = c /\ w.fat[c] = endOfChain
       /\ \A i \in 1 .. Slots : w.slots[c][i] = End
  BY <1>1, <1>3, <1>4
<1> QED BY <1>4, <1>6, <1>9, <1>11, <1>12, <1>13 DEF c

\* findFreeEntry finds a free slot, or makes one, or runs out of space.
Places(v, own, rank, D, d, place) ==
  \/ place.status = "noSpace" /\ place.v = v
  \/ /\ place.status = "ok"
     /\ place.pos.cluster \in Cluster /\ place.pos.index \in 1 .. Slots
     /\ \E own2, rank2 :
          /\ Whole(place.v, own2, rank2, D, none, 0)
          /\ Kept(v, own, rank, place.v, own2, rank2, d)
          /\ own2[place.pos.cluster] = d
          /\ Vacant(place.v, place.pos.cluster, place.pos.index)

LEMMA FreeSpec ==
  ASSUME NEW v \in Volume, NEW own, NEW rank, NEW D, Whole(v, own, rank, D, none, 0),
         NEW f, Working(f), NEW d \in D
  PROVE  Places(v, own, rank, D, d, findFreeEntry(v, f, d))
<1> DEFINE wanted == {p \in Position : \/ p.cluster = Unreadable(f)
                                       \/ SlotAt(v, p) \in {End, Deleted}}
           s == Chain(v, f, d)
           r == FirstIn(s, wanted)
           new == allocateCluster(v, f)
           last == Last(s)
           place == findFreeEntry(v, f, d)
<1>1. place = FreeEntryAt(v, f, d, r)
  BY Zenon DEF findFreeEntry
<1>2. Tiled(v, own, rank) /\ Scanned(v, own, D) /\ Dotted(v, own, D, none, 0)
  BY DEF Whole
<1>3. d \in Cluster /\ own[d] = d /\ d # none
  BY <1>2, Sizes DEF Dotted
<1>4. Scans(own, rank, d, wanted, r)
  <2> HIDE DEF wanted
  <2> QED BY <1>2, <1>3, ScanSpec
<1>5. Unreadable(f) = none
  BY DEF Unreadable, Working
<1>6. \A c \in Cluster, i \in 1 .. Slots :
        Pos(c, i) \in wanted <=> v.slots[c][i].kind \in {"end", "deleted"}
  <2> SUFFICES ASSUME NEW c \in Cluster, NEW i \in 1 .. Slots
               PROVE  Pos(c, i) \in wanted <=> v.slots[c][i].kind \in {"end", "deleted"}
    OBVIOUS
  <2>1. Pos(c, i) \in Position /\ Pos(c, i).cluster = c /\ Pos(c, i).index = i
    BY DEF Pos, Position
  <2>2. c # Unreadable(f)
    BY <1>5, Sizes
  <2>3. v.slots[c][i].kind \in {"end", "deleted"} <=> v.slots[c][i] \in {End, Deleted}
    BY SlotIn, Slotted
  <2> QED BY <2>1, <2>2, <2>3 DEF SlotAt
<1>7. Traces(v, own, rank, d, s)
  BY <1>2, <1>3, ChainTraces
<1>8. last \in Cluster /\ own[last] = d /\ v.fat[last] = endOfChain
  BY <1>7 DEF Traces, Last
<1>9. Grants(v, new)
  BY AllocateSpec
<1> HIDE DEF place, r, new, last, wanted, s
<1>10. CASE r = Nowhere
  <2>1. place = Extended(f, last, new)
    BY <1>1, <1>10, Zenon DEF FreeEntryAt, last, new, s
  <2>2. CASE new.status = "noSpace"
    BY <2>1, <2>2, <1>9 DEF Extended, Places, Grants, place
  <2>3. CASE new.status = "ok"
    <3> DEFINE w == writeFat(writeFat(new.v, f, last, new.cluster), f, new.cluster, endOfChain)
               p == [cluster |-> new.cluster, index |-> 1]
    <3>1. PICK own2, rank2 :
           /\ w \in Volume /\ Whole(w, own2, rank2, D, none, 0)
           /\ Kept(v, own, rank, w, own2, rank2, own[last])
           /\ own2[new.cluster] = own[last] /\ rank2[new.cluster] = rank[last] + 1
           /\ w.fat[last] = new.cluster /\ w.fat[new.cluster] = endOfChain
           /\ \A b \in Cluster : w.fat[b] = new.cluster => b = last
           /\ \A i \in 1 .. Slots : w.slots[new.cluster][i] = End
      <4> HIDE DEF w
      <4>1. own[last] # none
        BY <1>8, <1>3
      <4> QED BY <2>3, <4>1, <1>8, <1>9, GrownWhole DEF w
    <3>2. place = [v |-> w, status |-> "ok", pos |-> p]
      BY <2>1, <2>3, Zenon DEF Extended
    <3> HIDE DEF w
    <3>3. place.status = "ok" /\ place.v = w /\ place.pos.cluster = new.cluster /\ place.pos.index = 1
      BY <3>2
    <3>4. new.cluster \in Cluster
      BY <2>3, <1>9 DEF Grants
    <3>5. v.slots[last][Slots].kind # "end"
      <4>1. Slots \in Nat /\ 1 <= Slots /\ Slots \in 1 .. Slots
        BY Sizes
      <4>2. Pos(last, Slots) \notin wanted
        BY <1>4, <1>8, <1>10, <4>1 DEF Scans
      <4> QED BY <4>1, <4>2, <1>6, <1>8
    <3>6. w.slots[last] = v.slots[last]
      BY <3>1, <1>3, <1>8 DEF Kept
    <3>7. 1 \in 1 .. Slots
      BY Sizes
    <3>8. Vacant(w, new.cluster, 1)
      BY <3>1, <3>5, <3>6, <3>7, Plain, SMT DEF Vacant
    <3> QED BY <3>1, <3>3, <3>4, <3>7, <3>8, <1>8 DEF Places, place
  <2> QED BY <2>2, <2>3, <1>9 DEF Grants
<1>11. CASE r # Nowhere
  <2>1. /\ r.cluster \in Cluster /\ own[r.cluster] = d /\ r.index \in 1 .. Slots
        /\ r = Pos(r.cluster, r.index) /\ r \in wanted
        /\ \A c \in Cluster, i \in Nat :
             own[c] = d /\ 1 <= i /\ i <= Slots /\ (rank[c] < rank[r.cluster] \/ (c = r.cluster /\ i < r.index))
             => Pos(c, i) \notin wanted
    BY <1>4, <1>11 DEF Scans
  <2>2. place = [v |-> v, status |-> "ok", pos |-> r]
    <3>1. r.cluster # Unreadable(f)
      BY <2>1, <1>5, Sizes
    <3> QED BY <1>1, <1>11, <3>1, Zenon DEF FreeEntryAt
  <2>3. v.slots[r.cluster][r.index].kind \in {"end", "deleted"}
    BY <2>1, <1>6
  <2>4. ASSUME NEW j \in 1 .. Slots, j < r.index PROVE v.slots[r.cluster][j].kind # "end"
    <3>1. j \in Nat /\ 1 <= j /\ j <= Slots
      BY Sizes
    <3>2. Pos(r.cluster, j) \notin wanted
      BY <2>1, <2>4, <3>1
    <3> QED BY <3>2, <2>1, <1>6
  <2>5. ASSUME NEW b \in Cluster, v.fat[b] = r.cluster PROVE v.slots[b][Slots].kind # "end"
    <3>1. own[b] = d /\ rank[r.cluster] = rank[b] + 1 /\ rank[b] \in Nat
      BY <2>1, <2>5, <1>2, TileFacts
    <3>2. Slots \in Nat /\ 1 <= Slots /\ Slots \in 1 .. Slots
      BY Sizes
    <3>3. rank[b] < rank[r.cluster]
      BY <3>1
    <3>4. Pos(b, Slots) \notin wanted
      BY <2>1, <3>1, <3>2, <3>3
    <3> QED BY <3>2, <3>4, <1>6
  <2>6. Vacant(v, r.cluster, r.index)
    BY <2>3, <2>4, <2>5 DEF Vacant
  <2>7. Kept(v, own, rank, v, own, rank, d)
    BY <1>3 DEF Kept
  <2> HIDE DEF Whole
  <2> QED BY <2>1, <2>2, <2>6, <2>7 DEF Places, place
<1> QED BY <1>10, <1>11

--------------------------------------------------------------------------------
(* An entry more, another entry, an entry less *)

\* A volume on its way: the entry at sc, si is about to be rewritten, and the
\* directory y, if there is one, is not listed yet.
Ready(v, own, rank, D, sc, si, y) ==
  /\ v \in Volume
  /\ Tiled(v, own, rank) /\ Scanned(v, own, D) /\ Named(v, own, D, sc, si) /\ Unique(v, own, D)
  /\ rootCluster \in D /\ D \subseteq Cluster
  /\ \A d \in D : own[d] = d
  /\ \A c \in Cluster, i \in 1 .. Slots :
       own[c] = rootCluster /\ v.slots[c][i].kind = "entry" => v.slots[c][i].name \notin {".", ".."}
  /\ \A d \in D : d # rootCluster =>
       /\ IsDot(v.slots[d][1], ".") /\ v.slots[d][1].first = d
       /\ IsDot(v.slots[d][2], "..") /\ v.slots[d][2].first \in D
       /\ d # y => \E c \in Cluster, i \in 1 .. Slots :
                     /\ Counts(v, own, D, sc, si, c, i) /\ own[c] = v.slots[d][2].first
                     /\ v.slots[c][i].dir /\ v.slots[c][i].first = d

\* What may be written over the slot c, i.
Fits(v, own, D, c, i, x, y) ==
  /\ x \in Stored /\ x.kind \in {"deleted", "entry"}
  /\ x.kind = "entry" =>
       /\ x.name \in Names
       /\ \A b \in Cluster, j \in 1 .. Slots :
            own[b] = own[c] /\ v.slots[b][j].kind = "entry" /\ v.slots[b][j].name = x.name => b = c /\ j = i
       /\ x.first # none =>
            /\ own[x.first] = x.first /\ x.first # rootCluster /\ (x.first \in D <=> x.dir)
            /\ \A b \in Cluster, j \in 1 .. Slots :
                 Counts(v, own, D, c, i, b, j) => v.slots[b][j].first # x.first
  /\ y # none => /\ x.kind = "entry" /\ x.dir /\ x.first = y
                 /\ y \in D /\ own[c] = v.slots[y][2].first

LEMMA Rewritten ==
  ASSUME NEW v, NEW own, NEW rank, NEW D, NEW c \in Cluster, NEW i \in 1 .. Slots, NEW x, NEW y,
         Ready(v, own, rank, D, c, i, y), own[c] \in D,
         v.slots[c][i].kind = "end" => Vacant(v, c, i),
         v.slots[c][i].kind = "entry" => v.slots[c][i].name \notin {".", ".."},
         Fits(v, own, D, c, i, x, y)
  PROVE  Whole([v EXCEPT !.slots[c][i] = x], own, rank, D, none, 0)
<1> DEFINE w == [v EXCEPT !.slots[c][i] = x]
<1>1. /\ v \in Volume
      /\ Tiled(v, own, rank) /\ Scanned(v, own, D) /\ Named(v, own, D, c, i) /\ Unique(v, own, D)
      /\ rootCluster \in D /\ D \subseteq Cluster /\ \A d \in D : own[d] = d
  BY DEF Ready
<1>2. x \in Stored /\ x.kind \in {"deleted", "entry"}
  BY DEF Fits
<1>3. w \in Volume
  BY <1>1, <1>2, RowTypes
<1>4. /\ w.fat = v.fat
      /\ \A b \in Cluster, j \in 1 .. Slots : w.slots[b][j] = IF b = c /\ j = i THEN x ELSE v.slots[b][j]
  <2>1. v.slots[c] \in Row /\ v.slots \in [Cluster -> Row]
    BY <1>1 DEF Volume
  <2> DEFINE row == [v.slots[c] EXCEPT ![i] = x]
  <2>2. w = [v EXCEPT !.slots[c] = row]
    OBVIOUS
  <2>3. \A j \in 1 .. Slots : row[j] = IF j = i THEN x ELSE v.slots[c][j]
    BY <2>1 DEF Row
  <2> HIDE DEF row, w
  <2>4. w.fat = v.fat /\ \A b \in Cluster : w.slots[b] = IF b = c THEN row ELSE v.slots[b]
    BY <1>1, <2>1, <2>2 DEF Volume
  <2> QED BY <2>3, <2>4
<1> HIDE DEF w
<1>5. Tiled(w, own, rank)
  BY <1>1, <1>4 DEF Tiled
<1>6. Scanned(w, own, D)
  <2>1. \A b \in Cluster, j \in 1 .. Slots : own[b] \in D => w.slots[b][j].kind # "text"
    BY <1>1, <1>2, <1>4 DEF Scanned
  <2>2. \A b \in Cluster, j, k \in 1 .. Slots :
          own[b] \in D /\ j < k /\ w.slots[b][j].kind = "end" => w.slots[b][k].kind = "end"
    <3> SUFFICES ASSUME NEW b \in Cluster, NEW j \in 1 .. Slots, NEW k \in 1 .. Slots,
                        own[b] \in D, j < k, w.slots[b][j].kind = "end"
                 PROVE  w.slots[b][k].kind = "end"
      OBVIOUS
    <3>1. ~(b = c /\ j = i) /\ v.slots[b][j].kind = "end"
      BY <1>2, <1>4
    <3>2. v.slots[b][k].kind = "end"
      BY <3>1, <1>1 DEF Scanned
    <3>3. CASE b = c /\ k = i
      BY <3>1, <3>2, <3>3 DEF Vacant
    <3> QED BY <3>2, <3>3, <1>4
  <2>3. \A b \in Cluster : own[b] \in D /\ w.fat[b] \in Cluster /\ w.slots[b][Slots].kind = "end" =>
          w.slots[w.fat[b]][1].kind = "end"
    <3> SUFFICES ASSUME NEW b \in Cluster, own[b] \in D, w.fat[b] \in Cluster, w.slots[b][Slots].kind = "end"
                 PROVE  w.slots[w.fat[b]][1].kind = "end"
      OBVIOUS
    <3>0. Slots \in 1 .. Slots /\ 1 \in 1 .. Slots
      BY Sizes
    <3>1. v.slots[b][Slots].kind = "end" /\ v.fat[b] \in Cluster /\ w.fat[b] = v.fat[b]
      BY <3>0, <1>2, <1>4
    <3>2. v.slots[v.fat[b]][1].kind = "end"
      BY <3>1, <1>1 DEF Scanned
    <3>3. CASE v.fat[b] = c /\ 1 = i
      BY <3>1, <3>2, <3>3 DEF Vacant
    <3> QED BY <3>0, <3>1, <3>2, <3>3, <1>4
  <2> QED BY <2>1, <2>2, <2>3 DEF Scanned
<1>7. \A b \in Cluster, j \in 1 .. Slots :
        ~(b = c /\ j = i) => (Counts(w, own, D, none, 0, b, j) <=> Counts(v, own, D, c, i, b, j))
  BY <1>4, Sizes DEF Counts, Lists, IsChild
<1>8. Named(w, own, D, none, 0)
  <2>1. ASSUME NEW b \in Cluster, NEW j \in 1 .. Slots,
               Counts(w, own, D, none, 0, b, j), w.slots[b][j].first # none
        PROVE  LET first == w.slots[b][j].first
               IN  own[first] = first /\ first # rootCluster /\ (first \in D <=> w.slots[b][j].dir)
    <3>1. CASE b = c /\ j = i
      <4>1. w.slots[b][j] = x /\ x.kind = "entry"
        BY <3>1, <2>1, <1>4 DEF Counts, Lists, IsChild
      <4> QED BY <4>1, <2>1 DEF Fits
    <3>2. CASE ~(b = c /\ j = i)
      <4>1. Counts(v, own, D, c, i, b, j) /\ w.slots[b][j] = v.slots[b][j]
        BY <3>2, <2>1, <1>4, <1>7
      <4> QED BY <4>1, <2>1, <1>1 DEF Named
    <3> QED BY <3>1, <3>2
  <2>2. ASSUME NEW a \in Cluster, NEW b \in Cluster, NEW j \in 1 .. Slots, NEW k \in 1 .. Slots,
               Counts(w, own, D, none, 0, a, j), Counts(w, own, D, none, 0, b, k),
               w.slots[a][j].first = w.slots[b][k].first, w.slots[a][j].first # none
        PROVE  a = b /\ j = k
    <3>1. \A e \in Cluster, l \in 1 .. Slots :
            Counts(w, own, D, none, 0, e, l) /\ e = c /\ l = i => w.slots[e][l] = x /\ x.kind = "entry"
      BY <1>4 DEF Counts, Lists, IsChild
    <3>2. \A e \in Cluster, l \in 1 .. Slots :
            Counts(w, own, D, none, 0, e, l) /\ ~(e = c /\ l = i)
            => Counts(v, own, D, c, i, e, l) /\ w.slots[e][l] = v.slots[e][l]
      BY <1>4, <1>7
    <3>3. CASE a = c /\ j = i /\ b = c /\ k = i
      BY <3>3
    <3>4. CASE a = c /\ j = i /\ ~(b = c /\ k = i)
      BY <3>1, <3>2, <3>4, <2>2 DEF Fits
    <3>5. CASE ~(a = c /\ j = i) /\ b = c /\ k = i
      BY <3>1, <3>2, <3>5, <2>2 DEF Fits
    <3>6. CASE ~(a = c /\ j = i) /\ ~(b = c /\ k = i)
      BY <3>2, <3>6, <2>2, <1>1 DEF Named
    <3> QED BY <3>3, <3>4, <3>5, <3>6
  <2> QED BY <2>1, <2>2 DEF Named
<1>9. Unique(w, own, D)
  <2> SUFFICES ASSUME NEW a \in Cluster, NEW b \in Cluster, NEW j \in 1 .. Slots, NEW k \in 1 .. Slots,
                      own[a] \in D, own[b] = own[a],
                      w.slots[a][j].kind = "entry", w.slots[b][k].kind = "entry",
                      w.slots[a][j].name = w.slots[b][k].name
               PROVE  a = b /\ j = k
    BY DEF Unique
  <2>1. CASE ~(a = c /\ j = i) /\ ~(b = c /\ k = i)
    BY <2>1, <1>1, <1>4 DEF Unique
  <2>2. CASE a = c /\ j = i /\ ~(b = c /\ k = i)
    BY <2>2, <1>4 DEF Fits
  <2>3. CASE ~(a = c /\ j = i) /\ b = c /\ k = i
    BY <2>3, <1>4 DEF Fits
  <2> QED BY <2>1, <2>2, <2>3
<1>10. Dotted(w, own, D, none, 0)
  <2>1. \A b \in Cluster, j \in 1 .. Slots :
          own[b] = rootCluster /\ w.slots[b][j].kind = "entry" => w.slots[b][j].name \notin {".", ".."}
    <3> SUFFICES ASSUME NEW b \in Cluster, NEW j \in 1 .. Slots, own[b] = rootCluster,
                        w.slots[b][j].kind = "entry"
                 PROVE  w.slots[b][j].name \notin {".", ".."}
      OBVIOUS
    <3>1. CASE b = c /\ j = i
      BY <3>1, <1>4, NoDots DEF Fits
    <3>2. CASE ~(b = c /\ j = i)
      BY <3>2, <1>4 DEF Ready
    <3> QED BY <3>1, <3>2
  <2>2. ASSUME NEW d \in D, d # rootCluster
        PROVE  /\ IsDot(w.slots[d][1], ".") /\ w.slots[d][1].first = d
               /\ IsDot(w.slots[d][2], "..") /\ w.slots[d][2].first \in D
               /\ \E b \in Cluster, j \in 1 .. Slots :
                    /\ Counts(w, own, D, none, 0, b, j) /\ own[b] = w.slots[d][2].first
                    /\ w.slots[b][j].dir /\ w.slots[b][j].first = d
    <3>0. d \in Cluster /\ 1 \in 1 .. Slots /\ 2 \in 1 .. Slots
      BY <1>1, Sizes
    <3>1. /\ IsDot(v.slots[d][1], ".") /\ v.slots[d][1].first = d
          /\ IsDot(v.slots[d][2], "..") /\ v.slots[d][2].first \in D
      BY <2>2 DEF Ready
    <3>2. ~(d = c /\ 1 = i) /\ ~(d = c /\ 2 = i)
      BY <3>1 DEF IsDot
    <3>3. w.slots[d][1] = v.slots[d][1] /\ w.slots[d][2] = v.slots[d][2]
      BY <3>0, <3>2, <1>4
    <3>4. CASE d # y
      <4>1. PICK b \in Cluster, j \in 1 .. Slots :
              /\ Counts(v, own, D, c, i, b, j) /\ own[b] = v.slots[d][2].first
              /\ v.slots[b][j].dir /\ v.slots[b][j].first = d
        BY <2>2, <3>4 DEF Ready
      <4>2. ~(b = c /\ j = i)
        BY <4>1 DEF Counts
      <4>3. Counts(w, own, D, none, 0, b, j) /\ w.slots[b][j] = v.slots[b][j]
        BY <4>1, <4>2, <1>4, <1>7
      <4> QED BY <3>1, <3>3, <4>1, <4>3
    <3>5. CASE d = y
      <4>1. y # none
        BY <3>0, <3>5, Sizes
      <4>2. x.kind = "entry" /\ x.dir /\ x.first = d /\ own[c] = v.slots[d][2].first /\ x.name \in Names
        BY <4>1, <3>5 DEF Fits
      <4>3. w.slots[c][i] = x
        BY <1>4
      <4>4. Counts(w, own, D, none, 0, c, i)
        BY <4>2, <4>3, NoDots, Sizes DEF Counts, Lists, IsChild
      <4> QED BY <3>1, <3>3, <4>2, <4>3, <4>4
    <3> QED BY <3>4, <3>5
  <2> QED BY <2>1, <2>2, <1>1 DEF Dotted
<1>11. Whole(w, own, rank, D, none, 0)
  BY <1>3, <1>5, <1>6, <1>8, <1>9, <1>10 DEF Whole
<1> QED BY <1>11 DEF w

LEMMA WholeIsReady ==
  ASSUME NEW v, NEW own, NEW rank, NEW D, NEW sc, NEW si
  PROVE  Whole(v, own, rank, D, sc, si) <=> Ready(v, own, rank, D, sc, si, none)
<1>1. ASSUME Whole(v, own, rank, D, sc, si) PROVE Ready(v, own, rank, D, sc, si, none)
  BY <1>1 DEF Whole, Ready, Dotted
<1>2. ASSUME Ready(v, own, rank, D, sc, si, none) PROVE Whole(v, own, rank, D, sc, si)
  <2>1. \A d \in D : d # none
    BY <1>2, Sizes DEF Ready
  <2>2. Dotted(v, own, D, sc, si)
    BY <1>2, <2>1 DEF Ready, Dotted
  <2> QED BY <1>2, <2>2 DEF Whole, Ready
<1> QED BY <1>1, <1>2

\* An entry that lists no directory need not count.
LEMMA Weakened ==
  ASSUME NEW v, NEW own, NEW rank, NEW D, Whole(v, own, rank, D, none, 0),
         NEW sc, NEW si, Lists(v, own, D, sc, si) => ~v.slots[sc][si].dir
  PROVE  Whole(v, own, rank, D, sc, si)
<1>1. \A c \in Cluster, i \in 1 .. Slots :
        Counts(v, own, D, sc, si, c, i) => Counts(v, own, D, none, 0, c, i)
  BY Sizes DEF Counts
<1>2. Named(v, own, D, none, 0) /\ Dotted(v, own, D, none, 0)
  BY DEF Whole
<1>3. Named(v, own, D, sc, si)
  <2>1. ASSUME NEW c \in Cluster, NEW i \in 1 .. Slots,
               Counts(v, own, D, sc, si, c, i), v.slots[c][i].first # none
        PROVE  LET first == v.slots[c][i].first
               IN  own[first] = first /\ first # rootCluster /\ (first \in D <=> v.slots[c][i].dir)
    BY <2>1, <1>1, <1>2 DEF Named
  <2>2. ASSUME NEW b \in Cluster, NEW c \in Cluster, NEW i \in 1 .. Slots, NEW j \in 1 .. Slots,
               Counts(v, own, D, sc, si, b, i), Counts(v, own, D, sc, si, c, j),
               v.slots[b][i].first = v.slots[c][j].first, v.slots[b][i].first # none
        PROVE  b = c /\ i = j
    BY <2>2, <1>1, <1>2 DEF Named
  <2> QED BY <2>1, <2>2 DEF Named
<1>4. ASSUME NEW d \in D, d # rootCluster
      PROVE  /\ IsDot(v.slots[d][1], ".") /\ v.slots[d][1].first = d
             /\ IsDot(v.slots[d][2], "..") /\ v.slots[d][2].first \in D
             /\ \E c \in Cluster, i \in 1 .. Slots :
                  /\ Counts(v, own, D, sc, si, c, i) /\ own[c] = v.slots[d][2].first
                  /\ v.slots[c][i].dir /\ v.slots[c][i].first = d
  <2>1. PICK c \in Cluster, i \in 1 .. Slots :
          /\ Counts(v, own, D, none, 0, c, i) /\ own[c] = v.slots[d][2].first
          /\ v.slots[c][i].dir /\ v.slots[c][i].first = d
    BY <1>2, <1>4 DEF Dotted
  <2>2. Counts(v, own, D, sc, si, c, i)
    BY <2>1 DEF Counts
  <2> QED BY <2>1, <2>2, <1>2, <1>4 DEF Dotted
<1>5. Dotted(v, own, D, sc, si)
  BY <1>2, <1>4 DEF Dotted
<1> QED BY <1>3, <1>5 DEF Whole

\* What files hold does not matter to the directories.
LEMMA Framed ==
  ASSUME NEW v \in Volume, NEW own, NEW rank, NEW D, NEW sc, NEW si, Whole(v, own, rank, D, sc, si),
         NEW w \in Volume, w.fat = v.fat, \A c \in Cluster : own[c] \in D => w.slots[c] = v.slots[c]
  PROVE  Whole(w, own, rank, D, sc, si)
<1>1. /\ Tiled(v, own, rank) /\ Scanned(v, own, D) /\ Named(v, own, D, sc, si)
      /\ Unique(v, own, D) /\ Dotted(v, own, D, sc, si)
  BY DEF Whole
<1>2. Tiled(w, own, rank)
  BY <1>1 DEF Tiled
<1>3. Scanned(w, own, D)
  <2>1. \A c \in Cluster : own[c] \in D /\ w.fat[c] \in Cluster /\ w.slots[c][Slots].kind = "end" =>
          w.slots[w.fat[c]][1].kind = "end"
    <3> SUFFICES ASSUME NEW c \in Cluster, own[c] \in D, w.fat[c] \in Cluster, w.slots[c][Slots].kind = "end"
                 PROVE  w.slots[w.fat[c]][1].kind = "end"
      OBVIOUS
    <3>1. own[v.fat[c]] = own[c] /\ v.fat[c] \in Cluster
      BY <1>1, TileFacts
    <3>2. w.slots[c] = v.slots[c] /\ w.slots[v.fat[c]] = v.slots[v.fat[c]]
      BY <3>1
    <3> QED BY <3>1, <3>2, <1>1 DEF Scanned
  <2> QED BY <2>1, <1>1 DEF Scanned
<1>4. \A c \in Cluster, i \in 1 .. Slots :
        Counts(w, own, D, sc, si, c, i) <=> Counts(v, own, D, sc, si, c, i)
  BY DEF Counts, Lists
<1>5. \A c \in Cluster, i \in 1 .. Slots : Counts(w, own, D, sc, si, c, i) => w.slots[c] = v.slots[c]
  BY DEF Counts, Lists
<1>6. Named(w, own, D, sc, si)
  <2>1. ASSUME NEW c \in Cluster, NEW i \in 1 .. Slots,
               Counts(w, own, D, sc, si, c, i), w.slots[c][i].first # none
        PROVE  LET first == w.slots[c][i].first
               IN  own[first] = first /\ first # rootCluster /\ (first \in D <=> w.slots[c][i].dir)
    BY <2>1, <1>1, <1>4, <1>5 DEF Named
  <2>2. ASSUME NEW b \in Cluster, NEW c \in Cluster, NEW i \in 1 .. Slots, NEW j \in 1 .. Slots,
               Counts(w, own, D, sc, si, b, i), Counts(w, own, D, sc, si, c, j),
               w.slots[b][i].first = w.slots[c][j].first, w.slots[b][i].first # none
        PROVE  b = c /\ i = j
    BY <2>2, <1>1, <1>4, <1>5 DEF Named
  <2> QED BY <2>1, <2>2 DEF Named
<1>7. Unique(w, own, D)
  BY <1>1 DEF Unique
<1>8. Dotted(w, own, D, sc, si)
  <2>1. rootCluster \in D /\ D \subseteq Cluster /\ \A d \in D : own[d] = d
    BY <1>1 DEF Dotted
  <2>2. \A c \in Cluster, i \in 1 .. Slots :
          own[c] = rootCluster /\ w.slots[c][i].kind = "entry" => w.slots[c][i].name \notin {".", ".."}
    BY <1>1, <2>1 DEF Dotted
  <2>3. ASSUME NEW d \in D, d # rootCluster
        PROVE  /\ IsDot(w.slots[d][1], ".") /\ w.slots[d][1].first = d
               /\ IsDot(w.slots[d][2], "..") /\ w.slots[d][2].first \in D
               /\ \E c \in Cluster, i \in 1 .. Slots :
                    /\ Counts(w, own, D, sc, si, c, i) /\ own[c] = w.slots[d][2].first
                    /\ w.slots[c][i].dir /\ w.slots[c][i].first = d
    <3>1. w.slots[d] = v.slots[d]
      BY <2>1
    <3>2. PICK c \in Cluster, i \in 1 .. Slots :
            /\ Counts(v, own, D, sc, si, c, i) /\ own[c] = v.slots[d][2].first
            /\ v.slots[c][i].dir /\ v.slots[c][i].first = d
      BY <1>1, <2>3 DEF Dotted
    <3>3. Counts(w, own, D, sc, si, c, i) /\ w.slots[c] = v.slots[c]
      BY <3>2, <1>4, <1>5
    <3>4. /\ IsDot(v.slots[d][1], ".") /\ v.slots[d][1].first = d
          /\ IsDot(v.slots[d][2], "..") /\ v.slots[d][2].first \in D
      BY <1>1, <2>3 DEF Dotted
    <3> QED BY <3>1, <3>2, <3>3, <3>4
  <2> QED BY <2>1, <2>2, <2>3 DEF Dotted
<1> QED BY <1>2, <1>3, <1>6, <1>7, <1>8 DEF Whole

\* The head of a chain of one cluster that no entry leads to.
Fresh(v, own, D, sc, si, y) ==
  /\ y \in Cluster /\ own[y] = y /\ y \notin D /\ v.fat[y] = endOfChain
  /\ \A b \in Cluster : own[b] = y => b = y
  /\ \A b \in Cluster, j \in 1 .. Slots : Counts(v, own, D, sc, si, b, j) => v.slots[b][j].first # y

LEMMA AllocatedWhole ==
  ASSUME NEW v \in Volume, NEW own, NEW rank, NEW D, NEW sc, NEW si, Whole(v, own, rank, D, sc, si),
         NEW new, Grants(v, new), new.status = "ok"
  PROVE  \E own2, rank2 :
           /\ Whole(new.v, own2, rank2, D, sc, si)
           /\ Kept(v, own, rank, new.v, own2, rank2, new.cluster)
           /\ Fresh(new.v, own2, D, sc, si, new.cluster)
           /\ rank2[new.cluster] = 1
<1> DEFINE c == new.cluster
           w == new.v
           own2 == [own EXCEPT ![c] = c]
           rank2 == [rank EXCEPT ![c] = 1]
<1>1. /\ c \in Cluster /\ v.fat[c] = Free /\ w \in Volume
      /\ \A b \in Cluster : w.fat[b] = IF b = c THEN endOfChain ELSE v.fat[b]
      /\ \A b \in Cluster : b # c => w.slots[b] = v.slots[b]
      /\ \A i \in 1 .. Slots : w.slots[c][i] = End
  BY DEF Grants
<1> HIDE DEF c, w
<1>2. Tiled(v, own, rank) /\ Dotted(v, own, D, sc, si) /\ Named(v, own, D, sc, si)
  BY DEF Whole
<1>3. own[c] = none /\ own \in [Cluster -> {none} \cup Cluster] /\ rank \in [Cluster -> Nat]
  BY <1>1, <1>2, TileFacts DEF Tiled
<1>4. /\ own2 \in [Cluster -> {none} \cup Cluster] /\ rank2 \in [Cluster -> Nat]
      /\ own2[c] = c /\ rank2[c] = 1
      /\ \A b \in Cluster : b # c => own2[b] = own[b] /\ rank2[b] = rank[b]
  BY <1>1, <1>3
<1> HIDE DEF own2, rank2
<1>5. Adds(v, own, w, own2, c)
  BY <1>1, <1>3, <1>4, Plain DEF Adds
<1>6. Tiled(w, own2, rank2)
  BY <1>1, <1>2, <1>4, <1>5, AddedTiles
<1>7. Whole(w, own2, rank2, D, sc, si)
  BY <1>1, <1>5, <1>6, AddedRest DEF Whole
<1>8. Kept(v, own, rank, w, own2, rank2, c)
  BY <1>1, <1>3, <1>4, Plain, Sizes DEF Kept
<1>9. \A b \in Cluster : own[b] # c
  BY <1>2, <1>3, <1>1, TileFacts, Sizes
<1>10. c \notin D
  BY <1>2, <1>3, <1>1, Sizes DEF Dotted
<1>11. ASSUME NEW b \in Cluster, NEW j \in 1 .. Slots, Counts(w, own2, D, sc, si, b, j)
       PROVE  w.slots[b][j].first # c
  <2>1. b # c
    BY <1>1, <1>11, Plain DEF Counts, Lists, IsChild
  <2>2. Counts(v, own, D, sc, si, b, j) /\ w.slots[b] = v.slots[b]
    BY <2>1, <1>1, <1>4, <1>11 DEF Counts, Lists
  <2>3. v.slots[b][j].first # none => own[v.slots[b][j].first] = v.slots[b][j].first
    BY <2>2, <1>2 DEF Named
  <2> QED BY <2>2, <2>3, <1>1, <1>3, Sizes
<1>12. Fresh(w, own2, D, sc, si, c)
  BY <1>1, <1>4, <1>9, <1>10, <1>11 DEF Fresh
<1> QED BY <1>4, <1>7, <1>8, <1>12 DEF c, w

\* A chain that grows elsewhere leaves a new cluster as it is.
LEMMA KeptFresh ==
  ASSUME NEW v \in Volume, NEW own, NEW rank, NEW w \in Volume, NEW own2, NEW rank2, NEW D, NEW d \in D,
         none \notin D, NEW y, Fresh(v, own, D, none, 0, y), Kept(v, own, rank, w, own2, rank2, d),
         \A c \in Cluster : own[c] \in {none} \cup Cluster
  PROVE  Fresh(w, own2, D, none, 0, y) /\ w.slots[y] = v.slots[y]
<1>1. y \in Cluster /\ own[y] = y /\ y # none /\ y # d
  BY Sizes DEF Fresh
<1>2. own2[y] = y /\ w.slots[y] = v.slots[y] /\ w.fat[y] = v.fat[y]
  BY <1>1 DEF Kept
<1>3. \A b \in Cluster : own2[b] = y => b = y
  BY <1>1 DEF Kept, Fresh
<1>4. ASSUME NEW b \in Cluster, NEW j \in 1 .. Slots, Counts(w, own2, D, none, 0, b, j)
      PROVE  w.slots[b][j].first # y
  <2>1. CASE own[b] = none
    BY <2>1, <1>4 DEF Kept, Counts, Lists, IsChild
  <2>2. CASE own[b] # none
    <3>1. own2[b] = own[b] /\ w.slots[b] = v.slots[b]
      BY <2>2 DEF Kept
    <3>2. Counts(v, own, D, none, 0, b, j)
      BY <3>1, <1>4 DEF Counts, Lists
    <3> QED BY <3>1, <3>2 DEF Fresh
  <2> QED BY <2>1, <2>2
<1> QED BY <1>2, <1>3, <1>4 DEF Fresh

\* freeChain releases exactly the chain whose head it is given.
LEMMA FreeChainSpec ==
  ASSUME NEW v \in Volume, NEW own, NEW rank, Tiled(v, own, rank), NEW f, Working(f),
         NEW h \in {none} \cup Cluster, h # none => own[h] = h
  PROVE  /\ freeChain(v, f, h) \in Volume /\ freeChain(v, f, h).slots = v.slots
         /\ \A b \in Cluster :
              freeChain(v, f, h).fat[b] = IF h # none /\ own[b] = h THEN Free ELSE v.fat[b]
<1> DEFINE s == Chain(v, f, h)
           fat == [x \in Cluster |-> IF x \in ToSet(s) /\ x # f.read THEN Free ELSE v.fat[x]]
           w == freeChain(v, f, h)
<1>1. w = [v EXCEPT !.fat = fat]
  BY DEF freeChain
<1>2. w \in Volume
  BY FreeType
<1> HIDE DEF w
<1>3. w.slots = v.slots /\ \A b \in Cluster : w.fat[b] = IF b \in ToSet(s) THEN Free ELSE v.fat[b]
  <2>1. \A b \in Cluster : fat[b] = IF b \in ToSet(s) THEN Free ELSE v.fat[b]
    <3> HIDE DEF s
    <3> QED BY Sizes DEF Working
  <2> HIDE DEF fat
  <2> QED BY <1>1, <2>1 DEF Volume
<1>4. \A b \in Cluster : b \in ToSet(s) <=> h # none /\ own[b] = h
  <2>1. CASE h = none
    <3>1. s \in Seq(Cluster) /\ Len(s) = 0
      BY <2>1, ChainWalks, Sizes DEF IsWalk
    <3> HIDE DEF s
    <3>2. ToSet(s) = {}
      BY <3>1 DEF ToSet
    <3> QED BY <3>2, <2>1
  <2>2. CASE h # none
    <3>1. Traces(v, own, rank, h, s)
      BY <2>2, ChainTraces
    <3> HIDE DEF s
    <3>2. /\ s \in Seq(Cluster) /\ Len(s) \in Nat
          /\ \A k \in Nat : 1 <= k /\ k <= Len(s) => s[k] \in Cluster /\ own[s[k]] = h
          /\ \A c \in Cluster : own[c] = h => 1 <= rank[c] /\ rank[c] <= Len(s) /\ s[rank[c]] = c
      BY <3>1 DEF Traces
    <3>3. ASSUME NEW b \in ToSet(s) PROVE own[b] = h
      <4>1. PICK k \in 1 .. Len(s) : b = s[k]
        BY <3>2 DEF ToSet
      <4>2. k \in Nat /\ 1 <= k /\ k <= Len(s)
        BY <3>2
      <4> QED BY <4>1, <4>2, <3>2
    <3>4. ASSUME NEW b \in Cluster, own[b] = h PROVE b \in ToSet(s)
      <4>1. rank[b] \in 1 .. Len(s) /\ s[rank[b]] = b
        BY <3>2, <3>4, TileFacts
      <4> QED BY <4>1, <3>2 DEF ToSet
    <3> QED BY <3>3, <3>4, <2>2
  <2> QED BY <2>1, <2>2
<1>5. \A b \in Cluster : w.fat[b] = IF h # none /\ own[b] = h THEN Free ELSE v.fat[b]
  <2> HIDE DEF s
  <2> QED BY <1>3, <1>4
<1> QED BY <1>2, <1>3, <1>5 DEF w

\* A chain less: its entry is about to be rewritten.
Childless(v, own, D, h) ==
  h \in D => \A b \in Cluster, j \in 1 .. Slots : own[b] = h => ~IsChild(v.slots[b][j])

Frees(v, own, h, w) ==
  /\ w \in Volume /\ w.slots = v.slots
  /\ \A b \in Cluster : w.fat[b] = IF h # none /\ own[b] = h THEN Free ELSE v.fat[b]

LEMMA FreedWhole ==
  ASSUME NEW v \in Volume, NEW own, NEW rank, NEW D, Whole(v, own, rank, D, none, 0),
         NEW c \in Cluster, NEW i \in 1 .. Slots, Lists(v, own, D, c, i),
         NEW h, h = v.slots[c][i].first, v.slots[c][i].dir <=> h \in D, Childless(v, own, D, h),
         NEW w, Frees(v, own, h, w)
  PROVE  \E own2 :
           /\ Whole(w, own2, rank, D \ {h}, c, i)
           /\ \A b \in Cluster : own2[b] = IF own[b] = h THEN none ELSE own[b]
           /\ own[c] # h
<1>0. /\ h \in D => \A b \in Cluster, j \in 1 .. Slots : own[b] = h => ~IsChild(v.slots[b][j])
      /\ w \in Volume /\ w.slots = v.slots
      /\ \A b \in Cluster : w.fat[b] = IF h # none /\ own[b] = h THEN Free ELSE v.fat[b]
  BY DEF Childless, Frees
<1> USE <1>0
<1> DEFINE own2 == [b \in Cluster |-> IF own[b] = h THEN none ELSE own[b]]
           D2 == D \ {h}
<1>1. /\ Tiled(v, own, rank) /\ Scanned(v, own, D) /\ Named(v, own, D, none, 0)
      /\ Unique(v, own, D) /\ Dotted(v, own, D, none, 0)
  BY DEF Whole
<1>2. own \in [Cluster -> {none} \cup Cluster]
  BY <1>1 DEF Tiled
<1>3. own2 \in [Cluster -> {none} \cup Cluster] /\ \A b \in Cluster : own2[b] = IF own[b] = h THEN none ELSE own[b]
  BY <1>2
<1> HIDE DEF own2
<1>4. h \in {none} \cup Cluster
  BY SlotIn, Slotted DEF Lists, IsChild
<1>5. h # rootCluster /\ (h # none => own[h] = h)
  <2>1. Counts(v, own, D, none, 0, c, i)
    BY Sizes DEF Counts
  <2> QED BY <2>1, <1>1, Sizes DEF Named
<1>6. D \subseteq Cluster /\ none \notin D /\ rootCluster \in D /\ \A d \in D : own[d] = d
  BY <1>1, Sizes DEF Dotted
<1>7. own[c] # h
  BY <1>6 DEF Lists
<1>8. \A b \in Cluster : own2[b] \in D2 <=> own[b] \in D /\ own[b] # h
  BY <1>3, <1>6
<1>9. \A b \in Cluster : own[b] \in D /\ own[b] = h => \A j \in 1 .. Slots : ~IsChild(v.slots[b][j])
  OBVIOUS
<1>10. Tiled(w, own2, rank)
  <2>1. \A b \in Cluster : own2[b] = none <=> w.fat[b] = Free
    <3> SUFFICES ASSUME NEW b \in Cluster PROVE own2[b] = none <=> w.fat[b] = Free
      OBVIOUS
    <3>1. own[b] = none <=> v.fat[b] = Free
      BY <1>1, TileFacts
    <3> QED BY <3>1, <1>3
  <2>2. \A b \in Cluster : own2[b] # none =>
          own2[own2[b]] = own2[b] /\ rank[b] >= 1 /\ (rank[b] = 1 <=> own2[b] = b)
    <3> SUFFICES ASSUME NEW b \in Cluster, own2[b] # none
                 PROVE  own2[own2[b]] = own2[b] /\ rank[b] >= 1 /\ (rank[b] = 1 <=> own2[b] = b)
      OBVIOUS
    <3>1. own2[b] = own[b] /\ own[b] # none /\ own[b] # h
      BY <1>3
    <3>2. own[own[b]] = own[b] /\ own[b] \in Cluster /\ rank[b] >= 1 /\ (rank[b] = 1 <=> own[b] = b)
      BY <3>1, <1>1, TileFacts
    <3> QED BY <3>1, <3>2, <1>3
  <2>3. \A b \in Cluster : w.fat[b] \in Cluster =>
          own2[w.fat[b]] = own2[b] /\ rank[w.fat[b]] = rank[b] + 1
    <3> SUFFICES ASSUME NEW b \in Cluster, w.fat[b] \in Cluster
                 PROVE  own2[w.fat[b]] = own2[b] /\ rank[w.fat[b]] = rank[b] + 1
      OBVIOUS
    <3>1. w.fat[b] = v.fat[b]
      BY Sizes
    <3>2. own[v.fat[b]] = own[b] /\ rank[v.fat[b]] = rank[b] + 1
      BY <3>1, <1>1, TileFacts
    <3> QED BY <3>1, <3>2, <1>3
  <2>4. \A b \in Cluster : own2[b] # none /\ rank[b] >= 2 => \E a \in Cluster : w.fat[a] = b
    <3> SUFFICES ASSUME NEW b \in Cluster, own2[b] # none, rank[b] >= 2 PROVE \E a \in Cluster : w.fat[a] = b
      OBVIOUS
    <3>1. own[b] # none /\ own[b] # h
      BY <1>3
    <3>2. PICK a \in Cluster : v.fat[a] = b
      BY <3>1, <1>1, TileFacts
    <3>3. own[b] = own[a]
      BY <3>2, <1>1, TileFacts
    <3> QED BY <3>1, <3>2, <3>3
  <2>5. \A a, b \in Cluster : own2[a] # none /\ own2[a] = own2[b] /\ rank[a] = rank[b] => a = b
    <3> SUFFICES ASSUME NEW a \in Cluster, NEW b \in Cluster, own2[a] # none, own2[a] = own2[b],
                        rank[a] = rank[b]
                 PROVE  a = b
      OBVIOUS
    <3>1. own[a] # none /\ own[a] = own[b]
      BY <1>3
    <3> QED BY <3>1, <1>1 DEF Tiled
  <2>6. rank \in [Cluster -> Nat]
    BY <1>1 DEF Tiled
  <2> QED BY <1>3, <2>1, <2>2, <2>3, <2>4, <2>5, <2>6 DEF Tiled
<1>11. Scanned(w, own2, D2)
  <2>1. \A b \in Cluster : own2[b] \in D2 /\ w.fat[b] \in Cluster /\ w.slots[b][Slots].kind = "end" =>
          w.slots[w.fat[b]][1].kind = "end"
    <3> SUFFICES ASSUME NEW b \in Cluster, own2[b] \in D2, w.fat[b] \in Cluster, w.slots[b][Slots].kind = "end"
                 PROVE  w.slots[w.fat[b]][1].kind = "end"
      OBVIOUS
    <3>1. w.fat[b] = v.fat[b] /\ own[b] \in D
      BY <1>8, Sizes
    <3> QED BY <3>1, <1>1 DEF Scanned
  <2>2. \A b \in Cluster, j \in 1 .. Slots : own2[b] \in D2 => w.slots[b][j].kind # "text"
    BY <1>1, <1>8 DEF Scanned
  <2>3. \A b \in Cluster, j, k \in 1 .. Slots :
          own2[b] \in D2 /\ j < k /\ w.slots[b][j].kind = "end" => w.slots[b][k].kind = "end"
    BY <1>1, <1>8 DEF Scanned
  <2> HIDE DEF D2
  <2> QED BY <2>1, <2>2, <2>3 DEF Scanned
<1>12. \A b \in Cluster, j \in 1 .. Slots :
         Counts(w, own2, D2, c, i, b, j) <=> Counts(v, own, D, none, 0, b, j) /\ ~(b = c /\ j = i)
  BY <1>8, <1>9, Sizes DEF Counts, Lists
<1>13. Named(w, own2, D2, c, i)
  <2>1. ASSUME NEW b \in Cluster, NEW j \in 1 .. Slots,
               Counts(w, own2, D2, c, i, b, j), w.slots[b][j].first # none
        PROVE  LET first == w.slots[b][j].first
               IN  own2[first] = first /\ first # rootCluster /\ (first \in D2 <=> w.slots[b][j].dir)
    <3> DEFINE x == v.slots[b][j].first
    <3>1. Counts(v, own, D, none, 0, b, j) /\ ~(b = c /\ j = i)
      BY <2>1, <1>12
    <3>2. Counts(v, own, D, none, 0, c, i)
      BY Sizes DEF Counts
    <3>3. x # h
      BY <3>1, <3>2, <2>1, <1>1 DEF Named
    <3>4. own[x] = x /\ x # rootCluster /\ (x \in D <=> v.slots[b][j].dir)
      BY <3>1, <2>1, <1>1 DEF Named
    <3>5. x \in Cluster
      <4>1. v.slots[b][j] \in Stored /\ v.slots[b][j].kind = "entry"
        BY <3>1, SlotIn DEF Counts, Lists, IsChild
      <4>2. x \in {none} \cup Cluster
        BY <4>1, Slotted
      <4> QED BY <4>2, <2>1
    <3> QED BY <3>3, <3>4, <3>5, <1>3
  <2>2. ASSUME NEW a \in Cluster, NEW b \in Cluster, NEW j \in 1 .. Slots, NEW k \in 1 .. Slots,
               Counts(w, own2, D2, c, i, a, j), Counts(w, own2, D2, c, i, b, k),
               w.slots[a][j].first = w.slots[b][k].first, w.slots[a][j].first # none
        PROVE  a = b /\ j = k
    <3>1. Counts(v, own, D, none, 0, a, j) /\ Counts(v, own, D, none, 0, b, k)
      BY <2>2, <1>12
    <3>2. v.slots[a][j].first = v.slots[b][k].first /\ v.slots[a][j].first # none
      BY <2>2
    <3> QED BY <3>1, <3>2, <1>1 DEF Named
  <2> HIDE DEF D2
  <2> QED BY <2>1, <2>2 DEF Named
<1>14. Unique(w, own2, D2)
  <2> SUFFICES ASSUME NEW a \in Cluster, NEW b \in Cluster, NEW j \in 1 .. Slots, NEW k \in 1 .. Slots,
                      own2[a] \in D2, own2[b] = own2[a],
                      w.slots[a][j].kind = "entry", w.slots[b][k].kind = "entry",
                      w.slots[a][j].name = w.slots[b][k].name
               PROVE  a = b /\ j = k
    BY DEF Unique
  <2>1. own[a] \in D /\ own[b] = own[a]
    BY <1>3, <1>6, <1>8
  <2> QED BY <2>1, <1>1 DEF Unique
<1>15. Dotted(w, own2, D2, c, i)
  <2>1. rootCluster \in D2 /\ D2 \subseteq Cluster /\ \A d \in D2 : own2[d] = d
    BY <1>3, <1>5, <1>6
  <2>2. \A b \in Cluster, j \in 1 .. Slots :
          own2[b] = rootCluster /\ w.slots[b][j].kind = "entry" => w.slots[b][j].name \notin {".", ".."}
    <3> SUFFICES ASSUME NEW b \in Cluster, NEW j \in 1 .. Slots, own2[b] = rootCluster,
                        w.slots[b][j].kind = "entry"
                 PROVE  w.slots[b][j].name \notin {".", ".."}
      OBVIOUS
    <3>1. own[b] = rootCluster
      BY <1>3, Sizes
    <3> QED BY <3>1, <1>1 DEF Dotted
  <2>3. ASSUME NEW d \in D2, d # rootCluster
        PROVE  /\ IsDot(w.slots[d][1], ".") /\ w.slots[d][1].first = d
               /\ IsDot(w.slots[d][2], "..") /\ w.slots[d][2].first \in D2
               /\ \E b \in Cluster, j \in 1 .. Slots :
                    /\ Counts(w, own2, D2, c, i, b, j) /\ own2[b] = w.slots[d][2].first
                    /\ w.slots[b][j].dir /\ w.slots[b][j].first = d
    <3>1. PICK b \in Cluster, j \in 1 .. Slots :
            /\ Counts(v, own, D, none, 0, b, j) /\ own[b] = v.slots[d][2].first
            /\ v.slots[b][j].dir /\ v.slots[b][j].first = d
      BY <1>1, <2>3 DEF Dotted
    <3>2. /\ IsDot(v.slots[d][1], ".") /\ v.slots[d][1].first = d
          /\ IsDot(v.slots[d][2], "..") /\ v.slots[d][2].first \in D
      BY <1>1, <2>3 DEF Dotted
    <3>3. ~(b = c /\ j = i)
      BY <3>1, <2>3
    <3>4. own[b] # h
      BY <3>1, <1>9 DEF Counts, Lists
    <3>5. Counts(w, own2, D2, c, i, b, j) /\ own2[b] = own[b]
      BY <3>1, <3>3, <3>4, <1>3, <1>12
    <3> HIDE DEF D2
    <3>6. w.slots[d][2].first \in D2
      BY <3>1, <3>2, <3>4 DEF D2
    <3> QED BY <3>1, <3>2, <3>5, <3>6
  <2> HIDE DEF D2
  <2> QED BY <2>1, <2>2, <2>3 DEF Dotted
<1>16. Whole(w, own2, rank, D2, c, i)
  BY <1>10, <1>11, <1>13, <1>14, <1>15 DEF Whole
<1> QED BY <1>3, <1>7, <1>16

\* The rows of a directory that initializeDirectory has made.
Rowed(v, y, parent) ==
  /\ v.slots[y][1] = Entry(".", TRUE, y, 0) /\ v.slots[y][2] = Entry("..", TRUE, parent, 0)
  /\ \A i \in 1 .. Slots : i # 1 /\ i # 2 => v.slots[y][i].kind = "end"

\* A new directory joins the others, and a free slot waits for its entry.
LEMMA Enrolled ==
  ASSUME NEW v, NEW own, NEW rank, NEW D, Whole(v, own, rank, D, none, 0),
         NEW y, Fresh(v, own, D, none, 0, y), NEW p \in D, Rowed(v, y, p),
         NEW c, NEW i, v.slots[c][i].kind # "entry"
  PROVE  /\ Ready(v, own, rank, D \cup {y}, c, i, y)
         /\ \A b \in Cluster, j \in 1 .. Slots :
              Counts(v, own, D \cup {y}, c, i, b, j) <=> Counts(v, own, D, none, 0, b, j)
<1> DEFINE E == D \cup {y}
<1>1. /\ v \in Volume /\ Tiled(v, own, rank) /\ Scanned(v, own, D) /\ Named(v, own, D, none, 0)
      /\ Unique(v, own, D) /\ Dotted(v, own, D, none, 0)
  BY DEF Whole
<1>2. /\ y \in Cluster /\ own[y] = y /\ y \notin D /\ v.fat[y] = endOfChain
      /\ \A b \in Cluster : own[b] = y => b = y
      /\ \A b \in Cluster, j \in 1 .. Slots : Counts(v, own, D, none, 0, b, j) => v.slots[b][j].first # y
  BY DEF Fresh
<1>3. /\ rootCluster \in D /\ D \subseteq Cluster /\ \A d \in D : own[d] = d
  BY <1>1 DEF Dotted
<1>4. /\ v.slots[y][1] = Entry(".", TRUE, y, 0) /\ v.slots[y][2] = Entry("..", TRUE, p, 0)
      /\ \A j \in 1 .. Slots : j # 1 /\ j # 2 => v.slots[y][j].kind = "end"
      /\ 1 \in 1 .. Slots /\ 2 \in 1 .. Slots /\ Slots \in 1 .. Slots
  <2>1. 1 \in 1 .. Slots /\ 2 \in 1 .. Slots /\ Slots \in 1 .. Slots
    BY Sizes
  <2> QED BY <2>1, Zenon DEF Rowed
<1>5. /\ v.slots[y][1].kind = "entry" /\ v.slots[y][1].name = "." /\ v.slots[y][1].dir /\ v.slots[y][1].first = y
      /\ v.slots[y][2].kind = "entry" /\ v.slots[y][2].name = ".." /\ v.slots[y][2].dir /\ v.slots[y][2].first = p
  BY <1>4 DEF Entry
<1>6. \A j \in 1 .. Slots : v.slots[y][j].kind = "entry" \/ v.slots[y][j].kind = "end"
  BY <1>4, <1>5
<1>7. \A j \in 1 .. Slots : ~IsChild(v.slots[y][j])
  BY <1>4, <1>5 DEF IsChild
<1>8. \A b \in Cluster : own[b] \in E => own[b] \in D \/ b = y
  BY <1>2
<1>9. \A b \in Cluster, j \in 1 .. Slots :
        Counts(v, own, E, c, i, b, j) <=> Counts(v, own, D, none, 0, b, j)
  <2> SUFFICES ASSUME NEW b \in Cluster, NEW j \in 1 .. Slots
               PROVE  Counts(v, own, E, c, i, b, j) <=> Counts(v, own, D, none, 0, b, j)
    OBVIOUS
  <2>1. ASSUME Counts(v, own, E, c, i, b, j) PROVE Counts(v, own, D, none, 0, b, j)
    BY <2>1, <1>7, <1>8, Sizes DEF Counts, Lists
  <2>2. ASSUME Counts(v, own, D, none, 0, b, j) PROVE Counts(v, own, E, c, i, b, j)
    BY <2>2 DEF Counts, Lists, IsChild
  <2> QED BY <2>1, <2>2
<1> HIDE DEF E
<1>10. Scanned(v, own, E)
  <2>1. \A b \in Cluster, j \in 1 .. Slots : own[b] \in E => v.slots[b][j].kind # "text"
    <3> SUFFICES ASSUME NEW b \in Cluster, NEW j \in 1 .. Slots, own[b] \in E
                 PROVE  v.slots[b][j].kind # "text"
      OBVIOUS
    <3>1. CASE own[b] \in D
      BY <3>1, <1>1 DEF Scanned
    <3>2. CASE b = y
      BY <3>2, <1>6
    <3> QED BY <3>1, <3>2, <1>8
  <2>2. \A b \in Cluster, j, k \in 1 .. Slots :
          own[b] \in E /\ j < k /\ v.slots[b][j].kind = "end" => v.slots[b][k].kind = "end"
    <3> SUFFICES ASSUME NEW b \in Cluster, NEW j \in 1 .. Slots, NEW k \in 1 .. Slots,
                        own[b] \in E, j < k, v.slots[b][j].kind = "end"
                 PROVE  v.slots[b][k].kind = "end"
      OBVIOUS
    <3>1. CASE own[b] \in D
      BY <3>1, <1>1 DEF Scanned
    <3>2. CASE b = y
      <4>1. j # 1 /\ j # 2
        BY <3>2, <1>5
      <4>2. k # 1 /\ k # 2
        BY <4>1, Sizes
      <4> QED BY <4>2, <3>2, <1>4
    <3> QED BY <3>1, <3>2, <1>8
  <2>3. \A b \in Cluster : own[b] \in E /\ v.fat[b] \in Cluster /\ v.slots[b][Slots].kind = "end" =>
          v.slots[v.fat[b]][1].kind = "end"
    <3> SUFFICES ASSUME NEW b \in Cluster, own[b] \in E, v.fat[b] \in Cluster, v.slots[b][Slots].kind = "end"
                 PROVE  v.slots[v.fat[b]][1].kind = "end"
      OBVIOUS
    <3>1. b # y
      BY <1>2, Sizes
    <3> QED BY <3>1, <1>1, <1>8 DEF Scanned
  <2> QED BY <2>1, <2>2, <2>3 DEF Scanned
<1>11. Named(v, own, E, c, i)
  <2>1. ASSUME NEW b \in Cluster, NEW j \in 1 .. Slots, Counts(v, own, E, c, i, b, j), v.slots[b][j].first # none
        PROVE  LET first == v.slots[b][j].first
               IN  own[first] = first /\ first # rootCluster /\ (first \in E <=> v.slots[b][j].dir)
    <3>1. Counts(v, own, D, none, 0, b, j)
      BY <2>1, <1>9
    <3>2. v.slots[b][j].first # y
      BY <3>1, <1>2
    <3> QED BY <3>1, <3>2, <2>1, <1>1 DEF Named, E
  <2>2. ASSUME NEW a \in Cluster, NEW b \in Cluster, NEW j \in 1 .. Slots, NEW k \in 1 .. Slots,
               Counts(v, own, E, c, i, a, j), Counts(v, own, E, c, i, b, k),
               v.slots[a][j].first = v.slots[b][k].first, v.slots[a][j].first # none
        PROVE  a = b /\ j = k
    <3>1. Counts(v, own, D, none, 0, a, j) /\ Counts(v, own, D, none, 0, b, k)
      BY <2>2, <1>9
    <3> QED BY <3>1, <2>2, <1>1 DEF Named
  <2> QED BY <2>1, <2>2 DEF Named
<1>12. Unique(v, own, E)
  <2> SUFFICES ASSUME NEW a \in Cluster, NEW b \in Cluster, NEW j \in 1 .. Slots, NEW k \in 1 .. Slots,
                      own[a] \in E, own[b] = own[a],
                      v.slots[a][j].kind = "entry", v.slots[b][k].kind = "entry",
                      v.slots[a][j].name = v.slots[b][k].name
               PROVE  a = b /\ j = k
    BY DEF Unique
  <2>1. CASE own[a] \in D
    BY <2>1, <1>1 DEF Unique
  <2>2. CASE a = y
    <3>1. b = y
      BY <2>2, <1>2
    <3>2. j \in {1, 2} /\ k \in {1, 2}
      BY <2>2, <3>1, <1>4
    <3> QED BY <2>2, <3>1, <3>2, <1>5
  <2> QED BY <2>1, <2>2, <1>8
<1>13. /\ rootCluster \in E /\ E \subseteq Cluster /\ \A d \in E : own[d] = d
  BY <1>2, <1>3 DEF E
<1>14. \A b \in Cluster, j \in 1 .. Slots :
         own[b] = rootCluster /\ v.slots[b][j].kind = "entry" => v.slots[b][j].name \notin {".", ".."}
  BY <1>1 DEF Dotted
<1>15. ASSUME NEW d \in E, d # rootCluster
       PROVE  /\ IsDot(v.slots[d][1], ".") /\ v.slots[d][1].first = d
              /\ IsDot(v.slots[d][2], "..") /\ v.slots[d][2].first \in E
              /\ d # y => \E b \in Cluster, j \in 1 .. Slots :
                            /\ Counts(v, own, E, c, i, b, j) /\ own[b] = v.slots[d][2].first
                            /\ v.slots[b][j].dir /\ v.slots[b][j].first = d
  <2>1. CASE d = y
    BY <2>1, <1>5 DEF IsDot, E
  <2>2. CASE d # y
    <3>1. d \in D
      BY <2>2, <1>15 DEF E
    <3>2. /\ IsDot(v.slots[d][1], ".") /\ v.slots[d][1].first = d
          /\ IsDot(v.slots[d][2], "..") /\ v.slots[d][2].first \in D
      BY <3>1, <1>1, <1>15 DEF Dotted
    <3>3. PICK b \in Cluster, j \in 1 .. Slots :
            /\ Counts(v, own, D, none, 0, b, j) /\ own[b] = v.slots[d][2].first
            /\ v.slots[b][j].dir /\ v.slots[b][j].first = d
      BY <3>1, <1>1, <1>15 DEF Dotted
    <3>4. Counts(v, own, E, c, i, b, j)
      BY <3>3, <1>9
    <3> QED BY <3>2, <3>3, <3>4 DEF E
  <2> QED BY <2>1, <2>2
<1>16. Ready(v, own, rank, E, c, i, y)
  BY <1>1, <1>10, <1>11, <1>12, <1>13, <1>14, <1>15 DEF Ready
<1> QED BY <1>9, <1>16 DEF E

\* initializeDirectory writes its cluster, and nothing else.
LEMMA Initialized ==
  ASSUME NEW v \in Volume, NEW f, Working(f), NEW y \in Cluster, NEW parent \in Cluster
  PROVE  LET r == initializeDirectory(v, f, y, parent)
         IN  /\ r.status = "ok" /\ r.v \in Volume /\ r.v.fat = v.fat
             /\ \A b \in Cluster : b # y => r.v.slots[b] = v.slots[b]
             /\ Rowed(r.v, y, parent)
<1> DEFINE row == [i \in 1 .. Slots |->
                     IF i = 1 THEN Entry(".", TRUE, y, 0)
                     ELSE IF i = 2 THEN Entry("..", TRUE, parent, 0) ELSE End]
           r == initializeDirectory(v, f, y, parent)
           w == [v EXCEPT !.slots[y] = row]
<1>1. r = [v |-> w, status |-> "ok"]
  <2>1. y # f.data
    BY Sizes DEF Working
  <2> QED BY <2>1, Zenon DEF initializeDirectory
<1>2. r.v = w /\ r.status = "ok" /\ r.v \in Volume
  <2>1. Result(r)
    BY InitializeType
  <2> HIDE DEF w, r
  <2> QED BY <2>1, <1>1 DEF Result
<1>3. /\ row[1] = Entry(".", TRUE, y, 0) /\ row[2] = Entry("..", TRUE, parent, 0)
      /\ \A i \in 1 .. Slots : i # 1 /\ i # 2 => row[i].kind = "end"
  <2>1. 1 \in 1 .. Slots /\ 2 \in 1 .. Slots /\ 1 # 2
    BY Sizes
  <2> QED BY <2>1, Plain, Zenon
<1> HIDE DEF row, r
<1>4. w.fat = v.fat /\ \A b \in Cluster : w.slots[b] = IF b = y THEN row ELSE v.slots[b]
  BY DEF Volume
<1> HIDE DEF w
<1>5. Rowed(w, y, parent)
  BY <1>3, <1>4 DEF Rowed
<1> QED BY <1>2, <1>4, <1>5 DEF r

\* A new chain stays new while only its own cluster is written.
LEMMA FreshFramed ==
  ASSUME NEW v, NEW own, NEW D, NEW sc, NEW si, NEW y, Fresh(v, own, D, sc, si, y),
         NEW w, w.fat = v.fat, \A c \in Cluster : own[c] \in D => w.slots[c] = v.slots[c]
  PROVE  Fresh(w, own, D, sc, si, y)
<1>1. \A b \in Cluster, j \in 1 .. Slots :
        Counts(w, own, D, sc, si, b, j) => Counts(v, own, D, sc, si, b, j) /\ w.slots[b] = v.slots[b]
  BY DEF Counts, Lists
<1>2. ASSUME NEW b \in Cluster, NEW j \in 1 .. Slots, Counts(w, own, D, sc, si, b, j)
      PROVE  w.slots[b][j].first # y
  BY <1>1, <1>2 DEF Fresh
<1> QED BY <1>2 DEF Fresh

--------------------------------------------------------------------------------
(* What files hold, and what a command leaves alone *)

\* The first `size` slots of the chain with head h are text.
Holds(v, own, rank, h, size) ==
  \A n \in Nat : 1 <= n /\ n <= size =>
    \E c \in Cluster : /\ own[c] = h /\ h # none /\ rank[c] = ((n - 1) \div Slots) + 1
                       /\ v.slots[c][((n - 1) % Slots) + 1] = Text

LEMMA HoldsNothing ==
  ASSUME NEW v, NEW own, NEW rank, NEW h
  PROVE  Holds(v, own, rank, h, 0)
  BY DEF Holds

Written(v, own, rank, D, sc, si) ==
  \A c \in Cluster, i \in 1 .. Slots :
    Counts(v, own, D, sc, si, c, i) /\ ~v.slots[c][i].dir =>
      Holds(v, own, rank, v.slots[c][i].first, v.slots[c][i].size)

Good(v, own, rank, D, sc, si) == Whole(v, own, rank, D, sc, si) /\ Written(v, own, rank, D, sc, si)

\* No directory goes, nor the entry of one.
Stays(v, own, D, w, own2, D2) ==
  /\ D \subseteq D2
  /\ \A b \in Cluster, j \in 1 .. Slots :
       Lists(v, own, D, b, j) /\ v.slots[b][j].dir =>
         Lists(w, own2, D2, b, j) /\ own2[b] = own[b] /\ w.slots[b][j] = v.slots[b][j]

LEMMA StaysOn ==
  ASSUME NEW v, NEW own, NEW D, NEW w, NEW own2, NEW D2, Stays(v, own, D, w, own2, D2),
         NEW u, NEW own3, NEW D3, Stays(w, own2, D2, u, own3, D3)
  PROVE  Stays(v, own, D, u, own3, D3)
<1> SUFFICES ASSUME NEW b \in Cluster, NEW j \in 1 .. Slots, Lists(v, own, D, b, j), v.slots[b][j].dir
             PROVE  Lists(u, own3, D3, b, j) /\ own3[b] = own[b] /\ u.slots[b][j] = v.slots[b][j]
  BY DEF Stays
<1>1. Lists(w, own2, D2, b, j) /\ own2[b] = own[b] /\ w.slots[b][j] = v.slots[b][j]
  BY DEF Stays
<1> QED BY <1>1 DEF Stays

\* A chain that grows leaves the other files and every directory alone.
LEMMA WrittenGrown ==
  ASSUME NEW v, NEW own, NEW rank, NEW D, NEW sc, NEW si, Written(v, own, rank, D, sc, si), none \notin D,
         NEW w, NEW own2, NEW rank2, NEW h, Kept(v, own, rank, w, own2, rank2, h)
  PROVE  Written(w, own2, rank2, D, sc, si) /\ Stays(v, own, D, w, own2, D)
<1>1. ASSUME NEW c \in Cluster, NEW i \in 1 .. Slots, Counts(w, own2, D, sc, si, c, i), ~w.slots[c][i].dir
      PROVE  Holds(w, own2, rank2, w.slots[c][i].first, w.slots[c][i].size)
  <2>1. own[c] # none
    BY <1>1 DEF Kept, Counts, Lists, IsChild
  <2>2. own2[c] = own[c] /\ w.slots[c] = v.slots[c]
    BY <2>1 DEF Kept
  <2>3. Counts(v, own, D, sc, si, c, i)
    BY <2>2, <1>1 DEF Counts, Lists
  <2> DEFINE h0 == v.slots[c][i].first
             m == v.slots[c][i].size
  <2>4. Holds(v, own, rank, h0, m)
    BY <2>2, <2>3, <1>1 DEF Written
  <2> HIDE DEF h0, m
  <2>5. Holds(w, own2, rank2, h0, m)
    <3> SUFFICES ASSUME NEW n \in Nat, 1 <= n, n <= m
                 PROVE  \E b \in Cluster : /\ own2[b] = h0 /\ h0 # none /\ rank2[b] = ((n - 1) \div Slots) + 1
                                           /\ w.slots[b][((n - 1) % Slots) + 1] = Text
      BY DEF Holds
    <3>1. PICK b \in Cluster : /\ own[b] = h0 /\ h0 # none /\ rank[b] = ((n - 1) \div Slots) + 1
                               /\ v.slots[b][((n - 1) % Slots) + 1] = Text
      BY <2>4 DEF Holds
    <3>2. own2[b] = own[b] /\ rank2[b] = rank[b] /\ w.slots[b] = v.slots[b]
      BY <3>1 DEF Kept
    <3> QED BY <3>1, <3>2
  <2> QED BY <2>2, <2>5 DEF h0, m
<1>2. ASSUME NEW c \in Cluster, NEW i \in 1 .. Slots, Lists(v, own, D, c, i)
      PROVE  Lists(w, own2, D, c, i) /\ own2[c] = own[c] /\ w.slots[c][i] = v.slots[c][i]
  <2>1. own[c] # none
    BY <1>2 DEF Lists
  <2>2. own2[c] = own[c] /\ w.slots[c] = v.slots[c]
    BY <2>1 DEF Kept
  <2> QED BY <2>2, <1>2 DEF Lists
<1> QED BY <1>1, <1>2 DEF Written, Stays

\* Text that is written does no harm to what is written already.
LEMMA WrittenFramed ==
  ASSUME NEW v, NEW own, NEW rank, NEW D, NEW sc, NEW si, Written(v, own, rank, D, sc, si),
         NEW w, \A c \in Cluster : own[c] \in D => w.slots[c] = v.slots[c],
         \A c \in Cluster, n \in Nat :
           own[c] # none /\ 1 <= n /\ v.slots[c][((n - 1) % Slots) + 1] = Text =>
             w.slots[c][((n - 1) % Slots) + 1] = Text
  PROVE  Written(w, own, rank, D, sc, si) /\ Stays(v, own, D, w, own, D)
<1>1. ASSUME NEW c \in Cluster, NEW i \in 1 .. Slots, Counts(w, own, D, sc, si, c, i), ~w.slots[c][i].dir
      PROVE  Holds(w, own, rank, w.slots[c][i].first, w.slots[c][i].size)
  <2>1. w.slots[c] = v.slots[c] /\ Counts(v, own, D, sc, si, c, i)
    BY <1>1 DEF Counts, Lists
  <2> DEFINE h0 == v.slots[c][i].first
             m == v.slots[c][i].size
  <2>2. Holds(v, own, rank, h0, m)
    BY <2>1, <1>1 DEF Written
  <2> HIDE DEF h0, m
  <2>3. Holds(w, own, rank, h0, m)
    <3> SUFFICES ASSUME NEW n \in Nat, 1 <= n, n <= m
                 PROVE  \E b \in Cluster : /\ own[b] = h0 /\ h0 # none /\ rank[b] = ((n - 1) \div Slots) + 1
                                           /\ w.slots[b][((n - 1) % Slots) + 1] = Text
      BY DEF Holds
    <3>1. PICK b \in Cluster : /\ own[b] = h0 /\ h0 # none /\ rank[b] = ((n - 1) \div Slots) + 1
                               /\ v.slots[b][((n - 1) % Slots) + 1] = Text
      BY <2>2 DEF Holds
    <3> QED BY <3>1
  <2> QED BY <2>1, <2>3 DEF h0, m
<1>2. ASSUME NEW c \in Cluster, NEW i \in 1 .. Slots, Lists(v, own, D, c, i)
      PROVE  Lists(w, own, D, c, i) /\ w.slots[c][i] = v.slots[c][i]
  BY <1>2 DEF Lists
<1> QED BY <1>1, <1>2 DEF Written, Stays

\* The n-th slot of a text: its place in a cluster.
LEMMA Within ==
  ASSUME NEW n \in Nat, 1 <= n
  PROVE  /\ ((n - 1) % Slots) + 1 \in 1 .. Slots
         /\ (n - 1) \div Slots \in Nat
         /\ n - 1 = Slots * ((n - 1) \div Slots) + ((n - 1) % Slots)
<1> DEFINE q == (n - 1) \div Slots
           r == (n - 1) % Slots
<1>0. Slots \in Nat /\ Slots >= 2 /\ n - 1 \in Nat
  BY Sizes
<1>1. q \in Nat /\ r \in 0 .. Slots - 1 /\ n - 1 = Slots * q + r
  BY <1>0, SMT
<1> HIDE DEF q, r
<1>2. r + 1 \in 1 .. Slots
  BY <1>0, <1>1
<1> QED BY <1>1, <1>2 DEF q, r

\* An entry that is rewritten is no text of a file.
LEMMA WrittenAnew ==
  ASSUME NEW v, NEW own, NEW rank, NEW D, NEW c \in Cluster, NEW i \in 1 .. Slots, NEW x, NEW y,
         Ready(v, own, rank, D, c, i, y), own[c] \in D, Written(v, own, rank, D, c, i),
         IsChild(x) /\ ~x.dir => Holds(v, own, rank, x.first, x.size)
  PROVE  Written([v EXCEPT !.slots[c][i] = x], own, rank, D, none, 0)
<1> DEFINE w == [v EXCEPT !.slots[c][i] = x]
<1>1. v \in Volume /\ v.slots[c][i].kind # "text"
  BY DEF Ready, Scanned
<1>2. \A b \in Cluster, j \in 1 .. Slots : w.slots[b][j] = IF b = c /\ j = i THEN x ELSE v.slots[b][j]
  <2>1. v.slots[c] \in Row /\ v.slots \in [Cluster -> Row]
    BY <1>1 DEF Volume
  <2> DEFINE row == [v.slots[c] EXCEPT ![i] = x]
  <2>2. w = [v EXCEPT !.slots[c] = row]
    OBVIOUS
  <2>3. \A j \in 1 .. Slots : row[j] = IF j = i THEN x ELSE v.slots[c][j]
    BY <2>1 DEF Row
  <2> HIDE DEF row, w
  <2>4. \A b \in Cluster : w.slots[b] = IF b = c THEN row ELSE v.slots[b]
    BY <1>1, <2>1, <2>2 DEF Volume
  <2> QED BY <2>3, <2>4
<1> HIDE DEF w
<1>3. ASSUME NEW h, NEW m, Holds(v, own, rank, h, m) PROVE Holds(w, own, rank, h, m)
  <2> SUFFICES ASSUME NEW n \in Nat, 1 <= n, n <= m
               PROVE  \E b \in Cluster : /\ own[b] = h /\ h # none /\ rank[b] = ((n - 1) \div Slots) + 1
                                         /\ w.slots[b][((n - 1) % Slots) + 1] = Text
    BY DEF Holds
  <2>1. PICK b \in Cluster : /\ own[b] = h /\ h # none /\ rank[b] = ((n - 1) \div Slots) + 1
                             /\ v.slots[b][((n - 1) % Slots) + 1] = Text
    BY <1>3 DEF Holds
  <2> DEFINE j == ((n - 1) % Slots) + 1
  <2>2. j \in 1 .. Slots /\ v.slots[b][j] = Text
    BY <2>1, Within
  <2> HIDE DEF j
  <2>3. ~(b = c /\ j = i)
    BY <2>2, <1>1, Plain
  <2>4. w.slots[b][j] = Text
    BY <2>2, <2>3, <1>2
  <2> QED BY <2>1, <2>4 DEF j
<1>4. ASSUME NEW b \in Cluster, NEW j \in 1 .. Slots, Counts(w, own, D, none, 0, b, j), ~w.slots[b][j].dir
      PROVE  Holds(w, own, rank, w.slots[b][j].first, w.slots[b][j].size)
  <2>1. CASE b = c /\ j = i
    <3>1. w.slots[b][j] = x /\ IsChild(x) /\ ~x.dir
      BY <2>1, <1>2, <1>4 DEF Counts, Lists
    <3> QED BY <3>1, <1>3
  <2>2. CASE ~(b = c /\ j = i)
    <3>1. w.slots[b][j] = v.slots[b][j] /\ Counts(v, own, D, c, i, b, j)
      BY <2>2, <1>2, <1>4 DEF Counts, Lists
    <3>2. Holds(v, own, rank, v.slots[b][j].first, v.slots[b][j].size)
      BY <3>1, <1>4 DEF Written
    <3> QED BY <3>1, <3>2, <1>3
  <2> QED BY <2>1, <2>2
<1>5. Written(w, own, rank, D, none, 0)
  BY <1>4 DEF Written
<1> QED BY <1>5 DEF w

\* The entries of directories that are not rewritten.
LEMMA StaysAnew ==
  ASSUME NEW v \in Volume, NEW own, NEW D, NEW E, D \subseteq E, NEW c \in Cluster, NEW i \in 1 .. Slots, NEW x,
         Lists(v, own, D, c, i) => ~v.slots[c][i].dir
  PROVE  Stays(v, own, D, [v EXCEPT !.slots[c][i] = x], own, E)
<1> DEFINE w == [v EXCEPT !.slots[c][i] = x]
<1> SUFFICES ASSUME NEW b \in Cluster, NEW j \in 1 .. Slots, Lists(v, own, D, b, j), v.slots[b][j].dir
             PROVE  Lists(w, own, E, b, j) /\ w.slots[b][j] = v.slots[b][j]
  BY DEF Stays
<1>1. ~(b = c /\ j = i)
  OBVIOUS
<1>2. w.slots[b][j] = v.slots[b][j]
  <2>1. v.slots[c] \in Row /\ v.slots \in [Cluster -> Row]
    BY DEF Volume
  <2> DEFINE row == [v.slots[c] EXCEPT ![i] = x]
  <2>2. w = [v EXCEPT !.slots[c] = row]
    OBVIOUS
  <2>3. \A k \in 1 .. Slots : row[k] = IF k = i THEN x ELSE v.slots[c][k]
    BY <2>1 DEF Row
  <2> HIDE DEF row, w
  <2>4. \A e \in Cluster : w.slots[e] = IF e = c THEN row ELSE v.slots[e]
    BY <2>1, <2>2 DEF Volume
  <2> QED BY <1>1, <2>3, <2>4
<1> HIDE DEF w
<1> QED BY <1>2 DEF Lists

--------------------------------------------------------------------------------
(* The operations of a command, on a sound volume *)

\* What a command makes of a sound volume: no directory goes.
Grew(v, own, D, w) ==
  \E own2, rank2, D2 : Good(w, own2, rank2, D2, none, 0) /\ Stays(v, own, D, w, own2, D2)

\* A new entry: of a file, or of a directory that is made already.
Enters(v, own, rank, D, d, e) ==
  /\ e \in Stored /\ e.kind = "entry" /\ e.name \in Names
  /\ \/ /\ ~e.dir /\ Holds(v, own, rank, e.first, e.size)
        /\ e.first # none => Fresh(v, own, D, none, 0, e.first)
     \/ e.dir /\ Fresh(v, own, D, none, 0, e.first) /\ Rowed(v, e.first, d)

LEMMA CreateSpec ==
  ASSUME NEW v \in Volume, NEW own, NEW rank, NEW D, Good(v, own, rank, D, none, 0),
         NEW f, Working(f), NEW d \in D, NEW e, Enters(v, own, rank, D, d, e)
  PROVE  LET r == createEntry(v, f, d, e)
         IN  /\ r.status \in {"ok", "alreadyExists", "noSpace"}
             /\ r.status # "ok" => r.v = v
             /\ r.status = "ok" => Grew(v, own, D, r.v)
<1> DEFINE found == findEntry(v, f, d, e.name)
           place == findFreeEntry(v, f, d)
           r == createEntry(v, f, d, e)
<1>1. /\ Whole(v, own, rank, D, none, 0) /\ Written(v, own, rank, D, none, 0)
      /\ Tiled(v, own, rank) /\ Scanned(v, own, D) /\ Dotted(v, own, D, none, 0)
  BY DEF Good, Whole
<1>2. d \in Cluster /\ own[d] = d /\ none \notin D /\ rootCluster \in D
  BY <1>1, Sizes DEF Dotted
<1>3. Finds(v, own, d, e.name, found)
  BY <1>1, <1>2, FindSpec
<1>4. Places(v, own, rank, D, d, place)
  BY <1>1, FreeSpec
<1>5. r = PutEntry(v, f, found.status, place, e)
  BY Zenon DEF createEntry
<1> HIDE DEF found, place, r
<1>6. CASE found.status = "ok"
  BY <1>6, <1>5 DEF PutEntry, r
<1>7. CASE found.status # "ok" /\ place.status = "noSpace"
  <2>1. found.status = "notFound"
    BY <1>3, <1>7 DEF Finds
  <2>2. place.v = v
    BY <1>4, <1>7 DEF Places
  <2> QED BY <2>1, <2>2, <1>5, <1>7 DEF PutEntry, r
<1>8. CASE found.status # "ok" /\ place.status # "noSpace"
  <2> DEFINE c == place.pos.cluster
             i == place.pos.index
             u == place.v
             w == [u EXCEPT !.slots[c][i] = e]
  <2>1. /\ found.status = "notFound"
        /\ \A b \in Cluster, j \in 1 .. Slots :
             own[b] = d /\ v.slots[b][j].kind = "entry" => v.slots[b][j].name # e.name
    BY <1>3, <1>8 DEF Finds
  <2>2. place.status = "ok" /\ c \in Cluster /\ i \in 1 .. Slots
    BY <1>4, <1>8 DEF Places
  <2>3. PICK own2, rank2 :
          /\ Whole(u, own2, rank2, D, none, 0)
          /\ Kept(v, own, rank, u, own2, rank2, d)
          /\ own2[c] = d
          /\ Vacant(u, c, i)
    BY <1>4, <1>8 DEF Places
  <2>4. r = [v |-> w, status |-> "ok"]
    <3>1. c # Unreadable(f)
      BY <2>2, Sizes DEF Unreadable, Working
    <3>2. r = writeEntry(u, f, place.pos, e)
      BY <1>5, <2>1, <2>2, Zenon DEF PutEntry
    <3> QED BY <3>1, <3>2, Zenon DEF writeEntry
  <2> HIDE DEF c, i, u
  <2>5. u \in Volume /\ Tiled(u, own2, rank2) /\ u.slots[c][i].kind \in {"end", "deleted"}
    BY <2>3 DEF Whole, Vacant
  <2>6. Written(u, own2, rank2, D, none, 0) /\ Stays(v, own, D, u, own2, D)
    BY <1>1, <1>2, <2>3, WrittenGrown
  <2>7. \A b \in Cluster, j \in 1 .. Slots :
          own2[b] = d /\ u.slots[b][j].kind = "entry" => u.slots[b][j].name # e.name
    <3> SUFFICES ASSUME NEW b \in Cluster, NEW j \in 1 .. Slots, own2[b] = d, u.slots[b][j].kind = "entry"
                 PROVE  u.slots[b][j].name # e.name
      OBVIOUS
    <3>1. own[b] # none
      BY <2>3 DEF Kept
    <3>2. own2[b] = own[b] /\ u.slots[b] = v.slots[b]
      BY <3>1, <2>3 DEF Kept
    <3> QED BY <3>2, <2>1
  <2>8. \A y : Fresh(v, own, D, none, 0, y) =>
          Fresh(u, own2, D, none, 0, y) /\ u.slots[y] = v.slots[y]
    <3>1. \A b \in Cluster : own[b] \in {none} \cup Cluster
      BY <1>1, TileFacts
    <3> SUFFICES ASSUME NEW y, Fresh(v, own, D, none, 0, y)
                 PROVE  Fresh(u, own2, D, none, 0, y) /\ u.slots[y] = v.slots[y]
      OBVIOUS
    <3> HIDE DEF Working, Good, Enters
    <3> QED BY <3>1, <1>2, <2>3, <2>5, KeptFresh
  <2>9. e \in Stored /\ e.kind = "entry" /\ e.name \in Names
    BY DEF Enters
  <2>10. CASE ~e.dir
    <3>1. /\ Holds(v, own, rank, e.first, e.size)
          /\ e.first # none => Fresh(v, own, D, none, 0, e.first)
      BY <2>10 DEF Enters
    <3>2. Whole(u, own2, rank2, D, c, i)
      <4>1. ~Lists(u, own2, D, c, i)
        BY <2>5 DEF Lists, IsChild
      <4> QED BY <4>1, <2>3, Weakened
    <3>3. Ready(u, own2, rank2, D, c, i, none)
      BY <3>2, WholeIsReady
    <3>4. e.first # none => Fresh(u, own2, D, none, 0, e.first)
      BY <3>1, <2>8
    <3>5. Fits(u, own2, D, c, i, e, none)
      <4>1. ASSUME NEW b \in Cluster, NEW j \in 1 .. Slots, own2[b] = own2[c],
                   u.slots[b][j].kind = "entry", u.slots[b][j].name = e.name
            PROVE  b = c /\ j = i
        BY <4>1, <2>3, <2>7
      <4>2. ASSUME e.first # none
            PROVE  /\ own2[e.first] = e.first /\ e.first # rootCluster /\ (e.first \in D <=> e.dir)
                   /\ \A b \in Cluster, j \in 1 .. Slots :
                        Counts(u, own2, D, c, i, b, j) => u.slots[b][j].first # e.first
        <5>1. Fresh(u, own2, D, none, 0, e.first)
          BY <3>4, <4>2
        <5>2. \A b \in Cluster, j \in 1 .. Slots :
                Counts(u, own2, D, c, i, b, j) => Counts(u, own2, D, none, 0, b, j)
          BY Sizes DEF Counts
        <5> QED BY <5>1, <5>2, <1>2, <2>10 DEF Fresh
      <4> QED BY <4>1, <4>2, <2>9 DEF Fits
    <3>6. Holds(u, own2, rank2, e.first, e.size)
      <4> SUFFICES ASSUME NEW n \in Nat, 1 <= n, n <= e.size
                   PROVE  \E b \in Cluster : /\ own2[b] = e.first /\ e.first # none
                                             /\ rank2[b] = ((n - 1) \div Slots) + 1
                                             /\ u.slots[b][((n - 1) % Slots) + 1] = Text
        BY DEF Holds
      <4>1. PICK b \in Cluster : /\ own[b] = e.first /\ e.first # none /\ rank[b] = ((n - 1) \div Slots) + 1
                                 /\ v.slots[b][((n - 1) % Slots) + 1] = Text
        BY <3>1 DEF Holds
      <4>2. own2[b] = own[b] /\ rank2[b] = rank[b] /\ u.slots[b] = v.slots[b]
        BY <4>1, <2>3 DEF Kept
      <4> QED BY <4>1, <4>2
    <3>7. Whole(w, own2, rank2, D, none, 0)
      BY <2>2, <2>3, <2>5, <3>3, <3>5, Rewritten DEF c, i
    <3>8. Written(u, own2, rank2, D, c, i)
      <4>1. \A b \in Cluster, j \in 1 .. Slots :
              Counts(u, own2, D, c, i, b, j) => Counts(u, own2, D, none, 0, b, j)
        BY Sizes DEF Counts
      <4> QED BY <4>1, <2>6 DEF Written
    <3>9. Written(w, own2, rank2, D, none, 0)
      BY <2>2, <2>3, <3>3, <3>6, <3>8, WrittenAnew DEF c, i
    <3>10. Stays(u, own2, D, w, own2, D)
      <4>1. ~Lists(u, own2, D, c, i)
        BY <2>5 DEF Lists, IsChild
      <4> QED BY <4>1, <2>2, <2>5, StaysAnew DEF c, i
    <3> HIDE DEF w
    <3>11. Grew(v, own, D, w)
      BY <3>7, <3>9, <3>10, <2>6, StaysOn DEF Good, Grew
    <3> QED BY <3>11, <2>4 DEF r
  <2>11. CASE e.dir
    <3> DEFINE y == e.first
               E == D \cup {y}
    <3>1. Fresh(v, own, D, none, 0, y) /\ Rowed(v, y, d)
      BY <2>11 DEF Enters
    <3> HIDE DEF y
    <3>2. Fresh(u, own2, D, none, 0, y) /\ u.slots[y] = v.slots[y]
      BY <3>1, <2>8
    <3>3. Rowed(u, y, d)
      BY <3>1, <3>2 DEF Rowed
    <3>4. /\ Ready(u, own2, rank2, E, c, i, y)
          /\ \A b \in Cluster, j \in 1 .. Slots :
               Counts(u, own2, E, c, i, b, j) <=> Counts(u, own2, D, none, 0, b, j)
      BY <2>3, <2>5, <3>2, <3>3, Enrolled
    <3>5. Fits(u, own2, E, c, i, e, y)
      <4>1. ASSUME NEW b \in Cluster, NEW j \in 1 .. Slots, own2[b] = own2[c],
                   u.slots[b][j].kind = "entry", u.slots[b][j].name = e.name
            PROVE  b = c /\ j = i
        BY <4>1, <2>3, <2>7
      <4>2. /\ own2[y] = y /\ y # rootCluster /\ y \in E /\ y # none
            /\ \A b \in Cluster, j \in 1 .. Slots :
                 Counts(u, own2, E, c, i, b, j) => u.slots[b][j].first # y
        BY <3>2, <3>4, <1>2, Sizes DEF Fresh
      <4>3. u.slots[y][2].first = d
        <5>1. u.slots[y][2] = Entry("..", TRUE, d, 0)
          BY <3>3 DEF Rowed
        <5> QED BY <5>1 DEF Entry
      <4> QED BY <4>1, <4>2, <4>3, <2>3, <2>9, <2>11 DEF Fits, y
    <3>6. own2[c] \in E /\ D \subseteq E
      BY <2>3
    <3> HIDE DEF E
    <3>7. Whole(w, own2, rank2, E, none, 0)
      BY <2>2, <2>3, <2>5, <3>4, <3>5, <3>6, Rewritten DEF c, i
    <3>8. Written(u, own2, rank2, E, c, i)
      BY <2>6, <3>4 DEF Written
    <3>9. Written(w, own2, rank2, E, none, 0)
      BY <2>2, <2>11, <3>4, <3>6, <3>8, WrittenAnew DEF c, i
    <3>10. Stays(u, own2, D, w, own2, E)
      <4>1. ~Lists(u, own2, D, c, i)
        BY <2>5 DEF Lists, IsChild
      <4> QED BY <4>1, <3>6, <2>2, <2>5, StaysAnew DEF c, i
    <3> HIDE DEF w
    <3>11. Grew(v, own, D, w)
      BY <3>7, <3>9, <3>10, <2>6, StaysOn DEF Good, Grew
    <3> QED BY <3>11, <2>4 DEF r
  <2> QED BY <2>9, <2>10, <2>11
<1> QED BY <1>6, <1>7, <1>8

LEMMA GrewSelf ==
  ASSUME NEW v, NEW own, NEW rank, NEW D, Good(v, own, rank, D, none, 0)
  PROVE  Grew(v, own, D, v)
<1>1. Stays(v, own, D, v, own, D)
  BY DEF Stays
<1> QED BY <1>1 DEF Grew

LEMMA GrewOn ==
  ASSUME NEW v, NEW own, NEW D, NEW w, NEW own2, NEW D2, Stays(v, own, D, w, own2, D2),
         NEW u, Grew(w, own2, D2, u)
  PROVE  Grew(v, own, D, u)
<1>1. PICK own3, rank3, D3 : Good(u, own3, rank3, D3, none, 0) /\ Stays(w, own2, D2, u, own3, D3)
  BY DEF Grew
<1>2. Stays(v, own, D, u, own3, D3)
  BY <1>1, StaysOn
<1> QED BY <1>1, <1>2 DEF Grew

\* A new chain that is released again leaves the volume as it was, but for what
\* a free cluster holds.
LEMMA Released ==
  ASSUME NEW v, NEW own, NEW rank, NEW D, Good(v, own, rank, D, none, 0),
         NEW f, Working(f), NEW new, Grants(v, new), new.status = "ok",
         NEW w \in Volume, w.fat = new.v.fat, \A b \in Cluster : b # new.cluster => w.slots[b] = v.slots[b],
         NEW own2, NEW rank2, Tiled(w, own2, rank2), own2[new.cluster] = new.cluster,
         \A b \in Cluster : own2[b] = new.cluster => b = new.cluster
  PROVE  Grew(v, own, D, freeChain(w, f, new.cluster))
<1> DEFINE y == new.cluster
           u == freeChain(w, f, y)
<1>1. /\ y \in Cluster /\ v.fat[y] = Free
      /\ \A b \in Cluster : w.fat[b] = IF b = y THEN endOfChain ELSE v.fat[b]
  BY DEF Grants
<1>2. y # none
  BY <1>1, Sizes
<1> HIDE DEF y, u
<1>3. /\ u \in Volume /\ u.slots = w.slots
      /\ \A b \in Cluster : u.fat[b] = IF y # none /\ own2[b] = y THEN Free ELSE w.fat[b]
  BY <1>1, FreeChainSpec DEF y, u
<1>4. v \in Volume /\ Tiled(v, own, rank) /\ Dotted(v, own, D, none, 0)
  BY DEF Good, Whole
<1>5. \A b \in Cluster : u.fat[b] = v.fat[b]
  BY <1>1, <1>2, <1>3 DEF y
<1>6. u.fat = v.fat
  <2>1. u.fat \in [Cluster -> FatValue] /\ v.fat \in [Cluster -> FatValue]
    BY <1>3, <1>4 DEF Volume
  <2> QED BY <1>5, <2>1
<1>7. own[y] = none /\ none \notin D
  <2>1. own[y] = none
    BY <1>1, <1>4, TileFacts
  <2>2. none \notin D
    BY <1>4, Sizes DEF Dotted
  <2> QED BY <2>1, <2>2
<1>8. \A b \in Cluster : own[b] # none => u.slots[b] = v.slots[b]
  BY <1>3, <1>7 DEF y
<1>9. \A b \in Cluster : own[b] \in D => u.slots[b] = v.slots[b]
  BY <1>7, <1>8
<1>10. Whole(u, own, rank, D, none, 0)
  BY <1>3, <1>4, <1>6, <1>9, Framed DEF Good
<1>11. Written(u, own, rank, D, none, 0) /\ Stays(v, own, D, u, own, D)
  BY <1>8, <1>9, WrittenFramed DEF Good
<1> QED BY <1>10, <1>11 DEF Good, Grew, u, y

\* makeDirectory, once the name is free.
LEMMA NewDirectorySpec ==
  ASSUME NEW v, NEW own, NEW rank, NEW D, Good(v, own, rank, D, none, 0),
         NEW f, Working(f), NEW parent, parent.cluster \in D, NEW name \in Names
  PROVE  Grew(v, own, D, NewDirectory(f, parent, name, allocateCluster(v, f)).v)
<1> DEFINE new == allocateCluster(v, f)
           y == new.cluster
           d == parent.cluster
           dots == initializeDirectory(new.v, f, y, d)
           e == Entry(name, TRUE, y, 0)
           made == NameDirectory(f, parent, name, y, dots)
           r == NewDirectory(f, parent, name, new)
<1>1. v \in Volume /\ Whole(v, own, rank, D, none, 0) /\ Written(v, own, rank, D, none, 0)
      /\ Dotted(v, own, D, none, 0)
  BY DEF Good, Whole
<1>2. Grants(v, new)
  BY <1>1, AllocateSpec
<1>3. r = IF new.status # "ok" THEN Done(new.v, new.status) ELSE UnlessMade(f, y, made)
  BY Zenon DEF NewDirectory
<1>4. made = IF dots.status # "ok" THEN dots ELSE createEntry(dots.v, f, d, e)
  BY Zenon DEF NameDirectory
<1> HIDE DEF new, dots, made, r, d
<1>5. CASE new.status # "ok"
  <2>1. r.v = v
    BY <1>2, <1>3, <1>5 DEF Done, Grants
  <2> QED BY <2>1, GrewSelf DEF r, new
<1>6. CASE new.status = "ok"
  <2>1. PICK own2, rank2 :
           /\ Whole(new.v, own2, rank2, D, none, 0)
           /\ Kept(v, own, rank, new.v, own2, rank2, y)
           /\ Fresh(new.v, own2, D, none, 0, y)
           /\ rank2[y] = 1
    BY <1>1, <1>2, <1>6, AllocatedWhole
  <2>2. none \notin D /\ D \subseteq Cluster /\ y \in Cluster /\ new.v \in Volume /\ d \in Cluster /\ d \in D
    BY <1>1, <1>2, <1>6, Sizes DEF Dotted, Grants, d
  <2>3. Written(new.v, own2, rank2, D, none, 0) /\ Stays(v, own, D, new.v, own2, D)
    BY <1>1, <2>1, <2>2, WrittenGrown
  <2> DEFINE u == dots.v
  <2>4. /\ dots.status = "ok" /\ u \in Volume /\ u.fat = new.v.fat
        /\ \A b \in Cluster : b # y => u.slots[b] = new.v.slots[b]
        /\ Rowed(u, y, d)
    BY <2>2, Initialized DEF dots
  <2> HIDE DEF u
  <2>5. \A b \in Cluster : own2[b] \in D => u.slots[b] = new.v.slots[b]
    BY <2>1, <2>4 DEF Fresh
  <2>6. Whole(u, own2, rank2, D, none, 0)
    BY <2>1, <2>2, <2>4, <2>5, Framed
  <2>7. Written(u, own2, rank2, D, none, 0) /\ Stays(new.v, own2, D, u, own2, D)
    <3>1. ASSUME NEW c \in Cluster, NEW n \in Nat, 1 <= n, new.v.slots[c][((n - 1) % Slots) + 1] = Text
          PROVE  u.slots[c][((n - 1) % Slots) + 1] = Text
      <4> DEFINE j == ((n - 1) % Slots) + 1
      <4>1. j \in 1 .. Slots /\ new.v.slots[c][j] = Text
        BY <3>1, Within
      <4> HIDE DEF j
      <4>2. c # y
        BY <4>1, <1>2, <1>6, Plain DEF Grants
      <4> QED BY <4>1, <4>2, <2>4 DEF j
    <3> QED BY <3>1, <2>3, <2>5, WrittenFramed
  <2>8. Fresh(u, own2, D, none, 0, y)
    BY <2>1, <2>4, <2>5, FreshFramed
  <2>9. Enters(u, own2, rank2, D, d, e)
    <3>1. 0 \in 0 .. MaxSize
      BY Bounds
    <3>2. e \in Stored
      BY <3>1, <2>2, EntryStored
    <3>3. e.kind = "entry" /\ e.name = name /\ e.dir /\ e.first = y
      BY DEF Entry
    <3> HIDE DEF e
    <3> QED BY <3>2, <3>3, <2>4, <2>8 DEF Enters
  <2> HIDE DEF e
  <2>10. Good(u, own2, rank2, D, none, 0) /\ Stays(v, own, D, u, own2, D)
    BY <2>3, <2>6, <2>7, StaysOn DEF Good
  <2>11. /\ made.status \in {"ok", "alreadyExists", "noSpace"}
         /\ made.status # "ok" => made.v = u
         /\ made.status = "ok" => Grew(u, own2, D, made.v)
    <3>1. made = createEntry(u, f, d, e)
      BY <1>4, <2>4 DEF u
    <3> QED BY <3>1, <2>2, <2>4, <2>9, <2>10, CreateSpec
  <2>12. CASE made.status = "ok"
    <3>1. r.v = made.v
      BY <1>3, <1>6, <2>12 DEF UnlessMade
    <3>2. Grew(v, own, D, made.v)
      BY <2>10, <2>11, <2>12, GrewOn
    <3> QED BY <3>1, <3>2 DEF r, new
  <2>13. CASE made.status # "ok"
    <3>1. r.v = freeChain(u, f, y)
      <4>1. r = Done(freeChain(made.v, f, y), made.status)
        BY <1>3, <1>6, <2>13 DEF UnlessMade
      <4> QED BY <4>1, <2>11, <2>13 DEF Done
    <3>2. \A b \in Cluster : b # y => u.slots[b] = v.slots[b]
      BY <1>2, <1>6, <2>4 DEF Grants
    <3>3. Tiled(u, own2, rank2) /\ own2[y] = y /\ \A b \in Cluster : own2[b] = y => b = y
      BY <2>6, <2>8 DEF Whole, Fresh
    <3>4. Grew(v, own, D, freeChain(u, f, y))
      BY <1>2, <1>6, <2>4, <3>2, <3>3, Released
    <3> QED BY <3>1, <3>4 DEF r, new
  <2> QED BY <2>12, <2>13
<1> QED BY <1>5, <1>6

LEMMA Times ==
  ASSUME NEW a \in Nat, NEW b \in Nat, NEW s \in Nat, s >= 1
  PROVE  /\ a * s < b * s => a < b
         /\ (a + 1) * s = a * s + s
         /\ a <= b => a * s <= b * s
         /\ a * s = s * a
  BY SMT

LEMMA SameRow ==
  ASSUME NEW a \in Row, NEW b \in Row, \A i \in 1 .. Slots : a[i] = b[i]
  PROVE  a = b
<1>1. a = [i \in 1 .. Slots |-> a[i]] /\ b = [i \in 1 .. Slots |-> b[i]]
  BY DEF Row
<1>2. [i \in 1 .. Slots |-> a[i]] = [i \in 1 .. Slots |-> b[i]]
  BY Zenon
<1> QED BY <1>1, <1>2, Zenon

LEMMA OneCluster ==
  ASSUME NEW n \in Nat, 1 <= n, n <= Slots
  PROVE  ClustersFor(n) = 1
<1> DEFINE C == ClustersFor(n)
<1>1. C \in Nat /\ C >= 1 /\ C * Slots < n + Slots /\ Slots \in Nat /\ Slots >= 2
  BY Covering, Sizes
<1> HIDE DEF C
<1>2. C * Slots < 2 * Slots
  <2>1. C * Slots \in Nat
    BY <1>1
  <2> QED BY <1>1, <2>1
<1>3. C < 2
  BY <1>1, <1>2, Times
<1> QED BY <1>1, <1>3 DEF C

\* writeData writes into its chain; it answers ok once the text is there.
Copies(v, own, rank, h, from, to, r) ==
  /\ r.status \in {"ok", "ioError"} /\ r.v \in Volume /\ r.v.fat = v.fat
  /\ \A c \in Cluster : h = none \/ own[c] # h => r.v.slots[c] = v.slots[c]
  /\ \A c \in Cluster, i \in 1 .. Slots : v.slots[c][i] = Text => r.v.slots[c][i] = Text
  /\ r.status = "ok" =>
       \A n \in Nat : from < n /\ n <= to =>
         \E c \in Cluster : /\ own[c] = h /\ h # none /\ rank[c] = ((n - 1) \div Slots) + 1
                            /\ r.v.slots[c][((n - 1) % Slots) + 1] = Text
  /\ h # none /\ 1 <= to /\ to <= Slots => r.status = "ok"

LEMMA CopySpec ==
  ASSUME NEW v \in Volume, NEW own, NEW rank, Tiled(v, own, rank), NEW f, Working(f),
         NEW h \in {none} \cup Cluster, h # none => own[h] = h, NEW from \in Nat, NEW to \in Nat
  PROVE  Copies(v, own, rank, h, from, to, writeData(v, f, h, from, to))
<1> DEFINE chain == Chain(v, f, h)
           touched == {k \in 1 .. ClustersFor(to) : k * Slots > from}
           bad     == {k \in touched : k > Len(chain) \/ chain[k] = Unreadable(f)}
           copied  == {k \in touched : \A b \in bad : k < b}
           text(k) == {i \in 1 .. Slots : from < (k - 1) * Slots + i /\ (k - 1) * Slots + i <= to}
           hit(c, i) == \E k \in copied : chain[k] = c /\ i \in text(k)
           slots == [c \in Cluster |-> [i \in 1 .. Slots |-> IF hit(c, i) THEN Text ELSE v.slots[c][i]]]
           r == CopyInto(v, f, chain, from, to)
<1>1. CopyInto(v, f, chain, from, to) =
        [v |-> [v EXCEPT !.slots = slots], status |-> IF bad = {} THEN "ok" ELSE "ioError"]
  BY Zenon DEF CopyInto
<1>2. chain \in Seq(Cluster) /\ Len(chain) \in Nat /\ (h = none => Len(chain) = 0)
  <2>1. IsWalk(v, f, h, chain)
    BY ChainWalks
  <2> HIDE DEF chain
  <2> QED BY <2>1, Sizes DEF IsWalk
<1>3. h # none => Traces(v, own, rank, h, chain)
  BY ChainTraces
<1>4. Slots \in Nat /\ Slots >= 2 /\ ClustersFor(to) \in Nat /\ to <= ClustersFor(to) * Slots
  BY Sizes, Covering, SMTT(40)
<1> HIDE DEF chain
<1>5. \A k \in copied : k \in Nat /\ 1 <= k /\ k <= Len(chain) /\ h # none
  <2> SUFFICES ASSUME NEW k \in copied PROVE k \in Nat /\ 1 <= k /\ k <= Len(chain) /\ h # none
    OBVIOUS
  <2>1. k \in touched /\ k \in Nat /\ 1 <= k
    BY <1>4
  <2>2. k <= Len(chain)
    <3>1. CASE k \in bad
      <4>1. k < k
        BY <3>1
      <4> QED BY <4>1, <2>1
    <3>2. CASE k \notin bad
      BY <3>2, <2>1, <1>2
    <3> QED BY <3>1, <3>2
  <2> QED BY <2>1, <2>2, <1>2
<1>6. \A c \in Cluster, i \in 1 .. Slots : hit(c, i) => h # none /\ own[c] = h
  <2> SUFFICES ASSUME NEW c \in Cluster, NEW i \in 1 .. Slots, NEW k \in copied, chain[k] = c
               PROVE  h # none /\ own[c] = h
    OBVIOUS
  <2>1. k \in Nat /\ 1 <= k /\ k <= Len(chain) /\ h # none
    BY <1>5
  <2> QED BY <2>1, <1>3 DEF Traces
<1>7. ASSUME bad = {}, NEW n \in Nat, from < n, n <= to
      PROVE  \E c \in Cluster : /\ own[c] = h /\ h # none /\ rank[c] = ((n - 1) \div Slots) + 1
                                /\ hit(c, ((n - 1) % Slots) + 1)
  <2> DEFINE q == (n - 1) \div Slots
             m == (n - 1) % Slots
             k == q + 1
             C == ClustersFor(to)
  <2>1. 1 <= n /\ q \in Nat /\ m + 1 \in 1 .. Slots /\ n - 1 = Slots * q + m
    BY <1>7, Within
  <2> HIDE DEF q, m
  <2>2. m \in Nat /\ m < Slots /\ n - 1 = q * Slots + m
    <3>1. q * Slots = Slots * q
      BY <2>1, <1>4, Times
    <3>2. m \in Nat /\ m < Slots
      BY <1>4, <1>7 DEF m
    <3> QED BY <3>1, <3>2, <2>1
  <2>3. k \in Nat /\ 1 <= k /\ k * Slots = q * Slots + Slots /\ k - 1 = q
    <3>1. (q + 1) * Slots = q * Slots + Slots
      BY <2>1, <1>4, Times
    <3> QED BY <3>1, <2>1
  <2>4. k * Slots > from
    BY <2>2, <2>3, <1>4, <1>7
  <2>5. k <= C
    <3>1. C \in Nat /\ to <= C * Slots
      BY <1>4
    <3> HIDE DEF C
    <3>2. q * Slots < C * Slots
      <4>1. q * Slots \in Nat /\ C * Slots \in Nat
        BY <2>1, <3>1, <1>4
      <4> QED BY <4>1, <2>1, <2>2, <3>1, <1>4, <1>7
    <3>3. q < C
      BY <3>1, <3>2, <2>1, <1>4, Times
    <3> QED BY <3>1, <3>3, <2>1
  <2>6. k \in touched
    <3> HIDE DEF k
    <3> QED BY <2>3, <2>4, <2>5, <1>4
  <2>7. k \in copied
    <3> HIDE DEF k, touched
    <3> QED BY <2>6, <1>7
  <2>8. k <= Len(chain) /\ h # none
    <3> HIDE DEF k, copied
    <3> QED BY <2>7, <1>5
  <2>9. chain[k] \in Cluster /\ own[chain[k]] = h /\ rank[chain[k]] = k
    <3> HIDE DEF k
    <3> QED BY <2>3, <2>8, <1>3 DEF Traces
  <2>10. m + 1 \in text(k)
    <3>1. (k - 1) * Slots = q * Slots /\ q * Slots \in Nat
      BY <2>1, <2>3, <1>4
    <3>2. from < (k - 1) * Slots + (m + 1) /\ (k - 1) * Slots + (m + 1) <= to
      BY <3>1, <2>2, <1>7
    <3> HIDE DEF k
    <3> QED BY <3>2, <2>1
  <2>11. hit(chain[k], m + 1)
    <3> HIDE DEF k, copied, text
    <3> QED BY <2>7, <2>10
  <2> HIDE DEF hit
  <2> QED BY <2>8, <2>9, <2>11 DEF q, m
<1>17. ASSUME h # none, 1 <= to, to <= Slots PROVE bad = {}
  <2>1. ClustersFor(to) = 1
    BY <1>17, OneCluster
  <2> SUFFICES ASSUME NEW k \in touched, k > Len(chain) \/ chain[k] = Unreadable(f) PROVE FALSE
    OBVIOUS
  <2>2. k = 1
    BY <2>1
  <2>3. 1 <= Len(chain) /\ chain[1] \in Cluster
    BY <1>3, <1>17 DEF Traces
  <2> QED BY <2>2, <2>3, <1>2, Sizes DEF Unreadable, Working
<1> HIDE DEF hit, bad
<1>8. r.status = IF bad = {} THEN "ok" ELSE "ioError"
  BY <1>1
<1>9. /\ r.v.fat = v.fat
      /\ \A c \in Cluster, i \in 1 .. Slots : r.v.slots[c][i] = IF hit(c, i) THEN Text ELSE v.slots[c][i]
  <2>1. \A c \in Cluster, i \in 1 .. Slots : slots[c][i] = IF hit(c, i) THEN Text ELSE v.slots[c][i]
    OBVIOUS
  <2> HIDE DEF slots
  <2>2. r.v.fat = v.fat /\ r.v.slots = slots
    BY <1>1 DEF Volume
  <2> QED BY <2>1, <2>2
<1>10. r.v \in Volume
  <2>1. \A c \in Cluster, i \in 1 .. Slots : (IF hit(c, i) THEN Text ELSE v.slots[c][i]) \in Stored
    BY SlotIn, Plain
  <2>2. slots \in [Cluster -> Row]
    BY <2>1 DEF Row
  <2> HIDE DEF slots
  <2> QED BY <1>1, <2>2 DEF Volume
<1> HIDE DEF r
<1>11. ASSUME NEW c \in Cluster, h = none \/ own[c] # h PROVE r.v.slots[c] = v.slots[c]
  <2>1. r.v.slots[c] \in Row /\ v.slots[c] \in Row
    BY <1>10 DEF Volume
  <2>2. \A i \in 1 .. Slots : r.v.slots[c][i] = v.slots[c][i]
    BY <1>6, <1>9, <1>11
  <2> QED BY <2>1, <2>2, SameRow
<1>12. \A c \in Cluster, i \in 1 .. Slots : v.slots[c][i] = Text => r.v.slots[c][i] = Text
  BY <1>9
<1>13. ASSUME r.status = "ok", NEW n \in Nat, from < n, n <= to
       PROVE  \E c \in Cluster : /\ own[c] = h /\ h # none /\ rank[c] = ((n - 1) \div Slots) + 1
                                 /\ r.v.slots[c][((n - 1) % Slots) + 1] = Text
  <2>1. PICK c \in Cluster : /\ own[c] = h /\ h # none /\ rank[c] = ((n - 1) \div Slots) + 1
                             /\ hit(c, ((n - 1) % Slots) + 1)
    BY <1>7, <1>8, <1>13
  <2>2. ((n - 1) % Slots) + 1 \in 1 .. Slots
    BY <1>13, Within
  <2>3. r.v.slots[c][((n - 1) % Slots) + 1] = Text
    BY <2>1, <2>2, <1>9
  <2> QED BY <2>1, <2>3
<1>14. Copies(v, own, rank, h, from, to, r)
  BY <1>8, <1>9, <1>10, <1>11, <1>12, <1>13, <1>17 DEF Copies
<1>15. CASE to = from
  <2>1. writeData(v, f, h, from, to) = [v |-> v, status |-> "ok"]
    BY <1>15 DEF writeData
  <2>2. \A n \in Nat : ~(from < n /\ n <= to)
    BY <1>15
  <2> DEFINE x == [v |-> v, status |-> "ok"]
  <2>3. x.v = v /\ x.status = "ok"
    OBVIOUS
  <2> HIDE DEF x
  <2>4. Copies(v, own, rank, h, from, to, x)
    BY <2>2, <2>3 DEF Copies
  <2> QED BY <2>1, <2>4 DEF x
<1>16. CASE to # from
  <2>1. writeData(v, f, h, from, to) = r
    BY <1>16, Zenon DEF writeData, r, chain
  <2> QED BY <2>1, <1>14
<1> QED BY <1>15, <1>16

LEMMA GrowNone ==
  ASSUME NEW v \in Volume, NEW f, NEW c \in Cluster
  PROVE  GrowFrom(v, f, c, 0) = GrowStart(v, c)
  BY GrowUnfolds DEF GrowRun

\* A chain for a text of a line: one cluster, or none for the empty text.
LEMMA EnsureNew ==
  ASSUME NEW v \in Volume, NEW f, Working(f), NEW n \in Nat, n <= Slots
  PROVE  LET new   == allocateCluster(v, f)
             chain == ensureChainSize(v, f, none, n)
         IN  /\ n = 0 => chain.v = v /\ chain.status = "ok" /\ chain.first = none
             /\ n # 0 /\ new.status # "ok" => chain.v = v /\ chain.status # "ok"
             /\ n # 0 /\ new.status = "ok" =>
                  chain.v = new.v /\ chain.status = "ok" /\ chain.first = new.cluster
<1> DEFINE new == allocateCluster(v, f)
           chain == ensureChainSize(v, f, none, n)
<1>1. Grants(v, new)
  BY AllocateSpec
<1> HIDE DEF new
<1>2. CASE n = 0
  BY <1>2 DEF ensureChainSize
<1>3. CASE n # 0
  <2>1. chain = NewChain(f, new, n)
    BY <1>3, Zenon DEF ensureChainSize, new
  <2>2. CASE new.status # "ok"
    <3>1. new.v = v
      BY <1>1, <2>2 DEF Grants
    <3> QED BY <1>3, <2>1, <2>2, <3>1 DEF NewChain, Chained, new
  <2>3. CASE new.status = "ok"
    <3>1. new.v \in Volume /\ new.cluster \in Cluster
      BY <1>1, <2>3 DEF Grants
    <3>2. ClustersFor(n) - 1 = 0
      BY <1>3, OneCluster
    <3>3. GrowFrom(new.v, f, new.cluster, ClustersFor(n) - 1) = GrowStart(new.v, new.cluster)
      BY <3>1, <3>2, GrowNone
    <3>4. NewChain(f, new, n) = Chained(GrowStart(new.v, new.cluster), new.cluster)
      BY <2>3, <3>3, Zenon DEF NewChain
    <3> QED BY <1>3, <2>1, <2>3, <3>4 DEF Chained, GrowStart, new
  <2> QED BY <2>2, <2>3
<1> QED BY <1>2, <1>3

\* A new chain that holds a text: nothing else has changed.
LEMMA TextWhole ==
  ASSUME NEW v \in Volume, NEW own, NEW rank, NEW D, NEW sc, NEW si,
         Whole(v, own, rank, D, sc, si), Written(v, own, rank, D, sc, si),
         NEW y, Fresh(v, own, D, sc, si, y), NEW n, NEW r, Copies(v, own, rank, y, 0, n, r)
  PROVE  /\ Whole(r.v, own, rank, D, sc, si) /\ Written(r.v, own, rank, D, sc, si)
         /\ Stays(v, own, D, r.v, own, D)
         /\ Fresh(r.v, own, D, sc, si, y)
         /\ r.status = "ok" => Holds(r.v, own, rank, y, n)
<1>1. /\ r.status \in {"ok", "ioError"} /\ r.v \in Volume /\ r.v.fat = v.fat
      /\ \A c \in Cluster : own[c] # y => r.v.slots[c] = v.slots[c]
      /\ \A c \in Cluster, i \in 1 .. Slots : v.slots[c][i] = Text => r.v.slots[c][i] = Text
  BY DEF Copies
<1>2. \A c \in Cluster : own[c] \in D => r.v.slots[c] = v.slots[c]
  BY <1>1 DEF Fresh
<1>3. Whole(r.v, own, rank, D, sc, si)
  BY <1>1, <1>2, Framed
<1>4. ASSUME NEW c \in Cluster, NEW m \in Nat, 1 <= m, v.slots[c][((m - 1) % Slots) + 1] = Text
      PROVE  r.v.slots[c][((m - 1) % Slots) + 1] = Text
  <2>1. ((m - 1) % Slots) + 1 \in 1 .. Slots
    BY <1>4, Within
  <2> QED BY <2>1, <1>1, <1>4
<1>5. Written(r.v, own, rank, D, sc, si) /\ Stays(v, own, D, r.v, own, D)
  BY <1>2, <1>4, WrittenFramed
<1>6. Fresh(r.v, own, D, sc, si, y)
  BY <1>1, <1>2, FreshFramed
<1>7. r.status = "ok" => Holds(r.v, own, rank, y, n)
  BY DEF Copies, Holds
<1> QED BY <1>3, <1>5, <1>6, <1>7

\* writeFile for a name that the directory does not have.
LEMMA WriteNewSpec ==
  ASSUME NEW v, NEW own, NEW rank, NEW D, Good(v, own, rank, D, none, 0),
         NEW f, Working(f), NEW d \in D, NEW name \in Names, NEW n \in 0 .. MaxSize, n <= Slots
  PROVE  Grew(v, own, D, WriteNew(f, d, name, n, ensureChainSize(v, f, none, n)).v)
<1> DEFINE new == allocateCluster(v, f)
           chain == ensureChainSize(v, f, none, n)
           y == chain.first
           written == writeData(chain.v, f, y, 0, n)
           e == Entry(name, FALSE, y, n)
           r == WriteNew(f, d, name, n, chain)
           made == createEntry(written.v, f, d, e)
<1>0. n \in Nat
  BY Bounds
<1>1. v \in Volume /\ Whole(v, own, rank, D, none, 0) /\ Written(v, own, rank, D, none, 0)
      /\ Dotted(v, own, D, none, 0) /\ Tiled(v, own, rank)
  BY DEF Good, Whole
<1>2. Grants(v, new)
  BY <1>1, AllocateSpec
<1>3. /\ n = 0 => chain.v = v /\ chain.status = "ok" /\ y = none
      /\ n # 0 /\ new.status # "ok" => chain.v = v /\ chain.status # "ok"
      /\ n # 0 /\ new.status = "ok" => chain.v = new.v /\ chain.status = "ok" /\ y = new.cluster
  BY <1>0, <1>1, EnsureNew
<1>4. r = IF chain.status # "ok" THEN Done(chain.v, chain.status)
          ELSE IF written.status # "ok" THEN Done(freeChain(written.v, f, y), written.status)
          ELSE made
  BY Zenon DEF WriteNew, NameText
<1>5. ASSUME y \in {none} \cup Cluster
      PROVE  e \in Stored /\ e.kind = "entry" /\ e.name = name /\ ~e.dir /\ e.first = y /\ e.size = n
  <2>1. e \in Stored
    BY <1>5, EntryStored
  <2> QED BY <2>1 DEF Entry
<1>6. none \notin D
  BY <1>1, Sizes DEF Dotted
<1> HIDE DEF new, chain, written, r, e, made
<1>7. CASE n = 0
  <2>1. written.v = v /\ written.status = "ok"
    BY <1>3, <1>7 DEF writeData, written
  <2>2. Enters(v, own, rank, D, d, e)
    <3>1. Holds(v, own, rank, none, 0)
      BY DEF Holds
    <3> QED BY <3>1, <1>3, <1>5, <1>7 DEF Enters
  <2>3. /\ made.status # "ok" => made.v = v
        /\ made.status = "ok" => Grew(v, own, D, made.v)
    <3>1. made = createEntry(v, f, d, e)
      BY <2>1 DEF made
    <3> QED BY <1>1, <2>2, <3>1, CreateSpec
  <2>4. r = made
    BY <1>3, <1>4, <1>7, <2>1
  <2> QED BY <2>3, <2>4, GrewSelf DEF r, chain
<1>8. CASE n # 0 /\ new.status # "ok"
  <2>1. r.v = v
    BY <1>3, <1>4, <1>8 DEF Done
  <2> QED BY <2>1, GrewSelf DEF r, chain
<1>9. CASE n # 0 /\ new.status = "ok"
  <2>1. PICK own2, rank2 :
           /\ Whole(new.v, own2, rank2, D, none, 0)
           /\ Kept(v, own, rank, new.v, own2, rank2, y)
           /\ Fresh(new.v, own2, D, none, 0, y)
           /\ rank2[y] = 1
    BY <1>1, <1>2, <1>3, <1>9, AllocatedWhole
  <2>2. Written(new.v, own2, rank2, D, none, 0) /\ Stays(v, own, D, new.v, own2, D)
    BY <1>1, <1>6, <2>1, WrittenGrown
  <2>3. /\ y \in Cluster /\ new.v \in Volume /\ own2[y] = y
        /\ \A b \in Cluster : own2[b] = y => b = y
        /\ Tiled(new.v, own2, rank2)
    BY <2>1 DEF Fresh, Whole
  <2>4. Copies(new.v, own2, rank2, y, 0, n, written)
    BY <1>0, <1>3, <1>9, <2>3, CopySpec DEF written
  <2>5. /\ Whole(written.v, own2, rank2, D, none, 0) /\ Written(written.v, own2, rank2, D, none, 0)
        /\ Stays(new.v, own2, D, written.v, own2, D)
        /\ Fresh(written.v, own2, D, none, 0, y)
        /\ written.status = "ok" => Holds(written.v, own2, rank2, y, n)
    BY <2>1, <2>2, <2>3, <2>4, TextWhole
  <2>6. Good(written.v, own2, rank2, D, none, 0) /\ Stays(v, own, D, written.v, own2, D)
    BY <2>2, <2>5, StaysOn DEF Good
  <2>7. CASE written.status # "ok"
    <3>1. r.v = freeChain(written.v, f, y)
      BY <1>3, <1>4, <1>9, <2>7 DEF Done
    <3>2. \A b \in Cluster : b # y => written.v.slots[b] = v.slots[b]
      <4>1. ASSUME NEW b \in Cluster, b # y PROVE written.v.slots[b] = v.slots[b]
        <5>1. written.v.slots[b] = new.v.slots[b]
          BY <2>3, <2>4, <4>1 DEF Copies
        <5> QED BY <5>1, <4>1, <1>2, <1>3, <1>9 DEF Grants
      <4> QED BY <4>1
    <3>3. Tiled(written.v, own2, rank2) /\ written.v \in Volume /\ written.v.fat = new.v.fat
      BY <2>4, <2>5 DEF Whole, Copies
    <3>4. Grew(v, own, D, freeChain(written.v, f, new.cluster))
      BY <1>2, <1>3, <1>9, <2>3, <3>2, <3>3, Released
    <3> QED BY <3>1, <3>4, <1>3, <1>9 DEF r, chain
  <2>8. CASE written.status = "ok"
    <3>1. r = made
      BY <1>3, <1>4, <1>9, <2>8
    <3>2. Enters(written.v, own2, rank2, D, d, e)
      BY <1>5, <2>3, <2>5, <2>8 DEF Enters
    <3>3. /\ made.status # "ok" => made.v = written.v
          /\ made.status = "ok" => Grew(written.v, own2, D, made.v)
      <4>1. made = createEntry(written.v, f, d, e)
        BY DEF made
      <4>2. written.v \in Volume
        BY <2>4 DEF Copies
      <4> QED BY <2>6, <3>2, <4>1, <4>2, CreateSpec
    <3>4. Grew(written.v, own2, D, made.v)
      BY <3>3, <2>6, GrewSelf
    <3>5. Grew(v, own, D, made.v)
      BY <3>4, <2>6, GrewOn
    <3> QED BY <3>1, <3>5 DEF r, chain
  <2> QED BY <2>7, <2>8
<1> QED BY <1>7, <1>8, <1>9

--------------------------------------------------------------------------------
(* Files that get another text *)

LEMMA KeptOn ==
  ASSUME NEW v, NEW own, NEW rank, NEW w, NEW own2, NEW rank2, NEW h, h # none,
         Kept(v, own, rank, w, own2, rank2, h),
         NEW u, NEW own3, NEW rank3, Kept(w, own2, rank2, u, own3, rank3, h)
  PROVE  Kept(v, own, rank, u, own3, rank3, h)
<1>1. ASSUME NEW c \in Cluster, own[c] # none
      PROVE  /\ own3[c] = own[c] /\ rank3[c] = rank[c] /\ u.slots[c] = v.slots[c]
             /\ own[c] # h => u.fat[c] = v.fat[c]
  <2>1. /\ own2[c] = own[c] /\ rank2[c] = rank[c] /\ w.slots[c] = v.slots[c]
        /\ own[c] # h => w.fat[c] = v.fat[c]
    BY <1>1 DEF Kept
  <2>2. /\ own3[c] = own2[c] /\ rank3[c] = rank2[c] /\ u.slots[c] = w.slots[c]
        /\ own2[c] # h => u.fat[c] = w.fat[c]
    BY <2>1, <1>1 DEF Kept
  <2> QED BY <2>1, <2>2
<1>2. ASSUME NEW c \in Cluster, own[c] = none
      PROVE  /\ own3[c] \in {none, h}
             /\ own3[c] = h => \A i \in 1 .. Slots : u.slots[c][i].kind = "end"
  <2>1. /\ own2[c] \in {none, h}
        /\ own2[c] = h => \A i \in 1 .. Slots : w.slots[c][i].kind = "end"
    BY <1>2 DEF Kept
  <2>2. CASE own2[c] = none
    BY <2>2 DEF Kept
  <2>3. CASE own2[c] = h
    <3>1. own3[c] = h /\ u.slots[c] = w.slots[c]
      BY <2>3 DEF Kept
    <3> QED BY <3>1, <2>1, <2>3
  <2> QED BY <2>1, <2>2, <2>3
<1> QED BY <1>1, <1>2 DEF Kept

\* A chain on its way to grow: at is one of its clusters.
Grown(v, own, rank, D, h, g) ==
  \E own2, rank2 :
    /\ Whole(g.v, own2, rank2, D, none, 0)
    /\ Kept(v, own, rank, g.v, own2, rank2, h)
    /\ own2[g.at] = h

LEMMA GrowStepSpec ==
  ASSUME NEW v, NEW own, NEW rank, NEW D, NEW h, h # none, NEW f, Working(f),
         NEW g \in GrowSet, Grown(v, own, rank, D, h, g)
  PROVE  Grown(v, own, rank, D, h, GrowStep(f, g))
<1> DEFINE new == allocateCluster(g.v, f)
           next == nextCluster(g.v, f, g.at)
           w == writeFat(writeFat(new.v, f, g.at, new.cluster), f, new.cluster, endOfChain)
           g2 == GrowStep(f, g)
<1>1. g.v \in Volume /\ g.at \in Cluster
  BY DEF GrowSet
<1>2. PICK own2, rank2 :
        /\ Whole(g.v, own2, rank2, D, none, 0)
        /\ Kept(v, own, rank, g.v, own2, rank2, h)
        /\ own2[g.at] = h
  BY DEF Grown
<1>3. Tiled(g.v, own2, rank2)
  BY <1>2 DEF Whole
<1>4. Grants(g.v, new)
  BY <1>1, AllocateSpec
<1>5. /\ g.v.fat[g.at] \in Cluster => next = g.v.fat[g.at]
      /\ g.v.fat[g.at] \in Cluster \/ g.v.fat[g.at] = endOfChain
      /\ next = none <=> g.v.fat[g.at] = endOfChain
  BY <1>1, <1>2, <1>3, NextHealthy
<1>6. g2 = IF g.status # "ok" THEN g
           ELSE IF next # none THEN [g EXCEPT !.at = next]
           ELSE Appended(f, g, new)
  BY Zenon DEF GrowStep
<1>7. Appended(f, g, new) =
        IF new.status # "ok" THEN [g EXCEPT !.v = new.v, !.status = new.status]
        ELSE [g EXCEPT !.v = w, !.at = new.cluster]
  BY Zenon DEF Appended
<1> HIDE DEF new, next, g2
<1>8. CASE g.status # "ok"
  BY <1>6, <1>8 DEF g2
<1>9. CASE g.status = "ok" /\ next # none
  <2>1. g2.v = g.v /\ g2.at = next
    BY <1>6, <1>9 DEF GrowSet
  <2>2. own2[next] = h
    BY <1>1, <1>2, <1>3, <1>5, <1>9, TileFacts
  <2>3. Grown(v, own, rank, D, h, g2)
    BY <2>1, <2>2, <1>2 DEF Grown
  <2> QED BY <2>3 DEF g2
<1>10. CASE g.status = "ok" /\ next = none /\ new.status # "ok"
  <2>1. new.v = g.v
    BY <1>4, <1>10 DEF Grants
  <2>2. g2.v = g.v /\ g2.at = g.at
    BY <2>1, <1>6, <1>7, <1>10 DEF GrowSet
  <2>3. Grown(v, own, rank, D, h, g2)
    BY <2>2, <1>2 DEF Grown
  <2> QED BY <2>3 DEF g2
<1>11. CASE g.status = "ok" /\ next = none /\ new.status = "ok"
  <2> HIDE DEF w
  <2>1. g2.v = w /\ g2.at = new.cluster
    BY <1>6, <1>7, <1>11 DEF GrowSet
  <2>2. PICK own3, rank3 :
           /\ w \in Volume /\ Whole(w, own3, rank3, D, none, 0)
           /\ Kept(g.v, own2, rank2, w, own3, rank3, own2[g.at])
           /\ own3[new.cluster] = own2[g.at] /\ rank3[new.cluster] = rank2[g.at] + 1
           /\ w.fat[g.at] = new.cluster /\ w.fat[new.cluster] = endOfChain
           /\ \A b \in Cluster : w.fat[b] = new.cluster => b = g.at
           /\ \A i \in 1 .. Slots : w.slots[new.cluster][i] = End
    <3>1. own2[g.at] # none /\ g.v.fat[g.at] = endOfChain
      BY <1>2, <1>5, <1>11
    <3>2. w = writeFat(writeFat(new.v, f, g.at, new.cluster), f, new.cluster, endOfChain)
      BY DEF w
    <3> QED BY <3>1, <3>2, <1>1, <1>2, <1>4, <1>11, GrownWhole
  <2>3. Kept(v, own, rank, w, own3, rank3, h)
    BY <2>2, <1>2, KeptOn
  <2>4. Grown(v, own, rank, D, h, g2)
    BY <2>1, <2>2, <2>3, <1>2 DEF Grown
  <2> QED BY <2>4 DEF g2
<1> QED BY <1>8, <1>9, <1>10, <1>11

\* ensureChainSize lets a chain grow, and touches nothing else.
LEMMA GrowSpec ==
  ASSUME NEW v \in Volume, NEW own, NEW rank, NEW D, Whole(v, own, rank, D, none, 0),
         NEW f, Working(f), NEW h \in Cluster, own[h] = h, NEW n \in Nat
  PROVE  GrowFrom(v, f, h, n) \in GrowSet /\ Grown(v, own, rank, D, h, GrowFrom(v, f, h, n))
<1>0. h # none
  BY Sizes
<1>1. PICK at : /\ GrowRun(v, f, h, at, n)
                /\ \A k \in Nat : k <= n => at[k] \in GrowSet
                /\ GrowFrom(v, f, h, n) = at[n]
  BY GrowUnfolds
<1>2. Grown(v, own, rank, D, h, GrowStart(v, h))
  <2>1. Kept(v, own, rank, v, own, rank, h)
    BY <1>0 DEF Kept
  <2>2. GrowStart(v, h).v = v /\ GrowStart(v, h).at = h
    BY DEF GrowStart
  <2> QED BY <2>1, <2>2 DEF Grown
<1> DEFINE T == {k \in Nat : k <= n => Grown(v, own, rank, D, h, at[k])}
<1>3. T = Nat
  <2>1. 0 \in T
    BY <1>1, <1>2 DEF GrowRun
  <2>2. ASSUME NEW k \in T PROVE k + 1 \in T
    <3>1. k \in Nat /\ k + 1 \in Nat
      OBVIOUS
    <3>2. CASE k + 1 <= n
      <4>1. k <= n /\ k + 1 - 1 = k /\ 1 <= k + 1 /\ at[k] \in GrowSet
        BY <3>1, <3>2, <1>1
      <4>2. at[k + 1] = IF k + 1 = 1 THEN GrowStart(v, h) ELSE GrowStep(f, at[k])
        BY <4>1, <3>1, <3>2, <1>1 DEF GrowRun
      <4>3. Grown(v, own, rank, D, h, at[k])
        BY <4>1
      <4>4. Grown(v, own, rank, D, h, at[k + 1])
        BY <4>1, <4>2, <4>3, <1>0, <1>2, GrowStepSpec
      <4> QED BY <3>1, <4>4
    <3>3. CASE ~(k + 1 <= n)
      BY <3>1, <3>3
    <3> QED BY <3>2, <3>3
  <2>3. T \in SUBSET Nat
    OBVIOUS
  <2> HIDE DEF T
  <2> QED BY <2>1, <2>2, <2>3, HandedOn
<1>4. n \in T
  <2> HIDE DEF T
  <2> QED BY <1>3
<1> QED BY <1>1, <1>4

\* The entry of a file is rewritten: another chain that holds a text, or none.
\* A chain that no entry leads to but the one at c, i.
Unclaimed(v, own, D, c, i, h) ==
  h # none => /\ own[h] = h /\ h # rootCluster /\ h \notin D
              /\ \A b \in Cluster, j \in 1 .. Slots :
                   Counts(v, own, D, c, i, b, j) => v.slots[b][j].first # h

LEMMA Updated ==
  ASSUME NEW v, NEW own, NEW rank, NEW D, NEW c \in Cluster, NEW i \in 1 .. Slots,
         Whole(v, own, rank, D, c, i), Written(v, own, rank, D, c, i), own[c] \in D,
         NEW e, e = v.slots[c][i], IsChild(e), ~e.dir,
         NEW h \in {none} \cup Cluster, NEW size \in 0 .. MaxSize, Holds(v, own, rank, h, size),
         Unclaimed(v, own, D, c, i, h)
  PROVE  Grew(v, own, D, [v EXCEPT !.slots[c][i] = [e EXCEPT !.first = h, !.size = size]])
<1> DEFINE x == [e EXCEPT !.first = h, !.size = size]
           w == [v EXCEPT !.slots[c][i] = x]
<1>1. /\ v \in Volume /\ Unique(v, own, D) /\ Dotted(v, own, D, c, i)
      /\ Ready(v, own, rank, D, c, i, none)
  BY WholeIsReady DEF Whole
<1>2. e \in Stored /\ e.kind = "entry" /\ e.name \in Names
  <2>1. e \in Stored
    BY <1>1 DEF Volume, Row
  <2> QED BY <2>1, Slotted DEF IsChild
<1>3. x \in Stored /\ x.kind = "entry" /\ x.name = e.name /\ x.dir = e.dir /\ x.first = h /\ x.size = size
  <2>1. Changed(e, h, size, x)
    BY <1>2, EntryChanged
  <2> HIDE DEF x
  <2> QED BY <2>1 DEF Changed
<1> HIDE DEF x
<1>4. Fits(v, own, D, c, i, x, none)
  <2>1. ASSUME NEW b \in Cluster, NEW j \in 1 .. Slots,
               own[b] = own[c], v.slots[b][j].kind = "entry", v.slots[b][j].name = x.name
        PROVE  b = c /\ j = i
    BY <2>1, <1>1, <1>2, <1>3 DEF Unique
  <2>2. x.first # none =>
            /\ own[x.first] = x.first /\ x.first # rootCluster /\ (x.first \in D <=> x.dir)
            /\ \A b \in Cluster, j \in 1 .. Slots :
                 Counts(v, own, D, c, i, b, j) => v.slots[b][j].first # x.first
    BY <1>3 DEF Unclaimed
  <2> QED BY <2>1, <2>2, <1>2, <1>3 DEF Fits
<1>5. Whole(w, own, rank, D, none, 0)
  BY <1>1, <1>2, <1>4, Rewritten DEF IsChild
<1>6. Written(w, own, rank, D, none, 0)
  BY <1>1, <1>3, WrittenAnew
<1>7. Stays(v, own, D, w, own, D)
  BY <1>1, StaysAnew
<1>8. Grew(v, own, D, w)
  BY <1>5, <1>6, <1>7 DEF Grew, Good
<1> QED BY <1>8 DEF x

\* What findEntry has found: an entry of a directory, and no dot entry.
Picks(v, own, D, found) ==
  /\ found.status = "ok" /\ found.pos.cluster \in Cluster /\ found.pos.index \in 1 .. Slots
  /\ own[found.pos.cluster] \in D
  /\ found.entry = v.slots[found.pos.cluster][found.pos.index] /\ IsChild(found.entry)

Puts(v, pos, x, r) == r.v = [v EXCEPT !.slots[pos.cluster][pos.index] = x] /\ r.status = "ok"

LEMMA WriteEntryWorks ==
  ASSUME NEW v, NEW f, Working(f), NEW pos, pos.cluster \in Cluster, NEW x
  PROVE  Puts(v, pos, x, writeEntry(v, f, pos, x))
<1>1. pos.cluster # Unreadable(f)
  BY Sizes DEF Unreadable, Working
<1> QED BY <1>1 DEF writeEntry, Puts

\* No space for the new text of a file.
LEMMA RenewFull ==
  ASSUME NEW v \in Volume, NEW f, Working(f), NEW n \in 0 .. MaxSize, n <= Slots,
         n # 0, allocateCluster(v, f).status # "ok", NEW found
  PROVE  WriteOld(f, found, 0, n, ensureChainSize(v, f, none, n)).v = v
<1> DEFINE chain == ensureChainSize(v, f, none, n)
<1>1. n \in Nat
  BY Bounds
<1>2. chain.v = v /\ chain.status # "ok"
  BY <1>1, EnsureNew
<1> HIDE DEF chain
<1>3. WriteOld(f, found, 0, n, chain) = Done(chain.v, chain.status)
  BY <1>2, Zenon DEF WriteOld
<1> QED BY <1>2, <1>3 DEF Done, chain

\* A file gets a new chain, or none for the empty text.
LEMMA RenewSpec ==
  ASSUME NEW v, NEW own, NEW rank, NEW D, NEW found, Picks(v, own, D, found), ~found.entry.dir,
         Whole(v, own, rank, D, found.pos.cluster, found.pos.index),
         Written(v, own, rank, D, found.pos.cluster, found.pos.index),
         NEW f, Working(f), NEW n \in 0 .. MaxSize, n <= Slots,
         n # 0 => allocateCluster(v, f).status = "ok"
  PROVE  Grew(v, own, D, WriteOld(f, found, 0, n, ensureChainSize(v, f, none, n)).v)
<1> DEFINE new == allocateCluster(v, f)
           chain == ensureChainSize(v, f, none, n)
           y == chain.first
           written == writeData(chain.v, f, y, 0, n)
           c == found.pos.cluster
           i == found.pos.index
           x == [found.entry EXCEPT !.first = y, !.size = n]
           put == writeEntry(written.v, f, found.pos, x)
           r == WriteOld(f, found, 0, n, chain)
<1>0. n \in Nat
  BY Bounds
<1>1. v \in Volume /\ Dotted(v, own, D, c, i) /\ Tiled(v, own, rank) /\ Named(v, own, D, c, i)
  BY DEF Whole
<1>2. Grants(v, new)
  BY <1>1, AllocateSpec
<1>3. /\ n = 0 => chain.v = v /\ chain.status = "ok" /\ y = none
      /\ n # 0 => chain.v = new.v /\ chain.status = "ok" /\ y = new.cluster
  BY <1>0, <1>1, EnsureNew
<1>4. chain.status = "ok" /\ written.status = "ok" => r = put
  BY Zenon DEF WriteOld, UpdateEntry
<1>5. /\ c \in Cluster /\ i \in 1 .. Slots /\ own[c] \in D /\ found.pos.cluster \in Cluster
      /\ found.entry = v.slots[c][i] /\ IsChild(found.entry)
  BY DEF Picks
<1>6. none \notin D /\ none \notin Cluster
  BY <1>1, Sizes DEF Dotted
<1> HIDE DEF written, x
<1>7. put.v = [written.v EXCEPT !.slots[c][i] = x]
  <2>1. Puts(written.v, found.pos, x, put)
    BY <1>5, WriteEntryWorks
  <2> HIDE DEF put
  <2> QED BY <2>1 DEF Puts
<1> HIDE DEF new, chain, written, r, put, c, i
<1>8. CASE n = 0
  <2>1. written.v = v /\ written.status = "ok"
    BY <1>3, <1>8 DEF writeData, written
  <2>2. Holds(v, own, rank, none, 0) /\ Unclaimed(v, own, D, c, i, none)
    <3>1. Unclaimed(v, own, D, c, i, none)
      BY Zenon DEF Unclaimed
    <3> QED BY <3>1, HoldsNothing, Zenon
  <2>3. Grew(v, own, D, [v EXCEPT !.slots[c][i] = [found.entry EXCEPT !.first = none, !.size = 0]])
    <3>1. 0 \in 0 .. MaxSize
      BY <1>8
    <3>2. none \in {none} \cup Cluster
      OBVIOUS
    <3>3. c \in Cluster /\ i \in 1 .. Slots /\ Whole(v, own, rank, D, c, i) /\ Written(v, own, rank, D, c, i)
      BY <1>5 DEF c, i
    <3> QED BY <2>2, <3>1, <3>2, <3>3, <1>5, Updated
  <2>4. r.v = [v EXCEPT !.slots[c][i] = [found.entry EXCEPT !.first = none, !.size = 0]]
    BY <1>3, <1>4, <1>7, <1>8, <2>1 DEF x
  <2> QED BY <2>3, <2>4 DEF r, chain
<1>9. CASE n # 0
  <2>0. y = new.cluster /\ new.status = "ok" /\ chain.v = new.v /\ chain.status = "ok"
    BY <1>3, <1>9 DEF new
  <2> HIDE DEF y
  <2>1. PICK own2, rank2 :
           /\ Whole(new.v, own2, rank2, D, c, i)
           /\ Kept(v, own, rank, new.v, own2, rank2, y)
           /\ Fresh(new.v, own2, D, c, i, y)
           /\ rank2[y] = 1
    BY <1>1, <1>2, <2>0, AllocatedWhole DEF c, i
  <2>2. Written(new.v, own2, rank2, D, c, i) /\ Stays(v, own, D, new.v, own2, D)
    BY <1>6, <2>1, WrittenGrown DEF c, i
  <2>3. /\ y \in Cluster /\ new.v \in Volume /\ own2[y] = y /\ y \notin D
        /\ Tiled(new.v, own2, rank2)
    BY <2>1 DEF Fresh, Whole
  <2>4. Copies(new.v, own2, rank2, y, 0, n, written)
    BY <1>0, <2>0, <2>3, CopySpec DEF written
  <2>5. written.status = "ok"
    BY <1>0, <1>6, <1>9, <2>3, <2>4 DEF Copies
  <2>6. /\ Whole(written.v, own2, rank2, D, c, i) /\ Written(written.v, own2, rank2, D, c, i)
        /\ Stays(new.v, own2, D, written.v, own2, D)
        /\ Fresh(written.v, own2, D, c, i, y)
        /\ Holds(written.v, own2, rank2, y, n)
    BY <2>1, <2>2, <2>3, <2>4, <2>5, TextWhole
  <2>7. own2[c] = own[c] /\ written.v.slots[c] = v.slots[c]
    <3>1. own[c] # none
      BY <1>5, <1>6
    <3>2. own2[c] = own[c] /\ new.v.slots[c] = v.slots[c]
      BY <3>1, <1>5, <2>1 DEF Kept
    <3> QED BY <3>2, <1>5, <2>3, <2>4 DEF Copies
  <2>8. y \in {none} \cup Cluster /\ Unclaimed(written.v, own2, D, c, i, y)
    <3>1. rootCluster \in D
      BY <1>1, Zenon, ZenonT(40) DEF Dotted
    <3> QED BY <3>1, <2>6 DEF Fresh, Unclaimed
  <2>9. Grew(written.v, own2, D, [written.v EXCEPT !.slots[c][i] = [found.entry EXCEPT !.first = y, !.size = n]])
    <3>1. found.entry = written.v.slots[c][i] /\ own2[c] \in D
      BY <2>7, <1>5
    <3> QED BY <3>1, <1>5, <2>6, <2>8, Updated
  <2>10. r.v = [written.v EXCEPT !.slots[c][i] = [found.entry EXCEPT !.first = y, !.size = n]]
    BY <1>4, <1>7, <2>0, <2>5 DEF x
  <2>11. Stays(v, own, D, written.v, own2, D)
    BY <2>2, <2>6, StaysOn
  <2>12. Grew(v, own, D, r.v)
    BY <2>9, <2>10, <2>11, GrewOn
  <2> QED BY <2>12 DEF r, chain
<1> QED BY <1>8, <1>9

\* An entry that is to be rewritten need not hold its text.
LEMMA WrittenBut ==
  ASSUME NEW v, NEW own, NEW rank, NEW D, Written(v, own, rank, D, none, 0), NEW c \in Cluster, NEW i
  PROVE  Written(v, own, rank, D, c, i)
<1>1. \A b \in Cluster, j \in 1 .. Slots :
        Counts(v, own, D, c, i, b, j) => Counts(v, own, D, none, 0, b, j)
  BY Sizes DEF Counts
<1> QED BY <1>1 DEF Written

\* What the entry of a file leads to.
LEMMA PickedFile ==
  ASSUME NEW v, NEW own, NEW rank, NEW D, Good(v, own, rank, D, none, 0),
         NEW found, Picks(v, own, D, found), ~found.entry.dir
  PROVE  LET c == found.pos.cluster
             i == found.pos.index
             h == found.entry.first
         IN  /\ h \in {none} \cup Cluster /\ found.entry.size \in 0 .. MaxSize
             /\ Holds(v, own, rank, h, found.entry.size)
             /\ h # none => own[h] = h /\ h # rootCluster /\ h \notin D
             /\ h # none => \A b \in Cluster, j \in 1 .. Slots :
                               Counts(v, own, D, c, i, b, j) => v.slots[b][j].first # h
<1> DEFINE c == found.pos.cluster
           i == found.pos.index
           h == found.entry.first
<1>1. /\ c \in Cluster /\ i \in 1 .. Slots /\ own[c] \in D /\ found.entry = v.slots[c][i]
      /\ IsChild(found.entry)
  BY DEF Picks
<1>2. v \in Volume /\ Named(v, own, D, none, 0) /\ Written(v, own, rank, D, none, 0)
  BY DEF Good, Whole
<1>3. found.entry \in Stored /\ found.entry.kind = "entry"
  <2>1. v.slots[c][i] \in Stored
    BY <1>1, <1>2 DEF Volume, Row
  <2> QED BY <2>1, <1>1 DEF IsChild
<1>4. h \in {none} \cup Cluster /\ found.entry.size \in 0 .. MaxSize
  BY <1>3, Slotted
<1> HIDE DEF c, i
<1>5. Counts(v, own, D, none, 0, c, i)
  BY <1>1, Sizes DEF Counts, Lists
<1>6. Holds(v, own, rank, h, found.entry.size)
  BY <1>1, <1>2, <1>5 DEF Written
<1>7. h # none => own[h] = h /\ h # rootCluster /\ h \notin D
  BY <1>1, <1>2, <1>5 DEF Named
<1>8. ASSUME h # none, NEW b \in Cluster, NEW j \in 1 .. Slots, Counts(v, own, D, c, i, b, j)
      PROVE  v.slots[b][j].first # h
  <2>1. Counts(v, own, D, none, 0, b, j) /\ ~(b = c /\ j = i)
    BY <1>8, Sizes DEF Counts
  <2> QED BY <2>1, <1>1, <1>2, <1>5, <1>8 DEF Named
<1> QED BY <1>4, <1>6, <1>7, <1>8 DEF c, i

\* writeFile over a file: its chain is released, and it gets a new one.
LEMMA OverwriteSpec ==
  ASSUME NEW v, NEW own, NEW rank, NEW D, Good(v, own, rank, D, none, 0),
         NEW found, Picks(v, own, D, found), ~found.entry.dir,
         NEW f, Working(f), NEW n \in 0 .. MaxSize, n <= Slots
  PROVE  Grew(v, own, D, WriteOld(f, found, 0, n,
                           ensureChainSize(freeChain(v, f, found.entry.first), f, none, n)).v)
<1> DEFINE c == found.pos.cluster
           i == found.pos.index
           h == found.entry.first
           u == freeChain(v, f, h)
           r == WriteOld(f, found, 0, n, ensureChainSize(u, f, none, n))
<1>1. /\ v \in Volume /\ Whole(v, own, rank, D, none, 0) /\ Written(v, own, rank, D, none, 0)
      /\ Tiled(v, own, rank) /\ Dotted(v, own, D, none, 0)
  BY Zenon DEF Good, Whole
<1>2. /\ c \in Cluster /\ i \in 1 .. Slots /\ own[c] \in D /\ found.entry = v.slots[c][i]
      /\ IsChild(found.entry)
  BY DEF Picks
<1>3. /\ h \in {none} \cup Cluster
      /\ h # none => own[h] = h /\ h # rootCluster /\ h \notin D
      /\ h # none => \A b \in Cluster, j \in 1 .. Slots :
                        Counts(v, own, D, c, i, b, j) => v.slots[b][j].first # h
  BY PickedFile
<1>4. none \notin D /\ none \notin Cluster
  BY <1>1, Sizes DEF Dotted
<1>5. h \notin D
  BY <1>3, <1>4
<1>6. /\ u \in Volume /\ u.slots = v.slots
      /\ \A b \in Cluster : u.fat[b] = IF h # none /\ own[b] = h THEN Free ELSE v.fat[b]
  BY <1>1, <1>3, FreeChainSpec
<1> HIDE DEF c, i, h, u, r
<1>7. PICK own2 :
        /\ Whole(u, own2, rank, D \ {h}, c, i)
        /\ \A b \in Cluster : own2[b] = IF own[b] = h THEN none ELSE own[b]
        /\ own[c] # h
  <2>1. Lists(v, own, D, c, i)
    BY <1>2 DEF Lists
  <2>2. h = v.slots[c][i].first /\ (v.slots[c][i].dir <=> h \in D)
    BY <1>2, <1>5 DEF h
  <2>3. Childless(v, own, D, h) /\ Frees(v, own, h, u)
    BY <1>5, <1>6 DEF Childless, Frees
  <2> QED BY <2>1, <2>2, <2>3, <1>1, <1>2, FreedWhole
<1>8. D \ {h} = D
  BY <1>5
<1>9. Whole(u, own2, rank, D, c, i)
  BY <1>7, <1>8
<1>10. \A b \in Cluster, j \in 1 .. Slots :
         /\ Lists(v, own, D, b, j) <=> Lists(u, own2, D, b, j)
         /\ Lists(v, own, D, b, j) => own2[b] = own[b]
  BY <1>4, <1>5, <1>6, <1>7 DEF Lists
<1>11. Written(u, own2, rank, D, c, i)
  <2> SUFFICES ASSUME NEW b \in Cluster, NEW j \in 1 .. Slots, Counts(u, own2, D, c, i, b, j), ~v.slots[b][j].dir
               PROVE  Holds(u, own2, rank, v.slots[b][j].first, v.slots[b][j].size)
    BY <1>6 DEF Written
  <2>1. Counts(v, own, D, none, 0, b, j) /\ Counts(v, own, D, c, i, b, j)
    BY <1>4, <1>10 DEF Counts
  <2> DEFINE g == v.slots[b][j].first
             m == v.slots[b][j].size
  <2>2. Holds(v, own, rank, g, m)
    BY <2>1, <1>1 DEF Written
  <2>3. g # none => g # h
    BY <2>1, <1>3
  <2> HIDE DEF g, m
  <2>4. Holds(u, own2, rank, g, m)
    <3> SUFFICES ASSUME NEW k \in Nat, 1 <= k, k <= m
                 PROVE  \E a \in Cluster : /\ own2[a] = g /\ g # none /\ rank[a] = ((k - 1) \div Slots) + 1
                                           /\ u.slots[a][((k - 1) % Slots) + 1] = Text
      BY DEF Holds
    <3>1. PICK a \in Cluster : /\ own[a] = g /\ g # none /\ rank[a] = ((k - 1) \div Slots) + 1
                               /\ v.slots[a][((k - 1) % Slots) + 1] = Text
      BY <2>2 DEF Holds
    <3>2. own2[a] = g
      BY <3>1, <2>3, <1>7
    <3> QED BY <3>1, <3>2, <1>6
  <2> QED BY <2>4 DEF g, m
<1>12. Stays(v, own, D, u, own2, D)
  BY <1>6, <1>10 DEF Stays
<1>13. CASE n # 0 => allocateCluster(u, f).status = "ok"
  <2>1. Picks(u, own2, D, found)
    BY <1>6, <1>7, <1>2 DEF Picks, c, i
  <2>2. Grew(u, own2, D, r.v)
    BY <1>9, <1>11, <1>13, <2>1, RenewSpec DEF r, c, i
  <2>3. Grew(v, own, D, r.v)
    BY <1>12, <2>2, GrewOn
  <2> QED BY <2>3, Zenon DEF r, u, h
<1>14. CASE n # 0 /\ allocateCluster(u, f).status # "ok"
  <2>1. r.v = u
    BY <1>6, <1>14, RenewFull DEF r
  <2>2. \A b \in Cluster : u.fat[b] # Free
    BY <1>6, <1>14, AllocateSpec DEF Grants
  <2>3. h = none
    BY <2>2, <1>3, <1>6
  <2>4. u.fat = v.fat
    <3>1. \A b \in Cluster : u.fat[b] = v.fat[b]
      BY <2>3, <1>6
    <3> QED BY <3>1, <1>1, <1>6 DEF Volume
  <2>5. Whole(u, own, rank, D, none, 0)
    BY <2>4, <1>1, <1>6, Framed
  <2>6. Written(u, own, rank, D, none, 0) /\ Stays(v, own, D, u, own, D)
    BY <1>1, <1>6, WrittenFramed
  <2>7. Grew(v, own, D, r.v)
    BY <2>1, <2>5, <2>6 DEF Grew, Good
  <2> QED BY <2>7 DEF r, u, h
<1> QED BY <1>13, <1>14

\* writeFile behind the text of a file.
LEMMA AppendSpec ==
  ASSUME NEW v, NEW own, NEW rank, NEW D, Good(v, own, rank, D, none, 0),
         NEW found, Picks(v, own, D, found), ~found.entry.dir,
         NEW f, Working(f), NEW n \in Nat, n <= Slots,
         NEW from, from = found.entry.size, NEW to \in 0 .. MaxSize, to = from + n
  PROVE  Grew(v, own, D, WriteOld(f, found, from, to, ensureChainSize(v, f, found.entry.first, to)).v)
<1> DEFINE c == found.pos.cluster
           i == found.pos.index
           h == found.entry.first
           chain == ensureChainSize(v, f, h, to)
           written == writeData(chain.v, f, chain.first, from, to)
           x == [found.entry EXCEPT !.first = chain.first, !.size = to]
           put == writeEntry(written.v, f, found.pos, x)
           r == WriteOld(f, found, from, to, chain)
<1>0. from \in Nat /\ to \in Nat
  BY PickedFile, Bounds
<1>1. /\ v \in Volume /\ Whole(v, own, rank, D, none, 0) /\ Written(v, own, rank, D, none, 0)
      /\ Tiled(v, own, rank) /\ Dotted(v, own, D, none, 0)
  BY Zenon, ZenonT(40) DEF Good, Whole
<1>2. /\ c \in Cluster /\ i \in 1 .. Slots /\ own[c] \in D /\ found.entry = v.slots[c][i]
      /\ IsChild(found.entry)
  BY DEF Picks
<1>3. /\ h \in {none} \cup Cluster /\ Holds(v, own, rank, h, from)
      /\ h # none => own[h] = h /\ h # rootCluster /\ h \notin D
      /\ h # none => \A b \in Cluster, j \in 1 .. Slots :
                        Counts(v, own, D, c, i, b, j) => v.slots[b][j].first # h
  BY PickedFile
<1>4. none \notin D /\ none \notin Cluster
  BY <1>1, Sizes DEF Dotted
<1>5. r = IF chain.status # "ok" THEN Done(chain.v, chain.status)
          ELSE IF written.status # "ok" THEN Done(written.v, written.status)
          ELSE put
  BY Zenon DEF WriteOld, UpdateEntry
<1> HIDE DEF written, x
<1>6. put.v = [written.v EXCEPT !.slots[c][i] = x]
  <2>1. Puts(written.v, found.pos, x, put)
    BY <1>2, WriteEntryWorks, Zenon, ZenonT(40)
  <2> HIDE DEF put
  <2> QED BY <2>1 DEF Puts
<1>7. Whole(v, own, rank, D, c, i) /\ Written(v, own, rank, D, c, i)
  BY <1>1, <1>2, Weakened, WrittenBut, Zenon
<1> HIDE DEF c, i, h, chain, put, r
<1>8. CASE to = 0
  <2>1. chain.v = v /\ chain.status = "ok" /\ chain.first = h
    BY <1>8 DEF chain, ensureChainSize
  <2>2. written.v = v /\ written.status = "ok"
    BY <1>0, <1>8, <2>1 DEF writeData, written
  <2>3. Holds(v, own, rank, h, 0) /\ Unclaimed(v, own, D, c, i, h)
    <3>1. Unclaimed(v, own, D, c, i, h)
      BY <1>3, Zenon, ZenonT(40) DEF Unclaimed
    <3> QED BY <3>1, HoldsNothing, Zenon
  <2>4. Grew(v, own, D, [v EXCEPT !.slots[c][i] = [found.entry EXCEPT !.first = h, !.size = 0]])
    <3>1. 0 \in 0 .. MaxSize
      BY <1>8
    <3> QED BY <2>3, <3>1, <1>2, <1>3, <1>7, Updated
  <2>5. r.v = [v EXCEPT !.slots[c][i] = [found.entry EXCEPT !.first = h, !.size = 0]]
    BY <2>1, <2>2, <1>5, <1>6, <1>8 DEF x
  <2> QED BY <2>4, <2>5 DEF r, chain, h
<1>9. CASE to # 0 /\ h = none
  <2>1. from = 0
    <3>1. ASSUME from >= 1 PROVE FALSE
      <4>1. 1 \in Nat /\ 1 <= 1 /\ 1 <= from
        BY <1>0, <3>1
      <4> QED BY <4>1, <1>3, <1>9 DEF Holds
    <3> QED BY <3>1, <1>0
  <2>2. n = to
    BY <2>1, <1>0
  <2>3. r = WriteOld(f, found, 0, n, ensureChainSize(v, f, none, n))
    BY <2>1, <2>2, <1>9 DEF r, chain
  <2>4. CASE allocateCluster(v, f).status = "ok"
    <3>1. Grew(v, own, D, r.v)
      BY <2>2, <2>3, <2>4, <1>7, RenewSpec DEF c, i
    <3> QED BY <3>1 DEF r, chain, h
  <2>5. CASE allocateCluster(v, f).status # "ok"
    <3>1. r.v = v
      BY <2>2, <2>3, <2>5, <1>1, <1>9, RenewFull
    <3> QED BY <3>1, GrewSelf DEF r, chain, h
  <2> QED BY <2>4, <2>5
<1>10. CASE to # 0 /\ h # none
  <2> DEFINE g == GrowFrom(v, f, h, ClustersFor(to))
  <2>1. chain = Chained(g, h)
    BY <1>10, Zenon DEF chain, ensureChainSize
  <2>2. g \in GrowSet /\ Grown(v, own, rank, D, h, g)
    <3>1. ClustersFor(to) \in Nat
      BY <1>0, <1>10, Covering
    <3> QED BY <3>1, <1>1, <1>3, <1>10, GrowSpec
  <2> HIDE DEF g
  <2>3. chain.v = g.v /\ chain.status = g.status /\ chain.first = h /\ g.v \in Volume
    BY <2>1, <2>2 DEF Chained, GrowSet
  <2>4. PICK own2, rank2 :
          /\ Whole(g.v, own2, rank2, D, none, 0)
          /\ Kept(v, own, rank, g.v, own2, rank2, h)
          /\ own2[g.at] = h
    BY <2>2 DEF Grown
  <2>5. Written(g.v, own2, rank2, D, none, 0) /\ Stays(v, own, D, g.v, own2, D)
    BY <2>4, <1>1, <1>4, WrittenGrown
  <2>6. CASE chain.status # "ok"
    <3>1. r.v = g.v
      BY <2>3, <2>6, <1>5 DEF Done
    <3>2. Grew(v, own, D, r.v)
      BY <3>1, <2>4, <2>5 DEF Grew, Good
    <3> QED BY <3>2 DEF r, chain, h
  <2>7. CASE chain.status = "ok"
    <3>1. own2[h] = h /\ Tiled(g.v, own2, rank2)
      BY <2>4, <1>3, <1>10 DEF Kept, Whole
    <3>2. Copies(g.v, own2, rank2, h, from, to, written)
      BY <2>3, <3>1, <1>0, <1>3, CopySpec DEF written
    <3>3. /\ written.v \in Volume /\ written.v.fat = g.v.fat
          /\ \A b \in Cluster : own2[b] # h => written.v.slots[b] = g.v.slots[b]
          /\ \A b \in Cluster, j \in 1 .. Slots : g.v.slots[b][j] = Text => written.v.slots[b][j] = Text
      BY <3>2 DEF Copies
    <3>4. \A b \in Cluster : own2[b] \in D => written.v.slots[b] = g.v.slots[b]
      BY <3>3, <1>3, <1>10
    <3>5. Whole(written.v, own2, rank2, D, none, 0)
      BY <3>3, <3>4, <2>3, <2>4, Framed
    <3>6. ASSUME NEW b \in Cluster, NEW m \in Nat, 1 <= m, g.v.slots[b][((m - 1) % Slots) + 1] = Text
          PROVE  written.v.slots[b][((m - 1) % Slots) + 1] = Text
      <4>1. ((m - 1) % Slots) + 1 \in 1 .. Slots
        BY <3>6, Within
      <4> QED BY <4>1, <3>3, <3>6
    <3>7. Written(written.v, own2, rank2, D, none, 0) /\ Stays(g.v, own2, D, written.v, own2, D)
      BY <3>4, <3>6, <2>5, WrittenFramed
    <3>8. Stays(v, own, D, written.v, own2, D)
      BY <2>5, <3>7, StaysOn
    <3>9. CASE written.status # "ok"
      <4>1. r.v = written.v
        BY <2>7, <3>9, <1>5 DEF Done
      <4>2. Grew(v, own, D, r.v)
        BY <4>1, <3>5, <3>7, <3>8 DEF Grew, Good
      <4> QED BY <4>2 DEF r, chain, h
    <3>10. CASE written.status = "ok"
      <4>1. own[c] # none /\ own2[c] = own[c] /\ written.v.slots[c] = v.slots[c]
        <5>1. own[c] # none
          BY <1>2, <1>4
        <5>2. own2[c] = own[c] /\ g.v.slots[c] = v.slots[c]
          BY <5>1, <1>2, <2>4, KeptThere
        <5> QED BY <5>1, <5>2, <1>2, <3>4
      <4>2. Picks(written.v, own2, D, found)
        BY <4>1, <1>2, Zenon DEF Picks, c, i
      <4>3. Good(written.v, own2, rank2, D, none, 0)
        BY <3>5, <3>7 DEF Good
      <4>4. /\ Holds(written.v, own2, rank2, h, from)
            /\ \A b \in Cluster, j \in 1 .. Slots :
                 Counts(written.v, own2, D, c, i, b, j) => written.v.slots[b][j].first # h
        BY <4>2, <4>3, <1>10, PickedFile DEF c, i, h
      <4>5. Holds(written.v, own2, rank2, h, to)
        <5> SUFFICES ASSUME NEW k \in Nat, 1 <= k, k <= to
                     PROVE  \E a \in Cluster : /\ own2[a] = h /\ h # none /\ rank2[a] = ((k - 1) \div Slots) + 1
                                               /\ written.v.slots[a][((k - 1) % Slots) + 1] = Text
          BY DEF Holds
        <5>1. CASE k <= from
          BY <5>1, <4>4 DEF Holds
        <5>2. CASE from < k
          BY <5>2, <3>2, <3>10 DEF Copies
        <5> QED BY <5>1, <5>2, <1>0
      <4>6. Whole(written.v, own2, rank2, D, c, i) /\ Written(written.v, own2, rank2, D, c, i)
        <5>1. Lists(written.v, own2, D, c, i) => ~written.v.slots[c][i].dir
          BY <4>1, <1>2
        <5>2. Whole(written.v, own2, rank2, D, c, i)
          BY <3>5, <5>1, Weakened, Zenon, ZenonT(40)
        <5> QED BY <5>2, <3>7, <1>2, WrittenBut
      <4>7. Grew(written.v, own2, D, [written.v EXCEPT !.slots[c][i] = [found.entry EXCEPT !.first = h, !.size = to]])
        <5>1. Unclaimed(written.v, own2, D, c, i, h)
          BY <4>4, <3>1, <1>3 DEF Unclaimed
        <5>2. found.entry = written.v.slots[c][i] /\ own2[c] \in D
          BY <4>1, <1>2
        <5> QED BY <4>5, <4>6, <5>1, <5>2, <1>2, <1>3, Updated, ZenonT(40)
      <4>8. r.v = [written.v EXCEPT !.slots[c][i] = [found.entry EXCEPT !.first = h, !.size = to]]
        BY <2>3, <2>7, <3>10, <1>5, <1>6 DEF x
      <4>9. Grew(v, own, D, r.v)
        BY <4>7, <4>8, <3>8, GrewOn
      <4> QED BY <4>9 DEF r, chain, h
    <3> QED BY <3>9, <3>10
  <2> QED BY <2>6, <2>7
<1> QED BY <1>8, <1>9, <1>10

--------------------------------------------------------------------------------
(* The walks, on a sound volume *)

\* The names of a path lead from the root to the directory c: t is the
\* directories on the way.
Passes(v, own, D, t, path, c) ==
  /\ t[0] = rootCluster /\ t[Len(path)] = c
  /\ \A k \in Nat : k <= Len(path) => t[k] \in D
  /\ \A k \in Nat : 1 <= k /\ k <= Len(path) =>
       \E b \in Cluster, j \in 1 .. Slots :
         /\ Lists(v, own, D, b, j) /\ own[b] = t[k - 1]
         /\ v.slots[b][j].name = path[k] /\ v.slots[b][j].dir /\ v.slots[b][j].first = t[k]

Leads(v, own, D, path, c) == \E t : Passes(v, own, D, t, path, c)

\* One entry that a walk has found: a directory below, or the one above.
LEMMA EntersSpec ==
  ASSUME NEW v, NEW own, NEW rank, NEW D, Whole(v, own, rank, D, none, 0), NEW f, Working(f),
         NEW d \in D, NEW comp \in Names \cup {".."}, NEW found, found = findEntry(v, f, d, comp)
  PROVE  /\ found.status \in {"ok", "notFound"}
         /\ comp = ".." /\ d = rootCluster => found.status = "notFound"
         /\ found.status = "ok" /\ found.entry.dir => found.entry.first \in D
         /\ found.status = "ok" /\ comp = ".." => found.entry = v.slots[d][2] /\ d # rootCluster
         /\ found.status = "ok" /\ comp # ".." =>
              Picks(v, own, D, found) /\ own[found.pos.cluster] = d /\ found.entry.name = comp
<1> DEFINE c == found.pos.cluster
           i == found.pos.index
<1>1. /\ v \in Volume /\ Tiled(v, own, rank) /\ Scanned(v, own, D) /\ Named(v, own, D, none, 0)
      /\ Unique(v, own, D) /\ Dotted(v, own, D, none, 0)
  BY DEF Whole
<1>2. d \in Cluster /\ own[d] = d /\ none \notin D
  BY <1>1, Sizes DEF Dotted
<1>3. Finds(v, own, d, comp, found)
  BY <1>1, <1>2, FindSpec
<1>4. /\ found.status \in {"ok", "notFound"}
      /\ found.status = "ok" =>
           /\ c \in Cluster /\ i \in 1 .. Slots /\ own[c] = d
           /\ found.entry = v.slots[c][i] /\ found.entry \in Stored
           /\ found.entry.kind = "entry" /\ found.entry.name = comp
  BY <1>3 DEF Finds
<1> HIDE DEF c, i
<1>5. ASSUME found.status = "ok", comp = ".."
      PROVE  d # rootCluster /\ found.entry = v.slots[d][2] /\ found.entry.first \in D
  <2>1. d # rootCluster
    BY <1>1, <1>2, <1>4, <1>5 DEF Dotted
  <2>2. IsDot(v.slots[d][2], "..") /\ v.slots[d][2].first \in D
    BY <2>1, <1>1 DEF Dotted
  <2>3. c = d /\ i = 2
    <3>1. 2 \in 1 .. Slots
      BY Sizes
    <3>2. /\ own[c] \in D /\ own[d] = own[c] /\ v.slots[c][i].kind = "entry" /\ v.slots[d][2].kind = "entry"
          /\ v.slots[c][i].name = v.slots[d][2].name
      BY <2>2, <1>2, <1>4, <1>5 DEF IsDot
    <3> QED BY <3>1, <3>2, <1>1, <1>2, <1>4, <1>5 DEF Unique
  <2> QED BY <2>1, <2>2, <2>3, <1>4, <1>5
<1>6. ASSUME found.status = "ok", comp # ".."
      PROVE  /\ Picks(v, own, D, found) /\ own[c] = d /\ found.entry.name = comp
             /\ found.entry.dir => found.entry.first \in D
  <2>1. IsChild(found.entry)
    BY <1>4, <1>6, NoDots DEF IsChild
  <2>2. Picks(v, own, D, found)
    BY <2>1, <1>4, <1>6 DEF Picks, c, i
  <2>3. Counts(v, own, D, none, 0, c, i)
    BY <2>1, <1>4, <1>6, Sizes DEF Counts, Lists
  <2>4. found.entry.dir => found.entry.first \in Cluster
    BY <1>4, <1>6, Slotted
  <2>5. found.entry.dir => found.entry.first \in D
    <3> SUFFICES ASSUME found.entry.dir PROVE v.slots[c][i].first \in D
      BY <1>4, <1>6
    <3>1. v.slots[c][i].first # none /\ v.slots[c][i].dir
      BY <2>4, <1>4, <1>6, Sizes
    <3> QED BY <3>1, <2>3, <1>1, <1>4, <1>6 DEF Named
  <2> QED BY <2>2, <2>5, <1>4, <1>6
<1> QED BY <1>4, <1>5, <1>6 DEF c, i

WalkIn(D, at) == at.status = "ok" => at.cluster \in D

LEMMA StepSpec ==
  ASSUME NEW own, NEW rank, NEW D, Whole(vol, own, rank, D, none, 0), NEW f, Working(f),
         NEW comp \in Names \cup {".."}, NEW at, WalkIn(D, at)
  PROVE  WalkIn(D, Step(f, at, comp)) /\ WalkIn(D, ParentStep(f, at, comp))
<1> DEFINE found == findEntry(vol, f, at.cluster, comp)
<1>1. rootCluster \in D
  BY DEF Whole, Dotted
<1>2. CASE at.status # "ok"
  BY <1>2 DEF Step, ParentStep, WalkIn
<1>3. CASE at.status = "ok"
  <2>1. at.cluster \in D
    BY <1>3 DEF WalkIn
  <2>2. found.status = "ok" /\ found.entry.dir => found.entry.first \in D
    BY <2>1, EntersSpec
  <2> HIDE DEF found
  <2>3. WalkIn(D, Entered(at, comp, found))
    BY <1>1, <2>2 DEF Entered, WalkIn
  <2>4. Step(f, at, comp) = Entered(at, comp, found)
    BY <1>3 DEF Step, found
  <2> QED BY <2>3, <2>4 DEF ParentStep, WalkIn
<1> QED BY <1>2, <1>3

LEMMA LeadsIn ==
  ASSUME NEW v, NEW own, NEW D, NEW path \in Seq(Names), NEW c, Leads(v, own, D, path, c)
  PROVE  c \in D
<1>1. PICK t : Passes(v, own, D, t, path, c)
  BY DEF Leads
<1>2. Len(path) \in Nat /\ Len(path) <= Len(path)
  OBVIOUS
<1> QED BY <1>1, <1>2 DEF Passes

LEMMA ParentSpec ==
  ASSUME TypeInv, NEW own, NEW rank, NEW D, Whole(vol, own, rank, D, none, 0), cwd \in D,
         NEW f, Working(f), NEW path \in Paths
  PROVE  WalkIn(D, ExistingParent(f, path)) /\ WalkIn(D, resolveParent(f, path))
<1> DEFINE n == Len(path.comps) - 1
<1>1. n \in Nat /\ \A k \in Nat : 1 <= k /\ k <= n => path.comps[k] \in Names \cup {".."}
  BY PathTyped
<1> HIDE DEF n
<1>2. WalkIn(D, Start(path))
  BY DEF Whole, Dotted, WalkIn, Start
<1>3. PICK h : /\ ExistingRun(f, path, h, n) /\ ExistingParent(f, path) = h[n]
  BY ExistingUnfolds DEF TypeInv, n
<1>4. PICK g : /\ ParentRun(f, path, g, n) /\ resolveParent(f, path) = NotDots(g[n], path)
                /\ \A k \in Nat : k <= n => g[k] \in WalkSet
  BY ParentUnfolds DEF TypeInv, n
<1> DEFINE T == {k \in Nat : k <= n => WalkIn(D, h[k]) /\ WalkIn(D, g[k])}
<1>5. T = Nat
  <2>1. 0 \in T
    BY <1>2, <1>3, <1>4 DEF ExistingRun, ParentRun
  <2>2. ASSUME NEW k \in T PROVE k + 1 \in T
    <3>1. k \in Nat /\ k + 1 \in Nat
      OBVIOUS
    <3>2. CASE k + 1 <= n
      <4>1. k <= n /\ k + 1 - 1 = k /\ 1 <= k + 1
        BY <3>1, <3>2, <1>1
      <4>2. WalkIn(D, h[k]) /\ WalkIn(D, g[k])
        BY <4>1
      <4>3. h[k + 1] = Step(f, h[k], path.comps[k + 1])
        BY <4>1, <3>1, <3>2, <1>3 DEF ExistingRun
      <4>4. g[k + 1] = ParentStep(f, g[k], path.comps[k + 1])
        BY <4>1, <3>1, <3>2, <1>4 DEF ParentRun
      <4>5. path.comps[k + 1] \in Names \cup {".."}
        BY <4>1, <3>1, <3>2, <1>1
      <4>6. WalkIn(D, h[k + 1]) /\ WalkIn(D, g[k + 1])
        BY <4>2, <4>3, <4>4, <4>5, StepSpec
      <4> QED BY <3>1, <4>6
    <3>3. CASE ~(k + 1 <= n)
      BY <3>1, <3>3
    <3> QED BY <3>2, <3>3
  <2>3. T \in SUBSET Nat
    OBVIOUS
  <2> HIDE DEF T
  <2> QED BY <2>1, <2>2, <2>3, HandedOn
<1>6. n \in T
  <2> HIDE DEF T
  <2> QED BY <1>5, <1>1
<1>7. n <= n
  BY <1>1
<1>8. WalkIn(D, h[n]) /\ WalkIn(D, g[n])
  BY <1>6, <1>7
<1>9. WalkIn(D, NotDots(g[n], path))
  <2>1. NotDots(g[n], path) = g[n] \/ NotDots(g[n], path) = [g[n] EXCEPT !.status = "invalidName"]
    BY DEF NotDots
  <2>2. g[n] \in WalkSet
    BY <1>1, <1>4, <1>7
  <2>3. [g[n] EXCEPT !.status = "invalidName"].status = "invalidName"
    BY <2>2 DEF WalkSet
  <2> QED BY <2>1, <2>3, <1>8 DEF WalkIn
<1> QED BY <1>3, <1>4, <1>8, <1>9

\* The path text follows the walk: a name below, ".." above.
LEMMA DescendSpec ==
  ASSUME NEW v, NEW own, NEW D, NEW path \in Seq(Names), NEW c, Leads(v, own, D, path, c),
         NEW b \in Cluster, NEW j \in 1 .. Slots, Lists(v, own, D, b, j), own[b] = c,
         v.slots[b][j].dir, v.slots[b][j].first \in D, v.slots[b][j].name \in Names
  PROVE  Leads(v, own, D, Append(path, v.slots[b][j].name), v.slots[b][j].first)
<1> DEFINE n == Len(path)
           e == v.slots[b][j]
           path2 == Append(path, e.name)
<1>1. PICK t : Passes(v, own, D, t, path, c)
  BY DEF Leads
<1> DEFINE t2 == [k \in 0 .. n + 1 |-> IF k = n + 1 THEN e.first ELSE t[k]]
<1>2. /\ n \in Nat /\ Len(path2) = n + 1 /\ path2[n + 1] = e.name
      /\ \A k \in Nat : 1 <= k /\ k <= n => path2[k] = path[k]
  <2>1. path2 \in Seq(Names) /\ Len(path2) = n + 1 /\ path2[n + 1] = e.name
    OBVIOUS
  <2>2. ASSUME NEW k \in Nat, 1 <= k, k <= n PROVE path2[k] = path[k]
    BY <2>2
  <2> QED BY <2>1, <2>2
<1>3. /\ t2[0] = t[0] /\ t2[n + 1] = e.first
      /\ \A k \in Nat : k <= n => t2[k] = t[k]
  BY <1>2
<1>4. /\ t[0] = rootCluster /\ t[n] = c
      /\ \A k \in Nat : k <= n => t[k] \in D
      /\ \A k \in Nat : 1 <= k /\ k <= n =>
           \E a \in Cluster, l \in 1 .. Slots :
             /\ Lists(v, own, D, a, l) /\ own[a] = t[k - 1]
             /\ v.slots[a][l].name = path[k] /\ v.slots[a][l].dir /\ v.slots[a][l].first = t[k]
  BY <1>1 DEF Passes
<1> HIDE DEF n, t2, path2
<1>5. ASSUME NEW k \in Nat, k <= n + 1 PROVE t2[k] \in D
  <2>1. CASE k <= n
    BY <2>1, <1>3, <1>4
  <2>2. CASE k = n + 1
    BY <2>2, <1>3
  <2> QED BY <2>1, <2>2, <1>2, <1>5
<1>6. ASSUME NEW k \in Nat, 1 <= k, k <= n + 1
      PROVE  \E a \in Cluster, l \in 1 .. Slots :
               /\ Lists(v, own, D, a, l) /\ own[a] = t2[k - 1]
               /\ v.slots[a][l].name = path2[k] /\ v.slots[a][l].dir /\ v.slots[a][l].first = t2[k]
  <2>0. k - 1 \in Nat /\ k - 1 <= n
    BY <1>2, <1>6
  <2>1. CASE k <= n
    <3>1. t2[k] = t[k] /\ t2[k - 1] = t[k - 1] /\ path2[k] = path[k]
      BY <2>0, <2>1, <1>2, <1>3, <1>6
    <3> QED BY <3>1, <2>1, <1>4, <1>6
  <2>2. CASE k = n + 1
    <3>1. k - 1 = n
      BY <2>2, <1>2
    <3>2. t2[k] = e.first /\ t2[k - 1] = c /\ path2[k] = e.name
      BY <3>1, <2>0, <2>2, <1>2, <1>3, <1>4
    <3> QED BY <3>2
  <2> QED BY <2>1, <2>2, <1>2, <1>6
<1>7. Passes(v, own, D, t2, path2, e.first)
  <2>1. t2[0] = rootCluster /\ t2[Len(path2)] = e.first
    BY <1>2, <1>3, <1>4
  <2>2. \A k \in Nat : k <= Len(path2) => t2[k] \in D
    BY <1>2, <1>5
  <2>3. \A k \in Nat : 1 <= k /\ k <= Len(path2) =>
          \E a \in Cluster, l \in 1 .. Slots :
            /\ Lists(v, own, D, a, l) /\ own[a] = t2[k - 1]
            /\ v.slots[a][l].name = path2[k] /\ v.slots[a][l].dir /\ v.slots[a][l].first = t2[k]
    BY <1>2, <1>6
  <2> QED BY <2>1, <2>2, <2>3, Zenon DEF Passes
<1> QED BY <1>7 DEF Leads, path2

LEMMA AscendSpec ==
  ASSUME NEW v, NEW own, NEW rank, NEW D, Whole(v, own, rank, D, none, 0),
         NEW path \in Seq(Names), NEW d, Leads(v, own, D, path, d), d # rootCluster
  PROVE  path # <<>> /\ Leads(v, own, D, Front(path), v.slots[d][2].first)
<1> DEFINE n == Len(path)
           path2 == Front(path)
<1>1. PICK t : Passes(v, own, D, t, path, d)
  BY DEF Leads
<1>2. /\ t[0] = rootCluster /\ t[n] = d
      /\ \A k \in Nat : k <= n => t[k] \in D
      /\ \A k \in Nat : 1 <= k /\ k <= n =>
           \E a \in Cluster, l \in 1 .. Slots :
             /\ Lists(v, own, D, a, l) /\ own[a] = t[k - 1]
             /\ v.slots[a][l].name = path[k] /\ v.slots[a][l].dir /\ v.slots[a][l].first = t[k]
  BY <1>1 DEF Passes
<1>3. path # <<>>
  BY <1>2
<1>4. n \in Nat /\ n >= 1 /\ n - 1 \in Nat
  BY <1>3
<1>5. /\ Len(path2) = n - 1
      /\ \A k \in Nat : 1 <= k /\ k <= n - 1 => path2[k] = path[k]
  <2>1. path2 = SubSeq(path, 1, n - 1)
    BY DEF Front
  <2> HIDE DEF path2
  <2>2. Len(path2) = n - 1
    <3>1. CASE n = 1
      <4>1. Len(SubSeq(path, 1, 0)) = 0
        OBVIOUS
      <4>2. n - 1 = 0
        BY <3>1
      <4> HIDE DEF n
      <4> QED BY <2>1, <4>1, <4>2
    <3>2. CASE n # 1
      <4> DEFINE m == n - 1
      <4>1. m \in Nat /\ 1 <= m
        <5> HIDE DEF n
        <5> QED BY <3>2, <1>4
      <4> HIDE DEF m
      <4>2. Len(SubSeq(path, 1, m)) = m
        BY <4>1
      <4> QED BY <2>1, <4>2 DEF m
    <3> QED BY <3>1, <3>2
  <2>3. ASSUME NEW k \in Nat, 1 <= k, k <= n - 1 PROVE path2[k] = path[k]
    BY <2>1, <2>3, <1>4
  <2> QED BY <2>2, <2>3
<1> HIDE DEF n, path2
<1>6. t[n - 1] = v.slots[d][2].first
  <2>1. PICK a \in Cluster, l \in 1 .. Slots :
             /\ Lists(v, own, D, a, l) /\ own[a] = t[n - 1]
             /\ v.slots[a][l].dir /\ v.slots[a][l].first = d
    <3>1. n \in Nat /\ 1 <= n /\ n <= n
      BY <1>4
    <3> QED BY <3>1, <1>2
  <2>2. d \in D /\ Named(v, own, D, none, 0) /\ Dotted(v, own, D, none, 0)
    BY <1>2, <1>4 DEF Whole
  <2>3. PICK c \in Cluster, i \in 1 .. Slots :
             /\ Counts(v, own, D, none, 0, c, i) /\ own[c] = v.slots[d][2].first
             /\ v.slots[c][i].dir /\ v.slots[c][i].first = d
    BY <2>2 DEF Dotted
  <2>4. Counts(v, own, D, none, 0, a, l) /\ d # none
    BY <2>1, <2>2, Sizes DEF Counts, Dotted
  <2>5. a = c
    BY <2>1, <2>2, <2>3, <2>4 DEF Named
  <2> QED BY <2>1, <2>3, <2>5
<1>7. Passes(v, own, D, t, path2, t[n - 1])
  <2>1. \A k \in Nat : k <= n - 1 => k <= n
    BY <1>4
  <2>2. ASSUME NEW k \in Nat, 1 <= k, k <= n - 1
        PROVE  \E a \in Cluster, l \in 1 .. Slots :
                 /\ Lists(v, own, D, a, l) /\ own[a] = t[k - 1]
                 /\ v.slots[a][l].name = path2[k] /\ v.slots[a][l].dir /\ v.slots[a][l].first = t[k]
    <3>1. path2[k] = path[k]
      BY <2>2, <1>5
    <3> QED BY <3>1, <2>1, <2>2, <1>2
  <2> QED BY <2>1, <2>2, <1>2, <1>5 DEF Passes
<1> QED BY <1>3, <1>6, <1>7 DEF Leads, path2

\* Where a walk with its text is: the text is the path of the cluster.
TextLeads(own, D, at) ==
  at.walk.status = "ok" => Leads(vol, own, D, at.text, at.walk.cluster)

LEMMA LeadsRoot ==
  ASSUME NEW v, NEW own, NEW D, rootCluster \in D
  PROVE  Leads(v, own, D, <<>>, rootCluster)
<1> DEFINE t == [k \in {0} |-> rootCluster]
<1>1. Len(<<>>) = 0 /\ t[0] = rootCluster
  OBVIOUS
<1> HIDE DEF t
<1>2. Passes(v, own, D, t, <<>>, rootCluster)
  BY <1>1 DEF Passes
<1> QED BY <1>2 DEF Leads

LEMMA PathStepSpec ==
  ASSUME NEW own, NEW rank, NEW D, Whole(vol, own, rank, D, none, 0), NEW f, Working(f),
         NEW comp \in Names \cup {".."}, NEW at \in PathSet, TextLeads(own, D, at)
  PROVE  TextLeads(own, D, PathStep(f, at, comp))
<1> DEFINE d == at.walk.cluster
           found == findEntry(vol, f, d, comp)
           at2 == PathStep(f, at, comp)
<1>1. rootCluster \in D
  BY DEF Whole, Dotted
<1>2. CASE at.walk.status # "ok"
  BY <1>2 DEF PathStep
<1>3. CASE at.walk.status = "ok"
  <2>1. Leads(vol, own, D, at.text, d) /\ at.text \in Seq(Names)
    BY <1>3 DEF TextLeads, PathSet
  <2>2. d \in D
    BY <2>1, LeadsIn
  <2>3. /\ comp = ".." /\ d = rootCluster => found.status = "notFound"
        /\ found.status = "ok" /\ found.entry.dir => found.entry.first \in D
        /\ found.status = "ok" /\ comp = ".." => found.entry = vol.slots[d][2] /\ d # rootCluster
        /\ found.status = "ok" /\ comp # ".." =>
             Picks(vol, own, D, found) /\ own[found.pos.cluster] = d /\ found.entry.name = comp
    BY <2>2, EntersSpec
  <2>4. at2 = [walk |-> Step(f, at.walk, comp), text |-> Edited(at.text, comp, d)]
    BY <1>3 DEF PathStep
  <2>5. Step(f, at.walk, comp) = Entered(at.walk, comp, found)
    BY <1>3 DEF Step
  <2> HIDE DEF at2, found, d
  <2>6. at2.walk = Entered(at.walk, comp, found) /\ at2.text = Edited(at.text, comp, d)
    BY <2>4, <2>5
  <2>7. CASE comp = ".." /\ d = rootCluster
    <3>1. at2.walk.cluster = rootCluster /\ at2.text = <<>>
      BY <2>3, <2>6, <2>7 DEF Entered, Edited, d
    <3> QED BY <3>1, <1>1, LeadsRoot DEF TextLeads, at2
  <2>8. CASE comp = ".." /\ d # rootCluster
    <3>1. at.text # <<>> /\ Leads(vol, own, D, Front(at.text), vol.slots[d][2].first)
      BY <2>1, <2>8, AscendSpec
    <3>2. at2.text = Front(at.text)
      BY <3>1, <2>6, <2>8 DEF Edited
    <3>3. at2.walk.status = "ok" => at2.walk.cluster = vol.slots[d][2].first
      BY <2>3, <2>6, <2>8 DEF Entered, d
    <3>4. TextLeads(own, D, at2)
      BY <3>1, <3>2, <3>3 DEF TextLeads
    <3> QED BY <3>4 DEF at2
  <2>9. CASE comp # ".."
    <3>1. at2.text = Append(at.text, comp)
      BY <2>6, <2>9 DEF Edited
    <3>2. ASSUME at2.walk.status = "ok" PROVE Leads(vol, own, D, at2.text, at2.walk.cluster)
      <4>1. found.status = "ok" /\ found.entry.dir /\ at2.walk.cluster = found.entry.first
        BY <2>6, <2>9, <3>2 DEF Entered
      <4>2. Picks(vol, own, D, found) /\ own[found.pos.cluster] = d /\ found.entry.name = comp
            /\ found.entry.first \in D
        BY <4>1, <2>3, <2>9, Zenon
      <4>3. PICK b \in Cluster, j \in 1 .. Slots :
              own[b] = d /\ own[b] \in D /\ found.entry = vol.slots[b][j] /\ IsChild(vol.slots[b][j])
        BY <4>2 DEF Picks
      <4>4. Lists(vol, own, D, b, j)
        BY <4>3 DEF Lists
      <4>5. Leads(vol, own, D, Append(at.text, vol.slots[b][j].name), vol.slots[b][j].first)
        BY <4>1, <4>2, <4>3, <4>4, <2>1, <2>9, DescendSpec
      <4> QED BY <4>1, <4>2, <4>3, <4>5, <3>1
    <3>3. TextLeads(own, D, at2)
      BY <3>2 DEF TextLeads
    <3> QED BY <3>3 DEF at2
  <2> QED BY <2>7, <2>8, <2>9
<1> QED BY <1>2, <1>3

LEMMA PathSpec ==
  ASSUME TypeInv, NEW own, NEW rank, NEW D, Whole(vol, own, rank, D, none, 0),
         Leads(vol, own, D, cwdPath, cwd), NEW f, Working(f), NEW path \in Paths
  PROVE  TextLeads(own, D, PathWalk(f, path))
<1> DEFINE n == Len(path.comps)
<1>1. n \in Nat /\ \A k \in Nat : 1 <= k /\ k <= n => path.comps[k] \in Names \cup {".."}
  BY PathTyped
<1> HIDE DEF n
<1>2. TextLeads(own, D, PathStart(path))
  <2>1. rootCluster \in D
    BY DEF Whole, Dotted
  <2>2. CASE path.abs
    BY <2>1, <2>2, LeadsRoot DEF TextLeads, PathStart, Start
  <2>3. CASE ~path.abs
    BY <2>3 DEF TextLeads, PathStart, Start
  <2> QED BY <2>2, <2>3
<1>3. PICK h : /\ PathRun(f, path, h, n) /\ PathWalk(f, path) = h[n]
               /\ \A k \in Nat : k <= n => h[k] \in PathSet
  BY PathUnfolds DEF TypeInv, n
<1> DEFINE T == {k \in Nat : k <= n => TextLeads(own, D, h[k])}
<1>4. T = Nat
  <2>1. 0 \in T
    BY <1>2, <1>3 DEF PathRun
  <2>2. ASSUME NEW k \in T PROVE k + 1 \in T
    <3>1. k \in Nat /\ k + 1 \in Nat
      OBVIOUS
    <3>2. CASE k + 1 <= n
      <4>1. k <= n /\ k + 1 - 1 = k /\ 1 <= k + 1
        BY <3>1, <3>2, <1>1
      <4>2. TextLeads(own, D, h[k]) /\ h[k] \in PathSet
        BY <4>1, <3>1, <1>3
      <4>3. h[k + 1] = PathStep(f, h[k], path.comps[k + 1])
        BY <4>1, <3>1, <3>2, <1>3 DEF PathRun
      <4>4. path.comps[k + 1] \in Names \cup {".."}
        BY <4>1, <3>1, <3>2, <1>1
      <4>5. TextLeads(own, D, h[k + 1])
        BY <4>2, <4>3, <4>4, PathStepSpec
      <4> QED BY <3>1, <4>5
    <3>3. CASE ~(k + 1 <= n)
      BY <3>1, <3>3
    <3> QED BY <3>2, <3>3
  <2>3. T \in SUBSET Nat
    OBVIOUS
  <2> HIDE DEF T
  <2> QED BY <2>1, <2>2, <2>3, HandedOn
<1>5. n \in T /\ n <= n
  <2> HIDE DEF T
  <2> QED BY <1>4, <1>1
<1> QED BY <1>3, <1>5

--------------------------------------------------------------------------------
(* Files and directories that are removed *)

\* directoryEmpty finds every entry but the dot entries.
LEMMA EmptySpec ==
  ASSUME NEW v \in Volume, NEW own, NEW rank, NEW D, Whole(v, own, rank, D, none, 0),
         NEW f, Working(f), NEW d \in D, directoryEmpty(v, f, d)
  PROVE  \A b \in Cluster, j \in 1 .. Slots : own[b] = d => ~IsChild(v.slots[b][j])
<1> DEFINE wanted == {p \in Position : \/ p.cluster = Unreadable(f)
                                       \/ SlotAt(v, p).kind \in {"end", "text"}
                                       \/ SlotAt(v, p).kind = "entry" /\ SlotAt(v, p).name \notin {".", ".."}}
           r == FirstIn(Chain(v, f, d), wanted)
<1>1. /\ Tiled(v, own, rank) /\ Scanned(v, own, D) /\ Dotted(v, own, D, none, 0)
  BY DEF Whole
<1>2. d \in Cluster /\ own[d] = d /\ d # none
  BY <1>1, Sizes DEF Dotted
<1>3. r = Nowhere \/ SlotAt(v, r) = End
  <2> HIDE DEF r
  <2>1. directoryEmpty(v, f, d) <=> (r = Nowhere \/ (r.cluster # Unreadable(f) /\ SlotAt(v, r) = End))
    BY Zenon DEF directoryEmpty, r
  <2> QED BY <2>1
<1>4. Scans(own, rank, d, wanted, r)
  <2> HIDE DEF wanted
  <2> QED BY <1>1, <1>2, ScanSpec
<1>5. ASSUME NEW b \in Cluster, NEW j \in 1 .. Slots, IsChild(v.slots[b][j])
      PROVE  Pos(b, j) \in wanted
  <2>1. Pos(b, j) \in Position /\ SlotAt(v, Pos(b, j)) = v.slots[b][j]
    BY DEF Pos, Position, SlotAt
  <2> QED BY <2>1, <1>5 DEF IsChild
<1> HIDE DEF wanted, r
<1> SUFFICES ASSUME NEW b \in Cluster, NEW j \in 1 .. Slots, own[b] = d, IsChild(v.slots[b][j]) PROVE FALSE
  OBVIOUS
<1>6. Pos(b, j) \in wanted /\ j \in Nat /\ 1 <= j /\ j <= Slots
  BY <1>5, Sizes
<1>7. r # Nowhere
  BY <1>4, <1>6 DEF Scans
<1>8. /\ r.cluster \in Cluster /\ own[r.cluster] = d /\ r.index \in 1 .. Slots
      /\ ~(rank[b] < rank[r.cluster] \/ (b = r.cluster /\ j < r.index))
  BY <1>4, <1>6, <1>7 DEF Scans
<1>9. v.slots[r.cluster][r.index].kind = "end"
  BY <1>3, <1>7, Plain DEF SlotAt
<1>10. rank[b] \in Nat /\ rank[r.cluster] \in Nat
  BY <1>1, <1>8, TileFacts
<1>11. rank[r.cluster] < rank[b] \/ (b = r.cluster /\ r.index <= j)
  <2>1. CASE rank[b] = rank[r.cluster]
    <3>1. b = r.cluster
      BY <2>1, <1>1, <1>2, <1>8 DEF Tiled
    <3> QED BY <3>1, <1>6, <1>8, Sizes
  <2>2. CASE rank[b] # rank[r.cluster]
    BY <2>2, <1>8, <1>10
  <2> QED BY <2>1, <2>2
<1>12. v.slots[b][j].kind = "end"
  BY <1>1, <1>2, <1>8, <1>9, <1>11, EndsBehind
<1> QED BY <1>12 DEF IsChild

\* What remove makes of a sound volume: the directory h, if it is one, goes; it
\* lists nothing.
Loses(v, own, D, w, h) ==
  /\ h \in D => /\ w.fat[h] = Free
                /\ \A b \in Cluster, j \in 1 .. Slots : own[b] = h => ~IsChild(v.slots[b][j])
  /\ \E own2, rank2, D2 :
       /\ Good(w, own2, rank2, D2, none, 0) /\ D \ {h} \subseteq D2
       /\ \A b \in Cluster, j \in 1 .. Slots :
            Lists(v, own, D, b, j) /\ v.slots[b][j].dir /\ own[b] # h /\ v.slots[b][j].first # h =>
              Lists(w, own2, D2, b, j) /\ own2[b] = own[b] /\ w.slots[b][j] = v.slots[b][j]

LEMMA RemoveSpec ==
  ASSUME NEW v, NEW own, NEW rank, NEW D, Good(v, own, rank, D, none, 0),
         NEW found, Picks(v, own, D, found), NEW f, Working(f),
         NEW h, h = found.entry.first, found.entry.dir => directoryEmpty(v, f, h)
  PROVE  Loses(v, own, D, writeEntry(freeChain(v, f, h), f, found.pos, Deleted).v, h)
<1> DEFINE c == found.pos.cluster
           i == found.pos.index
           u == freeChain(v, f, h)
           put == writeEntry(u, f, found.pos, Deleted)
           w == [u EXCEPT !.slots[c][i] = Deleted]
           E == D \ {h}
<1>1. /\ v \in Volume /\ Whole(v, own, rank, D, none, 0) /\ Written(v, own, rank, D, none, 0)
      /\ Tiled(v, own, rank) /\ Dotted(v, own, D, none, 0) /\ Named(v, own, D, none, 0)
  BY Zenon, ZenonT(40) DEF Good, Whole
<1>2. /\ c \in Cluster /\ i \in 1 .. Slots /\ own[c] \in D /\ found.entry = v.slots[c][i]
      /\ IsChild(found.entry)
  BY DEF Picks
<1>3. none \notin D /\ none \notin Cluster /\ D \subseteq Cluster
  BY <1>1, Sizes DEF Dotted
<1>4. /\ h \in {none} \cup Cluster
      /\ h # none => own[h] = h /\ h # rootCluster
      /\ found.entry.dir <=> h \in D
      /\ h # none => \A b \in Cluster, j \in 1 .. Slots :
                        Counts(v, own, D, c, i, b, j) => v.slots[b][j].first # h
  <2>1. found.entry \in Stored /\ found.entry.kind = "entry"
    <3>1. v.slots[c][i] \in Stored
      BY <1>1, <1>2 DEF Volume, Row
    <3> QED BY <3>1, <1>2 DEF IsChild
  <2>2. h \in {none} \cup Cluster /\ (found.entry.dir => h \in Cluster) /\ found.entry.dir \in BOOLEAN
    BY <2>1, Slotted
  <2> HIDE DEF c, i
  <2>3. Counts(v, own, D, none, 0, c, i)
    BY <1>2, Sizes DEF Counts, Lists
  <2>4. h # none => own[h] = h /\ h # rootCluster /\ (h \in D <=> found.entry.dir)
    BY <2>3, <1>1, <1>2 DEF Named
  <2>5. ASSUME h # none, NEW b \in Cluster, NEW j \in 1 .. Slots, Counts(v, own, D, c, i, b, j)
        PROVE  v.slots[b][j].first # h
    <3>1. Counts(v, own, D, none, 0, b, j) /\ ~(b = c /\ j = i)
      BY <2>5, Sizes DEF Counts
    <3> QED BY <3>1, <1>1, <1>2, <2>3, <2>5 DEF Named
  <2>6. found.entry.dir <=> h \in D
    BY <2>2, <2>4, <1>3
  <2> QED BY <2>2, <2>4, <2>5, <2>6
<1>5. h \in D => \A b \in Cluster, j \in 1 .. Slots : own[b] = h => ~IsChild(v.slots[b][j])
  BY <1>1, <1>4, EmptySpec
<1>6. /\ u \in Volume /\ u.slots = v.slots
      /\ \A b \in Cluster : u.fat[b] = IF h # none /\ own[b] = h THEN Free ELSE v.fat[b]
  BY <1>1, <1>4, FreeChainSpec
<1>7. put.v = w
  <2>1. Puts(u, found.pos, Deleted, put)
    BY <1>2, WriteEntryWorks, Zenon
  <2> HIDE DEF put, u
  <2> QED BY <2>1 DEF Puts
<1> HIDE DEF c, i, u, put, E
<1>8. PICK own2 :
        /\ Whole(u, own2, rank, D \ {h}, c, i)
        /\ \A b \in Cluster : own2[b] = IF own[b] = h THEN none ELSE own[b]
        /\ own[c] # h
  <2>1. Lists(v, own, D, c, i) /\ h = v.slots[c][i].first /\ (v.slots[c][i].dir <=> h \in D)
    BY <1>2, <1>4 DEF Lists
  <2>2. v.slots[c][i].dir <=> h \in D
    BY <2>1
  <2>3. Childless(v, own, D, h) /\ Frees(v, own, h, u)
    BY <1>5, <1>6 DEF Childless, Frees
  <2>4. v \in Volume /\ Whole(v, own, rank, D, none, 0) /\ c \in Cluster /\ i \in 1 .. Slots
    BY <1>1, <1>2
  <2>5. Lists(v, own, D, c, i) /\ h = v.slots[c][i].first
    BY <2>1
  <2> QED BY <2>2, <2>3, <2>4, <2>5, FreedWhole
<1>9. Whole(u, own2, rank, E, c, i) /\ own2[c] \in E /\ none \notin E /\ E \subseteq D
  BY <1>2, <1>3, <1>8 DEF E
<1>10. ASSUME NEW b \in Cluster, NEW j \in 1 .. Slots
       PROVE  /\ Lists(u, own2, E, b, j) <=> Lists(v, own, D, b, j) /\ own[b] # h
              /\ Lists(u, own2, E, b, j) => own2[b] = own[b]
  BY <1>3, <1>6, <1>8 DEF Lists, E
<1>11. Written(u, own2, rank, E, c, i)
  <2> SUFFICES ASSUME NEW b \in Cluster, NEW j \in 1 .. Slots, Counts(u, own2, E, c, i, b, j), ~v.slots[b][j].dir
               PROVE  Holds(u, own2, rank, v.slots[b][j].first, v.slots[b][j].size)
    BY <1>6 DEF Written
  <2>1. Counts(v, own, D, none, 0, b, j) /\ Counts(v, own, D, c, i, b, j)
    BY <1>3, <1>10 DEF Counts
  <2> DEFINE g == v.slots[b][j].first
             m == v.slots[b][j].size
  <2>2. Holds(v, own, rank, g, m)
    BY <2>1, <1>1 DEF Written
  <2>3. g # none => g # h
    BY <2>1, <1>4
  <2> HIDE DEF g, m
  <2>4. Holds(u, own2, rank, g, m)
    <3> SUFFICES ASSUME NEW k \in Nat, 1 <= k, k <= m
                 PROVE  \E a \in Cluster : /\ own2[a] = g /\ g # none /\ rank[a] = ((k - 1) \div Slots) + 1
                                           /\ u.slots[a][((k - 1) % Slots) + 1] = Text
      BY DEF Holds
    <3>1. PICK a \in Cluster : /\ own[a] = g /\ g # none /\ rank[a] = ((k - 1) \div Slots) + 1
                               /\ v.slots[a][((k - 1) % Slots) + 1] = Text
      BY <2>2 DEF Holds
    <3>2. own2[a] = g
      BY <3>1, <2>3, <1>8
    <3> QED BY <3>1, <3>2, <1>6
  <2> QED BY <2>4 DEF g, m
<1>12. Ready(u, own2, rank, E, c, i, none)
  BY <1>9, WholeIsReady
<1>13. Fits(u, own2, E, c, i, Deleted, none)
  <2>1. Deleted.kind # "entry"
    BY DEF Deleted
  <2> QED BY <2>1, Plain DEF Fits
<1>14. u.slots[c][i] = found.entry /\ u.slots[c][i].kind = "entry" /\ u.slots[c][i].name \notin {".", ".."}
  BY <1>2, <1>6 DEF IsChild
<1> HIDE DEF w
<1>15. Whole(w, own2, rank, E, none, 0)
  BY <1>2, <1>9, <1>12, <1>13, <1>14, Rewritten DEF w
<1>16. Written(w, own2, rank, E, none, 0)
  <2>1. ~IsChild(Deleted)
    BY DEF IsChild, Deleted
  <2> QED BY <2>1, <1>2, <1>9, <1>11, <1>12, WrittenAnew DEF w
<1>17. /\ w.fat = u.fat
       /\ \A b \in Cluster, j \in 1 .. Slots : ~(b = c /\ j = i) => w.slots[b][j] = u.slots[b][j]
  <2>1. u.slots[c] \in Row /\ u.slots \in [Cluster -> Row]
    BY <1>2, <1>6 DEF Volume
  <2> DEFINE row == [u.slots[c] EXCEPT ![i] = Deleted]
  <2>2. w = [u EXCEPT !.slots[c] = row]
    BY DEF w
  <2>3. \A j \in 1 .. Slots : row[j] = IF j = i THEN Deleted ELSE u.slots[c][j]
    BY <2>1 DEF Row
  <2> HIDE DEF row
  <2>4. w.fat = u.fat /\ \A b \in Cluster : w.slots[b] = IF b = c THEN row ELSE u.slots[b]
    BY <1>6, <2>1, <2>2 DEF Volume
  <2> QED BY <2>3, <2>4
<1>18. h \in D => w.fat[h] = Free
  BY <1>3, <1>4, <1>6, <1>17
<1>19. ASSUME NEW b \in Cluster, NEW j \in 1 .. Slots,
              Lists(v, own, D, b, j), v.slots[b][j].dir, own[b] # h, v.slots[b][j].first # h
       PROVE  Lists(w, own2, E, b, j) /\ own2[b] = own[b] /\ w.slots[b][j] = v.slots[b][j]
  <2>1. ~(b = c /\ j = i)
    BY <1>2, <1>19
  <2>2. w.slots[b][j] = v.slots[b][j] /\ Lists(u, own2, E, b, j) /\ own2[b] = own[b]
    BY <2>1, <1>6, <1>10, <1>17, <1>19
  <2> QED BY <2>2, <1>6 DEF Lists
<1>20. Loses(v, own, D, w, h)
  <2>1. Good(w, own2, rank, E, none, 0) /\ D \ {h} \subseteq E
    BY <1>15, <1>16 DEF Good, E
  <2> QED BY <2>1, <1>5, <1>18, <1>19 DEF Loses
<1> QED BY <1>7, <1>20 DEF put, u

--------------------------------------------------------------------------------
(* The sound volume, command by command *)

\* A sound volume, and a path that leads to the directory c.
SoundAt(v, path, c) ==
  \E own, rank, D : Good(v, own, rank, D, none, 0) /\ Leads(v, own, D, path, c)

FileInv == TypeInv /\ (Sound => SoundAt(vol, cwdPath, cwd))

LEMMA LeadsGrew ==
  ASSUME NEW v, NEW own, NEW D, NEW path, NEW c, Leads(v, own, D, path, c),
         NEW w, Grew(v, own, D, w)
  PROVE  SoundAt(w, path, c)
<1>1. PICK t : Passes(v, own, D, t, path, c)
  BY DEF Leads
<1>2. PICK own2, rank2, D2 : Good(w, own2, rank2, D2, none, 0) /\ Stays(v, own, D, w, own2, D2)
  BY DEF Grew
<1>3. \A k \in Nat : k <= Len(path) => t[k] \in D2
  BY <1>1, <1>2 DEF Passes, Stays
<1>4. ASSUME NEW k \in Nat, 1 <= k, k <= Len(path)
      PROVE  \E b \in Cluster, j \in 1 .. Slots :
               /\ Lists(w, own2, D2, b, j) /\ own2[b] = t[k - 1]
               /\ w.slots[b][j].name = path[k] /\ w.slots[b][j].dir /\ w.slots[b][j].first = t[k]
  <2>1. PICK b \in Cluster, j \in 1 .. Slots :
          /\ Lists(v, own, D, b, j) /\ own[b] = t[k - 1]
          /\ v.slots[b][j].name = path[k] /\ v.slots[b][j].dir /\ v.slots[b][j].first = t[k]
    BY <1>1, <1>4 DEF Passes
  <2>2. Lists(w, own2, D2, b, j) /\ own2[b] = own[b] /\ w.slots[b][j] = v.slots[b][j]
    BY <2>1, <1>2 DEF Stays
  <2> QED BY <2>1, <2>2
<1>5. Passes(w, own2, D2, t, path, c)
  BY <1>1, <1>3, <1>4 DEF Passes
<1> QED BY <1>2, <1>5 DEF SoundAt, Leads

\* The current directory is still there, and so is the way to it.
LEMMA LeadsLoses ==
  ASSUME NEW v, NEW own, NEW rank, NEW D, Good(v, own, rank, D, none, 0),
         NEW path \in Seq(Names), NEW c, Leads(v, own, D, path, c),
         NEW w, NEW h, Loses(v, own, D, w, h), w.fat[c] # Free
  PROVE  SoundAt(w, path, c)
<1>0. Len(path) \in Nat
  OBVIOUS
<1>1. PICK t : Passes(v, own, D, t, path, c)
  BY DEF Leads
<1>2. /\ t[0] = rootCluster /\ t[Len(path)] = c
      /\ \A k \in Nat : k <= Len(path) => t[k] \in D
      /\ \A k \in Nat : 1 <= k /\ k <= Len(path) =>
           \E b \in Cluster, j \in 1 .. Slots :
             /\ Lists(v, own, D, b, j) /\ own[b] = t[k - 1]
             /\ v.slots[b][j].name = path[k] /\ v.slots[b][j].dir /\ v.slots[b][j].first = t[k]
  BY <1>1 DEF Passes
<1>3. PICK own2, rank2, D2 :
        /\ Good(w, own2, rank2, D2, none, 0) /\ D \ {h} \subseteq D2
        /\ \A b \in Cluster, j \in 1 .. Slots :
             Lists(v, own, D, b, j) /\ v.slots[b][j].dir /\ own[b] # h /\ v.slots[b][j].first # h =>
               Lists(w, own2, D2, b, j) /\ own2[b] = own[b] /\ w.slots[b][j] = v.slots[b][j]
  BY DEF Loses
<1>4. ASSUME NEW k \in Nat, k <= Len(path) PROVE t[k] # h
  <2> SUFFICES ASSUME t[k] = h PROVE FALSE
    OBVIOUS
  <2>1. h \in D
    BY <1>2, <1>4
  <2>2. w.fat[h] = Free /\ \A b \in Cluster, j \in 1 .. Slots : own[b] = h => ~IsChild(v.slots[b][j])
    BY <2>1 DEF Loses
  <2>3. CASE k = Len(path)
    BY <2>2, <2>3, <1>2
  <2>4. CASE k # Len(path)
    <3>1. k + 1 \in Nat /\ 1 <= k + 1 /\ k + 1 <= Len(path) /\ (k + 1) - 1 = k
      BY <2>4, <1>0, <1>4
    <3>2. PICK b \in Cluster, j \in 1 .. Slots : Lists(v, own, D, b, j) /\ own[b] = t[(k + 1) - 1]
      BY <3>1, <1>2
    <3> QED BY <3>1, <3>2, <2>2 DEF Lists
  <2> QED BY <2>3, <2>4
<1>5. \A k \in Nat : k <= Len(path) => t[k] \in D2
  BY <1>2, <1>3, <1>4
<1>6. ASSUME NEW k \in Nat, 1 <= k, k <= Len(path)
      PROVE  \E b \in Cluster, j \in 1 .. Slots :
               /\ Lists(w, own2, D2, b, j) /\ own2[b] = t[k - 1]
               /\ w.slots[b][j].name = path[k] /\ w.slots[b][j].dir /\ w.slots[b][j].first = t[k]
  <2>1. PICK b \in Cluster, j \in 1 .. Slots :
          /\ Lists(v, own, D, b, j) /\ own[b] = t[k - 1]
          /\ v.slots[b][j].name = path[k] /\ v.slots[b][j].dir /\ v.slots[b][j].first = t[k]
    BY <1>2, <1>6
  <2>2. k - 1 \in Nat /\ k - 1 <= Len(path)
    BY <1>0, <1>6
  <2>3. t[k - 1] # h /\ t[k] # h
    BY <2>2, <1>4, <1>6
  <2>4. Lists(w, own2, D2, b, j) /\ own2[b] = own[b] /\ w.slots[b][j] = v.slots[b][j]
    BY <2>1, <2>3, <1>3
  <2> QED BY <2>1, <2>4
<1>7. Passes(w, own2, D2, t, path, c)
  BY <1>2, <1>5, <1>6 DEF Passes
<1> QED BY <1>3, <1>7 DEF SoundAt, Leads

\* A command that leaves the volume alone, or lets it grow.
LEMMA SoundGrew ==
  ASSUME NEW own, NEW rank, NEW D, Good(vol, own, rank, D, none, 0), Leads(vol, own, D, cwdPath, cwd),
         NEW w, w = vol \/ Grew(vol, own, D, w)
  PROVE  SoundAt(w, cwdPath, cwd)
<1>1. CASE w = vol
  BY <1>1 DEF SoundAt
<1>2. CASE Grew(vol, own, D, w)
  BY <1>2, LeadsGrew
<1> QED BY <1>1, <1>2

\* What a command finds in the directory of its last component.
LEMMA LastSpec ==
  ASSUME NEW own, NEW rank, NEW D, Whole(vol, own, rank, D, none, 0), NEW f, Working(f),
         NEW parent, parent.cluster \in D, NEW path \in Paths, Last(path.comps) \in Names
  PROVE  /\ LastIn(f, parent, path).status \in {"ok", "notFound"}
         /\ LastIn(f, parent, path).status = "ok" => Picks(vol, own, D, LastIn(f, parent, path))
<1>1. Last(path.comps) # ".."
  BY NoDots
<1> QED BY <1>1, EntersSpec DEF LastIn

LEMMA WriteFileSpec ==
  ASSUME FileInv, Sound, NEW f, Working(f), NEW path \in Paths, NEW n \in Lengths, NEW append \in BOOLEAN,
         NEW parent, parent = resolveParent(f, path), NEW found, found = LastIn(f, parent, path),
         append => SizeIn(parent, found) + n <= MaxSize
  PROVE  SoundAt(writeFile(f, path, n, append, parent, found).v, cwdPath, cwd)
<1> DEFINE r == writeFile(f, path, n, append, parent, found)
           name == Last(path.comps)
           d == parent.cluster
           size == found.entry.size + n
           new == WriteNew(f, d, name, n, ensureChainSize(vol, f, none, n))
           longer == WriteOld(f, found, found.entry.size, size,
                              ensureChainSize(vol, f, found.entry.first, size))
           again == WriteOld(f, found, 0, n, ensureChainSize(freeChain(vol, f, found.entry.first), f, none, n))
<1>1. TypeInv /\ SoundAt(vol, cwdPath, cwd) /\ n \in Nat /\ n \in 0 .. MaxSize /\ n <= Slots
  BY Bounds DEF FileInv
<1>2. PICK own, rank, D : Good(vol, own, rank, D, none, 0) /\ Leads(vol, own, D, cwdPath, cwd)
  BY <1>1 DEF SoundAt
<1>3. Whole(vol, own, rank, D, none, 0) /\ cwd \in D
  BY <1>1, <1>2, LeadsIn DEF Good, TypeInv
<1>4. parent.status = "ok" => d \in D /\ name \in Names
  BY <1>1, <1>3, ParentSpec, ParentNamed DEF WalkIn
<1>5. r = IF parent.status # "ok" THEN Done(vol, parent.status)
          ELSE IF found.status = "notFound" THEN new
          ELSE IF IsDir(found) THEN Done(vol, "isDirectory")
          ELSE IF found.status # "ok" THEN Done(vol, found.status)
          ELSE IF append THEN longer ELSE again
  BY Zenon DEF writeFile
<1>6. ASSUME parent.status = "ok", found.status = "notFound"
      PROVE  Grew(vol, own, D, new.v)
  BY <1>1, <1>2, <1>4, <1>6, WriteNewSpec
<1>7. ASSUME parent.status = "ok", found.status = "ok", ~IsDir(found)
      PROVE  Grew(vol, own, D, again.v) /\ (append => Grew(vol, own, D, longer.v))
  <2>1. Picks(vol, own, D, found) /\ ~found.entry.dir
    BY <1>3, <1>4, <1>7, LastSpec DEF IsDir
  <2>2. Grew(vol, own, D, again.v)
    BY <2>1, <1>1, <1>2, OverwriteSpec
  <2>3. ASSUME append PROVE Grew(vol, own, D, longer.v)
    <3>1. found.entry.size \in 0 .. MaxSize
      BY <2>1, <1>2, PickedFile
    <3>2. size <= MaxSize
      BY <1>7, <2>3 DEF SizeIn
    <3>3. size \in 0 .. MaxSize
      BY <3>1, <3>2, <1>1, Bounds
    <3> QED BY <3>3, <2>1, <1>1, <1>2, AppendSpec
  <2> QED BY <2>2, <2>3
<1> HIDE DEF r, new, longer, again
<1>8. r.v = vol \/ Grew(vol, own, D, r.v)
  BY <1>5, <1>6, <1>7 DEF Done
<1>9. SoundAt(r.v, cwdPath, cwd)
  BY <1>2, <1>8, SoundGrew
<1> QED BY <1>9 DEF r

LEMMA TouchSpec ==
  ASSUME FileInv, Sound, NEW f, Working(f), NEW path \in Paths,
         NEW parent, parent = resolveParent(f, path), NEW found, found = LastIn(f, parent, path)
  PROVE  SoundAt(touch(f, path, parent, found).v, cwdPath, cwd)
<1> DEFINE r == touch(f, path, parent, found)
           name == Last(path.comps)
           d == parent.cluster
           e == Entry(name, FALSE, none, 0)
           made == createEntry(vol, f, d, e)
<1>1. TypeInv /\ SoundAt(vol, cwdPath, cwd) /\ vol \in Volume
  BY DEF FileInv, TypeInv
<1>2. PICK own, rank, D : Good(vol, own, rank, D, none, 0) /\ Leads(vol, own, D, cwdPath, cwd)
  BY <1>1 DEF SoundAt
<1>3. Whole(vol, own, rank, D, none, 0) /\ cwd \in D
  BY <1>1, <1>2, LeadsIn DEF Good, TypeInv
<1>4. parent.status = "ok" => d \in D /\ name \in Names
  BY <1>1, <1>3, ParentSpec, ParentNamed DEF WalkIn
<1>5. r = IF parent.status # "ok" THEN Done(vol, parent.status)
          ELSE IF found.status = "notFound" THEN made
          ELSE Done(vol, IF IsDir(found) THEN "isDirectory" ELSE found.status)
  BY Zenon DEF touch
<1>6. ASSUME parent.status = "ok" PROVE made.v = vol \/ Grew(vol, own, D, made.v)
  <2>1. e \in Stored /\ e.kind = "entry" /\ e.name = name /\ ~e.dir /\ e.first = none /\ e.size = 0
    <3>1. e \in Stored
      BY <1>4, <1>6, Bounds, EntryStored
    <3> QED BY <3>1 DEF Entry
  <2>2. Holds(vol, own, rank, none, 0)
    BY DEF Holds
  <2> HIDE DEF e
  <2>3. Enters(vol, own, rank, D, d, e)
    BY <2>1, <2>2, <1>4, <1>6 DEF Enters
  <2> QED BY <2>3, <1>1, <1>2, <1>4, <1>6, CreateSpec
<1> HIDE DEF r, made
<1>7. r.v = vol \/ Grew(vol, own, D, r.v)
  BY <1>5, <1>6 DEF Done
<1>8. SoundAt(r.v, cwdPath, cwd)
  BY <1>2, <1>7, SoundGrew
<1> QED BY <1>8 DEF r

LEMMA MakeDirectorySpec ==
  ASSUME FileInv, Sound, NEW f, Working(f), NEW path \in Paths,
         NEW parent, parent = resolveParent(f, path), NEW found, found = LastIn(f, parent, path)
  PROVE  SoundAt(makeDirectory(f, path, parent, found).v, cwdPath, cwd)
<1> DEFINE r == makeDirectory(f, path, parent, found)
           name == Last(path.comps)
           made == NewDirectory(f, parent, name, allocateCluster(vol, f))
<1>1. TypeInv /\ SoundAt(vol, cwdPath, cwd)
  BY DEF FileInv
<1>2. PICK own, rank, D : Good(vol, own, rank, D, none, 0) /\ Leads(vol, own, D, cwdPath, cwd)
  BY <1>1 DEF SoundAt
<1>3. Whole(vol, own, rank, D, none, 0) /\ cwd \in D
  BY <1>1, <1>2, LeadsIn DEF Good, TypeInv
<1>4. parent.status = "ok" => parent.cluster \in D /\ name \in Names
  BY <1>1, <1>3, ParentSpec, ParentNamed DEF WalkIn
<1>5. r = IF parent.status # "ok" THEN Done(vol, parent.status)
          ELSE IF found.status = "ok" THEN Done(vol, "alreadyExists")
          ELSE IF found.status # "notFound" THEN Done(vol, found.status)
          ELSE made
  BY Zenon DEF makeDirectory
<1>6. parent.status = "ok" => Grew(vol, own, D, made.v)
  BY <1>2, <1>4, NewDirectorySpec
<1> HIDE DEF r, made
<1>7. r.v = vol \/ Grew(vol, own, D, r.v)
  BY <1>5, <1>6 DEF Done
<1>8. SoundAt(r.v, cwdPath, cwd)
  BY <1>2, <1>7, SoundGrew
<1> QED BY <1>8 DEF r

LEMMA RemovePathSpec ==
  ASSUME FileInv, Sound, NEW f, Working(f), NEW path \in Paths,
         NEW parent, parent = ExistingParent(f, path), NEW found, found = LastIn(f, parent, path),
         remove(f, path, parent, found).v.fat[cwd] # Free
  PROVE  SoundAt(remove(f, path, parent, found).v, cwdPath, cwd)
<1> DEFINE r == remove(f, path, parent, found)
           h == found.entry.first
           put == writeEntry(freeChain(vol, f, h), f, found.pos, Deleted)
<1>1. TypeInv /\ SoundAt(vol, cwdPath, cwd)
  BY DEF FileInv
<1>2. PICK own, rank, D : Good(vol, own, rank, D, none, 0) /\ Leads(vol, own, D, cwdPath, cwd)
  BY <1>1 DEF SoundAt
<1>3. Whole(vol, own, rank, D, none, 0) /\ cwd \in D
  BY <1>1, <1>2, LeadsIn DEF Good, TypeInv
<1>4. parent.status = "ok" => parent.cluster \in D
  BY <1>1, <1>3, ParentSpec DEF WalkIn
<1>5. r = IF Last(path.comps) = ".." THEN Done(vol, "invalidName")
          ELSE IF parent.status # "ok" THEN Done(vol, parent.status)
          ELSE IF found.status # "ok" THEN Done(vol, found.status)
          ELSE IF found.entry.dir /\ ~directoryEmpty(vol, f, h) THEN Done(vol, "directoryNotEmpty")
          ELSE put
  BY Zenon DEF remove
<1>6. ASSUME Last(path.comps) # "..", parent.status = "ok", found.status = "ok",
             found.entry.dir => directoryEmpty(vol, f, h)
      PROVE  Loses(vol, own, D, put.v, h)
  <2>1. Last(path.comps) \in Names
    BY <1>6, PathTyped
  <2>2. Picks(vol, own, D, found)
    BY <2>1, <1>3, <1>4, <1>6, LastSpec
  <2> QED BY <2>2, <1>2, <1>6, RemoveSpec
<1> HIDE DEF r, put, h
<1>7. r.v = vol \/ Loses(vol, own, D, r.v, h)
  BY <1>5, <1>6 DEF Done
<1>8. r.v.fat[cwd] # Free
  BY DEF r
<1>9. SoundAt(r.v, cwdPath, cwd)
  <2>1. CASE r.v = vol
    BY <2>1, <1>1
  <2>2. CASE Loses(vol, own, D, r.v, h)
    <3>1. cwdPath \in Seq(Names)
      BY <1>1 DEF TypeInv
    <3> QED BY <2>2, <3>1, <1>2, <1>8, LeadsLoses
  <2> QED BY <2>1, <2>2, <1>7
<1> QED BY <1>9 DEF r

LEMMA ChangeDirectorySpec ==
  ASSUME FileInv, Sound, NEW f, Working(f), NEW path \in Paths, NEW at, at = PathWalk(f, path),
         at.walk.status = "ok"
  PROVE  SoundAt(vol, at.text, at.walk.cluster)
<1>1. TypeInv /\ SoundAt(vol, cwdPath, cwd)
  BY DEF FileInv
<1>2. PICK own, rank, D : Good(vol, own, rank, D, none, 0) /\ Leads(vol, own, D, cwdPath, cwd)
  BY <1>1 DEF SoundAt
<1>3. TextLeads(own, D, at)
  BY <1>1, <1>2, PathSpec DEF Good
<1> QED BY <1>2, <1>3 DEF TextLeads, SoundAt

\* No harm is met: the device works, and the current directory is still there.
LEMMA FinishSpec ==
  ASSUME NEW f, NEW r, Finish(f, r), Sound'
  PROVE  Sound /\ Working(f) /\ r.v.fat[cwd] # Free
<1>1. /\ harm' = "none"
      /\ harm' = IF ~Sound THEN harm
                 ELSE IF Struck(f) = "none" /\ r.v.fat[cwd] = Free THEN "orphan" ELSE Struck(f)
  BY DEF Finish, Sound
<1>2. Sound
  BY <1>1 DEF Sound
<1>3. Struck(f) = "none" /\ r.v.fat[cwd] # Free
  BY <1>1, <1>2
<1> QED BY <1>2, <1>3 DEF Struck, Working

LEMMA InitSpec == Init => FileInv
<1> SUFFICES ASSUME Init PROVE FileInv
  OBVIOUS
<1> DEFINE fat == [c \in Cluster |-> IF c = rootCluster THEN endOfChain ELSE Free]
           slots == [c \in Cluster |-> [i \in 1 .. Slots |-> End]]
           own == [c \in Cluster |-> IF c = rootCluster THEN rootCluster ELSE none]
           rank == [c \in Cluster |-> 1]
           D == {rootCluster}
<1>1. TypeInv
  BY InitType
<1>2. vol.fat = fat /\ vol.slots = slots /\ cwd = rootCluster /\ cwdPath = <<>>
  BY DEF Init
<1>3. /\ \A c \in Cluster : vol.fat[c] = IF c = rootCluster THEN endOfChain ELSE Free
      /\ \A c \in Cluster, i \in 1 .. Slots : vol.slots[c][i].kind = "end"
  BY <1>2, Plain
<1>4. /\ own \in [Cluster -> {none} \cup Cluster] /\ rank \in [Cluster -> Nat]
      /\ \A c \in Cluster : own[c] = (IF c = rootCluster THEN rootCluster ELSE none) /\ rank[c] = 1
  BY Sizes
<1> HIDE DEF fat, slots, own, rank
<1>5. Tiled(vol, own, rank)
  <2>1. \A c \in Cluster : vol.fat[c] \notin Cluster
    BY <1>3, Sizes
  <2> QED BY <2>1, <1>3, <1>4, Sizes DEF Tiled
<1>6. Scanned(vol, own, D)
  <2>1. \A c \in Cluster : vol.fat[c] \notin Cluster
    BY <1>3, Sizes
  <2> QED BY <2>1, <1>3 DEF Scanned
<1>7. \A c \in Cluster, i \in 1 .. Slots : ~Lists(vol, own, D, c, i) /\ vol.slots[c][i].kind # "entry"
  BY <1>3 DEF Lists, IsChild
<1>8. Named(vol, own, D, none, 0) /\ Written(vol, own, rank, D, none, 0)
  BY <1>7 DEF Named, Written, Counts
<1>9. Unique(vol, own, D)
  BY <1>7 DEF Unique
<1>10. Dotted(vol, own, D, none, 0)
  BY <1>4, <1>7, Sizes DEF Dotted
<1>11. Good(vol, own, rank, D, none, 0)
  BY <1>1, <1>5, <1>6, <1>8, <1>9, <1>10 DEF Good, Whole, TypeInv
<1>12. Leads(vol, own, D, cwdPath, cwd)
  BY <1>2, LeadsRoot
<1>13. SoundAt(vol, cwdPath, cwd)
  BY <1>11, <1>12 DEF SoundAt
<1> QED BY <1>1, <1>13 DEF FileInv

LEMMA NextSpec == FileInv /\ [Next]_vars => FileInv'
<1> SUFFICES ASSUME FileInv, [Next]_vars, Sound' PROVE SoundAt(vol', cwdPath', cwd')
  BY NextType DEF FileInv
<1>0. TypeInv
  BY DEF FileInv
<1>1. CASE WriteFile
  <2>1. PICK f \in Fault, path \in Paths, n \in Lengths, append \in BOOLEAN :
          \E parent \in {resolveParent(f, path)} : \E found \in {LastIn(f, parent, path)} :
            /\ append => SizeIn(parent, found) + n <= MaxSize
            /\ \E r \in {writeFile(f, path, n, append, parent, found)} : Finish(f, r)
    BY <1>1 DEF WriteFile
  <2>2. PICK parent, found :
          /\ parent = resolveParent(f, path) /\ found = LastIn(f, parent, path)
          /\ append => SizeIn(parent, found) + n <= MaxSize
          /\ Finish(f, writeFile(f, path, n, append, parent, found))
    BY <2>1
  <2> DEFINE r == writeFile(f, path, n, append, parent, found)
  <2>3. Sound /\ Working(f)
    BY <2>2, FinishSpec
  <2>4. SoundAt(r.v, cwdPath, cwd)
    BY <2>2, <2>3, WriteFileSpec
  <2> HIDE DEF r
  <2>5. vol' = r.v /\ cwdPath' = cwdPath /\ cwd' = cwd
    BY <2>2 DEF Finish, r
  <2> QED BY <2>4, <2>5
<1>2. CASE Touch
  <2>1. PICK f, path, parent, found :
          /\ f \in Fault /\ path \in Paths
          /\ parent = resolveParent(f, path) /\ found = LastIn(f, parent, path)
          /\ Finish(f, touch(f, path, parent, found))
    BY <1>2 DEF Touch
  <2> DEFINE r == touch(f, path, parent, found)
  <2>3. Sound /\ Working(f)
    BY <2>1, FinishSpec
  <2>4. SoundAt(r.v, cwdPath, cwd)
    BY <2>1, <2>3, TouchSpec
  <2> HIDE DEF r
  <2>5. vol' = r.v /\ cwdPath' = cwdPath /\ cwd' = cwd
    BY <2>1 DEF Finish, r
  <2> QED BY <2>4, <2>5
<1>3. CASE MakeDirectory
  <2>1. PICK f, path, parent, found :
          /\ f \in Fault /\ path \in Paths
          /\ parent = resolveParent(f, path) /\ found = LastIn(f, parent, path)
          /\ Finish(f, makeDirectory(f, path, parent, found))
    BY <1>3 DEF MakeDirectory
  <2> DEFINE r == makeDirectory(f, path, parent, found)
  <2>3. Sound /\ Working(f)
    BY <2>1, FinishSpec
  <2>4. SoundAt(r.v, cwdPath, cwd)
    BY <2>1, <2>3, MakeDirectorySpec
  <2> HIDE DEF r
  <2>5. vol' = r.v /\ cwdPath' = cwdPath /\ cwd' = cwd
    BY <2>1 DEF Finish, r
  <2> QED BY <2>4, <2>5
<1>4. CASE RemovePath
  <2>1. PICK f, path, parent, found :
          /\ f \in Fault /\ path \in Paths
          /\ parent = ExistingParent(f, path) /\ found = LastIn(f, parent, path)
          /\ Finish(f, remove(f, path, parent, found))
    BY <1>4 DEF RemovePath
  <2> DEFINE r == remove(f, path, parent, found)
  <2>3. Sound /\ Working(f) /\ r.v.fat[cwd] # Free
    BY <2>1, FinishSpec
  <2>4. SoundAt(r.v, cwdPath, cwd)
    BY <2>1, <2>3, RemovePathSpec
  <2> HIDE DEF r
  <2>5. vol' = r.v /\ cwdPath' = cwdPath /\ cwd' = cwd
    BY <2>1 DEF Finish, r
  <2> QED BY <2>4, <2>5
<1>5. CASE ChangeDirectory
  <2>1. PICK f, path, at :
          /\ f \in Fault /\ path \in Paths
          /\ at = PathWalk(f, path)
          /\ harm' = IF Sound THEN Struck(f) ELSE harm
          /\ cwd' = IF at.walk.status = "ok" THEN at.walk.cluster ELSE cwd
          /\ cwdPath' = IF at.walk.status = "ok" THEN at.text ELSE cwdPath
          /\ vol' = vol
    BY <1>5 DEF ChangeDirectory
  <2>2. Sound /\ Struck(f) = "none"
    BY <2>1 DEF Sound
  <2>3. Working(f)
    BY <2>2 DEF Struck, Working
  <2>4. at.walk.status = "ok" => SoundAt(vol, at.text, at.walk.cluster)
    BY <2>1, <2>2, <2>3, ChangeDirectorySpec
  <2>5. SoundAt(vol, cwdPath, cwd)
    BY <2>2 DEF FileInv
  <2> QED BY <2>1, <2>4, <2>5
<1>6. CASE Remount
  <2>1. vol' = vol /\ harm' = harm /\ cwd' = rootCluster /\ cwdPath' = <<>>
    BY <1>6 DEF Remount
  <2>2. PICK own, rank, D : Good(vol, own, rank, D, none, 0)
    BY <2>1 DEF FileInv, Sound, SoundAt
  <2>3. Leads(vol, own, D, <<>>, rootCluster)
    BY <2>2, LeadsRoot DEF Good, Whole, Dotted
  <2>4. SoundAt(vol, <<>>, rootCluster)
    BY <2>2, <2>3 DEF SoundAt
  <2> QED BY <2>1, <2>4
<1>7. CASE UNCHANGED vars
  <2>1. vol' = vol /\ harm' = harm /\ cwd' = cwd /\ cwdPath' = cwdPath
    BY <1>7 DEF vars
  <2> QED BY <2>1 DEF FileInv, Sound
<1> QED BY <1>1, <1>2, <1>3, <1>4, <1>5, <1>6, <1>7 DEF Next

\* Until a command removes the current directory or the device fails, the
\* volume is sound: one chain for every used cluster, one entry for every file
\* and directory, dot entries that tell where a directory is, text for every
\* slot of a file's size, and the path of the prompt leads to the current directory.
THEOREM VolumeSound == Spec => []FileInv
<1>1. Init => FileInv
  BY InitSpec
<1>2. FileInv /\ [Next]_vars => FileInv'
  BY NextSpec
<1> QED BY <1>1, <1>2, PTL DEF Spec

--------------------------------------------------------------------------------
(* The tree of a sound volume *)

\* What a scan of a directory reports is what its clusters hold: no entry is
\* behind a never-used slot.
LEMMA EntriesSpec ==
  ASSUME NEW v, NEW own, NEW rank, NEW D, Whole(v, own, rank, D, none, 0), NEW d \in D, NEW x
  PROVE  x \in Entries(v, d) <=>
           \E c \in Cluster, i \in 1 .. Slots : own[c] = d /\ x = v.slots[c][i] /\ x.kind = "entry"
<1> DEFINE s == Chain(v, Healthy, d)
           ended(k, i) == \E l \in 1 .. Len(s), j \in 1 .. Slots :
                            (l < k \/ (l = k /\ j <= i)) /\ v.slots[s[l]][j] = End
           scanned == {p \in (1 .. Len(s)) \X (1 .. Slots) : ~ended(p[1], p[2])}
           slots == {v.slots[s[p[1]]][p[2]] : p \in scanned}
<1>1. Entries(v, d) = {slot \in slots : slot.kind = "entry"}
  BY Zenon DEF Entries
<1>2. v \in Volume /\ Tiled(v, own, rank) /\ Scanned(v, own, D) /\ d \in Cluster /\ own[d] = d
  BY DEF Whole, Dotted
<1>3. Traces(v, own, rank, d, s)
  <2>1. Working(Healthy)
    BY DEF Working, Healthy
  <2> QED BY <2>1, <1>2, ChainTraces
<1> HIDE DEF s
<1>4. /\ s \in Seq(Cluster) /\ Len(s) \in Nat
      /\ \A k \in Nat : 1 <= k /\ k <= Len(s) => s[k] \in Cluster /\ own[s[k]] = d /\ rank[s[k]] = k
      /\ \A c \in Cluster : own[c] = d => 1 <= rank[c] /\ rank[c] <= Len(s) /\ s[rank[c]] = c
  BY <1>3 DEF Traces
<1>5. \A k \in 1 .. Len(s) : s[k] \in Cluster /\ own[s[k]] = d /\ rank[s[k]] = k
  BY <1>4
<1>6. ASSUME NEW k \in 1 .. Len(s), NEW i \in 1 .. Slots, v.slots[s[k]][i].kind = "entry"
      PROVE  ~ended(k, i)
  <2> SUFFICES ASSUME NEW l \in 1 .. Len(s), NEW j \in 1 .. Slots,
                      l < k \/ (l = k /\ j <= i), v.slots[s[l]][j] = End
               PROVE  FALSE
    OBVIOUS
  <2>1. v.slots[s[l]][j].kind = "end"
    BY DEF End
  <2>2. /\ s[l] \in Cluster /\ s[k] \in Cluster /\ own[s[l]] = d /\ own[s[k]] = own[s[l]] /\ d # none
        /\ rank[s[l]] < rank[s[k]] \/ (s[k] = s[l] /\ j <= i)
    BY <1>2, <1>5, Sizes
  <2>3. v.slots[s[k]][i].kind = "end"
    BY <2>1, <2>2, <1>2, EndsBehind
  <2> QED BY <2>3, <1>6
<1> HIDE DEF ended
<1>7. ASSUME x \in Entries(v, d)
      PROVE  \E c \in Cluster, i \in 1 .. Slots : own[c] = d /\ x = v.slots[c][i] /\ x.kind = "entry"
  <2>1. x \in slots /\ x.kind = "entry"
    <3> HIDE DEF slots
    <3> QED BY <1>1, <1>7
  <2>2. PICK p \in (1 .. Len(s)) \X (1 .. Slots) : x = v.slots[s[p[1]]][p[2]]
    BY <2>1
  <2>3. p[1] \in 1 .. Len(s) /\ p[2] \in 1 .. Slots
    BY <2>2
  <2> QED BY <2>1, <2>2, <2>3, <1>5
<1>8. ASSUME NEW c \in Cluster, NEW i \in 1 .. Slots, own[c] = d, x = v.slots[c][i], x.kind = "entry"
      PROVE  x \in Entries(v, d)
  <2>1. rank[c] \in 1 .. Len(s) /\ s[rank[c]] = c
    <3>1. rank[c] \in Nat
      BY <1>2, TileFacts
    <3> QED BY <3>1, <1>4, <1>8
  <2>2. ~ended(rank[c], i)
    BY <2>1, <1>6, <1>8
  <2> DEFINE p == <<rank[c], i>>
  <2>3. p \in scanned
    BY <2>1, <2>2
  <2>4. x = v.slots[s[p[1]]][p[2]]
    BY <2>1, <1>8
  <2>5. x \in slots
    <3> HIDE DEF scanned, p
    <3> QED BY <2>3, <2>4
  <2> HIDE DEF slots
  <2> QED BY <2>5, <1>1, <1>8
<1> QED BY <1>7, <1>8

LEMMA ChildrenSpec ==
  ASSUME NEW v, NEW own, NEW rank, NEW D, Whole(v, own, rank, D, none, 0), NEW d \in D, NEW x
  PROVE  x \in Children(v, d) <=>
           \E c \in Cluster, i \in 1 .. Slots : own[c] = d /\ x = v.slots[c][i] /\ Lists(v, own, D, c, i)
<1>1. x \in Entries(v, d) <=>
        \E c \in Cluster, i \in 1 .. Slots : own[c] = d /\ x = v.slots[c][i] /\ x.kind = "entry"
  BY EntriesSpec
<1> QED BY <1>1 DEF Children, Lists, IsChild

\* The nodes of a tree.
Node == [path: Seq(Names), dir: BOOLEAN, first: {none} \cup Cluster, size: 0 .. MaxSize,
         parent: {none} \cup Cluster]

Branch(names, e, d) ==
  [path |-> Append(names, e.name), dir |-> e.dir, first |-> e.first, size |-> e.size, parent |-> d]

LEMMA BranchesType ==
  ASSUME NEW v \in Volume, NEW d \in {none} \cup Cluster, NEW names \in Seq(Names)
  PROVE  Branches(v, d, names) \in SUBSET Node
<1> DEFINE s == Chain(v, Healthy, d)
<1>1. s \in Seq(Cluster)
  BY ChainWalks DEF IsWalk
<1> HIDE DEF s
<1>2. ASSUME NEW e \in Entries(v, d) PROVE e \in Stored /\ e.kind = "entry"
  <2>1. PICK p \in (1 .. Len(s)) \X (1 .. Slots) : e = v.slots[s[p[1]]][p[2]] /\ e.kind = "entry"
    BY <1>2 DEF Entries, s
  <2>2. p[1] \in 1 .. Len(s) /\ p[2] \in 1 .. Slots
    BY <2>1
  <2>3. s[p[1]] \in Cluster
    BY <2>2, <1>1
  <2>4. v.slots[s[p[1]]][p[2]] \in Stored
    BY <2>2, <2>3, SlotIn
  <2> QED BY <2>1, <2>4
<1>3. ASSUME NEW e \in Children(v, d) PROVE Branch(names, e, d) \in Node
  <2>1. e \in Stored /\ e.kind = "entry" /\ e.name \notin {".", ".."}
    BY <1>2, <1>3 DEF Children
  <2>2. e.name \in Names /\ e.dir \in BOOLEAN /\ e.first \in {none} \cup Cluster /\ e.size \in 0 .. MaxSize
    BY <2>1, Slotted
  <2>3. Append(names, e.name) \in Seq(Names)
    BY <2>2
  <2> QED BY <2>2, <2>3 DEF Branch, Node
<1>4. Branches(v, d, names) = {Branch(names, e, d) : e \in Children(v, d)}
  BY Zenon DEF Branches, Branch
<1> QED BY <1>3, <1>4

\* The levels of the tree, one after the other.
Below(v, level) == UNION {Branches(v, t.first, t.path) : t \in {u \in level : u.dir}}

Levels(v, h) ==
  /\ h[0] = Branches(v, rootCluster, <<>>)
  /\ \A k \in Nat : 1 <= k /\ k <= Clusters => h[k] = Below(v, h[k - 1])
  /\ \A k \in Nat : k <= Clusters => h[k] \in SUBSET Node
  /\ \A t : t \in Tree(v) <=> \E k \in Nat : k <= Clusters /\ t \in h[k]

LEMMA BelowType ==
  ASSUME NEW v \in Volume, NEW level \in SUBSET Node
  PROVE  Below(v, level) \in SUBSET Node
<1>1. ASSUME NEW t \in level PROVE Branches(v, t.first, t.path) \in SUBSET Node
  <2>1. t.first \in {none} \cup Cluster /\ t.path \in Seq(Names)
    BY DEF Node
  <2> QED BY <2>1, BranchesType
<1> QED BY <1>1 DEF Below

LEMMA TreeUnfolds ==
  ASSUME NEW v \in Volume
  PROVE  \E h : Levels(v, h)
<1> DEFINE n == Clusters
           S == SUBSET Node
           a == Branches(v, rootCluster, <<>>)
           F == [p \in S \X Nat |-> Below(v, p[1])]
           Is(h) == h = [k \in 0 .. n |->
                           IF k = 0 THEN Branches(v, rootCluster, <<>>)
                           ELSE UNION {Branches(v, t.first, t.path) : t \in {u \in h[k - 1] : u.dir}}]
           at == CHOOSE h : Is(h)
<1>1. n \in Nat /\ n >= 1
  BY Sizes
<1>2. a \in S
  <2>1. rootCluster \in {none} \cup Cluster /\ <<>> \in Seq(Names)
    BY Sizes
  <2> QED BY <2>1, BranchesType
<1>3. F \in [S \X Nat -> S]
  <2>1. ASSUME NEW p \in S \X Nat PROVE Below(v, p[1]) \in S
    <3>1. p[1] \in SUBSET Node
      OBVIOUS
    <3> QED BY <3>1, BelowType
  <2> HIDE DEF S
  <2> QED BY <2>1
<1>4. PICK g \in [0 .. n -> S] : IsRun(g, a, n, F)
  <2> HIDE DEF S, F, n, a
  <2> QED BY <1>1, <1>2, <1>3, Iterated
<1>5. Is(g)
  <2>1. ASSUME NEW k \in 1 .. n PROVE F[<<g[k - 1], k>>] = Below(v, g[k - 1])
    <3>1. k - 1 \in 0 .. n /\ k \in Nat
      BY <1>1
    <3>2. g[k - 1] \in S
      <4> HIDE DEF S, n
      <4> QED BY <3>1, <1>4
    <3> HIDE DEF S
    <3> QED BY <3>1, <3>2
  <2> HIDE DEF F, a
  <2>2. \A k \in 0 .. n : (IF k = 0 THEN a ELSE F[<<g[k - 1], k>>]) = (IF k = 0 THEN a ELSE Below(v, g[k - 1]))
    BY <1>1, <2>1
  <2> HIDE DEF n
  <2>3. g = [k \in 0 .. n |-> IF k = 0 THEN a ELSE Below(v, g[k - 1])]
    BY <1>4, <2>2, Zenon DEF IsRun
  <2> QED BY <2>3, Zenon DEF Below, a
<1>6. Is(at)
  <2> HIDE DEF Is
  <2> QED BY <1>5, Zenon
<1>7. Tree(v) = UNION {at[k] : k \in 0 .. Clusters}
  BY Zenon DEF Tree
<1> HIDE DEF at
<1>8. at[0] = a /\ \A k \in 1 .. n : at[k] = Below(v, at[k - 1])
  <2>1. at = [k \in 0 .. n |-> IF k = 0 THEN a ELSE Below(v, at[k - 1])]
    BY <1>6, Zenon DEF Below
  <2> HIDE DEF Is, n, a
  <2>2. 0 \in 0 .. n /\ \A k \in 1 .. n : k \in 0 .. n /\ k # 0
    BY <1>1
  <2>3. at[0] = a
    BY <2>1, <2>2, Zenon
  <2>4. ASSUME NEW k \in 1 .. n PROVE at[k] = Below(v, at[k - 1])
    BY <2>1, <2>2, Zenon
  <2> QED BY <2>3, <2>4
<1> HIDE DEF Is
<1> DEFINE T == {k \in Nat : k <= n => at[k] \in S}
<1>9. T = Nat
  <2>1. 0 \in T
    <3> HIDE DEF S, a
    <3> QED BY <1>2, <1>8
  <2>2. ASSUME NEW k \in T PROVE k + 1 \in T
    <3>1. k \in Nat /\ k + 1 \in Nat
      OBVIOUS
    <3>2. CASE k + 1 <= n
      <4>1. k <= n /\ k + 1 - 1 = k /\ k + 1 \in 1 .. n
        BY <3>1, <3>2, <1>1
      <4>2. at[k] \in S
        <5> HIDE DEF S, n
        <5> QED BY <4>1
      <4>3. at[k + 1] \in S
        BY <4>1, <4>2, <1>8, BelowType
      <4> QED BY <3>1, <4>3
    <3>3. CASE ~(k + 1 <= n)
      BY <3>1, <3>3
    <3> QED BY <3>2, <3>3
  <2>3. T \in SUBSET Nat
    OBVIOUS
  <2> HIDE DEF T
  <2> QED BY <2>1, <2>2, <2>3, HandedOn
<1>10. \A k \in Nat : k <= n => at[k] \in S
  <2>1. \A k \in Nat : k \in T
    BY <1>9, Zenon
  <2> HIDE DEF S
  <2> QED BY <2>1
<1>11. \A t : t \in Tree(v) <=> \E k \in Nat : k <= n /\ t \in at[k]
  <2>1. \A k : k \in 0 .. n <=> k \in Nat /\ k <= n
    BY <1>1
  <2> QED BY <2>1, <1>7
<1>12. \A k \in Nat : 1 <= k /\ k <= n => at[k] = Below(v, at[k - 1])
  <2>1. \A k \in Nat : 1 <= k /\ k <= n => k \in 1 .. n
    BY <1>1
  <2> QED BY <2>1, <1>8
<1>13. Levels(v, at)
  BY <1>8, <1>10, <1>11, <1>12 DEF Levels
<1> QED BY <1>13

LEMMA SameSeq ==
  ASSUME NEW S, NEW s \in Seq(S), NEW t \in Seq(S), Len(s) = Len(t),
         \A k \in Nat : 1 <= k /\ k <= Len(s) => s[k] = t[k]
  PROVE  s = t
<1>1. s \in [1 .. Len(s) -> S] /\ t \in [1 .. Len(t) -> S]
  OBVIOUS
<1>2. \A k \in 1 .. Len(s) : s[k] = t[k]
  OBVIOUS
<1> QED BY <1>1, <1>2

\* A node is the entry of a directory, under the names that lead there.
IsNode(v, own, D, t) ==
  \E names \in Seq(Names), c \in Cluster, i \in 1 .. Slots :
    /\ Lists(v, own, D, c, i) /\ Leads(v, own, D, names, own[c])
    /\ t = Branch(names, v.slots[c][i], own[c])

LEMMA BranchesSpec ==
  ASSUME NEW v, NEW own, NEW rank, NEW D, Whole(v, own, rank, D, none, 0),
         NEW names \in Seq(Names), NEW d, Leads(v, own, D, names, d)
  PROVE  /\ \A t \in Branches(v, d, names) : IsNode(v, own, D, t)
         /\ \A c \in Cluster, i \in 1 .. Slots : Lists(v, own, D, c, i) /\ own[c] = d =>
              Branch(names, v.slots[c][i], d) \in Branches(v, d, names)
<1>1. d \in D
  BY LeadsIn
<1>2. Branches(v, d, names) = {Branch(names, e, d) : e \in Children(v, d)}
  BY Zenon DEF Branches, Branch
<1>3. ASSUME NEW e \in Children(v, d) PROVE IsNode(v, own, D, Branch(names, e, d))
  <2>1. PICK c \in Cluster, i \in 1 .. Slots : own[c] = d /\ e = v.slots[c][i] /\ Lists(v, own, D, c, i)
    BY <1>1, <1>3, ChildrenSpec
  <2> QED BY <2>1 DEF IsNode
<1>4. ASSUME NEW c \in Cluster, NEW i \in 1 .. Slots, Lists(v, own, D, c, i), own[c] = d
      PROVE  v.slots[c][i] \in Children(v, d)
  BY <1>1, <1>4, ChildrenSpec
<1> QED BY <1>2, <1>3, <1>4

\* The entry a node stands for.
LEMMA NodeSpec ==
  ASSUME NEW v, NEW own, NEW rank, NEW D, Whole(v, own, rank, D, none, 0), NEW t, IsNode(v, own, D, t)
  PROVE  \E names \in Seq(Names), c \in Cluster, i \in 1 .. Slots :
           /\ Lists(v, own, D, c, i) /\ Counts(v, own, D, none, 0, c, i)
           /\ Leads(v, own, D, names, t.parent) /\ own[c] = t.parent /\ t.parent \in D
           /\ v.slots[c][i] \in Stored /\ v.slots[c][i].name \in Names
           /\ t.path = Append(names, v.slots[c][i].name) /\ t.dir = v.slots[c][i].dir
           /\ t.first = v.slots[c][i].first /\ t.size = v.slots[c][i].size
           /\ t.dir => t.first \in D /\ Leads(v, own, D, t.path, t.first)
           /\ t.first # none => t.first \in Cluster /\ own[t.first] = t.first /\ t.first # rootCluster
<1>1. PICK names \in Seq(Names), c \in Cluster, i \in 1 .. Slots :
        /\ Lists(v, own, D, c, i) /\ Leads(v, own, D, names, own[c])
        /\ t = Branch(names, v.slots[c][i], own[c])
  BY DEF IsNode
<1> DEFINE e == v.slots[c][i]
<1>2. /\ t.path = Append(names, e.name) /\ t.dir = e.dir /\ t.first = e.first /\ t.size = e.size
      /\ t.parent = own[c]
  <2> HIDE DEF e
  <2> QED BY <1>1 DEF Branch, e
<1>3. v \in Volume /\ Named(v, own, D, none, 0)
  BY DEF Whole
<1>4. e \in Stored /\ IsChild(e)
  BY <1>1, <1>3, SlotIn DEF Lists
<1>5. e.name \in Names /\ e.dir \in BOOLEAN /\ e.first \in {none} \cup Cluster /\ (e.dir => e.first \in Cluster)
  <2> HIDE DEF e
  <2> QED BY <1>4, Slotted DEF IsChild
<1>6. Counts(v, own, D, none, 0, c, i)
  BY <1>1, Sizes DEF Counts
<1>7. own[c] \in D
  BY <1>1 DEF Lists
<1>8. e.first # none => own[e.first] = e.first /\ e.first # rootCluster /\ (e.first \in D <=> e.dir)
  BY <1>3, <1>6 DEF Named
<1>9. e.dir => e.first \in D /\ Leads(v, own, D, Append(names, e.name), e.first)
  <2> SUFFICES ASSUME e.dir PROVE e.first \in D /\ Leads(v, own, D, Append(names, e.name), e.first)
    OBVIOUS
  <2>1. e.first \in D
    BY <1>5, <1>8, Sizes
  <2> QED BY <2>1, <1>1, <1>5, DescendSpec
<1> HIDE DEF e
<1>10. t.first # none => t.first \in Cluster /\ own[t.first] = t.first /\ t.first # rootCluster
  BY <1>2, <1>5, <1>8
<1>11. t.dir => t.first \in D /\ Leads(v, own, D, t.path, t.first)
  BY <1>2, <1>9
<1>12. Leads(v, own, D, names, t.parent)
  BY <1>1, <1>2
<1>13. Lists(v, own, D, c, i)
  BY <1>1
<1> QED BY <1>2, <1>4, <1>5, <1>6, <1>7, <1>10, <1>11, <1>12, <1>13 DEF e

LEMMA TreeNodes ==
  ASSUME NEW v, NEW own, NEW rank, NEW D, Whole(v, own, rank, D, none, 0), NEW h, Levels(v, h)
  PROVE  \A k \in Nat : k <= Clusters => \A t \in h[k] : IsNode(v, own, D, t)
<1>1. /\ h[0] = Branches(v, rootCluster, <<>>)
      /\ \A k \in Nat : 1 <= k /\ k <= Clusters => h[k] = Below(v, h[k - 1])
      /\ \A k \in Nat : k <= Clusters => h[k] \in SUBSET Node
  BY DEF Levels
<1>2. Clusters \in Nat
  BY Sizes
<1>3. rootCluster \in D
  BY DEF Whole, Dotted
<1> DEFINE T == {k \in Nat : k <= Clusters => \A t \in h[k] : IsNode(v, own, D, t)}
<1>4. 0 \in T
  <2>1. <<>> \in Seq(Names) /\ Leads(v, own, D, <<>>, rootCluster)
    BY <1>3, LeadsRoot
  <2>2. \A t \in h[0] : IsNode(v, own, D, t)
    BY <2>1, <1>1, BranchesSpec
  <2> QED BY <2>2
<1>5. ASSUME NEW k \in T PROVE k + 1 \in T
  <2>1. k \in Nat /\ k + 1 \in Nat
    OBVIOUS
  <2>2. CASE k + 1 <= Clusters
    <3>1. k <= Clusters /\ 1 <= k + 1 /\ k + 1 - 1 = k
      BY <2>1, <2>2, <1>2
    <3>2. h[k + 1] = Below(v, h[k]) /\ h[k] \in SUBSET Node
      BY <2>1, <2>2, <3>1, <1>1
    <3>3. \A t \in h[k] : IsNode(v, own, D, t)
      BY <3>1
    <3>4. ASSUME NEW x \in h[k + 1] PROVE IsNode(v, own, D, x)
      <4>1. PICK t \in h[k] : t.dir /\ x \in Branches(v, t.first, t.path)
        BY <3>2, <3>4 DEF Below
      <4>2. t.path \in Seq(Names)
        BY <3>2 DEF Node
      <4>3. IsNode(v, own, D, t)
        BY <3>3
      <4>4. Leads(v, own, D, t.path, t.first)
        BY <4>1, <4>3, NodeSpec
      <4> QED BY <4>1, <4>2, <4>4, BranchesSpec
    <3> QED BY <2>1, <3>4
  <2>3. CASE ~(k + 1 <= Clusters)
    BY <2>1, <2>3
  <2> QED BY <2>2, <2>3
<1>6. T \in SUBSET Nat
  OBVIOUS
<1>7. T = Nat
  <2> HIDE DEF T
  <2> QED BY <1>4, <1>5, <1>6, HandedOn
<1>8. \A k \in Nat : k \in T
  BY <1>7, Zenon
<1> QED BY <1>8

LEMMA TreeSpec ==
  ASSUME NEW v, NEW own, NEW rank, NEW D, Whole(v, own, rank, D, none, 0), NEW t \in Tree(v)
  PROVE  IsNode(v, own, D, t) /\ t \in Node
<1>1. v \in Volume
  BY DEF Whole
<1>2. PICK h : Levels(v, h)
  BY <1>1, TreeUnfolds
<1>3. PICK k \in Nat : k <= Clusters /\ t \in h[k]
  BY <1>2 DEF Levels
<1>4. h[k] \in SUBSET Node
  BY <1>2, <1>3 DEF Levels
<1> QED BY <1>2, <1>3, <1>4, TreeNodes

\* One path leads to a directory: the one entry that names it is in one
\* directory, and none names the root.
LEMMA PathsUnique ==
  ASSUME NEW v, NEW own, NEW rank, NEW D, Whole(v, own, rank, D, none, 0),
         NEW p \in Seq(Names), NEW q \in Seq(Names), NEW d, Leads(v, own, D, p, d), Leads(v, own, D, q, d)
  PROVE  p = q
<1> DEFINE m == Len(p)
           n == Len(q)
<1>0. m \in Nat /\ n \in Nat
  OBVIOUS
<1>1. PICK t : Passes(v, own, D, t, p, d)
  BY DEF Leads
<1>2. PICK u : Passes(v, own, D, u, q, d)
  BY DEF Leads
<1>3. /\ t[0] = rootCluster /\ t[m] = d
      /\ \A k \in Nat : k <= m => t[k] \in D
      /\ \A k \in Nat : 1 <= k /\ k <= m =>
           \E b \in Cluster, j \in 1 .. Slots :
             /\ Lists(v, own, D, b, j) /\ own[b] = t[k - 1]
             /\ v.slots[b][j].name = p[k] /\ v.slots[b][j].dir /\ v.slots[b][j].first = t[k]
  BY <1>1 DEF Passes
<1>4. /\ u[0] = rootCluster /\ u[n] = d
      /\ \A k \in Nat : k <= n => u[k] \in D
      /\ \A k \in Nat : 1 <= k /\ k <= n =>
           \E b \in Cluster, j \in 1 .. Slots :
             /\ Lists(v, own, D, b, j) /\ own[b] = u[k - 1]
             /\ v.slots[b][j].name = q[k] /\ v.slots[b][j].dir /\ v.slots[b][j].first = u[k]
  BY <1>2 DEF Passes
<1>5. Named(v, own, D, none, 0) /\ D \subseteq Cluster
  BY DEF Whole, Dotted
<1>6. \A c, i : Lists(v, own, D, c, i) => Counts(v, own, D, none, 0, c, i)
  BY Sizes DEF Counts, Lists
<1>7. ASSUME NEW k \in Nat, 1 <= k, k <= m PROVE t[k] # rootCluster
  <2>1. PICK b \in Cluster, j \in 1 .. Slots : Lists(v, own, D, b, j) /\ v.slots[b][j].first = t[k]
    BY <1>3, <1>7
  <2>2. t[k] # none
    BY <1>3, <1>5, <1>7, Sizes
  <2> QED BY <2>1, <2>2, <1>5, <1>6 DEF Named
<1>8. ASSUME NEW k \in Nat, 1 <= k, k <= n PROVE u[k] # rootCluster
  <2>1. PICK b \in Cluster, j \in 1 .. Slots : Lists(v, own, D, b, j) /\ v.slots[b][j].first = u[k]
    BY <1>4, <1>8
  <2>2. u[k] # none
    BY <1>4, <1>5, <1>8, Sizes
  <2> QED BY <2>1, <2>2, <1>5, <1>6 DEF Named
<1>9. ASSUME NEW k \in Nat, NEW l \in Nat, 1 <= k, k <= m, 1 <= l, l <= n, t[k] = u[l]
      PROVE  t[k - 1] = u[l - 1] /\ p[k] = q[l]
  <2>1. PICK b \in Cluster, j \in 1 .. Slots :
             /\ Lists(v, own, D, b, j) /\ own[b] = t[k - 1]
             /\ v.slots[b][j].name = p[k] /\ v.slots[b][j].first = t[k]
    BY <1>3, <1>9
  <2>2. PICK c \in Cluster, i \in 1 .. Slots :
             /\ Lists(v, own, D, c, i) /\ own[c] = u[l - 1]
             /\ v.slots[c][i].name = q[l] /\ v.slots[c][i].first = u[l]
    BY <1>4, <1>9
  <2>3. t[k] # none
    BY <1>3, <1>5, <1>9, Sizes
  <2>4. b = c /\ j = i
    BY <2>1, <2>2, <2>3, <1>5, <1>6, <1>9 DEF Named
  <2> QED BY <2>1, <2>2, <2>4
<1> HIDE DEF m, n
<1> DEFINE T == {x \in Nat : x <= m /\ x <= n => t[m - x] = u[n - x]}
<1>10. T = Nat
  <2>1. 0 \in T
    <3>1. m - 0 = m /\ n - 0 = n
      BY <1>0
    <3> QED BY <3>1, <1>3, <1>4
  <2>2. ASSUME NEW x \in T PROVE x + 1 \in T
    <3>1. x \in Nat /\ x + 1 \in Nat
      OBVIOUS
    <3>2. CASE x + 1 <= m /\ x + 1 <= n
      <4>1. /\ x <= m /\ x <= n /\ m - x \in Nat /\ n - x \in Nat /\ 1 <= m - x /\ m - x <= m
            /\ 1 <= n - x /\ n - x <= n /\ (m - x) - 1 = m - (x + 1) /\ (n - x) - 1 = n - (x + 1)
        BY <3>1, <3>2, <1>0
      <4>2. t[m - x] = u[n - x]
        BY <4>1
      <4>3. t[(m - x) - 1] = u[(n - x) - 1]
        BY <4>1, <4>2, <1>9
      <4> QED BY <3>1, <4>1, <4>3
    <3>3. CASE ~(x + 1 <= m /\ x + 1 <= n)
      BY <3>1, <3>3
    <3> QED BY <3>2, <3>3
  <2>3. T \in SUBSET Nat
    OBVIOUS
  <2> HIDE DEF T
  <2> QED BY <2>1, <2>2, <2>3, HandedOn
<1>11. \A x \in Nat : x <= m /\ x <= n => t[m - x] = u[n - x]
  <2>1. \A x \in Nat : x \in T
    BY <1>10, Zenon
  <2> QED BY <2>1
<1>12. m = n
  <2>1. ~(m < n)
    <3> SUFFICES ASSUME m < n PROVE FALSE
      OBVIOUS
    <3>1. m <= m /\ m <= n /\ m - m = 0 /\ n - m \in Nat /\ 1 <= n - m /\ n - m <= n
      BY <1>0
    <3>2. t[0] = u[n - m]
      BY <3>1, <1>0, <1>11
    <3> QED BY <3>1, <3>2, <1>3, <1>8
  <2>2. ~(n < m)
    <3> SUFFICES ASSUME n < m PROVE FALSE
      OBVIOUS
    <3>1. n <= n /\ n <= m /\ n - n = 0 /\ m - n \in Nat /\ 1 <= m - n /\ m - n <= m
      BY <1>0
    <3>2. t[m - n] = u[0]
      BY <3>1, <1>0, <1>11
    <3> QED BY <3>1, <3>2, <1>4, <1>7
  <2> QED BY <2>1, <2>2, <1>0
<1>13. ASSUME NEW k \in Nat, 1 <= k, k <= m PROVE p[k] = q[k]
  <2>1. m - k \in Nat /\ m - k <= m /\ m - (m - k) = k /\ k <= n /\ n - (m - k) = k /\ m - k <= n
    BY <1>0, <1>12, <1>13
  <2>2. t[k] = u[k]
    BY <2>1, <1>11
  <2> QED BY <2>1, <2>2, <1>9, <1>13
<1> QED BY <1>12, <1>13, SameSeq DEF m, n

--------------------------------------------------------------------------------
(* What the tree of a sound volume shows *)

LEMMA ReadableSpec ==
  ASSUME NEW v, NEW own, NEW rank, NEW D, Whole(v, own, rank, D, none, 0),
         NEW t, t.size \in Nat, t.first # none => t.first \in Cluster /\ own[t.first] = t.first,
         Holds(v, own, rank, t.first, t.size)
  PROVE  readable(v, t)
<1> DEFINE s == Chain(v, Healthy, t.first)
           m == t.size
<1>1. v \in Volume /\ Tiled(v, own, rank) /\ Working(Healthy)
  BY DEF Whole, Working, Healthy
<1>2. Len(s) \in Nat
  BY <1>1, ChainWalks DEF IsWalk
<1>3. t.first # none => Traces(v, own, rank, t.first, s)
  BY <1>1, ChainTraces
<1>4. Slots \in Nat /\ Slots >= 2 /\ m \in Nat
  BY Sizes
<1> HIDE DEF s
<1>5. ASSUME NEW n \in Nat, 1 <= n, n <= m
      PROVE  /\ ((n - 1) \div Slots) + 1 <= Len(s)
             /\ v.slots[s[((n - 1) \div Slots) + 1]][((n - 1) % Slots) + 1] = Text
  <2>1. PICK c \in Cluster : /\ own[c] = t.first /\ t.first # none /\ rank[c] = ((n - 1) \div Slots) + 1
                             /\ v.slots[c][((n - 1) % Slots) + 1] = Text
    BY <1>5 DEF Holds
  <2>2. rank[c] <= Len(s) /\ s[rank[c]] = c
    BY <2>1, <1>3 DEF Traces
  <2> QED BY <2>1, <2>2
<1>6. m <= Len(s) * Slots
  <2>1. CASE m = 0
    BY <2>1, <1>2, <1>4, SMT
  <2>2. CASE m # 0
    <3> DEFINE q == (m - 1) \div Slots
               r == (m - 1) % Slots
    <3>1. m \in Nat /\ 1 <= m /\ m <= m
      BY <2>2, <1>4
    <3>2. r + 1 \in 1 .. Slots /\ q \in Nat /\ m - 1 = Slots * q + r
      BY <3>1, Within
    <3>3. q + 1 <= Len(s)
      BY <3>1, <1>5
    <3>4. r \in Int /\ r + 1 <= Slots
      <4>1. m - 1 \in Nat
        BY <3>1
      <4> HIDE DEF m
      <4>2. r \in 0 .. Slots - 1
        BY <4>1, <1>4, SMT
      <4> HIDE DEF r
      <4> QED BY <4>2, <1>4
    <3> HIDE DEF q, r, m
    <3>5. Slots * q + Slots <= Len(s) * Slots
      <4>1. PICK x \in Nat : Len(s) = (q + 1) + x
        <5>1. Len(s) - (q + 1) \in Nat /\ Len(s) = (q + 1) + (Len(s) - (q + 1))
          BY <3>2, <3>3, <1>2
        <5> QED BY <5>1
      <4>2. Len(s) * Slots = Slots * q + Slots + x * Slots /\ x * Slots \in Nat
        BY <4>1, <3>2, <1>4, SMT
      <4> QED BY <4>2, <3>2, <1>4
    <3>6. Slots * q \in Nat /\ Len(s) * Slots \in Nat
      BY <3>2, <1>2, <1>4
    <3> QED BY <3>1, <3>2, <3>4, <3>5, <3>6, <1>4
  <2> QED BY <2>1, <2>2
<1>7. \A n \in 1 .. m : v.slots[s[((n - 1) \div Slots) + 1]][((n - 1) % Slots) + 1] = Text
  <2>1. \A n \in 1 .. m : n \in Nat /\ 1 <= n /\ n <= m
    BY <1>4
  <2> QED BY <2>1, <1>5
<1> QED BY <1>6, <1>7, Zenon DEF readable, s

\* A file of the tree can be read whole.
LEMMA FilesSpec ==
  ASSUME NEW v, NEW own, NEW rank, NEW D, Good(v, own, rank, D, none, 0)
  PROVE  Readable(v)
<1>1. Whole(v, own, rank, D, none, 0) /\ Written(v, own, rank, D, none, 0)
  BY DEF Good
<1> SUFFICES ASSUME NEW t \in Tree(v), ~t.dir PROVE readable(v, t)
  BY DEF Readable
<1>2. IsNode(v, own, D, t) /\ t \in Node
  BY <1>1, TreeSpec
<1>3. PICK c \in Cluster, i \in 1 .. Slots :
        /\ Counts(v, own, D, none, 0, c, i) /\ t.dir = v.slots[c][i].dir
        /\ t.first = v.slots[c][i].first /\ t.size = v.slots[c][i].size
        /\ t.first # none => t.first \in Cluster /\ own[t.first] = t.first
  BY <1>1, <1>2, NodeSpec
<1>4. Holds(v, own, rank, t.first, t.size)
  BY <1>1, <1>3 DEF Written
<1>5. t.size \in Nat
  <2>1. t.size \in 0 .. MaxSize /\ MaxSize \in Nat
    BY <1>2, ConstantsAssumption DEF Node, ConstantsAssumption
  <2> QED BY <2>1
<1> QED BY <1>1, <1>3, <1>4, <1>5, ReadableSpec

\* A directory of the tree, and the entry that names it in its parent.
LEMMA DirectoriesSpec ==
  ASSUME NEW v, NEW own, NEW rank, NEW D, Whole(v, own, rank, D, none, 0), NEW d \in Directories(v)
  PROVE  /\ d.first \in D
         /\ d.first # rootCluster =>
              \E c \in Cluster, i \in 1 .. Slots :
                Counts(v, own, D, none, 0, c, i) /\ own[c] = d.parent /\ v.slots[c][i].first = d.first
<1>1. rootCluster \in D
  BY DEF Whole, Dotted
<1>2. CASE d = [path |-> <<>>, first |-> rootCluster, parent |-> rootCluster]
  BY <1>1, <1>2
<1>3. ASSUME NEW t \in Tree(v), t.dir, d = [path |-> t.path, first |-> t.first, parent |-> t.parent]
      PROVE  /\ d.first \in D
             /\ \E c \in Cluster, i \in 1 .. Slots :
                  Counts(v, own, D, none, 0, c, i) /\ own[c] = d.parent /\ v.slots[c][i].first = d.first
  <2>1. IsNode(v, own, D, t)
    BY TreeSpec
  <2>2. PICK c \in Cluster, i \in 1 .. Slots :
          /\ Counts(v, own, D, none, 0, c, i) /\ own[c] = t.parent
          /\ t.first = v.slots[c][i].first /\ (t.dir => t.first \in D)
    BY <2>1, NodeSpec
  <2>3. d.first = t.first /\ d.parent = t.parent
    BY <1>3
  <2> QED BY <2>2, <2>3, <1>3
<1> QED BY <1>2, <1>3 DEF Directories

\* What `.` and `..` of a directory lead to.
DotsOf(v, d) ==
  {[name |-> e.name, first |-> e.first] : e \in {x \in Entries(v, d) : x.name \in {".", ".."}}}

LEMMA DotsSpec ==
  ASSUME NEW v, NEW own, NEW rank, NEW D, Whole(v, own, rank, D, none, 0),
         NEW d \in D, d # rootCluster, NEW c \in Cluster, NEW i \in 1 .. Slots,
         Counts(v, own, D, none, 0, c, i), v.slots[c][i].first = d
  PROVE  DotsOf(v, d) = {[name |-> ".", first |-> d], [name |-> "..", first |-> own[c]]}
<1> DEFINE one == v.slots[d][1]
           two == v.slots[d][2]
<1>1. /\ Named(v, own, D, none, 0) /\ Unique(v, own, D) /\ Dotted(v, own, D, none, 0)
      /\ d \in Cluster /\ own[d] = d /\ d # none /\ 1 \in 1 .. Slots /\ 2 \in 1 .. Slots
  <2>1. Named(v, own, D, none, 0) /\ Unique(v, own, D) /\ Dotted(v, own, D, none, 0)
    BY DEF Whole
  <2>2. d \in Cluster /\ own[d] = d
    BY <2>1 DEF Dotted
  <2> QED BY <2>1, <2>2, Sizes
<1>2. /\ IsDot(one, ".") /\ one.first = d /\ IsDot(two, "..")
      /\ \E b \in Cluster, j \in 1 .. Slots :
           Counts(v, own, D, none, 0, b, j) /\ own[b] = two.first /\ v.slots[b][j].first = d
  BY <1>1 DEF Dotted
<1>3. two.first = own[c]
  <2>1. PICK b \in Cluster, j \in 1 .. Slots :
          Counts(v, own, D, none, 0, b, j) /\ own[b] = two.first /\ v.slots[b][j].first = d
    BY <1>2
  <2>2. b = c
    BY <2>1, <1>1 DEF Named
  <2> QED BY <2>1, <2>2
<1>4. \A x : x \in Entries(v, d) <=>
        \E b \in Cluster, j \in 1 .. Slots : own[b] = d /\ x = v.slots[b][j] /\ x.kind = "entry"
  BY EntriesSpec
<1>5. one \in Entries(v, d) /\ two \in Entries(v, d) /\ one.name = "." /\ two.name = ".."
  <2>1. one.kind = "entry" /\ two.kind = "entry" /\ one.name = "." /\ two.name = ".."
    BY <1>2 DEF IsDot
  <2> QED BY <2>1, <1>1, <1>4
<1>6. ASSUME NEW x \in Entries(v, d), x.name \in {".", ".."} PROVE x = one \/ x = two
  <2>1. PICK b \in Cluster, j \in 1 .. Slots : own[b] = d /\ x = v.slots[b][j] /\ x.kind = "entry"
    BY <1>4
  <2>2. own[b] \in D /\ own[d] = own[b] /\ one.kind = "entry" /\ two.kind = "entry"
    BY <2>1, <1>1, <1>2 DEF IsDot
  <2>3. CASE x.name = "."
    <3>1. v.slots[b][j].name = v.slots[d][1].name
      BY <2>1, <2>3, <1>5
    <3>2. b = d /\ j = 1
      BY <3>1, <2>1, <2>2, <1>1 DEF Unique
    <3> QED BY <3>2, <2>1
  <2>4. CASE x.name = ".."
    <3>1. v.slots[b][j].name = v.slots[d][2].name
      BY <2>1, <2>4, <1>5
    <3>2. b = d /\ j = 2
      BY <3>1, <2>1, <2>2, <1>1 DEF Unique
    <3> QED BY <3>2, <2>1
  <2> QED BY <2>3, <2>4, <1>6
<1>7. one.first = d
  BY <1>2
<1> HIDE DEF one, two
<1>8. {x \in Entries(v, d) : x.name \in {".", ".."}} = {one, two}
  BY <1>5, <1>6
<1> DEFINE R(e) == [name |-> e.name, first |-> e.first]
<1>9. R(one) = [name |-> ".", first |-> d] /\ R(two) = [name |-> "..", first |-> own[c]]
  BY <1>3, <1>5, <1>7
<1>10. DotsOf(v, d) = {R(e) : e \in {one, two}}
  BY <1>8, Zenon DEF DotsOf
<1> HIDE DEF R
<1> QED BY <1>9, <1>10

LEMMA LinkedSpec ==
  ASSUME Sound => \E own, rank, D : Whole(vol, own, rank, D, none, 0)
  PROVE  DirectoriesLinked
<1> SUFFICES ASSUME Sound, NEW d \in Directories(vol)
             PROVE  /\ \A e, g \in Entries(vol, d.first) : e.name = g.name => e = g
                    /\ d.first # rootCluster =>
                         DotsOf(vol, d.first) = {[name |-> ".", first |-> d.first],
                                                 [name |-> "..", first |-> d.parent]}
  BY Zenon DEF DirectoriesLinked, DotsOf
<1>1. PICK own, rank, D : Whole(vol, own, rank, D, none, 0)
  OBVIOUS
<1>2. d.first \in D
  BY <1>1, DirectoriesSpec
<1>3. ASSUME NEW e \in Entries(vol, d.first), NEW g \in Entries(vol, d.first), e.name = g.name PROVE e = g
  <2>1. PICK b \in Cluster, j \in 1 .. Slots : own[b] = d.first /\ e = vol.slots[b][j] /\ e.kind = "entry"
    BY <1>1, <1>2, EntriesSpec
  <2>2. PICK c \in Cluster, i \in 1 .. Slots : own[c] = d.first /\ g = vol.slots[c][i] /\ g.kind = "entry"
    BY <1>1, <1>2, EntriesSpec
  <2>3. b = c /\ j = i
    BY <2>1, <2>2, <1>1, <1>2, <1>3 DEF Whole, Unique
  <2> QED BY <2>1, <2>2, <2>3
<1>4. ASSUME d.first # rootCluster
      PROVE  DotsOf(vol, d.first) = {[name |-> ".", first |-> d.first], [name |-> "..", first |-> d.parent]}
  <2>1. PICK c \in Cluster, i \in 1 .. Slots :
          Counts(vol, own, D, none, 0, c, i) /\ own[c] = d.parent /\ vol.slots[c][i].first = d.first
    BY <1>1, <1>4, DirectoriesSpec
  <2>2. DotsOf(vol, d.first) = {[name |-> ".", first |-> d.first], [name |-> "..", first |-> own[c]]}
    BY <2>1, <1>1, <1>2, <1>4, DotsSpec
  <2> QED BY <2>1, <2>2
<1> QED BY <1>3, <1>4

\* Nodes that lead to the same cluster have the same path.
LEMMA SamePath ==
  ASSUME NEW v, NEW own, NEW rank, NEW D, Whole(v, own, rank, D, none, 0),
         NEW t, IsNode(v, own, D, t), NEW u, IsNode(v, own, D, u), t.first = u.first, t.first # none
  PROVE  t.path = u.path
<1>1. PICK p \in Seq(Names), c \in Cluster, i \in 1 .. Slots :
        /\ Counts(v, own, D, none, 0, c, i) /\ Leads(v, own, D, p, t.parent) /\ own[c] = t.parent
        /\ t.path = Append(p, v.slots[c][i].name) /\ t.first = v.slots[c][i].first
  BY NodeSpec, SMTT(30)
<1>2. PICK q \in Seq(Names), b \in Cluster, j \in 1 .. Slots :
        /\ Counts(v, own, D, none, 0, b, j) /\ Leads(v, own, D, q, u.parent) /\ own[b] = u.parent
        /\ u.path = Append(q, v.slots[b][j].name) /\ u.first = v.slots[b][j].first
  BY NodeSpec
<1>3. c = b /\ i = j
  <2>1. Named(v, own, D, none, 0)
    BY DEF Whole
  <2>2. v.slots[c][i].first = v.slots[b][j].first /\ v.slots[c][i].first # none
    BY <1>1, <1>2
  <2> QED BY <2>1, <2>2, <1>1, <1>2 DEF Named
<1>4. p = q
  <2>1. Leads(v, own, D, q, t.parent)
    BY <1>1, <1>2, <1>3
  <2> QED BY <2>1, <1>1, PathsUnique
<1> QED BY <1>1, <1>2, <1>3, <1>4

\* Whose chain it is: the chain of the head h.
Heads(v, own, D, h, g) ==
  /\ h \in Cluster /\ own[h] = h /\ g.chain = Chain(v, Healthy, h)
  /\ \/ h = rootCluster /\ g = [owner |-> <<>>, chain |-> Chain(v, Healthy, rootCluster)]
     \/ /\ h # rootCluster
        /\ \E t : /\ IsNode(v, own, D, t) /\ t.first = h
                  /\ g = [owner |-> t.path, chain |-> Chain(v, Healthy, t.first)]

LEMMA HeadsSpec ==
  ASSUME NEW v, NEW own, NEW rank, NEW D, Whole(v, own, rank, D, none, 0), NEW g \in Chains(v)
  PROVE  \E h : Heads(v, own, D, h, g)
<1>1. rootCluster \in D /\ D \subseteq Cluster /\ own[rootCluster] = rootCluster
  BY DEF Whole, Dotted
<1>2. CASE g = [owner |-> <<>>, chain |-> Chain(v, Healthy, rootCluster)]
  <2>1. g.chain = Chain(v, Healthy, rootCluster)
    BY <1>2
  <2>2. Heads(v, own, D, rootCluster, g)
    BY <2>1, <1>1, <1>2 DEF Heads
  <2> QED BY <2>2
<1>3. ASSUME NEW t \in Tree(v), t.dir \/ t.first # none,
             g = [owner |-> t.path, chain |-> Chain(v, Healthy, t.first)]
      PROVE  Heads(v, own, D, t.first, g)
  <2>1. IsNode(v, own, D, t)
    BY TreeSpec
  <2>2. /\ t.dir => t.first \in D
        /\ t.first # none => t.first \in Cluster /\ own[t.first] = t.first /\ t.first # rootCluster
    BY <2>1, NodeSpec
  <2>3. t.first # none
    BY <2>2, <1>1, <1>3, Sizes
  <2>4. g.chain = Chain(v, Healthy, t.first)
    BY <1>3
  <2> QED BY <2>1, <2>2, <2>3, <2>4, <1>3 DEF Heads
<1> QED BY <1>2, <1>3 DEF Chains

LEMMA DisjointSpec ==
  ASSUME NEW own, NEW rank, NEW D, Whole(vol, own, rank, D, none, 0)
  PROVE  ChainsDisjoint
<1>1. vol \in Volume /\ Tiled(vol, own, rank) /\ Working(Healthy)
  BY DEF Whole, Working, Healthy
<1>2. ASSUME NEW g \in Chains(vol), NEW h, Heads(vol, own, D, h, g)
      PROVE  /\ h \in Cluster /\ g.chain # <<>> /\ vol.fat[Last(g.chain)] = endOfChain
             /\ \A c \in ToSet(g.chain) : c \in Cluster /\ own[c] = h
  <2> DEFINE s == g.chain
  <2>1. h \in Cluster /\ own[h] = h /\ s = Chain(vol, Healthy, h)
    BY <1>2 DEF Heads
  <2>2. Traces(vol, own, rank, h, s)
    BY <2>1, <1>1, ChainTraces
  <2> HIDE DEF s
  <2>3. /\ s \in Seq(Cluster) /\ Len(s) \in Nat /\ 1 <= Len(s)
        /\ \A k \in Nat : 1 <= k /\ k <= Len(s) => s[k] \in Cluster /\ own[s[k]] = h
        /\ vol.fat[s[Len(s)]] = endOfChain
    BY <2>2 DEF Traces
  <2>4. s # <<>> /\ Last(s) = s[Len(s)]
    BY <2>3 DEF Last
  <2>5. ASSUME NEW c \in ToSet(s) PROVE c \in Cluster /\ own[c] = h
    <3>1. PICK k \in 1 .. Len(s) : c = s[k]
      BY <2>3, <2>5 DEF ToSet
    <3> QED BY <3>1, <2>3
  <2> QED BY <2>1, <2>3, <2>4, <2>5 DEF s
<1>3. ASSUME NEW g \in Chains(vol)
      PROVE  g.chain # <<>> /\ ToSet(g.chain) \subseteq Used(vol) /\ vol.fat[Last(g.chain)] = endOfChain
  <2>1. PICK h : Heads(vol, own, D, h, g)
    BY HeadsSpec
  <2>2. ASSUME NEW c \in ToSet(g.chain) PROVE c \in Used(vol)
    <3>1. c \in Cluster /\ own[c] = h /\ h # none
      BY <2>1, <1>2, Sizes
    <3>2. vol.fat[c] # Free
      BY <3>1, <1>1, TileFacts
    <3> QED BY <3>1, <3>2 DEF Used
  <2> QED BY <2>1, <2>2, <1>2
<1>4. ASSUME NEW e \in Chains(vol), NEW g \in Chains(vol), ToSet(e.chain) \cap ToSet(g.chain) # {}
      PROVE  e = g
  <2>1. PICK a : Heads(vol, own, D, a, e)
    BY HeadsSpec
  <2>2. PICK b : Heads(vol, own, D, b, g)
    BY HeadsSpec
  <2>3. a = b
    <3>1. PICK c : c \in ToSet(e.chain) /\ c \in ToSet(g.chain)
      BY <1>4
    <3> QED BY <3>1, <2>1, <2>2, <1>2
  <2>4. CASE a = rootCluster
    BY <2>1, <2>2, <2>3, <2>4 DEF Heads
  <2>5. CASE a # rootCluster
    <3>1. PICK t : /\ IsNode(vol, own, D, t) /\ t.first = a
                   /\ e = [owner |-> t.path, chain |-> Chain(vol, Healthy, t.first)]
      BY <2>1, <2>5 DEF Heads
    <3>2. PICK u : /\ IsNode(vol, own, D, u) /\ u.first = a
                   /\ g = [owner |-> u.path, chain |-> Chain(vol, Healthy, u.first)]
      BY <2>2, <2>3, <2>5 DEF Heads
    <3>3. a # none
      BY <2>1, Sizes DEF Heads
    <3>4. t.path = u.path
      BY <3>1, <3>2, <3>3, SamePath
    <3> QED BY <3>1, <3>2, <3>4
  <2> QED BY <2>4, <2>5
<1> QED BY <1>3, <1>4, Zenon DEF ChainsDisjoint

\* The first k names of a path, and the way they lead.
Prefix(path, k) == [x \in 1 .. k |-> path[x]]

LEMMA PrefixType ==
  ASSUME NEW path \in Seq(Names), NEW k \in Nat, k <= Len(path)
  PROVE  /\ Prefix(path, k) \in Seq(Names) /\ Len(Prefix(path, k)) = k
         /\ \A x \in Nat : 1 <= x /\ x <= k => Prefix(path, k)[x] = path[x]
<1>1. \A x \in 1 .. k : path[x] \in Names
  BY SMT
<1>2. Prefix(path, k) \in Seq(Names) /\ Len(Prefix(path, k)) = k
  BY <1>1 DEF Prefix
<1>3. \A x \in 1 .. k : Prefix(path, k)[x] = path[x]
  BY DEF Prefix
<1>4. \A x \in Nat : 1 <= x /\ x <= k => x \in 1 .. k
  OBVIOUS
<1> QED BY <1>2, <1>3, <1>4

LEMMA PrefixGrows ==
  ASSUME NEW path \in Seq(Names), NEW k \in Nat, k + 1 <= Len(path)
  PROVE  Append(Prefix(path, k), path[k + 1]) = Prefix(path, k + 1)
<1> DEFINE p == Prefix(path, k)
           q == Prefix(path, k + 1)
           r == Append(p, path[k + 1])
<1>0. k + 1 \in Nat /\ k <= Len(path) /\ path[k + 1] \in Names
  <2>1. k + 1 \in 1 .. Len(path)
    OBVIOUS
  <2> QED BY <2>1
<1>1. p \in Seq(Names) /\ Len(p) = k /\ \A x \in Nat : 1 <= x /\ x <= k => p[x] = path[x]
  BY <1>0, PrefixType
<1>2. q \in Seq(Names) /\ Len(q) = k + 1 /\ \A x \in Nat : 1 <= x /\ x <= k + 1 => q[x] = path[x]
  BY <1>0, PrefixType
<1> HIDE DEF p, q
<1>3. r \in Seq(Names) /\ Len(r) = k + 1 /\ r[k + 1] = path[k + 1]
  BY <1>0, <1>1
<1>4. ASSUME NEW x \in Nat, 1 <= x, x <= k + 1 PROVE r[x] = q[x]
  <2>1. CASE x = k + 1
    BY <2>1, <1>2, <1>3, <1>4
  <2>2. CASE x # k + 1
    <3>1. x <= k
      BY <2>2, <1>4
    <3>2. r[x] = p[x]
      BY <3>1, <1>1, <1>4
    <3> QED BY <3>1, <3>2, <1>1, <1>2, <1>4
  <2> QED BY <2>1, <2>2
<1> HIDE DEF r
<1>5. r = q
  BY <1>2, <1>3, <1>4, SameSeq
<1> QED BY <1>5 DEF p, q, r

LEMMA PrefixLeads ==
  ASSUME NEW v, NEW own, NEW D, NEW path \in Seq(Names), NEW c, NEW t, Passes(v, own, D, t, path, c),
         NEW k \in Nat, k <= Len(path)
  PROVE  Leads(v, own, D, Prefix(path, k), t[k])
<1> DEFINE p == Prefix(path, k)
<1>1. Len(p) = k /\ \A x \in Nat : 1 <= x /\ x <= k => p[x] = path[x]
  BY PrefixType
<1> HIDE DEF p
<1>2. /\ t[0] = rootCluster
      /\ \A l \in Nat : l <= Len(path) => t[l] \in D
      /\ \A l \in Nat : 1 <= l /\ l <= Len(path) =>
           \E b \in Cluster, j \in 1 .. Slots :
             /\ Lists(v, own, D, b, j) /\ own[b] = t[l - 1]
             /\ v.slots[b][j].name = path[l] /\ v.slots[b][j].dir /\ v.slots[b][j].first = t[l]
  BY DEF Passes
<1>3. \A l \in Nat : l <= k => l <= Len(path)
  <2>1. Len(path) \in Nat
    OBVIOUS
  <2> QED BY <2>1
<1>4. ASSUME NEW l \in Nat, 1 <= l, l <= k
      PROVE  \E b \in Cluster, j \in 1 .. Slots :
               /\ Lists(v, own, D, b, j) /\ own[b] = t[l - 1]
               /\ v.slots[b][j].name = p[l] /\ v.slots[b][j].dir /\ v.slots[b][j].first = t[l]
  <2>1. p[l] = path[l] /\ l <= Len(path)
    BY <1>1, <1>3, <1>4
  <2> QED BY <2>1, <1>2, <1>4
<1>5. Passes(v, own, D, t, p, t[k])
  BY <1>1, <1>2, <1>3, <1>4 DEF Passes
<1> QED BY <1>5 DEF Leads, p

\* A path passes each directory once, so it is shorter than there are clusters.
LEMMA PathsShort ==
  ASSUME NEW v, NEW own, NEW rank, NEW D, Whole(v, own, rank, D, none, 0),
         NEW path \in Seq(Names), NEW c, NEW t, Passes(v, own, D, t, path, c)
  PROVE  Len(path) < Clusters
<1> DEFINE n == Len(path)
           g == [k \in 1 .. n + 1 |-> t[k - 1]]
<1>1. n \in Nat /\ Clusters \in Nat /\ IsFiniteSet(Cluster) /\ Cardinality(Cluster) = Clusters
  BY Sizes
<1>2. \A k \in Nat : k <= n => t[k] \in Cluster
  BY DEF Whole, Dotted, Passes
<1>3. \A k \in Nat : k <= n => /\ Leads(v, own, D, Prefix(path, k), t[k])
                               /\ Prefix(path, k) \in Seq(Names) /\ Len(Prefix(path, k)) = k
  BY PrefixLeads, PrefixType
<1>4. ASSUME NEW k \in Nat, NEW l \in Nat, k <= n, l <= n, t[k] = t[l] PROVE k = l
  <2>1. /\ Leads(v, own, D, Prefix(path, k), t[k]) /\ Leads(v, own, D, Prefix(path, l), t[k])
        /\ Prefix(path, k) \in Seq(Names) /\ Prefix(path, l) \in Seq(Names)
        /\ Len(Prefix(path, k)) = k /\ Len(Prefix(path, l)) = l
    BY <1>3, <1>4
  <2>2. Prefix(path, k) = Prefix(path, l)
    BY <2>1, PathsUnique
  <2> QED BY <2>1, <2>2
<1> HIDE DEF n
<1>5. \A k \in 1 .. n + 1 : k - 1 \in Nat /\ k - 1 <= n
  BY <1>1
<1>6. g \in [1 .. n + 1 -> Cluster]
  BY <1>2, <1>5
<1>7. ASSUME NEW k \in 1 .. n + 1, NEW l \in 1 .. n + 1, g[k] = g[l] PROVE k = l
  <2>1. t[k - 1] = t[l - 1]
    BY <1>7
  <2>2. k - 1 = l - 1
    BY <2>1, <1>4, <1>5
  <2> QED BY <2>2, <1>1
<1> HIDE DEF g
<1>8. IsFiniteSet(1 .. n + 1) /\ Cardinality(1 .. n + 1) = n + 1
  <2>1. 1 \in Int /\ n + 1 \in Int /\ ~(1 > n + 1) /\ (n + 1) - 1 + 1 = n + 1
    BY <1>1
  <2>2. /\ IsFiniteSet(1 .. n + 1)
        /\ Cardinality(1 .. n + 1) = IF 1 > n + 1 THEN 0 ELSE (n + 1) - 1 + 1
    BY <2>1, FS_Interval
  <2> QED BY <2>1, <2>2, Zenon
<1>9. ~(Clusters < n + 1)
  <2> SUFFICES ASSUME Clusters < n + 1 PROVE FALSE
    OBVIOUS
  <2>1. \E k, l \in 1 .. n + 1 : k # l /\ g[k] = g[l]
    BY <1>1, <1>6, <1>8, FS_PigeonHole
  <2> QED BY <2>1, <1>7
<1>10. n < Clusters
  BY <1>1, <1>9
<1> QED BY <1>10 DEF n

\* A directory that a path leads to is in the tree, under that path.
LEMMA LeadsListed ==
  ASSUME NEW v, NEW own, NEW rank, NEW D, Whole(v, own, rank, D, none, 0),
         NEW path \in Seq(Names), NEW c, Leads(v, own, D, path, c)
  PROVE  \E d \in Directories(v) : d.path = path /\ d.first = c
<1> DEFINE n == Len(path)
<1>1. PICK t : Passes(v, own, D, t, path, c)
  BY DEF Leads
<1>2. n \in Nat /\ n < Clusters /\ Clusters \in Nat
  BY <1>1, PathsShort, Sizes
<1>3. /\ t[0] = rootCluster /\ t[n] = c
      /\ \A k \in Nat : k <= n => t[k] \in D
      /\ \A k \in Nat : 1 <= k /\ k <= n =>
           \E b \in Cluster, j \in 1 .. Slots :
             /\ Lists(v, own, D, b, j) /\ own[b] = t[k - 1]
             /\ v.slots[b][j].name = path[k] /\ v.slots[b][j].dir /\ v.slots[b][j].first = t[k]
  BY <1>1 DEF Passes
<1>4. v \in Volume
  BY DEF Whole
<1>5. PICK h : Levels(v, h)
  BY <1>4, TreeUnfolds
<1>6. /\ h[0] = Branches(v, rootCluster, <<>>)
      /\ \A k \in Nat : 1 <= k /\ k <= Clusters => h[k] = Below(v, h[k - 1])
      /\ \A x : x \in Tree(v) <=> \E k \in Nat : k <= Clusters /\ x \in h[k]
  BY <1>5 DEF Levels
<1>7. ASSUME NEW k \in Nat, k + 1 <= n
      PROVE  \E x \in Branches(v, t[k], Prefix(path, k)) :
               x.dir /\ x.first = t[k + 1] /\ x.path = Prefix(path, k + 1)
  <2>1. k + 1 \in Nat /\ 1 <= k + 1 /\ (k + 1) - 1 = k /\ k <= n
    BY <1>2, <1>7
  <2>2. PICK b \in Cluster, j \in 1 .. Slots :
          /\ Lists(v, own, D, b, j) /\ own[b] = t[k]
          /\ v.slots[b][j].name = path[k + 1] /\ v.slots[b][j].dir /\ v.slots[b][j].first = t[k + 1]
    BY <2>1, <1>3, <1>7
  <2> DEFINE x == Branch(Prefix(path, k), v.slots[b][j], t[k])
  <2>3. Prefix(path, k) \in Seq(Names) /\ Leads(v, own, D, Prefix(path, k), t[k])
    BY <2>1, <1>1, PrefixType, PrefixLeads
  <2>4. x \in Branches(v, t[k], Prefix(path, k))
    BY <2>2, <2>3, BranchesSpec
  <2>5. /\ x.path = Append(Prefix(path, k), v.slots[b][j].name)
        /\ x.dir = v.slots[b][j].dir /\ x.first = v.slots[b][j].first
    BY DEF Branch
  <2>6. Append(Prefix(path, k), path[k + 1]) = Prefix(path, k + 1)
    BY <1>7, PrefixGrows
  <2> HIDE DEF x
  <2> QED BY <2>2, <2>4, <2>5, <2>6
<1> HIDE DEF n
<1> DEFINE T == {k \in Nat : k + 1 <= n =>
                   \E x \in h[k] : x.dir /\ x.first = t[k + 1] /\ x.path = Prefix(path, k + 1)}
<1>8. 0 \in T
  <2> SUFFICES ASSUME 0 + 1 <= n
               PROVE  \E x \in h[0] : x.dir /\ x.first = t[0 + 1] /\ x.path = Prefix(path, 0 + 1)
    OBVIOUS
  <2>1. \E x \in Branches(v, t[0], Prefix(path, 0)) :
          x.dir /\ x.first = t[0 + 1] /\ x.path = Prefix(path, 0 + 1)
    BY <1>7
  <2>2. Prefix(path, 0) = <<>>
    BY DEF Prefix
  <2> QED BY <2>1, <2>2, <1>3, <1>6
<1>9. ASSUME NEW k \in T PROVE k + 1 \in T
  <2>1. k \in Nat /\ k + 1 \in Nat
    OBVIOUS
  <2>2. CASE (k + 1) + 1 <= n
    <3>1. k + 1 <= n /\ 1 <= k + 1 /\ k + 1 <= Clusters /\ k + 1 - 1 = k
      BY <2>1, <2>2, <1>2
    <3>2. PICK x \in h[k] : x.dir /\ x.first = t[k + 1] /\ x.path = Prefix(path, k + 1)
      BY <3>1
    <3>3. PICK y \in Branches(v, t[k + 1], Prefix(path, k + 1)) :
            y.dir /\ y.first = t[(k + 1) + 1] /\ y.path = Prefix(path, (k + 1) + 1)
      BY <2>1, <2>2, <1>7
    <3>4. y \in Below(v, h[k])
      BY <3>2, <3>3 DEF Below
    <3>5. h[k + 1] = Below(v, h[k])
      BY <3>1, <2>1, <1>6
    <3>6. \E z \in h[k + 1] : z.dir /\ z.first = t[(k + 1) + 1] /\ z.path = Prefix(path, (k + 1) + 1)
      BY <3>3, <3>4, <3>5
    <3> QED BY <2>1, <3>6
  <2>3. CASE ~((k + 1) + 1 <= n)
    BY <2>1, <2>3
  <2> QED BY <2>2, <2>3
<1>10. \A k \in Nat : k \in T
  <2>1. T \in SUBSET Nat
    OBVIOUS
  <2>2. T = Nat
    <3> HIDE DEF T
    <3> QED BY <1>8, <1>9, <2>1, HandedOn
  <2> QED BY <2>2, Zenon
<1>11. CASE n = 0
  <2>1. path = <<>> /\ c = rootCluster
    BY <1>3, <1>11 DEF n
  <2> DEFINE d == [path |-> <<>>, first |-> rootCluster, parent |-> rootCluster]
  <2>2. d \in Directories(v) /\ d.path = <<>> /\ d.first = rootCluster
    BY DEF Directories
  <2> QED BY <2>1, <2>2
<1>12. CASE n # 0
  <2>1. n - 1 \in Nat /\ (n - 1) + 1 = n /\ (n - 1) + 1 <= n /\ n - 1 <= Clusters
    BY <1>2, <1>12
  <2>2. n - 1 \in T
    <3> HIDE DEF T
    <3> QED BY <2>1, <1>10
  <2>3. PICK x \in h[n - 1] : x.dir /\ x.first = t[(n - 1) + 1] /\ x.path = Prefix(path, (n - 1) + 1)
    BY <2>1, <2>2
  <2>4. x.first = c /\ x.path = Prefix(path, n)
    BY <2>1, <2>3, <1>3
  <2>5. Prefix(path, n) = path
    <3>1. n <= Len(path)
      BY <1>2 DEF n
    <3>2. /\ Prefix(path, n) \in Seq(Names) /\ Len(Prefix(path, n)) = n
          /\ \A k \in Nat : 1 <= k /\ k <= n => Prefix(path, n)[k] = path[k]
      BY <3>1, <1>2, PrefixType
    <3>3. Len(path) = n
      BY DEF n
    <3> QED BY <3>2, <3>3, SameSeq
  <2>6. x \in Tree(v)
    BY <2>1, <1>6
  <2> DEFINE d == [path |-> x.path, first |-> x.first, parent |-> x.parent]
  <2>7. d \in Directories(v)
    BY <2>3, <2>6 DEF Directories
  <2>8. d.path = path /\ d.first = c
    BY <2>4, <2>5
  <2> HIDE DEF d
  <2> QED BY <2>7, <2>8
<1> QED BY <1>11, <1>12

--------------------------------------------------------------------------------
(* What a user can rely on *)

LEMMA FileInvImplies == FileInv => NoCrossLink /\ FilesReadable /\ DirectoriesLinked /\ CwdPathLeadsToCwd
<1> SUFFICES ASSUME FileInv PROVE NoCrossLink /\ FilesReadable /\ DirectoriesLinked /\ CwdPathLeadsToCwd
  OBVIOUS
<1>1. ASSUME Sound
      PROVE  \E own, rank, D : /\ Good(vol, own, rank, D, none, 0) /\ Whole(vol, own, rank, D, none, 0)
                               /\ Leads(vol, own, D, cwdPath, cwd)
  BY <1>1 DEF FileInv, SoundAt, Good
<1>2. NoCrossLink
  BY <1>1, DisjointSpec DEF NoCrossLink
<1>3. FilesReadable
  BY <1>1, FilesSpec DEF FilesReadable
<1>4. DirectoriesLinked
  BY <1>1, LinkedSpec
<1>5. CwdPathLeadsToCwd
  <2>1. cwdPath \in Seq(Names)
    BY DEF FileInv, TypeInv
  <2> QED BY <2>1, <1>1, LeadsListed DEF CwdPathLeadsToCwd
<1> QED BY <1>2, <1>3, <1>4, <1>5

\* The clusters of the table are partitioned: no two chains of the tree share a
\* cluster, and every chain is allocated to its end (allocateCluster,
\* findFreeEntry, ensureChainSize, freeChain), until a command removes the
\* current directory or the device fails.
THEOREM NoCrossLinkAlways == Spec => []NoCrossLink
<1>1. FileInv => NoCrossLink
  BY FileInvImplies
<1> QED BY <1>1, VolumeSound, PTL

\* readFile can deliver every file: its chain reaches over the whole size, and
\* holds text there (writeFile, writeData, ensureChainSize).
THEOREM FilesReadableAlways == Spec => []FilesReadable
<1>1. FileInv => FilesReadable
  BY FileInvImplies
<1> QED BY <1>1, VolumeSound, PTL

\* A directory has at most one entry of a name, and its "." and ".." lead to
\* itself and to the directory that lists it (createEntry, initializeDirectory).
THEOREM DirectoriesLinkedAlways == Spec => []DirectoriesLinked
<1>1. FileInv => DirectoriesLinked
  BY FileInvImplies
<1> QED BY <1>1, VolumeSound, PTL

\* The path the prompt shows, edited as text, is the path of the directory that
\* relative names start from, found by walking clusters (changeDirectory).
THEOREM CwdPathAlways == Spec => []CwdPathLeadsToCwd
<1>1. FileInv => CwdPathLeadsToCwd
  BY FileInvImplies
<1> QED BY <1>1, VolumeSound, PTL

================================================================================
