---------------------------- MODULE FlashFSProofs ----------------------------
(***************************************************************************)
(* What holds of FlashFS for every number of clusters, every block size,   *)
(* every set of names, values and lengths, and every number of failing     *)
(* accesses to the flash.                                                  *)
(*                                                                         *)
(* First the lemmas about the operators of FlashFAT: what they do to types *)
(* and to free_size, and to the chains of clusters that belong to the      *)
(* files (Linked).  Then four invariants, each on top of the one before:   *)
(* types and lengths (TypeInv), chains of clusters (LinkInv), what a write *)
(* in progress has stored (FSInv), and what a mount would find (StoreInv), *)
(* from which the refinement of FileStore follows.                         *)
(***************************************************************************)
EXTENDS FlashFS, WellFoundedInduction, FiniteSetTheorems, TLAPS

\* Every nonempty set of natural numbers has a least element: to show a fact
\* for every number, take the least of those that it does not hold for.
LEMMA LeastNat ==
  ASSUME NEW S, S \subseteq Nat, S # {}
  PROVE  \E n \in S : \A m \in S : n <= m
<1> DEFINE R == {p \in Nat \X Nat : p[1] < p[2]}
<1>1. IsWellFoundedOn(R, Nat)
  BY NatLessThanWellFounded, Zenon DEF OpToRel
<1>2. PICK x \in S : \A y \in S : ~(<<y, x>> \in R)
  BY <1>1, WFMin, Zenon
<1>3. ASSUME NEW m \in S  PROVE x <= m
  <2>1. m < x => <<m, x>> \in R
    OBVIOUS
  <2>2. QED
    BY <1>2, <2>1
<1>4. QED
  BY <1>3

-----------------------------------------------------------------------------
(* Blocks rounds up.                                                       *)

\* Division with remainder by the block size.
LEMMA DivMod ==
  ASSUME NEW n \in Nat
  PROVE  /\ n \div ERASE_SIZE \in Nat
         /\ n % ERASE_SIZE \in 0..(ERASE_SIZE - 1)
         /\ n = ERASE_SIZE * (n \div ERASE_SIZE) + (n % ERASE_SIZE)
BY FATAssumption

\* A larger quotient makes at least a block of difference.
LEMMA DivMonotone ==
  ASSUME NEW a \in Int, NEW b \in Int, a < b
  PROVE  ERASE_SIZE * a + ERASE_SIZE <= ERASE_SIZE * b
<1>1. PICK d \in Nat : b = a + 1 + d
  <2>1. b - a - 1 \in Nat /\ b = a + 1 + (b - a - 1)
    OBVIOUS
  <2>2. QED
    BY <2>1
<1>2. ERASE_SIZE \in Nat
  BY FATAssumption
<1>3. ERASE_SIZE * b = ERASE_SIZE * a + ERASE_SIZE + ERASE_SIZE * d
  BY <1>1, <1>2
<1>4. ERASE_SIZE * d \in Nat /\ ERASE_SIZE * a \in Int
  BY <1>2
<1>5. QED
  BY <1>2, <1>3, <1>4

\* Blocks(n) is the number of blocks that n bytes need.
LEMMA BlocksCeiling ==
  ASSUME NEW n \in Nat
  PROVE  /\ Blocks(n) \in Nat
         /\ n <= ERASE_SIZE * Blocks(n)
         /\ n > 0 => ERASE_SIZE * (Blocks(n) - 1) < n
         /\ n = 0 => Blocks(n) = 0
         /\ n > 0 => Blocks(n) > 0
<1> DEFINE q == n \div ERASE_SIZE
           r == n % ERASE_SIZE
<1>1. /\ q \in Nat
      /\ r \in 0..(ERASE_SIZE - 1)
      /\ n = ERASE_SIZE * q + r
  BY DivMod
<1>2. ERASE_SIZE \in Nat /\ ERASE_SIZE > 0
  BY FATAssumption
<1>3. Blocks(n) = q + (IF r # 0 THEN 1 ELSE 0)
  BY DEF Blocks
<1> HIDE DEF q, r
<1>4. ERASE_SIZE * (q + 1) = ERASE_SIZE * q + ERASE_SIZE
  BY <1>1, <1>2
<1>5. ERASE_SIZE * (q - 1) = ERASE_SIZE * q - ERASE_SIZE
  BY <1>1, <1>2
<1>6. ERASE_SIZE * q \in Nat
  BY <1>1, <1>2
<1>7. q > 0 => ERASE_SIZE * q >= ERASE_SIZE
  <2>1. SUFFICES ASSUME q > 0 PROVE ERASE_SIZE * q >= ERASE_SIZE
    OBVIOUS
  <2>2. ERASE_SIZE * 0 = 0
    BY <1>2
  <2>3. ERASE_SIZE * 0 + ERASE_SIZE <= ERASE_SIZE * q
    BY <1>1, <2>1, DivMonotone
  <2>4. QED
    BY <2>2, <2>3, <1>2, <1>6
<1>8. CASE r = 0
  <2>1. Blocks(n) = q /\ n = ERASE_SIZE * q
    BY <1>1, <1>3, <1>6, <1>8
  <2>2. q = 0 => ERASE_SIZE * q = 0
    BY <1>2
  <2>3. QED
    BY <2>1, <2>2, <1>1, <1>2, <1>5, <1>6, <1>7
<1>9. CASE r # 0
  <2>1. Blocks(n) = q + 1
    BY <1>3, <1>9
  <2>2. n > 0 /\ n > ERASE_SIZE * q /\ n < ERASE_SIZE * q + ERASE_SIZE
    BY <1>1, <1>2, <1>6, <1>9
  <2>3. q + 1 \in Nat /\ q + 1 - 1 = q /\ q + 1 > 0
    BY <1>1
  <2>4. QED
    BY <2>1, <2>2, <2>3, <1>1, <1>2, <1>4, <1>6
<1>10. QED
  BY <1>8, <1>9

\* It is the only such number.
LEMMA BlocksDetermined ==
  ASSUME NEW n \in Nat, n > 0, NEW k \in Int,
         n <= ERASE_SIZE * k, ERASE_SIZE * (k - 1) < n
  PROVE  Blocks(n) = k
<1> DEFINE b == Blocks(n)
<1>1. /\ b \in Nat
      /\ n <= ERASE_SIZE * b
      /\ ERASE_SIZE * (b - 1) < n
  BY BlocksCeiling
<1>2. ERASE_SIZE \in Nat
  BY FATAssumption
<1> HIDE DEF b
<1>3. ERASE_SIZE * (b - 1) = ERASE_SIZE * b - ERASE_SIZE
  BY <1>1, <1>2
<1>4. ERASE_SIZE * (k - 1) = ERASE_SIZE * k - ERASE_SIZE
  BY <1>2
<1>5. ERASE_SIZE * b \in Int /\ ERASE_SIZE * k \in Int
  BY <1>1, <1>2
<1>6. ~(b < k)
  BY DivMonotone, <1>1, <1>2, <1>4, <1>5
<1>7. ~(k < b)
  BY DivMonotone, <1>1, <1>2, <1>3, <1>5
<1>8. QED
  BY <1>1, <1>6, <1>7 DEF b

\* Taking off a full block takes off one block.
LEMMA BlocksStep ==
  ASSUME NEW n \in Nat, n > ERASE_SIZE
  PROVE  Blocks(n - ERASE_SIZE) = Blocks(n) - 1
<1> DEFINE b == Blocks(n)
<1>1. ERASE_SIZE \in Nat /\ ERASE_SIZE > 0
  BY FATAssumption
<1>2. /\ b \in Nat
      /\ n <= ERASE_SIZE * b
      /\ ERASE_SIZE * (b - 1) < n
  BY BlocksCeiling, <1>1
<1> HIDE DEF b
<1>3. /\ ERASE_SIZE * (b - 1) = ERASE_SIZE * b - ERASE_SIZE
      /\ ERASE_SIZE * (b - 1 - 1) = ERASE_SIZE * (b - 1) - ERASE_SIZE
      /\ ERASE_SIZE * b \in Int
  BY <1>1, <1>2
<1>4. /\ n - ERASE_SIZE \in Nat /\ n - ERASE_SIZE > 0
      /\ n - ERASE_SIZE <= ERASE_SIZE * (b - 1)
      /\ ERASE_SIZE * (b - 1 - 1) < n - ERASE_SIZE
  BY <1>1, <1>2, <1>3
<1>5. b - 1 \in Int
  BY <1>2
<1>6. Blocks(n - ERASE_SIZE) = b - 1
  BY <1>4, <1>5, BlocksDetermined
<1>7. QED
  BY <1>6 DEF b

-----------------------------------------------------------------------------
(* The allocator takes clusters that are free.                             *)

LEMMA LeastIsLeast ==
  ASSUME NEW S, S \subseteq Nat, S # {}
  PROVE  Least(S) \in S /\ \A d \in S : Least(S) <= d
BY LeastNat DEF Least

LEMMA ClustersFinite ==
  ASSUME NEW S, S \subseteq Clusters
  PROVE  /\ IsFiniteSet(S)
         /\ Cardinality(S) \in Nat
         /\ Cardinality(S) <= FILE_ENTRY_COUNT
         /\ S \subseteq Nat
<1>1. FILE_ENTRY_COUNT \in Nat
  BY FATAssumption DEF FAT_END_CLUSTER
<1>2. IsFiniteSet(Clusters) /\ Cardinality(Clusters) = FILE_ENTRY_COUNT
  BY <1>1, FS_Interval DEF Clusters
<1>3. IsFiniteSet(S) /\ Cardinality(S) <= FILE_ENTRY_COUNT
  BY <1>2, FS_Subset
<1>4. QED
  BY <1>1, <1>3, FS_CardinalityType DEF Clusters

\* There is a set of the k lowest elements: with one fewer, the next one is
\* the least of the rest.
LEMMA LowestExists ==
  ASSUME NEW S, S \subseteq Clusters, NEW k \in 0..Cardinality(S)
  PROVE  /\ Lowest(S, k) \in SUBSET S
         /\ Cardinality(Lowest(S, k)) = k
         /\ \A c \in Lowest(S, k), d \in S \ Lowest(S, k) : c < d
<1> DEFINE IsLowest(T, n) == /\ Cardinality(T) = n
                             /\ \A c \in T, d \in S \ T : c < d
           Bad == {n \in 0..Cardinality(S) : \A T \in SUBSET S : ~IsLowest(T, n)}
<1>1. IsFiniteSet(S) /\ Cardinality(S) \in Nat /\ S \subseteq Nat
  BY ClustersFinite
<1>2. Bad = {}
  <2>1. SUFFICES ASSUME Bad # {} PROVE FALSE
    OBVIOUS
  <2>2. PICK n \in Bad : \A m \in Bad : n <= m
    <3>1. Bad \subseteq Nat
      BY <1>1
    <3>2. QED
      BY <2>1, <3>1, LeastNat
  <2>3. n # 0
    <3>1. IsLowest({}, 0)
      BY FS_EmptySet
    <3>2. QED
      BY <3>1
  <2>4. n - 1 \in 0..Cardinality(S) /\ n - 1 \notin Bad
    BY <1>1, <2>2, <2>3
  <2>5. PICK T \in SUBSET S : IsLowest(T, n - 1)
    BY <2>4
  <2>6. IsFiniteSet(T) /\ S \ T # {}
    <3>1. IsFiniteSet(T)
      BY <1>1, FS_Subset
    <3>2. T # S
      BY <1>1, <2>5
    <3>3. QED
      BY <3>1, <3>2
  <2>7. PICK d \in S \ T : \A x \in S \ T : d <= x
    <3>1. S \ T \subseteq Nat
      BY <1>1
    <3>2. QED
      BY <2>6, <3>1, LeastNat
  <2>8. IsLowest(T \cup {d}, n)
    <3>1. Cardinality(T \cup {d}) = n
      <4>1. Cardinality(T \cup {d}) = Cardinality(T) + 1
        BY <2>6, <2>7, FS_AddElement
      <4>2. QED
        BY <1>1, <2>5, <4>1
    <3>2. \A c \in T \cup {d}, x \in S \ (T \cup {d}) : c < x
      BY <1>1, <2>5, <2>7
    <3>3. QED
      BY <3>1, <3>2
  <2>9. T \cup {d} \in SUBSET S
    BY <2>7
  <2>10. QED
    BY <2>2, <2>8, <2>9
<1>3. \E T \in SUBSET S : IsLowest(T, k)
  BY <1>2
<1>4. QED
  BY <1>3 DEF Lowest

LEMMA TakenFacts ==
  ASSUME NEW ft \in FATs, NEW k \in Nat
  PROVE  /\ Taken(ft, k) \subseteq Free(ft)
         /\ Free(ft) \subseteq Clusters
         /\ Cardinality(Taken(ft, k)) <= k
         /\ k <= Cardinality(Free(ft)) => Cardinality(Taken(ft, k)) = k
<1>1. Free(ft) \subseteq Clusters
  BY DEF Free
<1>2. Cardinality(Free(ft)) \in Nat
  BY <1>1, ClustersFinite
<1>3. CASE Cardinality(Free(ft)) < k
  BY <1>1, <1>2, <1>3 DEF Taken
<1>4. CASE ~(Cardinality(Free(ft)) < k)
  <2>1. k \in 0..Cardinality(Free(ft))
    BY <1>2, <1>4
  <2>2. Taken(ft, k) = Lowest(Free(ft), k)
    BY <1>4 DEF Taken
  <2>3. Taken(ft, k) \in SUBSET Free(ft) /\ Cardinality(Taken(ft, k)) = k
    BY <1>1, <2>1, <2>2, LowestExists
  <2>4. QED
    BY <1>1, <2>3
<1>5. QED
  BY <1>3, <1>4

-----------------------------------------------------------------------------
(* The edits of a FAT give a FAT.                                          *)

LEMMA AllocateType ==
  ASSUME NEW ft \in FATs, NEW k \in Nat
  PROVE  Allocate(ft, k) \in FATs
<1> DEFINE T == Taken(ft, k)
           last == IF Cardinality(T) = k THEN FAT_END_CLUSTER ELSE 0
           after(c) == {d \in T : d > c}
           Link(c) == IF after(c) = {} THEN last ELSE Least(after(c))
<1>1. T \subseteq Clusters
  BY TakenFacts
<1>2. Cardinality(T) \in Nat
  BY <1>1, ClustersFinite
<1>3. ft.free_size - ERASE_SIZE * Cardinality(T) \in Int
  <2>1. ERASE_SIZE * Cardinality(T) \in Int
    BY <1>2, FATAssumption
  <2>2. ft.free_size \in Int
    BY DEF FATs
  <2>3. QED
    BY <2>1, <2>2
<1>4. ASSUME NEW c \in Clusters
      PROVE  Link(c) \in 0..FILE_ENTRY_COUNT \cup {FAT_END_CLUSTER}
  <2>1. after(c) # {} => Least(after(c)) \in after(c)
    <3>1. after(c) \subseteq Nat
      BY <1>1 DEF Clusters
    <3>2. QED
      BY <3>1, LeastIsLeast
  <2>2. last \in 0..FILE_ENTRY_COUNT \cup {FAT_END_CLUSTER}
    BY FATAssumption DEF FAT_END_CLUSTER
  <2>3. QED
    BY <1>1, <2>1, <2>2 DEF Clusters
<1> DEFINE table == [c \in Clusters |-> IF c \in T THEN Link(c)
                                        ELSE ft.cluster_table[c]]
           size == ft.free_size - ERASE_SIZE * Cardinality(T)
<1>5. Allocate(ft, k) = [ft EXCEPT !.free_size = size, !.cluster_table = table]
  BY DEF Allocate
<1> HIDE DEF T, Link
<1>6. table \in ClusterTables
  BY <1>4 DEF FATs, ClusterTables
<1> HIDE DEF table, size
<1>7. size \in Int
  BY <1>3 DEF size
<1>8. QED
  BY <1>5, <1>6, <1>7 DEF FATs

LEMMA BuildClusterListType ==
  ASSUME NEW ft \in FATs, NEW e \in Entries, NEW length \in Nat
  PROVE  BuildClusterList(ft, e, length) \in FATs
<1> DEFINE k == Blocks(length)
           T == Taken(ft, k)
           first == IF T = {} THEN 0 ELSE Least(T)
<1>1. k \in Nat
  BY BlocksCeiling
<1>2. Allocate(ft, k) \in FATs
  BY <1>1, AllocateType
<1>3. first \in 0..FILE_ENTRY_COUNT
  <2>1. T \subseteq Clusters
    BY <1>1, TakenFacts
  <2>2. T \subseteq Nat
    BY <2>1, ClustersFinite
  <2>3. T # {} => Least(T) \in Clusters
    BY <2>1, <2>2, LeastIsLeast
  <2>4. QED
    BY <2>3, FATAssumption DEF Clusters, FAT_END_CLUSTER
<1> DEFINE f == Allocate(ft, k)
<1>4. BuildClusterList(ft, e, length) =
        [f EXCEPT !.file_entries[e].first_cluster = first]
  BY DEF BuildClusterList
<1> HIDE DEF k, first, f
<1>5. [f.file_entries EXCEPT ![e].first_cluster = first] \in [Entries -> FileEntries]
  BY <1>2, <1>3 DEF FATs, FileEntries, f
<1>6. QED
  BY <1>2, <1>4, <1>5 DEF FATs, f

LEMMA ContinueClusterListType ==
  ASSUME NEW ft \in FATs, NEW tail, NEW delta \in Nat
  PROVE  ContinueClusterList(ft, tail, delta) \in FATs
<1> DEFINE T == Taken(ft, delta)
           f == Allocate(ft, delta)
<1>1. f \in FATs
  BY AllocateType
<1>2. T # {} => Least(T) \in Clusters
  <2>1. T \subseteq Clusters
    BY TakenFacts
  <2>2. T \subseteq Nat
    BY <2>1, ClustersFinite
  <2>3. QED
    BY <2>1, <2>2, LeastIsLeast
<1>3. ContinueClusterList(ft, tail, delta) =
        [f EXCEPT !.cluster_table[tail] = IF T = {} THEN @ ELSE Least(T)]
  BY DEF ContinueClusterList
<1> HIDE DEF T, f
<1>4. CASE T = {}
  <2>1. [f EXCEPT !.cluster_table[tail] = @] = f
    BY <1>1 DEF FATs, ClusterTables
  <2>2. QED
    BY <1>1, <1>3, <1>4, <2>1
<1>5. CASE T # {}
  <2> DEFINE v == Least(T)
             table == [f.cluster_table EXCEPT ![tail] = v]
  <2>1. ContinueClusterList(ft, tail, delta) = [f EXCEPT !.cluster_table = table]
    BY <1>3, <1>5
  <2>2. v \in 0..FILE_ENTRY_COUNT \cup {FAT_END_CLUSTER}
    BY <1>2, <1>5, FATAssumption DEF Clusters, FAT_END_CLUSTER
  <2>3. f.cluster_table \in ClusterTables
    BY <1>1 DEF FATs
  <2> HIDE DEF v
  <2>4. table \in ClusterTables
    BY <2>2, <2>3 DEF ClusterTables
  <2> HIDE DEF table
  <2>5. QED
    BY <1>1, <2>1, <2>4 DEF FATs
<1>6. QED
  BY <1>4, <1>5

\* An image of an interval is finite.
LEMMA ImageFinite ==
  ASSUME NEW a \in Int, NEW b \in Int, NEW w
  PROVE  /\ IsFiniteSet({w[i] : i \in a..b})
         /\ Cardinality({w[i] : i \in a..b}) \in Nat
<1> DEFINE f == [i \in a..b |-> w[i]]
           S == {w[i] : i \in a..b}
<1>1. f \in Surjection(a..b, S)
  BY DEF Surjection
<1>2. IsFiniteSet(a..b)
  BY FS_Interval
<1>3. IsFiniteSet(S)
  BY <1>1, <1>2, FS_Surjection
<1>4. QED
  BY <1>3, FS_CardinalityType

LEMMA ReleaseType ==
  ASSUME NEW ft \in FATs, NEW S, Cardinality(S) \in Nat
  PROVE  Release(ft, S) \in FATs
<1>1. ft.free_size + ERASE_SIZE * Cardinality(S) \in Int
  <2>1. ERASE_SIZE * Cardinality(S) \in Int
    BY FATAssumption
  <2>2. QED
    BY <2>1 DEF FATs
<1>2. [c \in Clusters |-> IF c \in S THEN 0 ELSE ft.cluster_table[c]]
        \in ClusterTables
  BY FATAssumption DEF FATs, ClusterTables, FAT_END_CLUSTER
<1>3. QED
  BY <1>1, <1>2 DEF Release, FATs

LEMMA UpdateClusterListType ==
  ASSUME NEW ft \in FATs, NEW e \in Entries, NEW length \in Nat
  PROVE  UpdateClusterList(ft, e, length) \in FATs
<1> DEFINE current == Blocks(ft.file_entries[e].size)
           required == Blocks(length)
           At == FileWalk(ft, e)
           freed == Release(ft, {At[i] : i \in required..(current - 1)})
<1>1. current \in Nat /\ required \in Nat
  <2>1. ft.file_entries[e].size \in Nat
    BY FATAssumption DEF FATs, FileEntries
  <2>2. QED
    BY <2>1, BlocksCeiling
<1>2. UpdateClusterList(ft, e, length) =
        CASE required > current ->
               ContinueClusterList(ft, At[current - 1], required - current)
          [] required < current ->
               [freed EXCEPT !.cluster_table[At[required - 1]] = FAT_END_CLUSTER]
          [] OTHER -> ft
  BY DEF UpdateClusterList
<1> HIDE DEF current, required, At
<1>3. freed \in FATs
  <2>1. current - 1 \in Int
    BY <1>1
  <2> DEFINE b == current - 1
  <2>2. required \in Int
    BY <1>1
  <2> HIDE DEF b
  <2>3. b \in Int
    BY <2>1 DEF b
  <2>4. Cardinality({At[i] : i \in required..b}) \in Nat
    BY <2>2, <2>3, ImageFinite, Zenon
  <2>5. QED
    BY <2>4, ReleaseType DEF b
<1> HIDE DEF freed
<1>4. CASE required > current
  <2>1. required - current \in Nat
    BY <1>1, <1>4
  <2>2. QED
    BY <1>1, <1>2, <1>4, <2>1, ContinueClusterListType
<1>5. CASE required < current
  BY <1>1, <1>2, <1>3, <1>5 DEF FATs, ClusterTables
<1>6. CASE required = current
  BY <1>1, <1>2, <1>6
<1>7. QED
  BY <1>1, <1>4, <1>5, <1>6

LEMMA SetSizeType ==
  ASSUME NEW ft \in FATs, NEW e \in Entries, NEW length \in Nat
  PROVE  SetSize(ft, e, length) \in FATs
<1>1. length % SIZE_MOD \in 0..(SIZE_MOD - 1)
  BY FATAssumption
<1>2. QED
  BY <1>1 DEF SetSize, FATs, FileEntries

LEMMA SetNameType ==
  ASSUME NEW ft \in FATs, NEW e \in Entries, NEW n \in FileNames \cup BadNames
  PROVE  SetName(ft, e, n) \in FATs
<1>1. Stored(n) \in FileNames \cup {NoName}
  BY FATAssumption DEF Stored
<1>2. QED
  BY <1>1 DEF SetName, FATs, FileEntries

LEMMA DeleteFileType ==
  ASSUME NEW ft \in FATs, NEW e \in Entries
  PROVE  DeleteFile(ft, e) \in FATs
<1> DEFINE first == ft.file_entries[e].first_cluster
           freed == Release(ft, Chain(ft.cluster_table, first))
<1>1. Chain(ft.cluster_table, first) \subseteq Clusters
  BY DEF Chain
<1>2. freed \in FATs
  BY <1>1, ClustersFinite, ReleaseType
<1>3. DeleteFile(ft, e) = freed
      \/ DeleteFile(ft, e) = [freed EXCEPT !.file_entries[e].first_cluster = 0]
  BY DEF DeleteFile
<1> HIDE DEF freed
<1>4. QED
  BY <1>2, <1>3, FATAssumption DEF FATs, FileEntries, FAT_END_CLUSTER

-----------------------------------------------------------------------------
(* Walk is well defined, and what it computes.                             *)

LEMMA WalkUnfold ==
  ASSUME NEW table, NEW c
  PROVE  /\ Walk(table, c)[0] = c
         /\ \A i \in 1..FILE_ENTRY_COUNT :
              Walk(table, c)[i] = NextCluster(table, Walk(table, c)[i - 1])
<1> DEFINE N == FILE_ENTRY_COUNT
           Good(m, g) == /\ g = [i \in 0..N |-> g[i]]
                         /\ g[0] = c
                         /\ \A i \in 1..m : g[i] = NextCluster(table, g[i - 1])
           Bad == {m \in 0..N : \A g : ~Good(m, g)}
<1>1. N \in Nat
  BY FATAssumption DEF FAT_END_CLUSTER
<1>2. Bad = {}
  <2>1. SUFFICES ASSUME Bad # {} PROVE FALSE
    OBVIOUS
  <2>2. PICK m \in Bad : \A k \in Bad : m <= k
    <3>1. Bad \subseteq Nat
      BY <1>1
    <3>2. QED
      BY <2>1, <3>1, LeastNat
  <2>3. m # 0
    <3>1. Good(0, [i \in 0..N |-> c])
      BY <1>1
    <3>2. QED
      BY <2>2, <3>1
  <2>4. m - 1 \in 0..N /\ m - 1 \notin Bad /\ m \in 1..N
    BY <1>1, <2>2, <2>3
  <2>5. PICK g : Good(m - 1, g)
    BY <2>4
  <2>6. PICK h : h = [i \in 0..N |-> IF i = m THEN NextCluster(table, g[m - 1]) ELSE g[i]]
    OBVIOUS
  <2>7. h = [i \in 0..N |-> h[i]]
    BY <2>6
  <2>8. h[0] = c
    BY <1>1, <2>4, <2>5, <2>6
  <2>9. ASSUME NEW i \in 1..m
        PROVE  h[i] = NextCluster(table, h[i - 1])
    <3>1. i \in 0..N /\ i - 1 \in 0..N /\ i - 1 # m
      BY <1>1, <2>4
    <3>2. h[i - 1] = g[i - 1] /\ h[i] = IF i = m THEN NextCluster(table, g[m - 1]) ELSE g[i]
      BY <2>6, <3>1
    <3>3. i # m => g[i] = NextCluster(table, g[i - 1])
      <4>1. \A k \in 1..(m - 1) : g[k] = NextCluster(table, g[k - 1])
        BY <2>5, Zenon
      <4>2. i # m => i \in 1..(m - 1)
        BY <2>4
      <4>3. QED
        BY <4>1, <4>2
    <3>4. QED
      BY <3>2, <3>3
  <2>10. Good(m, h)
    BY <2>7, <2>8, <2>9
  <2>11. QED
    BY <2>2, <2>10
<1>3. PICK g : Good(N, g)
  BY <1>1, <1>2
<1>4. \A i \in 0..N : g[i] = IF i = 0 THEN c ELSE NextCluster(table, g[i - 1])
  <2>1. ASSUME NEW i \in 0..N, i # 0
        PROVE  g[i] = NextCluster(table, g[i - 1])
    <3>1. i \in 1..N
      BY <1>1, <2>1
    <3>2. QED
      BY <1>3, <3>1
  <2>2. QED
    BY <1>3, <2>1
<1>5. g = [i \in 0..N |-> IF i = 0 THEN c ELSE NextCluster(table, g[i - 1])]
  BY <1>3, <1>4
<1> DEFINE IsWalk(w) == w = [i \in 0..FILE_ENTRY_COUNT |->
                         IF i = 0 THEN c ELSE NextCluster(table, w[i - 1])]
<1>6. PICK w : w = Walk(table, c)
  OBVIOUS
<1>7. IsWalk(w)
  <2>1. Walk(table, c) = CHOOSE v : IsWalk(v)
    BY DEF Walk
  <2>2. \E v : IsWalk(v)
    BY <1>5, Zenon
  <2> HIDE DEF IsWalk
  <2>3. IsWalk(CHOOSE v : IsWalk(v))
    BY <2>2, Zenon
  <2>4. QED
    BY <1>6, <2>1, <2>3, Zenon
<1>8. FILE_ENTRY_COUNT \in Nat
  BY FATAssumption DEF FAT_END_CLUSTER
<1>9. \A i \in 0..FILE_ENTRY_COUNT :
        w[i] = IF i = 0 THEN c ELSE NextCluster(table, w[i - 1])
  BY <1>7, Zenon
<1>10. 0 \in 0..FILE_ENTRY_COUNT
      /\ \A i \in 1..FILE_ENTRY_COUNT : i # 0 /\ i \in 0..FILE_ENTRY_COUNT
  BY <1>8
<1>11. QED
  BY <1>6, <1>9, <1>10, Zenon

-----------------------------------------------------------------------------
(* A FAT whose files are chains of clusters of their own.  chain[e][i] is  *)
(* the ith cluster of the file of entry e.                                 *)

FileBlocks(ft, e) == Blocks(ft.file_entries[e].size)

\* A file begins where its entry says, and has a block at least.
Begins(ft, chain) ==
  \A e \in Used(ft) :
    FileBlocks(ft, e) > 0 /\ chain[e][1] = ft.file_entries[e].first_cluster

\* Its clusters are linked, and the last one has the end mark.
Runs(ft, chain) ==
  \A e \in Used(ft) : \A i \in 1..FileBlocks(ft, e) :
    /\ chain[e][i] \in Clusters
    /\ ft.cluster_table[chain[e][i]] =
         IF i = FileBlocks(ft, e) THEN FAT_END_CLUSTER ELSE chain[e][i + 1]

\* No cluster is used twice.
Apart(ft, chain) ==
  \A e, g \in Used(ft) :
    \A i \in 1..FileBlocks(ft, e), j \in 1..FileBlocks(ft, g) :
      chain[e][i] = chain[g][j] => e = g /\ i = j

\* A cluster that is not free belongs to a file.
Covers(ft, chain) ==
  \A c \in Clusters : ft.cluster_table[c] # 0 =>
    \E e \in Used(ft) : \E i \in 1..FileBlocks(ft, e) : chain[e][i] = c

Counted(ft) == ft.free_size = ERASE_SIZE * Cardinality(Free(ft))

Linked(ft, chain) ==
  /\ Begins(ft, chain) /\ Runs(ft, chain) /\ Apart(ft, chain)
  /\ Covers(ft, chain) /\ Counted(ft)

-----------------------------------------------------------------------------
(* Counting.                                                               *)

\* f pairs the elements of S with those of T.
Pairs(f, S, T) ==
  /\ f \in [S -> T]
  /\ \A x, y \in S : f[x] = f[y] => x = y
  /\ \A t \in T : \E x \in S : f[x] = t

LEMMA SameCount ==
  ASSUME NEW S, NEW T, IsFiniteSet(S), NEW f, Pairs(f, S, T)
  PROVE  IsFiniteSet(T) /\ Cardinality(T) = Cardinality(S)
<1>1. f \in Surjection(S, T)
  BY DEF Surjection, Pairs
<1>2. f \in Injection(S, T)
  BY DEF Injection, IsInjective, Pairs
<1>3. QED
  BY <1>1, <1>2, FS_Surjection

LEMMA FewerCount ==
  ASSUME NEW S, NEW T, IsFiniteSet(T), NEW f \in [S -> T],
         \A x, y \in S : f[x] = f[y] => x = y
  PROVE  IsFiniteSet(S) /\ Cardinality(S) <= Cardinality(T)
<1>1. f \in Injection(S, T)
  BY DEF Injection, IsInjective
<1>2. QED
  BY <1>1, FS_Injection

LEMMA BlocksOfBytes ==
  ASSUME NEW a \in Int, NEW b \in Int
  PROVE  /\ ERASE_SIZE * (a + b) = ERASE_SIZE * a + ERASE_SIZE * b
         /\ ERASE_SIZE * (a - b) = ERASE_SIZE * a - ERASE_SIZE * b
         /\ ERASE_SIZE * a \in Int
         /\ a >= 0 => ERASE_SIZE * a >= 0
BY FATAssumption

LEMMA FreeCount ==
  ASSUME NEW ft
  PROVE  /\ IsFiniteSet(Free(ft)) /\ Free(ft) \subseteq Clusters
         /\ Cardinality(Free(ft)) \in 0..FILE_ENTRY_COUNT
         /\ IsFiniteSet(Clusters \ Free(ft))
         /\ Cardinality(Clusters \ Free(ft)) + Cardinality(Free(ft)) = FILE_ENTRY_COUNT
<1>1. FILE_ENTRY_COUNT \in Nat
  BY FATAssumption DEF FAT_END_CLUSTER
<1>2. IsFiniteSet(Clusters) /\ Cardinality(Clusters) = FILE_ENTRY_COUNT
  BY <1>1, FS_Interval DEF Clusters
<1>3. Free(ft) \subseteq Clusters
  BY DEF Free
<1>4. IsFiniteSet(Free(ft)) /\ Cardinality(Free(ft)) \in 0..FILE_ENTRY_COUNT
  BY <1>1, <1>3, ClustersFinite
<1>5. Clusters \cap Free(ft) = Free(ft)
  BY <1>3
<1>6. /\ IsFiniteSet(Clusters \ Free(ft))
      /\ Cardinality(Clusters \ Free(ft)) = Cardinality(Clusters) - Cardinality(Free(ft))
  BY <1>2, <1>5, FS_Difference
<1>7. QED
  BY <1>1, <1>2, <1>3, <1>4, <1>6

-----------------------------------------------------------------------------
(* What follows for a FAT whose files are chains.                          *)

LEMMA EndMark ==
  /\ FILE_ENTRY_COUNT \in Nat /\ FILE_ENTRY_COUNT > 0
  /\ FAT_END_CLUSTER \notin Clusters /\ 0 \notin Clusters /\ FAT_END_CLUSTER # 0
  /\ Clusters \subseteq Nat
BY FATAssumption DEF FAT_END_CLUSTER, Clusters

LEMMA FileBlocksType ==
  ASSUME NEW ft \in FATs, NEW e \in Entries
  PROVE  /\ ft.file_entries[e].size \in 0..(SIZE_MOD - 1)
         /\ ft.file_entries[e].size \in Nat
         /\ FileBlocks(ft, e) \in Nat
<1>1. ft.file_entries[e].size \in 0..(SIZE_MOD - 1)
  BY DEF FATs, FileEntries
<1>2. ft.file_entries[e].size \in Nat
  BY <1>1, FATAssumption
<1>3. QED
  BY <1>1, <1>2, BlocksCeiling DEF FileBlocks

LEMMA UsedEntries ==
  ASSUME NEW ft
  PROVE  Used(ft) \subseteq Entries
BY DEF Used

LEMMA ChainLength ==
  ASSUME NEW ft \in FATs, NEW chain, Linked(ft, chain), NEW e \in Used(ft)
  PROVE  FileBlocks(ft, e) \in 1..FILE_ENTRY_COUNT
<1>1. PICK n \in Nat : n = FileBlocks(ft, e)
  BY FileBlocksType, UsedEntries
<1>2. n > 0
  BY <1>1 DEF Linked, Begins
<1>3. PICK f : f = [i \in 1..n |-> chain[e][i]]
  OBVIOUS
<1>4. f \in [1..n -> Clusters]
  BY <1>1, <1>3 DEF Linked, Runs
<1>5. \A i, j \in 1..n : f[i] = f[j] => i = j
  BY <1>1, <1>3 DEF Linked, Apart
<1>6. IsFiniteSet(Clusters) /\ Cardinality(Clusters) = FILE_ENTRY_COUNT
  BY EndMark, FS_Interval DEF Clusters
<1>7. Cardinality(1..n) <= FILE_ENTRY_COUNT
  BY <1>4, <1>5, <1>6, FewerCount
<1>8. Cardinality(1..n) = n
  BY <1>2, FS_Interval
<1>9. QED
  BY <1>1, <1>2, <1>7, <1>8, EndMark

\* A loop "c = cluster_table[c - 1]" goes along the chain and stops at the mark.
LEMMA WalkFollows ==
  ASSUME NEW ft \in FATs, NEW chain, Linked(ft, chain), NEW e \in Used(ft)
  PROVE  /\ \A i \in 0..(FileBlocks(ft, e) - 1) :
              FileWalk(ft, e)[i] = chain[e][i + 1]
         /\ \A i \in FileBlocks(ft, e)..FILE_ENTRY_COUNT :
              FileWalk(ft, e)[i] = FAT_END_CLUSTER
<1>1. PICK n \in 1..FILE_ENTRY_COUNT : n = FileBlocks(ft, e)
  BY ChainLength
<1>2. PICK w : w = FileWalk(ft, e)
  OBVIOUS
<1>3. PICK f : f = [i \in 0..FILE_ENTRY_COUNT |->
                      IF i < n THEN chain[e][i + 1] ELSE FAT_END_CLUSTER]
  OBVIOUS
<1>4. \A i \in 0..FILE_ENTRY_COUNT :
        f[i] = IF i < n THEN chain[e][i + 1] ELSE FAT_END_CLUSTER
  BY <1>3
<1>5. /\ w[0] = chain[e][1]
      /\ \A i \in 1..FILE_ENTRY_COUNT : w[i] = NextCluster(ft.cluster_table, w[i - 1])
  BY <1>2, WalkUnfold DEF FileWalk, Linked, Begins
<1>6. \A i \in 1..n : /\ chain[e][i] \in Clusters
                      /\ ft.cluster_table[chain[e][i]] =
                           IF i = n THEN FAT_END_CLUSTER ELSE chain[e][i + 1]
  BY <1>1 DEF Linked, Runs
<1>7. ASSUME NEW i \in 1..FILE_ENTRY_COUNT
      PROVE  f[i] = NextCluster(ft.cluster_table, f[i - 1])
  <2>1. i \in 0..FILE_ENTRY_COUNT /\ i - 1 \in 0..FILE_ENTRY_COUNT /\ (i - 1) + 1 = i
    BY EndMark
  <2>2. CASE i - 1 < n
    <3>1. i \in 1..n
      BY <2>2
    <3>2. f[i - 1] = chain[e][i]
      BY <1>4, <2>1, <2>2
    <3>3. NextCluster(ft.cluster_table, f[i - 1]) =
            IF i = n THEN FAT_END_CLUSTER ELSE chain[e][i + 1]
      BY <1>6, <3>1, <3>2 DEF NextCluster
    <3>4. f[i] = IF i < n THEN chain[e][i + 1] ELSE FAT_END_CLUSTER
      BY <1>4, <2>1
    <3>5. QED
      BY <3>1, <3>3, <3>4
  <2>3. CASE ~(i - 1 < n)
    <3>1. f[i - 1] = FAT_END_CLUSTER
      BY <1>4, <2>1, <2>3
    <3>2. f[i] = FAT_END_CLUSTER
      BY <1>4, <2>1, <2>3
    <3>3. QED
      BY <3>1, <3>2, EndMark DEF NextCluster
  <2>4. QED
    BY <2>2, <2>3
<1>8. f[0] = chain[e][1]
  <2>1. 0 \in 0..FILE_ENTRY_COUNT /\ 0 < n /\ 0 + 1 = 1
    BY EndMark
  <2>2. QED
    BY <1>4, <2>1
<1> DEFINE Bad == {i \in 0..FILE_ENTRY_COUNT : w[i] # f[i]}
<1>9. Bad = {}
  <2>1. SUFFICES ASSUME Bad # {} PROVE FALSE
    OBVIOUS
  <2>2. Bad \subseteq Nat
    BY EndMark
  <2>3. PICK i \in Bad : \A j \in Bad : i <= j
    BY <2>1, <2>2, LeastNat
  <2>4. i # 0
    BY <1>5, <1>8, <2>3
  <2>5. i \in 1..FILE_ENTRY_COUNT /\ i - 1 \in 0..FILE_ENTRY_COUNT /\ ~(i <= i - 1)
    BY <2>3, <2>4, EndMark
  <2>6. w[i - 1] = f[i - 1]
    BY <2>3, <2>5
  <2>7. w[i] = f[i]
    BY <1>5, <1>7, <2>5, <2>6
  <2>8. QED
    BY <2>3, <2>7
<1>10. \A i \in 0..FILE_ENTRY_COUNT :
         w[i] = IF i < n THEN chain[e][i + 1] ELSE FAT_END_CLUSTER
  BY <1>4, <1>9
<1>11. /\ \A i \in 0..(n - 1) : i \in 0..FILE_ENTRY_COUNT /\ i < n
       /\ \A i \in n..FILE_ENTRY_COUNT : i \in 0..FILE_ENTRY_COUNT /\ ~(i < n)
  BY EndMark
<1>12. QED
  BY <1>1, <1>2, <1>10, <1>11

\* FlashFSValidateFAT accepts such a FAT.
LEMMA LinkedIsValid ==
  ASSUME NEW ft \in FATs, NEW chain, Linked(ft, chain)
  PROVE  ValidateFAT(ft)
<1>1. ASSUME NEW e \in Used(ft)
      PROVE  ValidEntry(ft, e)
  <2>1. PICK n \in 1..FILE_ENTRY_COUNT : n = FileBlocks(ft, e)
    BY ChainLength
  <2>2. n - 1 \in 0..(n - 1) /\ n \in n..FILE_ENTRY_COUNT /\ (n - 1) + 1 = n
        /\ n \in 1..n
    OBVIOUS
  <2>3. FileWalk(ft, e)[n - 1] = chain[e][n] /\ FileWalk(ft, e)[n] = FAT_END_CLUSTER
    BY <2>1, <2>2, WalkFollows
  <2>4. chain[e][n] \in Clusters
    BY <2>1, <2>2 DEF Linked, Runs
  <2>5. QED
    BY <2>1, <2>3, <2>4 DEF ValidEntry, FileBlocks
<1> DEFINE Places == {p \in Used(ft) \X Clusters : p[2] <= FileBlocks(ft, p[1])}
<1>2. UsedSize(ft) = ERASE_SIZE * Cardinality(Places)
  BY DEF UsedSize, FileBlocks
<1>3. IsFiniteSet(Places)
  <2>1. IsFiniteSet(Entries) /\ IsFiniteSet(Clusters)
    BY EndMark, FS_Interval DEF Entries, Clusters
  <2>2. IsFiniteSet(Entries \X Clusters)
    BY <2>1, FS_Product
  <2>3. Places \in SUBSET (Entries \X Clusters)
    BY UsedEntries
  <2> HIDE DEF Places
  <2>4. QED
    BY <2>2, <2>3, FS_Subset
<1>4. PICK f : f = [p \in Places |-> chain[p[1]][p[2]]]
  OBVIOUS
<1>5. ASSUME NEW p \in Places
      PROVE  /\ p[1] \in Used(ft) /\ p[2] \in 1..FileBlocks(ft, p[1])
             /\ p = <<p[1], p[2]>>
  <2>1. p[1] \in Used(ft) /\ p[2] \in Clusters /\ p[2] <= FileBlocks(ft, p[1])
        /\ p = <<p[1], p[2]>>
    OBVIOUS
  <2>2. FileBlocks(ft, p[1]) \in 1..FILE_ENTRY_COUNT
    BY <2>1, ChainLength
  <2>3. QED
    BY <2>1, <2>2 DEF Clusters
<1>6. f \in [Places -> Clusters \ Free(ft)]
  <2>1. ASSUME NEW p \in Places
        PROVE  chain[p[1]][p[2]] \in Clusters \ Free(ft)
    <3>1. PICK e \in Used(ft) : \E i \in 1..FileBlocks(ft, e) : e = p[1] /\ i = p[2]
      BY <1>5
    <3>2. PICK i \in 1..FileBlocks(ft, e) : i = p[2]
      BY <3>1
    <3>3. PICK n \in 1..FILE_ENTRY_COUNT : n = FileBlocks(ft, e)
      BY ChainLength
    <3>4. chain[e][i] \in Clusters
          /\ ft.cluster_table[chain[e][i]] =
               IF i = n THEN FAT_END_CLUSTER ELSE chain[e][i + 1]
      BY <3>3 DEF Linked, Runs
    <3>5. i # n => chain[e][i + 1] \in Clusters
      <4>1. i # n => i + 1 \in 1..n
        BY <3>3
      <4>2. QED
        BY <3>3, <4>1 DEF Linked, Runs
    <3>6. QED
      BY <3>1, <3>2, <3>4, <3>5, EndMark DEF Free
  <2>2. QED
    BY <1>4, <2>1
<1>7. \A p, q \in Places : f[p] = f[q] => p = q
  <2>1. ASSUME NEW p \in Places, NEW q \in Places, f[p] = f[q]
        PROVE  p = q
    <3>1. chain[p[1]][p[2]] = chain[q[1]][q[2]]
      BY <1>4, <2>1
    <3>2. p[1] = q[1] /\ p[2] = q[2]
      BY <1>5, <3>1 DEF Linked, Apart
    <3>3. QED
      BY <1>5, <3>2
  <2>2. QED
    BY <2>1
<1>8. \A c \in Clusters \ Free(ft) : \E p \in Places : f[p] = c
  <2>1. ASSUME NEW c \in Clusters \ Free(ft)
        PROVE  \E p \in Places : f[p] = c
    <3>0. PICK e \in Used(ft) : \E i \in 1..FileBlocks(ft, e) : chain[e][i] = c
      BY DEF Free, Linked, Covers
    <3>1. PICK i \in 1..FileBlocks(ft, e) : chain[e][i] = c
      BY <3>0
    <3>2. i \in Clusters /\ i <= FileBlocks(ft, e)
      <4>1. PICK n \in 1..FILE_ENTRY_COUNT : n = FileBlocks(ft, e)
        BY ChainLength
      <4>2. QED
        BY <4>1, EndMark DEF Clusters
    <3>3. <<e, i>> \in Places
      BY <3>2
    <3>4. f[<<e, i>>] = c
      BY <1>4, <3>1, <3>3
    <3>5. QED
      BY <3>3, <3>4
  <2>2. QED
    BY <2>1
<1> HIDE DEF Places
<1>9. Cardinality(Clusters \ Free(ft)) = Cardinality(Places)
  <2>1. Pairs(f, Places, Clusters \ Free(ft))
    BY <1>6, <1>7, <1>8 DEF Pairs
  <2>2. QED
    BY <1>3, <2>1, SameCount
<1>10. PICK u \in Nat, v \in Nat :
         u = Cardinality(Places) /\ v = Cardinality(Free(ft)) /\ u + v = FILE_ENTRY_COUNT
  <2>1. Cardinality(Places) \in Nat
    BY <1>3, FS_CardinalityType
  <2>2. Cardinality(Free(ft)) \in Nat
        /\ Cardinality(Places) + Cardinality(Free(ft)) = FILE_ENTRY_COUNT
    BY <1>9, FreeCount
  <2>3. QED
    BY <2>1, <2>2
<1>11. ft.free_size = ERASE_SIZE * v
  BY <1>10 DEF Linked, Counted
<1>12. UsedSize(ft) + ft.free_size = MAX_FREE_SIZE
  <2>1. ERASE_SIZE * (u + v) = ERASE_SIZE * u + ERASE_SIZE * v
    BY BlocksOfBytes
  <2>2. MAX_FREE_SIZE = ERASE_SIZE * FILE_ENTRY_COUNT
    BY FATAssumption, EndMark DEF MAX_FREE_SIZE
  <2>3. QED
    BY <1>2, <1>10, <1>11, <2>1, <2>2
<1>13. ft.free_size \in 0..MAX_FREE_SIZE
  <2>1. ERASE_SIZE * u \in Int /\ ERASE_SIZE * u >= 0
        /\ ERASE_SIZE * v \in Int /\ ERASE_SIZE * v >= 0
    BY BlocksOfBytes
  <2>2. MAX_FREE_SIZE \in Int
    BY FATAssumption, EndMark DEF MAX_FREE_SIZE
  <2>3. ERASE_SIZE * u + ERASE_SIZE * v = MAX_FREE_SIZE
    BY <1>2, <1>10, <1>11, <1>12
  <2> HIDE DEF MAX_FREE_SIZE
  <2>4. QED
    BY <1>11, <2>1, <2>2, <2>3
<1>14. ft.free_size = ERASE_SIZE * Cardinality(Free(ft))
  BY <1>10, <1>11
<1>15. QED
  BY <1>1, <1>12, <1>13, <1>14 DEF ValidateFAT

-----------------------------------------------------------------------------
(* The clusters that are taken, one after the other.                       *)

LEMMA Enumeration ==
  ASSUME NEW T \in SUBSET Clusters, NEW k \in Nat, Cardinality(T) = k
  PROVE  \E s \in [1..k -> T] :
           /\ \A i, j \in 1..k : i < j => s[i] < s[j]
           /\ \A c \in T : \E i \in 1..k : s[i] = c
<1> DEFINE Lists(s, S, n) == /\ s \in [1..n -> S]
                             /\ \A i, j \in 1..n : i < j => s[i] < s[j]
                             /\ \A c \in S : \E i \in 1..n : s[i] = c
           Bad == {n \in Nat : \E S \in SUBSET Clusters :
                      Cardinality(S) = n /\ \A s : ~Lists(s, S, n)}
<1>1. Bad = {}
  <2>1. SUFFICES ASSUME Bad # {} PROVE FALSE
    OBVIOUS
  <2>2. PICK n \in Bad : \A m \in Bad : n <= m
    BY <2>1, LeastNat
  <2>3. PICK S \in SUBSET Clusters : Cardinality(S) = n /\ \A s : ~Lists(s, S, n)
    BY <2>2
  <2>4. IsFiniteSet(S) /\ S \subseteq Nat /\ n \in Nat
    BY <2>2, ClustersFinite
  <2>5. n # 0
    <3>1. ASSUME n = 0 PROVE FALSE
      <4>1. S = {}
        BY <2>3, <2>4, <3>1, FS_EmptySet
      <4>2. PICK s : s = [i \in 1..0 |-> 0]
        OBVIOUS
      <4>3. Lists(s, S, 0)
        BY <4>1, <4>2
      <4>4. QED
        BY <2>3, <3>1, <4>3
    <3>2. QED
      BY <3>1
  <2>6. n - 1 \in Nat /\ n - 1 \notin Bad /\ n - 1 \in 0..Cardinality(S)
    BY <2>2, <2>3, <2>4, <2>5
  <2>7. PICK L : L = Lowest(S, n - 1)
    OBVIOUS
  <2>8. L \in SUBSET S /\ Cardinality(L) = n - 1 /\ \A c \in L, d \in S \ L : c < d
    BY <2>6, <2>7, LowestExists
  <2>9. PICK s : Lists(s, L, n - 1)
    <3>1. L \in SUBSET Clusters
      BY <2>8
    <3>2. QED
      BY <2>6, <2>8, <3>1
  <2>10. PICK d : S \ L = {d}
    <3>1. S \cap L = L
      BY <2>8
    <3>2. IsFiniteSet(S \ L) /\ Cardinality(S \ L) = n - (n - 1)
      <4>1. /\ IsFiniteSet(S \ L)
            /\ Cardinality(S \ L) = Cardinality(S) - Cardinality(L)
        <5>1. /\ IsFiniteSet(S \ L)
              /\ Cardinality(S \ L) = Cardinality(S) - Cardinality(S \cap L)
          BY <2>4, FS_Difference, Zenon
        <5>2. QED
          BY <3>1, <5>1, Zenon
      <4>2. Cardinality(S) = n /\ Cardinality(L) = n - 1
        BY <2>3, <2>8
      <4>3. QED
        BY <4>1, <4>2
    <3>3. Cardinality(S \ L) = 1
      BY <2>4, <3>2
    <3>4. QED
      BY <3>2, <3>3, FS_Singleton
  <2>11. PICK t : t = [i \in 1..n |-> IF i = n THEN d ELSE s[i]]
    OBVIOUS
  <2>12. \A i \in 1..n : i # n => i \in 1..(n - 1)
    BY <2>4
  <2>13. d \in S /\ \A c \in S : c = d \/ c \in L
    BY <2>10
  <2>14. \A i \in 1..(n - 1) : s[i] \in L /\ s[i] \in S /\ s[i] < d
    BY <2>8, <2>9, <2>10
  <2>15. t \in [1..n -> S]
    BY <2>11, <2>12, <2>13, <2>14
  <2>16. ASSUME NEW i \in 1..n, NEW j \in 1..n, i < j
         PROVE  t[i] < t[j]
    <3>1. i \in 1..(n - 1) /\ i # n
      BY <2>4, <2>16
    <3>2. t[i] = s[i]
      BY <2>11, <3>1
    <3>3. CASE j = n
      BY <2>11, <2>14, <3>1, <3>2, <3>3
    <3>4. CASE j # n
      <4>1. j \in 1..(n - 1) /\ t[j] = s[j]
        BY <2>11, <2>12, <3>4
      <4>2. QED
        BY <2>9, <2>16, <3>1, <3>2, <4>1
    <3>5. QED
      BY <3>3, <3>4
  <2>17. ASSUME NEW c \in S
         PROVE  \E i \in 1..n : t[i] = c
    <3>1. CASE c = d
      <4>1. n \in 1..n
        BY <2>4, <2>5
      <4>2. QED
        BY <2>11, <3>1, <4>1
    <3>2. CASE c \in L
      <4>1. PICK i \in 1..(n - 1) : s[i] = c
        BY <2>9, <3>2
      <4>2. i \in 1..n /\ i # n
        BY <2>4
      <4>3. QED
        BY <2>11, <4>1, <4>2
    <3>3. QED
      BY <2>13, <3>1, <3>2
  <2>18. Lists(t, S, n)
    BY <2>15, <2>16, <2>17
  <2>19. QED
    BY <2>3, <2>18
<1>2. \E s : Lists(s, T, k)
  <2> HIDE DEF Lists
  <2>1. k \notin Bad
    BY <1>1
  <2>2. QED
    BY <2>1
<1>3. QED
  BY <1>2

\* What FlashFSBuildClusterList and FlashFSContinueClusterList do when there
\* are enough free clusters.
LEMMA Allocated ==
  ASSUME NEW ft \in FATs, NEW k \in Nat, k > 0, k <= Cardinality(Free(ft))
  PROVE  \E s \in [1..k -> Free(ft)] :
           /\ \A i, j \in 1..k : s[i] = s[j] => i = j
           /\ Taken(ft, k) # {} /\ Least(Taken(ft, k)) = s[1]
           /\ \A i \in 1..k : Allocate(ft, k).cluster_table[s[i]] =
                IF i = k THEN FAT_END_CLUSTER ELSE s[i + 1]
           /\ \A c \in Clusters : (\A i \in 1..k : s[i] # c) =>
                Allocate(ft, k).cluster_table[c] = ft.cluster_table[c]
           /\ Allocate(ft, k).free_size = ft.free_size - ERASE_SIZE * k
           /\ Allocate(ft, k).file_entries = ft.file_entries
<1>1. PICK T : T = Taken(ft, k)
  OBVIOUS
<1>2. T \subseteq Free(ft) /\ T \in SUBSET Clusters /\ Cardinality(T) = k /\ T \subseteq Nat
  <2>1. T \subseteq Free(ft) /\ T \in SUBSET Clusters /\ Cardinality(T) = k
    BY <1>1, TakenFacts
  <2>2. QED
    BY <2>1, EndMark
<1>3. PICK s \in [1..k -> T] :
        /\ \A i, j \in 1..k : i < j => s[i] < s[j]
        /\ \A c \in T : \E i \in 1..k : s[i] = c
  BY <1>2, Enumeration
<1>4. \A i \in 1..k : s[i] \in T /\ s[i] \in Nat /\ s[i] \in Clusters
  BY <1>2, <1>3
<1>5. \A i, j \in 1..k : s[i] = s[j] => i = j
  BY <1>3, <1>4
<1>6. 1 \in 1..k /\ T # {}
  BY <1>3
<1>7. Least(T) = s[1]
  <2>1. Least(T) \in T /\ \A d \in T : Least(T) <= d
    BY <1>2, <1>6, LeastIsLeast
  <2>2. PICK i \in 1..k : s[i] = Least(T)
    BY <1>3, <2>1
  <2>3. i # 1 => s[1] < s[i]
    BY <1>3, <1>6
  <2>4. Least(T) <= s[1]
    BY <1>4, <1>6, <2>1
  <2>5. QED
    BY <1>4, <1>6, <2>2, <2>3, <2>4
<1> DEFINE after(c) == {d \in T : d > c}
           Link(c) == IF after(c) = {} THEN FAT_END_CLUSTER ELSE Least(after(c))
           table == [c \in Clusters |-> IF c \in T THEN Link(c) ELSE ft.cluster_table[c]]
<1>8. Allocate(ft, k) =
        [ft EXCEPT !.free_size = @ - ERASE_SIZE * k, !.cluster_table = table]
  BY <1>1, <1>2 DEF Allocate
<1>9. ASSUME NEW i \in 1..k
      PROVE  Link(s[i]) = IF i = k THEN FAT_END_CLUSTER ELSE s[i + 1]
  <2>1. CASE i = k
    <3>1. after(s[i]) = {}
      <4>1. ASSUME NEW d \in T, d > s[i] PROVE FALSE
        <5>1. PICK j \in 1..k : s[j] = d
          BY <1>3
        <5>2. j # i => s[j] < s[i]
          BY <1>3, <2>1
        <5>3. QED
          BY <1>4, <4>1, <5>1, <5>2
      <4>2. QED
        BY <4>1
    <3>2. QED
      BY <2>1, <3>1
  <2>2. CASE i # k
    <3>1. i + 1 \in 1..k /\ i < i + 1
      BY <2>2
    <3>2. s[i + 1] \in after(s[i])
      BY <1>3, <1>4, <3>1
    <3>3. after(s[i]) \subseteq Nat
      BY <1>2
    <3>4. Least(after(s[i])) \in after(s[i])
          /\ \A d \in after(s[i]) : Least(after(s[i])) <= d
      BY <3>2, <3>3, LeastIsLeast
    <3>5. PICK l \in after(s[i]) : l = Least(after(s[i]))
      BY <3>4
    <3>6. l \in T /\ l > s[i] /\ l <= s[i + 1] /\ l \in Nat
      BY <1>2, <3>2, <3>4, <3>5
    <3>7. PICK j \in 1..k : s[j] = l
      BY <1>3, <3>6
    <3>8. ~(j <= i)
      <4>1. ASSUME j <= i PROVE FALSE
        <5>1. j < i => s[j] < s[i]
          BY <1>3
        <5>2. QED
          BY <1>4, <3>6, <3>7, <4>1, <5>1
      <4>2. QED
        BY <4>1
    <3>9. i + 1 < j => s[i + 1] < s[j]
      BY <1>3, <3>1
    <3>10. j = i + 1
      BY <1>4, <3>1, <3>6, <3>7, <3>8, <3>9
    <3>11. QED
      BY <2>2, <3>2, <3>5, <3>7, <3>10
  <2>3. QED
    BY <2>1, <2>2
<1> HIDE DEF Link
<1>10. /\ Allocate(ft, k).cluster_table = table
       /\ Allocate(ft, k).free_size = ft.free_size - ERASE_SIZE * k
       /\ Allocate(ft, k).file_entries = ft.file_entries
  <2> HIDE DEF table
  <2>1. QED
    BY <1>8 DEF FATs
<1>11. \A i \in 1..k : Allocate(ft, k).cluster_table[s[i]] =
         IF i = k THEN FAT_END_CLUSTER ELSE s[i + 1]
  BY <1>4, <1>9, <1>10
<1>12. \A c \in Clusters : (\A i \in 1..k : s[i] # c) =>
         Allocate(ft, k).cluster_table[c] = ft.cluster_table[c]
  BY <1>3, <1>10
<1>13. s \in [1..k -> Free(ft)]
  BY <1>2, <1>3
<1>14. QED
  BY <1>1, <1>5, <1>6, <1>7, <1>10, <1>11, <1>12, <1>13

-----------------------------------------------------------------------------
(* Edits of a FAT whose files are chains.                                  *)

\* k free clusters less.
LEMMA CountTaken ==
  ASSUME NEW ft, NEW new, NEW k \in Nat, NEW s \in [1..k -> Free(ft)],
         \A i, j \in 1..k : s[i] = s[j] => i = j,
         Counted(ft), new.free_size = ft.free_size - ERASE_SIZE * k,
         \A c \in Clusters :
           new.cluster_table[c] = 0
             <=> ft.cluster_table[c] = 0 /\ \A i \in 1..k : s[i] # c
  PROVE  Counted(new)
<1>1. PICK T : T = {s[i] : i \in 1..k}
  OBVIOUS
<1>2. T \subseteq Free(ft)
  BY <1>1
<1>3. IsFiniteSet(T) /\ Cardinality(T) = k
  <2>1. s \in [1..k -> T] /\ \A t \in T : \E i \in 1..k : s[i] = t
    BY <1>1
  <2>2. IsFiniteSet(1..k) /\ Cardinality(1..k) = k
    BY FS_Interval
  <2>3. QED
    <3>1. PICK S : S = 1..k
      OBVIOUS
    <3>2. /\ IsFiniteSet(S) /\ s \in [S -> T]
          /\ \A x, y \in S : s[x] = s[y] => x = y
          /\ \A t \in T : \E x \in S : s[x] = t
      BY <2>1, <2>2, <3>1
    <3>4. IsFiniteSet(T) /\ Cardinality(T) = Cardinality(S)
      <4>1. Pairs(s, S, T)
        BY <3>2 DEF Pairs
      <4>2. QED
        BY <3>2, <4>1, SameCount
    <3>5. QED
      BY <2>2, <3>1, <3>4
<1>4. Free(new) = Free(ft) \ T
  BY <1>1 DEF Free
<1>5. Free(ft) \cap T = T
  BY <1>2
<1>6. Cardinality(Free(ft) \ T) = Cardinality(Free(ft)) - Cardinality(Free(ft) \cap T)
  BY FreeCount, FS_Difference, Zenon
<1>7. PICK m \in Nat : m = Cardinality(Free(ft))
  <2>1. Cardinality(Free(ft)) \in Nat
    <3>1. IsFiniteSet(Free(ft))
      BY FreeCount, Zenon
    <3>2. QED
      BY <3>1, FS_CardinalityType, Zenon
  <2>2. QED
    BY <2>1
<1>8. Cardinality(Free(new)) = m - k
  BY <1>3, <1>4, <1>5, <1>6, <1>7
<1>9. ERASE_SIZE * (m - k) = ERASE_SIZE * m - ERASE_SIZE * k
  BY BlocksOfBytes
<1>10. ft.free_size = ERASE_SIZE * m
  BY <1>7 DEF Counted
<1>11. QED
  BY <1>8, <1>9, <1>10 DEF Counted

\* k free clusters more.
LEMMA CountFreed ==
  ASSUME NEW ft, NEW new, NEW T \in SUBSET Clusters,
         Counted(ft), new.free_size = ft.free_size + ERASE_SIZE * Cardinality(T),
         \A c \in T : ft.cluster_table[c] # 0,
         \A c \in Clusters :
           new.cluster_table[c] = 0 <=> ft.cluster_table[c] = 0 \/ c \in T
  PROVE  Counted(new)
<1>1. Free(new) = Free(ft) \cup T
  BY DEF Free
<1>2. Free(ft) \cap T = {}
  BY DEF Free
<1>3. PICK m \in Nat : m = Cardinality(Free(ft))
  <2>1. Cardinality(Free(ft)) \in Nat
    <3>1. IsFiniteSet(Free(ft))
      BY FreeCount, Zenon
    <3>2. QED
      BY <3>1, FS_CardinalityType, Zenon
  <2>2. QED
    BY <2>1
<1>4. PICK k \in Nat : k = Cardinality(T) /\ IsFiniteSet(T)
  BY ClustersFinite
<1>5. Cardinality(Free(new)) = m + k
  <2>1. Cardinality(Free(ft) \cup T) =
          Cardinality(Free(ft)) + Cardinality(T) - Cardinality(Free(ft) \cap T)
    BY <1>4, FreeCount, FS_Union, Zenon
  <2>2. Cardinality(Free(ft) \cap T) = 0
    BY <1>2, FS_EmptySet
  <2>3. QED
    BY <1>1, <1>3, <1>4, <2>1, <2>2
<1>6. ERASE_SIZE * (m + k) = ERASE_SIZE * m + ERASE_SIZE * k
  BY BlocksOfBytes
<1>7. ft.free_size = ERASE_SIZE * m
  BY <1>3 DEF Counted
<1>8. QED
  BY <1>4, <1>5, <1>6, <1>7 DEF Counted

\* k free clusters s are put behind the m first ones of entry e's file, which
\* are all of them.  With m = 0 the file is new.
Extended(chain, e, m, k, s) ==
  [x \in Entries |->
     IF x = e THEN [i \in 1..(m + k) |-> IF i <= m THEN chain[e][i] ELSE s[i - m]]
     ELSE chain[x]]

Extends(ft, new, chain, e, m, k, s) ==
  /\ k > 0 /\ s \in [1..k -> Free(ft)]
  /\ \A i, j \in 1..k : s[i] = s[j] => i = j
  /\ \/ m = 0 /\ e \notin Used(ft)
     \/ e \in Used(ft) /\ m = FileBlocks(ft, e)
  /\ FileBlocks(new, e) = m + k
  /\ new.file_entries[e].first_cluster =
       IF m = 0 THEN s[1] ELSE ft.file_entries[e].first_cluster
  /\ \A x \in Entries \ {e} : new.file_entries[x] = ft.file_entries[x]
  /\ \A i \in 1..k :
       new.cluster_table[s[i]] = IF i = k THEN FAT_END_CLUSTER ELSE s[i + 1]
  /\ m > 0 => new.cluster_table[chain[e][m]] = s[1]
  /\ \A c \in Clusters : (\A i \in 1..k : s[i] # c) /\ (m > 0 => chain[e][m] # c)
       => new.cluster_table[c] = ft.cluster_table[c]
  /\ new.free_size = ft.free_size - ERASE_SIZE * k

LEMMA ExtendedIsLinked ==
  ASSUME NEW ft \in FATs, NEW chain, Linked(ft, chain), NEW new,
         NEW e \in Entries, NEW m \in Nat, NEW k \in Nat, NEW s,
         Extends(ft, new, chain, e, m, k, s)
  PROVE  Linked(new, Extended(chain, e, m, k, s))
<1> USE DEF Extends
<1>1. PICK c2 : c2 = Extended(chain, e, m, k, s)
  OBVIOUS
<1>2. /\ \A i \in 1..(m + k) : c2[e][i] = IF i <= m THEN chain[e][i] ELSE s[i - m]
      /\ \A x \in Entries \ {e} : c2[x] = chain[x]
  BY <1>1 DEF Extended
<1>3. 1 \in 1..k /\ \A i \in 1..k : s[i] \in Clusters /\ ft.cluster_table[s[i]] = 0
  BY DEF Free
<1>4. Used(new) = Used(ft) \cup {e}
  <2>1. new.file_entries[e].first_cluster # 0
    <3>1. CASE m = 0
      BY <1>3, <3>1, EndMark
    <3>2. CASE m # 0
      BY <3>2 DEF Used
    <3>3. QED
      BY <3>1, <3>2
  <2>2. QED
    BY <2>1 DEF Used
<1>5. \A x \in Entries \ {e} : FileBlocks(new, x) = FileBlocks(ft, x)
  BY DEF FileBlocks
<1>6. \A x \in Used(new) : x # e => x \in Used(ft) /\ x \in Entries \ {e}
  BY <1>4, UsedEntries
\* The clusters of the files there were.
<1>7. ASSUME NEW x \in Used(ft), NEW i \in 1..FileBlocks(ft, x)
      PROVE  /\ chain[x][i] \in Clusters
             /\ ft.cluster_table[chain[x][i]] # 0
             /\ \A j \in 1..k : s[j] # chain[x][i]
  <2>1. PICK n \in 1..FILE_ENTRY_COUNT : n = FileBlocks(ft, x)
    BY ChainLength
  <2>2. /\ chain[x][i] \in Clusters
        /\ ft.cluster_table[chain[x][i]] =
             IF i = n THEN FAT_END_CLUSTER ELSE chain[x][i + 1]
    BY <2>1 DEF Linked, Runs
  <2>3. i # n => chain[x][i + 1] \in Clusters
    <3>1. i # n => i + 1 \in 1..n
      BY <2>1
    <3>2. QED
      BY <2>1, <3>1 DEF Linked, Runs
  <2>4. ft.cluster_table[chain[x][i]] # 0
    BY <2>2, <2>3, EndMark
  <2>5. QED
    BY <1>3, <2>2, <2>4
\* A place in the file of e is an old one or a new one.
<1>8. ASSUME NEW i \in 1..(m + k)
      PROVE  \/ /\ i <= m /\ i \in 1..FileBlocks(ft, e) /\ e \in Used(ft)
                /\ m = FileBlocks(ft, e) /\ c2[e][i] = chain[e][i]
             \/ ~(i <= m) /\ i - m \in 1..k /\ c2[e][i] = s[i - m]
  <2>1. CASE i <= m
    <3>1. m # 0
      BY <2>1
    <3>2. QED
      BY <1>2, <2>1, <3>1
  <2>2. CASE ~(i <= m)
    BY <1>2, <2>2
  <2>3. QED
    BY <2>1, <2>2
<1>9. Begins(new, c2)
  <2>1. ASSUME NEW x \in Used(new), x # e
        PROVE  FileBlocks(new, x) > 0 /\ c2[x][1] = new.file_entries[x].first_cluster
    BY <1>2, <1>5, <1>6, <2>1 DEF Linked, Begins
  <2>2. FileBlocks(new, e) > 0
    OBVIOUS
  <2>3. c2[e][1] = new.file_entries[e].first_cluster
    <3>1. 1 \in 1..(m + k)
      OBVIOUS
    <3>2. CASE m = 0
      <4>1. ~(1 <= m) /\ 1 - m = 1
        BY <3>2
      <4>2. c2[e][1] = s[1]
        BY <1>2, <3>1, <4>1
      <4>3. QED
        BY <3>2, <4>2
    <3>3. CASE m # 0
      <4>1. 1 <= m
        BY <3>3
      <4>2. c2[e][1] = chain[e][1]
        BY <1>2, <3>1, <4>1
      <4>3. QED
        BY <3>3, <4>2 DEF Linked, Begins
    <3>4. QED
      BY <3>2, <3>3
  <2>4. QED
    BY <2>1, <2>2, <2>3 DEF Begins
<1>10. Runs(new, c2)
  <2>1. ASSUME NEW x \in Used(new), x # e, NEW i \in 1..FileBlocks(new, x)
        PROVE  /\ c2[x][i] \in Clusters
               /\ new.cluster_table[c2[x][i]] =
                    IF i = FileBlocks(new, x) THEN FAT_END_CLUSTER ELSE c2[x][i + 1]
    <3>1. x \in Used(ft) /\ i \in 1..FileBlocks(ft, x) /\ c2[x] = chain[x]
          /\ FileBlocks(new, x) = FileBlocks(ft, x)
      BY <1>2, <1>5, <1>6, <2>1
    <3>2. chain[x][i] \in Clusters /\ \A j \in 1..k : s[j] # chain[x][i]
      BY <1>7, <3>1
    <3>3. m > 0 => chain[e][m] # chain[x][i]
      <4>1. m > 0 => e \in Used(ft) /\ m \in 1..FileBlocks(ft, e)
        OBVIOUS
      <4>2. QED
        BY <2>1, <3>1, <4>1 DEF Linked, Apart
    <3>4. new.cluster_table[chain[x][i]] = ft.cluster_table[chain[x][i]]
      BY <3>2, <3>3
    <3>5. ft.cluster_table[chain[x][i]] =
            IF i = FileBlocks(ft, x) THEN FAT_END_CLUSTER ELSE chain[x][i + 1]
      BY <3>1 DEF Linked, Runs
    <3>6. QED
      BY <3>1, <3>2, <3>4, <3>5
  <2>2. ASSUME NEW i \in 1..(m + k)
        PROVE  /\ c2[e][i] \in Clusters
               /\ new.cluster_table[c2[e][i]] =
                    IF i = m + k THEN FAT_END_CLUSTER ELSE c2[e][i + 1]
    <3>1. CASE i < m
      <4>1. /\ i \in 1..FileBlocks(ft, e) /\ e \in Used(ft) /\ m = FileBlocks(ft, e)
            /\ c2[e][i] = chain[e][i]
        BY <1>8, <3>1
      <4>2. i + 1 \in 1..(m + k) /\ i + 1 <= m /\ i # m + k /\ i # m
        BY <3>1
      <4>3. c2[e][i + 1] = chain[e][i + 1]
        BY <1>2, <4>2
      <4>4. chain[e][i] \in Clusters /\ \A j \in 1..k : s[j] # chain[e][i]
        BY <1>7, <4>1
      <4>5. m \in 1..FileBlocks(ft, e) /\ chain[e][m] # chain[e][i]
        <5>1. m \in 1..FileBlocks(ft, e)
          BY <3>1, <4>1
        <5>2. QED
          BY <4>1, <4>2, <5>1 DEF Linked, Apart
      <4>6. new.cluster_table[chain[e][i]] = ft.cluster_table[chain[e][i]]
        BY <4>4, <4>5
      <4>7. ft.cluster_table[chain[e][i]] = chain[e][i + 1]
        BY <4>1, <4>2 DEF Linked, Runs
      <4>8. QED
        BY <4>1, <4>2, <4>3, <4>4, <4>6, <4>7
    <3>2. CASE i = m
      <4>1. c2[e][i] = chain[e][m] /\ chain[e][m] \in Clusters
        BY <1>7, <1>8, <3>2
      <4>2. i + 1 \in 1..(m + k) /\ ~(i + 1 <= m) /\ (i + 1) - m = 1 /\ i # m + k /\ m > 0
        BY <3>2
      <4>3. c2[e][i + 1] = s[1]
        BY <1>2, <4>2
      <4>4. QED
        BY <4>1, <4>2, <4>3
    <3>3. CASE i > m
      <4>1. i - m \in 1..k /\ c2[e][i] = s[i - m] /\ s[i - m] \in Clusters
        <5>1. ~(i <= m) /\ i - m \in 1..k
          BY <3>3
        <5>2. QED
          BY <1>2, <1>3, <5>1
      <4>2. new.cluster_table[s[i - m]] =
              IF i - m = k THEN FAT_END_CLUSTER ELSE s[(i - m) + 1]
        BY <4>1
      <4>3. i - m = k <=> i = m + k
        OBVIOUS
      <4>4. i # m + k => c2[e][i + 1] = s[(i - m) + 1]
        <5>1. i # m + k => i + 1 \in 1..(m + k) /\ ~(i + 1 <= m) /\ (i + 1) - m = (i - m) + 1
          <6>1. i \in Int /\ m \in Int /\ k \in Int /\ 1 <= i /\ i <= m + k /\ i > m
            BY <3>3
          <6>2. ~(i + 1 <= m) /\ (i + 1) - m = (i - m) + 1
            BY <6>1
          <6>3. i # m + k => i + 1 \in 1..(m + k)
            BY <6>1
          <6>4. QED
            BY <6>2, <6>3
        <5>2. QED
          BY <1>2, <5>1
      <4>5. QED
        BY <4>1, <4>2, <4>3, <4>4
    <3>4. QED
      BY <3>1, <3>2, <3>3
  <2>3. ASSUME NEW x \in Used(new), NEW i \in 1..FileBlocks(new, x)
        PROVE  /\ c2[x][i] \in Clusters
               /\ new.cluster_table[c2[x][i]] =
                    IF i = FileBlocks(new, x) THEN FAT_END_CLUSTER ELSE c2[x][i + 1]
    <3>1. CASE x = e
      <4>1. i \in 1..(m + k) /\ FileBlocks(new, x) = m + k
        BY <2>3, <3>1
      <4>2. QED
        BY <2>2, <3>1, <4>1
    <3>2. CASE x # e
      BY <2>1, <3>2
    <3>3. QED
      BY <3>1, <3>2
  <2>4. QED
    BY <2>3 DEF Runs
<1>11. Apart(ft, chain)
  BY DEF Linked
<1>12. Apart(new, c2)
  <2>1. ASSUME NEW x \in Used(new), NEW y \in Used(new), x # e, y # e,
               NEW i \in 1..FileBlocks(new, x), NEW j \in 1..FileBlocks(new, y),
               c2[x][i] = c2[y][j]
        PROVE  x = y /\ i = j
    BY <1>2, <1>5, <1>6, <2>1 DEF Linked, Apart
  <2>2. ASSUME NEW x \in Used(new), x # e,
               NEW i \in 1..FileBlocks(new, x), NEW j \in 1..(m + k)
        PROVE  c2[x][i] # c2[e][j]
    <3>1. x \in Used(ft) /\ i \in 1..FileBlocks(ft, x) /\ c2[x] = chain[x]
      BY <1>2, <1>5, <1>6, <2>2
    <3>2. \A l \in 1..k : s[l] # chain[x][i]
      BY <1>7, <3>1
    <3>3. CASE j <= m
      <4>1. j \in 1..FileBlocks(ft, e) /\ e \in Used(ft) /\ c2[e][j] = chain[e][j]
        BY <1>8, <3>3
      <4>2. QED
        BY <2>2, <3>1, <4>1 DEF Linked, Apart
    <3>4. CASE ~(j <= m)
      BY <1>8, <3>1, <3>2, <3>4
    <3>5. QED
      BY <3>3, <3>4
  <2>3. ASSUME NEW i \in 1..(m + k), NEW j \in 1..(m + k), c2[e][i] = c2[e][j]
        PROVE  i = j
    <3>1. CASE i <= m /\ j <= m
      <4>1. /\ i \in 1..FileBlocks(ft, e) /\ e \in Used(ft) /\ c2[e][i] = chain[e][i]
            /\ j \in 1..FileBlocks(ft, e) /\ c2[e][j] = chain[e][j]
        BY <1>8, <3>1
      <4>2. chain[e][i] = chain[e][j] => e = e /\ i = j
        BY <1>11, <4>1 DEF Apart
      <4>3. QED
        BY <2>3, <4>1, <4>2
    <3>2. CASE i <= m /\ ~(j <= m)
      <4>1. /\ i \in 1..FileBlocks(ft, e) /\ e \in Used(ft) /\ c2[e][i] = chain[e][i]
            /\ j - m \in 1..k /\ c2[e][j] = s[j - m]
        BY <1>8, <3>2
      <4>2. s[j - m] # chain[e][i]
        BY <1>7, <4>1
      <4>3. QED
        BY <2>3, <4>1, <4>2
    <3>3. CASE ~(i <= m) /\ j <= m
      <4>1. /\ j \in 1..FileBlocks(ft, e) /\ e \in Used(ft) /\ c2[e][j] = chain[e][j]
            /\ i - m \in 1..k /\ c2[e][i] = s[i - m]
        BY <1>8, <3>3
      <4>2. s[i - m] # chain[e][j]
        BY <1>7, <4>1
      <4>3. QED
        BY <2>3, <4>1, <4>2
    <3>4. CASE ~(i <= m) /\ ~(j <= m)
      <4>1. /\ j - m \in 1..k /\ c2[e][j] = s[j - m]
            /\ i - m \in 1..k /\ c2[e][i] = s[i - m]
        BY <1>8, <3>4
      <4>2. i - m = j - m
        BY <2>3, <4>1
      <4>3. QED
        BY <4>2
    <3>5. QED
      BY <3>1, <3>2, <3>3, <3>4
  <2>4. QED
    BY <2>1, <2>2, <2>3 DEF Apart
<1>13. Covers(new, c2)
  <2>1. ASSUME NEW c \in Clusters, new.cluster_table[c] # 0
        PROVE  \E x \in Used(new) : \E i \in 1..FileBlocks(new, x) : c2[x][i] = c
    <3>1. CASE \E i \in 1..k : s[i] = c
      <4>1. PICK i \in 1..k : s[i] = c
        BY <3>1
      <4>2. m + i \in 1..(m + k) /\ ~(m + i <= m) /\ m + i - m = i
        OBVIOUS
      <4>3. c2[e][m + i] = c
        BY <1>2, <4>1, <4>2
      <4>4. QED
        BY <1>4, <4>2, <4>3
    <3>2. CASE m > 0 /\ chain[e][m] = c
      <4>1. m \in 1..(m + k) /\ m <= m
        BY <3>2
      <4>2. c2[e][m] = c
        BY <1>2, <3>2, <4>1
      <4>3. QED
        BY <1>4, <4>1, <4>2
    <3>3. CASE (\A i \in 1..k : s[i] # c) /\ (m > 0 => chain[e][m] # c)
      <4>1. ft.cluster_table[c] # 0
        BY <2>1, <3>3
      <4>2. PICK x \in Used(ft) : \E i \in 1..FileBlocks(ft, x) : chain[x][i] = c
        BY <4>1 DEF Linked, Covers
      <4>3. PICK i \in 1..FileBlocks(ft, x) : chain[x][i] = c
        BY <4>2
      <4>4. CASE x = e
        <5>1. m = FileBlocks(ft, e)
          BY <4>4
        <5>2. i \in 1..(m + k) /\ i <= m
          BY <4>4, <5>1
        <5>3. c2[e][i] = c
          BY <1>2, <4>3, <4>4, <5>2
        <5>4. QED
          BY <1>4, <5>2, <5>3
      <4>5. CASE x # e
        BY <1>2, <1>4, <1>5, <4>3, <4>5, UsedEntries
      <4>6. QED
        BY <4>4, <4>5
    <3>4. QED
      BY <3>1, <3>2, <3>3
  <2>2. QED
    BY <2>1 DEF Covers
<1>14. Counted(new)
  <2>1. ASSUME NEW c \in Clusters
        PROVE  new.cluster_table[c] = 0
                 <=> ft.cluster_table[c] = 0 /\ \A i \in 1..k : s[i] # c
    <3>1. ASSUME NEW i \in 1..k, s[i] = c
          PROVE  new.cluster_table[c] # 0
      <4>1. i # k => i + 1 \in 1..k
        OBVIOUS
      <4>2. i # k => s[i + 1] \in Clusters
        BY <1>3, <4>1
      <4>3. QED
        BY <3>1, <4>2, EndMark
    <3>2. ASSUME m > 0, chain[e][m] = c
          PROVE  new.cluster_table[c] # 0 /\ ft.cluster_table[c] # 0
      <4>1. e \in Used(ft) /\ m \in 1..FileBlocks(ft, e)
        BY <3>2
      <4>2. QED
        BY <1>3, <1>7, <3>2, <4>1, EndMark
    <3>3. QED
      BY <3>1, <3>2
  <2>2. Counted(ft)
    BY DEF Linked
  <2>3. \A c \in Clusters : new.cluster_table[c] = 0
          <=> ft.cluster_table[c] = 0 /\ \A i \in 1..k : s[i] # c
    BY <2>1
  <2>4. new.free_size = ft.free_size - ERASE_SIZE * k
    OBVIOUS
  <2>5. QED
    BY <2>2, <2>3, <2>4, CountTaken
<1>15. QED
  BY <1>1, <1>9, <1>10, <1>12, <1>13, <1>14 DEF Linked

LEMMA IntervalCount ==
  ASSUME NEW m \in Nat, NEW n \in Nat, m <= n
  PROVE  IsFiniteSet((m + 1)..n) /\ Cardinality((m + 1)..n) = n - m
<1>1. PICK a \in Int : a = m + 1
  OBVIOUS
<1>2. IsFiniteSet(a..n) /\ Cardinality(a..n) = IF a > n THEN 0 ELSE n - a + 1
  BY FS_Interval
<1>3. QED
  BY <1>1, <1>2

\* The clusters behind the m first ones of a file.
Behind(chain, e, m, n) == {chain[e][i] : i \in (m + 1)..n}

LEMMA ClustersBehind ==
  ASSUME NEW ft \in FATs, NEW chain, Linked(ft, chain),
         NEW e \in Used(ft), NEW n \in Nat, n = FileBlocks(ft, e),
         NEW m \in Nat, m <= n
  PROVE  /\ Behind(chain, e, m, n) \in SUBSET Clusters
         /\ Cardinality(Behind(chain, e, m, n)) = n - m
<1>0. PICK T : T = {chain[e][i] : i \in (m + 1)..n}
  OBVIOUS
<1>1. Runs(ft, chain) /\ Apart(ft, chain)
  BY DEF Linked
<1>2. \A i \in (m + 1)..n : i \in 1..n
  OBVIOUS
<1>3. PICK S : S = (m + 1)..n
  OBVIOUS
<1>4. PICK f : f = [i \in S |-> chain[e][i]]
  OBVIOUS
<1>5. f \in [S -> T] /\ \A t \in T : \E x \in S : f[x] = t
  BY <1>0, <1>3, <1>4
<1>6. \A x, y \in S : f[x] = f[y] => x = y
  BY <1>1, <1>2, <1>3, <1>4 DEF Apart
<1>7. IsFiniteSet(S) /\ Cardinality(S) = n - m
  BY <1>3, IntervalCount
<1>8. Cardinality(T) = Cardinality(S)
  <2>1. Pairs(f, S, T)
    BY <1>5, <1>6 DEF Pairs
  <2>2. QED
    BY <1>7, <2>1, SameCount
<1>9. T \in SUBSET Clusters
  BY <1>0, <1>1, <1>2 DEF Runs
<1>10. QED
  BY <1>0, <1>7, <1>8, <1>9 DEF Behind

\* All but the m first of the n clusters of entry e's file are freed.  With
\* m = 0 the file is gone.
Cuts(ft, new, chain, e, n, m) ==
  /\ n = FileBlocks(ft, e) /\ m <= n
  /\ \/ m = 0 /\ new.file_entries[e].first_cluster = 0
     \/ /\ m > 0 /\ FileBlocks(new, e) = m
        /\ new.file_entries[e].first_cluster = ft.file_entries[e].first_cluster
  /\ \A x \in Entries \ {e} : new.file_entries[x] = ft.file_entries[x]
  /\ \A i \in 1..n : m < i => new.cluster_table[chain[e][i]] = 0
  /\ m > 0 => new.cluster_table[chain[e][m]] = FAT_END_CLUSTER
  /\ \A c \in Clusters : (\A i \in 1..n : m <= i => chain[e][i] # c)
       => new.cluster_table[c] = ft.cluster_table[c]
  /\ new.free_size = ft.free_size + ERASE_SIZE * (n - m)

LEMMA CutIsLinked ==
  ASSUME NEW ft \in FATs, NEW chain, Linked(ft, chain), NEW new,
         NEW e \in Used(ft), NEW n \in Nat, NEW m \in Nat,
         Cuts(ft, new, chain, e, n, m)
  PROVE  Linked(new, chain)
<1> USE DEF Cuts
<1>1. Begins(ft, chain) /\ Runs(ft, chain) /\ Apart(ft, chain)
      /\ Covers(ft, chain) /\ Counted(ft)
  BY DEF Linked
<1>2. /\ \A x \in Used(new) : x \in Used(ft) /\ (x = e => m > 0)
      /\ \A x \in Used(ft) : x # e \/ m > 0 => x \in Used(new)
  BY DEF Used
<1>3. \A x \in Used(ft) : x # e =>
        /\ FileBlocks(new, x) = FileBlocks(ft, x)
        /\ new.file_entries[x].first_cluster = ft.file_entries[x].first_cluster
  BY UsedEntries DEF FileBlocks
<1>4. m > 0 => FileBlocks(new, e) = m
        /\ new.file_entries[e].first_cluster = ft.file_entries[e].first_cluster
  OBVIOUS
<1>5. ASSUME NEW x \in Used(new), NEW i \in 1..FileBlocks(new, x)
      PROVE  x \in Used(ft) /\ i \in 1..FileBlocks(ft, x) /\ (x = e => m > 0 /\ i <= m)
  <2>1. CASE x = e
    <3>1. m > 0 /\ FileBlocks(new, e) = m
      BY <1>2, <1>4, <2>1
    <3>2. QED
      BY <2>1, <3>1
  <2>2. CASE x # e
    BY <1>2, <1>3, <2>2
  <2>3. QED
    BY <2>1, <2>2
<1>6. Begins(new, chain)
  <2>1. ASSUME NEW x \in Used(new)
        PROVE  FileBlocks(new, x) > 0 /\ chain[x][1] = new.file_entries[x].first_cluster
    <3>1. CASE x = e
      <4>1. m > 0
        BY <1>2, <3>1
      <4>2. QED
        BY <1>1, <1>4, <3>1, <4>1 DEF Begins
    <3>2. CASE x # e
      BY <1>1, <1>2, <1>3, <3>2 DEF Begins
    <3>3. QED
      BY <3>1, <3>2
  <2>2. QED
    BY <2>1 DEF Begins
<1>7. Runs(new, chain)
  <2>1. ASSUME NEW x \in Used(new), NEW i \in 1..FileBlocks(new, x)
        PROVE  /\ chain[x][i] \in Clusters
               /\ new.cluster_table[chain[x][i]] =
                    IF i = FileBlocks(new, x) THEN FAT_END_CLUSTER ELSE chain[x][i + 1]
    <3>1. x \in Used(ft) /\ i \in 1..FileBlocks(ft, x)
      BY <1>5
    <3>2. /\ chain[x][i] \in Clusters
          /\ ft.cluster_table[chain[x][i]] =
               IF i = FileBlocks(ft, x) THEN FAT_END_CLUSTER ELSE chain[x][i + 1]
      BY <1>1, <3>1 DEF Runs
    <3>3. CASE x = e
      <4>1. m > 0 /\ FileBlocks(new, x) = m /\ i \in 1..m /\ i \in 1..n
        BY <1>2, <1>4, <3>1, <3>3
      <4>2. CASE i = m
        BY <3>2, <3>3, <4>1, <4>2
      <4>3. CASE i # m
        <5>1. i < m /\ i # FileBlocks(ft, x)
          BY <3>3, <4>1, <4>3
        <5>2. \A j \in 1..n : m <= j => chain[e][j] # chain[e][i]
          <6>1. ASSUME NEW j \in 1..n, m <= j, chain[e][j] = chain[e][i] PROVE FALSE
            <7>1. j = i
              BY <1>1, <4>1, <6>1 DEF Apart
            <7>2. QED
              BY <5>1, <6>1, <7>1
          <6>2. QED
            BY <6>1
        <5>3. new.cluster_table[chain[e][i]] = ft.cluster_table[chain[e][i]]
          BY <3>2, <3>3, <5>2
        <5>4. QED
          BY <3>2, <3>3, <4>1, <4>3, <5>1, <5>3
      <4>4. QED
        BY <4>2, <4>3
    <3>4. CASE x # e
      <4>1. \A j \in 1..n : chain[e][j] # chain[x][i]
        BY <1>1, <3>1, <3>4 DEF Apart
      <4>2. new.cluster_table[chain[x][i]] = ft.cluster_table[chain[x][i]]
        BY <3>2, <4>1
      <4>3. QED
        BY <1>3, <3>1, <3>2, <3>4, <4>2
    <3>5. QED
      BY <3>3, <3>4
  <2>2. QED
    BY <2>1 DEF Runs
<1>8. Apart(new, chain)
  <2>1. ASSUME NEW x \in Used(new), NEW y \in Used(new),
               NEW i \in 1..FileBlocks(new, x), NEW j \in 1..FileBlocks(new, y),
               chain[x][i] = chain[y][j]
        PROVE  x = y /\ i = j
    <3>1. x \in Used(ft) /\ i \in 1..FileBlocks(ft, x)
      BY <1>5
    <3>2. y \in Used(ft) /\ j \in 1..FileBlocks(ft, y)
      BY <1>5
    <3>3. QED
      BY <1>1, <2>1, <3>1, <3>2 DEF Apart
  <2>2. QED
    BY <2>1 DEF Apart
<1>9. Covers(new, chain)
  <2>1. ASSUME NEW c \in Clusters, new.cluster_table[c] # 0
        PROVE  \E x \in Used(new) : \E i \in 1..FileBlocks(new, x) : chain[x][i] = c
    <3>1. CASE \E i \in 1..n : m <= i /\ chain[e][i] = c
      <4>1. PICK i \in 1..n : m <= i /\ chain[e][i] = c
        BY <3>1
      <4>2. i = m /\ m > 0
        BY <2>1, <4>1
      <4>3. e \in Used(new) /\ i \in 1..FileBlocks(new, e)
        BY <1>2, <1>4, <4>2
      <4>4. QED
        BY <4>1, <4>3
    <3>2. CASE \A i \in 1..n : m <= i => chain[e][i] # c
      <4>1. ft.cluster_table[c] # 0
        BY <2>1, <3>2
      <4>2. PICK x \in Used(ft) : \E i \in 1..FileBlocks(ft, x) : chain[x][i] = c
        BY <1>1, <4>1 DEF Covers
      <4>3. PICK i \in 1..FileBlocks(ft, x) : chain[x][i] = c
        BY <4>2
      <4>4. CASE x = e
        <5>1. i \in 1..n
          BY <4>4
        <5>2. i < m
          BY <3>2, <4>3, <4>4, <5>1
        <5>3. e \in Used(new) /\ i \in 1..FileBlocks(new, e)
          BY <1>2, <1>4, <5>1, <5>2
        <5>4. QED
          BY <4>3, <4>4, <5>3
      <4>5. CASE x # e
        <5>1. x \in Used(new) /\ i \in 1..FileBlocks(new, x)
          BY <1>2, <1>3, <4>5
        <5>2. QED
          BY <4>3, <5>1
      <4>6. QED
        BY <4>4, <4>5
    <3>3. QED
      BY <3>1, <3>2
  <2>2. QED
    BY <2>1 DEF Covers
<1>10. Counted(new)
  <2>1. PICK T : T = {chain[e][i] : i \in (m + 1)..n}
    OBVIOUS
  <2>2. \A i \in (m + 1)..n : i \in 1..n /\ m < i /\ m <= i
    OBVIOUS
  <2>3. \A i \in 1..n : chain[e][i] \in Clusters
    BY <1>1 DEF Runs
  <2>4. T \in SUBSET Clusters
    BY <2>1, <2>2, <2>3
  <2>5. \A i \in 1..n : ft.cluster_table[chain[e][i]] # 0
    <3>1. ASSUME NEW i \in 1..n PROVE ft.cluster_table[chain[e][i]] # 0
      <4>1. ft.cluster_table[chain[e][i]] =
              IF i = n THEN FAT_END_CLUSTER ELSE chain[e][i + 1]
        BY <1>1 DEF Runs
      <4>2. i # n => i + 1 \in 1..n
        OBVIOUS
      <4>3. QED
        BY <2>3, <4>1, <4>2, EndMark
    <3>2. QED
      BY <3>1
  <2>6. Cardinality(T) = n - m
    <3>1. T = Behind(chain, e, m, n)
      BY <2>1 DEF Behind
    <3>2. n = FileBlocks(ft, e) /\ m <= n
      OBVIOUS
    <3>3. QED
      BY <3>1, <3>2, ClustersBehind
  <2>7. new.free_size = ft.free_size + ERASE_SIZE * Cardinality(T)
    BY <2>6
  <2>8. \A c \in T : ft.cluster_table[c] # 0
    BY <2>1, <2>2, <2>5
  <2>9. ASSUME NEW c \in Clusters
        PROVE  new.cluster_table[c] = 0 <=> ft.cluster_table[c] = 0 \/ c \in T
    <3>1. CASE c \in T
      BY <2>1, <2>2, <3>1
    <3>2. CASE c \notin T
      <4>1. CASE m > 0 /\ chain[e][m] = c
        <5>1. m \in 1..n
          BY <4>1
        <5>2. QED
          BY <2>5, <3>2, <4>1, <5>1, EndMark
      <4>2. CASE ~(m > 0 /\ chain[e][m] = c)
        <5>1. ASSUME NEW i \in 1..n, m <= i, chain[e][i] = c PROVE FALSE
          <6>1. i # m
            BY <4>2, <5>1
          <6>2. i \in (m + 1)..n
            BY <5>1, <6>1
          <6>3. QED
            BY <2>1, <3>2, <5>1, <6>2
        <5>2. new.cluster_table[c] = ft.cluster_table[c]
          BY <5>1
        <5>3. QED
          BY <3>2, <5>2
      <4>3. QED
        BY <4>1, <4>2
    <3>3. QED
      BY <3>1, <3>2
  <2>10. QED
    BY <1>1, <2>4, <2>7, <2>8, <2>9, CountFreed
<1>11. QED
  BY <1>6, <1>7, <1>8, <1>9, <1>10 DEF Linked

\* The sizes and the names of the files are no part of it, except that the
\* number of blocks must stay.
LEMMA SameTableIsLinked ==
  ASSUME NEW ft \in FATs, NEW chain, Linked(ft, chain), NEW new,
         new.cluster_table = ft.cluster_table, new.free_size = ft.free_size,
         \A x \in Entries :
           /\ new.file_entries[x].first_cluster = ft.file_entries[x].first_cluster
           /\ FileBlocks(new, x) = FileBlocks(ft, x)
  PROVE  Linked(new, chain)
<1>1. Used(new) = Used(ft) /\ Free(new) = Free(ft)
  BY DEF Used, Free
<1>2. Begins(new, chain)
  BY <1>1, UsedEntries DEF Linked, Begins
<1>3. Runs(new, chain)
  BY <1>1, UsedEntries DEF Linked, Runs
<1>4. Apart(new, chain)
  <2>1. \A x \in Used(ft) : FileBlocks(new, x) = FileBlocks(ft, x)
    BY UsedEntries
  <2>2. Apart(ft, chain)
    BY DEF Linked
  <2>3. QED
    BY <1>1, <2>1, <2>2 DEF Apart
<1>5. Covers(new, chain)
  BY <1>1, UsedEntries DEF Linked, Covers
<1>6. Counted(new)
  BY <1>1 DEF Linked, Counted
<1>7. QED
  BY <1>2, <1>3, <1>4, <1>5, <1>6 DEF Linked

-----------------------------------------------------------------------------
(* The edits the commands make.                                            *)

\* More free bytes than d - 1 blocks: there are d free blocks.
LEMMA RoomFor ==
  ASSUME NEW ft, Counted(ft), NEW d \in Int, ERASE_SIZE * (d - 1) < ft.free_size
  PROVE  d <= Cardinality(Free(ft))
<1>1. Cardinality(Free(ft)) \in Nat
  BY ClustersFinite DEF Free
<1>2. PICK m \in Nat : m = Cardinality(Free(ft))
  BY <1>1
<1>3. ft.free_size = ERASE_SIZE * m
  BY <1>2 DEF Counted
<1>4. PICK c \in Int : c = d - 1
  OBVIOUS
<1>5. m < c => ERASE_SIZE * m + ERASE_SIZE <= ERASE_SIZE * c
  BY DivMonotone
<1>6. ERASE_SIZE * m \in Int /\ ERASE_SIZE * c \in Int /\ ERASE_SIZE \in Nat
  BY FATAssumption
<1>7. ERASE_SIZE * c < ERASE_SIZE * m
  BY <1>3, <1>4
<1>8. ~(m < c) /\ m # c
  BY <1>5, <1>6, <1>7
<1>9. QED
  BY <1>2, <1>4, <1>8

\* FlashFSFileCreate, and what it leaves alone.
LEMMA CreateIsLinked ==
  ASSUME NEW ft \in FATs, NEW chain, Linked(ft, chain),
         NEW e \in Entries, e \notin Used(ft),
         NEW n \in FileNames \cup BadNames,
         NEW length \in 1..(SIZE_MOD - 1), length <= ft.free_size,
         NEW new,
         new = SetSize(BuildClusterList(SetName(ft, e, n), e, length), e, length)
  PROVE  /\ Used(new) = Used(ft) \cup {e}
         /\ new.file_entries[e].size = length
         /\ new.file_entries[e].name = Stored(n)
         /\ \A x \in Entries \ {e} : new.file_entries[x] = ft.file_entries[x]
         /\ \E c2 : Linked(new, c2) /\ \A x \in Entries \ {e} : c2[x] = chain[x]
<1>1. PICK named : named = SetName(ft, e, n)
  OBVIOUS
<1>2. named \in FATs
  BY <1>1, SetNameType
<1>3. /\ named.cluster_table = ft.cluster_table /\ named.free_size = ft.free_size
      /\ named.file_entries = [ft.file_entries EXCEPT ![e].name = Stored(n)]
  BY <1>1 DEF SetName, FATs
<1>4. \A x \in Entries :
        /\ named.file_entries[x].first_cluster = ft.file_entries[x].first_cluster
        /\ named.file_entries[x].size = ft.file_entries[x].size
  BY <1>3 DEF FATs, FileEntries
<1>5. \A x \in Entries : FileBlocks(named, x) = FileBlocks(ft, x)
  BY <1>4 DEF FileBlocks
<1>6. Linked(named, chain)
  BY <1>3, <1>4, <1>5, SameTableIsLinked
<1>7. length \in Nat /\ length > 0 /\ length % SIZE_MOD = length
  BY FATAssumption
<1>8. PICK k \in Nat : k = Blocks(length) /\ k > 0 /\ ERASE_SIZE * (k - 1) < length
  BY <1>7, BlocksCeiling
<1>9. k <= Cardinality(Free(named))
  <2>1. Counted(named)
    BY <1>6 DEF Linked
  <2>2. ERASE_SIZE * (k - 1) \in Int
    BY FATAssumption
  <2>3. ft.free_size \in Int
    BY DEF FATs
  <2>4. ERASE_SIZE * (k - 1) < named.free_size
    BY <1>3, <1>7, <1>8, <2>2, <2>3
  <2>5. QED
    BY <2>1, <2>4, RoomFor
<1>10. PICK s \in [1..k -> Free(named)] :
         /\ \A i, j \in 1..k : s[i] = s[j] => i = j
         /\ Taken(named, k) # {} /\ Least(Taken(named, k)) = s[1]
         /\ \A i \in 1..k : Allocate(named, k).cluster_table[s[i]] =
              IF i = k THEN FAT_END_CLUSTER ELSE s[i + 1]
         /\ \A c \in Clusters : (\A i \in 1..k : s[i] # c) =>
              Allocate(named, k).cluster_table[c] = named.cluster_table[c]
         /\ Allocate(named, k).free_size = named.free_size - ERASE_SIZE * k
         /\ Allocate(named, k).file_entries = named.file_entries
  BY <1>2, <1>8, <1>9, Allocated
<1>11. PICK all \in FATs : all = Allocate(named, k)
  BY <1>2, AllocateType
<1>12. BuildClusterList(named, e, length) =
         [all EXCEPT !.file_entries[e].first_cluster = s[1]]
  BY <1>8, <1>10, <1>11 DEF BuildClusterList
<1>13. new = [[all EXCEPT !.file_entries[e].first_cluster = s[1]] EXCEPT
                !.file_entries[e].size = length]
  BY <1>1, <1>7, <1>12 DEF SetSize
<1>14. /\ new.cluster_table = all.cluster_table
       /\ new.free_size = all.free_size
       /\ new.file_entries = [all.file_entries EXCEPT
            ![e] = [[@ EXCEPT !.first_cluster = s[1]] EXCEPT !.size = length]]
  <2>1. PICK mid : mid = [all EXCEPT !.file_entries[e].first_cluster = s[1]]
    OBVIOUS
  <2>2. mid = [all EXCEPT !.file_entries =
                 [all.file_entries EXCEPT ![e].first_cluster = s[1]]]
    BY <2>1, Zenon
  <2>3. /\ mid.cluster_table = all.cluster_table /\ mid.free_size = all.free_size
        /\ mid.file_entries = [all.file_entries EXCEPT ![e].first_cluster = s[1]]
        /\ DOMAIN mid = DOMAIN all
    BY <1>11, <2>2 DEF FATs
  <2>4. new = [mid EXCEPT !.file_entries = [mid.file_entries EXCEPT ![e].size = length]]
    BY <1>13, <2>1, Zenon
  <2>5. /\ new.cluster_table = mid.cluster_table /\ new.free_size = mid.free_size
        /\ new.file_entries = [mid.file_entries EXCEPT ![e].size = length]
    BY <1>11, <2>3, <2>4 DEF FATs
  <2>6. DOMAIN all.file_entries = Entries
    BY <1>11 DEF FATs
  <2>7. QED
    BY <2>3, <2>5, <2>6
<1>15. /\ new.file_entries[e].size = length
       /\ new.file_entries[e].first_cluster = s[1]
       /\ new.file_entries[e].name = Stored(n)
       /\ \A x \in Entries \ {e} : new.file_entries[x] = named.file_entries[x]
  <2>1. all.file_entries[e] \in FileEntries /\ all.file_entries[e].name = Stored(n)
    BY <1>2, <1>3, <1>10, <1>11 DEF FATs, FileEntries
  <2>2. DOMAIN all.file_entries = Entries
    BY <1>11 DEF FATs
  <2>3. QED
    BY <1>10, <1>11, <1>14, <2>1, <2>2 DEF FileEntries
<1>16. \A x \in Entries \ {e} : new.file_entries[x] = ft.file_entries[x]
  BY <1>3, <1>15 DEF FATs
<1>17. e \notin Used(named)
  BY <1>4 DEF Used
<1>18. FileBlocks(new, e) = 0 + k
  BY <1>8, <1>15 DEF FileBlocks
<1>19. Linked(new, Extended(chain, e, 0, k, s))
  <2>1. \A i \in 1..k : new.cluster_table[s[i]] =
          IF i = k THEN FAT_END_CLUSTER ELSE s[i + 1]
    BY <1>10, <1>11, <1>14
  <2>2. \A c \in Clusters : (\A i \in 1..k : s[i] # c) /\ (0 > 0 => chain[e][0] # c)
          => new.cluster_table[c] = named.cluster_table[c]
    BY <1>10, <1>11, <1>14
  <2>3. new.free_size = named.free_size - ERASE_SIZE * k
    BY <1>10, <1>11, <1>14
  <2>4. PICK m \in Nat : m = 0
    OBVIOUS
  <2>5. m = 0 /\ e \notin Used(named) /\ FileBlocks(new, e) = m + k
    BY <1>17, <1>18, <2>4
  <2>6. new.file_entries[e].first_cluster =
          IF m = 0 THEN s[1] ELSE named.file_entries[e].first_cluster
    BY <1>15, <2>4
  <2>7. m > 0 => new.cluster_table[chain[e][m]] = s[1]
    BY <2>4
  <2>8. \A c \in Clusters : (\A i \in 1..k : s[i] # c) /\ (m > 0 => chain[e][m] # c)
          => new.cluster_table[c] = named.cluster_table[c]
    BY <2>2, <2>4
  <2>9. Linked(new, Extended(chain, e, m, k, s))
    <3>1. \A i, j \in 1..k : s[i] = s[j] => i = j
      BY <1>10
    <3>2. k > 0 /\ \A x \in Entries \ {e} : new.file_entries[x] = named.file_entries[x]
      BY <1>8, <1>15
    <3>3. Extends(named, new, chain, e, m, k, s)
      BY <2>1, <2>3, <2>5, <2>6, <2>7, <2>8, <3>1, <3>2 DEF Extends
    <3>4. QED
      BY <1>2, <1>6, <3>3, ExtendedIsLinked
  <2>10. QED
    BY <2>4, <2>9
<1>20. \A x \in Entries \ {e} : Extended(chain, e, 0, k, s)[x] = chain[x]
  BY DEF Extended
<1>21. Used(new) = Used(ft) \cup {e}
  <2>1. new.file_entries[e].first_cluster # 0
    BY <1>8, <1>10, <1>15, EndMark DEF Free
  <2>2. QED
    BY <1>16, <2>1 DEF Used
<1>22. QED
  BY <1>15, <1>16, <1>19, <1>20, <1>21

\* A file that grows or shrinks keeps its entry.
LEMMA EntriesKept ==
  ASSUME NEW ft \in FATs, NEW tail, NEW k, NEW S, NEW c
  PROVE  /\ ContinueClusterList(ft, tail, k).file_entries = ft.file_entries
         /\ [Release(ft, S) EXCEPT !.cluster_table[c] = FAT_END_CLUSTER].file_entries
              = ft.file_entries
<1>1. Allocate(ft, k).file_entries = ft.file_entries
      /\ DOMAIN Allocate(ft, k) = DOMAIN ft
  <2> DEFINE size == ft.free_size - ERASE_SIZE * Cardinality(Taken(ft, k))
  <2>1. PICK table : Allocate(ft, k) =
               [ft EXCEPT !.free_size = size, !.cluster_table = table]
    BY DEF Allocate
  <2> HIDE DEF size
  <2>2. QED
    BY <2>1 DEF FATs
<1>2. ContinueClusterList(ft, tail, k).file_entries = ft.file_entries
  <2>1. PICK all : all = Allocate(ft, k)
    OBVIOUS
  <2>2. PICK table : ContinueClusterList(ft, tail, k) =
               [all EXCEPT !.cluster_table = table]
    BY <2>1 DEF ContinueClusterList
  <2>3. QED
    BY <1>1, <2>1, <2>2 DEF FATs
<1>3. Release(ft, S).file_entries = ft.file_entries
      /\ DOMAIN Release(ft, S) = DOMAIN ft
  BY DEF Release, FATs
<1>4. QED
  <2>1. PICK rel : rel = Release(ft, S)
    OBVIOUS
  <2>2. PICK table : [rel EXCEPT !.cluster_table[c] = FAT_END_CLUSTER] =
               [rel EXCEPT !.cluster_table = table]
    OBVIOUS
  <2>3. [rel EXCEPT !.cluster_table = table].file_entries = ft.file_entries
    BY <1>3, <2>1 DEF FATs
  <2>4. QED
    BY <1>2, <2>1, <2>2, <2>3

\* FlashFSUpdateClusterList keeps the files chains.
LEMMA UpdateIsLinked ==
  ASSUME NEW ft \in FATs, NEW chain, Linked(ft, chain), NEW e \in Used(ft),
         NEW length \in 1..(SIZE_MOD - 1), CanGrow(ft, e, length), NEW new,
         new = SetSize(UpdateClusterList(ft, e, length), e, length)
  PROVE  /\ Used(new) = Used(ft)
         /\ new.file_entries[e].size = length
         /\ new.file_entries[e].name = ft.file_entries[e].name
         /\ \A x \in Entries \ {e} : new.file_entries[x] = ft.file_entries[x]
         /\ \E c2 : Linked(new, c2) /\ \A x \in Entries \ {e} : c2[x] = chain[x]
<1>0. e \in Entries
  BY UsedEntries
<1>1. length \in Nat /\ length > 0 /\ length % SIZE_MOD = length
  BY FATAssumption
<1>2. PICK r \in Nat : r = Blocks(length) /\ r > 0
  BY <1>1, BlocksCeiling
<1>3. PICK n \in 1..FILE_ENTRY_COUNT : n = FileBlocks(ft, e)
  BY ChainLength
<1>4. PICK At : At = FileWalk(ft, e)
  OBVIOUS
<1>5. \A i \in 0..(n - 1) : At[i] = chain[e][i + 1]
  BY <1>3, <1>4, WalkFollows
<1>6. PICK up \in FATs : up = UpdateClusterList(ft, e, length)
  BY <1>0, <1>1, UpdateClusterListType
<1>7. up = CASE r > n -> ContinueClusterList(ft, At[n - 1], r - n)
             [] r < n ->
                  [Release(ft, {At[i] : i \in r..(n - 1)}) EXCEPT
                     !.cluster_table[At[r - 1]] = FAT_END_CLUSTER]
             [] OTHER -> ft
  BY <1>2, <1>3, <1>4, <1>6 DEF UpdateClusterList, FileBlocks
<1>8. /\ new.cluster_table = up.cluster_table
      /\ new.free_size = up.free_size
      /\ new.file_entries = [up.file_entries EXCEPT ![e].size = length]
  BY <1>1, <1>6 DEF SetSize, FATs
<1>9. /\ Used(new) = Used(ft)
      /\ new.file_entries[e].size = length
      /\ new.file_entries[e].name = ft.file_entries[e].name
      /\ new.file_entries[e].first_cluster = ft.file_entries[e].first_cluster
      /\ \A x \in Entries \ {e} : new.file_entries[x] = ft.file_entries[x]
      /\ FileBlocks(new, e) = r
  <2>1. up.file_entries = ft.file_entries
    <3>1. CASE r > n
      BY <1>7, <3>1, EntriesKept
    <3>2. CASE r < n
      <4>1. PICK S : S = {At[i] : i \in r..(n - 1)}
        OBVIOUS
      <4>2. up = [Release(ft, S) EXCEPT !.cluster_table[At[r - 1]] = FAT_END_CLUSTER]
        BY <1>7, <3>2, <4>1
      <4>3. [Release(ft, S) EXCEPT
               !.cluster_table[At[r - 1]] = FAT_END_CLUSTER].file_entries
              = ft.file_entries
        BY EntriesKept, Zenon
      <4>4. QED
        BY <4>2, <4>3, Zenon
    <3>3. CASE r = n
      BY <1>7, <3>3
    <3>4. QED
      BY <3>1, <3>2, <3>3
  <2>2. ft.file_entries \in [Entries -> FileEntries]
    BY DEF FATs
  <2>3. /\ new.file_entries[e].size = length
        /\ new.file_entries[e].name = ft.file_entries[e].name
        /\ new.file_entries[e].first_cluster = ft.file_entries[e].first_cluster
        /\ \A x \in Entries \ {e} : new.file_entries[x] = ft.file_entries[x]
    BY <1>0, <1>8, <2>1, <2>2 DEF FileEntries
  <2>4. Used(new) = Used(ft)
    BY <2>3 DEF Used
  <2>5. FileBlocks(new, e) = r
    BY <1>2, <2>3 DEF FileBlocks
  <2>6. QED
    BY <2>3, <2>4, <2>5
<1>10. ASSUME r > n
       PROVE  \E c2 : Linked(new, c2) /\ \A x \in Entries \ {e} : c2[x] = chain[x]
  <2>1. PICK k \in Nat : k = r - n /\ k > 0
    BY <1>10
  <2>2. k <= Cardinality(Free(ft))
    <3>1. Counted(ft)
      BY DEF Linked
    <3>2. k * ERASE_SIZE <= ft.free_size
      BY <1>2, <1>3, <2>1 DEF CanGrow, FileBlocks
    <3>3. ERASE_SIZE * (k - 1) < ft.free_size
      <4>1. ERASE_SIZE * (k - 1) = ERASE_SIZE * k - ERASE_SIZE * 1
        BY BlocksOfBytes
      <4>2. ERASE_SIZE * 1 = ERASE_SIZE /\ ERASE_SIZE * k = k * ERASE_SIZE
            /\ ERASE_SIZE > 0 /\ ERASE_SIZE \in Int /\ k * ERASE_SIZE \in Int
        BY FATAssumption
      <4>3. ft.free_size \in Int
        BY DEF FATs
      <4>4. QED
        BY <3>2, <4>1, <4>2, <4>3
    <3>4. QED
      BY <3>1, <3>3, RoomFor
  <2>3. PICK s \in [1..k -> Free(ft)] :
          /\ \A i, j \in 1..k : s[i] = s[j] => i = j
          /\ Taken(ft, k) # {} /\ Least(Taken(ft, k)) = s[1]
          /\ \A i \in 1..k : Allocate(ft, k).cluster_table[s[i]] =
               IF i = k THEN FAT_END_CLUSTER ELSE s[i + 1]
          /\ \A c \in Clusters : (\A i \in 1..k : s[i] # c) =>
               Allocate(ft, k).cluster_table[c] = ft.cluster_table[c]
          /\ Allocate(ft, k).free_size = ft.free_size - ERASE_SIZE * k
          /\ Allocate(ft, k).file_entries = ft.file_entries
    BY <2>1, <2>2, Allocated
  <2>4. PICK all \in FATs : all = Allocate(ft, k)
    BY AllocateType
  <2>5. PICK tail : tail = chain[e][n]
    OBVIOUS
  <2>6. tail \in Clusters /\ ft.cluster_table[tail] # 0
    <3>1. n \in 1..FileBlocks(ft, e)
      BY <1>3
    <3>2. QED
      BY <1>3, <2>5, <3>1, EndMark DEF Linked, Runs
  <2>7. up = [all EXCEPT !.cluster_table[tail] = s[1]]
    <3>1. At[n - 1] = tail
      BY <1>5, <2>5
    <3>2. QED
      BY <1>7, <1>10, <2>1, <2>3, <2>4, <3>1, SMTT(30) DEF ContinueClusterList
  <2>8. /\ new.cluster_table = [all.cluster_table EXCEPT ![tail] = s[1]]
        /\ new.free_size = all.free_size
    BY <1>8, <2>4, <2>7 DEF FATs
  <2>9. /\ new.cluster_table[tail] = s[1]
        /\ \A c \in Clusters \ {tail} : new.cluster_table[c] = all.cluster_table[c]
    BY <2>4, <2>6, <2>8 DEF FATs, ClusterTables
  <2>10. \A i \in 1..k : s[i] \in Clusters \ {tail}
    BY <2>6 DEF Free
  <2>11. Extends(ft, new, chain, e, n, k, s)
    <3>1. FileBlocks(new, e) = n + k
      BY <1>9, <2>1
    <3>2. n > 0
      OBVIOUS
    <3>3. new.cluster_table[chain[e][n]] = s[1]
      BY <2>5, <2>9
    <3>4. \A i \in 1..k :
            new.cluster_table[s[i]] = IF i = k THEN FAT_END_CLUSTER ELSE s[i + 1]
      BY <2>3, <2>4, <2>9, <2>10
    <3>5. \A c \in Clusters : (\A i \in 1..k : s[i] # c) /\ (n > 0 => chain[e][n] # c)
            => new.cluster_table[c] = ft.cluster_table[c]
      BY <2>3, <2>4, <2>5, <2>9, <3>2
    <3>6. new.free_size = ft.free_size - ERASE_SIZE * k
      BY <2>3, <2>4, <2>8
    <3>7. \A i, j \in 1..k : s[i] = s[j] => i = j
      BY <2>3
    <3>8. new.file_entries[e].first_cluster =
            IF n = 0 THEN s[1] ELSE ft.file_entries[e].first_cluster
      BY <1>9, <3>2
    <3>9. QED
      BY <1>3, <1>9, <2>1, <3>1, <3>3, <3>4, <3>5, <3>6, <3>7, <3>8 DEF Extends
  <2>12. Linked(new, Extended(chain, e, n, k, s))
    BY <1>0, <2>11, ExtendedIsLinked
  <2>13. \A x \in Entries \ {e} : Extended(chain, e, n, k, s)[x] = chain[x]
    BY DEF Extended
  <2>14. QED
    BY <2>12, <2>13
<1>11. ASSUME r < n
       PROVE  Linked(new, chain)
  <2>1. {At[i] : i \in r..(n - 1)} = Behind(chain, e, r, n)
    <3>1. \A i \in r..(n - 1) : i + 1 \in (r + 1)..n /\ i \in 0..(n - 1)
      BY <1>2
    <3>2. \A i \in (r + 1)..n : i - 1 \in r..(n - 1) /\ i - 1 \in 0..(n - 1)
                                /\ (i - 1) + 1 = i
      BY <1>2
    <3>3. \A i \in r..(n - 1) : At[i] = chain[e][i + 1]
      BY <1>5, <3>1
    <3>4. \A i \in (r + 1)..n : chain[e][i] = At[i - 1]
      BY <1>5, <3>2
    <3>5. QED
      BY <3>1, <3>2, <3>3, <3>4 DEF Behind
  <2>2. PICK T : T = Behind(chain, e, r, n)
    OBVIOUS
  <2>3. T \in SUBSET Clusters /\ Cardinality(T) = n - r
    BY <1>3, <1>11, <2>2, ClustersBehind
  <2>4. PICK last : last = chain[e][r]
    OBVIOUS
  <2>5. At[r - 1] = last
    <3>1. r - 1 \in 0..(n - 1) /\ (r - 1) + 1 = r
      BY <1>2, <1>11
    <3>2. QED
      BY <1>5, <2>4, <3>1
  <2>6. \A i \in 1..n : chain[e][i] \in Clusters
    BY <1>3 DEF Linked, Runs
  <2>7. r \in 1..n
    BY <1>2, <1>11
  <2>8. up = [Release(ft, T) EXCEPT !.cluster_table[last] = FAT_END_CLUSTER]
    <3>1. up = [Release(ft, {At[i] : i \in r..(n - 1)}) EXCEPT
                  !.cluster_table[At[r - 1]] = FAT_END_CLUSTER]
      BY <1>7, <1>11
    <3>2. QED
      BY <2>1, <2>2, <2>5, <3>1
  <2>9. /\ new.free_size = ft.free_size + ERASE_SIZE * (n - r)
        /\ new.cluster_table =
             [[c \in Clusters |-> IF c \in T THEN 0 ELSE ft.cluster_table[c]]
                EXCEPT ![last] = FAT_END_CLUSTER]
    BY <1>8, <2>3, <2>8 DEF Release, FATs
  <2>10. /\ new.cluster_table[last] = FAT_END_CLUSTER
         /\ \A c \in Clusters \ {last} :
              new.cluster_table[c] = IF c \in T THEN 0 ELSE ft.cluster_table[c]
    BY <2>4, <2>6, <2>7, <2>9
  <2>11. Cuts(ft, new, chain, e, n, r)
    <3>1. r <= n
      BY <1>11
    <3>2. ASSUME NEW i \in 1..n, r < i PROVE new.cluster_table[chain[e][i]] = 0
      <4>1. i \in (r + 1)..n
        BY <1>2, <3>2
      <4>2. chain[e][i] \in T
        BY <2>2, <4>1 DEF Behind
      <4>3. chain[e][i] # last
        <5>1. ASSUME chain[e][i] = chain[e][r] PROVE FALSE
          <6>1. i = r
            BY <1>3, <2>7, <5>1 DEF Linked, Apart
          <6>2. QED
            BY <3>2, <6>1
        <5>2. QED
          BY <2>4, <5>1
      <4>4. QED
        BY <2>6, <2>10, <4>2, <4>3
    <3>3. ASSUME NEW c \in Clusters, \A i \in 1..n : r <= i => chain[e][i] # c
          PROVE  new.cluster_table[c] = ft.cluster_table[c]
      <4>1. c # last
        BY <2>4, <2>7, <3>3
      <4>2. c \notin T
        <5>1. \A i \in (r + 1)..n : i \in 1..n /\ r <= i
          BY <1>2
        <5>2. QED
          BY <2>2, <3>3, <5>1 DEF Behind
      <4>3. QED
        BY <2>10, <4>1, <4>2
    <3>4. new.cluster_table[chain[e][r]] = FAT_END_CLUSTER
      BY <2>4, <2>10
    <3>5. \/ r = 0 /\ new.file_entries[e].first_cluster = 0
          \/ /\ r > 0 /\ FileBlocks(new, e) = r
             /\ new.file_entries[e].first_cluster = ft.file_entries[e].first_cluster
      BY <1>2, <1>9
    <3>6. QED
      BY <1>3, <1>9, <2>9, <3>1, <3>2, <3>3, <3>4, <3>5 DEF Cuts
  <2>12. QED
    BY <1>2, <1>3, <2>11, CutIsLinked
<1>12. ASSUME r = n
       PROVE  Linked(new, chain)
  <2>1. up = ft
    BY <1>7, <1>12
  <2>2. \A x \in Entries :
          /\ new.file_entries[x].first_cluster = ft.file_entries[x].first_cluster
          /\ FileBlocks(new, x) = FileBlocks(ft, x)
    BY <1>3, <1>9, <1>12 DEF FileBlocks
  <2>3. QED
    BY <1>8, <2>1, <2>2, SameTableIsLinked
<1>13. r > n \/ r < n \/ r = n
  BY <1>2
<1>14. QED
  BY <1>9, <1>10, <1>11, <1>12, <1>13

\* FlashFSFileDelete frees a file's clusters and its entry.
LEMMA DeleteIsLinked ==
  ASSUME NEW ft \in FATs, NEW chain, Linked(ft, chain), NEW e \in Used(ft)
  PROVE  /\ Linked(DeleteFile(ft, e), chain)
         /\ Used(DeleteFile(ft, e)) = Used(ft) \ {e}
         /\ \A x \in Entries \ {e} :
              DeleteFile(ft, e).file_entries[x] = ft.file_entries[x]
<1>1. PICK n \in 1..FILE_ENTRY_COUNT : n = FileBlocks(ft, e)
  BY ChainLength
<1>2. PICK At : At = FileWalk(ft, e)
  OBVIOUS
<1>3. /\ \A i \in 0..(n - 1) : At[i] = chain[e][i + 1]
      /\ \A i \in n..FILE_ENTRY_COUNT : At[i] = FAT_END_CLUSTER
  BY <1>1, <1>2, WalkFollows
<1>4. \A i \in 1..n : chain[e][i] \in Clusters
  BY <1>1 DEF Linked, Runs
<1>5. PICK T : T = Behind(chain, e, 0, n)
  OBVIOUS
<1>6. T \in SUBSET Clusters /\ Cardinality(T) = n
  <2>1. PICK z \in Nat : z = 0
    OBVIOUS
  <2>2. Behind(chain, e, z, n) \in SUBSET Clusters
        /\ Cardinality(Behind(chain, e, z, n)) = n - z
    BY <1>1, <2>1, ClustersBehind
  <2>3. QED
    BY <1>5, <2>1, <2>2
<1>7. T = {chain[e][i] : i \in 1..n}
  BY <1>5 DEF Behind
<1>8. Chain(ft.cluster_table, ft.file_entries[e].first_cluster) = T
  <2>1. Chain(ft.cluster_table, ft.file_entries[e].first_cluster) =
          {d \in Clusters : \E i \in 0..FILE_ENTRY_COUNT : At[i] = d}
    BY <1>2 DEF Chain, FileWalk
  <2>2. ASSUME NEW d \in Clusters, NEW i \in 0..FILE_ENTRY_COUNT, At[i] = d
        PROVE  d \in T
    <3>1. ~(i >= n)
      <4>1. ASSUME i >= n PROVE FALSE
        <5>1. i \in n..FILE_ENTRY_COUNT
          BY <4>1, EndMark
        <5>2. QED
          BY <1>3, <2>2, <5>1, EndMark
      <4>2. QED
        BY <4>1
    <3>2. i \in 0..(n - 1) /\ i + 1 \in 1..n
      BY <3>1, EndMark
    <3>3. QED
      BY <1>3, <1>7, <2>2, <3>2
  <2>3. ASSUME NEW i \in 1..n
        PROVE  \E j \in 0..FILE_ENTRY_COUNT : At[j] = chain[e][i]
    <3>1. i - 1 \in 0..(n - 1) /\ i - 1 \in 0..FILE_ENTRY_COUNT /\ (i - 1) + 1 = i
      BY EndMark
    <3>2. QED
      BY <1>3, <3>1
  <2>4. QED
    BY <1>4, <1>7, <2>1, <2>2, <2>3
<1>9. LastOf(ft.cluster_table, ft.file_entries[e].first_cluster) = FAT_END_CLUSTER
  <2>1. FILE_ENTRY_COUNT \in n..FILE_ENTRY_COUNT
    BY EndMark
  <2>2. QED
    BY <1>2, <1>3, <2>1 DEF LastOf, FileWalk
<1>10. PICK new : new = DeleteFile(ft, e)
  OBVIOUS
<1>11. new = [Release(ft, T) EXCEPT !.file_entries[e].first_cluster = 0]
  BY <1>8, <1>9, <1>10 DEF DeleteFile
<1>12. /\ new.free_size = ft.free_size + ERASE_SIZE * n
       /\ new.cluster_table =
            [c \in Clusters |-> IF c \in T THEN 0 ELSE ft.cluster_table[c]]
       /\ new.file_entries = [ft.file_entries EXCEPT ![e].first_cluster = 0]
  BY <1>6, <1>11 DEF Release, FATs
<1>13. /\ new.file_entries[e].first_cluster = 0
       /\ \A x \in Entries \ {e} : new.file_entries[x] = ft.file_entries[x]
  <2>1. ft.file_entries \in [Entries -> FileEntries]
    BY DEF FATs
  <2>2. QED
    BY <1>12, <2>1, UsedEntries DEF FileEntries
<1>14. Used(new) = Used(ft) \ {e}
  BY <1>13 DEF Used
<1>15. PICK z \in Nat : z = 0
  OBVIOUS
<1>16. Cuts(ft, new, chain, e, n, z)
  <2>1. new.free_size = ft.free_size + ERASE_SIZE * (n - z)
    BY <1>12, <1>15
  <2>2. \A i \in 1..n : z < i => new.cluster_table[chain[e][i]] = 0
    BY <1>4, <1>7, <1>12
  <2>3. \A c \in Clusters : (\A i \in 1..n : z <= i => chain[e][i] # c)
          => new.cluster_table[c] = ft.cluster_table[c]
    BY <1>7, <1>12, <1>15
  <2>4. z <= n /\ ~(z > 0)
    BY <1>15
  <2>5. QED
    BY <1>1, <1>13, <1>15, <2>1, <2>2, <2>3, <2>4 DEF Cuts
<1>17. Linked(new, chain)
  BY <1>1, <1>16, CutIsLinked
<1>18. QED
  BY <1>10, <1>13, <1>14, <1>17

\* Renaming a file changes no chain.
LEMMA SetNameIsLinked ==
  ASSUME NEW ft \in FATs, NEW chain, Linked(ft, chain), NEW e \in Entries, NEW n
  PROVE  /\ Linked(SetName(ft, e, n), chain)
         /\ Used(SetName(ft, e, n)) = Used(ft)
<1>1. PICK named : named = SetName(ft, e, n)
  OBVIOUS
<1>2. /\ named.cluster_table = ft.cluster_table /\ named.free_size = ft.free_size
      /\ named.file_entries = [ft.file_entries EXCEPT ![e].name = Stored(n)]
  BY <1>1 DEF SetName, FATs
<1>3. \A x \in Entries :
        /\ named.file_entries[x].first_cluster = ft.file_entries[x].first_cluster
        /\ named.file_entries[x].size = ft.file_entries[x].size
  BY <1>2 DEF FATs, FileEntries
<1>4. \A x \in Entries : FileBlocks(named, x) = FileBlocks(ft, x)
  BY <1>3 DEF FileBlocks
<1>5. Used(named) = Used(ft)
  BY <1>3 DEF Used
<1>6. QED
  BY <1>1, <1>2, <1>3, <1>4, <1>5, SameTableIsLinked

\* A formatted FAT has no files and all of its clusters are free.
LEMMA FormattedIsLinked ==
  ASSUME NEW chain
  PROVE  Linked(FormattedFAT, chain) /\ Used(FormattedFAT) = {}
<1>1. Used(FormattedFAT) = {}
  BY DEF Used, FormattedFAT
<1>2. Free(FormattedFAT) = Clusters
  BY DEF Free, FormattedFAT
<1>3. Cardinality(Clusters) = FILE_ENTRY_COUNT
  BY EndMark, FS_Interval DEF Clusters
<1>4. Counted(FormattedFAT)
  <2>1. FormattedFAT.free_size = FILE_ENTRY_COUNT * ERASE_SIZE
    BY DEF FormattedFAT, MAX_FREE_SIZE
  <2>2. FILE_ENTRY_COUNT * ERASE_SIZE = ERASE_SIZE * FILE_ENTRY_COUNT
    BY EndMark, FATAssumption
  <2>3. QED
    BY <1>2, <1>3, <2>1, <2>2 DEF Counted
<1>5. Covers(FormattedFAT, chain)
  BY DEF Covers, FormattedFAT
<1>6. QED
  BY <1>1, <1>4, <1>5 DEF Linked, Begins, Runs, Apart

-----------------------------------------------------------------------------
(* A table that was programmed only up to some cluster.                    *)

\* A walk that has come to the end mark stays there.
LEMMA WalkStops ==
  ASSUME NEW table, NEW c, NEW j \in 0..FILE_ENTRY_COUNT,
         Walk(table, c)[j] = FAT_END_CLUSTER
  PROVE  \A i \in j..FILE_ENTRY_COUNT : Walk(table, c)[i] = FAT_END_CLUSTER
<1>1. PICK w : w = Walk(table, c)
  OBVIOUS
<1>2. \A i \in 1..FILE_ENTRY_COUNT : w[i] = NextCluster(table, w[i - 1])
  BY <1>1, WalkUnfold
<1> DEFINE Bad == {i \in j..FILE_ENTRY_COUNT : w[i] # FAT_END_CLUSTER}
<1>3. Bad = {}
  <2>1. SUFFICES ASSUME Bad # {} PROVE FALSE
    OBVIOUS
  <2>2. Bad \subseteq Nat
    BY EndMark
  <2>3. PICK i \in Bad : \A k \in Bad : i <= k
    BY <2>1, <2>2, LeastNat
  <2>4. i # j
    BY <1>1, <2>3
  <2>5. i \in 1..FILE_ENTRY_COUNT /\ i - 1 \in j..FILE_ENTRY_COUNT /\ ~(i <= i - 1)
    BY <2>3, <2>4, EndMark
  <2>6. w[i - 1] = FAT_END_CLUSTER
    BY <2>3, <2>5
  <2>7. w[i] = FAT_END_CLUSTER
    BY <1>2, <2>5, <2>6, EndMark DEF NextCluster
  <2>8. QED
    BY <2>3, <2>7
<1>4. QED
  BY <1>1, <1>3

\* FlashFSValidateFAT refuses a table whose programming was cut short, unless
\* what is missing reads the same erased.
LEMMA TornTable ==
  ASSUME NEW ft \in FATs, NEW chain, Linked(ft, chain), NEW k \in Int, NEW torn,
         torn.file_entries = ft.file_entries, torn.free_size = ft.free_size,
         torn.cluster_table =
           [c \in Clusters |->
              IF c <= k THEN ft.cluster_table[c] ELSE FAT_END_CLUSTER],
         ValidateFAT(torn)
  PROVE  torn.cluster_table = ft.cluster_table
<1>1. \A c \in Clusters : torn.cluster_table[c] =
        IF c <= k THEN ft.cluster_table[c] ELSE FAT_END_CLUSTER
  OBVIOUS
<1>2. Free(torn) = Free(ft)
  <2>1. Free(torn) \subseteq Free(ft)
    BY <1>1, EndMark DEF Free
  <2>2. IsFiniteSet(Free(ft)) /\ Cardinality(Free(ft)) \in Nat
    BY ClustersFinite DEF Free
  <2>3. IsFiniteSet(Free(torn)) /\ Cardinality(Free(torn)) \in Nat
    BY ClustersFinite DEF Free
  <2>4. ERASE_SIZE * Cardinality(Free(torn)) = ERASE_SIZE * Cardinality(Free(ft))
    BY DEF ValidateFAT, Linked, Counted
  <2>5. Cardinality(Free(torn)) = Cardinality(Free(ft))
    <3>1. PICK a \in Nat, b \in Nat :
            a = Cardinality(Free(torn)) /\ b = Cardinality(Free(ft))
      BY <2>2, <2>3
    <3>2. ERASE_SIZE * a = ERASE_SIZE * b
      BY <2>4, <3>1
    <3>3. a < b => ERASE_SIZE * a + ERASE_SIZE <= ERASE_SIZE * b
      BY DivMonotone
    <3>4. b < a => ERASE_SIZE * b + ERASE_SIZE <= ERASE_SIZE * a
      BY DivMonotone
    <3>5. ERASE_SIZE * a \in Int /\ ERASE_SIZE \in Nat /\ ERASE_SIZE > 0
      BY FATAssumption
    <3>6. a = b
      BY <3>2, <3>3, <3>4, <3>5
    <3>7. QED
      BY <3>1, <3>6
  <2>6. QED
    BY <2>1, <2>2, <2>5, FS_Subset
<1>3. Used(torn) = Used(ft)
  BY DEF Used
\* As far as the file goes, the walk in the torn table is the one it was.
<1>4. ASSUME NEW e \in Used(ft), NEW n \in 1..FILE_ENTRY_COUNT, n = FileBlocks(ft, e)
      PROVE  \A i \in 0..(n - 1) : FileWalk(torn, e)[i] = chain[e][i + 1]
  <2>1. PICK w : w = FileWalk(torn, e)
    OBVIOUS
  <2>2. /\ w[0] = chain[e][1]
        /\ \A i \in 1..FILE_ENTRY_COUNT : w[i] = NextCluster(torn.cluster_table, w[i - 1])
    BY <2>1, WalkUnfold DEF FileWalk, Linked, Begins
  <2>3. w[n - 1] \in Clusters
    BY <1>3, <1>4, <2>1 DEF ValidateFAT, ValidEntry, FileBlocks
  <2>4. \A i \in 1..n : /\ chain[e][i] \in Clusters
                        /\ ft.cluster_table[chain[e][i]] =
                             IF i = n THEN FAT_END_CLUSTER ELSE chain[e][i + 1]
    BY <1>4 DEF Linked, Runs
  <2> DEFINE Bad == {i \in 0..(n - 1) : w[i] # chain[e][i + 1]}
  <2>5. Bad = {}
    <3>1. SUFFICES ASSUME Bad # {} PROVE FALSE
      OBVIOUS
    <3>2. PICK i \in Bad : \A j \in Bad : i <= j
      <4>1. Bad \subseteq Nat
        OBVIOUS
      <4>2. QED
        BY <3>1, <4>1, LeastNat
    <3>3. i # 0
      <4>1. i = 0 => chain[e][i + 1] = chain[e][1]
        OBVIOUS
      <4>2. QED
        BY <2>2, <3>2, <4>1
    <3>4. /\ i \in 1..FILE_ENTRY_COUNT /\ i \in 0..FILE_ENTRY_COUNT
          /\ i - 1 \in 0..(n - 1) /\ ~(i <= i - 1) /\ (i - 1) + 1 = i
          /\ i \in 1..n /\ i # n /\ n - 1 \in i..FILE_ENTRY_COUNT
      BY <3>2, <3>3, EndMark
    <3>5. w[i - 1] = chain[e][i]
      BY <3>2, <3>4
    <3>6. w[i] = torn.cluster_table[chain[e][i]]
      BY <2>2, <2>4, <3>4, <3>5 DEF NextCluster
    <3>7. ft.cluster_table[chain[e][i]] = chain[e][i + 1]
      BY <2>4, <3>4
    <3>8. w[i] = FAT_END_CLUSTER
      BY <1>1, <2>4, <3>2, <3>4, <3>6, <3>7
    <3>9. w[n - 1] = FAT_END_CLUSTER
      BY <2>1, <3>4, <3>8, WalkStops DEF FileWalk
    <3>10. QED
      BY <2>3, <3>9, EndMark
  <2>6. QED
    BY <2>1, <2>5
<1>5. ASSUME NEW c \in Clusters
      PROVE  torn.cluster_table[c] = ft.cluster_table[c]
  <2>1. CASE c <= k
    BY <1>1, <2>1
  <2>2. CASE ~(c <= k)
    <3>1. torn.cluster_table[c] = FAT_END_CLUSTER /\ ft.cluster_table[c] # 0
      BY <1>1, <1>2, <2>2, EndMark DEF Free
    <3>2. PICK e \in Used(ft) : \E i \in 1..FileBlocks(ft, e) : chain[e][i] = c
      BY <3>1 DEF Linked, Covers
    <3>3. PICK n \in 1..FILE_ENTRY_COUNT : n = FileBlocks(ft, e)
      BY ChainLength
    <3>4. PICK i \in 1..n : chain[e][i] = c
      BY <3>2, <3>3
    <3>5. ft.cluster_table[c] = IF i = n THEN FAT_END_CLUSTER ELSE chain[e][i + 1]
      BY <3>3, <3>4 DEF Linked, Runs
    <3>6. i = n
      <4>1. SUFFICES ASSUME i # n PROVE FALSE
        OBVIOUS
      <4>2. i - 1 \in 0..(n - 1) /\ i \in 0..(n - 1) /\ (i - 1) + 1 = i
            /\ i + 1 \in 1..n /\ i \in 1..FILE_ENTRY_COUNT
        BY <4>1, EndMark
      <4>3. FileWalk(torn, e)[i - 1] = c /\ FileWalk(torn, e)[i] = chain[e][i + 1]
        BY <1>4, <3>3, <3>4, <4>2
      <4>4. FileWalk(torn, e)[i] = NextCluster(torn.cluster_table, FileWalk(torn, e)[i - 1])
        BY <4>2, WalkUnfold DEF FileWalk
      <4>5. chain[e][i + 1] = FAT_END_CLUSTER
        BY <3>1, <4>3, <4>4 DEF NextCluster
      <4>6. chain[e][i + 1] \in Clusters
        BY <3>3, <4>2 DEF Linked, Runs
      <4>7. QED
        BY <4>5, <4>6, EndMark
    <3>7. QED
      BY <3>1, <3>5, <3>6
  <2>3. QED
    BY <2>1, <2>2
<1>6. ft.cluster_table \in [Clusters -> 0..FILE_ENTRY_COUNT \cup {FAT_END_CLUSTER}]
  BY DEF FATs, ClusterTables
<1>7. torn.cluster_table = [c \in Clusters |-> torn.cluster_table[c]]
  BY <1>1
<1>8. QED
  BY <1>5, <1>6, <1>7

-----------------------------------------------------------------------------
(* The types, and that the loop of FlashFSInternalWrite has a block left.   *)

BlocksLeft == cmd.phase \in {"erase", "program"} => cmd.left > 0

TypeInv == TypeOK /\ BlocksLeft

-----------------------------------------------------------------------------
(* The values the commands put together.                                   *)

LEMMA IdleType == Idle \in Commands /\ Syncing \in Commands
<1>1. Idle \in Commands
  <2>1. <<>> \in Seq(Tokens)
    OBVIOUS
  <2>2. 0 \in 0..FILE_ENTRY_COUNT
    BY FATAssumption DEF FAT_END_CLUSTER
  <2>3. QED
    BY <2>1, <2>2 DEF Idle, Commands, Phases, UserNames
<1>2. QED
  BY <1>1 DEF Syncing, Commands, Phases

LEMMA FormattedFATType == FormattedFAT \in FATs
<1>1. MAX_FREE_SIZE \in Int
  BY FATAssumption DEF MAX_FREE_SIZE, FAT_END_CLUSTER
<1>2. 0 \in 0..(SIZE_MOD - 1) /\ 0 \in 0..FILE_ENTRY_COUNT
  BY FATAssumption DEF FAT_END_CLUSTER
<1> HIDE DEF MAX_FREE_SIZE
<1>3. QED
  BY <1>1, <1>2 DEF FormattedFAT, FATs, FileEntries, ClusterTables

LEMMA ErasedType == Erased \in FlashFATs
BY FormattedFATType, FATAssumption DEF Erased, FlashFATs, Programmed, FAT_END_CLUSTER

LEMMA ProgrammedToType ==
  ASSUME fat \in FATs, NEW k \in Programmed
  PROVE  ProgrammedTo(k) \in FlashFATs
BY ErasedType DEF ProgrammedTo, FlashFATs

LEMMA ImageType ==
  ASSUME NEW ff \in FlashFATs
  PROVE  Image(ff) \in FATs
<1> DEFINE size == IF ff.programmed = -1 THEN MAX_FREE_SIZE + 1 ELSE ff.fat.free_size
           table == [c \in Clusters |-> IF c <= ff.programmed
                       THEN ff.fat.cluster_table[c] ELSE FAT_END_CLUSTER]
<1>1. Image(ff) = [ff.fat EXCEPT !.free_size = size, !.cluster_table = table]
  BY DEF Image
<1>2. ff.fat \in FATs
  BY DEF FlashFATs
<1>3. size \in Int
  BY <1>2, FATAssumption DEF FATs, MAX_FREE_SIZE, FAT_END_CLUSTER
<1>4. table \in ClusterTables
  BY <1>2 DEF FATs, ClusterTables
<1> HIDE DEF size, table
<1>5. QED
  BY <1>1, <1>2, <1>3, <1>4 DEF FATs

LEMMA FileFindType ==
  ASSUME NEW f, NEW n, Found(f, n)
  PROVE  FileFind(f, n) \in Entries /\ FileFind(f, n) \in Matching(f, n)
<1>1. Matching(f, n) \subseteq Entries /\ Matching(f, n) # {}
  BY DEF Matching, Used, Found
<1>2. Matching(f, n) \subseteq Nat
  BY <1>1 DEF Entries
<1>3. \E e \in Matching(f, n) : \A d \in Matching(f, n) : e <= d
  BY <1>1, <1>2, LeastNat
<1>4. QED
  BY <1>1, <1>3 DEF FileFind

LEMMA PartsType ==
  ASSUME NEW v \in Values, NEW length \in Nat
  PROVE  Parts(v, length) \in Seq(Tokens) /\ Len(Parts(v, length)) = Blocks(length)
<1>1. Blocks(length) \in Nat
  BY BlocksCeiling
<1>2. QED
  BY <1>1 DEF Parts, Tokens

LEMMA ReadFileType ==
  ASSUME TypeOK, NEW n, Found(fat, n)
  PROVE  LET r == ReadFile(fat, n)
         IN /\ r.size \in 0..(SIZE_MOD - 1)
            /\ r.blocks \in Seq(Tokens)
            /\ Len(r.blocks) = Blocks(r.size)
<1> DEFINE e == FileFind(fat, n)
           size == fat.file_entries[e].size
           At(i) == Contents(FileWalk(fat, e)[i - 1])
<1>1. e \in Entries
  BY FileFindType
<1>2. size \in 0..(SIZE_MOD - 1)
  BY <1>1 DEF TypeOK, FATs, FileEntries
<1>3. Blocks(size) \in Nat
  BY <1>2, BlocksCeiling, FATAssumption
<1>4. \A c : Contents(c) \in Tokens
  BY DEF Contents, TypeOK, Tokens
<1>5. ReadFile(fat, n) = [size |-> size, blocks |-> [i \in 1..Blocks(size) |-> At(i)]]
  BY DEF ReadFile
<1> HIDE DEF size, At
<1>6. \A i : At(i) \in Tokens
  BY <1>4 DEF At
<1>7. [i \in 1..Blocks(size) |-> At(i)] \in Seq(Tokens)
  BY <1>3, <1>6
<1>8. QED
  BY <1>2, <1>3, <1>5, <1>7

\* The first block of a write.
LEMMA WritingType ==
  ASSUME NEW f \in FATs, NEW e \in Entries, NEW n \in UserNames,
         NEW contents \in Seq(Tokens), NEW source \in FileNames \cup {NoName},
         NEW sync \in BOOLEAN, f.file_entries[e].size > 0
  PROVE  /\ Writing(f, e, n, contents, source, sync) \in Commands
         /\ Writing(f, e, n, contents, source, sync).left = f.file_entries[e].size
<1> DEFINE first == f.file_entries[e].first_cluster
           size == f.file_entries[e].size
<1>1. first \in 0..FILE_ENTRY_COUNT /\ size \in 0..(SIZE_MOD - 1)
  BY DEF FATs, FileEntries
<1>2. Writing(f, e, n, contents, source, sync) =
        [phase |-> "erase", name |-> n, source |-> source, contents |-> contents,
         cluster |-> first, left |-> size, part |-> 1, always_sync |-> sync,
         unmount |-> FALSE]
  BY DEF Writing
<1>3. first \in 0..FILE_ENTRY_COUNT \cup {FAT_END_CLUSTER} /\ size \in Int
  BY <1>1, FATAssumption
<1> HIDE DEF first
<1>4. QED
  BY <1>2, <1>3 DEF Commands, Phases

\* The next block, or none.
LEMMA CommandEdit ==
  ASSUME NEW c \in Commands, NEW p \in Phases, NEW left \in Int, NEW part \in Nat \ {0},
         NEW next \in 0..FILE_ENTRY_COUNT \cup {FAT_END_CLUSTER}
  PROVE  /\ [c EXCEPT !.phase = p, !.left = left, !.part = part, !.cluster = next]
              \in Commands
         /\ [c EXCEPT !.phase = p, !.left = left] \in Commands
<1>1. [c EXCEPT !.phase = p, !.left = left, !.part = part, !.cluster = next] \in Commands
  BY DEF Commands
<1>2. [c EXCEPT !.phase = p, !.left = left] \in Commands
  BY DEF Commands
<1>3. QED
  BY <1>1, <1>2

\* A size below 2^16 is stored as it is.
LEMMA SizeStored ==
  ASSUME NEW f \in FATs, NEW e \in Entries, NEW length \in 1..(SIZE_MOD - 1)
  PROVE  SetSize(f, e, length).file_entries[e].size = length
<1>1. length % SIZE_MOD = length
  BY FATAssumption
<1>2. QED
  BY <1>1 DEF SetSize, FATs, FileEntries

-----------------------------------------------------------------------------
(* A write begins.                                                         *)

LEMMA WriteBegins ==
  ASSUME TypeInv, NEW length \in Nat \ {0},
         cmd' \in Commands, cmd'.left = length,
         fat' \in FATs, dirty' \in SUBSET FileNames,
         UNCHANGED <<mounted, flash, flash_fat, faults>>
  PROVE  TypeInv'
<1>1. BlocksLeft'
  BY DEF BlocksLeft
<1>2. TypeOK'
  BY DEF TypeInv, TypeOK
<1>3. QED
  BY <1>1, <1>2 DEF TypeInv

LEMMA FileCreateType ==
  ASSUME TypeInv, NEW n \in UserNames,
         NEW contents \in Seq(Tokens), NEW source \in FileNames \cup {NoName},
         NEW sync \in BOOLEAN, NEW length \in 0..(SIZE_MOD - 1),
         FileCreate(n, contents, length, source, sync)
  PROVE  TypeInv'
<1> DEFINE e == Least(Entries \ Used(fat))
           named == SetName(fat, e, n)
           linked == BuildClusterList(named, e, length)
           built == SetSize(linked, e, length)
<1>1. e \in Entries
  <2>1. Entries \ Used(fat) \subseteq Nat
    BY DEF Entries
  <2>2. Entries \ Used(fat) # {}
    BY DEF FileCreate, CanCreate, Used
  <2>3. QED
    BY <2>1, <2>2, LeastIsLeast
<1>2. length \in 1..(SIZE_MOD - 1) /\ length \in Nat
  BY DEF FileCreate, CanCreate, TypeInv, TypeOK, FATs
<1>3. fat \in FATs
  BY DEF TypeInv, TypeOK
<1>4. named \in FATs
  BY <1>1, <1>3, SetNameType DEF UserNames
<1>5. linked \in FATs
  BY <1>1, <1>2, <1>4, BuildClusterListType
<1>6. built \in FATs /\ built.file_entries[e].size = length
  BY <1>1, <1>2, <1>5, SetSizeType, SizeStored
<1>7. /\ fat' = built
      /\ cmd' = Writing(built, e, n, contents, source, sync)
      /\ dirty' \in SUBSET FileNames
      /\ UNCHANGED <<mounted, flash, flash_fat, faults>>
  BY DEF FileCreate, TypeInv, TypeOK
<1> HIDE DEF e, built
<1>8. cmd' \in Commands /\ cmd'.left = length
  <2>1. built.file_entries[e].size > 0
    BY <1>2, <1>6
  <2>2. QED
    BY <1>1, <1>6, <1>7, <2>1, WritingType
<1>9. length \in Nat \ {0}
  BY <1>2
<1>10. QED
  BY <1>6, <1>7, <1>8, <1>9, WriteBegins

LEMMA FileWriteType ==
  ASSUME TypeInv, NEW n \in UserNames,
         NEW contents \in Seq(Tokens), NEW source \in FileNames \cup {NoName},
         NEW length \in 0..(SIZE_MOD - 1), FileWrite(n, contents, length, source)
  PROVE  TypeInv'
<1> DEFINE e == FileFind(fat, n)
           linked == UpdateClusterList(fat, e, length)
           resized == SetSize(linked, e, length)
<1>1. e \in Entries /\ n \in FileNames
  BY FileFindType DEF FileWrite, Found
<1>2. length \in 1..(SIZE_MOD - 1) /\ length \in Nat
  BY DEF FileWrite
<1>3. fat \in FATs
  BY DEF TypeInv, TypeOK
<1>4. linked \in FATs
  BY <1>1, <1>2, <1>3, UpdateClusterListType
<1>5. resized \in FATs /\ resized.file_entries[e].size = length
  BY <1>1, <1>2, <1>4, SetSizeType, SizeStored
<1>6. /\ fat' = resized
      /\ cmd' = Writing(resized, e, n, contents, source, FALSE)
      /\ dirty' \in SUBSET FileNames
      /\ UNCHANGED <<mounted, flash, flash_fat, faults>>
  BY <1>1 DEF FileWrite, TypeInv, TypeOK
<1> HIDE DEF e, resized
<1>7. cmd' \in Commands /\ cmd'.left = length
  <2>1. resized.file_entries[e].size > 0
    BY <1>2, <1>5
  <2>2. QED
    BY <1>1, <1>5, <1>6, <2>1, WritingType, ZenonT(30)
<1>8. length \in Nat \ {0}
  BY <1>2
<1>9. QED
  BY <1>5, <1>6, <1>7, <1>8, WriteBegins

-----------------------------------------------------------------------------
(* Steps that leave no block to write.                                     *)

\* After such a step BlocksLeft has nothing to say.
LEMMA Quiet ==
  ASSUME cmd' \in Commands, cmd'.phase \notin {"erase", "program"}
  PROVE  BlocksLeft'
BY DEF BlocksLeft

LEMMA IdlePhase ==
  /\ Idle.phase = "idle"
  /\ Syncing.phase = "sync_erase"
BY DEF Idle, Syncing

LEMMA FatEditType ==
  ASSUME TypeInv, mounted' \in BOOLEAN, fat' \in FATs, cmd' \in {Idle, Syncing},
         dirty' \in SUBSET FileNames, UNCHANGED <<flash, flash_fat, faults>>
  PROVE  TypeInv'
<1>1. cmd' \in Commands /\ cmd'.phase \notin {"erase", "program"}
  BY IdleType, IdlePhase
<1>2. TypeOK'
  BY <1>1 DEF TypeInv, TypeOK
<1>3. QED
  BY <1>1, <1>2, Quiet DEF TypeInv

LEMMA CopyToNewType ==
  ASSUME TypeInv, NEW n \in UserNames, NEW m \in UserNames, CopyToNew(n, m)
  PROVE  TypeInv'
<1> DEFINE from == ReadFile(fat, n)
<1>1. /\ from.size \in 0..(SIZE_MOD - 1)
      /\ from.blocks \in Seq(Tokens)
      /\ Len(from.blocks) = Blocks(from.size)
  BY ReadFileType DEF CopyToNew, TypeInv
<1>2. n \in FileNames \cup {NoName}
  BY DEF CopyToNew, Found
<1> HIDE DEF from
<1>3. CASE FileCreate(m, from.blocks, from.size, n, TRUE)
  BY <1>1, <1>2, <1>3, FileCreateType
<1>4. CASE /\ cmd' = Syncing
           /\ UNCHANGED <<mounted, fat, flash, flash_fat, dirty, faults>>
  BY <1>4, FatEditType DEF TypeInv, TypeOK
<1>5. QED
  BY <1>3, <1>4 DEF CopyToNew, from

\* What "cp -f" passes on: the blocks it read, or those that are full.
CopyBuffer(from, length) ==
  IF length <= from.size THEN from.blocks
  ELSE SubSeq(from.blocks, 1, from.size \div ERASE_SIZE)

LEMMA CopyBufferType ==
  ASSUME NEW from, from.size \in Nat, from.blocks \in Seq(Tokens),
         Len(from.blocks) = Blocks(from.size), NEW length \in Nat
  PROVE  CopyBuffer(from, length) \in Seq(Tokens)
<1>1. PICK size \in Nat : size = from.size
  OBVIOUS
<1>2. PICK blocks \in Seq(Tokens) : blocks = from.blocks
  OBVIOUS
<1>3. PICK full \in Nat : full = size \div ERASE_SIZE
  BY DivMod
<1>4. full <= Blocks(size)
  BY <1>3 DEF Blocks
<1>5. full \in 0..Len(blocks)
  BY <1>1, <1>2, <1>4
<1>6. SubSeq(blocks, 1, full) \in Seq(Tokens)
  BY <1>5
<1>7. QED
  BY <1>1, <1>2, <1>3, <1>6 DEF CopyBuffer

LEMMA CopyOverType ==
  ASSUME TypeInv, NEW n \in UserNames, NEW m \in UserNames, CopyOver(n, m)
  PROVE  TypeInv'
<1>1. PICK from : from = ReadFile(fat, n)
  OBVIOUS
<1>2. PICK length \in 0..(SIZE_MOD - 1) : length = ReadFile(fat, m).size
  BY ReadFileType DEF CopyOver, FileWrite, TypeInv
<1>3. n \in FileNames \cup {NoName}
  BY DEF CopyOver, Found
<1>4. FileWrite(m, CopyBuffer(from, length), length, n)
  BY <1>1, <1>2 DEF CopyOver, CopyBuffer
<1>5. /\ from.size \in 0..(SIZE_MOD - 1)
      /\ from.blocks \in Seq(Tokens)
      /\ Len(from.blocks) = Blocks(from.size)
  BY <1>1, ReadFileType DEF CopyOver, TypeInv
<1>6. CopyBuffer(from, length) \in Seq(Tokens)
  BY <1>5, CopyBufferType
<1>7. QED
  BY <1>3, <1>4, <1>6, FileWriteType

LEMMA DeleteType ==
  ASSUME TypeInv, NEW n \in UserNames, Delete(n)
  PROVE  TypeInv'
<1>1. FileFind(fat, n) \in Entries /\ n \in FileNames
  BY FileFindType DEF Delete, Found
<1>2. fat' \in FATs
  BY <1>1, DeleteFileType DEF Delete, TypeInv, TypeOK
<1>3. cmd' \in {Idle, Syncing}
  BY DEF Delete
<1>4. QED
  BY <1>1, <1>2, <1>3, FatEditType DEF Delete, TypeInv, TypeOK

LEMMA RenameType ==
  ASSUME TypeInv, NEW n \in UserNames, NEW m \in UserNames, Rename(n, m)
  PROVE  TypeInv'
<1>1. FileFind(fat, n) \in Entries /\ n \in FileNames /\ m \in FileNames
  BY FileFindType DEF Rename, Found
<1>2. fat' \in FATs
  BY <1>1, SetNameType DEF Rename, TypeInv, TypeOK
<1>3. QED
  BY <1>1, <1>2, FatEditType DEF Rename, TypeInv, TypeOK

-----------------------------------------------------------------------------
(* The accesses to the flash.                                              *)

LEMMA FailsType ==
  ASSUME faults \in 0..MaxFaults, Fails \/ Works
  PROVE  faults' \in 0..MaxFaults
BY FlashFSAssumption DEF Fails, Works

LEMMA EraseBlockType ==
  ASSUME TypeInv, EraseBlock
  PROVE  TypeInv'
<1>1. [flash EXCEPT ![cmd.cluster] = Blank] \in [Clusters -> Tokens]
  BY DEF TypeInv, TypeOK, Tokens
<1>2. flash' \in [Clusters -> Tokens]
  BY <1>1 DEF EraseBlock, TypeInv, TypeOK
<1>3. faults' \in 0..MaxFaults
  BY FailsType DEF EraseBlock, WriteFails, TypeInv, TypeOK
<1>4. cmd' \in Commands /\ BlocksLeft'
  <2>1. CASE cmd' = [cmd EXCEPT !.phase = "program"]
    <3>1. cmd' \in Commands /\ cmd'.left = cmd.left
      BY <2>1 DEF TypeInv, TypeOK, Commands, Phases
    <3>2. QED
      BY <3>1 DEF EraseBlock, TypeInv, BlocksLeft
  <2>2. CASE cmd' \in {Idle, Syncing}
    BY <2>2, IdleType, IdlePhase, Quiet
  <2>3. QED
    BY <2>1, <2>2 DEF EraseBlock, WriteFails
<1>5. QED
  BY <1>2, <1>3, <1>4 DEF EraseBlock, TypeInv, TypeOK

LEMMA PartType ==
  ASSUME NEW c, c.contents \in Seq(Tokens), NEW i \in Nat \ {0}
  PROVE  BufferPart(c, i) \in Tokens
<1>1. PICK contents \in Seq(Tokens) : contents = c.contents
  OBVIOUS
<1>2. i <= Len(contents) => contents[i] \in Tokens
  OBVIOUS
<1>3. Blank \in Tokens
  BY DEF Tokens
<1>4. QED
  BY <1>1, <1>2, <1>3 DEF BufferPart

LEMMA ProgramBlockType ==
  ASSUME TypeInv, ProgramBlock
  PROVE  TypeInv'
<1>1. /\ cmd \in Commands /\ cmd.left \in Nat /\ cmd.left > 0
      /\ cmd.contents \in Seq(Tokens) /\ cmd.part \in Nat \ {0}
  BY DEF ProgramBlock, TypeInv, TypeOK, BlocksLeft, Commands
<1>3. BufferPart(cmd, cmd.part) \in Tokens
  BY <1>1, PartType
<1>4. flash' \in [Clusters -> Tokens]
  BY <1>3 DEF ProgramBlock, TypeInv, TypeOK
<1>5. faults' \in 0..MaxFaults
  BY FailsType DEF ProgramBlock, WriteFails, TypeInv, TypeOK
<1>6. cmd' \in Commands /\ BlocksLeft'
  <2> DEFINE next == NextCluster(fat.cluster_table, cmd.cluster)
  <2>1. CASE /\ cmd.left > ERASE_SIZE
             /\ cmd' = [cmd EXCEPT !.phase = "erase", !.left = @ - ERASE_SIZE,
                                   !.part = @ + 1, !.cluster = next]
    <3>1. next \in 0..FILE_ENTRY_COUNT \cup {FAT_END_CLUSTER}
      BY <1>1 DEF NextCluster, TypeInv, TypeOK, FATs, ClusterTables, Commands
    <3> HIDE DEF next
    <3>2. cmd.left - ERASE_SIZE \in Nat /\ cmd.left - ERASE_SIZE > 0
      BY <1>1, <2>1, FATAssumption
    <3>a. PICK left \in Nat, part \in Nat \ {0} :
            left = cmd.left - ERASE_SIZE /\ part = cmd.part + 1 /\ left > 0
      BY <1>1, <3>2
    <3>b. cmd' = [cmd EXCEPT !.phase = "erase", !.left = left, !.part = part,
                             !.cluster = next]
      BY <2>1, <3>a
    <3>3. cmd' \in Commands
      <4>1. "erase" \in Phases
        BY DEF Phases
      <4>2. left \in Int
        OBVIOUS
      <4>3. QED
        BY <1>1, <3>1, <3>b, <4>1, <4>2, CommandEdit
    <3>4. cmd'.left = left
      BY <1>1, <3>b DEF Commands
    <3>6. BlocksLeft'
      BY <3>a, <3>4 DEF BlocksLeft
    <3>7. QED
      BY <3>3, <3>6
  <2>2. CASE cmd' = [cmd EXCEPT !.phase = "sync_erase", !.left = 0]
    <3>1. cmd' \in Commands
      <4>1. "sync_erase" \in Phases /\ 0 \in Int
        BY DEF Phases
      <4>2. 0 \in 0..FILE_ENTRY_COUNT \cup {FAT_END_CLUSTER}
        BY FATAssumption DEF FAT_END_CLUSTER
      <4>3. QED
        BY <1>1, <2>2, <4>1, <4>2, CommandEdit
    <3>a. cmd'.phase = "sync_erase"
      BY <1>1, <2>2 DEF Commands
    <3>2. QED
      BY <3>1, <3>a, Quiet
  <2>3. CASE cmd' \in {Idle, Syncing}
    BY <2>3, IdleType, IdlePhase, Quiet
  <2>4. QED
    BY <2>1, <2>2, <2>3 DEF ProgramBlock, WriteFails
<1>7. QED
  BY <1>4, <1>5, <1>6 DEF ProgramBlock, TypeInv, TypeOK

LEMMA SyncDoneType ==
  ASSUME SyncDone
  PROVE  cmd' \in Commands /\ BlocksLeft'
<1>1. [Idle EXCEPT !.phase = "free"] \in Commands
  BY IdleType DEF Commands, Phases
<1>2. [Idle EXCEPT !.phase = "free"].phase = "free"
  BY IdleType DEF Commands
<1>3. QED
  BY <1>1, <1>2, IdleType, IdlePhase, Quiet DEF SyncDone

LEMMA SyncEraseType ==
  ASSUME TypeInv, SyncErase
  PROVE  TypeInv'
<1>1. flash_fat' \in FlashFATs
  BY ErasedType DEF SyncErase, TypeInv, TypeOK
<1>2. faults' \in 0..MaxFaults
  BY FailsType DEF SyncErase, TypeInv, TypeOK
<1>3. cmd' \in Commands /\ BlocksLeft'
  <2>1. CASE cmd' = [cmd EXCEPT !.phase = "sync_program"]
    <3>1. cmd' \in Commands /\ cmd'.phase = "sync_program"
      BY <2>1 DEF TypeInv, TypeOK, Commands, Phases
    <3>2. QED
      BY <3>1, Quiet
  <2>2. CASE SyncDone
    BY <2>2, SyncDoneType
  <2>3. QED
    BY <2>1, <2>2 DEF SyncErase
<1>4. QED
  BY <1>1, <1>2, <1>3 DEF SyncErase, TypeInv, TypeOK

LEMMA SyncProgramType ==
  ASSUME TypeInv, SyncProgram
  PROVE  TypeInv'
<1>1. fat \in FATs /\ FILE_ENTRY_COUNT \in Programmed
  BY FATAssumption DEF TypeInv, TypeOK, Programmed, FAT_END_CLUSTER
<1>2. flash_fat' \in FlashFATs
  BY <1>1, ProgrammedToType DEF SyncProgram
<1>3. faults' \in 0..MaxFaults
  BY FailsType DEF SyncProgram, TypeInv, TypeOK
<1>4. cmd' \in Commands /\ BlocksLeft'
  BY SyncDoneType DEF SyncProgram
<1>5. QED
  BY <1>2, <1>3, <1>4 DEF SyncProgram, TypeInv, TypeOK

LEMMA ForgetType ==
  ASSUME TypeInv, Forget, flash_fat' \in FlashFATs
  PROVE  TypeInv'
<1>1. cmd' \in Commands /\ cmd'.phase \notin {"erase", "program"}
  BY IdleType, IdlePhase DEF Forget
<1>2. TypeOK'
  BY <1>1, FormattedFATType DEF Forget, TypeInv, TypeOK
<1>3. QED
  BY <1>1, <1>2, Quiet DEF TypeInv

-----------------------------------------------------------------------------
(* The invariant.                                                          *)

LEMMA InitTypeInv == Init => TypeInv
<1>1. SUFFICES ASSUME Init PROVE TypeInv
  OBVIOUS
<1>2. TypeOK
  <2>1. fat \in FATs /\ flash_fat \in FlashFATs /\ cmd \in Commands
    BY <1>1, FormattedFATType, ErasedType, IdleType DEF Init
  <2>2. mounted \in BOOLEAN /\ dirty \in SUBSET FileNames
    BY <1>1 DEF Init
  <2>3. faults \in 0..MaxFaults
    BY <1>1, FlashFSAssumption DEF Init
  <2>4. flash \in [Clusters -> Tokens]
    BY <1>1 DEF Init, Tokens
  <2>5. QED
    BY <2>1, <2>2, <2>3, <2>4 DEF TypeOK
<1>3. BlocksLeft
  BY <1>1, IdlePhase DEF Init, BlocksLeft
<1>4. QED
  BY <1>2, <1>3 DEF TypeInv

LEMMA NextTypeInv == TypeInv /\ [Next]_vars => TypeInv'
<1>1. SUFFICES ASSUME TypeInv, [Next]_vars PROVE TypeInv'
  OBVIOUS
<1>2. ASSUME NEW n \in UserNames, NEW v \in Values, NEW length \in Lengths,
             Create(n, v, length) \/ Write(n, v, length)
      PROVE  TypeInv'
  <2>1. length \in 0..(SIZE_MOD - 1) /\ length \in Nat
    BY FlashFSAssumption
  <2>2. Parts(v, length) \in Seq(Tokens) /\ Len(Parts(v, length)) = Blocks(length)
    BY <2>1, PartsType
  <2>3. QED
    BY <1>1, <1>2, <2>1, <2>2, FileCreateType, FileWriteType DEF Create, Write
<1>3. ASSUME NEW n \in UserNames, NEW m \in UserNames,
             CopyToNew(n, m) \/ CopyOver(n, m) \/ Rename(n, m)
      PROVE  TypeInv'
  BY <1>1, <1>3, CopyToNewType, CopyOverType, RenameType
<1>4. ASSUME NEW n \in UserNames, Delete(n)
      PROVE  TypeInv'
  BY <1>1, <1>4, DeleteType
<1>5. CASE Mount
  <2>1. fat' \in FATs
    BY <1>1, <1>5, ImageType DEF Mount, TypeInv, TypeOK
  <2>2. QED
    BY <1>1, <1>5, <2>1 DEF Mount, TypeInv, TypeOK, BlocksLeft
<1>6. CASE Unmount
  <2>1. cmd' \in Commands /\ cmd'.phase = "sync_erase"
    BY <1>6, IdleType, IdlePhase DEF Unmount, Commands
  <2>2. QED
    BY <1>1, <1>6, <2>1, Quiet DEF Unmount, TypeInv, TypeOK
<1>7. CASE Format
  BY <1>1, <1>7, FormattedFATType, FatEditType DEF Format
<1>8. CASE EraseBlock
  BY <1>1, <1>8, EraseBlockType
<1>9. CASE ProgramBlock
  BY <1>1, <1>9, ProgramBlockType
<1>10. CASE SyncErase
  BY <1>1, <1>10, SyncEraseType
<1>11. CASE SyncProgram
  BY <1>1, <1>11, SyncProgramType
<1>12. CASE FreeFAT
  BY <1>1, <1>12, ForgetType DEF FreeFAT, TypeInv, TypeOK
<1>13. CASE PowerLoss
  <2>1. flash_fat' \in FlashFATs
    BY <1>1, <1>13, ProgrammedToType DEF PowerLoss, TypeInv, TypeOK
  <2>2. QED
    BY <1>1, <1>13, <2>1, ForgetType DEF PowerLoss
<1>14. CASE UNCHANGED vars
  BY <1>1, <1>14 DEF vars, TypeInv, TypeOK, BlocksLeft
<1>15. QED
  BY <1>1, <1>2, <1>3, <1>4, <1>5, <1>6, <1>7, <1>8, <1>9, <1>10, <1>11, <1>12,
     <1>13, <1>14 DEF Next

THEOREM TypeInvHolds == Spec => []TypeInv
<1>1. Init => TypeInv
  BY InitTypeInv
<1>2. TypeInv /\ [Next]_vars => TypeInv'
  BY NextTypeInv
<1>3. QED
  BY <1>1, <1>2, PTL DEF Spec

\* The variables keep their types: in particular the cluster numbers written
\* into the table and the entries are cluster numbers or the end mark, and
\* the sizes fit the unsigned short (flash_fs.c:218-358).
THEOREM TypeCorrect == Spec => []TypeOK
<1>1. TypeInv => TypeOK
  BY DEF TypeInv
<1>2. QED
  BY <1>1, TypeInvHolds, PTL

-----------------------------------------------------------------------------
(* The FAT in RAM and the FAT that is being or has been programmed are     *)
(* chains.                                                                 *)

IsLinked(f) == \E chain : Linked(f, chain)

LinkInv == TypeInv /\ IsLinked(fat) /\ IsLinked(flash_fat.fat)

\* The place of a cluster in use, and of the one it is linked to.
LEMMA Successor ==
  ASSUME NEW f \in FATs, NEW chain, Linked(f, chain), NEW c \in Clusters,
         f.cluster_table[c] \in Clusters
  PROVE  \E e \in Used(f) : \E i \in 1..FileBlocks(f, e) :
           /\ i + 1 \in 1..FileBlocks(f, e)
           /\ chain[e][i] = c /\ chain[e][i + 1] = f.cluster_table[c]
<1>1. PICK e \in Used(f) : \E i \in 1..FileBlocks(f, e) : chain[e][i] = c
  BY EndMark DEF Linked, Covers
<1>2. PICK i \in 1..FileBlocks(f, e) : chain[e][i] = c
  BY <1>1
<1>3. PICK n \in 1..FILE_ENTRY_COUNT : n = FileBlocks(f, e)
  BY ChainLength
<1>4. f.cluster_table[c] = IF i = n THEN FAT_END_CLUSTER ELSE chain[e][i + 1]
  BY <1>2, <1>3 DEF Linked, Runs
<1>5. i # n
  BY <1>4, EndMark
<1>6. i + 1 \in 1..n
  BY <1>3, <1>5
<1>7. QED
  BY <1>2, <1>3, <1>4, <1>5, <1>6

\* A cluster of a file is not free.
LEMMA InUse ==
  ASSUME NEW f \in FATs, NEW chain, Linked(f, chain), NEW e \in Used(f),
         NEW i \in 1..FileBlocks(f, e)
  PROVE  chain[e][i] \in Clusters /\ f.cluster_table[chain[e][i]] # 0
<1>1. PICK n \in 1..FILE_ENTRY_COUNT : n = FileBlocks(f, e)
  BY ChainLength
<1>2. /\ chain[e][i] \in Clusters
      /\ f.cluster_table[chain[e][i]] =
           IF i = n THEN FAT_END_CLUSTER ELSE chain[e][i + 1]
  BY <1>1 DEF Linked, Runs
<1>3. i # n => chain[e][i + 1] \in Clusters
  <2>1. i # n => i + 1 \in 1..n
    BY <1>1
  <2>2. QED
    BY <1>1, <2>1 DEF Linked, Runs
<1>4. QED
  BY <1>2, <1>3, EndMark

LEMMA LinkedSingleReference ==
  ASSUME NEW f \in FATs, NEW chain, Linked(f, chain)
  PROVE  SingleReference(f)
<1> DEFINE table == f.cluster_table
           First(e) == f.file_entries[e].first_cluster
<1>1. \A e \in Used(f) : First(e) = chain[e][1] /\ 1 \in 1..FileBlocks(f, e)
  <2>1. \A e \in Used(f) : FileBlocks(f, e) \in 1..FILE_ENTRY_COUNT
    BY ChainLength
  <2>2. QED
    BY <2>1, EndMark DEF Linked, Begins
<1>2. Apart(f, chain)
  BY DEF Linked
<1>3. \A e \in Used(f) : table[First(e)] # 0
  BY <1>1, InUse
<1>4. \A c \in Clusters : table[c] \in Clusters => table[table[c]] # 0
  <2>1. ASSUME NEW c \in Clusters, table[c] \in Clusters
        PROVE  table[table[c]] # 0
    <3>1. PICK e \in Used(f) : \E i \in 1..FileBlocks(f, e) :
            /\ i + 1 \in 1..FileBlocks(f, e)
            /\ chain[e][i] = c /\ chain[e][i + 1] = table[c]
      BY <2>1, Successor
    <3>2. QED
      BY <3>1, InUse
  <2>2. QED
    BY <2>1
<1>5. \A e, g \in Used(f) : First(e) = First(g) => e = g
  BY <1>1, <1>2 DEF Apart
<1>6. \A c, d \in Clusters : table[c] \in Clusters /\ table[c] = table[d] => c = d
  <2>1. ASSUME NEW c \in Clusters, NEW d \in Clusters,
               table[c] \in Clusters, table[c] = table[d]
        PROVE  c = d
    <3>1. PICK e \in Used(f) : \E i \in 1..FileBlocks(f, e) :
            /\ i + 1 \in 1..FileBlocks(f, e)
            /\ chain[e][i] = c /\ chain[e][i + 1] = table[c]
      BY <2>1, Successor
    <3>2. PICK i \in 1..FileBlocks(f, e) :
            /\ i + 1 \in 1..FileBlocks(f, e)
            /\ chain[e][i] = c /\ chain[e][i + 1] = table[c]
      BY <3>1
    <3>3. PICK g \in Used(f) : \E j \in 1..FileBlocks(f, g) :
            /\ j + 1 \in 1..FileBlocks(f, g)
            /\ chain[g][j] = d /\ chain[g][j + 1] = table[d]
      BY <2>1, Successor
    <3>4. PICK j \in 1..FileBlocks(f, g) :
            /\ j + 1 \in 1..FileBlocks(f, g)
            /\ chain[g][j] = d /\ chain[g][j + 1] = table[d]
      BY <3>3
    <3>5. chain[e][i + 1] = chain[g][j + 1]
      BY <2>1, <3>2, <3>4
    <3>6. e = g /\ i + 1 = j + 1
      BY <1>2, <3>2, <3>4, <3>5 DEF Apart
    <3>7. e = g /\ i = j
      BY <3>6
    <3>8. QED
      BY <3>2, <3>4, <3>7
  <2>2. QED
    BY <2>1
<1>7. \A e \in Used(f), c \in Clusters : First(e) # table[c]
  <2>1. ASSUME NEW e \in Used(f), NEW c \in Clusters, First(e) = table[c]
        PROVE  FALSE
    <3>1. table[c] \in Clusters
      BY <1>1, <2>1, InUse
    <3>2. PICK g \in Used(f) : \E i \in 1..FileBlocks(f, g) :
            /\ i + 1 \in 1..FileBlocks(f, g)
            /\ chain[g][i] = c /\ chain[g][i + 1] = table[c]
      BY <3>1, Successor
    <3>3. PICK i \in 1..FileBlocks(f, g) :
            i + 1 \in 1..FileBlocks(f, g) /\ chain[g][i + 1] = table[c]
      BY <3>2
    <3>4. chain[e][1] = chain[g][i + 1]
      BY <1>1, <2>1, <3>3
    <3>5. 1 = i + 1
      BY <1>1, <1>2, <3>3, <3>4 DEF Apart
    <3>6. QED
      BY <3>5
  <2>2. QED
    BY <2>1
<1>8. \A c \in Clusters : table[c] # 0 =>
        \/ \E e \in Used(f) : First(e) = c
        \/ \E d \in Clusters : table[d] = c
  <2>1. ASSUME NEW c \in Clusters, table[c] # 0
        PROVE  \/ \E e \in Used(f) : First(e) = c
               \/ \E d \in Clusters : table[d] = c
    <3>1. PICK e \in Used(f) : \E i \in 1..FileBlocks(f, e) : chain[e][i] = c
      BY <2>1 DEF Linked, Covers
    <3>2. PICK i \in 1..FileBlocks(f, e) : chain[e][i] = c
      BY <3>1
    <3>3. CASE i = 1
      BY <1>1, <3>2, <3>3
    <3>4. CASE i # 1
      <4>1. PICK n \in 1..FILE_ENTRY_COUNT : n = FileBlocks(f, e)
        BY ChainLength
      <4>2. i - 1 \in 1..n /\ i - 1 # n /\ (i - 1) + 1 = i
        BY <3>4, <4>1
      <4>3. chain[e][i - 1] \in Clusters
            /\ table[chain[e][i - 1]] = chain[e][(i - 1) + 1]
        BY <4>1, <4>2 DEF Linked, Runs
      <4>4. QED
        BY <3>2, <4>2, <4>3
    <3>5. QED
      BY <3>3, <3>4
  <2>2. QED
    BY <2>1
<1>9. QED
  BY <1>3, <1>4, <1>5, <1>6, <1>7, <1>8 DEF SingleReference

\* A FAT that FlashFSMount accepts is the whole of it.
LEMMA AcceptedWhole ==
  ASSUME NEW ff \in FlashFATs, IsLinked(ff.fat), ValidateFAT(Image(ff))
  PROVE  Image(ff) = ff.fat
<1>1. PICK f \in FATs : f = ff.fat
  BY DEF FlashFATs
<1>2. PICK k \in Programmed : k = ff.programmed
  BY DEF FlashFATs
<1>3. PICK chain : Linked(f, chain)
  BY <1>1 DEF IsLinked
<1>4. PICK torn : torn = Image(ff)
  OBVIOUS
<1>5. ValidateFAT(torn)
  BY <1>4
<1> DEFINE size == IF k = -1 THEN MAX_FREE_SIZE + 1 ELSE f.free_size
           table == [c \in Clusters |->
                       IF c <= k THEN f.cluster_table[c] ELSE FAT_END_CLUSTER]
<1>6. torn = [f EXCEPT !.free_size = size, !.cluster_table = table]
  BY <1>1, <1>2, <1>4 DEF Image
<1>7. torn.free_size = size /\ torn.cluster_table = table
      /\ torn.file_entries = f.file_entries
  <2> HIDE DEF size, table
  <2>1. QED
    BY <1>6 DEF FATs
<1>8. k # -1
  <2>1. MAX_FREE_SIZE \in Int
    BY FATAssumption, EndMark DEF MAX_FREE_SIZE
  <2>2. torn.free_size \in 0..MAX_FREE_SIZE
    BY <1>5 DEF ValidateFAT
  <2> HIDE DEF MAX_FREE_SIZE
  <2>3. QED
    BY <1>7, <2>1, <2>2
<1>9. size = f.free_size
  BY <1>8
<1>10. k \in Int
  BY EndMark DEF Programmed
<1>11. table = f.cluster_table
  <2>1. torn.cluster_table = f.cluster_table
    BY <1>3, <1>5, <1>7, <1>9, <1>10, TornTable
  <2>2. QED
    BY <1>7, <2>1
<1> HIDE DEF size, table
<1>12. torn = f
  BY <1>6, <1>9, <1>11 DEF FATs
<1>13. QED
  BY <1>1, <1>4, <1>12

LEMMA MountedWhole ==
  ASSUME flash_fat \in FlashFATs, IsLinked(flash_fat.fat), Mountable
  PROVE  Image(flash_fat) = flash_fat.fat
BY AcceptedWhole DEF Mountable

-----------------------------------------------------------------------------
(* The commands that edit the FAT.                                         *)

LEMMA LeastUnused ==
  ASSUME Used(fat) # Entries
  PROVE  Least(Entries \ Used(fat)) \in Entries \ Used(fat)
<1>1. Entries \ Used(fat) \subseteq Nat
  BY DEF Entries
<1>2. Entries \ Used(fat) # {}
  BY UsedEntries
<1>3. QED
  BY <1>1, <1>2, LeastIsLeast

LEMMA FoundOnly ==
  ASSUME NEW f, NEW n \in FileNames, NEW e \in Entries, Matching(f, n) = {e}
  PROVE  Found(f, n) /\ FileFind(f, n) = e
<1>1. Found(f, n)
  BY DEF Found
<1>2. QED
  BY <1>1, FileFindType

\* After FlashFSFileCreate the files are chains, and the new one is found
\* under its name, if that is a name FlashFSInternalFileFind accepts.
LEMMA CreateEdit ==
  ASSUME TypeInv, IsLinked(fat), NEW n \in UserNames, NEW contents, NEW source,
         NEW sync, NEW length \in 0..(SIZE_MOD - 1),
         FileCreate(n, contents, length, source, sync)
  PROVE  /\ IsLinked(fat')
         /\ n \in FileNames => Found(fat', n) /\
              /\ fat'.file_entries[FileFind(fat', n)].size = length
              /\ cmd' = Writing(fat', FileFind(fat', n), n, contents, source, sync)
         /\ length > 0
<1>1. PICK f \in FATs : f = fat
  BY DEF TypeInv, TypeOK
<1>2. PICK chain : Linked(f, chain)
  BY <1>1 DEF IsLinked
<1>3. PICK e \in Entries : e = Least(Entries \ Used(fat)) /\ e \notin Used(f)
  BY <1>1, LeastUnused DEF FileCreate, CanCreate
<1>4. PICK new : new = fat'
  OBVIOUS
<1>5. new = SetSize(BuildClusterList(SetName(f, e, n), e, length), e, length)
      /\ cmd' = Writing(new, e, n, contents, source, sync)
  BY <1>1, <1>3, <1>4 DEF FileCreate
<1>6. length \in 1..(SIZE_MOD - 1) /\ length <= f.free_size
  BY <1>1 DEF FileCreate, CanCreate, FATs
<1>7. /\ Used(new) = Used(f) \cup {e}
      /\ new.file_entries[e].size = length
      /\ new.file_entries[e].name = Stored(n)
      /\ \A x \in Entries \ {e} : new.file_entries[x] = f.file_entries[x]
      /\ \E c2 : Linked(new, c2) /\ \A x \in Entries \ {e} : c2[x] = chain[x]
  <2>1. n \in FileNames \cup BadNames
    BY DEF UserNames
  <2>2. e \notin Used(f) /\ length <= f.free_size
        /\ new = SetSize(BuildClusterList(SetName(f, e, n), e, length), e, length)
    BY <1>3, <1>5, <1>6
  <2>3. PICK k \in 1..(SIZE_MOD - 1) : k = length
    BY <1>6
  <2>5. k <= f.free_size /\ new = SetSize(BuildClusterList(SetName(f, e, n), e, k), e, k)
    BY <2>2, <2>3
  <2>6. /\ Used(new) = Used(f) \cup {e}
        /\ new.file_entries[e].size = k
        /\ new.file_entries[e].name = Stored(n)
        /\ \A x \in Entries \ {e} : new.file_entries[x] = f.file_entries[x]
        /\ \E c2 : Linked(new, c2) /\ \A x \in Entries \ {e} : c2[x] = chain[x]
    BY <1>2, <2>1, <2>2, <2>5, CreateIsLinked
  <2>7. QED
    BY <2>3, <2>6
<1>8. ASSUME n \in FileNames
      PROVE  Found(new, n) /\ FileFind(new, n) = e
  <2>1. Stored(n) = n
    BY <1>8, FATAssumption DEF Stored
  <2>2. Matching(f, n) = {}
    BY <1>1, <1>8 DEF FileCreate, CanCreate, Found
  <2>3. ASSUME NEW x \in Used(f), x # e PROVE new.file_entries[x].name # n
    <3>1. x \in Entries \ {e}
      BY <2>3, UsedEntries
    <3>2. QED
      BY <1>7, <2>2, <3>1 DEF Matching
  <2>4. Matching(new, n) = {e}
    BY <1>3, <1>7, <2>1, <2>3 DEF Matching
  <2>5. QED
    BY <1>8, <2>4, FoundOnly
<1>9. QED
  BY <1>4, <1>5, <1>6, <1>7, <1>8 DEF IsLinked

\* FlashFSFileWrite too.
LEMMA WriteEdit ==
  ASSUME TypeInv, IsLinked(fat), NEW n \in UserNames, NEW contents, NEW source,
         NEW length \in 0..(SIZE_MOD - 1), FileWrite(n, contents, length, source)
  PROVE  /\ IsLinked(fat')
         /\ Found(fat', n)
         /\ fat'.file_entries[FileFind(fat', n)].size = length
         /\ cmd' = Writing(fat', FileFind(fat', n), n, contents, source, FALSE)
         /\ length > 0
<1>1. PICK f \in FATs : f = fat
  BY DEF TypeInv, TypeOK
<1>2. PICK chain : Linked(f, chain)
  BY <1>1 DEF IsLinked
<1>3. PICK e : e = FileFind(f, n)
  OBVIOUS
<1>4. e \in Used(f) /\ Found(f, n)
  BY <1>1, <1>3, FileFindType DEF FileWrite, Matching
<1>5. PICK new : new = fat'
  OBVIOUS
<1>6. new = SetSize(UpdateClusterList(f, e, length), e, length)
      /\ cmd' = Writing(new, e, n, contents, source, FALSE)
  BY <1>1, <1>3, <1>5 DEF FileWrite
<1>7. length \in 1..(SIZE_MOD - 1) /\ CanGrow(f, e, length)
  BY <1>1, <1>3 DEF FileWrite
<1>8. /\ Used(new) = Used(f)
      /\ new.file_entries[e].size = length
      /\ new.file_entries[e].name = f.file_entries[e].name
      /\ \A x \in Entries \ {e} : new.file_entries[x] = f.file_entries[x]
      /\ \E c2 : Linked(new, c2) /\ \A x \in Entries \ {e} : c2[x] = chain[x]
  BY <1>2, <1>4, <1>6, <1>7, UpdateIsLinked
<1>9. Matching(new, n) = Matching(f, n)
  BY <1>8, UsedEntries DEF Matching
<1>10. FileFind(new, n) = e /\ Found(new, n)
  BY <1>3, <1>4, <1>9 DEF FileFind, Found
<1>11. QED
  BY <1>5, <1>6, <1>7, <1>8, <1>10 DEF IsLinked

LEMMA DeleteEdit ==
  ASSUME TypeInv, IsLinked(fat), NEW n \in UserNames, Delete(n)
  PROVE  IsLinked(fat') /\ cmd' \in {Idle, Syncing}
<1>1. PICK chain : Linked(fat, chain)
  BY DEF IsLinked
<1>2. FileFind(fat, n) \in Used(fat)
  BY FileFindType DEF Delete, Matching
<1>3. fat' = DeleteFile(fat, FileFind(fat, n))
  BY DEF Delete
<1>4. Linked(DeleteFile(fat, FileFind(fat, n)), chain)
  BY <1>1, <1>2, DeleteIsLinked DEF TypeInv, TypeOK
<1>5. QED
  BY <1>3, <1>4 DEF IsLinked, Delete

LEMMA RenameEdit ==
  ASSUME TypeInv, IsLinked(fat), NEW n \in UserNames, NEW m \in UserNames, Rename(n, m)
  PROVE  IsLinked(fat') /\ cmd' \in {Idle, Syncing}
<1>1. PICK chain : Linked(fat, chain)
  BY DEF IsLinked
<1>2. FileFind(fat, n) \in Entries
  BY FileFindType DEF Rename
<1>3. fat' = SetName(fat, FileFind(fat, n), m)
  BY DEF Rename
<1>4. Linked(SetName(fat, FileFind(fat, n), m), chain)
  BY <1>1, <1>2, SetNameIsLinked DEF TypeInv, TypeOK
<1>5. QED
  BY <1>3, <1>4 DEF IsLinked, Rename

-----------------------------------------------------------------------------
(* The blocks of a file that have been written.                            *)

\* The command's buffer is as long as the file: "cp -f" keeps the length the
\* file had.
Whole(c) == c.source = NoName \/ c.always_sync

\* Under the FAT f, with c the command and fl the flash: the ith block of the
\* file is next, and the ones before it hold what they should.
Progress(f, fl, c) ==
  /\ Found(f, c.name)
  /\ LET e == FileFind(f, c.name)
         n == FileBlocks(f, e)
         i == n - Blocks(c.left) + 1
     IN /\ Whole(c) => Len(c.contents) = n
        /\ i \in 1..n
        /\ c.part = i
        /\ c.cluster = FileWalk(f, e)[i - 1]
        /\ \A j \in 1..n : j < i => fl[FileWalk(f, e)[j - 1]] = BufferPart(c, j)

\* All of them do.
Complete(f, fl, c) ==
  /\ Found(f, c.name)
  /\ LET e == FileFind(f, c.name)
         n == FileBlocks(f, e)
     IN /\ Whole(c) => Len(c.contents) = n
        /\ \A j \in 1..n : fl[FileWalk(f, e)[j - 1]] = BufferPart(c, j)

Naming(c) == c.name \in FileNames

WriteInv ==
  /\ cmd.phase # "idle" => mounted
  /\ cmd.phase \in {"erase", "program"} /\ Naming(cmd) => Progress(fat, flash, cmd)
  /\ cmd.phase \in {"sync_erase", "sync_program"} /\ Naming(cmd)
       => Complete(fat, flash, cmd)

FSInv == LinkInv /\ WriteInv

\* FlashFSInternalWrite starts at the first cluster.
LEMMA ProgressBegins ==
  ASSUME NEW f \in FATs, IsLinked(f), NEW n, Found(f, n),
         NEW contents, NEW source, NEW sync, NEW fl,
         f.file_entries[FileFind(f, n)].size > 0,
         (source = NoName \/ sync) => Len(contents) = FileBlocks(f, FileFind(f, n))
  PROVE  Progress(f, fl, Writing(f, FileFind(f, n), n, contents, source, sync))
<1>1. PICK e : e = FileFind(f, n)
  OBVIOUS
<1>2. e \in Used(f)
  BY <1>1, FileFindType DEF Matching
<1>3. PICK chain : Linked(f, chain)
  BY DEF IsLinked
<1>4. PICK k \in 1..FILE_ENTRY_COUNT : k = FileBlocks(f, e)
  BY <1>2, <1>3, ChainLength
<1>5. PICK c : c = Writing(f, e, n, contents, source, sync)
  OBVIOUS
<1>6. /\ c.name = n /\ c.contents = contents /\ c.source = source
      /\ c.always_sync = sync /\ c.part = 1
      /\ c.cluster = f.file_entries[e].first_cluster
      /\ c.left = f.file_entries[e].size
  BY <1>5 DEF Writing
<1>7. k - Blocks(c.left) + 1 = 1
  BY <1>4, <1>6 DEF FileBlocks
<1>8. FileWalk(f, e)[1 - 1] = c.cluster
  BY <1>6, WalkUnfold DEF FileWalk
<1>9. Progress(f, fl, c)
  BY <1>1, <1>4, <1>6, <1>7, <1>8 DEF Progress, Whole
<1>10. QED
  BY <1>1, <1>5, <1>9

\* It goes on along the chain, and has written all of the file at its end.
LEMMA ProgressStep ==
  ASSUME NEW f \in FATs, IsLinked(f), NEW c \in Commands, NEW fl \in [Clusters -> Tokens],
         c.left > 0, Progress(f, fl, c), NEW fl2,
         fl2 = [fl EXCEPT ![c.cluster] = BufferPart(c, c.part)]
  PROVE  /\ c.left > ERASE_SIZE =>
              Progress(f, fl2,
                [c EXCEPT !.phase = "erase", !.left = @ - ERASE_SIZE,
                          !.part = @ + 1,
                          !.cluster = NextCluster(f.cluster_table, @)])
         /\ ~(c.left > ERASE_SIZE) =>
              Complete(f, fl2, [c EXCEPT !.phase = "sync_erase", !.left = 0])
<1>1. PICK e : e = FileFind(f, c.name)
  OBVIOUS
<1>2. e \in Used(f) /\ Found(f, c.name)
  BY <1>1, FileFindType DEF Matching, Progress
<1>3. PICK chain : Linked(f, chain)
  BY DEF IsLinked
<1>4. PICK n \in 1..FILE_ENTRY_COUNT : n = FileBlocks(f, e)
  BY <1>2, <1>3, ChainLength
<1>5. PICK w : w = FileWalk(f, e)
  OBVIOUS
<1>6. c.left \in Nat /\ Blocks(c.left) \in Nat
  <2>1. c.left \in Nat
    BY DEF Commands
  <2>2. QED
    BY <2>1, BlocksCeiling
<1>7. PICK b \in Nat : b = Blocks(c.left)
  BY <1>6
<1>8. PICK i \in Int : i = n - b + 1
  OBVIOUS
<1>9. /\ Whole(c) => Len(c.contents) = n
      /\ i \in 1..n /\ c.part = i /\ c.cluster = w[i - 1]
      /\ \A j \in 1..n : j < i => fl[w[j - 1]] = BufferPart(c, j)
  <2>1. n - Blocks(c.left) + 1 = i
    BY <1>7, <1>8
  <2>2. QED
    BY <1>1, <1>4, <1>5, <2>1 DEF Progress
<1>10. \A j \in 1..n : w[j - 1] = chain[e][j] /\ w[j - 1] \in Clusters
  <2>1. ASSUME NEW j \in 1..n PROVE w[j - 1] = chain[e][j] /\ w[j - 1] \in Clusters
    <3>1. j - 1 \in 0..(n - 1) /\ (j - 1) + 1 = j
      OBVIOUS
    <3>2. w[j - 1] = chain[e][j]
      BY <1>2, <1>3, <1>4, <1>5, <3>1, WalkFollows
    <3>3. chain[e][j] \in Clusters
      BY <1>2, <1>3, <1>4 DEF Linked, Runs
    <3>4. QED
      BY <3>2, <3>3
  <2>2. QED
    BY <2>1
<1>11. \A j \in 1..n : j # i => w[j - 1] # w[i - 1]
  <2>1. \A j \in 1..n : chain[e][j] = chain[e][i] => j = i
    BY <1>2, <1>3, <1>4, <1>9 DEF Linked, Apart
  <2>2. QED
    BY <1>9, <1>10, <2>1
<1>12. \A j \in 1..n : j <= i => fl2[w[j - 1]] = BufferPart(c, j)
  <2>1. fl2 = [fl EXCEPT ![w[i - 1]] = BufferPart(c, i)]
    BY <1>9
  <2>2. ASSUME NEW j \in 1..n, j <= i PROVE fl2[w[j - 1]] = BufferPart(c, j)
    <3>1. CASE j = i
      BY <1>10, <2>1, <3>1
    <3>2. CASE j # i
      <4>1. j < i
        BY <1>9, <2>2, <3>2
      <4>2. fl2[w[j - 1]] = fl[w[j - 1]]
        BY <1>10, <1>11, <2>1, <3>2
      <4>3. QED
        BY <1>9, <4>1, <4>2
    <3>3. QED
      BY <3>1, <3>2
  <2>3. QED
    BY <2>2
<1>13. ASSUME c.left > ERASE_SIZE
       PROVE  Progress(f, fl2,
                [c EXCEPT !.phase = "erase", !.left = @ - ERASE_SIZE,
                          !.part = @ + 1,
                          !.cluster = NextCluster(f.cluster_table, @)])
  <2>1. PICK d : d = [c EXCEPT !.phase = "erase", !.left = @ - ERASE_SIZE,
                               !.part = @ + 1,
                               !.cluster = NextCluster(f.cluster_table, @)]
    OBVIOUS
  <2>2. /\ d.name = c.name /\ d.contents = c.contents /\ d.left = c.left - ERASE_SIZE
        /\ d.source = c.source /\ d.always_sync = c.always_sync
        /\ d.part = c.part + 1
        /\ d.cluster = NextCluster(f.cluster_table, c.cluster)
    BY <2>1 DEF Commands
  <2>3. Blocks(d.left) = b - 1
    BY <1>6, <1>7, <1>13, <2>2, BlocksStep
  <2>4. b > 1
    <3>1. d.left \in Nat /\ d.left > 0
      BY <1>6, <1>13, <2>2, FATAssumption
    <3>2. QED
      BY <2>3, <3>1, BlocksCeiling
  <2>5. n - Blocks(d.left) + 1 = i + 1 /\ i + 1 \in 1..n
    BY <1>8, <1>9, <2>3, <2>4
  <2>6. d.cluster = w[i]
    <3>1. i \in 1..FILE_ENTRY_COUNT
      <4>1. i \in 1..n
        BY <1>9
      <4>2. QED
        BY <4>1, EndMark
    <3>2. w[i] = NextCluster(f.cluster_table, w[i - 1])
      BY <1>5, <3>1, WalkUnfold DEF FileWalk
    <3>3. QED
      BY <1>9, <2>2, <3>2
  <2>7. (i + 1) - 1 = i /\ \A j \in 1..n : j < i + 1 => j <= i
    OBVIOUS
  <2>8. Progress(f, fl2, d)
    <3>1. \A j : BufferPart(d, j) = BufferPart(c, j)
      BY <2>2 DEF BufferPart
    <3>2. Whole(d) => Len(d.contents) = n
      BY <1>9, <2>2 DEF Whole
    <3>3. \A j \in 1..n : j < i + 1 => fl2[w[j - 1]] = BufferPart(d, j)
      BY <1>12, <2>7, <3>1
    <3>4. d.part = i + 1 /\ d.cluster = w[(i + 1) - 1]
      BY <1>9, <2>2, <2>6, <2>7
    <3>5. QED
      BY <1>1, <1>2, <1>4, <1>5, <2>2, <2>5, <3>2, <3>3, <3>4 DEF Progress
  <2>9. QED
    BY <2>1, <2>8
<1>14. ASSUME ~(c.left > ERASE_SIZE)
       PROVE  Complete(f, fl2, [c EXCEPT !.phase = "sync_erase", !.left = 0])
  <2>1. PICK d : d = [c EXCEPT !.phase = "sync_erase", !.left = 0]
    OBVIOUS
  <2>2. /\ d.name = c.name /\ d.contents = c.contents
        /\ d.source = c.source /\ d.always_sync = c.always_sync
    BY <2>1 DEF Commands
  <2>3. b = 1
    <3>1. /\ c.left <= ERASE_SIZE * 1 /\ ERASE_SIZE * (1 - 1) < c.left
      BY <1>6, <1>14, FATAssumption
    <3>2. QED
      BY <1>6, <1>7, <3>1, BlocksDetermined
  <2>4. \A j \in 1..n : j <= i
    BY <1>8, <2>3
  <2>5. \A j \in 1..n : fl2[w[j - 1]] = BufferPart(c, j)
    BY <1>12, <2>4
  <2>6. Complete(f, fl2, d)
    <3>1. \A j : BufferPart(d, j) = BufferPart(c, j)
      BY <2>2 DEF BufferPart
    <3>2. Whole(d) => Len(d.contents) = n
      BY <1>9, <2>2 DEF Whole
    <3>3. QED
      BY <1>1, <1>2, <1>4, <1>5, <2>2, <2>5, <3>1, <3>2 DEF Complete
  <2>7. QED
    BY <2>1, <2>6
<1>15. QED
  BY <1>13, <1>14

\* Erasing the block that is next takes nothing back.
LEMMA EraseProgress ==
  ASSUME NEW f \in FATs, IsLinked(f), NEW c \in Commands, NEW fl \in [Clusters -> Tokens],
         Progress(f, fl, c)
  PROVE  Progress(f, [fl EXCEPT ![c.cluster] = Blank], [c EXCEPT !.phase = "program"])
<1>1. PICK e : e = FileFind(f, c.name)
  OBVIOUS
<1>2. e \in Used(f) /\ Found(f, c.name)
  BY <1>1, FileFindType DEF Matching, Progress
<1>3. PICK chain : Linked(f, chain)
  BY DEF IsLinked
<1>4. PICK n \in 1..FILE_ENTRY_COUNT : n = FileBlocks(f, e)
  BY <1>2, <1>3, ChainLength
<1>5. PICK w : w = FileWalk(f, e)
  OBVIOUS
<1>6. PICK i : i = n - Blocks(c.left) + 1
  OBVIOUS
<1>7. /\ Whole(c) => Len(c.contents) = n
      /\ i \in 1..n /\ c.part = i /\ c.cluster = w[i - 1]
      /\ \A j \in 1..n : j < i => fl[w[j - 1]] = BufferPart(c, j)
  BY <1>1, <1>4, <1>5, <1>6 DEF Progress
<1>8. \A j \in 1..n : w[j - 1] = chain[e][j] /\ w[j - 1] \in Clusters
  <2>1. ASSUME NEW j \in 1..n PROVE w[j - 1] = chain[e][j] /\ w[j - 1] \in Clusters
    <3>1. j - 1 \in 0..(n - 1) /\ (j - 1) + 1 = j
      OBVIOUS
    <3>2. w[j - 1] = chain[e][j]
      BY <1>2, <1>3, <1>4, <1>5, <3>1, WalkFollows
    <3>3. chain[e][j] \in Clusters
      BY <1>2, <1>3, <1>4 DEF Linked, Runs
    <3>4. QED
      BY <3>2, <3>3
  <2>2. QED
    BY <2>1
<1>9. PICK fl2 : fl2 = [fl EXCEPT ![c.cluster] = Blank]
  OBVIOUS
<1>10. ASSUME NEW j \in 1..n, j < i PROVE fl2[w[j - 1]] = BufferPart(c, j)
  <2>1. chain[e][j] # chain[e][i]
    <3>1. chain[e][j] = chain[e][i] => j = i
      BY <1>2, <1>3, <1>4, <1>7 DEF Linked, Apart
    <3>2. QED
      BY <1>7, <1>10, <3>1
  <2>2. w[j - 1] # c.cluster
    BY <1>7, <1>8, <2>1
  <2>3. QED
    BY <1>7, <1>8, <1>9, <1>10, <2>2
<1>11. PICK d : d = [c EXCEPT !.phase = "program"]
  OBVIOUS
<1>12. /\ d.name = c.name /\ d.contents = c.contents /\ d.left = c.left
       /\ d.cluster = c.cluster /\ d.part = c.part
       /\ d.source = c.source /\ d.always_sync = c.always_sync
  BY <1>11 DEF Commands
<1>13. Progress(f, fl2, d)
  <2>1. \A j : BufferPart(d, j) = BufferPart(c, j)
    BY <1>12 DEF BufferPart
  <2>2. Whole(d) => Len(d.contents) = n
    BY <1>7, <1>12 DEF Whole
  <2>3. QED
    BY <1>1, <1>2, <1>4, <1>5, <1>6, <1>7, <1>10, <1>12, <2>1, <2>2 DEF Progress
<1>14. QED
  BY <1>9, <1>11, <1>13

-----------------------------------------------------------------------------
(* One step.                                                               *)

LEMMA UnnamedCommands ==
  /\ ~Naming(Idle) /\ ~Naming(Syncing)
  /\ ~Naming([Syncing EXCEPT !.unmount = TRUE])
  /\ ~Naming([Idle EXCEPT !.phase = "free"])
BY FATAssumption DEF Naming, Idle, Syncing

LEMMA UnnamedInv ==
  ASSUME ~Naming(cmd'), cmd'.phase # "idle" => mounted'
  PROVE  WriteInv'
<1>1. ~Naming(cmd)'
  BY DEF Naming
<1>2. QED
  BY <1>1 DEF WriteInv

LEMMA CreateInv ==
  ASSUME FSInv, TypeInv', mounted, NEW n \in UserNames, NEW contents, NEW source,
         NEW sync, NEW length \in 0..(SIZE_MOD - 1), Len(contents) = Blocks(length),
         FileCreate(n, contents, length, source, sync)
  PROVE  IsLinked(fat') /\ WriteInv'
<1>1. TypeInv /\ IsLinked(fat)
  BY DEF FSInv, LinkInv
<1>2. /\ IsLinked(fat')
      /\ n \in FileNames => Found(fat', n) /\
           /\ fat'.file_entries[FileFind(fat', n)].size = length
           /\ cmd' = Writing(fat', FileFind(fat', n), n, contents, source, sync)
      /\ length > 0
  BY <1>1, CreateEdit
<1>3. mounted' /\ cmd'.name = n
  BY DEF FileCreate, Writing
<1>4. CASE n \notin FileNames
  BY <1>2, <1>3, <1>4, UnnamedInv DEF Naming
<1>5. CASE n \in FileNames
  <2>1. PICK g, fl, c : g \in FATs /\ g = fat' /\ fl = flash' /\ c = cmd'
    BY DEF TypeInv, TypeOK
  <2>2. /\ IsLinked(g) /\ Found(g, n) /\ g.file_entries[FileFind(g, n)].size = length
        /\ c = Writing(g, FileFind(g, n), n, contents, source, sync)
    BY <1>2, <1>5, <2>1
  <2>3. g.file_entries[FileFind(g, n)].size > 0
        /\ Len(contents) = FileBlocks(g, FileFind(g, n))
    BY <1>2, <2>2 DEF FileBlocks
  <2>4. Progress(g, fl, c)
    BY <2>1, <2>2, <2>3, ProgressBegins
  <2>5. c.phase = "erase"
    BY <2>2, <2>3 DEF Writing
  <2>6. QED
    BY <1>2, <1>3, <2>1, <2>4, <2>5 DEF WriteInv
<1>6. QED
  BY <1>4, <1>5

LEMMA WriteCommandInv ==
  ASSUME FSInv, TypeInv', mounted, NEW n \in UserNames, NEW contents, NEW source,
         NEW length \in 0..(SIZE_MOD - 1),
         source = NoName => Len(contents) = Blocks(length),
         FileWrite(n, contents, length, source)
  PROVE  IsLinked(fat') /\ WriteInv'
<1>1. TypeInv /\ IsLinked(fat)
  BY DEF FSInv, LinkInv
<1>2. /\ IsLinked(fat')
      /\ Found(fat', n)
      /\ fat'.file_entries[FileFind(fat', n)].size = length
      /\ cmd' = Writing(fat', FileFind(fat', n), n, contents, source, FALSE)
      /\ length > 0
  BY <1>1, WriteEdit
<1>3. mounted'
  BY DEF FileWrite
<1>4. PICK g, fl, c : g \in FATs /\ g = fat' /\ fl = flash' /\ c = cmd'
  BY DEF TypeInv, TypeOK
<1>5. /\ IsLinked(g) /\ Found(g, n) /\ g.file_entries[FileFind(g, n)].size = length
      /\ c = Writing(g, FileFind(g, n), n, contents, source, FALSE)
  BY <1>2, <1>4
<1>6. /\ g.file_entries[FileFind(g, n)].size > 0
      /\ source = NoName => Len(contents) = FileBlocks(g, FileFind(g, n))
  BY <1>2, <1>5 DEF FileBlocks
<1>7. Progress(g, fl, c)
  BY <1>4, <1>5, <1>6, ProgressBegins
<1>8. c.phase = "erase"
  BY <1>5, <1>6 DEF Writing
<1>9. QED
  BY <1>2, <1>3, <1>4, <1>7, <1>8 DEF WriteInv

LEMMA CopyInv ==
  ASSUME FSInv, TypeInv', NEW n \in UserNames, NEW m \in UserNames,
         CopyToNew(n, m) \/ CopyOver(n, m)
  PROVE  IsLinked(fat') /\ WriteInv' /\ flash_fat' = flash_fat
<1>1. TypeInv /\ mounted
  BY DEF FSInv, LinkInv, CopyToNew, CopyOver, Ready
<1>2. CASE CopyToNew(n, m)
  <2>1. PICK from : from = ReadFile(fat, n)
    OBVIOUS
  <2>2. from.size \in 0..(SIZE_MOD - 1) /\ Len(from.blocks) = Blocks(from.size)
    BY <1>1, <1>2, <2>1, ReadFileType DEF CopyToNew, TypeInv
  <2>3. CASE FileCreate(m, from.blocks, from.size, n, TRUE)
    <3>1. PICK k \in 0..(SIZE_MOD - 1) : k = from.size
      BY <2>2
    <3>2. FileCreate(m, from.blocks, k, n, TRUE) /\ Len(from.blocks) = Blocks(k)
      BY <2>2, <2>3, <3>1
    <3>3. IsLinked(fat') /\ WriteInv'
      BY <1>1, <3>2, CreateInv
    <3>4. QED
      BY <2>3, <3>3 DEF FileCreate
  <2>4. CASE /\ cmd' = Syncing
             /\ UNCHANGED <<mounted, fat, flash, flash_fat, dirty, faults>>
    <3>1. ~Naming(cmd') /\ mounted'
      BY <1>1, <2>4, UnnamedCommands
    <3>2. QED
      BY <2>4, <3>1, UnnamedInv DEF FSInv, LinkInv
  <2>5. QED
    BY <1>2, <2>1, <2>3, <2>4 DEF CopyToNew
<1>3. CASE CopyOver(n, m)
  <2>1. PICK from : from = ReadFile(fat, n)
    OBVIOUS
  <2>2. PICK length \in 0..(SIZE_MOD - 1) : length = ReadFile(fat, m).size
    BY <1>1, <1>3, ReadFileType DEF CopyOver, FileWrite, TypeInv
  <2>3. FileWrite(m, CopyBuffer(from, length), length, n)
    BY <1>3, <2>1, <2>2 DEF CopyOver, CopyBuffer
  <2>4. n # NoName
    BY <1>3, FATAssumption DEF CopyOver, Found
  <2>5. IsLinked(fat') /\ WriteInv'
    BY <1>1, <2>3, <2>4, WriteCommandInv
  <2>6. QED
    BY <2>3, <2>5 DEF FileWrite
<1>4. QED
  BY <1>2, <1>3

LEMMA EraseBlockInv ==
  ASSUME FSInv, EraseBlock
  PROVE  WriteInv'
<1>1. /\ IsLinked(fat) /\ fat \in FATs /\ cmd \in Commands
      /\ flash \in [Clusters -> Tokens] /\ mounted
      /\ Naming(cmd) => Progress(fat, flash, cmd)
  BY DEF FSInv, LinkInv, WriteInv, TypeInv, TypeOK, EraseBlock
<1>2. CASE /\ flash' = [flash EXCEPT ![cmd.cluster] = Blank]
           /\ cmd' = [cmd EXCEPT !.phase = "program"]
  <2>1. cmd'.phase = "program" /\ cmd'.name = cmd.name
    BY <1>1, <1>2 DEF Commands
  <2>2. Naming(cmd) => Progress(fat, flash', cmd')
    BY <1>1, <1>2, EraseProgress
  <2>3. QED
    BY <1>1, <2>1, <2>2 DEF WriteInv, Naming, EraseBlock
<1>3. CASE WriteFails
  <2>1. ~Naming(cmd') /\ mounted'
    BY <1>1, <1>3, UnnamedCommands DEF WriteFails, EraseBlock
  <2>2. QED
    BY <2>1, UnnamedInv
<1>4. QED
  BY <1>2, <1>3 DEF EraseBlock

LEMMA ProgramBlockInv ==
  ASSUME FSInv, ProgramBlock
  PROVE  WriteInv'
<1>1. /\ IsLinked(fat) /\ fat \in FATs /\ cmd \in Commands
      /\ flash \in [Clusters -> Tokens] /\ mounted /\ cmd.left > 0
      /\ Naming(cmd) => Progress(fat, flash, cmd)
  BY DEF FSInv, LinkInv, WriteInv, TypeInv, TypeOK, BlocksLeft, ProgramBlock
<1>2. PICK fl2 : fl2 = flash'
  OBVIOUS
<1>3. CASE /\ fl2 = [flash EXCEPT ![cmd.cluster] = BufferPart(cmd, cmd.part)]
           /\ cmd' = IF cmd.left > ERASE_SIZE
                     THEN [cmd EXCEPT !.phase = "erase",
                                      !.left = @ - ERASE_SIZE,
                                      !.part = @ + 1,
                                      !.cluster = NextCluster(fat.cluster_table, @)]
                     ELSE [cmd EXCEPT !.phase = "sync_erase", !.left = 0]
  <2>1. CASE cmd.left > ERASE_SIZE
    <3>1. cmd' = [cmd EXCEPT !.phase = "erase", !.left = @ - ERASE_SIZE,
                             !.part = @ + 1,
                             !.cluster = NextCluster(fat.cluster_table, @)]
      BY <1>3, <2>1
    <3>2. cmd'.phase = "erase" /\ cmd'.name = cmd.name
      BY <1>1, <3>1 DEF Commands
    <3>3. Naming(cmd) => Progress(fat, flash', cmd')
      <4>1. Naming(cmd) => Progress(fat, fl2,
              [cmd EXCEPT !.phase = "erase", !.left = @ - ERASE_SIZE,
                          !.part = @ + 1,
                          !.cluster = NextCluster(fat.cluster_table, @)])
        BY <1>1, <1>3, <2>1, ProgressStep
      <4>2. QED
        BY <1>2, <3>1, <4>1
    <3>4. QED
      BY <1>1, <3>2, <3>3 DEF WriteInv, Naming, ProgramBlock
  <2>2. CASE ~(cmd.left > ERASE_SIZE)
    <3>1. cmd' = [cmd EXCEPT !.phase = "sync_erase", !.left = 0]
      BY <1>3, <2>2
    <3>2. cmd'.phase = "sync_erase" /\ cmd'.name = cmd.name
      BY <1>1, <3>1 DEF Commands
    <3>3. Naming(cmd) => Complete(fat, flash', cmd')
      <4>1. Naming(cmd) =>
              Complete(fat, fl2, [cmd EXCEPT !.phase = "sync_erase", !.left = 0])
        BY <1>1, <1>3, <2>2, ProgressStep
      <4>2. QED
        BY <1>2, <3>1, <4>1
    <3>4. QED
      BY <1>1, <3>2, <3>3 DEF WriteInv, Naming, ProgramBlock
  <2>3. QED
    BY <2>1, <2>2
<1>4. CASE WriteFails
  <2>1. ~Naming(cmd') /\ mounted'
    BY <1>1, <1>4, UnnamedCommands DEF WriteFails, ProgramBlock
  <2>2. QED
    BY <2>1, UnnamedInv
<1>5. QED
  BY <1>2, <1>3, <1>4 DEF ProgramBlock

LEMMA SyncInv ==
  ASSUME FSInv, SyncErase \/ SyncProgram
  PROVE  WriteInv' /\ IsLinked(fat') /\ IsLinked(flash_fat'.fat)
<1>1. /\ IsLinked(fat) /\ IsLinked(flash_fat.fat) /\ cmd \in Commands /\ mounted
      /\ fat' = fat /\ mounted' = mounted /\ flash' = flash
      /\ Naming(cmd) => Complete(fat, flash, cmd)
  BY DEF FSInv, LinkInv, WriteInv, TypeInv, TypeOK, SyncErase, SyncProgram
<1>2. IsLinked(Erased.fat) /\ \A k \in Programmed : IsLinked(ProgrammedTo(k).fat)
  <2>1. IsLinked(FormattedFAT)
    BY FormattedIsLinked DEF IsLinked
  <2>2. Erased.fat = FormattedFAT
    BY DEF Erased
  <2>3. \A k \in Programmed : ProgrammedTo(k).fat = FormattedFAT \/ ProgrammedTo(k).fat = fat
    BY <2>2 DEF ProgrammedTo
  <2>4. QED
    BY <1>1, <2>1, <2>2, <2>3
<1>3. SyncDone => WriteInv'
  <2>1. SyncDone => ~Naming(cmd')
    BY UnnamedCommands DEF SyncDone
  <2>2. QED
    BY <1>1, <2>1, UnnamedInv
<1>4. CASE SyncErase
  <2>1. flash_fat' \in {flash_fat, Erased}
    BY <1>4 DEF SyncErase
  <2>2. CASE cmd' = [cmd EXCEPT !.phase = "sync_program"]
    <3>1. /\ cmd'.phase = "sync_program" /\ cmd'.name = cmd.name
          /\ cmd'.contents = cmd.contents /\ cmd'.source = cmd.source
          /\ cmd'.always_sync = cmd.always_sync
      BY <1>1, <2>2 DEF Commands
    <3>2. WriteInv'
      BY <1>1, <3>1 DEF WriteInv, Naming, Complete, Whole, BufferPart
    <3>3. QED
      BY <1>1, <1>2, <2>1, <3>2
  <2>3. CASE SyncDone
    BY <1>1, <1>2, <1>3, <2>1, <2>3
  <2>4. QED
    BY <1>4, <2>2, <2>3 DEF SyncErase
<1>5. CASE SyncProgram
  <2>1. \E k \in Programmed : flash_fat' = ProgrammedTo(k)
    <3>1. FILE_ENTRY_COUNT \in Programmed
      BY EndMark DEF Programmed
    <3>2. QED
      BY <1>5, <3>1 DEF SyncProgram
  <2>2. SyncDone
    BY <1>5 DEF SyncProgram
  <2>3. QED
    BY <1>1, <1>2, <1>3, <2>1, <2>2
<1>6. QED
  BY <1>4, <1>5

LEMMA ForgetInv ==
  ASSUME FSInv, FreeFAT \/ PowerLoss
  PROVE  WriteInv' /\ IsLinked(fat') /\ IsLinked(flash_fat'.fat)
<1>1. IsLinked(fat) /\ IsLinked(flash_fat.fat)
  BY DEF FSInv, LinkInv
<1>2. IsLinked(FormattedFAT)
  BY FormattedIsLinked DEF IsLinked
<1>3. cmd' = Idle /\ fat' = FormattedFAT
  BY DEF FreeFAT, PowerLoss, Forget
<1>4. WriteInv'
  BY <1>3, UnnamedCommands, UnnamedInv, IdlePhase
<1>5. flash_fat'.fat \in {flash_fat.fat, fat, FormattedFAT}
  <2>1. flash_fat' = flash_fat \/ \E k \in Programmed : flash_fat' = ProgrammedTo(k)
    BY DEF FreeFAT, PowerLoss
  <2>2. QED
    BY <2>1 DEF ProgrammedTo, Erased
<1>6. QED
  BY <1>1, <1>2, <1>3, <1>4, <1>5

-----------------------------------------------------------------------------
(* The invariant.                                                          *)

LEMMA InitFSInv == Init => FSInv
<1>1. SUFFICES ASSUME Init PROVE FSInv
  OBVIOUS
<1>2. TypeInv
  BY <1>1, InitTypeInv
<1>3. IsLinked(fat) /\ IsLinked(flash_fat.fat)
  BY <1>1, FormattedIsLinked DEF Init, Erased, IsLinked
<1>4. WriteInv
  BY <1>1, UnnamedCommands, IdlePhase DEF Init, WriteInv
<1>5. QED
  BY <1>2, <1>3, <1>4 DEF FSInv, LinkInv

LEMMA NextFSInv == FSInv /\ [Next]_vars => FSInv'
<1>1. SUFFICES ASSUME FSInv, [Next]_vars PROVE FSInv'
  OBVIOUS
<1> DEFINE Holds == IsLinked(fat') /\ IsLinked(flash_fat'.fat) /\ WriteInv'
<1>2. /\ TypeInv /\ TypeInv' /\ IsLinked(fat) /\ IsLinked(flash_fat.fat) /\ WriteInv
  BY <1>1, NextTypeInv DEF FSInv, LinkInv
<1>2a. SUFFICES Holds
  BY <1>2 DEF FSInv, LinkInv
<1>3. ASSUME NEW n \in UserNames, NEW v \in Values, NEW length \in Lengths,
             Create(n, v, length) \/ Write(n, v, length)
      PROVE  Holds
  <2>1. length \in 0..(SIZE_MOD - 1) /\ length \in Nat
    BY FlashFSAssumption
  <2>2. Len(Parts(v, length)) = Blocks(length)
    BY <2>1, PartsType
  <2>3. mounted /\ flash_fat' = flash_fat
    BY <1>3 DEF Create, Write, Ready, FileCreate, FileWrite
  <2>4. IsLinked(fat') /\ WriteInv'
    BY <1>1, <1>2, <1>3, <2>1, <2>2, <2>3, CreateInv, WriteCommandInv DEF Create, Write
  <2>5. QED
    BY <1>2, <2>3, <2>4
<1>4. ASSUME NEW n \in UserNames, NEW m \in UserNames, CopyToNew(n, m) \/ CopyOver(n, m)
      PROVE  Holds
  BY <1>1, <1>2, <1>4, CopyInv
<1>5. ASSUME NEW n \in UserNames, NEW m \in UserNames, Rename(n, m)
      PROVE  Holds
  <2>1. IsLinked(fat') /\ cmd' = Syncing /\ flash_fat' = flash_fat /\ mounted'
    BY <1>2, <1>5, RenameEdit DEF Rename, Ready
  <2>2. QED
    BY <1>2, <2>1, UnnamedCommands, UnnamedInv
<1>6. ASSUME NEW n \in UserNames, Delete(n)
      PROVE  Holds
  <2>1. IsLinked(fat') /\ cmd' \in {Idle, Syncing} /\ flash_fat' = flash_fat /\ mounted'
    BY <1>2, <1>6, DeleteEdit DEF Delete, Ready
  <2>2. QED
    BY <1>2, <2>1, UnnamedCommands, UnnamedInv
<1>7. CASE Mount
  <2>1. fat' = flash_fat.fat
    BY <1>2, <1>7, MountedWhole DEF Mount, TypeInv, TypeOK
  <2>2. cmd' = cmd /\ cmd.phase = "idle" /\ flash_fat' = flash_fat
    BY <1>2, <1>7 DEF Mount, WriteInv
  <2>3. WriteInv'
    BY <2>2 DEF WriteInv
  <2>4. QED
    BY <1>2, <2>1, <2>2, <2>3
<1>8. CASE Unmount
  <2>1. /\ cmd' = [Syncing EXCEPT !.unmount = TRUE] /\ mounted'
        /\ fat' = fat /\ flash_fat' = flash_fat
    BY <1>8 DEF Unmount, Ready
  <2>2. QED
    BY <1>2, <2>1, UnnamedCommands, UnnamedInv
<1>9. CASE Format
  <2>1. cmd' = Syncing /\ mounted' /\ fat' = FormattedFAT /\ flash_fat' = flash_fat
    BY <1>9 DEF Format
  <2>2. IsLinked(fat')
    BY <2>1, FormattedIsLinked DEF IsLinked
  <2>3. QED
    BY <1>2, <2>1, <2>2, UnnamedCommands, UnnamedInv
<1>10. CASE EraseBlock
  BY <1>1, <1>2, <1>10, EraseBlockInv DEF EraseBlock
<1>11. CASE ProgramBlock
  BY <1>1, <1>2, <1>11, ProgramBlockInv DEF ProgramBlock
<1>12. CASE SyncErase \/ SyncProgram
  BY <1>1, <1>12, SyncInv
<1>13. CASE FreeFAT \/ PowerLoss
  BY <1>1, <1>13, ForgetInv
<1>14. CASE UNCHANGED vars
  BY <1>2, <1>14 DEF vars, WriteInv
<1>15. QED
  BY <1>1, <1>3, <1>4, <1>5, <1>6, <1>7, <1>8, <1>9, <1>10, <1>11, <1>12, <1>13, <1>14
     DEF Next

\* In every reachable state the FAT in RAM, and the one block 0 holds or is
\* being given, consist of chains of clusters of their own, and a file that is
\* being written holds its contents as far as the loop has come.
THEOREM ChainsHold == Spec => []FSInv
<1>1. QED
  BY InitFSInv, NextFSInv, PTL DEF Spec

\* FlashFSValidateFAT accepts the FAT in RAM at every point of every command,
\* after failed erases and writes too (flash_fs.c:38).
THEOREM AlwaysConsistent == Spec => []FATConsistent
<1>1. FSInv => FATConsistent
  BY LinkedIsValid DEF FSInv, LinkInv, IsLinked, FATConsistent, TypeInv, TypeOK
<1>2. QED
  BY <1>1, ChainsHold, PTL

\* No cluster belongs to two files, to a file twice, or to none while it is
\* marked used (flash_fs.c:218-385).
THEOREM NeverCrossLinked == Spec => []NoCrossLinks
<1>1. FSInv => NoCrossLinks
  BY LinkedSingleReference DEF FSInv, LinkInv, IsLinked, NoCrossLinks, TypeInv, TypeOK
<1>2. QED
  BY <1>1, ChainsHold, PTL

\* FlashFSMount refuses a FAT whose programming was cut short, unless what is
\* missing reads the same erased (flash_fs.c:85-110, :137-146).
THEOREM TornRejected == Spec => []TornFATRejected
<1>1. FSInv => TornFATRejected
  BY MountedWhole DEF FSInv, LinkInv, TornFATRejected, TypeInv, TypeOK
<1>2. QED
  BY <1>1, ChainsHold, PTL

\* When FlashFSInternalWrite has returned 0, and until the command's sync is
\* over, the file reads back block by block as what it was given
\* (flash_fs.c:172, :388).
THEOREM ReadBack == Spec => []WrittenFilesReadBack
<1>1. FSInv => WrittenFilesReadBack
  <2>1. SUFFICES ASSUME FSInv, cmd.phase \in {"sync_erase", "sync_program"},
                        cmd.name \in FileNames,
                        NEW blocks, blocks = ReadFile(fat, cmd.name).blocks
                 PROVE  /\ \A i \in DOMAIN blocks : blocks[i] = BufferPart(cmd, i)
                        /\ Whole(cmd) => Len(blocks) = Len(cmd.contents)
    BY DEF WrittenFilesReadBack, Whole
  <2>2. Complete(fat, flash, cmd)
    BY <2>1 DEF FSInv, WriteInv, Naming
  <2>3. PICK e : e = FileFind(fat, cmd.name)
    OBVIOUS
  <2>4. e \in Used(fat) /\ Found(fat, cmd.name)
    BY <2>2, <2>3, FileFindType DEF Complete, Matching
  <2>5. PICK chain : Linked(fat, chain)
    BY <2>1 DEF FSInv, LinkInv, IsLinked
  <2>6. fat \in FATs
    BY <2>1 DEF FSInv, LinkInv, TypeInv, TypeOK
  <2>7. PICK n \in 1..FILE_ENTRY_COUNT : n = FileBlocks(fat, e)
    BY <2>4, <2>5, <2>6, ChainLength
  <2>8. PICK w : w = FileWalk(fat, e)
    OBVIOUS
  <2>9. /\ Whole(cmd) => Len(cmd.contents) = n
        /\ \A j \in 1..n : flash[w[j - 1]] = BufferPart(cmd, j)
    BY <2>2, <2>3, <2>7, <2>8 DEF Complete
  <2>10. ASSUME NEW j \in 1..n PROVE Contents(w[j - 1]) = BufferPart(cmd, j)
    <3>1. j - 1 \in 0..(n - 1) /\ (j - 1) + 1 = j
      OBVIOUS
    <3>2. w[j - 1] = chain[e][j]
      BY <2>4, <2>5, <2>6, <2>7, <2>8, <3>1, WalkFollows
    <3>3. chain[e][j] \in Clusters
      BY <2>4, <2>5, <2>6, <2>7, InUse
    <3>4. QED
      BY <2>9, <3>2, <3>3 DEF Contents
  <2>11. blocks = [i \in 1..n |-> Contents(w[i - 1])]
    BY <2>1, <2>3, <2>4, <2>7, <2>8 DEF ReadFile, FileBlocks
  <2>12. \A i \in DOMAIN blocks : blocks[i] = BufferPart(cmd, i)
    BY <2>10, <2>11
  <2>13. Len(blocks) = n
    BY <2>11
  <2>14. QED
    BY <2>9, <2>12, <2>13
<1>2. QED
  BY <1>1, ChainsHold, PTL

\* FlashFSInternalWrite erases and programs only clusters of the file it was
\* called for, each with its own part (flash_fs.c:172-216).
THEOREM AlwaysWritesOwnClusters == Spec => []WritesOwnClusters
<1>1. FSInv => WritesOwnClusters
  <2>1. SUFFICES ASSUME FSInv, cmd.phase \in {"erase", "program"},
                        cmd.name \in FileNames,
                        NEW e, e = FileFind(fat, cmd.name)
                 PROVE  /\ Found(fat, cmd.name)
                        /\ cmd.part \in 1..Blocks(fat.file_entries[e].size)
                        /\ cmd.cluster = FileWalk(fat, e)[cmd.part - 1]
    BY DEF WritesOwnClusters
  <2>2. Progress(fat, flash, cmd)
    BY <2>1 DEF FSInv, WriteInv, Naming
  <2>3. QED
    BY <2>1, <2>2 DEF Progress, FileBlocks
<1>2. QED
  BY <1>1, ChainsHold, PTL

-----------------------------------------------------------------------------
(* The store the users are promised: where a file is, and what it reads as.*)

Placed(f, e) ==
  [size |-> f.file_entries[e].size,
   clusters |-> [i \in 1..FileBlocks(f, e) |-> FileWalk(f, e)[i - 1]]]

\* Under both FATs the name has no file, or one of the same size in the same
\* clusters.
SameFile(f, g, n) ==
  /\ Found(f, n) <=> Found(g, n)
  /\ Found(f, n) => Placed(f, FileFind(f, n)) = Placed(g, FileFind(g, n))

\* ReadFile with the flash as an argument.
Block(fl, c) == IF c \in Clusters THEN fl[c] ELSE Blank
ReadIn(fl, f, n) ==
  IF ~Found(f, n) THEN Absent
  ELSE LET fe == f.file_entries[FileFind(f, n)]
       IN [size |-> fe.size,
           blocks |-> [i \in 1..Blocks(fe.size) |->
              Block(fl, FileWalk(f, FileFind(f, n))[i - 1])]]

LEMMA SameRead ==
  ASSUME NEW f, NEW g, NEW n, SameFile(f, g, n), NEW fl
  PROVE  ReadIn(fl, f, n) = ReadIn(fl, g, n)
<1>1. CASE ~Found(f, n)
  BY <1>1 DEF SameFile, ReadIn
<1>2. CASE Found(f, n)
  <2>1. PICK d, e : d = FileFind(f, n) /\ e = FileFind(g, n)
    OBVIOUS
  <2>2. Found(g, n) /\ Placed(f, d) = Placed(g, e)
    BY <1>2, <2>1 DEF SameFile
  <2>3. PICK size : size = f.file_entries[d].size
    OBVIOUS
  <2>4. g.file_entries[e].size = size
    BY <2>2, <2>3 DEF Placed
  <2>5. PICK v, w : v = FileWalk(f, d) /\ w = FileWalk(g, e)
    OBVIOUS
  <2>6. PICK m : m = Blocks(size)
    OBVIOUS
  <2>7. [i \in 1..m |-> v[i - 1]] = [i \in 1..m |-> w[i - 1]]
    BY <2>2, <2>3, <2>4, <2>5, <2>6 DEF Placed, FileBlocks
  <2>8. ASSUME NEW i \in 1..m PROVE v[i - 1] = w[i - 1]
    <3>1. [j \in 1..m |-> v[j - 1]][i] = [j \in 1..m |-> w[j - 1]][i]
      BY <2>7
    <3>2. QED
      BY <3>1
  <2>9. [i \in 1..m |-> Block(fl, v[i - 1])] = [i \in 1..m |-> Block(fl, w[i - 1])]
    BY <2>8
  <2>10. ReadIn(fl, f, n) = [size |-> size, blocks |-> [i \in 1..m |-> Block(fl, v[i - 1])]]
    BY <1>2, <2>1, <2>3, <2>5, <2>6 DEF ReadIn
  <2>11. ReadIn(fl, g, n) = [size |-> size, blocks |-> [i \in 1..m |-> Block(fl, w[i - 1])]]
    BY <2>1, <2>2, <2>4, <2>5, <2>6 DEF ReadIn
  <2>12. QED
    BY <2>9, <2>10, <2>11
<1>3. QED
  BY <1>1, <1>2

\* A file that is found is not absent.
LEMMA FoundRead ==
  ASSUME NEW f \in FATs, IsLinked(f), NEW n, NEW fl
  PROVE  Found(f, n) <=> ReadIn(fl, f, n) # Absent
<1>1. ASSUME Found(f, n) PROVE ReadIn(fl, f, n) # Absent
  <2>1. PICK e : e = FileFind(f, n)
    OBVIOUS
  <2>2. e \in Used(f)
    BY <1>1, <2>1, FileFindType DEF Matching
  <2>3. PICK chain : Linked(f, chain)
    BY DEF IsLinked
  <2>4. FileBlocks(f, e) \in 1..FILE_ENTRY_COUNT
    BY <2>2, <2>3, ChainLength
  <2>5. Blocks(0) = 0
    BY FATAssumption DEF Blocks
  <2>6. f.file_entries[e].size # 0
    BY <2>4, <2>5 DEF FileBlocks
  <2>7. ReadIn(fl, f, n).size # 0
    BY <1>1, <2>1, <2>6 DEF ReadIn
  <2>8. QED
    BY <2>7 DEF Absent
<1>2. QED
  BY <1>1 DEF ReadIn

\* An entry that is kept, with its chain, is where it was.
LEMMA PlacedKept ==
  ASSUME NEW f \in FATs, NEW chain, Linked(f, chain),
         NEW g \in FATs, NEW c2, Linked(g, c2), NEW x \in Used(f), x \in Used(g),
         g.file_entries[x].size = f.file_entries[x].size, c2[x] = chain[x]
  PROVE  Placed(f, x) = Placed(g, x)
<1>1. PICK n \in 1..FILE_ENTRY_COUNT : n = FileBlocks(f, x)
  BY ChainLength
<1>2. n = FileBlocks(g, x)
  BY <1>1 DEF FileBlocks
<1>3. PICK v, w : v = FileWalk(f, x) /\ w = FileWalk(g, x)
  OBVIOUS
<1>4. ASSUME NEW i \in 1..n PROVE v[i - 1] = w[i - 1]
  <2>1. i - 1 \in 0..(n - 1) /\ (i - 1) + 1 = i
    OBVIOUS
  <2>2. v[i - 1] = chain[x][i]
    BY <1>1, <1>3, <2>1, WalkFollows
  <2>3. w[i - 1] = c2[x][i]
    BY <1>2, <1>3, <2>1, WalkFollows
  <2>4. QED
    BY <2>2, <2>3
<1>5. [i \in 1..n |-> v[i - 1]] = [i \in 1..n |-> w[i - 1]]
  BY <1>4
<1>6. QED
  BY <1>1, <1>2, <1>3, <1>5 DEF Placed

\* A name with the same entries, all kept, has the same file.
LEMMA FileKept ==
  ASSUME NEW f \in FATs, NEW chain, Linked(f, chain),
         NEW g \in FATs, NEW c2, Linked(g, c2), NEW n \in FileNames,
         Matching(g, n) = Matching(f, n),
         \A x \in Matching(f, n) :
           g.file_entries[x].size = f.file_entries[x].size /\ c2[x] = chain[x]
  PROVE  SameFile(f, g, n)
<1>1. Found(g, n) <=> Found(f, n)
  BY DEF Found
<1>2. ASSUME Found(f, n)
      PROVE  Placed(f, FileFind(f, n)) = Placed(g, FileFind(g, n))
  <2>1. PICK e : e = FileFind(f, n)
    OBVIOUS
  <2>2. e = FileFind(g, n)
    BY <2>1 DEF FileFind
  <2>3. e \in Matching(f, n)
    BY <1>2, <2>1, FileFindType
  <2>4. e \in Used(f) /\ e \in Used(g)
    BY <2>3 DEF Matching
  <2>5. Placed(f, e) = Placed(g, e)
    BY <2>3, <2>4, PlacedKept
  <2>6. QED
    BY <2>1, <2>2, <2>5
<1>3. QED
  BY <1>1, <1>2 DEF SameFile

\* A block of one file is no block of another.
LEMMA Elsewhere ==
  ASSUME NEW f \in FATs, NEW chain, Linked(f, chain), NEW e \in Used(f),
         NEW i \in 1..FileBlocks(f, e), NEW fl \in [Clusters -> Tokens], NEW t,
         NEW fl2 \in {fl, [fl EXCEPT ![FileWalk(f, e)[i - 1]] = t]},
         NEW n \in FileNames, n # f.file_entries[e].name
  PROVE  ReadIn(fl2, f, n) = ReadIn(fl, f, n)
<1>1. CASE ~Found(f, n)
  BY <1>1 DEF ReadIn
<1>2. CASE Found(f, n)
  <2>1. PICK x : x = FileFind(f, n)
    OBVIOUS
  <2>2. x \in Used(f) /\ x # e
    BY <1>2, <2>1, FileFindType DEF Matching
  <2>3. PICK m \in 1..FILE_ENTRY_COUNT : m = FileBlocks(f, x)
    BY <2>2, ChainLength
  <2>4. PICK k \in 1..FILE_ENTRY_COUNT : k = FileBlocks(f, e)
    BY ChainLength
  <2>5. PICK w, v : w = FileWalk(f, x) /\ v = FileWalk(f, e)
    OBVIOUS
  <2>6. v[i - 1] = chain[e][i]
    <3>1. i - 1 \in 0..(k - 1) /\ (i - 1) + 1 = i
      BY <2>4
    <3>2. QED
      BY <2>4, <2>5, <3>1, WalkFollows
  <2>7. ASSUME NEW j \in 1..m PROVE Block(fl2, w[j - 1]) = Block(fl, w[j - 1])
    <3>1. j - 1 \in 0..(m - 1) /\ (j - 1) + 1 = j
      OBVIOUS
    <3>2. w[j - 1] = chain[x][j]
      BY <2>2, <2>3, <2>5, <3>1, WalkFollows
    <3>3. chain[x][j] # chain[e][i]
      BY <2>2, <2>3, <2>4 DEF Linked, Apart
    <3>4. w[j - 1] # v[i - 1]
      BY <2>6, <3>2, <3>3
    <3>5. fl2 = fl \/ fl2 = [fl EXCEPT ![v[i - 1]] = t]
      BY <2>5
    <3>6. w[j - 1] \in Clusters => fl2[w[j - 1]] = fl[w[j - 1]]
      BY <3>4, <3>5
    <3>7. QED
      BY <3>6 DEF Block
  <2>8. [j \in 1..m |-> Block(fl2, w[j - 1])] = [j \in 1..m |-> Block(fl, w[j - 1])]
    BY <2>7
  <2>9. QED
    BY <1>2, <2>1, <2>3, <2>5, <2>8 DEF ReadIn, FileBlocks
<1>3. QED
  BY <1>1, <1>2

-----------------------------------------------------------------------------
(* Whose block is being written.                                           *)

\* The command writes a block of the file of this entry.
Writes(f, c, e) ==
  /\ f.file_entries[e].name = Stored(c.name)
  /\ LET n == FileBlocks(f, e)
         i == n - Blocks(c.left) + 1
     IN i \in 1..n /\ c.cluster = FileWalk(f, e)[i - 1]

LEMMA WritesBegins ==
  ASSUME NEW f \in FATs, IsLinked(f), NEW e \in Used(f), NEW n,
         f.file_entries[e].name = Stored(n), NEW contents, NEW source, NEW sync
  PROVE  Writes(f, Writing(f, e, n, contents, source, sync), e)
<1>1. PICK chain : Linked(f, chain)
  BY DEF IsLinked
<1>2. PICK k \in 1..FILE_ENTRY_COUNT : k = FileBlocks(f, e)
  BY <1>1, ChainLength
<1>3. PICK c : c = Writing(f, e, n, contents, source, sync)
  OBVIOUS
<1>4. /\ c.name = n /\ c.left = f.file_entries[e].size
      /\ c.cluster = f.file_entries[e].first_cluster
  BY <1>3 DEF Writing
<1>5. k - Blocks(c.left) + 1 = 1
  BY <1>2, <1>4 DEF FileBlocks
<1>6. FileWalk(f, e)[1 - 1] = c.cluster
  BY <1>4, WalkUnfold DEF FileWalk
<1>7. Writes(f, c, e)
  BY <1>2, <1>4, <1>5, <1>6 DEF Writes
<1>8. QED
  BY <1>3, <1>7

LEMMA WritesOn ==
  ASSUME NEW f \in FATs, IsLinked(f), NEW e \in Used(f), NEW c \in Commands,
         c.left > 0, Writes(f, c, e)
  PROVE  /\ Writes(f, [c EXCEPT !.phase = "program"], e)
         /\ c.left > ERASE_SIZE =>
              Writes(f, [c EXCEPT !.phase = "erase", !.left = @ - ERASE_SIZE,
                                  !.part = @ + 1,
                                  !.cluster = NextCluster(f.cluster_table, @)], e)
<1>1. PICK chain : Linked(f, chain)
  BY DEF IsLinked
<1>2. PICK n \in 1..FILE_ENTRY_COUNT : n = FileBlocks(f, e)
  BY <1>1, ChainLength
<1>3. c.left \in Nat /\ Blocks(c.left) \in Nat
  <2>1. c.left \in Nat
    BY DEF Commands
  <2>2. QED
    BY <2>1, BlocksCeiling
<1>4. PICK i \in Int : i = n - Blocks(c.left) + 1
  BY <1>3
<1>5. i \in 1..n /\ c.cluster = FileWalk(f, e)[i - 1]
      /\ f.file_entries[e].name = Stored(c.name)
  BY <1>2, <1>4 DEF Writes
<1>6. Writes(f, [c EXCEPT !.phase = "program"], e)
  BY DEF Writes, Commands
<1>7. ASSUME c.left > ERASE_SIZE
      PROVE  Writes(f, [c EXCEPT !.phase = "erase", !.left = @ - ERASE_SIZE,
                                 !.part = @ + 1,
                                 !.cluster = NextCluster(f.cluster_table, @)], e)
  <2>1. PICK d : d = [c EXCEPT !.phase = "erase", !.left = @ - ERASE_SIZE,
                               !.part = @ + 1,
                               !.cluster = NextCluster(f.cluster_table, @)]
    OBVIOUS
  <2>2. /\ d.name = c.name /\ d.left = c.left - ERASE_SIZE
        /\ d.cluster = NextCluster(f.cluster_table, c.cluster)
    BY <2>1 DEF Commands
  <2>3. Blocks(d.left) = Blocks(c.left) - 1
    BY <1>3, <1>7, <2>2, BlocksStep
  <2>4. Blocks(d.left) > 0
    <3>1. d.left \in Nat /\ d.left > 0
      BY <1>3, <1>7, <2>2, FATAssumption
    <3>2. QED
      BY <3>1, BlocksCeiling
  <2>5. n - Blocks(d.left) + 1 = i + 1 /\ i + 1 \in 1..n /\ (i + 1) - 1 = i
    BY <1>3, <1>4, <1>5, <2>3, <2>4
  <2>6. d.cluster = FileWalk(f, e)[i]
    <3>1. i \in 1..FILE_ENTRY_COUNT
      BY <1>5, EndMark
    <3>2. FileWalk(f, e)[i] = NextCluster(f.cluster_table, FileWalk(f, e)[i - 1])
      BY <3>1, WalkUnfold DEF FileWalk
    <3>3. QED
      BY <1>5, <2>2, <3>2
  <2>7. Writes(f, d, e)
    BY <1>2, <1>5, <2>2, <2>5, <2>6 DEF Writes
  <2>8. QED
    BY <2>1, <2>7
<1>8. QED
  BY <1>6, <1>7

-----------------------------------------------------------------------------
(* What the commands leave alone.                                          *)

\* No two entries have the same name.
UniqueNames(f) == \A n \in FileNames : \A x, y \in Matching(f, n) : x = y

\* No name that is too long becomes, cut off, one the search accepts.
NamesFit == \A b \in BadNames : Truncated[b] \notin FileNames

LEMMA CreateKeeps ==
  ASSUME TypeInv, TypeInv', IsLinked(fat), NEW n \in UserNames, NEW contents, NEW source,
         NEW sync, NEW length \in 0..(SIZE_MOD - 1),
         FileCreate(n, contents, length, source, sync)
  PROVE  /\ \A k \in FileNames \ {Stored(n)} : SameFile(fat, fat', k)
         /\ NamesFit /\ UniqueNames(fat) => UniqueNames(fat')
         /\ \E e \in Used(fat') : Writes(fat', cmd', e)
         /\ cmd'.name = n
<1>1. PICK f \in FATs : f = fat
  BY DEF TypeInv, TypeOK
<1>2. PICK chain : Linked(f, chain)
  BY <1>1 DEF IsLinked
<1>3. PICK e \in Entries : e = Least(Entries \ Used(fat)) /\ e \notin Used(f)
  BY <1>1, LeastUnused DEF FileCreate, CanCreate
<1>4. PICK new \in FATs : new = fat'
  BY DEF TypeInv, TypeOK
<1>5. new = SetSize(BuildClusterList(SetName(f, e, n), e, length), e, length)
      /\ cmd' = Writing(new, e, n, contents, source, sync)
  BY <1>1, <1>3, <1>4 DEF FileCreate
<1>6. length \in 1..(SIZE_MOD - 1) /\ length <= f.free_size /\ ~Found(f, n)
  BY <1>1 DEF FileCreate, CanCreate, FATs
<1>7. /\ Used(new) = Used(f) \cup {e}
      /\ new.file_entries[e].name = Stored(n)
      /\ \A x \in Entries \ {e} : new.file_entries[x] = f.file_entries[x]
      /\ \E c2 : Linked(new, c2) /\ \A x \in Entries \ {e} : c2[x] = chain[x]
  <2>1. n \in FileNames \cup BadNames
    BY DEF UserNames
  <2>2. PICK k \in 1..(SIZE_MOD - 1) : k = length
    BY <1>6
  <2>3. k <= f.free_size /\ new = SetSize(BuildClusterList(SetName(f, e, n), e, k), e, k)
    BY <1>5, <1>6, <2>2
  <2>4. e \notin Used(f)
    BY <1>3
  <2>5. /\ Used(new) = Used(f) \cup {e}
        /\ new.file_entries[e].size = k
        /\ new.file_entries[e].name = Stored(n)
        /\ \A x \in Entries \ {e} : new.file_entries[x] = f.file_entries[x]
        /\ \E c2 : Linked(new, c2) /\ \A x \in Entries \ {e} : c2[x] = chain[x]
    BY <1>2, <2>1, <2>3, <2>4, CreateIsLinked
  <2>6. QED
    BY <2>5
<1>8. PICK c2 : Linked(new, c2) /\ \A x \in Entries \ {e} : c2[x] = chain[x]
  BY <1>7
<1>9. \A x \in Used(f) : x \in Entries \ {e}
  BY <1>3, UsedEntries
<1>10. ASSUME NEW k \in FileNames, k # Stored(n) PROVE Matching(new, k) = Matching(f, k)
  BY <1>7, <1>9, <1>10 DEF Matching
<1>11. ASSUME NEW k \in FileNames \ {Stored(n)} PROVE SameFile(f, new, k)
  <2>1. \A x \in Matching(f, k) :
          new.file_entries[x].size = f.file_entries[x].size /\ c2[x] = chain[x]
    BY <1>7, <1>8, <1>9 DEF Matching
  <2>2. QED
    BY <1>2, <1>8, <1>10, <2>1, FileKept
<1>12. ASSUME NamesFit, UniqueNames(f) PROVE UniqueNames(new)
  <2>1. ASSUME NEW k \in FileNames, NEW x \in Matching(new, k), NEW y \in Matching(new, k)
        PROVE  x = y
    <3>1. CASE k # Stored(n)
      BY <1>10, <1>12, <2>1, <3>1 DEF UniqueNames
    <3>2. CASE k = Stored(n)
      <4>1. n \in FileNames /\ k = n
        BY <1>12, <3>2 DEF NamesFit, Stored, UserNames
      <4>2. Matching(f, n) = {}
        BY <1>6, <4>1 DEF Found
      <4>3. \A z \in Used(f) : new.file_entries[z].name # n
        BY <1>7, <1>9, <4>2 DEF Matching
      <4>4. Matching(new, n) \subseteq {e}
        BY <1>7, <4>3 DEF Matching
      <4>5. QED
        BY <2>1, <4>1, <4>4
    <3>3. QED
      BY <3>1, <3>2
  <2>2. QED
    BY <2>1 DEF UniqueNames
<1>13. e \in Used(new) /\ Writes(new, cmd', e)
  <2>1. e \in Used(new) /\ IsLinked(new)
    BY <1>7, <1>8 DEF IsLinked
  <2>2. Writes(new, Writing(new, e, n, contents, source, sync), e)
    BY <1>7, <2>1, WritesBegins
  <2>3. QED
    BY <1>5, <2>1, <2>2
<1>14. cmd'.name = n
  BY <1>5 DEF Writing
<1>15. QED
  BY <1>1, <1>4, <1>11, <1>12, <1>13, <1>14

LEMMA WriteKeeps ==
  ASSUME TypeInv, TypeInv', IsLinked(fat), NEW n \in UserNames, NEW contents, NEW source,
         NEW length \in 0..(SIZE_MOD - 1), FileWrite(n, contents, length, source)
  PROVE  /\ \A k \in FileNames \ {n} : SameFile(fat, fat', k)
         /\ UniqueNames(fat) => UniqueNames(fat')
         /\ \E e \in Used(fat') : Writes(fat', cmd', e)
         /\ cmd'.name = n /\ Stored(n) = n /\ n \in FileNames
<1>1. PICK f \in FATs : f = fat
  BY DEF TypeInv, TypeOK
<1>2. PICK chain : Linked(f, chain)
  BY <1>1 DEF IsLinked
<1>3. PICK e : e = FileFind(f, n)
  OBVIOUS
<1>4. e \in Used(f) /\ f.file_entries[e].name = n /\ n \in FileNames
  BY <1>1, <1>3, FileFindType DEF FileWrite, Matching, Found
<1>5. PICK new \in FATs : new = fat'
  BY DEF TypeInv, TypeOK
<1>6. new = SetSize(UpdateClusterList(f, e, length), e, length)
      /\ cmd' = Writing(new, e, n, contents, source, FALSE)
  BY <1>1, <1>3, <1>5 DEF FileWrite
<1>7. length \in 1..(SIZE_MOD - 1) /\ CanGrow(f, e, length)
  BY <1>1, <1>3 DEF FileWrite
<1>8. /\ Used(new) = Used(f)
      /\ new.file_entries[e].name = f.file_entries[e].name
      /\ \A x \in Entries \ {e} : new.file_entries[x] = f.file_entries[x]
      /\ \E c2 : Linked(new, c2) /\ \A x \in Entries \ {e} : c2[x] = chain[x]
  BY <1>2, <1>4, <1>6, <1>7, UpdateIsLinked
<1>9. PICK c2 : Linked(new, c2) /\ \A x \in Entries \ {e} : c2[x] = chain[x]
  BY <1>8
<1>10. \A k : Matching(new, k) = Matching(f, k)
  BY <1>8, UsedEntries DEF Matching
<1>11. ASSUME NEW k \in FileNames \ {n} PROVE SameFile(f, new, k)
  <2>1. \A x \in Matching(f, k) : x \in Entries \ {e}
    BY <1>4, UsedEntries DEF Matching
  <2>2. QED
    BY <1>2, <1>8, <1>9, <1>10, <2>1, FileKept
<1>12. UniqueNames(f) => UniqueNames(new)
  BY <1>10 DEF UniqueNames
<1>13. Stored(n) = n
  BY <1>4, FATAssumption DEF Stored
<1>14. e \in Used(new) /\ Writes(new, cmd', e)
  <2>1. e \in Used(new) /\ IsLinked(new) /\ new.file_entries[e].name = Stored(n)
    BY <1>4, <1>8, <1>9, <1>13 DEF IsLinked
  <2>2. Writes(new, Writing(new, e, n, contents, source, FALSE), e)
    BY <2>1, WritesBegins
  <2>3. QED
    BY <1>6, <2>1, <2>2
<1>15. cmd'.name = n
  BY <1>6 DEF Writing
<1>16. QED
  BY <1>1, <1>4, <1>5, <1>11, <1>12, <1>13, <1>14, <1>15

LEMMA DeleteKeeps ==
  ASSUME TypeInv, TypeInv', IsLinked(fat), NEW n \in UserNames, Delete(n)
  PROVE  /\ \A k \in FileNames \ {n} : SameFile(fat, fat', k)
         /\ UniqueNames(fat) => UniqueNames(fat')
         /\ n \in FileNames
<1>1. PICK f \in FATs, new \in FATs : f = fat /\ new = fat'
  BY DEF TypeInv, TypeOK
<1>2. PICK chain : Linked(f, chain)
  BY <1>1 DEF IsLinked
<1>3. PICK e : e = FileFind(f, n)
  OBVIOUS
<1>4. e \in Used(f) /\ f.file_entries[e].name = n /\ n \in FileNames
  BY <1>1, <1>3, FileFindType DEF Delete, Matching, Found
<1>5. new = DeleteFile(f, e)
  BY <1>1, <1>3 DEF Delete
<1>6. /\ Linked(new, chain)
      /\ Used(new) = Used(f) \ {e}
      /\ \A x \in Entries \ {e} : new.file_entries[x] = f.file_entries[x]
  BY <1>2, <1>4, <1>5, DeleteIsLinked
<1>7. ASSUME NEW k \in FileNames
      PROVE  /\ Matching(new, k) \subseteq Matching(f, k)
             /\ k # n => Matching(new, k) = Matching(f, k)
  BY <1>4, <1>6, UsedEntries DEF Matching
<1>8. ASSUME NEW k \in FileNames \ {n} PROVE SameFile(f, new, k)
  <2>1. \A x \in Matching(f, k) : x \in Entries \ {e}
    BY <1>4, UsedEntries DEF Matching
  <2>2. QED
    BY <1>2, <1>6, <1>7, <2>1, FileKept
<1>9. UniqueNames(f) => UniqueNames(new)
  BY <1>7 DEF UniqueNames
<1>10. QED
  BY <1>1, <1>4, <1>8, <1>9

LEMMA RenameKeeps ==
  ASSUME TypeInv, TypeInv', IsLinked(fat), NEW n \in UserNames, NEW m \in UserNames,
         Rename(n, m)
  PROVE  /\ \A k \in FileNames \ {n, m} : SameFile(fat, fat', k)
         /\ UniqueNames(fat) => UniqueNames(fat')
         /\ n \in FileNames /\ m \in FileNames /\ n # m
         /\ Found(fat, n) /\ ~Found(fat, m)
         /\ UniqueNames(fat) => ~Found(fat', n)
         /\ \A fl : ReadIn(fl, fat', m) = ReadIn(fl, fat, n)
<1>1. PICK f \in FATs, new \in FATs : f = fat /\ new = fat'
  BY DEF TypeInv, TypeOK
<1>2. PICK chain : Linked(f, chain)
  BY <1>1 DEF IsLinked
<1>3. PICK e : e = FileFind(f, n)
  OBVIOUS
<1>4. /\ e \in Used(f) /\ f.file_entries[e].name = n /\ n \in FileNames
      /\ Found(f, n) /\ ~Found(f, m) /\ m \in FileNames
  BY <1>1, <1>3, FileFindType DEF Rename, Matching, Found
<1>5. new = SetName(f, e, m)
  BY <1>1, <1>3 DEF Rename
<1>6. n # m
  BY <1>4
<1>7. e \in Entries
  BY <1>4, UsedEntries
<1>8. Linked(new, chain) /\ Used(new) = Used(f)
  BY <1>2, <1>5, <1>7, SetNameIsLinked
<1>9. /\ new.file_entries[e].name = m
      /\ new.file_entries[e].size = f.file_entries[e].size
      /\ \A x \in Entries \ {e} : new.file_entries[x] = f.file_entries[x]
  <2>1. Stored(m) = m
    BY <1>4, FATAssumption DEF Stored
  <2>2. QED
    BY <1>5, <1>7, <2>1 DEF SetName, FATs, FileEntries
<1>10. ASSUME NEW k \in FileNames \ {n, m} PROVE Matching(new, k) = Matching(f, k)
  BY <1>4, <1>8, <1>9, UsedEntries DEF Matching
<1>11. ASSUME NEW k \in FileNames \ {n, m} PROVE SameFile(f, new, k)
  <2>1. \A x \in Matching(f, k) : x \in Entries \ {e}
    BY <1>4, UsedEntries DEF Matching
  <2>2. QED
    BY <1>2, <1>8, <1>9, <1>10, <2>1, FileKept
<1>12. Matching(f, m) = {}
  BY <1>4 DEF Found
<1>13. Matching(new, m) = {e}
  BY <1>4, <1>8, <1>9, <1>12, UsedEntries DEF Matching
<1>14. Matching(new, n) \subseteq Matching(f, n) \ {e}
  BY <1>4, <1>6, <1>8, <1>9, UsedEntries DEF Matching
<1>15. e \in Matching(f, n)
  BY <1>4 DEF Matching
<1>16. ASSUME UniqueNames(f) PROVE UniqueNames(new) /\ ~Found(new, n)
  <2>1. Matching(f, n) \subseteq {e}
    BY <1>4, <1>15, <1>16 DEF UniqueNames
  <2>2. Matching(new, n) = {}
    BY <1>14, <2>1
  <2>3. UniqueNames(new)
    BY <1>10, <1>13, <1>16, <2>2 DEF UniqueNames
  <2>4. QED
    BY <2>2, <2>3 DEF Found
<1>17. ASSUME NEW fl PROVE ReadIn(fl, new, m) = ReadIn(fl, f, n)
  <2>1. Found(new, m) /\ FileFind(new, m) = e
    BY <1>4, <1>7, <1>13, FoundOnly
  <2>2. FileWalk(new, e) = FileWalk(f, e)
    <3>1. /\ new.cluster_table = f.cluster_table
          /\ new.file_entries[e].first_cluster = f.file_entries[e].first_cluster
      BY <1>5, <1>7 DEF SetName, FATs, FileEntries
    <3>2. QED
      BY <3>1 DEF FileWalk
  <2>3. PICK size, w : size = f.file_entries[e].size /\ w = FileWalk(f, e)
    OBVIOUS
  <2>4. ReadIn(fl, new, m) =
          [size |-> size, blocks |-> [i \in 1..Blocks(size) |-> Block(fl, w[i - 1])]]
    BY <1>9, <2>1, <2>2, <2>3 DEF ReadIn
  <2>5. ReadIn(fl, f, n) =
          [size |-> size, blocks |-> [i \in 1..Blocks(size) |-> Block(fl, w[i - 1])]]
    BY <1>3, <1>4, <2>3 DEF ReadIn
  <2>6. QED
    BY <2>4, <2>5
<1>18. QED
  BY <1>1, <1>4, <1>6, <1>11, <1>16, <1>17

-----------------------------------------------------------------------------
(* FlashFS implements FileStore.                                           *)

\* The block that is being written belongs to a file that counts as changed.
OwnerInv ==
  cmd.phase \in {"erase", "program"} =>
    /\ \E e \in Used(fat) : Writes(fat, cmd, e)
    /\ Stored(cmd.name) \in FileNames => Stored(cmd.name) \in dirty

\* Files that have not changed since the last sync are where block 0 has them.
SavedInv ==
  mounted /\ Mountable =>
    \A n \in FileNames \ dirty : SameFile(fat, flash_fat.fat, n)

\* Between the erase and the programming block 0 is refused.
EraseInv == cmd.phase = "sync_program" => ~Mountable

NamesInv == NamesFit => UniqueNames(fat) /\ UniqueNames(flash_fat.fat)

StoreInv == FSInv /\ OwnerInv /\ SavedInv /\ EraseInv /\ NamesInv

\* StoredFiles, of given values of the variables.
View(m, f, ff, fl) ==
  [n \in FileNames |->
     IF m THEN ReadIn(fl, f, n)
     ELSE IF ValidateFAT(Image(ff)) THEN ReadIn(fl, Image(ff), n) ELSE Absent]

LEMMA Viewed ==
  /\ StoredFiles = View(mounted, fat, flash_fat, flash)
  /\ StoredFiles' = View(mounted', fat', flash_fat', flash')
BY DEF StoredFiles, View, ReadIn, ReadFile, Block, Contents, Mountable

LEMMA MountableBoolean == Mountable \in BOOLEAN /\ Mountable' \in BOOLEAN
BY DEF Mountable, ValidateFAT

StoreStep == [Store!Next]_(Store!vars)

\* At most the file s changes, and counts as changed if it is one.
LEMMA ChangeStep ==
  ASSUME NEW s, dirty' = dirty \cup ({s} \cap FileNames), Mountable' = Mountable,
         \A k \in FileNames \ {s} : StoredFiles'[k] = StoredFiles[k]
  PROVE  StoreStep
<1>1. CASE s \in FileNames
  <2>1. Store!Change(s)
    BY <1>1 DEF Store!Change, Store!Keeps
  <2>2. QED
    BY <1>1, <2>1 DEF StoreStep, Store!Next
<1>2. CASE s \notin FileNames
  <2>1. \A k \in FileNames : StoredFiles'[k] = StoredFiles[k]
    BY <1>2
  <2>2. StoredFiles' = StoredFiles
    BY <2>1, Viewed DEF View
  <2>3. dirty' = dirty
    BY <1>2
  <2>4. QED
    BY <2>2, <2>3 DEF StoreStep, Store!vars
<1>3. QED
  BY <1>1, <1>2

\* Nothing a user sees changes.
LEMMA QuietStep ==
  ASSUME StoredFiles' = StoredFiles, Mountable' = Mountable, dirty' = dirty
  PROVE  StoreStep
BY DEF StoreStep, Store!vars

LEMMA MountedView ==
  /\ mounted => \A k \in FileNames : StoredFiles[k] = ReadIn(flash, fat, k)
  /\ mounted' => \A k \in FileNames : StoredFiles'[k] = ReadIn(flash', fat', k)
BY Viewed DEF View

\* A command that edits the FAT in RAM.
LEMMA EditStep ==
  ASSUME StoreInv, FSInv', OwnerInv', mounted, mounted',
         UNCHANGED <<flash, flash_fat>>, cmd'.phase # "sync_program",
         NEW S, dirty' = dirty \cup (S \cap FileNames),
         \A k \in FileNames \ S : SameFile(fat, fat', k),
         NamesFit /\ UniqueNames(fat) => UniqueNames(fat')
  PROVE  /\ StoreInv'
         /\ Mountable' = Mountable
         /\ \A k \in FileNames \ S : StoredFiles'[k] = StoredFiles[k]
<1>1. Mountable' = Mountable
  BY DEF Mountable
<1>2. ASSUME NEW k \in FileNames \ S PROVE StoredFiles'[k] = StoredFiles[k]
  <2>1. ReadIn(flash, fat, k) = ReadIn(flash, fat', k)
    BY SameRead
  <2>2. QED
    BY <2>1, MountedView
<1>3. SavedInv'
  <2>1. SUFFICES ASSUME Mountable, NEW k \in FileNames \ dirty'
                 PROVE  SameFile(fat', flash_fat.fat, k)
    BY <1>1 DEF SavedInv
  <2>2. SameFile(fat, flash_fat.fat, k)
    BY <2>1 DEF StoreInv, SavedInv
  <2>3. SameFile(fat, fat', k)
    BY <2>1
  <2>4. QED
    BY <2>2, <2>3 DEF SameFile
<1>4. EraseInv' /\ NamesInv'
  BY DEF EraseInv, NamesInv, StoreInv
<1>5. QED
  BY <1>1, <1>2, <1>3, <1>4 DEF StoreInv

LEMMA CreateStep ==
  ASSUME StoreInv, FSInv', mounted, NEW n \in UserNames, NEW contents, NEW source,
         NEW sync, NEW length \in 0..(SIZE_MOD - 1),
         FileCreate(n, contents, length, source, sync)
  PROVE  StoreInv' /\ StoreStep
<1>1. TypeInv /\ TypeInv' /\ IsLinked(fat)
  BY DEF StoreInv, FSInv, LinkInv
<1>2. /\ \A k \in FileNames \ {Stored(n)} : SameFile(fat, fat', k)
      /\ NamesFit /\ UniqueNames(fat) => UniqueNames(fat')
      /\ \E e \in Used(fat') : Writes(fat', cmd', e)
      /\ cmd'.name = n
  BY <1>1, CreateKeeps
<1>3. /\ mounted' /\ UNCHANGED <<flash, flash_fat>> /\ cmd'.phase # "sync_program"
      /\ dirty' = dirty \cup ({Stored(n)} \cap FileNames)
  BY DEF FileCreate, Writing
<1>4. OwnerInv'
  BY <1>2, <1>3 DEF OwnerInv
<1>5. /\ StoreInv' /\ Mountable' = Mountable
      /\ \A k \in FileNames \ {Stored(n)} : StoredFiles'[k] = StoredFiles[k]
  BY <1>2, <1>3, <1>4, EditStep
<1>6. StoreStep
  BY <1>3, <1>5, ChangeStep
<1>7. QED
  BY <1>5, <1>6

LEMMA WriteStep ==
  ASSUME StoreInv, FSInv', mounted, NEW n \in UserNames, NEW contents, NEW source,
         NEW length \in 0..(SIZE_MOD - 1), FileWrite(n, contents, length, source)
  PROVE  StoreInv' /\ StoreStep
<1>1. TypeInv /\ TypeInv' /\ IsLinked(fat)
  BY DEF StoreInv, FSInv, LinkInv
<1>2. /\ \A k \in FileNames \ {n} : SameFile(fat, fat', k)
      /\ UniqueNames(fat) => UniqueNames(fat')
      /\ \E e \in Used(fat') : Writes(fat', cmd', e)
      /\ cmd'.name = n /\ Stored(n) = n /\ n \in FileNames
  BY <1>1, WriteKeeps
<1>3. /\ mounted' /\ UNCHANGED <<flash, flash_fat>> /\ cmd'.phase # "sync_program"
      /\ dirty' = dirty \cup ({n} \cap FileNames)
  BY <1>2 DEF FileWrite, Writing
<1>4. OwnerInv'
  BY <1>2, <1>3 DEF OwnerInv
<1>5. /\ StoreInv' /\ Mountable' = Mountable
      /\ \A k \in FileNames \ {n} : StoredFiles'[k] = StoredFiles[k]
  BY <1>2, <1>3, <1>4, EditStep
<1>6. StoreStep
  BY <1>3, <1>5, ChangeStep
<1>7. QED
  BY <1>5, <1>6

LEMMA DeleteStep ==
  ASSUME StoreInv, FSInv', NEW n \in UserNames, Delete(n)
  PROVE  StoreInv' /\ StoreStep
<1>1. TypeInv /\ TypeInv' /\ IsLinked(fat)
  BY DEF StoreInv, FSInv, LinkInv
<1>2. /\ \A k \in FileNames \ {n} : SameFile(fat, fat', k)
      /\ UniqueNames(fat) => UniqueNames(fat')
      /\ n \in FileNames
  BY <1>1, DeleteKeeps
<1>3. cmd'.phase \in {"idle", "sync_erase"}
  BY IdlePhase DEF Delete
<1>4. /\ mounted /\ mounted' /\ UNCHANGED <<flash, flash_fat>>
      /\ cmd'.phase # "sync_program" /\ dirty' = dirty \cup ({n} \cap FileNames)
  BY <1>2, <1>3 DEF Delete, Ready
<1>5. OwnerInv'
  BY <1>3 DEF OwnerInv
<1>6. /\ StoreInv' /\ Mountable' = Mountable
      /\ \A k \in FileNames \ {n} : StoredFiles'[k] = StoredFiles[k]
  BY <1>2, <1>4, <1>5, EditStep
<1>7. StoreStep
  BY <1>4, <1>6, ChangeStep
<1>8. QED
  BY <1>6, <1>7

LEMMA RenameStep ==
  ASSUME StoreInv, FSInv', NEW n \in UserNames, NEW m \in UserNames, Rename(n, m)
  PROVE  StoreInv' /\ (NamesFit => StoreStep)
<1>1. TypeInv /\ TypeInv' /\ IsLinked(fat)
  BY DEF StoreInv, FSInv, LinkInv
<1>2. /\ \A k \in FileNames \ {n, m} : SameFile(fat, fat', k)
      /\ UniqueNames(fat) => UniqueNames(fat')
      /\ n \in FileNames /\ m \in FileNames /\ n # m
      /\ Found(fat, n) /\ ~Found(fat, m)
      /\ UniqueNames(fat) => ~Found(fat', n)
      /\ \A fl : ReadIn(fl, fat', m) = ReadIn(fl, fat, n)
  BY <1>1, RenameKeeps
<1>3. cmd'.phase = "sync_erase"
  BY IdlePhase DEF Rename
<1>4. /\ mounted /\ mounted' /\ UNCHANGED <<flash, flash_fat>>
      /\ cmd'.phase # "sync_program" /\ dirty' = dirty \cup ({n, m} \cap FileNames)
  BY <1>2, <1>3 DEF Rename, Ready
<1>5. OwnerInv'
  BY <1>3 DEF OwnerInv
<1>6. /\ StoreInv' /\ Mountable' = Mountable
      /\ \A k \in FileNames \ {n, m} : StoredFiles'[k] = StoredFiles[k]
  BY <1>2, <1>4, <1>5, EditStep
<1>7. ASSUME NamesFit PROVE StoreStep
  <2>1. ~Found(fat', n)
    BY <1>2, <1>7 DEF StoreInv, NamesInv
  <2>2. StoredFiles[n] # Absent
    <3>1. fat \in FATs
      BY <1>1 DEF TypeInv, TypeOK
    <3>2. ReadIn(flash, fat, n) # Absent
      BY <1>1, <1>2, <3>1, FoundRead
    <3>3. QED
      BY <1>2, <1>4, <3>2, MountedView
  <2>3. StoredFiles[m] = Absent
    BY <1>2, <1>4, MountedView DEF ReadIn
  <2>4. StoredFiles'[n] = Absent
    BY <1>2, <1>4, <2>1, MountedView DEF ReadIn
  <2>5. StoredFiles'[m] = StoredFiles[n]
    BY <1>2, <1>4, MountedView
  <2>6. dirty' = dirty \cup {n, m}
    BY <1>2, <1>4
  <2>7. Store!Move(n, m)
    BY <1>2, <1>6, <2>2, <2>3, <2>4, <2>5, <2>6 DEF Store!Move, Store!Keeps
  <2>8. QED
    BY <1>2, <2>7 DEF StoreStep, Store!Next
<1>8. QED
  BY <1>6, <1>7

\* FlashFSInternalWrite erases or programs a block.
LEMMA BlockStep ==
  ASSUME StoreInv, FSInv', OwnerInv', cmd.phase \in {"erase", "program"}, NEW t,
         flash' \in {flash, [flash EXCEPT ![cmd.cluster] = t]},
         UNCHANGED <<mounted, fat, flash_fat, dirty>>, cmd'.phase # "sync_program"
  PROVE  StoreInv' /\ StoreStep
<1>1. /\ fat \in FATs /\ IsLinked(fat) /\ flash \in [Clusters -> Tokens]
      /\ mounted /\ mounted'
  BY DEF StoreInv, FSInv, LinkInv, TypeInv, TypeOK, WriteInv
<1>2. PICK e \in Used(fat) : Writes(fat, cmd, e)
  BY DEF StoreInv, OwnerInv
<1>3. PICK chain : Linked(fat, chain)
  BY <1>1 DEF IsLinked
<1>4. PICK i \in 1..FileBlocks(fat, e) : cmd.cluster = FileWalk(fat, e)[i - 1]
  BY <1>2 DEF Writes
<1>5. fat.file_entries[e].name = Stored(cmd.name)
  BY <1>2 DEF Writes
<1>6. ASSUME NEW k \in FileNames \ {Stored(cmd.name)}
      PROVE  StoredFiles'[k] = StoredFiles[k]
  <2>1. PICK fl2 : fl2 = flash'
    OBVIOUS
  <2>2. fl2 \in {flash, [flash EXCEPT ![FileWalk(fat, e)[i - 1]] = t]}
    BY <1>4, <2>1
  <2>3. ReadIn(fl2, fat, k) = ReadIn(flash, fat, k)
    BY <1>1, <1>3, <1>5, <2>2, Elsewhere
  <2>4. QED
    BY <1>1, <2>1, <2>3, MountedView
<1>7. dirty' = dirty \cup ({Stored(cmd.name)} \cap FileNames)
  BY DEF StoreInv, OwnerInv
<1>8. Mountable' = Mountable
  BY DEF Mountable
<1>9. StoreStep
  BY <1>6, <1>7, <1>8, ChangeStep
<1>10. SavedInv' /\ EraseInv' /\ NamesInv'
  BY <1>8 DEF StoreInv, SavedInv, EraseInv, NamesInv
<1>11. QED
  BY <1>9, <1>10 DEF StoreInv

LEMMA EraseBlockStep ==
  ASSUME StoreInv, FSInv', EraseBlock
  PROVE  StoreInv' /\ StoreStep
<1>1. /\ fat \in FATs /\ IsLinked(fat) /\ cmd \in Commands /\ cmd.left > 0
      /\ cmd.phase \in {"erase", "program"}
  BY DEF StoreInv, FSInv, LinkInv, TypeInv, TypeOK, BlocksLeft, EraseBlock
<1>2. OwnerInv' /\ cmd'.phase # "sync_program"
  <2>1. CASE cmd' = [cmd EXCEPT !.phase = "program"]
    <3>1. cmd'.phase = "program" /\ cmd'.name = cmd.name
      BY <1>1, <2>1 DEF Commands
    <3>2. PICK e \in Used(fat) : Writes(fat, cmd, e)
      BY <1>1 DEF StoreInv, OwnerInv
    <3>3. Writes(fat, cmd', e)
      BY <1>1, <2>1, <3>2, WritesOn
    <3>4. QED
      BY <1>1, <3>1, <3>3 DEF StoreInv, OwnerInv, EraseBlock
  <2>2. CASE cmd' \in {Idle, Syncing}
    BY <2>2, IdlePhase DEF OwnerInv
  <2>3. QED
    BY <2>1, <2>2 DEF EraseBlock, WriteFails
<1>3. flash' \in {flash, [flash EXCEPT ![cmd.cluster] = Blank]}
  BY DEF EraseBlock
<1>4. UNCHANGED <<mounted, fat, flash_fat, dirty>>
  BY DEF EraseBlock
<1>5. QED
  BY <1>1, <1>2, <1>3, <1>4, BlockStep

LEMMA ProgramBlockStep ==
  ASSUME StoreInv, FSInv', ProgramBlock
  PROVE  StoreInv' /\ StoreStep
<1>1. /\ fat \in FATs /\ IsLinked(fat) /\ cmd \in Commands /\ cmd.left > 0
      /\ cmd.phase \in {"erase", "program"}
  BY DEF StoreInv, FSInv, LinkInv, TypeInv, TypeOK, BlocksLeft, ProgramBlock
<1>2. OwnerInv' /\ cmd'.phase # "sync_program"
  <2>1. CASE /\ cmd.left > ERASE_SIZE
             /\ cmd' = [cmd EXCEPT !.phase = "erase", !.left = @ - ERASE_SIZE,
                                   !.part = @ + 1,
                                   !.cluster = NextCluster(fat.cluster_table, @)]
    <3>1. cmd'.phase = "erase" /\ cmd'.name = cmd.name
      BY <1>1, <2>1 DEF Commands
    <3>2. PICK e \in Used(fat) : Writes(fat, cmd, e)
      BY <1>1 DEF StoreInv, OwnerInv
    <3>3. Writes(fat, cmd', e)
      BY <1>1, <2>1, <3>2, WritesOn
    <3>4. QED
      BY <1>1, <3>1, <3>3 DEF StoreInv, OwnerInv, ProgramBlock
  <2>2. CASE cmd' = [cmd EXCEPT !.phase = "sync_erase", !.left = 0]
    <3>1. cmd'.phase = "sync_erase"
      BY <1>1, <2>2 DEF Commands
    <3>2. QED
      BY <3>1 DEF OwnerInv
  <2>3. CASE cmd' \in {Idle, Syncing}
    BY <2>3, IdlePhase DEF OwnerInv
  <2>4. QED
    BY <2>1, <2>2, <2>3 DEF ProgramBlock, WriteFails
<1>3. PICK t : t = BufferPart(cmd, cmd.part)
  OBVIOUS
<1>4. flash' \in {flash, [flash EXCEPT ![cmd.cluster] = t]}
  BY <1>3 DEF ProgramBlock
<1>5. UNCHANGED <<mounted, fat, flash_fat, dirty>>
  BY DEF ProgramBlock
<1>6. QED
  BY <1>1, <1>2, <1>4, <1>5, BlockStep

\* Block 0 with no complete free_size is refused.
LEMMA ErasedRefused == ~ValidateFAT(Image(Erased))
<1>1. FormattedFAT \in FATs /\ Erased.fat = FormattedFAT /\ Erased.programmed = -1
  BY FormattedFATType DEF Erased
<1>2. Image(Erased).free_size = MAX_FREE_SIZE + 1
  <2>1. PICK size, table : Image(Erased) =
          [FormattedFAT EXCEPT !.free_size = size, !.cluster_table = table]
          /\ size = MAX_FREE_SIZE + 1
    BY <1>1 DEF Image
  <2>2. QED
    BY <1>1, <2>1 DEF FATs
<1>3. MAX_FREE_SIZE \in Int
  BY FATAssumption, EndMark DEF MAX_FREE_SIZE
<1> HIDE DEF MAX_FREE_SIZE
<1>4. Image(Erased).free_size \notin 0..MAX_FREE_SIZE
  BY <1>2, <1>3
<1>5. QED
  BY <1>4 DEF ValidateFAT

\* What programming block 0 may leave there, and what is refused of it.
LEMMA ProgrammedFAT ==
  ASSUME NEW k \in Programmed, ValidateFAT(Image(ProgrammedTo(k)))
  PROVE  ProgrammedTo(k).fat = fat
BY ErasedRefused DEF ProgrammedTo

\* All of it reads back as it is, and is accepted.
LEMMA WholeFAT ==
  ASSUME NEW f \in FATs
  PROVE  Image([fat |-> f, programmed |-> FILE_ENTRY_COUNT]) = f
<1>1. PICK ff : ff = [fat |-> f, programmed |-> FILE_ENTRY_COUNT]
  OBVIOUS
<1>2. FILE_ENTRY_COUNT # -1 /\ \A c \in Clusters : c <= FILE_ENTRY_COUNT
  BY EndMark DEF Clusters
<1>3. PICK table : table = [c \in Clusters |->
        IF c <= ff.programmed THEN ff.fat.cluster_table[c] ELSE FAT_END_CLUSTER]
  OBVIOUS
<1>4. table = f.cluster_table
  BY <1>1, <1>2, <1>3 DEF FATs, ClusterTables
<1>5. Image(ff) = [f EXCEPT !.free_size = f.free_size, !.cluster_table = table]
  BY <1>1, <1>2, <1>3 DEF Image
<1>6. QED
  BY <1>1, <1>4, <1>5 DEF FATs

\* A formatted FAT has no files.
LEMMA FormattedUnused == Used(FormattedFAT) = {}
BY FormattedIsLinked

\* After a sync, and wherever else no block is being written.
LEMMA NoOwner ==
  ASSUME cmd'.phase \notin {"erase", "program"}
  PROVE  OwnerInv'
BY DEF OwnerInv

LEMMA SyncDonePhase ==
  ASSUME SyncDone
  PROVE  cmd'.phase \in {"idle", "free"}
<1>1. Idle.phase = "idle" /\ [Idle EXCEPT !.phase = "free"].phase = "free"
  BY DEF Idle
<1>2. QED
  BY <1>1 DEF SyncDone

\* FlashFSSync rewrites block 0.
LEMMA SyncStep ==
  ASSUME StoreInv, FSInv', SyncErase \/ SyncProgram
  PROVE  StoreInv' /\ StoreStep
<1>1. /\ fat \in FATs /\ IsLinked(fat) /\ cmd \in Commands /\ mounted /\ mounted'
      /\ flash_fat \in FlashFATs /\ fat' = fat /\ flash' = flash
  BY DEF StoreInv, FSInv, LinkInv, TypeInv, TypeOK, WriteInv, SyncErase, SyncProgram
<1>2. StoredFiles' = StoredFiles
  BY <1>1, Viewed DEF View
<1>3. CASE SyncErase
  <2>1. cmd'.phase \in {"sync_program", "idle", "free"}
    <3>1. [cmd EXCEPT !.phase = "sync_program"].phase = "sync_program"
      BY <1>1 DEF Commands
    <3>2. QED
      BY <1>3, <3>1, SyncDonePhase DEF SyncErase
  <2>2. OwnerInv'
    BY <2>1, NoOwner
  <2>3. /\ dirty' = dirty /\ flash_fat' \in {flash_fat, Erased}
        /\ cmd'.phase = "sync_program" => flash_fat' = Erased
    BY <1>3, SyncDonePhase DEF SyncErase
  <2>4. flash_fat' = Erased => ~Mountable'
    BY ErasedRefused DEF Mountable
  <2>5. EraseInv'
    BY <2>3, <2>4 DEF EraseInv
  <2>6. SavedInv'
    <3>1. CASE flash_fat' = flash_fat
      BY <1>1, <2>3, <3>1 DEF StoreInv, SavedInv, Mountable
    <3>2. CASE flash_fat' = Erased
      BY <2>4, <3>2 DEF SavedInv
    <3>3. QED
      BY <2>3, <3>1, <3>2
  <2>7. NamesInv'
    <3>1. Erased.fat = FormattedFAT
      BY DEF Erased
    <3>2. UniqueNames(FormattedFAT)
      BY FormattedUnused DEF UniqueNames, Matching
    <3>3. QED
      BY <1>1, <2>3, <3>1, <3>2 DEF StoreInv, NamesInv
  <2>8. Store!Rewrite
    BY <1>2, <2>3, MountableBoolean DEF Store!Rewrite
  <2>9. QED
    BY <2>2, <2>5, <2>6, <2>7, <2>8 DEF StoreInv, StoreStep, Store!Next
<1>4. CASE SyncProgram
  <2>1. cmd'.phase \in {"idle", "free"}
    BY <1>4, SyncDonePhase DEF SyncProgram
  <2>2. OwnerInv' /\ EraseInv'
    BY <2>1, NoOwner DEF EraseInv
  <2>3. FILE_ENTRY_COUNT \in Programmed /\ FILE_ENTRY_COUNT # -1
    BY EndMark DEF Programmed
  <2>4. PICK k \in Programmed : flash_fat' = ProgrammedTo(k)
    BY <1>4, <2>3 DEF SyncProgram
  <2>5. Mountable' => flash_fat'.fat = fat
    BY <2>4, ProgrammedFAT DEF Mountable
  <2>6. SavedInv'
    BY <1>1, <2>5 DEF SavedInv, SameFile
  <2>7. NamesInv'
    <3>1. flash_fat'.fat \in {fat, FormattedFAT}
      BY <2>4 DEF ProgrammedTo, Erased
    <3>2. UniqueNames(FormattedFAT)
      BY FormattedUnused DEF UniqueNames, Matching
    <3>3. QED
      BY <1>1, <3>1, <3>2 DEF StoreInv, NamesInv
  <2>8. CASE Works /\ flash_fat' = ProgrammedTo(FILE_ENTRY_COUNT) /\ dirty' = {}
    <3>1. flash_fat' = [fat |-> fat, programmed |-> FILE_ENTRY_COUNT]
      BY <2>3, <2>8 DEF ProgrammedTo
    <3>2. Image(flash_fat') = fat
      BY <1>1, <3>1, WholeFAT
    <3>3. ValidateFAT(fat)
      BY <1>1, LinkedIsValid DEF IsLinked
    <3>4. Mountable'
      BY <3>2, <3>3 DEF Mountable
    <3>5. Store!Commit
      BY <1>2, <2>8, <3>4, MountableBoolean DEF Store!Commit
    <3>6. QED
      BY <2>2, <2>6, <2>7, <3>5 DEF StoreInv, StoreStep, Store!Next
  <2>9. CASE UNCHANGED dirty
    <3>1. Store!Rewrite
      BY <1>2, <2>9, MountableBoolean DEF Store!Rewrite
    <3>2. QED
      BY <2>2, <2>6, <2>7, <3>1 DEF StoreInv, StoreStep, Store!Next
  <2>10. QED
    BY <1>4, <2>8, <2>9 DEF SyncProgram
<1>5. QED
  BY <1>3, <1>4

\* The power goes, or the file system is unmounted.
LEMMA RestartStep ==
  ASSUME StoreInv, FSInv', FreeFAT \/ PowerLoss
  PROVE  StoreInv' /\ StoreStep
<1>1. /\ fat \in FATs /\ IsLinked(fat) /\ mounted /\ ~mounted'
      /\ flash_fat \in FlashFATs /\ IsLinked(flash_fat.fat)
      /\ flash_fat' \in FlashFATs /\ IsLinked(flash_fat'.fat)
      /\ fat' = FormattedFAT /\ flash' = flash /\ cmd' = Idle /\ dirty' = {}
  BY DEF StoreInv, FSInv, LinkInv, TypeInv, TypeOK, WriteInv, FreeFAT, PowerLoss, Forget
<1>2. cmd'.phase = "idle"
  BY <1>1, IdlePhase
<1>3. OwnerInv' /\ EraseInv' /\ SavedInv'
  BY <1>1, <1>2, NoOwner DEF EraseInv, SavedInv
<1>4. \/ flash_fat' = flash_fat
      \/ ~Mountable /\ \E k \in Programmed : flash_fat' = ProgrammedTo(k)
  BY DEF FreeFAT, PowerLoss, StoreInv, EraseInv
<1>5. NamesInv'
  <2>1. flash_fat'.fat \in {flash_fat.fat, fat, FormattedFAT}
    BY <1>4 DEF ProgrammedTo, Erased
  <2>2. UniqueNames(FormattedFAT)
    BY FormattedUnused DEF UniqueNames, Matching
  <2>3. QED
    BY <1>1, <2>1, <2>2 DEF StoreInv, NamesInv
<1>6. CASE Mountable'
  <2>1. PICK ff \in FlashFATs : ff = flash_fat'
    BY <1>1
  <2>2. ValidateFAT(Image(ff)) /\ IsLinked(ff.fat)
    BY <1>1, <1>6, <2>1 DEF Mountable
  <2>3. Image(ff) = ff.fat
    BY <2>2, AcceptedWhole
  <2>4. ASSUME NEW n \in FileNames \ dirty PROVE StoredFiles'[n] = StoredFiles[n]
    <3>1. StoredFiles'[n] = ReadIn(flash, ff.fat, n)
      BY <1>1, <2>1, <2>2, <2>3, Viewed DEF View
    <3>2. ReadIn(flash, ff.fat, n) = ReadIn(flash, fat, n)
      <4>1. CASE flash_fat' = flash_fat
        <5>1. Mountable
          BY <1>6, <4>1 DEF Mountable
        <5>2. SameFile(fat, flash_fat.fat, n)
          BY <1>1, <5>1 DEF StoreInv, SavedInv
        <5>3. QED
          BY <2>1, <4>1, <5>2, SameRead
      <4>2. CASE \E k \in Programmed : flash_fat' = ProgrammedTo(k)
        <5>1. PICK k \in Programmed : flash_fat' = ProgrammedTo(k)
          BY <4>2
        <5>2. ff.fat = fat
          BY <2>1, <2>2, <5>1, ProgrammedFAT
        <5>3. QED
          BY <5>2
      <4>3. QED
        BY <1>4, <4>1, <4>2
    <3>3. StoredFiles[n] = ReadIn(flash, fat, n)
      BY <1>1, MountedView
    <3>4. QED
      BY <3>1, <3>2, <3>3
  <2>5. Store!Restart
    BY <1>1, <1>6, <2>4 DEF Store!Restart, Store!Keeps
  <2>6. QED
    BY <1>3, <1>5, <2>5 DEF StoreInv, StoreStep, Store!Next
<1>7. CASE ~Mountable'
  <2>1. CASE Mountable
    <3>1. flash_fat' = flash_fat
      BY <1>4, <2>1
    <3>2. QED
      BY <1>7, <2>1, <3>1 DEF Mountable
  <2>2. CASE ~Mountable
    <3>1. StoredFiles' = [n \in FileNames |-> Absent]
      BY <1>1, <1>7, Viewed DEF View, Mountable
    <3>2. Store!Restart
      BY <1>1, <1>7, <2>2, <3>1 DEF Store!Restart, Store!AllAbsent
    <3>3. QED
      BY <1>3, <1>5, <3>2 DEF StoreInv, StoreStep, Store!Next
  <2>3. QED
    BY <2>1, <2>2
<1>8. QED
  BY <1>6, <1>7

\* "cp".
LEMMA CopyStep ==
  ASSUME StoreInv, FSInv', NEW n \in UserNames, NEW m \in UserNames,
         CopyToNew(n, m) \/ CopyOver(n, m)
  PROVE  StoreInv' /\ StoreStep
<1>1. TypeInv /\ mounted
  BY DEF StoreInv, FSInv, LinkInv, CopyToNew, CopyOver, Ready
<1>2. CASE CopyToNew(n, m)
  <2>1. PICK from : from = ReadFile(fat, n)
    OBVIOUS
  <2>2. PICK k \in 0..(SIZE_MOD - 1) : k = from.size
    BY <1>1, <1>2, <2>1, ReadFileType DEF CopyToNew, TypeInv
  <2>3. CASE FileCreate(m, from.blocks, from.size, n, TRUE)
    <3>1. FileCreate(m, from.blocks, k, n, TRUE)
      BY <2>2, <2>3
    <3>2. QED
      BY <1>1, <3>1, CreateStep
  <2>4. CASE /\ cmd' = Syncing
             /\ UNCHANGED <<mounted, fat, flash, flash_fat, dirty, faults>>
    <3>1. cmd'.phase = "sync_erase"
      BY <2>4, IdlePhase
    <3>2. OwnerInv'
      BY <3>1, NoOwner
    <3>3. StoreInv'
      BY <2>4, <3>1, <3>2 DEF StoreInv, SavedInv, EraseInv, NamesInv, Mountable
    <3>4. StoredFiles' = StoredFiles /\ Mountable' = Mountable
      BY <2>4, Viewed DEF Mountable
    <3>5. StoreStep
      BY <2>4, <3>4, QuietStep
    <3>6. QED
      BY <3>3, <3>5
  <2>5. QED
    BY <1>2, <2>1, <2>3, <2>4 DEF CopyToNew
<1>3. CASE CopyOver(n, m)
  <2>1. PICK from : from = ReadFile(fat, n)
    OBVIOUS
  <2>2. PICK length \in 0..(SIZE_MOD - 1) : length = ReadFile(fat, m).size
    BY <1>1, <1>3, ReadFileType DEF CopyOver, FileWrite, TypeInv
  <2>3. FileWrite(m, CopyBuffer(from, length), length, n)
    BY <1>3, <2>1, <2>2 DEF CopyOver, CopyBuffer
  <2>4. QED
    BY <1>1, <2>3, WriteStep
<1>4. QED
  BY <1>2, <1>3

LEMMA MountStep ==
  ASSUME StoreInv, FSInv', Mount
  PROVE  StoreInv' /\ StoreStep
<1>1. /\ ~mounted /\ mounted' /\ Mountable /\ fat' = Image(flash_fat)
      /\ UNCHANGED <<flash, flash_fat, cmd, dirty, faults>>
      /\ flash_fat \in FlashFATs /\ IsLinked(flash_fat.fat)
      /\ cmd'.phase = "idle"
  BY DEF Mount, StoreInv, FSInv, LinkInv, TypeInv, TypeOK, WriteInv
<1>2. fat' = flash_fat.fat
  BY <1>1, MountedWhole
<1>3. Mountable' = Mountable
  BY <1>1 DEF Mountable
<1>4. OwnerInv' /\ EraseInv' /\ SavedInv' /\ NamesInv'
  BY <1>1, <1>2, NoOwner DEF EraseInv, SavedInv, SameFile, StoreInv, NamesInv
<1>5. StoredFiles' = StoredFiles
  BY <1>1, Viewed DEF View, Mountable
<1>6. StoreStep
  BY <1>1, <1>3, <1>5, QuietStep
<1>7. QED
  BY <1>4, <1>6 DEF StoreInv

LEMMA UnmountStep ==
  ASSUME StoreInv, FSInv', Unmount
  PROVE  StoreInv' /\ StoreStep
<1>1. cmd'.phase = "sync_erase"
  BY DEF Unmount, Syncing, Idle
<1>2. /\ mounted /\ UNCHANGED <<mounted, fat, flash, flash_fat, dirty, faults>>
      /\ Mountable' = Mountable
  BY DEF Unmount, Ready, Mountable
<1>3. OwnerInv' /\ EraseInv' /\ SavedInv' /\ NamesInv'
  BY <1>1, <1>2, NoOwner DEF EraseInv, SavedInv, StoreInv, NamesInv
<1>4. StoredFiles' = StoredFiles
  BY <1>2, Viewed DEF View
<1>5. StoreStep
  BY <1>2, <1>4, QuietStep
<1>6. QED
  BY <1>3, <1>5 DEF StoreInv

LEMMA FormatStep ==
  ASSUME StoreInv, FSInv', Format
  PROVE  StoreInv' /\ StoreStep
<1>1. /\ mounted' /\ fat' = FormattedFAT /\ dirty' = FileNames
      /\ UNCHANGED <<flash, flash_fat, faults>> /\ cmd'.phase = "sync_erase"
      /\ Mountable' = Mountable
  BY IdlePhase DEF Format, Mountable
<1>2. UniqueNames(FormattedFAT)
  BY FormattedUnused DEF UniqueNames, Matching
<1>3. OwnerInv' /\ EraseInv' /\ SavedInv' /\ NamesInv'
  BY <1>1, <1>2, NoOwner DEF EraseInv, SavedInv, StoreInv, NamesInv
<1>4. StoredFiles' = [n \in FileNames |-> Absent]
  <2>1. \A n : Matching(FormattedFAT, n) = {}
    BY FormattedUnused DEF Matching
  <2>2. \A n : ReadIn(flash', FormattedFAT, n) = Absent
    BY <2>1 DEF ReadIn, Found
  <2>3. QED
    BY <1>1, <2>2, Viewed DEF View
<1>5. Store!Wipe
  BY <1>1, <1>4 DEF Store!Wipe, Store!AllAbsent
<1>6. QED
  BY <1>3, <1>5 DEF StoreInv, StoreStep, Store!Next

LEMMA StoreInit == Init => StoreInv /\ Store!Init
<1>1. SUFFICES ASSUME Init PROVE StoreInv /\ Store!Init
  OBVIOUS
<1>2. /\ FSInv /\ ~mounted /\ fat = FormattedFAT /\ flash_fat = Erased
      /\ cmd = Idle /\ dirty = {} /\ cmd.phase = "idle"
  BY <1>1, InitFSInv, IdlePhase DEF Init
<1>3. ~Mountable
  BY <1>2, ErasedRefused DEF Mountable
<1>4. Erased.fat = FormattedFAT /\ UniqueNames(FormattedFAT)
  BY FormattedUnused DEF UniqueNames, Matching, Erased
<1>5. OwnerInv /\ SavedInv /\ EraseInv /\ NamesInv
  BY <1>2, <1>4 DEF OwnerInv, SavedInv, EraseInv, NamesInv
<1>6. StoredFiles = [n \in FileNames |-> Absent]
  BY <1>2, <1>3, Viewed DEF View, Mountable
<1>7. Store!Init
  BY <1>2, <1>3, <1>6, MountableBoolean DEF Store!Init, Store!AllAbsent
<1>8. QED
  BY <1>2, <1>5, <1>7 DEF StoreInv

LEMMA StoreNext == StoreInv /\ [Next]_vars => StoreInv' /\ (NamesFit => StoreStep)
<1>1. SUFFICES ASSUME StoreInv, [Next]_vars PROVE StoreInv' /\ (NamesFit => StoreStep)
  OBVIOUS
<1> DEFINE Goal == StoreInv' /\ (NamesFit => StoreStep)
<1>2. FSInv'
  BY <1>1, NextFSInv DEF StoreInv
<1>3. ASSUME NEW n \in UserNames, NEW v \in Values, NEW length \in Lengths,
             Create(n, v, length) \/ Write(n, v, length)
      PROVE  Goal
  <2>1. length \in 0..(SIZE_MOD - 1)
    BY FlashFSAssumption
  <2>2. PICK contents : contents = Parts(v, length)
    OBVIOUS
  <2>3. mounted
    BY <1>3 DEF Create, Write, Ready
  <2>4. CASE Create(n, v, length)
    <3>1. FileCreate(n, contents, length, NoName, FALSE)
      BY <2>2, <2>4 DEF Create
    <3>2. QED
      BY <1>1, <1>2, <2>1, <2>3, <3>1, CreateStep
  <2>5. CASE Write(n, v, length)
    <3>1. FileWrite(n, contents, length, NoName)
      BY <2>2, <2>5 DEF Write
    <3>2. QED
      BY <1>1, <1>2, <2>1, <2>3, <3>1, WriteStep
  <2>6. QED
    BY <1>3, <2>4, <2>5
<1>4. ASSUME NEW n \in UserNames, NEW m \in UserNames, CopyToNew(n, m) \/ CopyOver(n, m)
      PROVE  Goal
  BY <1>1, <1>2, <1>4, CopyStep
<1>5. ASSUME NEW n \in UserNames, NEW m \in UserNames, Rename(n, m)
      PROVE  Goal
  BY <1>1, <1>2, <1>5, RenameStep
<1>6. ASSUME NEW n \in UserNames, Delete(n)
      PROVE  Goal
  BY <1>1, <1>2, <1>6, DeleteStep
<1>7. CASE Mount \/ Unmount \/ Format
  BY <1>1, <1>2, <1>7, MountStep, UnmountStep, FormatStep
<1>8. CASE EraseBlock \/ ProgramBlock
  BY <1>1, <1>2, <1>8, EraseBlockStep, ProgramBlockStep
<1>9. CASE SyncErase \/ SyncProgram
  BY <1>1, <1>2, <1>9, SyncStep
<1>10. CASE FreeFAT \/ PowerLoss
  BY <1>1, <1>2, <1>10, RestartStep
<1>11. CASE UNCHANGED vars
  <2>1. StoreInv'
    BY <1>1, <1>2, <1>11
       DEF vars, StoreInv, OwnerInv, SavedInv, EraseInv, NamesInv, Mountable
  <2>2. StoredFiles' = StoredFiles /\ Mountable' = Mountable /\ dirty' = dirty
    BY <1>11, Viewed DEF vars, Mountable
  <2>3. QED
    BY <2>1, <2>2, QuietStep
<1>12. QED
  BY <1>1, <1>3, <1>4, <1>5, <1>6, <1>7, <1>8, <1>9, <1>10, <1>11 DEF Next

\* A block being written belongs to a file that counts as changed; the files
\* that have not changed since the last sync are where block 0 has them.
THEOREM StoreHolds == Spec => []StoreInv
<1>1. QED
  BY StoreInit, StoreNext, PTL DEF Spec

\* The file system implements the store its users are promised, as long as no
\* name is given that strncpy cuts down to one the search accepts: a command
\* touches no file it does not name, and a power loss at any point leaves every
\* file as it was at the last sync unless that file was changed since, or the
\* FAT itself was being rewritten (flash_fs.c:137).  A name over 13 characters
\* makes a second file of the same name (flash_fs.c:347); renaming the one that
\* is found then leaves the other.
THEOREM FileStoreImplemented ==
  ASSUME \A b \in BadNames : Truncated[b] \notin FileNames
  PROVE  Spec => ImplementsFileStore
<1>1. NamesFit
  BY DEF NamesFit
<1>2. Init => StoreInv /\ Store!Init
  BY StoreInit
<1>3. StoreInv /\ [Next]_vars => StoreInv' /\ [Store!Next]_(Store!vars)
  BY <1>1, StoreNext DEF StoreStep
<1>4. QED
  BY <1>2, <1>3, PTL DEF Spec, ImplementsFileStore, Store!Spec


=============================================================================
