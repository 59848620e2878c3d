------------------------------ MODULE FlashFAT ------------------------------
(***************************************************************************)
(* The file allocation table of fs/flash_fs.c and the functions that read  *)
(* and edit it in RAM.  No variables: a FAT is a record, an edit is an     *)
(* operator from FATs to FATs.  FlashFS.tla holds the state machine.       *)
(*                                                                         *)
(* The flash is FILE_ENTRY_COUNT + 1 erase blocks.  Block 0 holds the FAT, *)
(* block c (1..FILE_ENTRY_COUNT) is "cluster" c.  The C array              *)
(* cluster_table[c-1] is cluster_table[c] here; its value is 0 (free), the *)
(* next cluster of the file, or FAT_END_CLUSTER.                           *)
(***************************************************************************)
EXTENDS Integers, Sequences, FiniteSets

CONSTANTS
  FILE_ENTRY_COUNT,  \* data clusters, and also directory entries
  ERASE_SIZE,        \* FLASH_FS_MINIMUM_ERASE_SIZE, bytes in a block
  SIZE_MOD,          \* 2^16: FileEntry.size is an unsigned short
  FileNames,         \* names FlashFSInternalFileFind accepts
  BadNames,          \* names it answers EINVAL for: empty, or over 13 chars
  Truncated          \* what strncpy(.., 13) keeps of a bad name

NoName == "no name"  \* an entry never used: memset to 0 by FlashFSFormat

FAT_END_CLUSTER == 255

ASSUME FATAssumption ==
  /\ FILE_ENTRY_COUNT \in 1..(FAT_END_CLUSTER - 1)
  /\ ERASE_SIZE \in Nat \ {0}
  /\ SIZE_MOD \in Nat \ {0}
  /\ FileNames \cap BadNames = {}
  /\ NoName \notin FileNames
  /\ Truncated \in [BadNames -> FileNames \cup {NoName}]

Clusters == 1..FILE_ENTRY_COUNT
Entries == 0..(FILE_ENTRY_COUNT - 1)
MAX_FREE_SIZE == FILE_ENTRY_COUNT * ERASE_SIZE

FileEntries == [size : 0..(SIZE_MOD - 1), first_cluster : 0..FILE_ENTRY_COUNT,
                name : FileNames \cup {NoName}]
ClusterTables == [Clusters -> 0..FILE_ENTRY_COUNT \cup {FAT_END_CLUSTER}]
FATs == [file_entries : [Entries -> FileEntries], free_size : Int,
         cluster_table : ClusterTables]

FormattedFAT ==
  [file_entries |-> [e \in Entries |->
                      [size |-> 0, first_cluster |-> 0, name |-> NoName]],
   free_size |-> MAX_FREE_SIZE,
   cluster_table |-> [c \in Clusters |-> 0]]

\* Blocks a file of this length occupies.
Blocks(length) == length \div ERASE_SIZE
                  + (IF length % ERASE_SIZE # 0 THEN 1 ELSE 0)

-----------------------------------------------------------------------------
(* Chains.                                                                 *)

\* "c = cluster_table[c - 1]"; a value that is no cluster is kept.
NextCluster(table, c) == IF c \in Clusters THEN table[c] ELSE c

\* Where that loop stands after i steps from c.
Walk(table, c) ==
  LET w[i \in 0..FILE_ENTRY_COUNT] ==
        IF i = 0 THEN c ELSE NextCluster(table, w[i - 1])
  IN w

\* The clusters of the walk.
Chain(table, c) ==
  {d \in Clusters : \E i \in 0..FILE_ENTRY_COUNT : Walk(table, c)[i] = d}

\* A walk that does not go round in circles is over after FILE_ENTRY_COUNT
\* steps, at the end mark or at a free cluster.
LastOf(table, c) == Walk(table, c)[FILE_ENTRY_COUNT]

Used(fat) == {e \in Entries : fat.file_entries[e].first_cluster # 0}
Free(fat) == {c \in Clusters : fat.cluster_table[c] = 0}

FileWalk(fat, e) == Walk(fat.cluster_table, fat.file_entries[e].first_cluster)

-----------------------------------------------------------------------------
(* FlashFSValidateFAT returns 0.                                           *)

\* The chain has as many clusters as the size needs, then the end mark.
ValidEntry(fat, e) ==
  LET n == Blocks(fat.file_entries[e].size)
  IN /\ n \in 1..FILE_ENTRY_COUNT
     /\ FileWalk(fat, e)[n - 1] \in Clusters
     /\ FileWalk(fat, e)[n] = FAT_END_CLUSTER

\* The sum over the entries; a cluster of two chains counts twice.
UsedSize(fat) ==
  ERASE_SIZE * Cardinality({p \in Used(fat) \X Clusters :
                              p[2] <= Blocks(fat.file_entries[p[1]].size)})

\* Mutant: only the free size is compared.
ValidateFATFreeSizeOnly(fat) ==
  /\ fat.free_size \in 0..MAX_FREE_SIZE
  /\ fat.free_size = ERASE_SIZE * Cardinality(Free(fat))

ValidateFAT(fat) ==
  /\ fat.free_size \in 0..MAX_FREE_SIZE
  /\ \A e \in Used(fat) : ValidEntry(fat, e)
  /\ fat.free_size = ERASE_SIZE * Cardinality(Free(fat))
  /\ UsedSize(fat) + fat.free_size = MAX_FREE_SIZE

-----------------------------------------------------------------------------
(* FlashFSInternalFileFind: the first used entry of that name, for a name  *)
(* it accepts.                                                             *)

Matching(fat, n) == {e \in Used(fat) : fat.file_entries[e].name = n}
Found(fat, n) == n \in FileNames /\ Matching(fat, n) # {}
FileFind(fat, n) ==
  CHOOSE e \in Matching(fat, n) : \A f \in Matching(fat, n) : e <= f

-----------------------------------------------------------------------------
(* FlashFSBuildClusterList and FlashFSContinueClusterList scan the table   *)
(* upwards, so they take the lowest free clusters and link them in order.  *)
(* When the free clusters run out first (ENOMEM) they have taken them all  *)
(* and the last one has no end mark.                                       *)

Lowest(S, k) ==
  CHOOSE T \in SUBSET S :
    /\ Cardinality(T) = k
    /\ \A c \in T, d \in S \ T : c < d

Taken(fat, k) == IF Cardinality(Free(fat)) < k THEN Free(fat)
                                               ELSE Lowest(Free(fat), k)

Least(S) == CHOOSE c \in S : \A d \in S : c <= d

\* Mutant: links hold cluster numbers that are one too high.
AllocateLinksOffByOne(fat, k) ==
  LET T == Taken(fat, k)
      Link(c) == LET after == {d \in T : d > c}
                 IN IF after = {} THEN FAT_END_CLUSTER ELSE Least(after) + 1
  IN [fat EXCEPT
        !.free_size = @ - ERASE_SIZE * Cardinality(T),
        !.cluster_table = [c \in Clusters |-> IF c \in T THEN Link(c) ELSE @[c]]]

Allocate(fat, k) ==
  LET T == Taken(fat, k)
      last == IF Cardinality(T) = k THEN FAT_END_CLUSTER ELSE 0
      Link(c) == LET after == {d \in T : d > c}
                 IN IF after = {} THEN last ELSE Least(after)
  IN [fat EXCEPT
        !.free_size = @ - ERASE_SIZE * Cardinality(T),
        !.cluster_table = [c \in Clusters |-> IF c \in T THEN Link(c) ELSE @[c]]]

\* The first cluster taken is linked to the entry or to the file's tail.
BuildClusterList(fat, e, length) ==
  LET T == Taken(fat, Blocks(length))
  IN [Allocate(fat, Blocks(length)) EXCEPT
        !.file_entries[e].first_cluster = IF T = {} THEN 0 ELSE Least(T)]

ContinueClusterList(fat, tail, delta) ==
  LET T == Taken(fat, delta)
  IN [Allocate(fat, delta) EXCEPT
        !.cluster_table[tail] = IF T = {} THEN @ ELSE Least(T)]

\* Mutant: clusters are freed and free_size is forgotten.
ReleaseKeepsFreeSize(fat, S) ==
  [fat EXCEPT !.cluster_table = [c \in Clusters |-> IF c \in S THEN 0 ELSE @[c]]]

\* Unlinks and frees every cluster of S.
Release(fat, S) ==
  [fat EXCEPT
     !.free_size = @ + ERASE_SIZE * Cardinality(S),
     !.cluster_table = [c \in Clusters |-> IF c \in S THEN 0 ELSE @[c]]]

\* Mutant: a file that shrinks gets no new end mark.
UpdateClusterListNoEndMark(fat, e, length) ==
  LET current == Blocks(fat.file_entries[e].size)
      required == Blocks(length)
      At == FileWalk(fat, e)
  IN CASE required > current ->
            ContinueClusterList(fat, At[current - 1], required - current)
       [] required < current ->
            Release(fat, {At[i] : i \in required..(current - 1)})
       [] OTHER -> fat

\* FlashFSUpdateClusterList, for the branches that succeed.
UpdateClusterList(fat, e, length) ==
  LET current == Blocks(fat.file_entries[e].size)
      required == Blocks(length)
      At == FileWalk(fat, e)
  IN CASE required > current ->
            ContinueClusterList(fat, At[current - 1], required - current)
       [] required < current ->
            [Release(fat, {At[i] : i \in required..(current - 1)}) EXCEPT
               !.cluster_table[At[required - 1]] = FAT_END_CLUSTER]
       [] OTHER -> fat

\* Room for the extra blocks; FlashFSUpdateClusterList answers ENOSPC
\* otherwise.
CanGrow(fat, e, length) ==
  (Blocks(length) - Blocks(fat.file_entries[e].size)) * ERASE_SIZE
    <= fat.free_size

SetSize(fat, e, length) ==
  [fat EXCEPT !.file_entries[e].size = length % SIZE_MOD]

\* FlashFSFileDelete: a chain that ends at a free cluster, or loops back to
\* one the loop has just freed, is freed but the entry stays (ENOMEM).
DeleteFile(fat, e) ==
  LET first == fat.file_entries[e].first_cluster
      freed == Release(fat, Chain(fat.cluster_table, first))
  IN IF LastOf(fat.cluster_table, first) = FAT_END_CLUSTER
     THEN [freed EXCEPT !.file_entries[e].first_cluster = 0]
     ELSE freed

\* What strncpy leaves in an entry for a name.
Stored(n) == IF n \in BadNames THEN Truncated[n] ELSE n

SetName(fat, e, n) == [fat EXCEPT !.file_entries[e].name = Stored(n)]

=============================================================================
