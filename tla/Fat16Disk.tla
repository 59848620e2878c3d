----------------------------- MODULE Fat16Disk -----------------------------
(***************************************************************************)
(* The cards that the FAT16 reader reads: where fs/fat16_nocache.c says     *)
(* that things lie, and which entry a path leads to, said of the card       *)
(* without the reader's state.                                              *)
(***************************************************************************)
EXTENDS Integers, Sequences, SequencesExt

CONSTANTS
  Cards,         \* card -> its geometry and contents, a volume
  Paths,         \* bound: the paths asked for, sequences of names
  BLOCK_SIZE,    \* bytes in a sector
  FatEntries,    \* FAT entries in a sector
  Entries        \* directory entries in a sector

EndOfChain == 99

\* A directory entry.  Kinds: free, file (also a subdirectory), label, deleted,
\* long (a piece of a long name, "last" has 0x40) and erased (a deleted piece).
Free == [kind |-> "free", name |-> <<>>, last |-> FALSE, dir |-> FALSE,
         cluster |-> 0, size |-> 0]

ASSUME Fat16DiskAssumption ==
  /\ {BLOCK_SIZE, FatEntries, Entries} \subseteq Nat \ {0}
  /\ \A c \in DOMAIN Cards :
       LET v == Cards[c]
       IN /\ v.fat16 \in BOOLEAN  \* FileOperationsStart accepts it
          /\ {v.sectors_per_cluster, v.fat_sectors, v.root_sectors} \subseteq Nat \ {0}
          /\ \A n \in DOMAIN v.directory : Len(v.directory[n]) = Entries

-----------------------------------------------------------------------------
(* The layout of a volume, in sectors.                                     *)

first_fat_sector == 2
root_directory_sector_no(v) == first_fat_sector + v.fat_sectors
first_data_sector(v) == root_directory_sector_no(v) + v.root_sectors
ClusterSector(v, cluster, n) ==
  n + first_data_sector(v) + (cluster - 2) * v.sectors_per_cluster

FatSector(cluster) == first_fat_sector + cluster \div FatEntries

\* GetNextCluster: the next cluster, 0 at the end, or an error.
BadFATEntry(next) == next < 2
NextCluster(next) == IF next = EndOfChain THEN 0 ELSE next

-----------------------------------------------------------------------------
(* Chains and directories.                                                 *)

\* The nth cluster, from 0, of the chain that starts at a cluster; 0 is none.
ClusterAt(v, first, n) ==
  LET at[k \in 0..n] ==
        IF k = 0 THEN first
        ELSE LET before == at[k - 1]
             IN IF before \in DOMAIN v.fat THEN NextCluster(v.fat[before]) ELSE 0
  IN at[n]

\* The sector of the nth block, from 1, of a file.
BlockSector(v, first, n) ==
  ClusterSector(v, ClusterAt(v, first, (n - 1) \div v.sectors_per_cluster),
                (n - 1) % v.sectors_per_cluster)

SectorsOf(v, first) ==
  LET blocks == {n \in 1..(Cardinality(DOMAIN v.fat) * v.sectors_per_cluster) :
                   ClusterAt(v, first, (n - 1) \div v.sectors_per_cluster) # 0}
  IN IF first = 0
     THEN [n \in 1..v.root_sectors |-> root_directory_sector_no(v) + n - 1]
     ELSE [n \in blocks |-> BlockSector(v, first, n)]

DirectorySector(v, n) ==
  IF n \in DOMAIN v.directory THEN v.directory[n] ELSE [i \in 1..Entries |-> Free]

\* Per card and first cluster (0 is the root directory): the entries up to the
\* first free one, and whether there is a free one.
Contents ==
  [c \in DOMAIN Cards |-> [first \in {0} \cup DOMAIN Cards[c].fat |->
     LET v == Cards[c]
         sectors == SectorsOf(v, first)
         all == FlattenSeq([n \in DOMAIN sectors |-> DirectorySector(v, sectors[n])])
         frees == {i \in DOMAIN all : all[i].kind = "free"}
     IN [entries |-> SubSeq(all, 1, Min(frees \cup {Len(all) + 1}) - 1),
         ends |-> frees # {}]]]

\* The name of a file: the pieces in front of its entry, backwards up to the
\* last, or else the name in the entry.
NameOf(es, i) ==
  LET from == {j \in 1..(i - 1) : es[j].last /\ \A k \in j..(i - 1) : es[k].kind = "long"}
  IN IF from = {} THEN es[i].name
     ELSE FlattenSeq([n \in 1..(i - Max(from)) |-> es[i - n].name])

Lookup(es, name) ==
  LET found == {i \in DOMAIN es : es[i].kind = "file" /\ NameOf(es, i) = name}
  IN IF found = {} THEN Free ELSE es[Min(found)]

\* Per card and path: the entries along the path, from the root directory on.
Walks ==
  [c \in DOMAIN Cards |-> [path \in Paths |->
     LET step[n \in 0..Len(path)] ==
           IF n = 0 THEN [Free EXCEPT !.dir = TRUE]
           ELSE LET before == step[n - 1]
                IN IF before.dir
                   THEN Lookup(Contents[c][before.cluster].entries, path[n])
                   ELSE Free
     IN step]]

\* What the reader does not cope with: a directory whose last sector is full
\* (a search that finds nothing leaves the last name in fe), a long name whose
\* file has the first entry of a sector, erased pieces right before a file.
Readable(directory) ==
  LET es == directory.entries
      files == {i \in DOMAIN es : es[i].kind = "file" /\ i > 1}
  IN /\ directory.ends
     /\ \A i \in files : es[i - 1].kind = "long" => i % Entries # 1
     /\ \A i \in files : es[i - 1].kind # "erased"
=============================================================================
