------------------------------- MODULE Fat16 -------------------------------
(***************************************************************************)
(* The FAT16 reader (fs/fat16_nocache.c): files are found by path and read *)
(* block by block through one sector buffer, which file blocks, directory  *)
(* sectors and the FAT share, and a second buffer for the start of a long  *)
(* name that lies in the sector before.                                    *)
(*                                                                         *)
(* A step reads at most one directory sector (and the FAT sector that      *)
(* leads to it).  Any read may fail, MaxFaults of them do, and the card    *)
(* may be changed while the block device is stopped.  What is on the cards *)
(* is given: the geometry, the FAT and the entries of the directories.     *)
(* The content of a sector is known by its number.                         *)
(***************************************************************************)
EXTENDS Fat16Disk

CONSTANTS
  MaxFaults,     \* bound on the reads that fail
  MaxSwaps       \* bound on the changes of the card

ASSUME Fat16Assumption == MaxFaults \in Nat /\ MaxSwaps \in Nat

VARIABLES
  card, started,     \* the card in the slot; FileOperationsStart has worked
  temp,              \* temp_buffer, as <<card, sector>>, and temp_sector
  scan,              \* scan_cluster_no, scan_sector_no, scan_sectors_left
  prev_cluster,
  fe,                \* name, attributes (dir), start_cluster, file_size
  file,              \* file_cluster, file_sector, file_size_left
  call,              \* the call in progress: what, where it is, the path left
  out,               \* what the last call returned
  open,              \* history: the file being read and the blocks returned
  faults, swaps      \* for the bounds

vars == <<card, started, temp, scan, prev_cluster, fe, file, call, out, open,
          faults, swaps>>

Garbage == <<"none", 0>>
NoSector == -1
NoName == <<>>
Idle == [op |-> "none", at |-> "idle", asked |-> <<>>, todo |-> <<>>, message |-> FALSE]
Nothing == [what |-> "none", size |-> 0, asked |-> <<>>]
NotOpen == [file |-> FALSE, cluster |-> 0, size |-> 0, blocks |-> 0, failed |-> FALSE]

Volume == Cards[card]
Sector(cluster, n) == ClusterSector(Volume, cluster, n)

-----------------------------------------------------------------------------
(* Reading.  t is temp_buffer and temp_sector; a read that fails leaves    *)
(* anything in the buffer.                                                 *)

\* Mutant: temp_sector is not forgotten when a read fails.
FailedStale(t) == [t EXCEPT !.buffer = Garbage]

Failed(t) == [buffer |-> Garbage, sector |-> NoSector]

Cached(t, n) == t.sector = n
Fails(t, n, fail) == fail /\ ~ Cached(t, n)
ReadToTempBuffer(t, n, fail) ==
  IF Cached(t, n) THEN t
  ELSE IF fail THEN Failed(t)
  ELSE [buffer |-> <<card, n>>, sector |-> n]

\* The FAT entry and the directory that a buffer holds.
GetFATEntry(buffer, cluster) ==
  IF buffer = <<card, FatSector(cluster)>> /\ cluster \in DOMAIN Volume.fat
  THEN Volume.fat[cluster] ELSE 0
Directory(buffer) ==
  DirectorySector(Volume, IF buffer[1] = card THEN buffer[2] ELSE NoSector)

CountFault(failed) ==
  /\ failed => faults < MaxFaults
  /\ faults' = IF failed THEN faults + 1 ELSE faults

\* A call returns: the size of a block, of the file, the end of the file,
\* "File not found", or another error.
Return(what, size) ==
  /\ out' = [what |-> what, size |-> size, asked |-> call.asked]
  /\ call' = Idle
Error == Return("error", 0)
Continue(at, message) ==
  /\ call' = [call EXCEPT !.at = at, !.message = message]
  /\ out' = Nothing

-----------------------------------------------------------------------------
(* The card and the block device.                                          *)

Init ==
  /\ card \in DOMAIN Cards /\ started = FALSE
  /\ temp = [buffer |-> Garbage, sector |-> 0]
  /\ scan = [cluster |-> 0, sector |-> 0, left |-> 0] /\ prev_cluster = 0
  /\ fe = [name |-> NoName, dir |-> FALSE, cluster |-> 0, size |-> 0]
  /\ file = [cluster |-> 0, sector |-> 0, left |-> 0]
  /\ call = Idle /\ out = Nothing
  /\ open = NotOpen
  /\ faults = 0 /\ swaps = 0

SwapCard ==
  /\ ~ started /\ swaps < MaxSwaps
  /\ card' \in DOMAIN Cards \ {card}
  /\ swaps' = swaps + 1
  /\ UNCHANGED <<started, temp, scan, prev_cluster, fe, file, call, out, open, faults>>

\* The partition table and the boot sector are read past temp_sector, which
\* only at the end is made to say that nothing is cached.
FileOperationsStart(fail) ==
  /\ ~ started
  /\ CountFault(fail)
  /\ started' = (~ fail /\ Volume.fat16)
  /\ temp' = [buffer |-> IF fail THEN Garbage ELSE <<card, 1>>,
              sector |-> IF started' THEN NoSector ELSE temp.sector]
  /\ IF started' THEN Return("none", 0) ELSE Error
  /\ UNCHANGED <<card, scan, prev_cluster, fe, file, open, swaps>>

FileOperationsEnd ==
  /\ started /\ call = Idle
  /\ started' = FALSE
  /\ out' = Nothing
  /\ open' = NotOpen
  /\ UNCHANGED <<card, temp, scan, prev_cluster, fe, file, call, faults, swaps>>

-----------------------------------------------------------------------------
(* FileFind: the root directory, then the directories along the path.      *)

StartFolderScan(sector, newScan, newCall, fail) ==
  LET failed == Fails(temp, sector, fail)
  IN /\ fail => failed
     /\ CountFault(failed)
     /\ temp' = ReadToTempBuffer(temp, sector, fail)
     /\ scan' = IF failed THEN scan ELSE newScan
     /\ IF failed
        THEN /\ out' = [what |-> "error", size |-> 0, asked |-> newCall.asked]
             /\ call' = Idle
        ELSE call' = newCall /\ out' = Nothing

Call(op, path, fail) ==
  /\ started /\ call = Idle
  /\ StartFolderScan(root_directory_sector_no(Volume),
       [cluster |-> 0, sector |-> root_directory_sector_no(Volume) + 1,
        left |-> Volume.root_sectors - 1],
       [op |-> op, at |-> "sector", asked |-> path, todo |-> path, message |-> FALSE],
       fail)
  /\ UNCHANGED <<card, started, prev_cluster, fe, file, open, swaps>>

FileFind(op, fail) == \E path \in Paths : Call(op, path, fail)

\* A component of the path has been searched for and it is not the last.
EnterDirectory(fail) ==
  /\ call.at = "found" /\ Len(call.todo) > 1
  /\ fe.name # NoName /\ fe.dir
  /\ StartFolderScan(Sector(fe.cluster, 0),
       [scan EXCEPT !.cluster = fe.cluster, !.sector = 1],
       [call EXCEPT !.at = "sector", !.todo = Tail(@), !.message = FALSE],
       fail)
  /\ UNCHANGED <<card, started, prev_cluster, fe, file, open, swaps>>

NotFound ==
  /\ call.at = "found"
  /\ fe.name = NoName \/ fe.dir = (Len(call.todo) = 1)
  /\ Return("missing", 0)
  /\ UNCHANGED <<card, started, temp, scan, prev_cluster, fe, file, open, faults, swaps>>

-----------------------------------------------------------------------------
(* FileFindInternal: the entries of the sector in temp_buffer.             *)

IsLong(e) == e.kind \in {"long", "erased"}
Listed(dir) == {i \in 1..Entries :
  dir[i].kind = "file" /\ \A j \in 1..i : dir[j].kind # "free"}
Ended(dir) == \E i \in 1..Entries : dir[i].kind = "free"

\* Mutant: the sector before is looked for in the same cluster.
BackInCluster ==
  IF scan.cluster = 0 THEN scan.sector - 2 ELSE Sector(scan.cluster, scan.sector - 2)

\* FolderScanBack: the sector before, for a name that begins in it.
Back ==
  IF scan.cluster = 0 THEN scan.sector - 2
  ELSE IF scan.sector >= 2 THEN Sector(scan.cluster, scan.sector - 2)
  ELSE Sector(prev_cluster, Volume.sectors_per_cluster - 1)

\* A long name is read only if its first piece is in the same sector.
HasLongName(dir, i) == i > 1 /\ IsLong(dir[i - 1])
NeedsBack(dir, i) == HasLongName(dir, i) /\ \A j \in 1..(i - 1) : ~ dir[j].last

ReadLongFileName(both, last) ==
  LET first == Max({j \in 1..last : both[j].last} \cup {1})
  IN FlattenSeq([n \in 1..(last - first + 1) |-> both[last + 1 - n].name])
ReadFileName(dir, i) ==
  IF HasLongName(dir, i)
  THEN ReadLongFileName(Directory(<<card, Back>>) \o dir, Entries + i - 1)
  ELSE dir[i].name

SearchSector(fail) ==
  /\ call.at = "sector"
  /\ LET dir == Directory(temp.buffer)
         hits == {i \in Listed(dir) : ReadFileName(dir, i) = Head(call.todo)}
         read == {i \in Listed(dir) : \A j \in hits : i <= j}
         back == \E i \in read : NeedsBack(dir, i)
         message == call.message \/ \E i \in read : HasLongName(dir, i)
     IN /\ fail => back
        /\ CountFault(fail)
        /\ fe' = IF fail THEN [fe EXCEPT !.name = <<"part">>]
                 ELSE IF hits # {}
                 THEN LET e == dir[Min(hits)]
                      IN [name |-> Head(call.todo), dir |-> e.dir,
                          cluster |-> e.cluster, size |-> e.size]
                 ELSE IF Ended(dir) THEN [fe EXCEPT !.name = NoName]
                 ELSE IF read # {} THEN [fe EXCEPT !.name = ReadFileName(dir, Max(read))]
                 ELSE fe
        /\ IF fail THEN Error
           ELSE Continue(IF hits # {} \/ Ended(dir) THEN "found" ELSE "more", message)
  /\ UNCHANGED <<card, started, temp, scan, prev_cluster, file, open, swaps>>

-----------------------------------------------------------------------------
(* FolderScan: the next sector of the directory.  Without one the search   *)
(* ends and fe stays as it is.                                             *)

ScanRoot(fail) ==
  /\ call.at = "more" /\ scan.cluster = 0 /\ scan.left > 0
  /\ fail => ~ Cached(temp, scan.sector)
  /\ CountFault(fail)
  /\ temp' = ReadToTempBuffer(temp, scan.sector, fail)
  /\ scan' = IF fail THEN scan ELSE [scan EXCEPT !.sector = @ + 1, !.left = @ - 1]
  /\ IF fail THEN Error ELSE Continue("sector", TRUE)
  /\ UNCHANGED <<card, started, prev_cluster, fe, file, open, swaps>>

\* FolderScan returns without *error_message, which the caller then looks at:
\* when nothing has set it before, it may be anything.
ScanRootEnd ==
  /\ call.at = "more" /\ scan.cluster = 0 /\ scan.left = 0
  /\ \/ Continue("found", call.message)
     \/ ~ call.message /\ Error
  /\ UNCHANGED <<card, started, temp, scan, prev_cluster, fe, file, open, faults, swaps>>

ScanCluster(fail) ==
  /\ call.at = "more" /\ scan.cluster # 0
  /\ scan.sector # Volume.sectors_per_cluster
  /\ LET n == Sector(scan.cluster, scan.sector)
     IN /\ fail => ~ Cached(temp, n)
        /\ temp' = ReadToTempBuffer(temp, n, fail)
  /\ CountFault(fail)
  /\ scan' = IF fail THEN scan ELSE [scan EXCEPT !.sector = @ + 1]
  /\ IF fail THEN Error ELSE Continue("sector", TRUE)
  /\ UNCHANGED <<card, started, prev_cluster, fe, file, open, swaps>>

\* The FAT is read (unless failFat), then the first sector of the next cluster.
ScanNextCluster(failFat, fail) ==
  /\ call.at = "more" /\ scan.cluster # 0
  /\ scan.sector = Volume.sectors_per_cluster
  /\ prev_cluster' = scan.cluster
  /\ LET t == ReadToTempBuffer(temp, FatSector(scan.cluster), failFat)
         next == GetFATEntry(t.buffer, scan.cluster)
         n == Sector(next, 0)
         bad == failFat \/ BadFATEntry(next)
         ends == ~ bad /\ NextCluster(next) = 0
     IN /\ failFat => ~ fail /\ ~ Cached(temp, FatSector(scan.cluster))
        /\ fail => ~ bad /\ ~ ends
        /\ CountFault(failFat \/ fail)
        /\ temp' = IF bad \/ ends THEN t ELSE ReadToTempBuffer(t, n, fail)
        /\ scan' = IF bad \/ ends THEN [scan EXCEPT !.cluster = 0]
                   ELSE [scan EXCEPT !.cluster = next, !.sector = IF fail THEN 0 ELSE 1]
        /\ IF bad \/ fail THEN Error
           ELSE Continue(IF ends THEN "found" ELSE "sector", TRUE)
  /\ UNCHANGED <<card, started, fe, file, open, swaps>>

-----------------------------------------------------------------------------
(* The file is found: its size, or its blocks.                             *)

FileGetSize ==
  /\ call.at = "found" /\ call.op = "size"
  /\ Len(call.todo) = 1 /\ fe.name # NoName /\ ~ fe.dir
  /\ Return("size", fe.size)
  /\ UNCHANGED <<card, started, temp, scan, prev_cluster, fe, file, open, faults, swaps>>

FileReadFirstBlock(fail) ==
  /\ call.at = "found" /\ call.op = "first"
  /\ Len(call.todo) = 1 /\ fe.name # NoName /\ ~ fe.dir
  /\ CountFault(fail)
  /\ LET n == Sector(fe.cluster, 0)
         size == Min({fe.size, BLOCK_SIZE})
     IN /\ fail => ~ Cached(temp, n)
        /\ temp' = ReadToTempBuffer(temp, n, fail)
        /\ IF fail THEN Error /\ UNCHANGED <<file, open>>
           ELSE /\ Return("block", size)
                /\ file' = [cluster |-> fe.cluster, sector |-> 1, left |-> fe.size - size]
                /\ open' = [file |-> TRUE, cluster |-> fe.cluster, size |-> fe.size,
                            blocks |-> 1, failed |-> FALSE]
  /\ UNCHANGED <<card, started, scan, prev_cluster, fe, swaps>>

\* FileReadNextBlock: past the end, within a cluster, and at its end, where
\* the FAT is read into the buffer that the block was read into.

Reading == started /\ call = Idle /\ open.file

\* Mutant: the sector just read is taken for the next one.
AtClusterEndLate(left, sector) == left > 0 /\ sector - 1 = Volume.sectors_per_cluster

AtClusterEnd(left, sector) == left > 0 /\ sector = Volume.sectors_per_cluster

ReadPastEnd ==
  /\ Reading /\ file.left = 0
  /\ Return("end", 0)
  /\ UNCHANGED <<card, started, temp, scan, prev_cluster, fe, file, open, faults, swaps>>

FileReadNextBlock(fail, failFat) ==
  /\ Reading /\ file.left > 0
  /\ LET n == Sector(file.cluster, file.sector)
         size == Min({file.left, BLOCK_SIZE})
         left == file.left - size
         crosses == ~ fail /\ AtClusterEnd(left, file.sector + 1)
         t == ReadToTempBuffer(temp, n, fail)
         fat == ReadToTempBuffer(t, FatSector(file.cluster), failFat)
         next == GetFATEntry(fat.buffer, file.cluster)
         bad == crosses /\ (failFat \/ BadFATEntry(next))
     IN /\ fail => ~ Cached(temp, n)
        /\ failFat => crosses
        /\ CountFault(fail \/ failFat)
        /\ temp' = IF crosses THEN fat ELSE t
        /\ file' = [cluster |-> IF bad THEN 0 ELSE IF crosses THEN NextCluster(next) ELSE file.cluster,
                    sector |-> IF crosses /\ ~ bad THEN 0 ELSE file.sector + 1,
                    left |-> IF fail THEN file.left ELSE left]
        /\ prev_cluster' = IF crosses THEN file.cluster ELSE prev_cluster
        /\ IF fail \/ bad
           THEN Error /\ open' = [open EXCEPT !.failed = TRUE]
           ELSE Return("block", size) /\ open' = [open EXCEPT !.blocks = @ + 1]
  /\ UNCHANGED <<card, started, scan, fe, swaps>>

-----------------------------------------------------------------------------

Next ==
  \/ SwapCard
  \/ FileOperationsEnd
  \/ NotFound \/ ScanRootEnd \/ FileGetSize \/ ReadPastEnd
  \/ \E fail \in BOOLEAN :
       \/ FileOperationsStart(fail)
       \/ \E op \in {"first", "size"} : FileFind(op, fail)
       \/ EnterDirectory(fail)
       \/ SearchSector(fail)
       \/ ScanRoot(fail)
       \/ ScanCluster(fail)
       \/ FileReadFirstBlock(fail)
       \/ \E failFat \in BOOLEAN :
            \/ ScanNextCluster(failFat, fail)
            \/ FileReadNextBlock(fail, failFat)

Spec == Init /\ [][Next]_vars
-----------------------------------------------------------------------------
(* FileFind, through a buffer that the FAT is read into as well, with names *)
(* that begin in the sector before, possibly of another cluster, after      *)
(* failed reads, other files and other cards: a path is found exactly when  *)
(* it is there, and the size and the first cluster are its own.             *)
LookupsExact ==
  (out.asked # <<>> /\ out.what # "error") =>
    LET walk == Walks[card][out.asked]
        e == walk[Len(out.asked)]
    IN (\A n \in 0..(Len(out.asked) - 1) : walk[n].dir => Readable(Contents[card][walk[n].cluster])) =>
         /\ out.what = "missing" <=> (e = Free \/ e.dir)
         /\ out.what = "size" => out.size = e.size
         /\ out.what = "block" => open.cluster = e.cluster /\ open.size = e.size

(* FileReadFirstBlock and FileReadNextBlock: with other calls in between,   *)
(* the nth block has the nth block's size and the buffer holds the nth      *)
(* sector of the chain - except for the last block of a cluster that is     *)
(* not the last of the file: there it holds the FAT.  The file ends where   *)
(* its size says.  (Not with one sector per cluster, where the chain is not *)
(* followed, and not after a failed call, which may have skipped a block.)  *)
BlocksOfTheFile ==
  (open.file /\ ~ open.failed /\ Volume.sectors_per_cluster > 1) =>
    LET n == open.blocks
        rest == open.size - n * BLOCK_SIZE
    IN /\ out.what = "block" =>
            /\ out.size = Min({BLOCK_SIZE, rest + BLOCK_SIZE})
            /\ open.size > 0 =>
               temp.buffer = <<card,
                 IF n % Volume.sectors_per_cluster = 0 /\ rest > 0
                 THEN FatSector(ClusterAt(Volume, open.cluster, (n - 1) \div Volume.sectors_per_cluster))
                 ELSE BlockSector(Volume, open.cluster, n)>>
       /\ out.what = "end" => rest <= 0 /\ (rest > -BLOCK_SIZE \/ open.size = 0)
=============================================================================
