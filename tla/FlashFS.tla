------------------------------- MODULE FlashFS -------------------------------
(***************************************************************************)
(* The flash file system (fs/flash_fs.c) driven by its shell commands      *)
(* (shell/flash_fs_commands.c), the only caller in the repository.         *)
(*                                                                         *)
(* A command edits the FAT in RAM in one go, then erases and programs the  *)
(* file's blocks one after the other, then erases and programs the FAT     *)
(* block (FlashFSSync).  Every erase and every program may fail, and the   *)
(* power may go between any two of them: RAM is lost, flash stays.         *)
(*                                                                         *)
(* The board's FlashFSErase/FlashFSWrite are external; a failing one may   *)
(* or may not have changed the block.  At most MaxFaults of them fail.     *)
(***************************************************************************)
EXTENDS FlashFAT

CONSTANTS
  Values,      \* what a user may put in a file
  Lengths,     \* lengths in bytes of the contents users give
  MaxFaults    \* bound on the accesses to the flash that fail in a behaviour

ASSUME FlashFSAssumption ==
  /\ Lengths \subseteq 1..(SIZE_MOD - 1)
  /\ MaxFaults \in Nat

VARIABLES
  mounted,    \* data # NULL
  fat,        \* data->fat.file_table; FormattedFAT when not mounted
  flash,      \* contents of the data clusters
  flash_fat,  \* block 0: a FAT and how much of it has been programmed
  cmd,        \* the command in progress
  dirty,      \* history: names changed since the last FlashFSSync that worked
  faults      \* accesses to the flash that have failed, for the bound

vars == <<mounted, fat, flash, flash_fat, cmd, dirty, faults>>

-----------------------------------------------------------------------------
(* A block holds part number i of some value, or nothing a user wrote.     *)

Blank == <<"blank", 0>>
Parts(v, length) == [i \in 1..Blocks(length) |-> <<v, i>>]
Tokens == (Values \X Nat) \cup {Blank}

(* Block 0 is programmed upwards: file_entries, free_size, cluster_table.  *)
(* "programmed" counts the table bytes written; -1 says that free_size is  *)
(* not complete.  Erased bytes read 0xFF, which in the table is the end    *)
(* mark, and which as free_size is above MAX_FREE_SIZE.                    *)

Programmed == -1..FILE_ENTRY_COUNT
FlashFATs == [fat : FATs, programmed : Programmed]

Image(ff) ==
  [ff.fat EXCEPT
     !.free_size = IF ff.programmed = -1 THEN MAX_FREE_SIZE + 1 ELSE @,
     !.cluster_table = [c \in Clusters |->
        IF c <= ff.programmed THEN @[c] ELSE FAT_END_CLUSTER]]

Mountable == ValidateFAT(Image(flash_fat))

-----------------------------------------------------------------------------
(* What FlashFSFileRead returns for a name under a FAT.                    *)

\* Past the end of a broken chain there is nothing a user wrote.
Contents(c) == IF c \in Clusters THEN flash[c] ELSE Blank

Absent == [size |-> 0, blocks |-> <<>>]

ReadFile(f, n) ==
  IF ~Found(f, n) THEN Absent
  ELSE LET fe == f.file_entries[FileFind(f, n)]
       IN [size |-> fe.size,
           blocks |-> [i \in 1..Blocks(fe.size) |->
              Contents(FileWalk(f, FileFind(f, n))[i - 1])]]

-----------------------------------------------------------------------------
(* A command in progress.  phase: what FlashFSInternalWrite or FlashFSSync *)
(* does next; name: the file being written; contents: the caller's buffer, *)
(* as long as it was allocated; cluster, left, part: the loop's c, length  *)
(* and pointer into the buffer.  source: the file a cp reads.              *)
(* always_sync: the command calls FlashFSSync also after a failed write    *)
(* (cp to a new file).  unmount: FlashFSUnmount frees the FAT after it.    *)

Idle == [phase |-> "idle", name |-> NoName, source |-> NoName,
         contents |-> <<>>, cluster |-> 0, left |-> 0, part |-> 1,
         always_sync |-> FALSE, unmount |-> FALSE]

Phases == {"idle", "erase", "program", "sync_erase", "sync_program", "free"}

UserNames == FileNames \cup BadNames

Commands == [phase : Phases, name : UserNames \cup {NoName},
             source : FileNames \cup {NoName}, contents : Seq(Tokens),
             cluster : 0..FILE_ENTRY_COUNT \cup {FAT_END_CLUSTER}, left : Int,
             part : Nat \ {0}, always_sync : BOOLEAN, unmount : BOOLEAN]

Syncing == [Idle EXCEPT !.phase = "sync_erase"]

\* FlashFSInternalWrite before its first block.  A size of 0 (a length that
\* wrapped in the unsigned short) writes nothing.
Writing(f, e, n, contents, source, always_sync) ==
  [phase |-> IF f.file_entries[e].size > 0 THEN "erase" ELSE "sync_erase",
   name |-> n, source |-> source, contents |-> contents,
   cluster |-> f.file_entries[e].first_cluster,
   left |-> f.file_entries[e].size, part |-> 1,
   always_sync |-> always_sync, unmount |-> FALSE]

\* What FlashFSInternalWrite takes for part i of a command's contents: past
\* the end of the buffer, memory that no user's value was put in.
BufferPart(c, i) == IF i <= Len(c.contents) THEN c.contents[i] ELSE Blank

Ready == mounted /\ cmd.phase = "idle"

-----------------------------------------------------------------------------
(* The file operations, up to their first access to the flash.             *)

\* FlashFSFileCreate gets past its checks.  Only a 0 of
\* FlashFSInternalFileFind stops it: a name the search rejects (EINVAL) goes
\* on like one it did not find.
CanCreate(n, length) ==
  /\ length \in 1..fat.free_size
  /\ ~Found(fat, n)
  /\ Used(fat) # Entries

FileCreate(n, contents, length, source, always_sync) ==
  LET e == Least(Entries \ Used(fat))
      built == SetSize(BuildClusterList(SetName(fat, e, n), e, length), e, length)
  IN /\ CanCreate(n, length)
     /\ fat' = built
     /\ cmd' = Writing(built, e, n, contents, source, always_sync)
     /\ dirty' = dirty \cup ({Stored(n)} \cap FileNames)
     /\ UNCHANGED <<mounted, flash, flash_fat, faults>>

FileWrite(n, contents, length, source) ==
  LET e == FileFind(fat, n)
      resized == SetSize(UpdateClusterList(fat, e, length), e, length)
  IN /\ Found(fat, n)
     /\ length > 0
     /\ CanGrow(fat, e, length)
     /\ fat' = resized
     /\ cmd' = Writing(resized, e, n, contents, source, FALSE)
     /\ dirty' = dirty \cup {n}
     /\ UNCHANGED <<mounted, flash, flash_fat, faults>>

-----------------------------------------------------------------------------
(* The shell commands.  One that is refused changes nothing, and is no     *)
(* step here, except where it syncs all the same.                          *)

Create(n, v, length) ==
  Ready /\ FileCreate(n, Parts(v, length), length, NoName, FALSE)

Write(n, v, length) ==
  Ready /\ FileWrite(n, Parts(v, length), length, NoName)

\* "cp n m" where m is not found: create m, then sync whatever
\* FlashFSFileCreate returned.
CopyToNew(n, m) ==
  LET from == ReadFile(fat, n)
  IN /\ Ready
     /\ Found(fat, n)
     /\ ~Found(fat, m)
     /\ \/ FileCreate(m, from.blocks, from.size, n, TRUE)
        \/ /\ ~CanCreate(m, from.size)
           /\ cmd' = Syncing
           /\ UNCHANGED <<mounted, fat, flash, flash_fat, dirty, faults>>

\* "cp -f n m" where m is found.  The second FlashFSFindFile overwrites ff,
\* so the length written is m's own, while the buffer was allocated and read
\* for n's.  When m is the longer file the write goes on past the buffer: what
\* it finds there, from the block where n ends, is no part of n.
CopyOver(n, m) ==
  LET from == ReadFile(fat, n)
      length == ReadFile(fat, m).size
      buffer == IF length <= from.size THEN from.blocks
                ELSE SubSeq(from.blocks, 1, from.size \div ERASE_SIZE)
  IN /\ Ready
     /\ Found(fat, n)
     /\ FileWrite(m, buffer, length, n)

\* "del n": syncs only if FlashFSFileDelete returned 0.
Delete(n) ==
  /\ Ready
  /\ Found(fat, n)
  /\ fat' = DeleteFile(fat, FileFind(fat, n))
  /\ cmd' = IF FileFind(fat, n) \in Used(fat') THEN Idle ELSE Syncing
  /\ dirty' = dirty \cup {n}
  /\ UNCHANGED <<mounted, flash, flash_fat, faults>>

\* Mutant: the new name may be taken.
RenameUnchecked(n, m) ==
  /\ Ready
  /\ Found(fat, n)
  /\ m \in FileNames
  /\ fat' = SetName(fat, FileFind(fat, n), m)
  /\ cmd' = Syncing
  /\ dirty' = dirty \cup {n, m}
  /\ UNCHANGED <<mounted, flash, flash_fat, faults>>

\* "ren n m": a bad new name is refused here.
Rename(n, m) ==
  /\ Ready
  /\ Found(fat, n)
  /\ m \in FileNames /\ ~Found(fat, m)
  /\ fat' = SetName(fat, FileFind(fat, n), m)
  /\ cmd' = Syncing
  /\ dirty' = dirty \cup {n, m}
  /\ UNCHANGED <<mounted, flash, flash_fat, faults>>

\* "mount"
Mount ==
  /\ ~mounted
  /\ Mountable
  /\ mounted' = TRUE
  /\ fat' = Image(flash_fat)
  /\ UNCHANGED <<flash, flash_fat, cmd, dirty, faults>>

\* "unmount"
Unmount ==
  /\ Ready
  /\ cmd' = [Syncing EXCEPT !.unmount = TRUE]
  /\ UNCHANGED <<mounted, fat, flash, flash_fat, dirty, faults>>

\* "format": also of a file system that is not mounted.
Format ==
  /\ cmd.phase = "idle"
  /\ mounted' = TRUE
  /\ fat' = FormattedFAT
  /\ cmd' = Syncing
  /\ dirty' = FileNames
  /\ UNCHANGED <<flash, flash_fat, faults>>

-----------------------------------------------------------------------------
(* FlashFSInternalWrite, one access to the flash at a time.                *)

Works == UNCHANGED faults
Fails == faults < MaxFaults /\ faults' = faults + 1

\* A failed access: EIO to the command, which syncs or gives up.
WriteFails == Fails /\ cmd' = IF cmd.always_sync THEN Syncing ELSE Idle

EraseBlock ==
  /\ cmd.phase = "erase"
  /\ \/ /\ Works
        /\ flash' = [flash EXCEPT ![cmd.cluster] = Blank]
        /\ cmd' = [cmd EXCEPT !.phase = "program"]
     \/ /\ WriteFails
        /\ flash' \in {flash, [flash EXCEPT ![cmd.cluster] = Blank]}
  /\ UNCHANGED <<mounted, fat, flash_fat, dirty>>

\* Mutant: the next block goes to the next cluster in the flash.
ProgramBlockContiguous ==
  /\ cmd.phase = "program"
  /\ Works
  /\ flash' = [flash EXCEPT ![cmd.cluster] = BufferPart(cmd, cmd.part)]
  /\ cmd' = IF cmd.left > ERASE_SIZE
            THEN [cmd EXCEPT !.phase = "erase", !.left = @ - ERASE_SIZE,
                             !.part = @ + 1, !.cluster = @ + 1]
            ELSE [cmd EXCEPT !.phase = "sync_erase", !.left = 0]
  /\ UNCHANGED <<mounted, fat, flash_fat, dirty>>

\* Mutant: a file that ends with a full block gets another one.
ProgramBlockOneTooMany ==
  /\ cmd.phase = "program"
  /\ Works
  /\ flash' = [flash EXCEPT ![cmd.cluster] = BufferPart(cmd, cmd.part)]
  /\ cmd' = IF cmd.left >= ERASE_SIZE
            THEN [cmd EXCEPT !.phase = "erase", !.left = @ - ERASE_SIZE,
                             !.part = @ + 1,
                             !.cluster = NextCluster(fat.cluster_table, @)]
            ELSE [cmd EXCEPT !.phase = "sync_erase", !.left = 0]
  /\ UNCHANGED <<mounted, fat, flash_fat, dirty>>

\* Full blocks in one write, the last part in program-size pieces.
ProgramBlock ==
  /\ cmd.phase = "program"
  /\ \/ /\ Works
        /\ flash' = [flash EXCEPT ![cmd.cluster] = BufferPart(cmd, cmd.part)]
        /\ cmd' = IF cmd.left > ERASE_SIZE
                  THEN [cmd EXCEPT !.phase = "erase",
                                   !.left = @ - ERASE_SIZE,
                                   !.part = @ + 1,
                                   !.cluster = NextCluster(fat.cluster_table, @)]
                  ELSE [cmd EXCEPT !.phase = "sync_erase", !.left = 0]
     \/ WriteFails /\ UNCHANGED flash
  /\ UNCHANGED <<mounted, fat, flash_fat, dirty>>

-----------------------------------------------------------------------------
(* FlashFSSync.  The file commands ignore what it returns.                 *)

Erased == [fat |-> FormattedFAT, programmed |-> -1]
ProgrammedTo(k) == IF k = -1 THEN Erased ELSE [fat |-> fat, programmed |-> k]

SyncDone == cmd' = IF cmd.unmount THEN [Idle EXCEPT !.phase = "free"] ELSE Idle

SyncErase ==
  /\ cmd.phase = "sync_erase"
  /\ \/ /\ Works
        /\ flash_fat' = Erased
        /\ cmd' = [cmd EXCEPT !.phase = "sync_program"]
     \/ Fails /\ flash_fat' \in {flash_fat, Erased} /\ SyncDone
  /\ UNCHANGED <<mounted, fat, flash, dirty>>

SyncProgram ==
  /\ cmd.phase = "sync_program"
  /\ \/ Works /\ flash_fat' = ProgrammedTo(FILE_ENTRY_COUNT) /\ dirty' = {}
     \/ /\ Fails
        /\ \E k \in Programmed : flash_fat' = ProgrammedTo(k)
        /\ UNCHANGED dirty
  /\ SyncDone
  /\ UNCHANGED <<mounted, fat, flash>>

\* RAM forgets the FAT: FlashFSUnmount after its sync, or a power loss.
Forget ==
  /\ mounted' = FALSE
  /\ fat' = FormattedFAT
  /\ cmd' = Idle
  /\ dirty' = {}
  /\ UNCHANGED <<flash, faults>>

FreeFAT == cmd.phase = "free" /\ Forget /\ UNCHANGED flash_fat

PowerLoss ==
  /\ mounted
  /\ Forget
  /\ \/ UNCHANGED flash_fat
     \/ /\ cmd.phase = "sync_program"
        /\ \E k \in Programmed : flash_fat' = ProgrammedTo(k)

-----------------------------------------------------------------------------
Init ==
  /\ mounted = FALSE
  /\ fat = FormattedFAT
  /\ flash = [c \in Clusters |-> Blank]
  /\ flash_fat = Erased
  /\ cmd = Idle
  /\ dirty = {}
  /\ faults = 0

Next ==
  \/ \E n \in UserNames :
       \/ \E v \in Values, length \in Lengths :
            Create(n, v, length) \/ Write(n, v, length)
       \/ \E m \in UserNames : CopyToNew(n, m) \/ CopyOver(n, m) \/ Rename(n, m)
       \/ Delete(n)
  \/ Mount \/ Unmount \/ Format
  \/ EraseBlock \/ ProgramBlock
  \/ SyncErase \/ SyncProgram \/ FreeFAT \/ PowerLoss

Spec == Init /\ [][Next]_vars

TypeOK ==
  /\ mounted \in BOOLEAN
  /\ fat \in FATs
  /\ flash \in [Clusters -> Tokens]
  /\ flash_fat \in FlashFATs
  /\ cmd \in Commands
  /\ dirty \in SUBSET FileNames
  /\ faults \in 0..MaxFaults

-----------------------------------------------------------------------------
(* Safety.                                                                 *)

\* FlashFSValidateFAT (flash_fs.c:38) accepts the FAT in RAM at every point
\* of every command, after failed reads and writes too: whatever a later
\* sync stores can be mounted again.
FATConsistent == mounted => ValidateFAT(fat)

\* No cluster belongs to two files, to a file twice, or to none while it is
\* marked used.  FlashFSValidateFAT only adds up sizes; this is the property
\* of cluster_table that makes files independent (flash_fs.c:218-385).
SingleReference(f) ==
  LET table == f.cluster_table
      First(e) == f.file_entries[e].first_cluster
  IN /\ \A e \in Used(f) : table[First(e)] # 0
     /\ \A c \in Clusters : table[c] \in Clusters => table[table[c]] # 0
     /\ \A e, g \in Used(f) : First(e) = First(g) => e = g
     /\ \A c, d \in Clusters : table[c] \in Clusters /\ table[c] = table[d] => c = d
     /\ \A e \in Used(f), c \in Clusters : First(e) # table[c]
     /\ \A c \in Clusters : table[c] # 0 =>
          \/ \E e \in Used(f) : First(e) = c
          \/ \E d \in Clusters : table[d] = c

NoCrossLinks == SingleReference(fat)

\* Once FlashFSInternalWrite has returned 0 the file reads back, block by
\* block, as what it was given, and as long, except that "cp -f" keeps the
\* destination's length whatever the buffer's (flash_fs.c:172, :388).
WrittenFilesReadBack ==
  (cmd.phase \in {"sync_erase", "sync_program"} /\ cmd.name \in FileNames) =>
    LET blocks == ReadFile(fat, cmd.name).blocks
    IN /\ \A i \in DOMAIN blocks : blocks[i] = BufferPart(cmd, i)
       /\ (cmd.source = NoName \/ cmd.always_sync)
            => Len(blocks) = Len(cmd.contents)

\* FlashFSInternalWrite erases and programs the clusters of the file it was
\* called for, each with its own part, and stops at the file's last one
\* (flash_fs.c:172-216), although "c" and "length" are all it keeps of where
\* it stands.
WritesOwnClusters ==
  (cmd.phase \in {"erase", "program"} /\ cmd.name \in FileNames) =>
    LET e == FileFind(fat, cmd.name)
    IN /\ Found(fat, cmd.name)
       /\ cmd.part \in 1..Blocks(fat.file_entries[e].size)
       /\ cmd.cluster = FileWalk(fat, e)[cmd.part - 1]

\* A FAT whose programming was cut short is refused by FlashFSMount, or is
\* the whole FAT all the same (flash_fs.c:85-110, :137-146).
TornFATRejected == Mountable => Image(flash_fat) = flash_fat.fat

\* The file system implements the store its users are promised: a command
\* touches no file it does not name, and a power loss at any point leaves
\* every file as it was at the last sync unless that file was changed since,
\* or the FAT itself was being rewritten (flash_fs.c:137).
StoredFiles ==
  [n \in FileNames |->
     IF mounted THEN ReadFile(fat, n)
     ELSE IF Mountable THEN ReadFile(Image(flash_fat), n) ELSE Absent]

Store == INSTANCE FileStore
           WITH Names <- FileNames, files <- StoredFiles, safe <- Mountable

ImplementsFileStore == Store!Spec

\* "create file_name contents" (flash_fs_commands.c:75), and cp to a new
\* file: the file just made is found under the name it was given.
CreatedFileIsFound ==
  (cmd.phase \in {"sync_erase", "sync_program"} /\ cmd.name # NoName)
    => Found(fat, cmd.name)

\* "cp source_file_name dest_file_name" (flash_fs_commands.c:61): after the
\* copy the destination holds what the source holds.
CopyMakesACopy ==
  (cmd.phase \in {"sync_erase", "sync_program"} /\ cmd.source # NoName)
    => ReadFile(fat, cmd.name) = ReadFile(fat, cmd.source)

=============================================================================
