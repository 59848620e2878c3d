------------------------------ MODULE FileStore ------------------------------
(***************************************************************************)
(* What a user of the flash file system is promised: a store of named      *)
(* files.  An operation touches the files it names and no other.  What was *)
(* committed survives a restart; a restart may spoil only the files that   *)
(* were changed since the last commit, or everything when it comes while   *)
(* the directory itself is being rewritten.                                *)
(***************************************************************************)
CONSTANTS Names, Absent

VARIABLES
  files,   \* the contents of every name, Absent if there is no such file
  dirty,   \* names changed since the last commit
  safe     \* the directory on the medium is readable

vars == <<files, dirty, safe>>

AllAbsent == [n \in Names |-> Absent]

Init == files = AllAbsent /\ dirty = {} /\ safe = FALSE

\* Every name outside S keeps its file.
Keeps(S) == \A n \in Names \ S : files'[n] = files[n]

\* One file is created, deleted, or has a part of it rewritten.
Change(n) ==
  /\ dirty' = dirty \cup {n}
  /\ Keeps({n})
  /\ UNCHANGED safe

\* A file takes a free name.
Move(n, m) ==
  /\ n # m
  /\ dirty' = dirty \cup {n, m}
  /\ Keeps({n, m})
  /\ files[n] # Absent /\ files[m] = Absent
  /\ files'[n] = Absent /\ files'[m] = files[n]
  /\ UNCHANGED safe

Wipe ==
  /\ dirty' = Names
  /\ files' = AllAbsent
  /\ UNCHANGED safe

\* The directory is being rewritten: it may be readable or not, until it
\* holds every change.
Rewrite == UNCHANGED <<dirty, files>> /\ safe' \in BOOLEAN
Commit == dirty' = {} /\ safe' = TRUE /\ UNCHANGED files

\* The program starts again from the medium.
Restart ==
  /\ dirty' = {}
  /\ \/ safe' /\ Keeps(dirty)
     \/ ~safe /\ ~safe' /\ files' = AllAbsent

Next ==
  \/ \E n \in Names : Change(n) \/ \E m \in Names : Move(n, m)
  \/ Wipe \/ Rewrite \/ Commit \/ Restart

Spec == Init /\ [][Next]_vars

=============================================================================
