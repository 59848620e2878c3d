---------------------------- MODULE ShellHistory ----------------------------
(***************************************************************************)
(* The history of the shells (shell/shell.c, shell2/shell.c) on top of     *)
(* fixed_queue.c, with the Up and Down keys of shell_handler.              *)
(*                                                                         *)
(* A command is a line as it was typed; that a history item is as long as  *)
(* a command line, so that none is cut off, is up to board.h.              *)
(***************************************************************************)
EXTENDS FixedQueue, Sequences

VARIABLES
  history_offset,
  recalled  \* what the last Up or Down put on the line

queue == vars  \* history_q
historyVars == <<queue, history_offset, recalled>>

SHELL_HISTORY_SIZE == Size
Commands == Items
NoLine == Blank  \* the shells' NULL, and an item of the ring never written

HistoryInit ==
  /\ Init
  /\ history_offset = 0
  /\ recalled = NoLine

\* Mutant: a command that is there already is pushed again.
RememberAlways(command) == Push(command)

\* A command that is there moves to the top, another one is pushed.
Remember(command) ==
  LET idx == GetIndex(command)
  IN \/ idx < 0 /\ Push(command)
     \/ idx >= 0 /\ MoveToTop(idx)

\* shell_execute, of a line with at least one word that it can take apart.
Execute(command) ==
  /\ Remember(command)
  /\ history_offset' = 0
  /\ recalled' = NoLine

\* Mutant: Up goes on past the oldest command.
PrevTooFar ==
  /\ recalled' = Peekn(history_offset, NoLine)
  /\ history_offset' = history_offset + 1
  /\ UNCHANGED queue

\* shell_get_prev_from_history
Prev ==
  /\ \/ /\ history_offset < QueueSize
        /\ recalled' = Peekn(history_offset, NoLine)
        /\ history_offset' = history_offset + 1
     \/ /\ history_offset >= QueueSize
        /\ recalled' = NoLine
        /\ UNCHANGED history_offset
  /\ UNCHANGED queue

\* shell_get_next_from_history
GetNext ==
  /\ \/ /\ history_offset # 0
        /\ history_offset' = history_offset - 1
        /\ recalled' = Peekn(history_offset - 1, NoLine)
     \/ /\ history_offset = 0
        /\ recalled' = NoLine
        /\ UNCHANGED history_offset
  /\ UNCHANGED queue

HistoryNext == Prev \/ GetNext \/ \E c \in Commands : Execute(c)

HistorySpec == HistoryInit /\ [][HistoryNext]_historyVars

-----------------------------------------------------------------------------
HistoryTypeOK ==
  /\ TypeOK
  /\ history_offset \in 0..QueueSize
  /\ recalled \in Commands \cup {NoLine}

\* No command is in the history twice, although the ring only compares and
\* never removes (shell.c:171-175).
NoDuplicates ==
  \A i, j \in DOMAIN Contents :
    Contents[i] = Contents[j] => i = j

=============================================================================
