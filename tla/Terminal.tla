------------------------------ MODULE Terminal ------------------------------
(***************************************************************************)
(* What the user of shell2 is promised at the keyboard: each key is        *)
(* handled once, as a whole and in the order of typing.  A line is edited  *)
(* at its end, Enter runs it, Up and Down replace it by a command of the   *)
(* history.  Once a key is garbled on its way nothing is promised.         *)
(***************************************************************************)
EXTENDS Integers, Sequences, SequencesExt

CONSTANTS
  Capacity, MaxLine,  \* commands in the history, characters in a line
  Characters,
  Commands            \* the lines that are run

VARIABLES
  typed,    \* the keys that are still to be handled
  line,
  recent,   \* the history, the last command first
  offset,   \* how many commands Up has gone back
  garbled

vars == <<typed, line, recent, offset, garbled>>

Keys == Characters \cup {"enter", "backspace", "up", "down", "left"}

Init == typed = <<>> /\ line = <<>> /\ recent = <<>> /\ offset = 0 /\ ~ garbled

Type(key) ==
  /\ typed' = Append(typed, key)
  /\ UNCHANGED <<line, recent, offset>>

Edit ==
  /\ line' = CASE Head(typed) = "backspace" -> SubSeq(line, 1, Len(line) - 1)
               [] Head(typed) = "left" -> line
               [] Head(typed) \in Characters ->
                    IF Len(line) < MaxLine THEN Append(line, Head(typed)) ELSE line
  /\ UNCHANGED <<recent, offset>>

\* A command that is in the history already is not there twice.
Without(list, command) ==
  IF \E k \in DOMAIN list : list[k] = command
  THEN RemoveAt(list, CHOOSE k \in DOMAIN list : list[k] = command)
  ELSE list

Enter ==
  /\ Head(typed) = "enter"
  /\ line' = <<>>
  /\ IF line \in Commands
     THEN LET all == <<line>> \o Without(recent, line)
          IN /\ recent' = SubSeq(all, 1, IF Len(all) <= Capacity THEN Len(all) ELSE Capacity)
             /\ offset' = 0
     ELSE UNCHANGED <<recent, offset>>

\* Down shows the command that Up showed last once more.
Recall ==
  /\ \/ /\ Head(typed) = "up" /\ offset < Len(recent)
        /\ line' = recent[offset + 1] /\ offset' = offset + 1
     \/ /\ Head(typed) = "down" /\ offset > 0
        /\ line' = recent[offset] /\ offset' = offset - 1
     \/ /\ Head(typed) = "up" /\ offset = Len(recent)
        /\ line' = <<>> /\ UNCHANGED offset
     \/ /\ Head(typed) = "down" /\ offset = 0
        /\ line' = <<>> /\ UNCHANGED offset
  /\ UNCHANGED recent

Handle ==
  /\ typed # <<>> /\ typed' = Tail(typed)
  /\ \/ Head(typed) \in Characters \cup {"backspace", "left"} /\ Edit
     \/ Enter
     \/ Recall

Next ==
  \/ garbled'
  \/ /\ ~ garbled /\ ~ garbled'
     /\ Handle \/ \E key \in Keys : Type(key)

Spec == Init /\ [][Next]_vars
=============================================================================
