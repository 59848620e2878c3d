------------------------------- MODULE Shell2 -------------------------------
(***************************************************************************)
(* The shell of shell2/shell.c at its terminal.  The receive interrupt     *)
(* puts the bytes of keys into a ring (shell_process_char).  The main loop *)
(* calls shell_handler, which takes them off one by one and edits a line   *)
(* (getstring.c); a line that is complete is taken apart and remembered,   *)
(* and the arrow keys fetch lines from the history.                        *)
(*                                                                         *)
(* A step of the main loop is one call of getcharf_ and what is done until *)
(* the next one; an interrupt may come between any two.  The handlers of   *)
(* commands are the firmware's, and what is echoed is left out.            *)
(***************************************************************************)
EXTENDS ShellHistory, SequencesExt

CONSTANTS
  SHELL_RX_BUFFER_LENGTH,
  COMMAND_LINE_LENGTH,           \* with the terminating zero
  MAX_SHELL_COMMAND_PARAMETERS,
  Letters,                       \* bound: the characters typed
  MaxAhead                       \* bound: bytes that wait when a key is pressed

ASSUME Shell2Assumption ==
  /\ {SHELL_RX_BUFFER_LENGTH, COMMAND_LINE_LENGTH, MAX_SHELL_COMMAND_PARAMETERS}
       \subseteq Nat \ {0}
  /\ MaxAhead \in Nat
  /\ {"ESC", "[", "EOF", "up", "down", "left", "enter", "backspace"} \cap Letters = {}

VARIABLES
  waiting,   \* the bytes between rx_buffer_read_p and rx_buffer_write_p
  sending,   \* the bytes of the key that are still on the wire
  escape,    \* the bytes of an escape sequence that getstring_next has taken
  line,      \* command_line up to buf
  garbled    \* history: a byte was lost, or an escape sequence was cut in two

keyboard == <<waiting, sending>>
shellVars == <<historyVars, keyboard, escape, line, garbled>>

EOF == "EOF"

\* The last byte of a key has the name of the key: "up" is 0x41, after ESC and [.
Arrows == {"up", "down", "left"}
Bytes(key) == IF key \in Arrows THEN <<"ESC", "[", key>> ELSE <<key>>
Keys == Letters \cup Arrows \cup {"enter", "backspace"}

ShellInit ==
  /\ HistoryInit
  /\ waiting = <<>> /\ sending = <<>>
  /\ escape = <<>> /\ line = <<>>
  /\ garbled = FALSE

-----------------------------------------------------------------------------
(* The interrupt: shell_process_char.  When the write pointer reaches the  *)
(* read pointer, the ring looks empty.                                     *)

shell_process_char(byte) ==
  LET full == Len(waiting) + 1 = SHELL_RX_BUFFER_LENGTH
  IN /\ waiting' = IF full THEN <<>> ELSE Append(waiting, byte)
     /\ garbled' = (garbled \/ full)

Receive ==
  /\ sending = <<>> => Len(waiting) <= MaxAhead
  /\ \E bytes \in IF sending = <<>> THEN {Bytes(key) : key \in Keys} ELSE {sending} :
       shell_process_char(Head(bytes)) /\ sending' = Tail(bytes)
  /\ UNCHANGED <<historyVars, escape, line>>

-----------------------------------------------------------------------------
(* buildCommandParameters: how many words a line has, -1 if it is refused. *)

NextMode(s, c) ==
  CASE s.mode = "space" /\ c # " " ->
         IF s.count >= MAX_SHELL_COMMAND_PARAMETERS THEN [s EXCEPT !.mode = "refused"]
         ELSE [s EXCEPT !.mode = IF c = "\"" THEN "string" ELSE "parameter"]
    [] (s.mode = "parameter" /\ c = " ") \/ (s.mode = "string" /\ c = "\"") ->
         [mode |-> "space", count |-> s.count + 1]
    [] OTHER -> s

buildCommandParameters(command) ==
  LET s == FoldLeft(NextMode, [mode |-> "space", count |-> 0], command)
  IN CASE s.mode = "space" -> s.count [] s.mode = "parameter" -> s.count + 1
       [] OTHER -> -1

\* The lines there is room for; the items of the ring are those with a word.
Lines == UNION {[1..n -> Letters] : n \in 0..(COMMAND_LINE_LENGTH - 1)}
ASSUME CommandsAssumption == Items = {l \in Lines : buildCommandParameters(l) > 0}

\* shell_execute: a line without words, or refused, is not remembered.
shell_execute(command) ==
  IF buildCommandParameters(command) > 0 THEN Execute(command)
  ELSE UNCHANGED historyVars

-----------------------------------------------------------------------------
(* shell_handler and getstring_next.                                       *)

\* getcharf_, the byte that shell_getch returns, EOF if there is none
getcharf == IF waiting = <<>> THEN EOF ELSE Head(waiting)
shell_getch ==
  /\ waiting' = IF waiting = <<>> THEN waiting ELSE Tail(waiting)
  /\ UNCHANGED sending

EndLine == shell_execute(line) /\ line' = <<>>

Room == Len(line) < COMMAND_LINE_LENGTH - 1

Edited(byte) ==
  IF byte = "backspace" THEN SubSeq(line, 1, Len(line) - 1)
  ELSE IF Room THEN Append(line, byte) ELSE line

\* EOF ends getstring_next, which is called again.
Plain ==
  /\ escape = <<>> /\ waiting # <<>>
  /\ shell_getch
  /\ CASE getcharf = "enter" -> EndLine /\ UNCHANGED escape
       [] getcharf = "ESC" -> escape' = <<"ESC">> /\ UNCHANGED <<historyVars, line>>
       [] OTHER -> line' = Edited(getcharf) /\ UNCHANGED <<historyVars, escape>>
  /\ UNCHANGED garbled

\* Nobody looks whether the rest of the sequence has arrived.
SecondOfEscape ==
  /\ Len(escape) = 1
  /\ shell_getch
  /\ escape' = Append(escape, getcharf)
  /\ garbled' = (garbled \/ getcharf = EOF)
  /\ UNCHANGED <<historyVars, line>>

\* Mutant: the characters of the line that was typed are kept.
RecalledAfter == line \o (IF recalled' = NoLine THEN <<>> ELSE recalled')

\* getstring_buffer_init, on the line that getstring_next has emptied.
Recalled == IF recalled' = NoLine THEN <<>> ELSE recalled'

ThirdOfEscape ==
  /\ Len(escape) = 2
  /\ shell_getch
  /\ escape' = <<>>
  /\ garbled' = (garbled \/ getcharf = EOF)
  /\ CASE escape[2] = "[" /\ getcharf = "up" -> Prev /\ line' = Recalled
       [] escape[2] = "[" /\ getcharf = "down" -> GetNext /\ line' = Recalled
       [] escape[2] = "enter" -> EndLine  \* of a sequence that was cut in two
       [] OTHER -> UNCHANGED <<historyVars, line>>

ShellNext == Receive \/ Plain \/ SecondOfEscape \/ ThirdOfEscape

ShellSpec == ShellInit /\ [][ShellNext]_shellVars

-----------------------------------------------------------------------------
\* The keys of which the bytes are left: ESC and [ only announce an arrow key.
KeysIn(bytes) ==
  LET keys[n \in 0..Len(bytes)] ==
        IF n = 0 THEN <<>>
        ELSE IF bytes[n] \in {"ESC", "["} THEN keys[n - 1]
        ELSE Append(keys[n - 1], bytes[n])
  IN keys[Len(bytes)]

Typed == KeysIn(escape \o waiting \o sending)

Keyboard == INSTANCE Terminal
  WITH Capacity <- SHELL_HISTORY_SIZE - 1, MaxLine <- COMMAND_LINE_LENGTH - 1,
       Characters <- Letters, typed <- Typed, recent <- Contents,
       offset <- history_offset

(* As long as no byte is lost in the ring and no escape sequence is read   *)
(* while it arrives, the shell handles what was typed key by key, wherever *)
(* the main loop was when the bytes came: the line that is run is the one  *)
(* edited, and an arrow key leaves nothing of it behind (shell2/shell.c:   *)
(* 198-245, getstring.c:41-121).                                           *)
ImplementsTerminal == Keyboard!Spec
=============================================================================
