--------------------------- MODULE MCShellHistory ---------------------------
(* TLC instance of Shell2 with its history.  Two states are one if they    *)
(* differ in what can not be seen in the ring any more.                    *)
EXTENDS Shell2

MCLetters == {"a", "\""}
MCCommands == {l \in Lines : buildCommandParameters(l) > 0}

Intact == ~ garbled
HistoryView ==
  <<current, Contents, history_offset, recalled, keyboard, escape, line, garbled>>
=============================================================================
