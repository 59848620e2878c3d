------------------------------- MODULE Forth -------------------------------
(***************************************************************************)
(* The Forth virtual machine of forth_core.c and forth_words.c.  A line is *)
(* taken word by word (fvm_process_string, exec_word).  ":" turns to       *)
(* compiling: words become cells of threaded code behind the last word of  *)
(* the dictionary, and those that build structures patch the addresses of  *)
(* jumps, kept on the conditions stack.  ";" puts the word into the        *)
(* dictionary, where it is run cell by cell.                               *)
(*                                                                         *)
(* Code is a sequence of cells for each word; an address is the index of a *)
(* cell in its word.  fvm_current_word is left where a handler puts it and *)
(* then moved by one, as in the code.                                      *)
(*                                                                         *)
(* Left out are floating point, addresses as numbers (', execute, s", !, @ *)
(* and array), printing, and the spelling of names and numbers.            *)
(***************************************************************************)
EXTENDS ForthStack

CONSTANTS
  Names,          \* the names that are given to words
  Numbers,        \* bound: the numbers that are typed
  Plain,          \* bound: the words without a part of their own in compiling ...
  Structure,      \* bound: ... and those that build structures that are typed
  Texts,          \* bound: the lengths of the texts of ."
  Cell,           \* CPU_BITS / 8, the bytes of a cell
  FVM_CONDITIONS_STACK_LENGTH,
  LEAVES,         \* the leaves of a loop that fvm_leave_words has room for
  Stacks,         \* bound: the data stack at the start ...
  CallStacks,     \* bound: ... and those that a definition is begun on
  StackLength,    \* FVM_DATA_STACK_LENGTH
  MaxWords,       \* bound: the words in the dictionary
  MaxTyped,       \* bound: the words typed, in definitions and between them
  MaxFirst,       \* bound: those of a definition that another one follows
  MaxPlain        \* bound: those of a definition that build no structure

Openers == {"if", "do", "begin", "case", "of", "rangeof"}
Middles == {"else", "while"}
Closers == {"then", "loop", "+loop", "repeat", "until", "again", "endof", "endcase"}
AllStructure == Openers \cup Middles \cup Closers \cup {"leave"}

ASSUME ForthAssumption ==
  /\ Numbers \subseteq Ints
  /\ Plain \subseteq StackWords \cup {"i", "j", "k", "exit", "unloop"}
  /\ Structure \subseteq AllStructure
  /\ Texts \subseteq Nat
  /\ Stacks \subseteq Seq(Ints) /\ CallStacks \subseteq Seq(Ints)
  /\ Cell \in Nat /\ Cell > 0
  /\ FVM_CONDITIONS_STACK_LENGTH \in Nat /\ LEAVES \in Nat
  /\ StackLength \in Nat /\ MaxWords \in Nat /\ MaxTyped \in Nat /\ MaxFirst \in Nat /\ MaxPlain \in Nat

VARIABLES
  mode,           \* fvm_mode
  data_stack,
  dictionary,     \* the words after fvm_last_word_initial, the newest at the end
  new,            \* the word that is being compiled
  conditions,     \* fvm_conditions_stack
  do_index2,      \* fvm_do_index2
  leave_words,    \* fvm_leave_words
  do_index, do_variables,
  running,        \* the words that are running, the innermost first
  failed,         \* the line was given up
  lost,           \* what the code cannot come back from
  typed,          \* history: how many words were typed
  broken,         \* history: a broken definition was run
  exited          \* history: exit was run inside of a loop

compileVars == <<new, conditions, do_index2, leave_words>>
loopVars == <<do_index, do_variables>>
histories == <<broken, exited>>
vars == <<mode, data_stack, dictionary, compileVars, loopVars, running, failed, lost,
          typed, histories>>

\* source and first are history: the words typed, and the cell each begins at.
Blank(name) ==
  [name |-> name, code |-> <<>>, source |-> <<>>, first |-> <<>>, spoiled |-> FALSE]

cell(handler) == [handler |-> handler, value |-> 0]
operand(value) == [handler |-> "operand", value |-> value]
Unpatched == -1

Init ==
  /\ mode = "interpret"
  /\ data_stack \in Stacks
  /\ dictionary = <<>>
  /\ new = Blank(<<>>)
  /\ conditions = <<>> /\ do_index2 = -1
  /\ leave_words = [level \in 0..2 |-> {}]
  /\ do_index = -2 /\ do_variables = [i \in 0..5 |-> 0]
  /\ running = <<>>
  /\ failed = FALSE /\ lost = "no"
  /\ typed = 0 /\ broken = FALSE /\ exited = FALSE

\* exec_word takes the next word of a line when the last one has come back.
Reading == running = <<>> /\ ~failed /\ lost = "no"
Interpreting == Reading /\ mode = "interpret"

Push(v) ==
  IF Len(data_stack) < StackLength
  THEN data_stack' = <<v>> \o data_stack /\ UNCHANGED lost
  ELSE lost' = "stack overflow" /\ UNCHANGED data_stack

-----------------------------------------------------------------------------
(* Compiling.                                                              *)

\* Bound: one word is left to run the definition; one in which a word was
\* refused is only ended.
Compiling == Reading /\ mode = "compile" /\ typed + 1 < MaxTyped /\ ~new.spoiled

WhileCompiling == UNCHANGED <<mode, data_stack, dictionary, loopVars, running, lost, histories>>

Here == Len(new.code) + 1  \* fvm_word_code

Patch(code, at, value) == [code EXCEPT ![at].value = value]

\* The code, with jumps patched, gets the cells of one more word.
Emit(word, value, code, cells) ==
  /\ new' = [new EXCEPT !.code = code \o cells,
                        !.source = Append(@, [word |-> word, value |-> value]),
                        !.first = Append(@, Here)]
  /\ typed' = typed + 1
  /\ UNCHANGED failed

\* PUSH_CONDITION, while there is room (Overrun).
PushCondition(kind, at, rest) ==
  /\ Len(rest) < FVM_CONDITIONS_STACK_LENGTH
  /\ conditions' = <<[kind |-> kind, at |-> at]>> \o rest

\* resolve_condition
Resolvable(kind, list) == list # <<>> /\ Head(list).kind = kind
Popped(list) == IF list = <<>> THEN list ELSE Tail(list)
pcond == Head(conditions).at

\* "Unexpected": the line is given up, with a condition taken off the stack.
Refuse(code, rest) ==
  /\ failed' = TRUE
  /\ conditions' = rest
  /\ new' = [new EXCEPT !.code = code, !.spoiled = @ \/ rest # conditions]
  /\ typed' = typed + 1
  /\ UNCHANGED <<do_index2, leave_words>>

MorePlain ==
  Cardinality({n \in DOMAIN new.source : new.source[n].word \notin AllStructure}) < MaxPlain

\* Bound: a definition that follows another one only has calls of it.
WhileCompilingPlain ==
  /\ Compiling /\ WhileCompiling /\ MorePlain /\ dictionary = <<>>
  /\ UNCHANGED <<conditions, do_index2, leave_words>>

CompileNumber(n) ==
  /\ WhileCompilingPlain
  /\ Emit("lit", n, new.code, <<cell("lit"), operand(n)>>)

\* Words that only have a handler.
CompilePlain(word) ==
  /\ WhileCompilingPlain
  /\ Emit(word, 0, new.code, <<cell(word)>>)

\* The text of ." and its end, up to the next cell.
CompileText(length) ==
  /\ WhileCompilingPlain
  /\ Emit(".\"", length, new.code,
          <<[handler |-> ".\"", value |-> length]>>
            \o [n \in 1..((length + Cell) \div Cell) |-> operand(0)])

Forward(word, kind) ==
  /\ Emit(word, 0, new.code, <<cell(word), operand(Unpatched)>>)
  /\ PushCondition(kind, Here + 1, conditions)
  /\ UNCHANGED <<do_index2, leave_words>>

Mark(word) ==
  /\ Emit(word, 0, new.code, <<>>)
  /\ PushCondition(word, Here, conditions)
  /\ UNCHANGED <<do_index2, leave_words>>

If == Forward("if", "if")
Begin == Mark("begin")
While == Forward("while", "while")
Case == Mark("case")
Of == Forward("of", "of")
Rangeof == Forward("rangeof", "of")

\* Bound: not more than three loops in each other.
Do ==
  /\ do_index2 < 2
  /\ Emit("do", 0, new.code, <<cell("do"), cell("do2"), operand(Unpatched)>>)
  /\ PushCondition("do", Here + 2, conditions)
  /\ do_index2' = do_index2 + 1
  /\ UNCHANGED leave_words

\* Bound: an opener is typed while enough words are left to close it.
CompileOpener(word) ==
  /\ Compiling /\ WhileCompiling
  /\ Len(conditions) + 1 < MaxTyped - typed - 1
  /\ \/ word = "if" /\ If
     \/ word = "of" /\ Of
     \/ word = "rangeof" /\ Rangeof
     \/ word = "begin" /\ Begin
     \/ word = "case" /\ Case
     \/ word = "do" /\ Do

Middle(word, kind, next) ==
  IF Resolvable(kind, conditions)
  THEN /\ Emit(word, 0, Patch(new.code, pcond, Here + 1),
               <<cell(word), operand(Unpatched)>>)
       /\ PushCondition(next, Here + 1, Tail(conditions))
       /\ UNCHANGED <<do_index2, leave_words>>
  ELSE Refuse(new.code, Popped(conditions))

Else == Middle("else", "if", "if")
Endof == Middle("endof", "of", "endof")

CompileMiddle(word) ==
  /\ Compiling /\ WhileCompiling
  /\ \/ word = "while" /\ While
     \/ word = "else" /\ Else
     \/ word = "endof" /\ Endof

\* Mutant: the jump of if is patched as the jump of else is.
ThenAtElse == Here + 1

ThenAt == Here - 1

Then ==
  IF Resolvable("if", conditions)
  THEN /\ Emit("then", 0, Patch(new.code, pcond, ThenAt), <<>>)
       /\ conditions' = Tail(conditions)
       /\ UNCHANGED <<do_index2, leave_words>>
  ELSE Refuse(new.code, Popped(conditions))

\* Mutant: back to the operand of do2.
DoAgainLate == pcond - 1

DoAgain == pcond - 2

\* loop_word_handler_: the jumps of do2 and of each leave go behind the loop.
Loop(word) ==
  IF Resolvable("do", conditions)
  THEN /\ LET code == Patch(new.code, pcond, Here + 1)
          IN Emit(word, 0,
                  [n \in DOMAIN code |-> IF n \in leave_words[do_index2]
                                         THEN operand(Here + 1) ELSE code[n]],
                  <<cell(word), operand(DoAgain)>>)
       /\ conditions' = Tail(conditions)
       /\ leave_words' = [leave_words EXCEPT ![do_index2] = {}]
       /\ do_index2' = do_index2 - 1
  ELSE Refuse(new.code, Popped(conditions))

\* leave_word_handler2, while there is room (Overrun).
Leave ==
  /\ do_index2 >= 0 /\ Cardinality(leave_words[do_index2]) < LEAVES
  /\ Emit("leave", 0, new.code, <<cell("leave"), operand(Unpatched)>>)
  /\ leave_words' = [leave_words EXCEPT ![do_index2] = @ \cup {Here + 1}]
  /\ UNCHANGED <<conditions, do_index2>>

Back(word) ==
  IF Resolvable("begin", conditions)
  THEN /\ Emit(word, 0, new.code, <<cell(word), operand(pcond - 1)>>)
       /\ conditions' = Tail(conditions)
       /\ UNCHANGED <<do_index2, leave_words>>
  ELSE Refuse(new.code, Popped(conditions))

Until == Back("until")
Again == Back("again")

Repeat ==
  IF Resolvable("while", conditions)
  THEN LET code == Patch(new.code, pcond, Here + 1)
           rest == Tail(conditions)
       IN IF Resolvable("begin", rest)
          THEN /\ Emit("repeat", 0, code, <<cell("repeat"), operand(Head(rest).at - 1)>>)
               /\ conditions' = Tail(rest)
               /\ UNCHANGED <<do_index2, leave_words>>
          ELSE Refuse(code, Popped(rest))
  ELSE Refuse(new.code, Popped(conditions))

\* endcase_word_handler2: the jumps of all its endofs go behind it.
Endcase ==
  LET others == {n \in DOMAIN conditions : conditions[n].kind # "endof"}
      ends == IF others = {} THEN Len(conditions) ELSE Min(others) - 1
      code == [n \in DOMAIN new.code |->
                 IF \E k \in 1..ends : conditions[k].at = n
                 THEN operand(Here - 1) ELSE new.code[n]]
      rest == SubSeq(conditions, ends + 1, Len(conditions))
  IN IF Resolvable("case", rest)
     THEN /\ Emit("endcase", 0, code, <<>>)
          /\ conditions' = Tail(rest)
          /\ UNCHANGED <<do_index2, leave_words>>
     ELSE Refuse(code, Popped(rest))

CompileCloser(word) ==
  /\ Compiling /\ WhileCompiling
  /\ \/ word = "then" /\ Then
     \/ word \in {"loop", "+loop"} /\ Loop(word)
     \/ word = "leave" /\ Leave
     \/ word = "until" /\ Until
     \/ word = "again" /\ Again
     \/ word = "repeat" /\ Repeat
     \/ word = "endcase" /\ Endcase

\* Neither table looks at its limits: one condition too many is written in
\* front of fvm_conditions_stack, a leave outside of a loop in front of
\* fvm_leave_words, and one leave too many behind its row.
Overrun(word) ==
  /\ Compiling
  /\ \/ /\ word \in Openers \cup {"while"}
        /\ Len(conditions) = FVM_CONDITIONS_STACK_LENGTH
     \/ /\ word = "leave"
        /\ IF do_index2 < 0 THEN TRUE ELSE Cardinality(leave_words[do_index2]) = LEAVES
  /\ lost' = "overrun"
  /\ UNCHANGED <<mode, data_stack, dictionary, compileVars, loopVars, running, failed,
                 typed, histories>>

-----------------------------------------------------------------------------
(* Definitions.                                                            *)

WordsNamed(name) == {w \in DOMAIN dictionary : dictionary[w].name = name}
Given == {<<x>> : x \in Names} \cup {<<x, suffix>> : x \in Names, suffix \in {"@", "!"}}

\* ":", with the name behind it.
start_word(x) ==
  /\ Interpreting
  /\ typed + 1 < MaxTyped /\ data_stack \in CallStacks
  /\ \A w \in DOMAIN dictionary : Len(dictionary[w].source) <= MaxFirst
  /\ mode' = "compile"
  /\ new' = Blank(<<x>>)
  /\ conditions' = <<>> /\ do_index2' = -1
  /\ leave_words' = [level \in 0..2 |-> {}]
  /\ UNCHANGED <<data_stack, dictionary, loopVars, running, failed, lost, typed, histories>>

\* ":" in a definition is unexpected.
start_word_in_word ==
  /\ Compiling /\ WhileCompiling
  /\ failed' = TRUE
  /\ UNCHANGED <<compileVars, typed>>

\* ";".  The variables of compiling are not read again before ":" sets them.
end_word ==
  /\ Reading /\ mode = "compile"
  /\ mode' = "interpret"
  /\ IF conditions = <<>>
     THEN /\ Len(dictionary) < MaxWords
          /\ dictionary' = Append(dictionary, [new EXCEPT !.code = Append(@, cell("exit"))])
          /\ UNCHANGED failed
     ELSE failed' = TRUE /\ UNCHANGED dictionary
  /\ new' = Blank(<<>>) /\ conditions' = <<>> /\ do_index2' = -1
  /\ leave_words' = [level \in 0..2 |-> {}]
  /\ UNCHANGED <<data_stack, loopVars, running, lost, typed, histories>>

\* Bound: so many words are typed.
Once == typed < MaxTyped /\ typed' = typed + 1

\* Definitions that the code is known not to cope with: a refused word left a
\* jump behind that is never patched; a text that fills its last cell makes
\* ." skip the word behind it.
Broken(word) ==
  \/ word.spoiled
  \/ \E i \in DOMAIN word.source :
       word.source[i].word = ".\"" /\ (word.source[i].value + 1) % Cell = 0

Defining ==
  Interpreting /\ Once /\ data_stack \in CallStacks /\ Len(dictionary) < MaxWords
Defined(name, code) == [Blank(name) EXCEPT !.code = Append(code, cell("exit"))]

WhileDefining ==
  UNCHANGED <<mode, compileVars, loopVars, running, failed, lost, histories>>

\* Without a number on the stack, or a name, it is refused: TypeStructure.
constant(x) ==
  /\ Defining /\ WhileDefining
  /\ data_stack # <<>>
  /\ dictionary' =
       Append(dictionary, Defined(<<x>>, <<cell("lit"), operand(Head(data_stack))>>))
  /\ data_stack' = Tail(data_stack)

\* x@ has the value among its code, x! writes it there.
variable(x) ==
  /\ Defining /\ WhileDefining
  /\ Len(dictionary) + 1 < MaxWords
  /\ \E garbage \in Numbers :
       dictionary' = dictionary \o
         <<Defined(<<x, "@">>, <<cell("lit"), operand(garbage)>>),
           Defined(<<x, "!">>, <<cell("var_set"), operand(Len(dictionary) + 1)>>)>>
  /\ UNCHANGED data_stack

\* The word and all newer ones.
forget(name) ==
  /\ Interpreting /\ Once
  /\ IF WordsNamed(name) = {}
     THEN failed' = TRUE /\ UNCHANGED dictionary
     ELSE /\ dictionary' = SubSeq(dictionary, 1, Max(WordsNamed(name)) - 1)
          /\ UNCHANGED failed
  /\ UNCHANGED <<mode, data_stack, compileVars, loopVars, running, lost, histories>>

\* "reset", and "forget" without a name, which keeps the data stack.
reset ==
  /\ Interpreting /\ Once
  /\ dictionary' = <<>>
  /\ data_stack' \in {<<>>, data_stack}
  /\ WhileDefining

-----------------------------------------------------------------------------
(* Words that are typed while interpreting.                                *)

\* Bound: one of these is typed, and first.
Typing == Interpreting /\ typed = 0 /\ dictionary = <<>>

WhileTyping ==
  /\ typed' = typed + 1
  /\ UNCHANGED <<mode, dictionary, compileVars, loopVars, running, histories>>

TypeNumber(v) ==
  /\ Typing /\ WhileTyping
  /\ Push(v)
  /\ UNCHANGED failed

TypeStackWord(word) ==
  /\ Typing /\ WhileTyping
  /\ ~Undefined(word, data_stack)
  /\ IF Fails(word, data_stack)
     THEN data_stack' = LeftByFailure(word, data_stack) /\ failed' = TRUE /\ UNCHANGED lost
     ELSE LET s == Apply(word, data_stack)
          IN IF Len(s) <= StackLength
             THEN data_stack' = s /\ UNCHANGED <<failed, lost>>
             ELSE lost' = "stack overflow" /\ UNCHANGED <<data_stack, failed>>

\* A compile time word; a word that makes another one and is given no name,
\* or, constant, no number: refused.
TypeStructure ==
  /\ Interpreting /\ Once
  /\ failed' = TRUE
  /\ UNCHANGED <<mode, data_stack, dictionary, compileVars, loopVars, running, lost, histories>>

\* The name of a word in the dictionary: compiled as a call, or run.
Name(name) ==
  IF WordsNamed(name) = {}
  THEN /\ Reading /\ Once
       /\ failed' = TRUE /\ mode' = "interpret"
       /\ UNCHANGED <<data_stack, dictionary, compileVars, loopVars, running, lost, histories>>
  ELSE LET w == Max(WordsNamed(name))
       IN \/ /\ Compiling /\ WhileCompiling /\ MorePlain
             /\ Emit("call", w, new.code, <<cell("call"), operand(w)>>)
             /\ UNCHANGED <<conditions, do_index2, leave_words>>
          \/ /\ Interpreting /\ Once
             /\ running' = <<[word |-> w, at |-> 1, loops |-> do_index]>>
             /\ broken' = (broken \/ Broken(dictionary[w]))
             /\ UNCHANGED <<exited, mode, data_stack, dictionary, compileVars, loopVars, failed, lost>>

\* fvm_process_string is called with the next line.
NewLine ==
  /\ running = <<>> /\ lost = "no"
  /\ do_index' = -2
  /\ failed' = FALSE
  /\ UNCHANGED <<mode, data_stack, dictionary, compileVars, do_variables, running, lost,
                 typed, histories>>

-----------------------------------------------------------------------------
(* Running, a cell at a time.                                              *)

Frame == Head(running)
Code == dictionary[Frame.word].code
Handler == Code[Frame.at].handler
Operand == Code[Frame.at + 1].value

InCode == Frame.at \in DOMAIN Code /\ Handler # "operand"
Executing == running # <<>> /\ lost = "no" /\ InCode
WhileRunning == UNCHANGED <<mode, compileVars, typed>>

Goto(at) == running' = <<[Frame EXCEPT !.at = at]>> \o Tail(running)
\* Where a handler leaves fvm_current_word at its operand, or past it.
Jump == Goto(Operand + 1)
Past == Goto(Frame.at + 2)

GiveUp == running' = <<>> /\ failed' = TRUE

\* A handler that does nothing but to the data stack.
WhileRunningPlain == WhileRunning /\ UNCHANGED <<dictionary, loopVars, histories>>

RunNumber ==
  /\ Executing /\ WhileRunningPlain
  /\ Handler = "lit"
  /\ Push(Operand) /\ Past /\ UNCHANGED failed

\* i, j, k: always the same three variables.
RunIndex ==
  /\ Executing /\ WhileRunningPlain
  /\ Handler \in {"i", "j", "k"}
  /\ Push(do_variables[CASE Handler = "i" -> 0 [] Handler = "j" -> 2 [] Handler = "k" -> 4])
  /\ Goto(Frame.at + 1) /\ UNCHANGED failed

\* char_p is rounded down to a cell, and moved by one.
RunText ==
  /\ Executing /\ WhileRunningPlain
  /\ Handler = ".\""
  /\ Goto(Frame.at + 2 + (Code[Frame.at].value + 1) \div Cell)
  /\ UNCHANGED <<data_stack, failed, lost>>

RunUnloop ==
  /\ Executing /\ WhileRunningPlain
  /\ Handler = "unloop"
  /\ Goto(Frame.at + 1) /\ UNCHANGED <<data_stack, failed, lost>>

RunStackWord ==
  /\ Executing /\ WhileRunningPlain
  /\ Handler \in StackWords
  /\ IF Undefined(Handler, data_stack)
     THEN lost' = "undefined" /\ UNCHANGED <<data_stack, running, failed>>
     ELSE IF Fails(Handler, data_stack)
     THEN data_stack' = LeftByFailure(Handler, data_stack) /\ GiveUp /\ UNCHANGED lost
     ELSE LET s == Apply(Handler, data_stack)
          IN IF Len(s) <= StackLength
             THEN data_stack' = s /\ Goto(Frame.at + 1) /\ UNCHANGED <<failed, lost>>
             ELSE lost' = "stack overflow" /\ UNCHANGED <<data_stack, running, failed>>

\* fvm_call_handler
RunCall ==
  /\ Executing /\ WhileRunning
  /\ Handler = "call"
  /\ running' = <<[word |-> Operand, at |-> 1, loops |-> do_index],
                  [Frame EXCEPT !.at = @ + 1]>> \o Tail(running)
  /\ broken' = (broken \/ Broken(dictionary[Operand]))
  /\ UNCHANGED <<data_stack, dictionary, loopVars, failed, lost, exited>>

\* fvm_ret_handler, at the end of a word and for "exit".
RunExit ==
  /\ Executing /\ WhileRunning
  /\ Handler = "exit"
  /\ running' = IF Tail(running) = <<>> THEN <<>>
                ELSE [Tail(running) EXCEPT ![1].at = @ + 1]
  /\ exited' = (exited \/ (Frame.at < Len(Code) /\ do_index # Frame.loops))
  /\ UNCHANGED <<data_stack, dictionary, loopVars, failed, lost, broken>>

\* if; while and until share a handler that is the same.
RunIf ==
  /\ Executing /\ WhileRunningPlain
  /\ Handler \in {"if", "while", "until"}
  /\ IF data_stack = <<>>
     THEN GiveUp /\ UNCHANGED data_stack
     ELSE /\ IF Head(data_stack) = 0 THEN Jump ELSE Past
          /\ data_stack' = Tail(data_stack)
          /\ UNCHANGED failed
  /\ UNCHANGED lost

RunJump ==
  /\ Executing /\ WhileRunningPlain
  /\ Handler \in {"else", "repeat", "again", "endof"}
  /\ Jump
  /\ UNCHANGED <<data_stack, failed, lost>>

RunOf ==
  /\ Executing /\ WhileRunningPlain
  /\ Handler = "of"
  /\ IF Len(data_stack) < 2
     THEN GiveUp /\ UNCHANGED data_stack
     ELSE /\ IF data_stack[1] # data_stack[2] THEN Jump ELSE Past
          /\ data_stack' = Tail(data_stack)
          /\ UNCHANGED failed
  /\ UNCHANGED lost

\* The jump is taken in the range.
RunRangeof ==
  /\ Executing /\ WhileRunningPlain
  /\ Handler = "rangeof"
  /\ IF Len(data_stack) < 3
     THEN GiveUp /\ UNCHANGED data_stack
     ELSE /\ IF data_stack[3] \in data_stack[2]..data_stack[1] THEN Jump ELSE Past
          /\ data_stack' = Replace(data_stack, 2, <<>>)
          /\ UNCHANGED failed
  /\ UNCHANGED lost

RunDo ==
  /\ Executing /\ WhileRunning
  /\ Handler = "do"
  /\ IF Len(data_stack) < 2
     THEN GiveUp /\ UNCHANGED <<data_stack, loopVars, lost>>
     ELSE IF do_index + 2 > 4
     THEN lost' = "do variables" /\ UNCHANGED <<data_stack, loopVars, running, failed>>
     ELSE /\ do_index' = do_index + 2
          /\ do_variables' = [do_variables EXCEPT ![do_index + 2] = data_stack[1],
                                                  ![do_index + 3] = data_stack[2]]
          /\ data_stack' = Replace(data_stack, 2, <<>>)
          /\ Goto(Frame.at + 1)
          /\ UNCHANGED <<failed, lost>>
  /\ UNCHANGED <<dictionary, histories>>

\* Mutant: the variables of the loop are kept.
LeaveKeeps == do_index

LeaveDrops == do_index - 2

InLoop(handlers) ==
  /\ Executing /\ WhileRunning
  /\ Handler \in handlers /\ do_index >= 0
  /\ UNCHANGED <<dictionary, lost, histories>>

RunDo2 ==
  /\ InLoop({"do2"})
  /\ IF do_variables[do_index] >= do_variables[do_index + 1]
     THEN do_index' = do_index - 2 /\ Jump
     ELSE Past /\ UNCHANGED do_index
  /\ UNCHANGED <<data_stack, do_variables, failed>>

RunLoop ==
  /\ InLoop({"loop", "+loop"})
  /\ IF Handler = "loop"
     THEN /\ do_variables' = [do_variables EXCEPT ![do_index] = Wrap(@ + 1)]
          /\ Jump
          /\ UNCHANGED <<data_stack, failed>>
     ELSE IF data_stack = <<>>
     THEN GiveUp /\ UNCHANGED <<data_stack, do_variables>>
     ELSE /\ do_variables' = [do_variables EXCEPT ![do_index] = Wrap(@ + Head(data_stack))]
          /\ data_stack' = Tail(data_stack)
          /\ Jump
          /\ UNCHANGED failed
  /\ UNCHANGED do_index

RunLeave ==
  /\ InLoop({"leave"})
  /\ do_index' = LeaveDrops
  /\ Jump
  /\ UNCHANGED <<data_stack, do_variables, failed>>

RunVarSet ==
  /\ Executing /\ WhileRunning
  /\ Handler = "var_set"
  /\ IF data_stack = <<>>
     THEN GiveUp /\ UNCHANGED <<data_stack, dictionary>>
     ELSE /\ dictionary' = [dictionary EXCEPT ![Operand].code[2].value = Head(data_stack)]
          /\ data_stack' = Tail(data_stack)
          /\ Past
          /\ UNCHANGED failed
  /\ UNCHANGED <<loopVars, lost, histories>>

\* What is at fvm_current_word is no code, or a loop that did not begin goes on.
RunAstray ==
  /\ running # <<>> /\ lost = "no"
  /\ InCode => Handler \in {"do2", "loop", "+loop", "leave"} /\ do_index < 0
  /\ lost' = "astray"
  /\ UNCHANGED <<mode, data_stack, dictionary, compileVars, loopVars, running, failed,
                 typed, histories>>

Lost ==
  /\ lost # "no"
  /\ UNCHANGED vars

-----------------------------------------------------------------------------
Next ==
  \/ \E n \in Numbers : CompileNumber(n)
  \/ \E word \in Plain : CompilePlain(word)
  \/ \E length \in Texts : CompileText(length)
  \/ \E word \in Structure : CompileOpener(word) \/ CompileMiddle(word) \/ CompileCloser(word)
  \/ \E word \in Structure : Overrun(word)
  \/ \E x \in Names : start_word(x) \/ constant(x) \/ variable(x)
  \/ start_word_in_word \/ end_word
  \/ \E name \in Given : forget(name) \/ Name(name)
  \/ reset
  \/ \E v \in Numbers : TypeNumber(v)
  \/ \E word \in StackWords : TypeStackWord(word)
  \/ TypeStructure
  \/ NewLine
  \/ RunNumber \/ RunIndex \/ RunText \/ RunUnloop \/ RunStackWord \/ RunCall \/ RunExit
  \/ RunIf \/ RunJump \/ RunOf \/ RunRangeof \/ RunDo \/ RunDo2 \/ RunLoop \/ RunLeave
  \/ RunVarSet \/ RunAstray \/ Lost

Spec == Init /\ [][Next]_vars

-----------------------------------------------------------------------------
(* Where the jumps of a definition should go, by how it is written: the    *)
(* structures are told apart by how deep their words are nested.           *)

Count(source, i, words) == Cardinality({j \in 1..i : source[j].word \in words})

\* How many structures are open behind word i.
Depth(source, i) == Count(source, i, Openers) - Count(source, i, Closers)

\* The next part of the structure that is open behind word i.
NextPart(source, i) ==
  Min({j \in (i + 1)..Len(source) :
         \/ Depth(source, j) < Depth(source, i)
         \/ Depth(source, j) = Depth(source, i) /\ source[j].word = "else"})

\* The opener of the innermost structure with one of the words that is open at word i.
Opener(source, i, words) ==
  Max({j \in 1..(i - 1) : /\ source[j].word \in words
                          /\ \A k \in j..(i - 1) : Depth(source, k) >= Depth(source, j)})

\* Its end.
End(source, j) ==
  Min({k \in (j + 1)..Len(source) : Depth(source, k) < Depth(source, j)})

\* The cell that is run when the jump of word i is taken.
Target(word, i) ==
  LET source == word.source
      token == source[i].word
      Behind(j) == IF j = Len(source) THEN Len(word.code) ELSE word.first[j + 1]
  IN CASE token \in {"if", "else", "while", "of", "rangeof"} -> Behind(NextPart(source, i))
       [] token = "do" -> Behind(End(source, i))
       [] token \in {"loop", "+loop"} -> word.first[Opener(source, i, {"do"})] + 1
       [] token = "leave" -> Behind(End(source, Opener(source, i, {"do"})))
       [] token \in {"repeat", "until", "again"} ->
            Behind(Opener(source, i, {"begin"}))
       [] token = "endof" -> Behind(End(source, Opener(source, i, {"case"})))

Jumps == {"if", "else", "while", "of", "rangeof", "do", "loop", "+loop", "leave",
          "repeat", "until", "again", "endof"}

\* Where the operand of the jump of word i is.
OperandOf(word, i) == word.first[i] + (IF word.source[i].word = "do" THEN 2 ELSE 1)

\* Each jump of a finished definition goes where its structure says, however
\* if, case, begin and do are nested, unless a word of it was refused
\* (forth_words.c:910-1145, 1279-1289, 1801-1927).
JumpsFollowStructure ==
  \A w \in DOMAIN dictionary :
    LET word == dictionary[w]
    IN ~word.spoiled =>
         \A i \in DOMAIN word.source :
           word.source[i].word \in Jumps =>
             word.code[OperandOf(word, i)].value + 1 = Target(word, i)

\* Until a broken definition is run, fvm_current_word is at a handler of a word
\* of the dictionary: through jumps, calls, returns, literals and texts nothing
\* but code is run (forth_core.c:64-80, forth_words.c:923-1145).
NeverAstray ==
  lost = "astray" => broken

\* Until a broken definition is run, the stack of loop variables is as high at
\* the end of a word as it was when it was called, and empty when a line has
\* been run: whichever way each loop was left but exit, for which unloop does
\* nothing (forth_words.c:1019-1087, 1291-1299, 1776-1781).
LoopsBalanced ==
  broken \/ exited \/ lost # "no" \/
    IF running = <<>> THEN failed \/ do_index = -2
    ELSE Frame.at = Len(Code) => do_index = Frame.loops

\* The stack that a comment such as ( x1 x2 -- x2 x1 x2 ) asks for, the last
\* one being the top.
Comment(word, s) ==
  LET n == Len(s)
      u == s[1]
  IN CASE word = "2swap" -> <<s[3], s[4], s[1], s[2]>> \o SubSeq(s, 5, n)
       [] word = "over" -> <<s[2], s[1], s[2]>> \o SubSeq(s, 3, n)
       [] word = "rot" -> <<s[3], s[1], s[2]>> \o SubSeq(s, 4, n)
       [] word = "-rot" -> <<s[2], s[3], s[1]>> \o SubSeq(s, 4, n)
       [] word = "tuck" -> <<s[1], s[2], s[1]>> \o SubSeq(s, 3, n)
       [] word = "?dup" -> IF u = 0 THEN s ELSE <<u>> \o s
       [] word = "roll" -> IF u <= 0 THEN Tail(s)
                           ELSE <<s[u + 2]>> \o SubSeq(s, 2, u + 1) \o SubSeq(s, u + 3, n)
       [] word = "-roll" -> IF u <= 0 THEN Tail(s)
                            ELSE SubSeq(s, 3, u + 2) \o <<s[2]>> \o SubSeq(s, u + 3, n)
       [] word = "within" -> <<IF s[3] \in s[2]..(s[1] - 1) THEN 1 ELSE 0>> \o SubSeq(s, 4, n)

\* The nine words that have more to do than one line of C leave the stack that
\* their comments in forth_words.c show (lines 862, 1266, 1303, 1468, 1488, 1507,
\* 1596, 1628, 1785).
StackComments ==
  [][\A word \in {"2swap", "over", "rot", "-rot", "tuck", "?dup", "roll", "-roll", "within"} :
       TypeStackWord(word) /\ ~Fails(word, data_stack) /\ lost' = lost
         => data_stack' = Comment(word, data_stack)]_vars
=============================================================================
