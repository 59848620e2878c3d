------------------------------ MODULE ForthProofs ------------------------------
(***************************************************************************)
(* What the compiling words of forth_words.c build can be run: for every   *)
(* definition whose words were all taken, fvm_current_word only comes to   *)
(* handlers, and the stack of loop variables is as high after a word as it *)
(* was before.                                                             *)
(***************************************************************************)
EXTENDS Forth, WellFoundedInduction, SequenceTheorems, FiniteSetTheorems, TLAPS

-----------------------------------------------------------------------------
(* Sequences whose elements may be anything.                               *)

IsSeq(s) == s \in Seq({s[n] : n \in 1..Len(s)})

LEMMA SeqIs ==
  ASSUME NEW S, NEW s \in Seq(S)
  PROVE  IsSeq(s)
<1>1. Len(s) \in Nat /\ DOMAIN s = 1..Len(s) /\ s = [n \in 1..Len(s) |-> s[n]]
  OBVIOUS
<1> DEFINE T == {s[n] : n \in 1..Len(s)}
<1>2. s \in [1..Len(s) -> T]
  BY <1>1
<1>3. Seq(T) = UNION {[1..n -> T] : n \in Nat}
  BY SeqDef, Zenon
<1> HIDE DEF T
<1>4. s \in Seq(T)
  BY <1>1, <1>2, <1>3, Zenon
<1>5. QED
  BY <1>4 DEF IsSeq, T

LEMMA FunctionIsSeq ==
  ASSUME NEW s, NEW n \in Nat, DOMAIN s = 1..n, s = [k \in 1..n |-> s[k]]
  PROVE  IsSeq(s) /\ Len(s) = n
<1>1. s \in [1..n -> {s[k] : k \in 1..n}]
  OBVIOUS
<1>2. s \in Seq({s[k] : k \in 1..n})
  BY <1>1, SeqDef
<1>3. Len(s) = n
  BY <1>2, LenProperties
<1>4. QED
  BY <1>2, <1>3 DEF IsSeq

LEMMA IsSeqFacts ==
  ASSUME NEW s, IsSeq(s)
  PROVE  Len(s) \in Nat /\ DOMAIN s = 1..Len(s) /\ s = [n \in 1..Len(s) |-> s[n]]
BY DEF IsSeq

LEMMA Joined ==
  ASSUME NEW s, NEW t, IsSeq(s), IsSeq(t)
  PROVE  /\ IsSeq(s \o t)
         /\ Len(s \o t) = Len(s) + Len(t)
         /\ \A n \in 1..Len(s) : (s \o t)[n] = s[n]
         /\ \A n \in 1..Len(t) : (s \o t)[Len(s) + n] = t[n]
<1> DEFINE S == {s[n] : n \in 1..Len(s)} \cup {t[n] : n \in 1..Len(t)}
<1>1. s \in [1..Len(s) -> S] /\ t \in [1..Len(t) -> S] /\ Len(s) \in Nat /\ Len(t) \in Nat
  BY IsSeqFacts
<1>2. s \in Seq(S) /\ t \in Seq(S)
  BY <1>1, SeqDef
<1> HIDE DEF S
<1>3. s \o t \in Seq(S)
  BY <1>2
<1>4. IsSeq(s \o t)
  BY <1>3, SeqIs, Zenon
<1>5. Len(s \o t) = Len(s) + Len(t) /\ \A n \in 1..Len(s) : (s \o t)[n] = s[n]
  BY <1>2
<1>6. \A n \in 1..Len(t) : (s \o t)[Len(s) + n] = t[n]
  BY <1>1, <1>2
<1>7. QED
  BY <1>4, <1>5, <1>6

LEMMA Added ==
  ASSUME NEW s, NEW x, IsSeq(s)
  PROVE  /\ IsSeq(Append(s, x))
         /\ Len(Append(s, x)) = Len(s) + 1
         /\ \A n \in 1..Len(s) : Append(s, x)[n] = s[n]
         /\ Append(s, x)[Len(s) + 1] = x
<1> DEFINE S == {s[n] : n \in 1..Len(s)} \cup {x}
<1>1. s \in [1..Len(s) -> S] /\ Len(s) \in Nat
  BY IsSeqFacts
<1>2. s \in Seq(S) /\ x \in S
  BY <1>1, SeqDef
<1> HIDE DEF S
<1>3. Append(s, x) \in Seq(S)
  BY <1>2
<1>4. IsSeq(Append(s, x))
  BY <1>3, SeqIs, Zenon
<1>5. QED
  BY <1>1, <1>2, <1>4

\* All behind the first n.
LEMMA Behind ==
  ASSUME NEW s, IsSeq(s), NEW n \in 0..Len(s)
  PROVE  LET t == SubSeq(s, n + 1, Len(s))
         IN /\ IsSeq(t) /\ Len(t) = Len(s) - n
            /\ \A k \in 1..(Len(s) - n) : t[k] = s[n + k]
<1> DEFINE S == {s[k] : k \in 1..Len(s)}
<1>1. s \in Seq(S) /\ Len(s) \in Nat
  BY IsSeqFacts DEF IsSeq
<1> HIDE DEF S
<1> DEFINE t == SubSeq(s, n + 1, Len(s))
<1>2. t \in Seq(S)
  BY <1>1
<1>3. IsSeq(t)
  BY <1>2, SeqIs, Zenon
<1>4. Len(t) = Len(s) - n /\ \A k \in 1..(Len(s) - n) : t[k] = s[n + k]
  BY <1>1
<1>5. QED
  BY <1>3, <1>4

\* The first n.
LEMMA Before ==
  ASSUME NEW s, IsSeq(s), NEW n \in 0..Len(s)
  PROVE  LET t == SubSeq(s, 1, n)
         IN IsSeq(t) /\ Len(t) = n /\ \A k \in 1..n : t[k] = s[k]
<1> DEFINE S == {s[k] : k \in 1..Len(s)}
<1>1. s \in Seq(S) /\ Len(s) \in Nat
  BY IsSeqFacts DEF IsSeq
<1> HIDE DEF S
<1> DEFINE t == SubSeq(s, 1, n)
<1>2. t \in Seq(S)
  BY <1>1
<1>3. IsSeq(t)
  BY <1>2, SeqIs, Zenon
<1>4. Len(t) = n /\ \A k \in 1..n : t[k] = s[k]
  BY <1>1
<1>5. QED
  BY <1>3, <1>4

LEMMA RestIs ==
  ASSUME NEW s, IsSeq(s), s # <<>>
  PROVE  /\ Len(s) > 0 /\ Head(s) = s[1]
         /\ IsSeq(Tail(s)) /\ Len(Tail(s)) = Len(s) - 1
         /\ \A k \in 1..(Len(s) - 1) : Tail(s)[k] = s[k + 1]
<1> DEFINE S == {s[k] : k \in 1..Len(s)}
<1>1. s \in Seq(S) /\ Len(s) \in Nat
  BY IsSeqFacts DEF IsSeq
<1> HIDE DEF S
<1>2. Tail(s) \in Seq(S)
  BY <1>1
<1>3. IsSeq(Tail(s))
  BY <1>2, SeqIs, Zenon
<1>4. Len(s) > 0 /\ Head(s) = s[1] /\ Len(Tail(s)) = Len(s) - 1
  BY <1>1
<1>5. \A k \in 1..(Len(s) - 1) : Tail(s)[k] = s[k + 1]
  BY <1>1
<1>6. QED
  BY <1>3, <1>4, <1>5

LEMMA OnTop ==
  ASSUME NEW x, NEW s, IsSeq(s)
  PROVE  LET t == <<x>> \o s
         IN /\ IsSeq(t) /\ Len(t) = Len(s) + 1 /\ t[1] = x
            /\ \A k \in 1..Len(s) : t[k + 1] = s[k]
<1>1. <<x>> \in Seq({x}) /\ Len(<<x>>) = 1 /\ <<x>>[1] = x
  OBVIOUS
<1>2. IsSeq(<<x>>)
  BY <1>1, SeqIs
<1>3. \A k \in 1..Len(s) : 1 + k = k + 1
  BY IsSeqFacts
<1>4. Len(s) + 1 = 1 + Len(s)
  BY IsSeqFacts
<1>5. QED
  BY <1>1, <1>2, <1>3, <1>4, Joined

LEMMA EmptyIs == IsSeq(<<>>) /\ Len(<<>>) = 0
BY SeqIs, EmptySeq

-----------------------------------------------------------------------------
(* What is true of the code of a definition: to each cell that is run      *)
(* belongs a level, how many loops it is in, such that every cell goes to  *)
(* cells of the level that it leaves fvm_do_index at.                      *)

Looping == {"do2", "loop", "+loop", "leave"}
Leaving == {"do2", "leave"}
Jumping ==
  Looping \cup {"if", "while", "until", "of", "rangeof", "else", "repeat", "again", "endof"}
\* Those that go on with the next cell, and with the one behind their operand.
Passing1 == StackWords \cup {"i", "j", "k", "unloop"}
Passing2 == {"lit", "call", "var_set", "if", "while", "until", "of", "rangeof", "do2"}

IsVariable(code) ==
  /\ Len(code) = 3
  /\ code[1].handler = "lit" /\ code[2].handler = "operand" /\ code[3].handler = "exit"

Goes(level, p, n) == p \in DOMAIN level /\ level[p] = n

\* The level that the jump at p leaves.
After(code, level, p) ==
  IF code[p].handler \in Leaving THEN level[p] - 1 ELSE level[p]

\* A jump goes to its level, or its operand is still to be patched.
Jumped(code, level, p, open) ==
  \/ p + 1 \in open
  \/ Goes(level, code[p + 1].value + 1, After(code, level, p))

\* The cell at p of word w.
Sound(w, code, level, p, open) ==
  LET handler == code[p].handler
  IN /\ handler # "operand"
     /\ handler \in Looping => level[p] > 0
     /\ handler \in Jumping \cup Passing2 => p + 1 \in DOMAIN code
     /\ handler \in Jumping => Jumped(code, level, p, open)
     /\ handler \in Passing1 => Goes(level, p + 1, level[p])
     /\ handler \in Passing2 => Goes(level, p + 2, level[p])
     /\ handler = "do" => Goes(level, p + 1, level[p] + 1)
     /\ handler = ".\"" =>
          Goes(level, p + 2 + (code[p].value + 1) \div Cell, level[p])
     /\ handler \in {"call", "var_set"} => code[p + 1].value \in 1..(w - 1)
     /\ handler = "var_set" => IsVariable(dictionary[code[p + 1].value].code)

Levels(w, code, level, end, open) ==
  /\ DOMAIN level \subseteq 1..end /\ level \in [DOMAIN level -> Nat]
  /\ Goes(level, 1, 0) /\ end \in DOMAIN level
  /\ \A p \in DOMAIN level : p # end => Sound(w, code, level, p, open)

\* The code of a word that ";" has ended.
Finished(w, code, level) ==
  /\ Levels(w, code, level, Len(code), {})
  /\ code[Len(code)].handler = "exit" /\ level[Len(code)] = 0

-----------------------------------------------------------------------------
(* Running.                                                                *)

\* How high the loop variables are behind n loops.
Balance(height, base, n) ==
  height >= base + 2 * n /\ (exited \/ height = base + 2 * n)

\* The loop variables when the word that is running[k] goes on, and where.
Height(k) == IF k = 1 THEN do_index ELSE running[k - 1].loops
Place(k) == IF k = 1 THEN running[k].at ELSE running[k].at + 1

Frames == [word : Nat, at : Int, loops : Int]

FrameOk(k) ==
  LET w == running[k].word
  IN /\ w \in DOMAIN dictionary
     /\ \E level : /\ Finished(w, dictionary[w].code, level)
                   /\ Place(k) \in DOMAIN level
                   /\ Balance(Height(k), running[k].loops, level[Place(k)])

RunningOk ==
  /\ running \in Seq(Frames) /\ do_index \in Int
  /\ running = <<>> => failed \/ Balance(do_index, -2, 0)
  /\ running # <<>> => mode = "interpret" /\ Balance(running[Len(running)].loops, -2, 0)
  /\ \A k \in DOMAIN running : FrameOk(k) /\ running[k].loops >= -2

IsCode(code) ==
  /\ IsSeq(code)
  /\ \A n \in 1..Len(code) :
       code[n] = [handler |-> code[n].handler, value |-> code[n].value]

IsWord(word) ==
  /\ word = [name |-> word.name, code |-> word.code, source |-> word.source,
             first |-> word.first, spoiled |-> word.spoiled]
  /\ IsCode(word.code)
  /\ IsSeq(word.source) /\ IsSeq(word.first)

DictionaryOk ==
  /\ IsSeq(dictionary)
  /\ \A w \in DOMAIN dictionary :
       /\ IsWord(dictionary[w])
       /\ ~Broken(dictionary[w]) => \E level : Finished(w, dictionary[w].code, level)

LEMMA FramesAre ==
  ASSUME RunningOk
  PROVE  /\ Len(running) \in Nat /\ DOMAIN running = 1..Len(running)
         /\ \A k \in 1..Len(running) :
              /\ FrameOk(k) /\ running[k] \in Frames
              /\ running[k].word \in Nat /\ running[k].at \in Int
              /\ running[k].loops \in Int /\ running[k].loops >= -2
<1>1. running \in Seq(Frames)
  BY DEF RunningOk
<1>2. Len(running) \in Nat /\ DOMAIN running = 1..Len(running)
      /\ \A k \in 1..Len(running) : running[k] \in Frames
  BY <1>1
<1>3. \A k \in 1..Len(running) : FrameOk(k) /\ running[k].loops >= -2
  BY <1>2 DEF RunningOk
<1>4. \A f \in Frames : f.word \in Nat /\ f.at \in Int /\ f.loops \in Int
  BY DEF Frames
<1>5. QED
  BY <1>2, <1>3, <1>4

\* What is run now.
LEMMA AtHandler ==
  ASSUME RunningOk, running # <<>>
  PROVE  /\ running \in Seq(Frames) /\ Len(running) > 0 /\ Frame = running[1]
         /\ Frame \in Frames /\ Frame.word \in DOMAIN dictionary /\ do_index \in Int
         /\ \E level : /\ Finished(Frame.word, Code, level)
                       /\ Frame.at \in DOMAIN level
                       /\ Balance(do_index, Frame.loops, level[Frame.at])
<1>1. running \in Seq(Frames) /\ Len(running) > 0 /\ Frame = running[1] /\ Frame \in Frames
  BY DEF RunningOk, Frame
<1>2. FrameOk(1) /\ do_index \in Int
  BY <1>1 DEF RunningOk
<1>3. Height(1) = do_index /\ Place(1) = Frame.at
  BY <1>1 DEF Height, Place
<1>4. QED
  BY <1>1, <1>2, <1>3 DEF FrameOk, Code

\* A cell that is run, and where it goes.
LEMMA Cells ==
  ASSUME NEW w, NEW code, NEW level, Finished(w, code, level), NEW p \in DOMAIN level
  PROVE  /\ p \in Nat /\ p > 0 /\ level[p] \in Nat
         /\ code[p].handler # "exit" => Sound(w, code, level, p, {})
         /\ code[p].handler # "operand"
         /\ p <= Len(code)
<1>1. /\ DOMAIN level \subseteq 1..Len(code) /\ level \in [DOMAIN level -> Nat]
      /\ \A q \in DOMAIN level : q # Len(code) => Sound(w, code, level, q, {})
      /\ code[Len(code)].handler = "exit"
  BY DEF Finished, Levels
<1>2. p \in Nat /\ p > 0 /\ p <= Len(code)
  BY <1>1
<1>3. p # Len(code) => Sound(w, code, level, p, {})
  BY <1>1
<1>4. Sound(w, code, level, p, {}) => code[p].handler # "operand"
  BY DEF Sound
<1>5. QED
  BY <1>1, <1>2, <1>3, <1>4

CodeStays ==
  \A w \in DOMAIN dictionary :
    /\ w \in DOMAIN dictionary'
    /\ \A level : Finished(w, dictionary[w].code, level)
                    => (Finished(w, dictionary[w].code, level))'

LEMMA SameCode ==
  ASSUME dictionary' = dictionary
  PROVE  CodeStays
<1>1. ASSUME NEW w, NEW code, NEW level, NEW p, Sound(w, code, level, p, {})
      PROVE  Sound(w, code, level, p, {})'
  BY <1>1 DEF Sound
<1>2. ASSUME NEW w, NEW code, NEW level, Finished(w, code, level)
      PROVE  Finished(w, code, level)'
  BY <1>1, <1>2 DEF Finished, Levels
<1>3. QED
  BY <1>2 DEF CodeStays

LEMMA SameDictionary ==
  ASSUME DictionaryOk, dictionary' = dictionary
  PROVE  DictionaryOk'
<1>1. ASSUME NEW w \in DOMAIN dictionary, ~Broken(dictionary[w])
      PROVE  \E level : (Finished(w, dictionary[w].code, level))'
  <2>1. PICK level : Finished(w, dictionary[w].code, level)
    BY <1>1 DEF DictionaryOk
  <2>2. QED
    BY <2>1, SameCode DEF CodeStays
<1>2. QED
  BY <1>1 DEF DictionaryOk

LEMMA GotoKeeps ==
  ASSUME RunningOk, running # <<>>, CodeStays,
         NEW q, Goto(q),
         NEW level, Finished(Frame.word, Code, level), q \in DOMAIN level,
         do_index' \in Int, Balance(do_index', Frame.loops, level[q]),
         exited' = exited, mode' = mode
  PROVE  RunningOk'
<1>1. /\ running \in Seq(Frames) /\ Len(running) > 0 /\ Frame = running[1]
      /\ Frame \in Frames /\ Frame.word \in DOMAIN dictionary
  BY AtHandler
<1>2. q \in Int
  BY Cells
<1>3. PICK f : f = [Frame EXCEPT !.at = q]
  OBVIOUS
<1>4. f \in Frames /\ f.word = Frame.word /\ f.at = q /\ f.loops = Frame.loops
  BY <1>1, <1>2, <1>3 DEF Frames
<1>5. running' = <<f>> \o Tail(running)
  BY <1>3 DEF Goto
<1>6. /\ running' \in Seq(Frames) /\ Len(running') = Len(running)
      /\ running'[1] = f /\ \A k \in 2..Len(running) : running'[k] = running[k]
  BY <1>1, <1>4, <1>5
<1>7. \A k \in 1..Len(running) : running'[k].loops = running[k].loops /\ running'[k].word = running[k].word
  BY <1>1, <1>4, <1>6
<1>8. FrameOk(1)'
  <2>1. Place(1)' = q /\ Height(1)' = do_index'
    BY <1>4, <1>6 DEF Place, Height
  <2>2. (Finished(Frame.word, Code, level))'
    <3>1. (Finished(f.word, dictionary[f.word].code, level))'
      BY <1>1, <1>4 DEF CodeStays, Code
    <3>2. Frame' = f
      BY <1>6 DEF Frame
    <3>3. QED
      BY <3>1, <3>2 DEF Code
  <2>3. Balance(do_index, Frame.loops, level[q])'
    <3>1. Frame' = f
      BY <1>6 DEF Frame
    <3>2. QED
      BY <1>4, <3>1 DEF Balance
  <2>4. Frame' = running'[1] /\ running'[1].word = Frame.word
    BY <1>4, <1>6 DEF Frame
  <2>5. running'[1].word \in DOMAIN dictionary'
    BY <1>1, <2>4 DEF CodeStays
  <2>6. QED
    BY <2>1, <2>2, <2>3, <2>4, <2>5 DEF FrameOk, Code
<1>9. ASSUME NEW k \in 2..Len(running)
      PROVE  FrameOk(k)'
  <2>1. FrameOk(k)
    BY <1>1 DEF RunningOk
  <2>2. Place(k)' = Place(k) /\ Height(k)' = Height(k)
    BY <1>6, <1>7 DEF Place, Height
  <2>3. PICK l : /\ Finished(running[k].word, dictionary[running[k].word].code, l)
                 /\ Place(k) \in DOMAIN l
                 /\ Balance(Height(k), running[k].loops, l[Place(k)])
    BY <2>1 DEF FrameOk
  <2>4. running[k].word \in DOMAIN dictionary /\ running'[k].word = running[k].word
    BY <2>1, <1>6 DEF FrameOk
  <2>5. (Finished(running[k].word, dictionary[running[k].word].code, l))'
    BY <2>3, <2>4 DEF CodeStays
  <2>6. Balance(Height(k), running[k].loops, l[Place(k)])'
    BY <2>2, <2>3, <1>6 DEF Balance
  <2>7. running'[k].word \in DOMAIN dictionary'
    BY <2>4 DEF CodeStays
  <2>8. QED
    BY <2>2, <2>3, <2>5, <2>6, <2>7 DEF FrameOk
<1>10. \A k \in DOMAIN running' : FrameOk(k)' /\ running'[k].loops >= -2
  <2>1. DOMAIN running' = 1..Len(running) /\ DOMAIN running = 1..Len(running)
    BY <1>1, <1>6
  <2>2. \A k \in 1..Len(running) : k = 1 \/ k \in 2..Len(running)
    BY <1>1
  <2>3. QED
    BY <1>7, <1>8, <1>9, <2>1, <2>2 DEF RunningOk
<1>11. running' # <<>> /\ mode' = "interpret"
  BY <1>1, <1>6 DEF RunningOk
<1>12. Balance(running[Len(running)].loops, -2, 0)'
  <2>1. Balance(running[Len(running)].loops, -2, 0)
    BY DEF RunningOk
  <2>2. running'[Len(running')].loops = running[Len(running)].loops
    BY <1>1, <1>6, <1>7
  <2>3. QED
    BY <2>1, <2>2 DEF Balance
<1>13. QED
  BY <1>6, <1>10, <1>11, <1>12 DEF RunningOk

LEMMA Apart ==
  /\ \A h \in Passing1 :
       h \notin Jumping \cup Passing2 \cup {"do", ".\"", "operand", "exit"}
  /\ \A h \in Jumping : h \notin {"do", ".\"", "operand", "exit", "call", "var_set", "lit"}
  /\ \A h \in Passing2 : h \notin {"do", ".\"", "operand", "exit"}
BY DEF Passing1, Passing2, Jumping, Looping, StackWords, Needing1, Needing2, Needing3, Unchecked

\* Code that is kept, or a variable's of which another value is kept.
LEMMA StaysFinished ==
  ASSUME NEW w, NEW code, NEW level, Finished(w, code, level),
         NEW code2,
         \/ code2 = code
         \/ IsVariable(code) /\ IsVariable(code2) /\ DOMAIN code2 = 1..3,
         \A v \in 1..(w - 1) : IsVariable(dictionary[v].code)
                                => IsVariable(dictionary'[v].code)
  PROVE  (Finished(w, code2, level))'
<1>1. CASE code2 = code
  <2>1. ASSUME NEW p, Sound(w, code, level, p, {})
        PROVE  Sound(w, code, level, p, {})'
    BY <2>1 DEF Sound
  <2>2. QED
    BY <1>1, <2>1 DEF Finished, Levels
<1>2. CASE IsVariable(code) /\ IsVariable(code2) /\ DOMAIN code2 = 1..3
  <2>1. Len(code) = 3 /\ Len(code2) = 3 /\ level[3] = 0 /\ level \in [DOMAIN level -> Nat]
    BY <1>2 DEF Finished, IsVariable, Levels
  <2>2. DOMAIN level \subseteq 1..3 /\ Goes(level, 1, 0) /\ 3 \in DOMAIN level
    BY <2>1 DEF Finished, Levels
  <2>3. \A p \in DOMAIN level : p # 3 => Sound(w, code, level, p, {})
    BY <2>1 DEF Finished, Levels
  <2>4. 2 \notin DOMAIN level
    BY <1>2, <2>3 DEF Sound, IsVariable
  <2>5. Sound(w, code2, level, 1, {})'
    <3>1. code2[1].handler = "lit"
      BY <1>2 DEF IsVariable
    <3>2. "lit" \in Passing2 /\ "lit" \notin Jumping /\ "lit" \notin Passing1
      BY Apart DEF Passing2
    <3>3. 2 \in DOMAIN code2 /\ Goes(level, 3, level[1]) /\ "lit" \notin Looping
      BY <1>2, <2>1, <2>2, <3>2 DEF Goes, Jumping
    <3>4. QED
      BY <3>1, <3>2, <3>3 DEF Sound
  <2>6. \A p \in DOMAIN level : p # 3 => (Sound(w, code2, level, p, {}))'
    <3>1. \A p \in DOMAIN level : p # 3 => p = 1
      BY <2>2, <2>4
    <3>2. QED
      BY <2>5, <3>1
  <2>7. Levels(w, code2, level, 3, {})'
    BY <2>1, <2>2, <2>6 DEF Levels
  <2>8. QED
    BY <1>2, <2>1, <2>7 DEF Finished, IsVariable
<1>3. QED
  BY <1>1, <1>2

\* fvm_data_stack_pop into the value of a variable.
LEMMA VariableSet ==
  ASSUME DictionaryOk, NEW v \in DOMAIN dictionary, IsVariable(dictionary[v].code),
         NEW x, dictionary' = [dictionary EXCEPT ![v].code[2].value = x]
  PROVE  CodeStays /\ DictionaryOk'
<1>1. /\ IsSeq(dictionary) /\ \A w \in DOMAIN dictionary : IsWord(dictionary[w])
  BY DEF DictionaryOk
<1>2. DOMAIN dictionary' = DOMAIN dictionary /\ DOMAIN dictionary = 1..Len(dictionary)
      /\ Len(dictionary) \in Nat /\ IsSeq(dictionary') /\ Len(dictionary') = Len(dictionary)
  <2>1. DOMAIN dictionary' = DOMAIN dictionary /\ DOMAIN dictionary = 1..Len(dictionary)
        /\ Len(dictionary) \in Nat
    BY <1>1, IsSeqFacts
  <2>2. dictionary' = [n \in 1..Len(dictionary) |-> dictionary'[n]]
    BY <2>1
  <2>3. QED
    BY <2>1, <2>2, FunctionIsSeq
<1>3. PICK code : code = dictionary[v].code
  OBVIOUS
<1>4. PICK code2 : code2 = [code EXCEPT ![2].value = x]
  OBVIOUS
<1>5. /\ Len(code) = 3 /\ DOMAIN code = 1..3 /\ IsCode(code)
      /\ code[2] = [handler |-> code[2].handler, value |-> code[2].value]
  <2>1. IsCode(code)
    BY <1>1, <1>3 DEF IsWord
  <2>2. Len(code) = 3
    BY <1>3 DEF IsVariable
  <2>3. DOMAIN code = 1..3
    BY <2>1, <2>2, IsSeqFacts DEF IsCode
  <2>4. 2 \in 1..Len(code)
    BY <2>2
  <2>5. QED
    BY <2>1, <2>2, <2>3, <2>4 DEF IsCode
<1>6. /\ DOMAIN code2 = 1..3
      /\ code2[2] = [handler |-> code[2].handler, value |-> x]
      /\ code2[1] = code[1] /\ code2[3] = code[3]
  BY <1>4, <1>5
<1>7. IsSeq(code2) /\ Len(code2) = 3
  <2>1. code2 = [n \in 1..3 |-> code2[n]]
    BY <1>4, <1>6
  <2>2. QED
    BY <1>6, <2>1, FunctionIsSeq
<1>8. IsVariable(code2) /\ IsCode(code2)
  <2>1. code2[2].handler = code[2].handler /\ code2[2].value = x
    BY <1>6
  <2>2. IsVariable(code2)
    BY <1>3, <1>6, <1>7, <2>1 DEF IsVariable
  <2>3. \A n \in 1..3 : n = 2 \/ code2[n] = code[n]
    BY <1>6
  <2>4. \A n \in 1..3 :
           code2[n] = [handler |-> code2[n].handler, value |-> code2[n].value]
    <3>1. code2[2] = [handler |-> code2[2].handler, value |-> code2[2].value]
      BY <1>6, <2>1
    <3>2. \A n \in 1..3 : code[n] = [handler |-> code[n].handler, value |-> code[n].value]
      BY <1>5 DEF IsCode
    <3>3. QED
      BY <2>3, <3>1, <3>2
  <2>5. QED
    BY <1>7, <2>2, <2>4 DEF IsCode
<1>9. PICK word : word = dictionary[v]
  OBVIOUS
<1>10. /\ dictionary'[v] = [word EXCEPT !.code = code2]
       /\ \A w \in DOMAIN dictionary : w # v => dictionary'[w] = dictionary[w]
  BY <1>2, <1>3, <1>4, <1>9
<1>11. word = [name |-> word.name, code |-> word.code, source |-> word.source,
               first |-> word.first, spoiled |-> word.spoiled]
       /\ IsSeq(word.source) /\ IsSeq(word.first)
  BY <1>1, <1>9 DEF IsWord
<1>12. PICK word2 : word2 = [word EXCEPT !.code = code2]
  OBVIOUS
<1>13. word2 = [name |-> word.name, code |-> code2, source |-> word.source,
                first |-> word.first, spoiled |-> word.spoiled]
  BY <1>11, <1>12
<1>14. /\ word2.name = word.name /\ word2.code = code2 /\ word2.source = word.source
       /\ word2.first = word.first /\ word2.spoiled = word.spoiled
  BY <1>13
<1>15. IsWord(word2)
  BY <1>8, <1>11, <1>13, <1>14 DEF IsWord
<1>16. Broken(word2) <=> Broken(dictionary[v])
  BY <1>9, <1>14 DEF Broken
<1>17. \A w \in DOMAIN dictionary : IsVariable(dictionary[w].code) => IsVariable(dictionary'[w].code)
  BY <1>8, <1>10, <1>12, <1>14
<1>18. ASSUME NEW w \in DOMAIN dictionary, NEW level, Finished(w, dictionary[w].code, level)
       PROVE  (Finished(w, dictionary[w].code, level))'
  <2>1. \A u \in 1..(w - 1) : u \in DOMAIN dictionary
    BY <1>2
  <2>2. PICK d : d = dictionary'[w].code
    OBVIOUS
  <2>3. CASE w = v
    <3>1. d = code2
      BY <1>10, <1>12, <1>14, <2>2, <2>3
    <3>2. (Finished(w, d, level))'
      BY <1>3, <1>6, <1>8, <1>17, <1>18, <2>1, <2>3, <3>1, StaysFinished
    <3>3. QED
      BY <2>2, <3>2
  <2>4. CASE w # v
    <3>1. d = dictionary[w].code
      BY <1>10, <2>2, <2>4
    <3>2. (Finished(w, d, level))'
      BY <1>17, <1>18, <2>1, <3>1, StaysFinished
    <3>3. QED
      BY <2>2, <3>2
  <2>5. QED
    BY <2>3, <2>4
<1>19. CodeStays
  BY <1>2, <1>18 DEF CodeStays
<1>20. ASSUME NEW w \in DOMAIN dictionary
       PROVE  IsWord(dictionary'[w]) /\ (Broken(dictionary'[w]) <=> Broken(dictionary[w]))
  BY <1>1, <1>10, <1>12, <1>15, <1>16
<1>21. DictionaryOk'
  <2>1. ASSUME NEW w \in DOMAIN dictionary, ~Broken(dictionary'[w])
        PROVE  \E level : (Finished(w, dictionary[w].code, level))'
    <3>1. PICK level : Finished(w, dictionary[w].code, level)
      BY <1>20, <2>1 DEF DictionaryOk
    <3>2. QED
      BY <1>18, <3>1
  <2>2. QED
    BY <1>2, <1>20, <2>1 DEF DictionaryOk
<1>22. QED
  BY <1>19, <1>21

\* A handler that stays in its level, gives the line up or does not come back.
LEMMA PlainStep ==
  ASSUME RunningOk, running # <<>>, WhileRunningPlain,
         NEW q,
         \/ running' = running
         \/ GiveUp
         \/ /\ Goto(q)
            /\ \A level : /\ Finished(Frame.word, Code, level)
                         /\ Frame.at \in DOMAIN level
                         => Goes(level, q, level[Frame.at])
  PROVE  RunningOk'
<1>1. /\ dictionary' = dictionary /\ do_index' = do_index /\ exited' = exited /\ mode' = mode
  BY DEF WhileRunningPlain, WhileRunning, loopVars, histories
<1>2. CodeStays /\ do_index \in Int
  BY <1>1, SameCode, AtHandler
<1>3. CASE running' = running
  <2>1. ASSUME NEW k \in DOMAIN running
        PROVE  FrameOk(k)'
    <3>1. FrameOk(k)
      BY DEF RunningOk
    <3>2. Place(k)' = Place(k) /\ Height(k)' = Height(k)
      BY <1>1, <1>3 DEF Place, Height
    <3>3. PICK l : /\ Finished(running[k].word, dictionary[running[k].word].code, l)
                   /\ Place(k) \in DOMAIN l
                   /\ Balance(Height(k), running[k].loops, l[Place(k)])
      BY <3>1 DEF FrameOk
    <3>4. running[k].word \in DOMAIN dictionary
      BY <3>1 DEF FrameOk
    <3>5. (Finished(running[k].word, dictionary[running[k].word].code, l))'
      BY <1>2, <1>3, <3>3, <3>4 DEF CodeStays
    <3>6. Balance(Height(k), running[k].loops, l[Place(k)])'
      BY <1>1, <1>3, <3>2, <3>3 DEF Balance
    <3>7. QED
      BY <1>1, <1>3, <3>2, <3>3, <3>4, <3>5, <3>6 DEF FrameOk
  <2>2. Balance(running[Len(running)].loops, -2, 0)'
    BY <1>1, <1>3 DEF RunningOk, Balance
  <2>3. QED
    BY <1>1, <1>3, <2>1, <2>2 DEF RunningOk
<1>4. CASE GiveUp
  <2>1. running' = <<>> /\ failed'
    BY <1>4 DEF GiveUp
  <2>2. \A k \in DOMAIN running' : FALSE
    BY <2>1
  <2>3. running' \in Seq(Frames)
    BY <2>1
  <2>4. QED
    BY <1>1, <1>2, <2>1, <2>2, <2>3 DEF RunningOk
<1>5. CASE /\ Goto(q)
           /\ \A level : /\ Finished(Frame.word, Code, level)
                        /\ Frame.at \in DOMAIN level
                        => Goes(level, q, level[Frame.at])
  <2>1. PICK level : /\ Finished(Frame.word, Code, level)
                     /\ Frame.at \in DOMAIN level
                     /\ Balance(do_index, Frame.loops, level[Frame.at])
    BY AtHandler
  <2>2. q \in DOMAIN level /\ level[q] = level[Frame.at]
    BY <1>5, <2>1 DEF Goes
  <2>3. Balance(do_index', Frame.loops, level[q])
    BY <1>1, <2>1, <2>2
  <2>4. QED
    BY <1>1, <1>2, <1>5, <2>1, <2>2, <2>3, GotoKeeps
<1>6. QED
  BY <1>3, <1>4, <1>5

\* Where the cell that is run goes.
LEMMA Next1 ==
  ASSUME NEW level, Finished(Frame.word, Code, level), Frame.at \in DOMAIN level,
         Handler \in Passing1
  PROVE  Goes(level, Frame.at + 1, level[Frame.at])
<1>1. Handler # "exit"
  BY Apart
<1>2. Sound(Frame.word, Code, level, Frame.at, {})
  BY <1>1, Cells DEF Handler
<1>3. QED
  BY <1>2 DEF Sound, Handler

LEMMA Next2 ==
  ASSUME NEW level, Finished(Frame.word, Code, level), Frame.at \in DOMAIN level,
         Handler \in Passing2
  PROVE  Goes(level, Frame.at + 2, level[Frame.at])
<1>1. Handler # "exit"
  BY Apart
<1>2. Sound(Frame.word, Code, level, Frame.at, {})
  BY <1>1, Cells DEF Handler
<1>3. QED
  BY <1>2 DEF Sound, Handler

LEMMA NextJump ==
  ASSUME NEW level, Finished(Frame.word, Code, level), Frame.at \in DOMAIN level,
         Handler \in Jumping
  PROVE  /\ Goes(level, Operand + 1,
                  IF Handler \in Leaving THEN level[Frame.at] - 1 ELSE level[Frame.at])
         /\ Handler \in Looping => level[Frame.at] > 0
<1>1. Handler # "exit"
  BY Apart
<1>2. Sound(Frame.word, Code, level, Frame.at, {})
  BY <1>1, Cells DEF Handler
<1>3. Jumped(Code, level, Frame.at, {}) /\ (Handler \in Looping => level[Frame.at] > 0)
  BY <1>2 DEF Sound, Handler
<1>4. QED
  BY <1>3 DEF Jumped, After, Handler, Operand

LEMMA PlainRuns ==
  ASSUME RunningOk,
         \/ RunNumber \/ RunIndex \/ RunText \/ RunUnloop \/ RunStackWord
         \/ RunIf \/ RunJump \/ RunOf \/ RunRangeof
  PROVE  RunningOk'
<1> DEFINE Stays(q) == \A level : /\ Finished(Frame.word, Code, level)
                                 /\ Frame.at \in DOMAIN level
                                 => Goes(level, q, level[Frame.at])
<1>1. running # <<>> /\ WhileRunningPlain
  BY DEF RunNumber, RunIndex, RunText, RunUnloop, RunStackWord, RunIf, RunJump, RunOf,
         RunRangeof, Executing
<1>2. ASSUME NEW q, Goto(q), Stays(q)
      PROVE  RunningOk'
  BY <1>1, <1>2, PlainStep
<1>3. GiveUp \/ running' = running => RunningOk'
  BY <1>1, PlainStep
<1>4. Handler \in Passing1 => Stays(Frame.at + 1)
  BY Next1
<1>5. Handler \in Passing2 => Stays(Frame.at + 2)
  BY Next2
<1>6. Handler \in Jumping \ Leaving => Stays(Operand + 1)
  BY NextJump
<1> HIDE DEF Stays
<1>7. CASE RunNumber
  <2>1. Handler \in Passing2 /\ Goto(Frame.at + 2)
    BY <1>7 DEF RunNumber, Past, Passing2
  <2>2. QED
    BY <1>2, <1>5, <2>1
<1>8. CASE RunIndex
  <2>1. Handler \in Passing1 /\ Goto(Frame.at + 1)
    BY <1>8 DEF RunIndex, Passing1
  <2>2. QED
    BY <1>2, <1>4, <2>1
<1>9. CASE RunText
  <2>1. Handler = ".\"" /\ Goto(Frame.at + 2 + (Code[Frame.at].value + 1) \div Cell)
    BY <1>9 DEF RunText
  <2>2. Stays(Frame.at + 2 + (Code[Frame.at].value + 1) \div Cell)
    <3> SUFFICES ASSUME NEW level, Finished(Frame.word, Code, level),
                        Frame.at \in DOMAIN level
                 PROVE  Goes(level, Frame.at + 2 + (Code[Frame.at].value + 1) \div Cell,
                             level[Frame.at])
      BY DEF Stays
    <3>1. Sound(Frame.word, Code, level, Frame.at, {})
      BY <2>1, Cells DEF Handler
    <3>2. QED
      BY <2>1, <3>1 DEF Sound, Handler
  <2>3. QED
    BY <1>2, <2>1, <2>2
<1>10. CASE RunUnloop
  <2>1. Handler \in Passing1 /\ Goto(Frame.at + 1)
    BY <1>10 DEF RunUnloop, Passing1
  <2>2. QED
    BY <1>2, <1>4, <2>1
<1>11. CASE RunStackWord
  <2>1. Handler \in Passing1
    BY <1>11 DEF RunStackWord, Passing1
  <2>2. Goto(Frame.at + 1) \/ GiveUp \/ running' = running
    BY <1>11 DEF RunStackWord
  <2>3. QED
    BY <1>2, <1>3, <1>4, <2>1, <2>2
<1>12. CASE RunIf
  <2>1. Handler \in Passing2 /\ Handler \in Jumping \ Leaving
    BY <1>12 DEF RunIf, Passing2, Jumping, Leaving
  <2>2. Goto(Operand + 1) \/ Goto(Frame.at + 2) \/ GiveUp
    BY <1>12 DEF RunIf, Jump, Past
  <2>3. QED
    BY <1>2, <1>3, <1>5, <1>6, <2>1, <2>2
<1>13. CASE RunJump
  <2>1. Handler \in Jumping \ Leaving
    BY <1>13 DEF RunJump, Jumping, Leaving
  <2>2. Goto(Operand + 1)
    BY <1>13 DEF RunJump, Jump
  <2>3. QED
    BY <1>2, <1>6, <2>1, <2>2
<1>14. CASE RunOf
  <2>1. Handler \in Passing2 /\ Handler \in Jumping \ Leaving
    BY <1>14 DEF RunOf, Passing2, Jumping, Leaving
  <2>2. Goto(Operand + 1) \/ Goto(Frame.at + 2) \/ GiveUp
    BY <1>14 DEF RunOf, Jump, Past
  <2>3. QED
    BY <1>2, <1>3, <1>5, <1>6, <2>1, <2>2
<1>15. CASE RunRangeof
  <2>1. Handler \in Passing2 /\ Handler \in Jumping \ Leaving
    BY <1>15 DEF RunRangeof, Passing2, Jumping, Leaving
  <2>2. Goto(Operand + 1) \/ Goto(Frame.at + 2) \/ GiveUp
    BY <1>15 DEF RunRangeof, Jump, Past
  <2>3. QED
    BY <1>2, <1>3, <1>5, <1>6, <2>1, <2>2
<1>16. QED
  BY <1>7, <1>8, <1>9, <1>10, <1>11, <1>12, <1>13, <1>14, <1>15

\* The line is given up.
LEMMA GivenUp ==
  ASSUME running' = <<>>, failed', do_index' \in Int
  PROVE  RunningOk'
<1>1. \A k \in DOMAIN running' : FALSE
  OBVIOUS
<1>2. running' \in Seq(Frames)
  OBVIOUS
<1>3. QED
  BY <1>1, <1>2 DEF RunningOk

\* The code does not come back from what it does now.
LEMMA StandsStill ==
  ASSUME RunningOk, running # <<>>,
         UNCHANGED <<mode, dictionary, running, do_index, exited>>
  PROVE  RunningOk'
<1>1. ASSUME NEW k \in DOMAIN running
      PROVE  FrameOk(k)'
  <2>1. FrameOk(k)
    BY DEF RunningOk
  <2>2. Place(k)' = Place(k) /\ Height(k)' = Height(k)
    BY DEF Place, Height
  <2>3. PICK l : /\ Finished(running[k].word, dictionary[running[k].word].code, l)
                 /\ Place(k) \in DOMAIN l
                 /\ Balance(Height(k), running[k].loops, l[Place(k)])
    BY <2>1 DEF FrameOk
  <2>4. running[k].word \in DOMAIN dictionary
    BY <2>1 DEF FrameOk
  <2>5. (Finished(running[k].word, dictionary[running[k].word].code, l))'
    BY <2>3, <2>4, SameCode DEF CodeStays
  <2>6. Balance(Height(k), running[k].loops, l[Place(k)])'
    BY <2>2, <2>3 DEF Balance
  <2>7. QED
    BY <2>2, <2>3, <2>4, <2>5, <2>6 DEF FrameOk
<1>2. Balance(running[Len(running)].loops, -2, 0)'
  BY DEF RunningOk, Balance
<1>3. QED
  BY <1>1, <1>2 DEF RunningOk

\* A step into a loop, out of it or back to its begin.
LEMMA LoopRuns ==
  ASSUME RunningOk, RunDo \/ RunDo2 \/ RunLoop \/ RunLeave
  PROVE  RunningOk'
<1>1. /\ running # <<>>
      /\ dictionary' = dictionary /\ exited' = exited /\ mode' = mode
  BY DEF RunDo, RunDo2, RunLoop, RunLeave, InLoop, Executing, WhileRunning, histories
<1>2. PICK level : /\ Finished(Frame.word, Code, level)
                   /\ Frame.at \in DOMAIN level
                   /\ Balance(do_index, Frame.loops, level[Frame.at])
  BY <1>1, AtHandler
<1>3. Frame \in Frames /\ do_index \in Int
  BY <1>1, AtHandler
<1>4. /\ level[Frame.at] \in Nat /\ Frame.loops \in Int
      /\ \A q \in DOMAIN level : level[q] \in Nat
  BY <1>2, <1>3, Cells DEF Frames
<1>5. ASSUME NEW q, Goto(q), q \in DOMAIN level, do_index' \in Int,
             Balance(do_index', Frame.loops, level[q])
      PROVE  RunningOk'
  BY <1>1, <1>2, <1>5, SameCode, GotoKeeps
<1>6. Sound(Frame.word, Code, level, Frame.at, {}) \/ Handler = "exit"
  BY <1>2, Cells DEF Handler
<1>7. CASE RunDo
  <2>1. CASE GiveUp
    <3>1. do_index' = do_index \/ do_index' = do_index + 2
      BY <1>7 DEF RunDo, loopVars
    <3>2. QED
      BY <1>3, <2>1, <3>1, GivenUp DEF GiveUp
  <2>2. CASE UNCHANGED <<loopVars, running>>
    BY <1>1, <2>2, StandsStill DEF loopVars
  <2>3. CASE do_index' = do_index + 2 /\ Goto(Frame.at + 1)
    <3>1. Handler = "do"
      BY <1>7 DEF RunDo
    <3>2. Goes(level, Frame.at + 1, level[Frame.at] + 1)
      BY <1>6, <3>1 DEF Sound, Handler
    <3>3. Balance(do_index', Frame.loops, level[Frame.at] + 1)
      <4>1. PICK n : n = level[Frame.at]
        OBVIOUS
      <4>2. n \in Nat /\ do_index' = do_index + 2 /\ Balance(do_index, Frame.loops, n)
        BY <1>2, <1>4, <2>3, <4>1
      <4>3. Balance(do_index + 2, Frame.loops, n + 1)
        BY <1>3, <1>4, <4>2 DEF Balance
      <4>4. QED
        BY <4>1, <4>2, <4>3
    <3>4. QED
      BY <1>3, <1>5, <2>3, <3>2, <3>3 DEF Goes
  <2>4. GiveUp \/ UNCHANGED <<loopVars, running>>
          \/ (do_index' = do_index + 2 /\ Goto(Frame.at + 1))
    BY <1>7 DEF RunDo
  <2>5. QED
    BY <2>1, <2>2, <2>3, <2>4
<1>8. CASE RunDo2
  <2>1. Handler \in Jumping /\ Handler \in Passing2 /\ Handler \in Leaving
    BY <1>8 DEF RunDo2, InLoop, Jumping, Looping, Leaving, Passing2
  <2>2. CASE do_index' = do_index - 2 /\ Goto(Operand + 1)
    <3>1. Goes(level, Operand + 1, level[Frame.at] - 1)
      BY <1>2, <2>1, NextJump
    <3>2. Balance(do_index', Frame.loops, level[Frame.at] - 1)
      BY <1>2, <1>3, <1>4, <2>2 DEF Balance
    <3>3. QED
      BY <1>3, <1>5, <2>2, <3>1, <3>2 DEF Goes
  <2>3. CASE do_index' = do_index /\ Goto(Frame.at + 2)
    <3>1. Goes(level, Frame.at + 2, level[Frame.at])
      BY <1>2, <2>1, Next2
    <3>2. QED
      BY <1>2, <1>3, <1>5, <2>3, <3>1 DEF Goes
  <2>4. QED
    BY <1>8, <2>2, <2>3 DEF RunDo2, Jump, Past
<1>9. CASE RunLoop
  <2>1. Handler \in Jumping /\ Handler \notin Leaving
    BY <1>9 DEF RunLoop, InLoop, Jumping, Looping, Leaving
  <2>2. do_index' = do_index
    BY <1>9 DEF RunLoop
  <2>3. CASE GiveUp
    BY <1>3, <2>2, <2>3, GivenUp DEF GiveUp
  <2>4. CASE Goto(Operand + 1)
    <3>1. Goes(level, Operand + 1, level[Frame.at])
      BY <1>2, <2>1, NextJump
    <3>2. QED
      BY <1>2, <1>3, <1>5, <2>2, <2>4, <3>1 DEF Goes
  <2>5. QED
    BY <1>9, <2>3, <2>4 DEF RunLoop, Jump
<1>10. CASE RunLeave
  <2>1. Handler \in Jumping /\ Handler \in Leaving
    BY <1>10 DEF RunLeave, InLoop, Jumping, Looping, Leaving
  <2>2. do_index' = do_index - 2 /\ Goto(Operand + 1)
    BY <1>10 DEF RunLeave, LeaveDrops, Jump
  <2>3. Goes(level, Operand + 1, level[Frame.at] - 1)
    BY <1>2, <2>1, NextJump
  <2>4. Balance(do_index', Frame.loops, level[Frame.at] - 1)
    BY <1>2, <1>3, <1>4, <2>2 DEF Balance
  <2>5. QED
    BY <1>3, <1>5, <2>2, <2>3, <2>4 DEF Goes
<1>11. QED
  BY <1>7, <1>8, <1>9, <1>10

\* A loop that goes on has begun: nothing else but code is run.
LEMMA NotAstray ==
  ASSUME RunningOk, DictionaryOk
  PROVE  ~RunAstray
<1> SUFFICES ASSUME RunAstray PROVE FALSE
  OBVIOUS
<1>1. running # <<>> /\ (InCode => Handler \in Looping /\ do_index < 0)
  BY DEF RunAstray, Looping
<1>2. PICK level : /\ Finished(Frame.word, Code, level)
                   /\ Frame.at \in DOMAIN level
                   /\ Balance(do_index, Frame.loops, level[Frame.at])
  BY <1>1, AtHandler
<1>3. InCode
  <2>1. Code[Frame.at].handler # "operand" /\ Frame.at \in 1..Len(Code)
    <3>1. Frame.at \in Nat /\ Frame.at > 0 /\ Frame.at <= Len(Code)
      BY <1>2, Cells
    <3>2. Frame.at \in DOMAIN level /\ DOMAIN level \subseteq 1..Len(Code)
      BY <1>2 DEF Finished, Levels
    <3>3. QED
      BY <1>2, <3>1, <3>2, Cells
  <2>2. Frame.at \in DOMAIN Code
    BY <1>1, <2>1, AtHandler, IsSeqFacts DEF DictionaryOk, IsWord, IsCode, Code
  <2>3. QED
    BY <2>1, <2>2 DEF InCode, Handler
<1>4. Handler \in Jumping
  BY <1>1, <1>3 DEF Jumping
<1>5. level[Frame.at] > 0 /\ level[Frame.at] \in Nat
  BY <1>1, <1>2, <1>3, <1>4, NextJump, Cells
<1>6. Frame.loops >= -2 /\ Frame.loops \in Int /\ do_index \in Int
  <2>1. Frame = running[1] /\ 1 \in DOMAIN running /\ Frame \in Frames /\ do_index \in Int
    BY <1>1, AtHandler
  <2>2. QED
    BY <2>1 DEF RunningOk, Frames
<1>7. QED
  BY <1>1, <1>2, <1>3, <1>5, <1>6 DEF Balance

LEMMA SetRuns ==
  ASSUME RunningOk, DictionaryOk, RunVarSet
  PROVE  RunningOk' /\ DictionaryOk'
<1>1. /\ running # <<>> /\ Handler = "var_set"
      /\ do_index' = do_index /\ exited' = exited /\ mode' = mode
  BY DEF RunVarSet, Executing, WhileRunning, loopVars, histories
<1>2. PICK level : /\ Finished(Frame.word, Code, level)
                   /\ Frame.at \in DOMAIN level
                   /\ Balance(do_index, Frame.loops, level[Frame.at])
  BY <1>1, AtHandler
<1>3. do_index \in Int /\ Frame.word \in DOMAIN dictionary
  BY <1>1, AtHandler
<1>4. CASE GiveUp /\ dictionary' = dictionary
  <2>1. RunningOk'
    BY <1>1, <1>3, <1>4, GivenUp DEF GiveUp
  <2>2. DictionaryOk'
    BY <1>4, SameDictionary
  <2>3. QED
    BY <2>1, <2>2
<1>5. CASE /\ dictionary' = [dictionary EXCEPT ![Operand].code[2].value = Head(data_stack)]
           /\ Goto(Frame.at + 2)
  <2>1. Handler \in Passing2 /\ Handler # "exit"
    BY <1>1 DEF Passing2
  <2>2. Sound(Frame.word, Code, level, Frame.at, {})
    BY <1>2, <2>1, Cells DEF Handler
  <2>3. Operand \in 1..(Frame.word - 1) /\ IsVariable(dictionary[Operand].code)
    BY <1>1, <2>2 DEF Sound, Handler, Operand
  <2>4. Operand \in DOMAIN dictionary
    BY <1>3, <2>3, IsSeqFacts DEF DictionaryOk
  <2>5. CodeStays /\ DictionaryOk'
    BY <1>5, <2>3, <2>4, VariableSet
  <2>6. Goes(level, Frame.at + 2, level[Frame.at])
    BY <1>2, <2>1, Next2
  <2>7. RunningOk'
    BY <1>1, <1>2, <1>3, <1>5, <2>5, <2>6, GotoKeeps DEF Goes
  <2>8. QED
    BY <2>5, <2>7
<1>6. QED
  BY <1>4, <1>5 DEF RunVarSet, Past

\* A frame that is not the innermost and keeps its height and its place.
LEMMA FrameKept ==
  ASSUME NEW k, NEW j, FrameOk(k), CodeStays,
         running'[j].word = running[k].word, running'[j].loops = running[k].loops,
         Place(j)' = Place(k),
         \/ exited' = exited /\ Height(j)' = Height(k)
         \/ \A n : Balance(Height(k), running[k].loops, n)
                    => (Balance(Height(j), running[j].loops, n))'
  PROVE  FrameOk(j)'
<1>1. PICK l : /\ Finished(running[k].word, dictionary[running[k].word].code, l)
               /\ Place(k) \in DOMAIN l
               /\ Balance(Height(k), running[k].loops, l[Place(k)])
  BY DEF FrameOk
<1>2. running[k].word \in DOMAIN dictionary
  BY DEF FrameOk
<1>3. PICK w : w = running[k].word
  OBVIOUS
<1>4. (Finished(w, dictionary[w].code, l))' /\ running'[j].word = w /\ w \in DOMAIN dictionary'
  BY <1>1, <1>2, <1>3 DEF CodeStays
<1>5. Balance(Height(j), running[j].loops, l[Place(j)])'
  BY <1>1 DEF Balance
<1>6. QED
  BY <1>1, <1>4, <1>5 DEF FrameOk

LEMMA CallRuns ==
  ASSUME RunningOk, DictionaryOk, RunCall, ~broken'
  PROVE  RunningOk'
<1>1. /\ running # <<>> /\ Handler = "call"
      /\ do_index' = do_index /\ exited' = exited /\ mode' = mode
      /\ dictionary' = dictionary /\ ~Broken(dictionary[Operand])
  BY DEF RunCall, Executing, WhileRunning, loopVars
<1>2. PICK level : /\ Finished(Frame.word, Code, level)
                   /\ Frame.at \in DOMAIN level
                   /\ Balance(do_index, Frame.loops, level[Frame.at])
  BY <1>1, AtHandler
<1>3. /\ do_index \in Int /\ Frame.word \in DOMAIN dictionary
      /\ running \in Seq(Frames) /\ Frame \in Frames /\ Frame = running[1] /\ Len(running) > 0
      /\ CodeStays
  BY <1>1, AtHandler, SameCode
<1>4. Handler \in Passing2 /\ Handler # "exit"
  BY <1>1 DEF Passing2
<1>5. Operand \in 1..(Frame.word - 1) /\ Operand \in DOMAIN dictionary
  <2>1. Sound(Frame.word, Code, level, Frame.at, {})
    BY <1>2, <1>4, Cells DEF Handler
  <2>2. Operand \in 1..(Frame.word - 1)
    BY <1>1, <2>1 DEF Sound, Handler, Operand
  <2>3. QED
    BY <1>3, <2>2, IsSeqFacts DEF DictionaryOk
<1>6. Goes(level, Frame.at + 2, level[Frame.at])
  BY <1>2, <1>4, Next2
<1>7. PICK callee : callee = [word |-> Operand, at |-> 1, loops |-> do_index]
  OBVIOUS
<1>8. PICK caller : caller = [Frame EXCEPT !.at = @ + 1]
  OBVIOUS
<1>9. /\ callee \in Frames /\ caller \in Frames
      /\ callee.word = Operand /\ callee.at = 1 /\ callee.loops = do_index
      /\ caller.word = Frame.word /\ caller.at = Frame.at + 1 /\ caller.loops = Frame.loops
  <2>1. Operand \in Nat
    BY <1>3, <1>5, FramesAre
  <2>2. callee \in Frames
    BY <1>3, <1>7, <2>1 DEF Frames
  <2>3. callee.word = Operand /\ callee.at = 1 /\ callee.loops = do_index
    BY <1>7
  <2>4. PICK f \in Frames : f = Frame
    BY <1>3
  <2>5. /\ caller \in Frames /\ caller.word = f.word /\ caller.at = f.at + 1
        /\ caller.loops = f.loops
    BY <1>8, <2>4 DEF Frames
  <2>6. QED
    BY <2>2, <2>3, <2>4, <2>5
<1>10. running' = <<callee, caller>> \o Tail(running)
  BY <1>7, <1>8 DEF RunCall
<1>11. /\ running' \in Seq(Frames) /\ Len(running') = Len(running) + 1
       /\ running'[1] = callee /\ running'[2] = caller
       /\ \A k \in 3..(Len(running) + 1) : running'[k] = running[k - 1]
  BY <1>3, <1>9, <1>10
<1>12. FrameOk(1)'
  <2>1. PICK l : Finished(Operand, dictionary[Operand].code, l)
    BY <1>1, <1>5 DEF DictionaryOk
  <2>2. PICK w : w = Operand
    OBVIOUS
  <2>3. (Finished(w, dictionary[w].code, l))'
    BY <1>3, <1>5, <2>1, <2>2 DEF CodeStays
  <2>4. 1 \in DOMAIN l /\ l[1] = 0
    BY <2>1 DEF Finished, Levels, Goes
  <2>5. Place(1)' = 1 /\ Height(1)' = do_index /\ running'[1].loops = do_index
    BY <1>1, <1>9, <1>11 DEF Place, Height
  <2>6. Balance(do_index, do_index, 0)'
    BY <1>1, <1>3 DEF Balance
  <2>7. Balance(Height(1), running[1].loops, l[Place(1)])'
    BY <1>1, <2>4, <2>5, <2>6 DEF Balance
  <2>8. running'[1].word = w /\ w \in DOMAIN dictionary'
    BY <1>1, <1>5, <1>9, <1>11, <2>2
  <2>9. QED
    BY <2>3, <2>4, <2>5, <2>7, <2>8 DEF FrameOk
<1>13. FrameOk(2)'
  <2>1. Place(2)' = Frame.at + 2 /\ Height(2)' = do_index /\ running'[2].loops = Frame.loops
    <3>1. Frame.at \in Int
      BY <1>3 DEF Frames
    <3>2. QED
      BY <1>9, <1>11, <3>1 DEF Place, Height
  <2>2. Balance(Height(2), running[2].loops, level[Place(2)])'
    BY <1>1, <1>2, <1>6, <2>1 DEF Balance, Goes
  <2>3. PICK w : w = Frame.word
    OBVIOUS
  <2>4. (Finished(w, dictionary[w].code, level))' /\ w \in DOMAIN dictionary'
    BY <1>1, <1>2, <1>3, <2>3 DEF CodeStays, Code
  <2>5. running'[2].word = w
    BY <1>9, <1>11, <2>3
  <2>6. QED
    BY <1>6, <2>1, <2>2, <2>4, <2>5 DEF FrameOk, Goes
<1>14. ASSUME NEW k \in 3..(Len(running) + 1)
       PROVE  FrameOk(k)'
  <2>1. FrameOk(k - 1)
    BY <1>3 DEF RunningOk
  <2>2. running'[k] = running[k - 1]
    BY <1>11
  <2>3. Place(k)' = Place(k - 1)
    BY <2>2 DEF Place
  <2>4. Height(k)' = Height(k - 1)
    <3>1. CASE k = 3
      BY <1>3, <1>9, <1>11, <3>1 DEF Height
    <3>2. CASE k > 3
      BY <1>3, <1>11, <3>2 DEF Height
    <3>3. QED
      BY <3>1, <3>2
  <2>5. PICK j : j = k - 1
    OBVIOUS
  <2>6. QED
    BY <1>1, <1>3, <2>1, <2>2, <2>3, <2>4, <2>5, FrameKept
<1>15. \A k \in DOMAIN running' : FrameOk(k)' /\ running'[k].loops >= -2
  <2>1. DOMAIN running' = 1..(Len(running) + 1)
    BY <1>11
  <2>2. \A k \in 1..(Len(running) + 1) : k = 1 \/ k = 2 \/ k \in 3..(Len(running) + 1)
    BY <1>3
  <2>3. \A k \in 1..Len(running) : running[k].loops >= -2 /\ running[k].loops \in Int
    BY FramesAre
  <2>4. do_index >= -2
    <3>1. level[Frame.at] \in Nat
      BY <1>2, Cells
    <3>2. Frame.loops >= -2 /\ Frame.loops \in Int
      BY <1>3, <2>3
    <3>3. QED
      BY <1>2, <1>3, <3>1, <3>2 DEF Balance
  <2>5. running'[1].loops >= -2 /\ running'[2].loops >= -2
    BY <1>3, <1>9, <1>11, <2>3, <2>4
  <2>6. \A k \in 3..(Len(running) + 1) : running'[k].loops >= -2
    BY <1>3, <1>11, <2>3
  <2>7. QED
    BY <1>12, <1>13, <1>14, <2>1, <2>2, <2>5, <2>6
<1>16. Balance(running[Len(running)].loops, -2, 0)'
  <2>1. Balance(running[Len(running)].loops, -2, 0)
    BY <1>1 DEF RunningOk
  <2>2. running'[Len(running')].loops = running[Len(running)].loops
    <3>1. Len(running) \in Nat /\ Len(running) > 0
      BY <1>3
    <3>2. CASE Len(running) = 1
      BY <1>3, <1>9, <1>11, <3>2
    <3>3. CASE Len(running) > 1
      <4>1. Len(running) + 1 \in 3..(Len(running) + 1)
        BY <3>1, <3>3
      <4>2. running'[Len(running) + 1] = running[(Len(running) + 1) - 1]
        BY <1>11, <4>1
      <4>3. (Len(running) + 1) - 1 = Len(running)
        BY <3>1
      <4>4. QED
        BY <1>11, <4>2, <4>3
    <3>4. Len(running) = 1 \/ Len(running) > 1
      BY <3>1
    <3>5. QED
      BY <3>2, <3>3, <3>4
  <2>3. QED
    BY <1>1, <2>1, <2>2 DEF Balance
<1>17. running' # <<>> /\ mode' = "interpret" /\ do_index' \in Int
  BY <1>1, <1>3, <1>11 DEF RunningOk
<1>18. QED
  BY <1>11, <1>15, <1>16, <1>17 DEF RunningOk

LEMMA ExitRuns ==
  ASSUME RunningOk, RunExit
  PROVE  RunningOk'
<1>1. /\ running # <<>> /\ Handler = "exit"
      /\ do_index' = do_index /\ mode' = mode /\ dictionary' = dictionary
      /\ exited' = (exited \/ (Frame.at < Len(Code) /\ do_index # Frame.loops))
  BY DEF RunExit, Executing, WhileRunning, loopVars
<1>2. PICK level : /\ Finished(Frame.word, Code, level)
                   /\ Frame.at \in DOMAIN level
                   /\ Balance(do_index, Frame.loops, level[Frame.at])
  BY <1>1, AtHandler
<1>3. /\ do_index \in Int /\ Frame.word \in DOMAIN dictionary
      /\ running \in Seq(Frames) /\ Frame \in Frames /\ Frame = running[1] /\ Len(running) > 0
      /\ CodeStays
  BY <1>1, AtHandler, SameCode
<1>4. do_index >= Frame.loops /\ (exited' \/ do_index = Frame.loops)
  <2>1. level[Frame.at] \in Nat /\ Frame.loops \in Int
    BY <1>2, <1>3, Cells DEF Frames
  <2>2. do_index >= Frame.loops
    BY <1>2, <1>3, <2>1 DEF Balance
  <2>3. CASE Frame.at = Len(Code)
    <3>1. level[Frame.at] = 0
      BY <1>2, <2>3 DEF Finished
    <3>2. exited \/ do_index = Frame.loops
      BY <1>2, <1>3, <2>1, <3>1 DEF Balance
    <3>3. QED
      BY <1>1, <2>2, <3>2
  <2>4. CASE Frame.at # Len(Code)
    <3>1. DOMAIN level \subseteq 1..Len(Code) /\ Len(Code) \in DOMAIN level
      BY <1>2 DEF Finished, Levels
    <3>2. Frame.at < Len(Code)
      BY <1>2, <2>4, <3>1
    <3>3. QED
      BY <1>1, <2>2, <3>2
  <2>5. QED
    BY <2>3, <2>4
<1>5. CASE Len(running) = 1
  <2>1. running' = <<>>
    BY <1>3, <1>5 DEF RunExit
  <2>2. Balance(running[Len(running)].loops, -2, 0)
    BY <1>1 DEF RunningOk
  <2>3. Balance(do_index, -2, 0)'
    <3>1. Frame.loops \in Int /\ running[Len(running)] = Frame
      BY <1>3, <1>5 DEF Frames
    <3>2. Balance(Frame.loops, -2, 0)
      BY <2>2, <3>1
    <3>3. do_index >= -2 + 2 * 0
      BY <1>3, <1>4, <3>1, <3>2 DEF Balance
    <3>4. exited => exited'
      BY <1>1
    <3>5. exited' \/ do_index = -2 + 2 * 0
      BY <1>4, <3>2, <3>4 DEF Balance
    <3>6. QED
      BY <1>1, <3>3, <3>5 DEF Balance
  <2>4. \A k \in DOMAIN running' : FALSE
    BY <2>1
  <2>5. running' \in Seq(Frames)
    BY <2>1
  <2>6. QED
    BY <1>1, <1>3, <2>1, <2>3, <2>4, <2>5 DEF RunningOk
<1>6. CASE Len(running) > 1
  <2>1. PICK rest : rest = Tail(running)
    OBVIOUS
  <2>2. /\ rest \in Seq(Frames) /\ Len(rest) = Len(running) - 1 /\ rest # <<>>
        /\ \A k \in 1..Len(rest) : rest[k] = running[k + 1]
    <3>1. running # <<>> /\ Len(running) \in Nat
      BY <1>3
    <3>2. rest \in Seq(Frames) /\ Len(rest) = Len(running) - 1
      BY <1>3, <2>1, <3>1
    <3>3. \A k \in 1..Len(rest) : rest[k] = running[k + 1]
      BY <1>3, <2>1, <3>1
    <3>4. rest # <<>>
      BY <1>6, <3>1, <3>2
    <3>5. QED
      BY <3>2, <3>3, <3>4
  <2>3. PICK f : f = [rest[1] EXCEPT !.at = @ + 1]
    OBVIOUS
  <2>4. f \in Frames /\ f.word = rest[1].word /\ f.at = rest[1].at + 1 /\ f.loops = rest[1].loops
    <3>1. PICK g \in Frames : g = rest[1]
      BY <2>2
    <3>2. QED
      BY <2>3, <3>1 DEF Frames
  <2>5. running' = [rest EXCEPT ![1] = f]
    BY <2>1, <2>2, <2>3 DEF RunExit
  <2>6. /\ running' \in Seq(Frames) /\ Len(running') = Len(rest)
        /\ running'[1] = f /\ \A k \in 2..Len(rest) : running'[k] = rest[k]
    BY <2>2, <2>4, <2>5
  <2>7. \A k \in 1..Len(rest) : /\ running'[k].loops = running[k + 1].loops
                               /\ running'[k].word = running[k + 1].word
    BY <2>2, <2>4, <2>6
  <2>8. \A k \in 1..Len(running) : running[k].loops \in Int /\ FrameOk(k) /\ running[k].loops >= -2
    BY FramesAre
  <2>9. FrameOk(1)'
    <3>1. FrameOk(2) /\ running[2].loops \in Int /\ running[1].loops \in Int
      BY <1>6, <2>8
    <3>2. Place(1)' = Place(2) /\ Height(1)' = do_index /\ Height(2) = Frame.loops
      BY <1>1, <1>3, <1>6, <2>2, <2>4, <2>6 DEF Place, Height
    <3>3. PICK l : /\ Finished(running[2].word, dictionary[running[2].word].code, l)
                   /\ Place(2) \in DOMAIN l
                   /\ Balance(Height(2), running[2].loops, l[Place(2)])
      BY <3>1 DEF FrameOk
    <3>4. l[Place(2)] \in Nat
      BY <3>3 DEF Finished, Levels
    <3>5. PICK w : w = running[2].word
      OBVIOUS
    <3>6. (Finished(w, dictionary[w].code, l))' /\ w \in DOMAIN dictionary'
      BY <1>1, <1>3, <3>1, <3>3, <3>5 DEF CodeStays, FrameOk
    <3>7. running'[1].word = w /\ running'[1].loops = running[2].loops
      BY <1>6, <2>2, <2>7, <3>5
    <3>8. Balance(Height(1), running[1].loops, l[Place(1)])'
      <4>1. PICK n : n = l[Place(2)]
        OBVIOUS
      <4>2. n \in Nat /\ Balance(Frame.loops, running[2].loops, n)
        BY <3>2, <3>3, <3>4, <4>1
      <4>3. Frame.loops \in Int /\ running[2].loops \in Int /\ do_index \in Int
        BY <1>3, <3>1
      <4>4. do_index >= running[2].loops + 2 * n
        BY <1>4, <4>2, <4>3 DEF Balance
      <4>5. exited' \/ do_index = running[2].loops + 2 * n
        BY <1>1, <1>4, <4>2, <4>3 DEF Balance
      <4>6. QED
        BY <3>2, <3>7, <4>1, <4>4, <4>5 DEF Balance
    <3>9. QED
      BY <3>2, <3>3, <3>6, <3>7, <3>8 DEF FrameOk
  <2>10. ASSUME NEW k \in 2..Len(rest)
         PROVE  FrameOk(k)'
    <3>1. FrameOk(k + 1)
      BY <2>2, <2>8
    <3>2. running'[k] = running[k + 1]
      BY <2>2, <2>6
    <3>3. Place(k)' = Place(k + 1)
      BY <3>2 DEF Place
    <3>4. Height(k)' = Height(k + 1)
      BY <2>2, <2>7 DEF Height
    <3>5. \A n : Balance(Height(k + 1), running[k + 1].loops, n)
                 => (Balance(Height(k), running[k].loops, n))'
      BY <1>1, <3>2, <3>4 DEF Balance
    <3>6. PICK j : j = k + 1
      OBVIOUS
    <3>7. QED
      BY <1>3, <3>1, <3>2, <3>3, <3>5, <3>6, FrameKept
  <2>11. \A k \in DOMAIN running' : FrameOk(k)' /\ running'[k].loops >= -2
    <3>1. DOMAIN running' = 1..Len(rest)
      BY <2>6
    <3>2. \A k \in 1..Len(rest) : k = 1 \/ k \in 2..Len(rest)
      BY <2>2
    <3>3. \A k \in 1..Len(rest) : running'[k].loops >= -2
      BY <2>2, <2>7, <2>8
    <3>4. QED
      BY <2>9, <2>10, <3>1, <3>2, <3>3
  <2>12. Balance(running[Len(running)].loops, -2, 0)'
    <3>1. Balance(running[Len(running)].loops, -2, 0)
      BY <1>1 DEF RunningOk
    <3>2. running'[Len(running')].loops = running[Len(running)].loops
      BY <1>6, <2>2, <2>6, <2>7
    <3>3. QED
      BY <1>1, <3>1, <3>2 DEF Balance
  <2>13. running' # <<>> /\ mode' = "interpret" /\ do_index' \in Int
    BY <1>1, <1>3, <2>2, <2>6 DEF RunningOk
  <2>14. QED
    BY <2>6, <2>11, <2>12, <2>13 DEF RunningOk
<1>7. Len(running) = 1 \/ Len(running) > 1
  BY <1>3, FramesAre
<1>8. QED
  BY <1>5, <1>6, <1>7

-----------------------------------------------------------------------------
(* Compiling.                                                              *)

\* The conditions with a jump that is to be patched.
Hooked == {"if", "do", "while", "of", "endof"}

\* How many loops each condition is in.
Nested(list, inside) ==
  /\ inside \in [1..(Len(list) + 1) -> Nat] /\ inside[Len(list) + 1] = 0
  /\ \A k \in 1..Len(list) :
       inside[k] = inside[k + 1] + (IF list[k].kind = "do" THEN 1 ELSE 0)

\* The operand of a jump to level n.
Patchable(code, level, at, n) ==
  /\ at - 1 \in DOMAIN level /\ at \in 2..Len(code)
  /\ code[at - 1].handler \in Jumping /\ code[at].handler = "operand"
  /\ After(code, level, at - 1) = n

KeptCondition(code, level, c, n) ==
  /\ c.kind \in Hooked => Patchable(code, level, c.at, n)
  /\ c.kind = "do" => code[c.at - 1].handler = "do2"
  /\ c.kind = "begin" => Goes(level, c.at, n)

Kept(code, level, list, inside, leaves) ==
  /\ \A k \in 1..Len(list) : KeptCondition(code, level, list[k], inside[k + 1])
  /\ \A n \in DOMAIN leaves : \A at \in leaves[n] : Patchable(code, level, at, n)

\* The operands that are still to be patched.
Open(list, leaves) ==
  {at \in Int : \/ \E k \in 1..Len(list) : list[k].kind \in Hooked /\ list[k].at = at
               \/ \E n \in DOMAIN leaves : at \in leaves[n]}

Built(code, list, leaves, loops, level, inside) ==
  /\ Levels(Len(dictionary) + 1, code, level, Len(code) + 1, Open(list, leaves))
  /\ Nested(list, inside)
  /\ level[Len(code) + 1] = loops + 1 /\ inside[1] = loops + 1
  /\ Kept(code, level, list, inside, leaves)
  /\ \A n \in DOMAIN leaves : n > loops => leaves[n] = {}

CompileOk ==
  mode = "compile" =>
    /\ IsWord(new)
    /\ IsSeq(conditions)
    /\ ~Broken(new) =>
         /\ do_index2 \in -1..2
         /\ leave_words \in [0..2 -> SUBSET Int]
         /\ \E level, inside :
              Built(new.code, conditions, leave_words, do_index2, level, inside)

\* New cells behind those of level, all of level m.
Grown(level, N, m) ==
  [p \in DOMAIN level \cup N |-> IF p \in DOMAIN level THEN level[p] ELSE m]

\* The operand at q is patched, to where its jump goes.
Put(code, level, code2, level2, q) ==
  \E n : Patchable(code, level, q, n) /\ Goes(level2, code2[q].value + 1, n)

Extended(code, level, open, code2, level2, open2) ==
  /\ Len(code2) >= Len(code)
  /\ \A p \in 1..Len(code) :
       /\ code2[p].handler = code[p].handler
       /\ code2[p].value = code[p].value \/ Put(code, level, code2, level2, p)
  /\ \A q \in open : q \in open2 \/ Put(code, level, code2, level2, q)

LEMMA StillSound ==
  ASSUME NEW w, NEW code, NEW level, NEW open, NEW code2, NEW level2, NEW open2,
         IsSeq(code), IsSeq(code2),
         Levels(w, code, level, Len(code) + 1, open),
         Extended(code, level, open, code2, level2, open2),
         \A p \in DOMAIN level : p \in DOMAIN level2 /\ level2[p] = level[p],
         NEW p \in DOMAIN level, p # Len(code) + 1
  PROVE  Sound(w, code2, level2, p, open2)
<1>1. /\ Len(code) \in Nat /\ DOMAIN code = 1..Len(code)
      /\ Len(code2) \in Nat /\ DOMAIN code2 = 1..Len(code2) /\ Len(code2) >= Len(code)
  BY IsSeqFacts DEF Extended
<1>2. p \in 1..Len(code) /\ Sound(w, code, level, p, open) /\ level[p] \in Nat
  BY <1>1 DEF Levels
<1>3. code2[p].handler = code[p].handler
  BY <1>2 DEF Extended
<1>4. code2[p].value = code[p].value
  <2>1. ASSUME Put(code, level, code2, level2, p) PROVE FALSE
    <3>1. code[p].handler = "operand"
      BY <2>1 DEF Put, Patchable
    <3>2. QED
      BY <1>2, <3>1 DEF Sound
  <2>2. QED
    BY <1>2, <2>1 DEF Extended
<1>5. \A q, n : Goes(level, q, n) => Goes(level2, q, n)
  BY DEF Goes
<1>6. After(code2, level2, p) = After(code, level, p) /\ level2[p] = level[p]
  BY <1>3 DEF After
<1>7. ASSUME Put(code, level, code2, level2, p + 1)
      PROVE  Jumped(code2, level2, p, open2) /\ code[p].handler \in Jumping
  <2>1. PICK n : /\ Patchable(code, level, p + 1, n)
                 /\ Goes(level2, code2[p + 1].value + 1, n)
    BY <1>7 DEF Put
  <2>2. (p + 1) - 1 = p
    BY <1>2
  <2>3. After(code, level, p) = n /\ code[p].handler \in Jumping
    BY <2>1, <2>2 DEF Patchable
  <2>4. QED
    BY <1>6, <2>1, <2>3 DEF Jumped
<1>8. ASSUME code[p].handler \in Jumping
      PROVE  Jumped(code2, level2, p, open2)
  <2>1. Jumped(code, level, p, open) /\ p + 1 \in 1..Len(code)
    BY <1>1, <1>2, <1>8 DEF Sound
  <2>2. CASE p + 1 \in open
    BY <1>7, <2>2 DEF Extended, Jumped
  <2>3. CASE Goes(level, code[p + 1].value + 1, After(code, level, p))
    <3>1. CASE code2[p + 1].value = code[p + 1].value
      BY <1>5, <1>6, <2>3, <3>1 DEF Jumped
    <3>2. QED
      BY <1>7, <2>1, <3>1 DEF Extended
  <2>4. QED
    BY <2>1, <2>2, <2>3 DEF Jumped
<1>9. ASSUME code[p].handler \in {"call", "var_set"}
      PROVE  code2[p + 1].value = code[p + 1].value
  <2>1. code[p].handler \notin Jumping /\ code[p].handler \in Passing2
    BY <1>9, Apart DEF Passing2
  <2>2. p + 1 \in 1..Len(code)
    BY <1>1, <1>2, <2>1 DEF Sound
  <2>3. QED
    BY <1>7, <2>1, <2>2 DEF Extended
<1>10. QED
  <2>1. code[p].handler \in Jumping \cup Passing2 => p + 1 \in DOMAIN code2
    <3>1. code[p].handler \in Jumping \cup Passing2 => p + 1 \in DOMAIN code
      BY <1>2, Zenon DEF Sound
    <3>2. \A q \in DOMAIN code : q \in DOMAIN code2
      BY <1>1
    <3>3. QED
      BY <3>1, <3>2
  <2>2. /\ code[p].handler \in Passing1 => Goes(level2, p + 1, level[p])
        /\ code[p].handler \in Passing2 => Goes(level2, p + 2, level[p])
        /\ code[p].handler = "do" => Goes(level2, p + 1, level[p] + 1)
        /\ code[p].handler = ".\"" =>
             Goes(level2, p + 2 + (code[p].value + 1) \div Cell, level[p])
    BY <1>2, <1>5 DEF Sound
  <2>3. /\ code[p].handler # "operand"
        /\ code[p].handler \in Looping => level[p] > 0
    BY <1>2 DEF Sound
  <2>4. /\ code[p].handler \in {"call", "var_set"} => code2[p + 1].value \in 1..(w - 1)
        /\ code[p].handler = "var_set" => IsVariable(dictionary[code2[p + 1].value].code)
    BY <1>2, <1>9 DEF Sound
  <2>5. QED
    BY <1>3, <1>4, <1>6, <1>8, <2>1, <2>2, <2>3, <2>4 DEF Sound

LEMMA GrowsTo ==
  ASSUME NEW w, NEW code, NEW level, NEW open, NEW code2, NEW N, NEW m \in Nat, NEW open2,
         IsSeq(code), IsSeq(code2),
         Levels(w, code, level, Len(code) + 1, open),
         Extended(code, level, open, code2, Grown(level, N, m), open2),
         N \subseteq (Len(code) + 2)..(Len(code2) + 1),
         Len(code2) + 1 \in N \cup {Len(code) + 1},
         \A p \in {Len(code) + 1} \cup N :
           p # Len(code2) + 1 => Sound(w, code2, Grown(level, N, m), p, open2)
  PROVE  Levels(w, code2, Grown(level, N, m), Len(code2) + 1, open2)
<1>1. /\ Len(code) \in Nat /\ Len(code2) \in Nat /\ Len(code2) >= Len(code)
      /\ DOMAIN level \subseteq 1..(Len(code) + 1) /\ level \in [DOMAIN level -> Nat]
      /\ 1 \in DOMAIN level /\ level[1] = 0 /\ Len(code) + 1 \in DOMAIN level
  BY IsSeqFacts DEF Extended, Levels, Goes
<1>2. PICK level2 : level2 = Grown(level, N, m)
  OBVIOUS
<1>3. /\ DOMAIN level2 = DOMAIN level \cup N /\ level2 \in [DOMAIN level2 -> Nat]
      /\ \A p \in DOMAIN level : p \in DOMAIN level2 /\ level2[p] = level[p]
  BY <1>1, <1>2 DEF Grown
<1>4. \A p \in DOMAIN level : p # Len(code) + 1 => Sound(w, code2, level2, p, open2)
  BY <1>2, <1>3, StillSound
<1>5. \A p \in DOMAIN level2 : p # Len(code2) + 1 => Sound(w, code2, level2, p, open2)
  BY <1>2, <1>3, <1>4
<1>6. DOMAIN level2 \subseteq 1..(Len(code2) + 1)
  BY <1>1, <1>3
<1>7. Goes(level2, 1, 0) /\ Len(code2) + 1 \in DOMAIN level2
  BY <1>1, <1>3 DEF Goes
<1>8. QED
  BY <1>2, <1>3, <1>5, <1>6, <1>7 DEF Levels

\* What stays as it is while code is extended.
LEMMA StillPatchable ==
  ASSUME NEW code, NEW level, NEW open, NEW code2, NEW level2, NEW open2,
         IsSeq(code), IsSeq(code2),
         Extended(code, level, open, code2, level2, open2),
         DOMAIN level \subseteq 1..(Len(code) + 1),
         \A p \in DOMAIN level : p \in DOMAIN level2 /\ level2[p] = level[p]
  PROVE  /\ \A at, n : Patchable(code, level, at, n) => Patchable(code2, level2, at, n)
         /\ \A c, n : KeptCondition(code, level, c, n) => KeptCondition(code2, level2, c, n)
<1>1. Len(code) \in Nat /\ Len(code2) \in Nat /\ Len(code2) >= Len(code)
  BY IsSeqFacts DEF Extended
<1>2. \A p \in 1..Len(code) : code2[p].handler = code[p].handler
  BY DEF Extended
<1>3. ASSUME NEW at, NEW n, Patchable(code, level, at, n)
      PROVE  Patchable(code2, level2, at, n) /\ code2[at - 1].handler = code[at - 1].handler
  <2>1. at - 1 \in DOMAIN level /\ at \in 2..Len(code) /\ at - 1 \in 1..Len(code)
    BY <1>1, <1>3 DEF Patchable
  <2>2. code2[at].handler = code[at].handler /\ code2[at - 1].handler = code[at - 1].handler
    BY <1>1, <1>2, <2>1
  <2>3. After(code2, level2, at - 1) = After(code, level, at - 1)
    BY <2>1, <2>2 DEF After
  <2>4. QED
    BY <1>1, <1>3, <2>1, <2>2, <2>3 DEF Patchable
<1>4. ASSUME NEW c, NEW n, KeptCondition(code, level, c, n)
      PROVE  KeptCondition(code2, level2, c, n)
  <2>1. c.kind \in Hooked => Patchable(code2, level2, c.at, n)
    BY <1>3, <1>4 DEF KeptCondition
  <2>2. c.kind = "do" => code2[c.at - 1].handler = "do2"
    <3>1. c.kind = "do" => c.kind \in Hooked
      BY DEF Hooked
    <3>2. QED
      BY <1>3, <1>4, <3>1 DEF KeptCondition
  <2>3. c.kind = "begin" => Goes(level2, c.at, n)
    BY <1>4 DEF KeptCondition, Goes
  <2>4. QED
    BY <2>1, <2>2, <2>3 DEF KeptCondition
<1>5. QED
  BY <1>3, <1>4

\* n conditions are taken off, and one is put on or none.
Taken(list, list2, n, put) ==
  /\ IsSeq(list2) /\ n \in 0..Len(list) /\ put \in {0, 1}
  /\ Len(list2) = Len(list) - n + put
  /\ \A k \in 1..(Len(list) - n) : list2[k + put] = list[k + n]

LEMMA TakenNests ==
  ASSUME NEW list, NEW inside, Nested(list, inside), IsSeq(list),
         NEW list2, NEW n, NEW put, Taken(list, list2, n, put), NEW x \in Nat,
         x = inside[n + 1] + (IF put = 1 /\ list2[1].kind = "do" THEN 1 ELSE 0),
         NEW inside2,
         inside2 = [k \in 1..(Len(list2) + 1) |->
                      IF k = 1 THEN x ELSE inside[k + n - put]]
  PROVE  /\ Nested(list2, inside2) /\ inside2[1] = x
         /\ \A k \in 1..(Len(list) - n) : inside2[k + put + 1] = inside[k + n + 1]
         /\ put = 1 => inside2[2] = inside[n + 1]
<1>1. /\ Len(list) \in Nat /\ n \in 0..Len(list) /\ put \in {0, 1}
      /\ Len(list2) = Len(list) - n + put
      /\ \A k \in 1..(Len(list) - n) : list2[k + put] = list[k + n]
      /\ n \in Nat /\ n <= Len(list) /\ (put = 0 \/ put = 1)
  BY IsSeqFacts DEF Taken
<1>2. /\ inside \in [1..(Len(list) + 1) -> Nat] /\ inside[Len(list) + 1] = 0
      /\ \A k \in 1..Len(list) :
           inside[k] = inside[k + 1] + (IF list[k].kind = "do" THEN 1 ELSE 0)
  BY DEF Nested
<1>3. /\ inside2[1] = x
      /\ \A k \in 1..(Len(list2) + 1) : k # 1 => inside2[k] = inside[k + n - put]
      /\ put = 0 => x = inside[n + 1]
  <2>1. 1 \in 1..(Len(list2) + 1)
    BY <1>1
  <2>2. n + 1 \in 1..(Len(list) + 1)
    BY <1>1
  <2>3. put = 0 => x = inside[n + 1] + 0
    OBVIOUS
  <2>4. inside[n + 1] \in Nat
    BY <1>2, <2>2
  <2>5. QED
    BY <2>1, <2>3, <2>4
<1>4. \A k \in 1..(Len(list2) + 1) : k > put => inside2[k] = inside[k + n - put]
  BY <1>1, <1>3
<1>5. inside2 \in [1..(Len(list2) + 1) -> Nat]
  <2>1. \A k \in 1..(Len(list2) + 1) : k # 1 => k + n - put \in 1..(Len(list) + 1)
    BY <1>1
  <2>2. \A k \in 1..(Len(list2) + 1) : inside2[k] \in Nat
    BY <1>2, <1>3, <2>1
  <2>3. QED
    BY <2>2
<1>6. inside2[Len(list2) + 1] = 0
  BY <1>1, <1>2, <1>4
<1>7. ASSUME NEW k \in 1..(Len(list) - n)
      PROVE  inside2[k + put + 1] = inside[k + n + 1]
  <2>1. k \in Nat /\ k >= 1 /\ k <= Len(list) - n
    BY <1>1
  <2>2. k + put + 1 \in 1..(Len(list2) + 1) /\ k + put + 1 > put
        /\ (k + put + 1) + n - put = k + n + 1
    BY <1>1, <2>1
  <2>3. QED
    BY <1>4, <2>2
<1>8. put = 1 => inside2[2] = inside[n + 1]
  BY <1>1, <1>3
<1>9. ASSUME NEW k \in 1..Len(list2)
      PROVE  inside2[k] = inside2[k + 1] + (IF list2[k].kind = "do" THEN 1 ELSE 0)
  <2>1. CASE put = 1 /\ k = 1
    BY <1>3, <1>8, <2>1
  <2>2. CASE ~(put = 1 /\ k = 1)
    <3>1. PICK j \in 1..(Len(list) - n) : k = j + put
      <4>1. k - put \in 1..(Len(list) - n) /\ k = (k - put) + put
        BY <1>1, <2>2
      <4>2. QED
        BY <4>1
    <3>2. list2[k] = list[j + n] /\ inside2[k + 1] = inside[j + n + 1]
      BY <1>1, <1>7, <3>1
    <3>3. inside2[k] = inside[j + n]
      <4>1. j \in Nat /\ j >= 1 /\ k \in Nat /\ k >= 1 /\ k <= Len(list2) /\ Len(list2) \in Nat
        BY <1>1
      <4>2. k \in 1..(Len(list2) + 1) /\ k > put /\ k + n - put = j + n
        BY <1>1, <3>1, <4>1
      <4>3. QED
        BY <1>4, <4>2
    <3>4. j + n \in 1..Len(list) /\ (j + n) + 1 = j + n + 1
      <4>1. j \in Nat /\ j >= 1 /\ j <= Len(list) - n
        BY <1>1
      <4>2. QED
        BY <1>1, <4>1
    <3>5. QED
      BY <1>2, <3>2, <3>3, <3>4
  <2>3. QED
    BY <2>1, <2>2
<1>10. Nested(list2, inside2)
  BY <1>5, <1>6, <1>9 DEF Nested
<1>11. QED
  BY <1>3, <1>7, <1>8, <1>10

\* Code of which the operands in Q are set to v.
Patched(code, pc, Q, v) ==
  /\ IsCode(pc) /\ Len(pc) = Len(code)
  /\ \A p \in 1..Len(code) :
       /\ pc[p].handler = code[p].handler
       /\ p \notin Q => pc[p].value = code[p].value
       /\ p \in Q => pc[p].value = v

LEMMA Unchanged ==
  ASSUME NEW code, IsCode(code)
  PROVE  \A v : Patched(code, code, {}, v)
BY DEF Patched

LEMMA PatchIs ==
  ASSUME NEW code, IsCode(code), NEW at, NEW v
  PROVE  Patched(code, Patch(code, at, v), {at}, v)
<1>1. /\ IsSeq(code) /\ Len(code) \in Nat /\ DOMAIN code = 1..Len(code)
      /\ \A p \in 1..Len(code) : code[p] = [handler |-> code[p].handler, value |-> code[p].value]
  BY IsSeqFacts DEF IsCode
<1>2. PICK pc : pc = [code EXCEPT ![at].value = v]
  OBVIOUS
<1>3. DOMAIN pc = 1..Len(code) /\ pc = [p \in 1..Len(code) |-> pc[p]]
  BY <1>1, <1>2
<1>4. IsSeq(pc) /\ Len(pc) = Len(code)
  BY <1>1, <1>3, FunctionIsSeq
<1>5. ASSUME NEW p \in 1..Len(code)
      PROVE  /\ pc[p].handler = code[p].handler
             /\ p # at => pc[p].value = code[p].value
             /\ p = at => pc[p].value = v
             /\ pc[p] = [handler |-> pc[p].handler, value |-> pc[p].value]
  <2>1. CASE p # at
    <3>1. pc[p] = code[p]
      BY <1>1, <1>2, <2>1
    <3>2. QED
      BY <1>1, <2>1, <3>1
  <2>2. CASE p = at
    <3>1. PICK c : c = code[p]
      OBVIOUS
    <3>2. c = [handler |-> c.handler, value |-> c.value]
      BY <1>1, <3>1
    <3>3. pc[p] = [c EXCEPT !.value = v]
      BY <1>1, <1>2, <2>2, <3>1
    <3>4. pc[p] = [handler |-> c.handler, value |-> v]
      BY <3>2, <3>3
    <3>5. QED
      BY <2>2, <3>1, <3>4
  <2>3. QED
    BY <2>1, <2>2
<1>6. Patched(code, pc, {at}, v)
  BY <1>4, <1>5 DEF Patched, IsCode
<1>7. QED
  BY <1>2, <1>6 DEF Patch

\* Operands that are written anew.
LEMMA OperandsAre ==
  ASSUME NEW code, IsCode(code), NEW Q, NEW v,
         \A p \in 1..Len(code) : p \in Q => code[p].handler = "operand",
         NEW pc, pc = [p \in DOMAIN code |-> IF p \in Q THEN operand(v) ELSE code[p]]
  PROVE  Patched(code, pc, Q, v)
<1>1. /\ IsSeq(code) /\ Len(code) \in Nat /\ DOMAIN code = 1..Len(code)
      /\ \A p \in 1..Len(code) : code[p] = [handler |-> code[p].handler, value |-> code[p].value]
  BY IsSeqFacts DEF IsCode
<1>2. DOMAIN pc = 1..Len(code) /\ pc = [p \in 1..Len(code) |-> pc[p]]
  BY <1>1
<1>3. IsSeq(pc) /\ Len(pc) = Len(code)
  BY <1>1, <1>2, FunctionIsSeq
<1>4. ASSUME NEW p \in 1..Len(code)
      PROVE  /\ pc[p].handler = code[p].handler
             /\ p \notin Q => pc[p].value = code[p].value
             /\ p \in Q => pc[p].value = v
             /\ pc[p] = [handler |-> pc[p].handler, value |-> pc[p].value]
  <2>1. CASE p \notin Q
    <3>1. pc[p] = code[p]
      BY <1>1, <2>1
    <3>2. QED
      BY <1>1, <2>1, <3>1
  <2>2. CASE p \in Q
    <3>1. pc[p] = [handler |-> "operand", value |-> v]
      BY <1>1, <2>2 DEF operand
    <3>2. QED
      BY <2>2, <3>1
  <2>3. QED
    BY <2>1, <2>2
<1>5. QED
  BY <1>3, <1>4 DEF Patched, IsCode

\* Code that has got cells.
With(c, pc, cells) ==
  /\ IsCode(c) /\ Len(c) = Len(pc) + Len(cells)
  /\ \A p \in 1..Len(pc) : c[p] = pc[p]
  /\ \A p \in 1..Len(cells) : c[Len(pc) + p] = cells[p]

LEMMA CellsAdded ==
  ASSUME NEW pc, NEW cells, IsCode(pc), IsCode(cells)
  PROVE  With(pc \o cells, pc, cells)
<1>1. PICK c : c = pc \o cells
  OBVIOUS
<1>2. /\ IsSeq(c) /\ Len(c) = Len(pc) + Len(cells)
      /\ \A p \in 1..Len(pc) : c[p] = pc[p]
      /\ \A p \in 1..Len(cells) : c[Len(pc) + p] = cells[p]
  BY <1>1, Joined DEF IsCode
<1>3. Len(pc) \in Nat /\ Len(cells) \in Nat
  BY IsSeqFacts DEF IsCode
<1>4. ASSUME NEW p \in 1..Len(c)
      PROVE  c[p] = [handler |-> c[p].handler, value |-> c[p].value]
  <2>1. CASE p <= Len(pc)
    <3>1. p \in 1..Len(pc) /\ c[p] = pc[p]
      BY <1>2, <1>3, <2>1
    <3>2. QED
      BY <3>1 DEF IsCode
  <2>2. CASE p > Len(pc)
    <3>1. PICK q \in 1..Len(cells) : p = Len(pc) + q
      <4>1. p - Len(pc) \in 1..Len(cells) /\ p = Len(pc) + (p - Len(pc))
        BY <1>2, <1>3, <2>2
      <4>2. QED
        BY <4>1
    <3>2. c[p] = cells[q]
      BY <1>2, <3>1
    <3>3. QED
      BY <3>2 DEF IsCode
  <2>3. QED
    BY <1>2, <1>3, <2>1, <2>2
<1>5. With(c, pc, cells)
  BY <1>2, <1>4 DEF IsCode, With
<1>6. QED
  BY <1>1, <1>5

\* The same, of code that has got more cells.
Rewritten(code, code2, Q, v) ==
  /\ IsCode(code2) /\ Len(code2) >= Len(code)
  /\ \A p \in 1..Len(code) :
       /\ code2[p].handler = code[p].handler
       /\ p \notin Q => code2[p].value = code[p].value
       /\ p \in Q => code2[p].value = v

LEMMA Rewrites ==
  ASSUME NEW code, NEW pc, NEW Q, NEW v, IsCode(code), Patched(code, pc, Q, v),
         NEW cells, IsCode(cells), NEW c, With(c, pc, cells)
  PROVE  /\ Rewritten(code, c, Q, v)
         /\ Len(c) = Len(code) + Len(cells)
         /\ \A p \in 1..Len(cells) : c[Len(code) + p] = cells[p]
<1>1. IsCode(pc) /\ Len(pc) = Len(code)
  BY DEF Patched
<1>2. /\ IsCode(c) /\ Len(c) = Len(code) + Len(cells)
      /\ \A p \in 1..Len(code) : c[p] = pc[p]
      /\ \A p \in 1..Len(cells) : c[Len(code) + p] = cells[p]
  BY <1>1 DEF With
<1>3. Len(code) \in Nat /\ Len(cells) \in Nat
  BY IsSeqFacts DEF IsCode
<1>4. Rewritten(code, c, Q, v)
  BY <1>2, <1>3 DEF Rewritten, Patched
<1>5. QED
  BY <1>2, <1>4

\* Code of which operands are set, that has got a cell, two or three, or none.
None(code, code2, Q, v) ==
  Rewritten(code, code2, Q, v) /\ Len(code2) = Len(code)

OneMore(code, code2, Q, v, a) ==
  /\ Rewritten(code, code2, Q, v) /\ Len(code2) = Len(code) + 1
  /\ code2[Len(code) + 1] = a

TwoMore(code, code2, Q, v, a, b) ==
  /\ Rewritten(code, code2, Q, v) /\ Len(code2) = Len(code) + 2
  /\ code2[Len(code) + 1] = a /\ code2[Len(code) + 2] = b

ThreeMore(code, code2, Q, v, a, b, c) ==
  /\ Rewritten(code, code2, Q, v) /\ Len(code2) = Len(code) + 3
  /\ code2[Len(code) + 1] = a /\ code2[Len(code) + 2] = b /\ code2[Len(code) + 3] = c

LEMMA TwoMoreFacts ==
  ASSUME NEW code, NEW code2, NEW Q, NEW v, NEW h, NEW x,
         TwoMore(code, code2, Q, v, cell(h), operand(x))
  PROVE  /\ Rewritten(code, code2, Q, v) /\ Len(code2) = Len(code) + 2
         /\ code2[Len(code) + 1].handler = h
         /\ code2[Len(code) + 2].handler = "operand" /\ code2[Len(code) + 2].value = x
         /\ DOMAIN code2 = 1..(Len(code) + 2)
<1>1. /\ Rewritten(code, code2, Q, v) /\ Len(code2) = Len(code) + 2
      /\ code2[Len(code) + 1] = cell(h) /\ code2[Len(code) + 2] = operand(x)
  BY DEF TwoMore
<1>2. DOMAIN code2 = 1..Len(code2)
  BY <1>1, IsSeqFacts DEF Rewritten, IsCode
<1>3. QED
  BY <1>1, <1>2 DEF cell, operand

IsCell(a) == a = [handler |-> a.handler, value |-> a.value]

LEMMA CellsAre ==
  ASSUME NEW h, NEW v
  PROVE  /\ IsCell([handler |-> h, value |-> v])
         /\ IsCell(cell(h)) /\ cell(h).handler = h
         /\ IsCell(operand(v)) /\ operand(v).handler = "operand" /\ operand(v).value = v
BY DEF IsCell, cell, operand

LEMMA NoneAdded ==
  ASSUME NEW code, NEW pc, NEW Q, NEW v, IsCode(code), Patched(code, pc, Q, v)
  PROVE  None(code, pc \o <<>>, Q, v)
<1>1. IsCode(<<>>) /\ Len(<<>>) = 0
  BY EmptyIs DEF IsCode
<1>2. PICK c : c = pc \o <<>>
  OBVIOUS
<1>3. With(c, pc, <<>>)
  BY <1>1, <1>2, CellsAdded DEF Patched
<1>4. Rewritten(code, c, Q, v) /\ Len(c) = Len(code) + Len(<<>>)
  BY <1>1, <1>3, Rewrites
<1>5. Len(code) \in Nat
  BY IsSeqFacts DEF IsCode
<1>6. QED
  BY <1>1, <1>2, <1>4, <1>5 DEF None

LEMMA OneAdded ==
  ASSUME NEW code, NEW pc, NEW Q, NEW v, IsCode(code), Patched(code, pc, Q, v),
         NEW a, IsCell(a)
  PROVE  OneMore(code, pc \o <<a>>, Q, v, a)
<1>1. PICK cells : cells = <<a>>
  OBVIOUS
<1>2. cells \in Seq({a}) /\ Len(cells) = 1 /\ cells[1] = a
  BY <1>1
<1>3. IsCode(cells)
  BY <1>2, SeqIs DEF IsCode, IsCell
<1>4. PICK c : c = pc \o cells
  OBVIOUS
<1>5. With(c, pc, cells)
  BY <1>3, <1>4, CellsAdded DEF Patched
<1>6. /\ Rewritten(code, c, Q, v) /\ Len(c) = Len(code) + Len(cells)
      /\ \A p \in 1..Len(cells) : c[Len(code) + p] = cells[p]
  BY <1>3, <1>5, Rewrites
<1>7. OneMore(code, c, Q, v, a)
  BY <1>2, <1>6 DEF OneMore
<1>8. QED
  BY <1>1, <1>4, <1>7

LEMMA TwoAdded ==
  ASSUME NEW code, NEW pc, NEW Q, NEW v, IsCode(code), Patched(code, pc, Q, v),
         NEW a, IsCell(a), NEW b, IsCell(b)
  PROVE  TwoMore(code, pc \o <<a, b>>, Q, v, a, b)
<1>1. PICK cells : cells = <<a, b>>
  OBVIOUS
<1>2. cells \in Seq({a, b}) /\ Len(cells) = 2 /\ cells[1] = a /\ cells[2] = b
  BY <1>1
<1>3. IsCode(cells)
  <2>1. IsSeq(cells)
    BY <1>2, SeqIs
  <2>2. \A n \in 1..2 : n = 1 \/ n = 2
    OBVIOUS
  <2>3. QED
    BY <1>2, <2>1, <2>2 DEF IsCode, IsCell
<1>4. PICK c : c = pc \o cells
  OBVIOUS
<1>5. With(c, pc, cells)
  BY <1>3, <1>4, CellsAdded DEF Patched
<1>6. /\ Rewritten(code, c, Q, v) /\ Len(c) = Len(code) + Len(cells)
      /\ \A p \in 1..Len(cells) : c[Len(code) + p] = cells[p]
  BY <1>3, <1>5, Rewrites
<1>7. TwoMore(code, c, Q, v, a, b)
  BY <1>2, <1>6 DEF TwoMore
<1>8. QED
  BY <1>1, <1>4, <1>7

LEMMA ThreeAdded ==
  ASSUME NEW code, NEW pc, NEW Q, NEW v, IsCode(code), Patched(code, pc, Q, v),
         NEW a, IsCell(a), NEW b, IsCell(b), NEW d, IsCell(d)
  PROVE  ThreeMore(code, pc \o <<a, b, d>>, Q, v, a, b, d)
<1>1. PICK cells : cells = <<a, b, d>>
  OBVIOUS
<1>2. cells \in Seq({a, b, d}) /\ Len(cells) = 3
      /\ cells[1] = a /\ cells[2] = b /\ cells[3] = d
  BY <1>1
<1>3. IsCode(cells)
  <2>1. IsSeq(cells)
    BY <1>2, SeqIs
  <2>2. \A n \in 1..3 : n = 1 \/ n = 2 \/ n = 3
    OBVIOUS
  <2>3. QED
    BY <1>2, <2>1, <2>2 DEF IsCode, IsCell
<1>4. PICK c : c = pc \o cells
  OBVIOUS
<1>5. With(c, pc, cells)
  BY <1>3, <1>4, CellsAdded DEF Patched
<1>6. /\ Rewritten(code, c, Q, v) /\ Len(c) = Len(code) + Len(cells)
      /\ \A p \in 1..Len(cells) : c[Len(code) + p] = cells[p]
  BY <1>3, <1>5, Rewrites
<1>7. ThreeMore(code, c, Q, v, a, b, d)
  BY <1>2, <1>6 DEF ThreeMore
<1>8. QED
  BY <1>1, <1>4, <1>7

\* What a word is compiled to behind code.
Ready(code, list, leaves, loops, level, inside) ==
  /\ IsCode(code) /\ IsSeq(list)
  /\ loops \in -1..2 /\ leaves \in [0..2 -> SUBSET Int]
  /\ Built(code, list, leaves, loops, level, inside)

Continues(code, list, leaves, loops) ==
  \E level, inside : Built(code, list, leaves, loops, level, inside)

\* A word is compiled: Q are the operands that it patches, to a cell of level
\* t; N are its cells that are run and the one behind it, of level m.  It takes
\* n conditions off and puts one on, or none.
Compiles(code, list, leaves, level, inside, code2, list2, leaves2, loops2, level2,
         Q, v, t, N, m, n, put) ==
  /\ m \in Nat
  /\ level2 = Grown(level, N, m)
  /\ Rewritten(code, code2, Q, v)
  /\ N \subseteq (Len(code) + 2)..(Len(code2) + 1)
  /\ Len(code2) + 1 \in N \cup {Len(code) + 1}
  /\ Taken(list, list2, n, put)
  /\ \A q \in Q : Patchable(code, level, q, t) /\ Goes(level2, v + 1, t)
  /\ \A k \in 1..n : list[k].kind \in Hooked => list[k].at \in Q
  /\ DOMAIN leaves2 = 0..2
  /\ \A x \in 0..2 : \A at \in leaves[x] : at \in Q \/ at \in leaves2[x]
  /\ \A p \in {Len(code) + 1} \cup N :
      p # Len(code2) + 1
        => Sound(Len(dictionary) + 1, code2, level2, p, Open(list2, leaves2))
  /\ level2[Len(code2) + 1] = loops2 + 1
  /\ loops2 + 1 \in Nat
  /\ loops2 + 1 = inside[n + 1] + (IF put = 1 /\ list2[1].kind = "do" THEN 1 ELSE 0)
  /\ put = 1 => KeptCondition(code2, level2, list2[1], inside[n + 1])
  /\ \A x \in 0..2 : \A at \in leaves2[x] :
      at \in leaves[x] \/ Patchable(code2, level2, at, x)
  /\ \A x \in 0..2 : x > loops2 => leaves2[x] = {}

LEMMA WordTaken ==
  ASSUME NEW code, NEW list, NEW leaves, NEW loops, NEW level, NEW inside,
         Ready(code, list, leaves, loops, level, inside),
         NEW code2, NEW list2, NEW leaves2, NEW loops2, NEW level2,
         NEW Q, NEW v, NEW t, NEW N, NEW m, NEW n, NEW put,
         Compiles(code, list, leaves, level, inside, code2, list2, leaves2, loops2, level2,
                  Q, v, t, N, m, n, put)
  PROVE  Continues(code2, list2, leaves2, loops2)
<1> SUFFICES ASSUME m \in Nat,
                    level2 = Grown(level, N, m),
                    Rewritten(code, code2, Q, v),
                    N \subseteq (Len(code) + 2)..(Len(code2) + 1),
                    Len(code2) + 1 \in N \cup {Len(code) + 1},
                    Taken(list, list2, n, put),
                    \A q \in Q : Patchable(code, level, q, t) /\ Goes(level2, v + 1, t),
                    \A k \in 1..n : list[k].kind \in Hooked => list[k].at \in Q,
                    DOMAIN leaves2 = 0..2,
                    \A x \in 0..2 : \A at \in leaves[x] : at \in Q \/ at \in leaves2[x],
                    \A p \in {Len(code) + 1} \cup N :
                       p # Len(code2) + 1
                         => Sound(Len(dictionary) + 1, code2, level2, p, Open(list2, leaves2)),
                    level2[Len(code2) + 1] = loops2 + 1,
                    loops2 + 1 \in Nat,
                    loops2 + 1 = inside[n + 1] + (IF put = 1 /\ list2[1].kind = "do" THEN 1 ELSE 0),
                    put = 1 => KeptCondition(code2, level2, list2[1], inside[n + 1]),
                    \A x \in 0..2 : \A at \in leaves2[x] :
                       at \in leaves[x] \/ Patchable(code2, level2, at, x),
                    \A x \in 0..2 : x > loops2 => leaves2[x] = {}
             PROVE  Continues(code2, list2, leaves2, loops2)
  BY DEF Compiles
<1>1. /\ IsCode(code) /\ IsSeq(list) /\ DOMAIN leaves = 0..2
      /\ Built(code, list, leaves, loops, level, inside)
  BY DEF Ready
<1>2. /\ Nested(list, inside)
      /\ \A k \in 1..Len(list) : KeptCondition(code, level, list[k], inside[k + 1])
      /\ \A x \in DOMAIN leaves : \A at \in leaves[x] : Patchable(code, level, at, x)
  BY <1>1 DEF Built, Kept
<1>3. PICK inside2 : inside2 = [k \in 1..(Len(list2) + 1) |->
                                 IF k = 1 THEN loops2 + 1 ELSE inside[k + n - put]]
  OBVIOUS
<1>4. /\ Nested(list2, inside2) /\ inside2[1] = loops2 + 1
      /\ \A k \in 1..(Len(list) - n) : inside2[k + put + 1] = inside[k + n + 1]
      /\ put = 1 => inside2[2] = inside[n + 1]
  <2>1. PICK x \in Nat : x = loops2 + 1
    OBVIOUS
  <2>2. x = inside[n + 1] + (IF put = 1 /\ list2[1].kind = "do" THEN 1 ELSE 0)
    BY <2>1
  <2>3. inside2 = [k \in 1..(Len(list2) + 1) |-> IF k = 1 THEN x ELSE inside[k + n - put]]
    BY <1>3, <2>1
  <2>4. Nested(list, inside) /\ IsSeq(list) /\ Taken(list, list2, n, put)
    BY <1>1, <1>2
  <2>5. /\ Nested(list2, inside2) /\ inside2[1] = x
        /\ \A k \in 1..(Len(list) - n) : inside2[k + put + 1] = inside[k + n + 1]
        /\ put = 1 => inside2[2] = inside[n + 1]
    BY <2>2, <2>3, <2>4, TakenNests, SMTT(30)
  <2>6. QED
    BY <2>1, <2>5
<1>5. /\ Len(list) \in Nat /\ n \in Nat /\ n <= Len(list) /\ (put = 0 \/ put = 1)
      /\ Len(list2) = Len(list) - n + put
      /\ \A k \in 1..(Len(list) - n) : list2[k + put] = list[k + n]
  BY <1>1, IsSeqFacts DEF Taken
<1>6. \A k \in 1..Len(list2) :
        \/ put = 1 /\ k = 1
        \/ \E j \in 1..(Len(list) - n) : k = j + put
  <2>1. ASSUME NEW k \in 1..Len(list2), ~(put = 1 /\ k = 1)
        PROVE  k - put \in 1..(Len(list) - n) /\ k = (k - put) + put
    <3>1. k \in Nat /\ k >= 1 /\ k <= Len(list2)
      BY <1>5
    <3>2. QED
      BY <1>5, <2>1, <3>1
  <2>2. QED
    BY <2>1
<1>7. \A j \in 1..(Len(list) - n) :
        /\ j + n \in 1..Len(list) /\ (j + n) + 1 = j + n + 1
        /\ j + put \in 1..Len(list2)
  <2> SUFFICES ASSUME NEW j \in 1..(Len(list) - n)
               PROVE  /\ j + n \in 1..Len(list) /\ (j + n) + 1 = j + n + 1
                      /\ j + put \in 1..Len(list2)
    OBVIOUS
  <2>1. j \in Nat /\ j >= 1 /\ j <= Len(list) - n
    BY <1>5
  <2>2. QED
    BY <1>5, <2>1
<1>8. ASSUME NEW k \in 1..Len(list2)
      PROVE  \/ KeptCondition(code, level, list2[k], inside2[k + 1])
             \/ KeptCondition(code2, level2, list2[k], inside2[k + 1])
  <2>1. CASE put = 1 /\ k = 1
    BY <1>4, <2>1
  <2>2. CASE \E j \in 1..(Len(list) - n) : k = j + put
    <3>1. PICK j \in 1..(Len(list) - n) : k = j + put
      BY <2>2
    <3>2. list2[k] = list[j + n] /\ inside2[k + 1] = inside[(j + n) + 1]
      BY <1>4, <1>5, <1>7, <3>1
    <3>3. QED
      BY <1>2, <1>7, <3>2
  <2>3. QED
    BY <1>6, <2>1, <2>2
<1>9. Open(list, leaves) \subseteq Open(list2, leaves2) \cup Q
  <2> SUFFICES ASSUME NEW at \in Open(list, leaves), at \notin Q
               PROVE  at \in Open(list2, leaves2)
    OBVIOUS
  <2>1. CASE \E k \in 1..Len(list) : list[k].kind \in Hooked /\ list[k].at = at
    <3>1. PICK k \in 1..Len(list) : list[k].kind \in Hooked /\ list[k].at = at
      BY <2>1
    <3>2. k > n
      BY <1>5, <3>1
    <3>3. k - n \in 1..(Len(list) - n) /\ (k - n) + n = k
      BY <1>5, <3>2
    <3>4. list2[(k - n) + put] = list[k] /\ (k - n) + put \in 1..Len(list2)
      BY <1>5, <1>7, <3>3
    <3>5. at \in Int
      BY DEF Open
    <3>6. QED
      BY <3>1, <3>4, <3>5 DEF Open
  <2>2. CASE \E x \in DOMAIN leaves : at \in leaves[x]
    BY <1>1, <2>2 DEF Open
  <2>3. QED
    BY <2>1, <2>2 DEF Open
<1>10. \A x \in DOMAIN leaves2 : \A at \in leaves2[x] :
         Patchable(code, level, at, x) \/ Patchable(code2, level2, at, x)
  BY <1>1, <1>2
<1>11. \A x \in DOMAIN leaves2 : x > loops2 => leaves2[x] = {}
  OBVIOUS
<1>12. /\ Levels(Len(dictionary) + 1, code, level, Len(code) + 1, Open(list, leaves))
       /\ IsSeq(code) /\ Len(code) \in Nat
  BY <1>1, IsSeqFacts DEF Built, IsCode
<1>13. IsSeq(code2) /\ Len(code2) >= Len(code)
  BY DEF Rewritten, IsCode
<1>14. Extended(code, level, Open(list, leaves), code2, level2, Open(list2, leaves2))
  <2>1. \A q \in Q : Put(code, level, code2, level2, q)
    <3> SUFFICES ASSUME NEW q \in Q PROVE Put(code, level, code2, level2, q)
      OBVIOUS
    <3>1. q \in 1..Len(code)
      BY <1>12 DEF Patchable
    <3>2. code2[q].value = v
      BY <3>1 DEF Rewritten
    <3>3. QED
      BY <3>2 DEF Put
  <2>2. \A p \in 1..Len(code) :
          /\ code2[p].handler = code[p].handler
          /\ code2[p].value = code[p].value \/ Put(code, level, code2, level2, p)
    BY <2>1 DEF Rewritten
  <2>3. \A q \in Open(list, leaves) :
           q \in Open(list2, leaves2) \/ Put(code, level, code2, level2, q)
    BY <1>9, <2>1
  <2>4. QED
    BY <1>12, <1>13, <2>2, <2>3 DEF Extended
<1>15. Levels(Len(dictionary) + 1, code2, level2, Len(code2) + 1, Open(list2, leaves2))
  BY <1>12, <1>13, <1>14, GrowsTo
<1>16. DOMAIN level \subseteq 1..(Len(code) + 1)
       /\ \A p \in DOMAIN level : p \in DOMAIN level2 /\ level2[p] = level[p]
  BY <1>12 DEF Levels, Grown
<1>17. /\ \A at, x : Patchable(code, level, at, x) => Patchable(code2, level2, at, x)
       /\ \A c, x : KeptCondition(code, level, c, x) => KeptCondition(code2, level2, c, x)
  BY <1>12, <1>13, <1>14, <1>16, StillPatchable
<1>18. Kept(code2, level2, list2, inside2, leaves2)
  BY <1>8, <1>10, <1>17 DEF Kept
<1>19. Built(code2, list2, leaves2, loops2, level2, inside2)
  BY <1>4, <1>11, <1>15, <1>18 DEF Built
<1>20. QED
  BY <1>19 DEF Continues

LEMMA ReadyFacts ==
  ASSUME NEW code, NEW list, NEW leaves, NEW loops, NEW level, NEW inside,
         Ready(code, list, leaves, loops, level, inside)
  PROVE  /\ IsCode(code) /\ IsSeq(code) /\ Len(code) \in Nat
         /\ IsSeq(list) /\ Len(list) \in Nat
         /\ loops \in Int /\ loops + 1 \in Nat /\ loops \in -1..2
         /\ Goes(level, Len(code) + 1, loops + 1) /\ DOMAIN level \subseteq 1..(Len(code) + 1)
         /\ inside[1] = loops + 1 /\ Nested(list, inside)
         /\ DOMAIN leaves = 0..2 /\ leaves \in [0..2 -> SUBSET Int]
         /\ \A x \in 0..2 : x > loops => leaves[x] = {}
         /\ \A x \in 0..2 : \A at \in leaves[x] : Patchable(code, level, at, x)
         /\ \A k \in 1..Len(list) : KeptCondition(code, level, list[k], inside[k + 1])
<1>1. /\ IsCode(code) /\ IsSeq(list)
      /\ loops \in -1..2 /\ leaves \in [0..2 -> SUBSET Int]
      /\ Built(code, list, leaves, loops, level, inside)
  BY DEF Ready
<1>2. IsSeq(code) /\ Len(code) \in Nat /\ Len(list) \in Nat
  BY <1>1, IsSeqFacts DEF IsCode
<1>3. loops \in Int /\ loops + 1 \in Nat /\ DOMAIN leaves = 0..2
  BY <1>1
<1>4. Goes(level, Len(code) + 1, loops + 1) /\ DOMAIN level \subseteq 1..(Len(code) + 1)
  BY <1>1 DEF Built, Levels, Goes
<1>5. /\ inside[1] = loops + 1 /\ Nested(list, inside)
      /\ \A x \in 0..2 : x > loops => leaves[x] = {}
      /\ Kept(code, level, list, inside, leaves)
  BY <1>1, <1>3 DEF Built
<1>6. QED
  BY <1>1, <1>2, <1>3, <1>4, <1>5 DEF Kept

LEMMA GrownFacts ==
  ASSUME NEW level, NEW N, NEW m, \A p \in N : p \notin DOMAIN level
  PROVE  /\ \A p \in N : Goes(Grown(level, N, m), p, m)
         /\ \A p, x : Goes(level, p, x) => Goes(Grown(level, N, m), p, x)
<1>1. PICK level2 : level2 = Grown(level, N, m)
  OBVIOUS
<1>2. \A p \in N : p \in DOMAIN level2 /\ level2[p] = m
  BY <1>1 DEF Grown
<1>3. \A p \in DOMAIN level : p \in DOMAIN level2 /\ level2[p] = level[p]
  BY <1>1 DEF Grown
<1>4. QED
  BY <1>1, <1>2, <1>3 DEF Goes

LEMMA Kinds ==
  /\ \A h \in Jumping : /\ h \notin Passing1
                        /\ h # "do" /\ h # ".\"" /\ h # "operand" /\ h # "call" /\ h # "var_set"
  /\ \A h \in Passing1 : /\ h \notin Jumping /\ h \notin Passing2 /\ h \notin Looping
                         /\ h # "do" /\ h # ".\"" /\ h # "operand" /\ h # "call" /\ h # "var_set"
  /\ \A h \in {"lit", "call"} :
       /\ h \notin Passing1 /\ h \notin Jumping /\ h \notin Looping
       /\ h # "do" /\ h # ".\"" /\ h # "operand" /\ h # "var_set"
BY DEF Passing1, Passing2, Jumping, Looping, StackWords, Needing1, Needing2, Needing3, Unchecked

LEMMA JumpSound ==
  ASSUME NEW w, NEW code, NEW level, NEW open, NEW p,
         code[p].handler \in Jumping, p + 1 \in DOMAIN code,
         Jumped(code, level, p, open),
         code[p].handler \in Looping => level[p] > 0,
         code[p].handler \in Passing2 => Goes(level, p + 2, level[p])
  PROVE  Sound(w, code, level, p, open)
<1>1. PICK h : h = code[p].handler
  OBVIOUS
<1>2. /\ h \notin Passing1
      /\ h # "do" /\ h # ".\"" /\ h # "operand" /\ h # "call" /\ h # "var_set"
  BY <1>1, Kinds
<1>3. QED
  BY <1>1, <1>2 DEF Sound

LEMMA PassSound ==
  ASSUME NEW w, NEW code, NEW level, NEW open, NEW p,
         code[p].handler \in Passing1, Goes(level, p + 1, level[p])
  PROVE  Sound(w, code, level, p, open)
<1>1. PICK h : h = code[p].handler
  OBVIOUS
<1>2. /\ h \notin Jumping /\ h \notin Passing2 /\ h \notin Looping
      /\ h # "do" /\ h # ".\"" /\ h # "operand" /\ h # "call" /\ h # "var_set"
  BY <1>1, Kinds
<1>3. QED
  BY <1>1, <1>2 DEF Sound

LEMMA LitSound ==
  ASSUME NEW w, NEW code, NEW level, NEW open, NEW p,
         \/ code[p].handler = "lit"
         \/ code[p].handler = "call" /\ code[p + 1].value \in 1..(w - 1),
         p + 1 \in DOMAIN code, Goes(level, p + 2, level[p])
  PROVE  Sound(w, code, level, p, open)
<1>1. PICK h : h = code[p].handler
  OBVIOUS
<1>2. /\ h \notin Passing1 /\ h \notin Jumping /\ h \notin Looping
      /\ h # "do" /\ h # ".\"" /\ h # "operand" /\ h # "var_set"
  BY <1>1, Kinds
<1>3. h = "call" => code[p + 1].value \in 1..(w - 1)
  BY <1>1
<1>4. QED
  BY <1>1, <1>2, <1>3 DEF Sound

LEMMA StraightBuilt ==
  ASSUME NEW code, NEW list, NEW leaves, NEW loops, NEW level, NEW inside,
         Ready(code, list, leaves, loops, level, inside),
         NEW code2, Rewritten(code, code2, {}, 0), Len(code2) > Len(code),
         Sound(Len(dictionary) + 1, code2, Grown(level, {Len(code2) + 1}, loops + 1),
               Len(code) + 1, Open(list, leaves))
  PROVE  Continues(code2, list, leaves, loops)
<1>1. PICK level2 : level2 = Grown(level, {Len(code2) + 1}, loops + 1)
  OBVIOUS
<1>2. /\ Len(code) \in Nat /\ IsCode(code) /\ loops + 1 \in Nat /\ loops \in Int
      /\ DOMAIN level \subseteq 1..(Len(code) + 1) /\ Goes(level, Len(code) + 1, loops + 1)
      /\ IsSeq(list) /\ Len(list) \in Nat
  BY ReadyFacts
<1>3. Rewritten(code, code2, {}, 0)
  OBVIOUS
<1>4. Len(code2) \in Nat /\ Len(code2) + 1 >= Len(code) + 2
  BY <1>2, IsSeqFacts DEF IsCode, Rewritten
<1>5. {Len(code2) + 1} \subseteq (Len(code) + 2)..(Len(code2) + 1)
  BY <1>2, <1>4
<1>6. Goes(level2, Len(code2) + 1, loops + 1)
  <2>1. \A p \in {Len(code2) + 1} : p \notin DOMAIN level
    BY <1>2, <1>4
  <2>2. QED
    BY <1>1, <2>1, GrownFacts
<1>7. Taken(list, list, 0, 0)
  BY <1>2 DEF Taken
<1>8. /\ inside[1] = loops + 1 /\ DOMAIN leaves = 0..2
      /\ \A x \in 0..2 : x > loops => leaves[x] = {}
  BY ReadyFacts
<1>9. Compiles(code, list, leaves, level, inside, code2, list, leaves, loops, level2,
               {}, 0, 0, {Len(code2) + 1}, loops + 1, 0, 0)
  <2>1. \A p \in {Len(code) + 1} \cup {Len(code2) + 1} :
          p # Len(code2) + 1
            => Sound(Len(dictionary) + 1, code2, level2, p, Open(list, leaves))
    BY <1>1
  <2>2. loops + 1 = inside[0 + 1] + (IF 0 = 1 /\ list[1].kind = "do" THEN 1 ELSE 0)
    BY <1>2, <1>8
  <2>3. \A k \in 1..0 : FALSE
    OBVIOUS
  <2>4. level2[Len(code2) + 1] = loops + 1
    BY <1>6 DEF Goes
  <2>5. 0 # 1
    OBVIOUS
  <2>6. QED
    BY <1>1, <1>2, <1>3, <1>5, <1>7, <1>8, <2>1, <2>2, <2>3, <2>4, <2>5, Zenon DEF Compiles
<1>10. QED
  BY <1>9, WordTaken

LEMMA DomainIs ==
  ASSUME NEW code, IsCode(code)
  PROVE  Len(code) \in Nat /\ DOMAIN code = 1..Len(code)
BY IsSeqFacts DEF IsCode

LEMMA NumberBuilt ==
  ASSUME NEW code, NEW list, NEW leaves, NEW loops, NEW level, NEW inside,
         Ready(code, list, leaves, loops, level, inside), NEW n
  PROVE  Continues(code \o <<cell("lit"), operand(n)>>, list, leaves, loops)
<1>1. /\ Len(code) \in Nat /\ IsCode(code) /\ Goes(level, Len(code) + 1, loops + 1)
      /\ DOMAIN level \subseteq 1..(Len(code) + 1)
  BY ReadyFacts
<1>2. PICK code2 : code2 = code \o <<cell("lit"), operand(n)>>
  OBVIOUS
<1>3. TwoMore(code, code2, {}, 0, cell("lit"), operand(n))
  BY <1>1, <1>2, CellsAre, Unchanged, TwoAdded
<1>4. /\ Rewritten(code, code2, {}, 0) /\ Len(code2) = Len(code) + 2
      /\ code2[Len(code) + 1].handler = "lit"
  BY <1>3, CellsAre DEF TwoMore
<1>5. PICK level2 : level2 = Grown(level, {Len(code2) + 1}, loops + 1)
  OBVIOUS
<1>6. Goes(level2, Len(code2) + 1, loops + 1) /\ Goes(level2, Len(code) + 1, loops + 1)
  <2>1. \A p \in {Len(code2) + 1} : p \notin DOMAIN level
    BY <1>1, <1>4
  <2>2. QED
    BY <1>1, <1>5, <2>1, GrownFacts
<1>7. Sound(Len(dictionary) + 1, code2, level2, Len(code) + 1, Open(list, leaves))
  <2>1. (Len(code) + 1) + 1 \in DOMAIN code2
    <3>1. IsCode(code2)
      BY <1>4 DEF Rewritten
    <3>2. QED
      BY <1>1, <1>4, <3>1, DomainIs
  <2>2. Goes(level2, (Len(code) + 1) + 2, level2[Len(code) + 1])
    <3>1. (Len(code) + 1) + 2 = Len(code2) + 1
      BY <1>1, <1>4
    <3>2. QED
      BY <1>6, <3>1 DEF Goes
  <2>3. QED
    BY <1>4, <2>1, <2>2, LitSound
<1>8. Len(code2) > Len(code)
  BY <1>1, <1>4
<1>9. QED
  BY <1>2, <1>4, <1>5, <1>7, <1>8, StraightBuilt

LEMMA CallBuilt ==
  ASSUME NEW code, NEW list, NEW leaves, NEW loops, NEW level, NEW inside,
         Ready(code, list, leaves, loops, level, inside),
         Len(dictionary) \in Nat, NEW w \in 1..Len(dictionary)
  PROVE  Continues(code \o <<cell("call"), operand(w)>>, list, leaves, loops)
<1>1. /\ Len(code) \in Nat /\ IsCode(code) /\ Goes(level, Len(code) + 1, loops + 1)
      /\ DOMAIN level \subseteq 1..(Len(code) + 1)
  BY ReadyFacts
<1>2. PICK code2 : code2 = code \o <<cell("call"), operand(w)>>
  OBVIOUS
<1>3. TwoMore(code, code2, {}, 0, cell("call"), operand(w))
  BY <1>1, <1>2, CellsAre, Unchanged, TwoAdded
<1>4. /\ Rewritten(code, code2, {}, 0) /\ Len(code2) = Len(code) + 2
      /\ code2[Len(code) + 1].handler = "call" /\ code2[Len(code) + 2].value = w
  BY <1>3, CellsAre DEF TwoMore
<1>5. PICK level2 : level2 = Grown(level, {Len(code2) + 1}, loops + 1)
  OBVIOUS
<1>6. Goes(level2, Len(code2) + 1, loops + 1) /\ Goes(level2, Len(code) + 1, loops + 1)
  <2>1. \A p \in {Len(code2) + 1} : p \notin DOMAIN level
    BY <1>1, <1>4
  <2>2. QED
    BY <1>1, <1>5, <2>1, GrownFacts
<1>7. Sound(Len(dictionary) + 1, code2, level2, Len(code) + 1, Open(list, leaves))
  <2>1. (Len(code) + 1) + 1 \in DOMAIN code2
    <3>1. IsCode(code2)
      BY <1>4 DEF Rewritten
    <3>2. QED
      BY <1>1, <1>4, <3>1, DomainIs
  <2>2. Goes(level2, (Len(code) + 1) + 2, level2[Len(code) + 1])
    <3>1. (Len(code) + 1) + 2 = Len(code2) + 1
      BY <1>1, <1>4
    <3>2. QED
      BY <1>6, <3>1 DEF Goes
  <2>3. code2[(Len(code) + 1) + 1].value \in 1..((Len(dictionary) + 1) - 1)
    <3>1. (Len(code) + 1) + 1 = Len(code) + 2 /\ (Len(dictionary) + 1) - 1 = Len(dictionary)
      BY <1>1
    <3>2. QED
      BY <1>4, <3>1
  <2>4. QED
    BY <1>4, <2>1, <2>2, <2>3, LitSound
<1>8. Len(code2) > Len(code)
  BY <1>1, <1>4
<1>9. QED
  BY <1>2, <1>4, <1>5, <1>7, <1>8, StraightBuilt

LEMMA PlainBuilt ==
  ASSUME NEW code, NEW list, NEW leaves, NEW loops, NEW level, NEW inside,
         Ready(code, list, leaves, loops, level, inside),
         NEW word \in StackWords \cup {"i", "j", "k", "exit", "unloop"}
  PROVE  Continues(code \o <<cell(word)>>, list, leaves, loops)
<1>1. /\ Len(code) \in Nat /\ IsCode(code) /\ Goes(level, Len(code) + 1, loops + 1)
      /\ DOMAIN level \subseteq 1..(Len(code) + 1)
  BY ReadyFacts
<1>2. PICK code2 : code2 = code \o <<cell(word)>>
  OBVIOUS
<1>3. OneMore(code, code2, {}, 0, cell(word))
  BY <1>1, <1>2, CellsAre, Unchanged, OneAdded
<1>4. /\ Rewritten(code, code2, {}, 0) /\ Len(code2) = Len(code) + 1
      /\ code2[Len(code) + 1].handler = word
  BY <1>3, CellsAre DEF OneMore
<1>5. PICK level2 : level2 = Grown(level, {Len(code2) + 1}, loops + 1)
  OBVIOUS
<1>6. Goes(level2, Len(code2) + 1, loops + 1) /\ Goes(level2, Len(code) + 1, loops + 1)
  <2>1. \A p \in {Len(code2) + 1} : p \notin DOMAIN level
    BY <1>1, <1>4
  <2>2. QED
    BY <1>1, <1>5, <2>1, GrownFacts
<1>7. Sound(Len(dictionary) + 1, code2, level2, Len(code) + 1, Open(list, leaves))
  <2>1. CASE word = "exit"
    <3>1. /\ "exit" \notin Jumping /\ "exit" \notin Passing1 /\ "exit" \notin Passing2
          /\ "exit" \notin Looping /\ "exit" # ".\"" /\ "exit" # "operand"
      BY Apart DEF Jumping, Looping, Passing1, Passing2
    <3>2. code2[Len(code) + 1].handler = "exit"
      BY <1>4, <2>1
    <3>3. QED
      BY <3>1, <3>2 DEF Sound
  <2>2. CASE word # "exit"
    <3>1. code2[Len(code) + 1].handler \in Passing1
      BY <1>4, <2>2 DEF Passing1
    <3>2. Goes(level2, (Len(code) + 1) + 1, level2[Len(code) + 1])
      BY <1>4, <1>6 DEF Goes
    <3>3. QED
      BY <3>1, <3>2, PassSound
  <2>3. QED
    BY <2>1, <2>2
<1>8. Len(code2) > Len(code)
  BY <1>1, <1>4
<1>9. QED
  BY <1>2, <1>4, <1>5, <1>7, <1>8, StraightBuilt

\* The cells of a text that does not fill its last one.
LEMMA TextCells ==
  ASSUME NEW length \in Nat, NEW c \in Nat, c > 0, (length + 1) % c # 0
  PROVE  (length + c) \div c = 1 + (length + 1) \div c /\ (length + c) \div c \in Nat
<1>1. PICK r \in Nat : r = (length + 1) \div c
  OBVIOUS
<1>2. PICK m \in Nat : m = (length + 1) % c
  OBVIOUS
<1>3. m < c /\ m > 0
  BY <1>2
<1>4. length + 1 = c * r + m
  BY <1>1, <1>2
<1>5. PICK q \in Nat : q = (length + c) \div c
  OBVIOUS
<1>6. PICK k \in Nat : k = (length + c) % c
  OBVIOUS
<1>7. length + c = c * q + k /\ k < c
  BY <1>5, <1>6
<1>8. c * (q - r) + k = c + m - 1
  <2>1. c * (q - r) = c * q - c * r
    OBVIOUS
  <2>2. QED
    BY <1>4, <1>7, <2>1
<1>9. q - r = 1
  <2>1. CASE q - r >= 2
    <3>1. c * (q - r) >= c * 2
      BY <2>1
    <3>2. QED
      BY <1>3, <1>8, <3>1
  <2>2. CASE q - r <= 0
    <3>1. c * (q - r) <= 0
      BY <2>2
    <3>2. QED
      BY <1>3, <1>7, <1>8, <3>1
  <2>3. QED
    BY <2>1, <2>2
<1>10. QED
  BY <1>1, <1>5, <1>9

Text == ".\""
RestOfText(length) == [n \in 1..((length + Cell) \div Cell) |-> operand(0)]

\* The cells that RunText goes past, but for the first two.
TextSize(length) == (length + 1) \div Cell

TextIs(cells, length) ==
  /\ Len(cells) = 2 + TextSize(length) /\ TextSize(length) \in Nat
  /\ cells[1] = [handler |-> Text, value |-> length]

LEMMA TextCellsAre ==
  ASSUME NEW length \in Nat, NEW rest, NEW cells,
         rest = RestOfText(length),
         cells = <<[handler |-> Text, value |-> length]>> \o rest
  PROVE  IsCode(cells) /\ ((length + 1) % Cell # 0 => TextIs(cells, length))
<1>1. PICK x \in Nat : x = (length + Cell) \div Cell
  BY ForthAssumption
<1>2. IsCode(rest) /\ Len(rest) = x
  <2>1. DOMAIN rest = 1..x /\ rest = [n \in 1..x |-> rest[n]] /\ \A n \in 1..x : rest[n] = operand(0)
    BY <1>1 DEF RestOfText
  <2>2. IsSeq(rest) /\ Len(rest) = x
    BY <2>1, FunctionIsSeq
  <2>3. IsCell(operand(0))
    BY CellsAre
  <2>4. QED
    BY <2>1, <2>2, <2>3 DEF IsCode, IsCell
<1>3. PICK a : a = [handler |-> Text, value |-> length]
  OBVIOUS
<1>4. IsCell(a) /\ a.handler = Text /\ a.value = length
  BY <1>3, CellsAre
<1>5. PICK one : one = <<a>>
  OBVIOUS
<1>6. IsCode(one) /\ Len(one) = 1 /\ one[1] = a
  <2>1. one \in Seq({a}) /\ Len(one) = 1 /\ one[1] = a
    BY <1>5
  <2>2. IsSeq(one)
    BY <2>1, SeqIs
  <2>3. \A n \in 1..1 : n = 1
    OBVIOUS
  <2>4. QED
    BY <1>4, <2>1, <2>2, <2>3 DEF IsCode, IsCell
<1>7. With(cells, one, rest)
  BY <1>2, <1>3, <1>5, <1>6, CellsAdded
<1>8. IsCode(cells) /\ Len(cells) = 1 + x /\ cells[1] = a
  <2>1. IsCode(cells) /\ Len(cells) = Len(one) + Len(rest)
        /\ \A p \in 1..Len(one) : cells[p] = one[p]
    BY <1>7 DEF With
  <2>2. 1 \in 1..Len(one)
    BY <1>6
  <2>3. QED
    BY <1>2, <1>6, <2>1, <2>2
<1>9. ASSUME (length + 1) % Cell # 0
      PROVE  TextIs(cells, length)
  <2>1. x = 1 + TextSize(length)
    BY <1>1, <1>9, TextCells, ForthAssumption DEF TextSize
  <2>2. TextSize(length) \in Nat
    BY ForthAssumption DEF TextSize
  <2>3. QED
    BY <1>3, <1>8, <2>1, <2>2 DEF TextIs
<1>10. QED
  BY <1>8, <1>9

LEMMA TextBuilt ==
  ASSUME NEW code, NEW list, NEW leaves, NEW loops, NEW level, NEW inside,
         Ready(code, list, leaves, loops, level, inside),
         NEW length, NEW cells, IsCode(cells), TextIs(cells, length)
  PROVE  Continues(code \o cells, list, leaves, loops)
<1>1. /\ Len(code) \in Nat /\ IsCode(code) /\ Goes(level, Len(code) + 1, loops + 1)
      /\ DOMAIN level \subseteq 1..(Len(code) + 1)
  BY ReadyFacts
<1>2. PICK code2 : code2 = code \o cells
  OBVIOUS
<1>3. PICK r \in Nat : r = TextSize(length)
  BY DEF TextIs
<1>4. Len(cells) = 2 + r /\ cells[1].handler = Text /\ cells[1].value = length
  <2>1. /\ Len(cells) = 2 + TextSize(length)
        /\ cells[1] = [handler |-> Text, value |-> length]
    BY DEF TextIs
  <2>2. QED
    BY <1>3, <2>1
<1>5. With(code2, code, cells)
  BY <1>1, <1>2, CellsAdded
<1>6. /\ Rewritten(code, code2, {}, 0) /\ Len(code2) = Len(code) + (2 + r)
      /\ code2[Len(code) + 1] = cells[1]
  <2>1. Patched(code, code, {}, 0)
    BY <1>1, Unchanged
  <2>2. /\ Rewritten(code, code2, {}, 0) /\ Len(code2) = Len(code) + Len(cells)
        /\ \A p \in 1..Len(cells) : code2[Len(code) + p] = cells[p]
    BY <1>1, <1>5, <2>1, Rewrites
  <2>3. 1 \in 1..Len(cells)
    BY <1>4
  <2>4. QED
    BY <1>4, <2>2, <2>3
<1>7. PICK level2 : level2 = Grown(level, {Len(code2) + 1}, loops + 1)
  OBVIOUS
<1>8. Goes(level2, Len(code2) + 1, loops + 1) /\ Goes(level2, Len(code) + 1, loops + 1)
  <2>1. \A p \in {Len(code2) + 1} : p \notin DOMAIN level
    BY <1>1, <1>6
  <2>2. QED
    BY <1>1, <1>7, <2>1, GrownFacts
<1>9. Sound(Len(dictionary) + 1, code2, level2, Len(code) + 1, Open(list, leaves))
  <2>1. /\ Text \notin Jumping /\ Text \notin Passing1 /\ Text \notin Passing2
        /\ Text \notin Looping
    BY Apart, Zenon DEF Jumping, Looping, Passing1, Passing2, Text
  <2>2. code2[Len(code) + 1].handler = Text /\ code2[Len(code) + 1].value = length
    BY <1>4, <1>6
  <2>3. Len(code2) + 1 = (Len(code) + 1) + 2 + r
    BY <1>1, <1>6
  <2>4. Goes(level2, (Len(code) + 1) + 2 + (code2[Len(code) + 1].value + 1) \div Cell,
             level2[Len(code) + 1])
    <3>1. (code2[Len(code) + 1].value + 1) \div Cell = r
      BY <1>3, <2>2 DEF TextSize
    <3>2. Goes(level2, (Len(code) + 1) + 2 + r, level2[Len(code) + 1])
      BY <1>8, <2>3 DEF Goes
    <3>3. QED
      BY <3>1, <3>2
  <2>5. QED
    BY <2>1, <2>2, <2>4, Zenon DEF Sound, Text
<1>10. Len(code2) > Len(code)
  BY <1>1, <1>6
<1>11. QED
  BY <1>2, <1>6, <1>7, <1>9, <1>10, StraightBuilt

\* n conditions are taken off and c is put on.
Puts(list, list2, n, c) == Taken(list, list2, n, 1) /\ list2[1] = c

LEMMA Pushed ==
  ASSUME NEW list, IsSeq(list), NEW c
  PROVE  Puts(list, <<c>> \o list, 0, c)
<1>1. PICK list2 : list2 = <<c>> \o list
  OBVIOUS
<1>2. /\ IsSeq(list2) /\ Len(list2) = Len(list) + 1 /\ list2[1] = c
      /\ \A k \in 1..Len(list) : list2[k + 1] = list[k]
  BY <1>1, OnTop
<1>3. Len(list) \in Nat
  BY IsSeqFacts
<1>4. \A k \in 1..(Len(list) - 0) : list2[k + 1] = list[k + 0]
  BY <1>2, <1>3
<1>5. Puts(list, list2, 0, c)
  BY <1>2, <1>3, <1>4 DEF Taken, Puts
<1>6. QED
  BY <1>1, <1>5

LEMMA Dropped ==
  ASSUME NEW list, NEW s, NEW n \in Nat, IsSeq(list), Taken(list, s, n, 0), s # <<>>
  PROVE  Taken(list, Tail(s), n + 1, 0) /\ Head(s) = list[n + 1] /\ n < Len(list)
<1>1. /\ IsSeq(s) /\ n \in 0..Len(list) /\ Len(s) = Len(list) - n + 0 /\ Len(list) \in Nat
      /\ \A k \in 1..(Len(list) - n) : s[k + 0] = list[k + n]
  BY IsSeqFacts DEF Taken
<1>2. PICK t : t = Tail(s)
  OBVIOUS
<1>3. /\ IsSeq(t) /\ Len(t) = Len(s) - 1 /\ Head(s) = s[1] /\ Len(s) > 0
      /\ \A k \in 1..(Len(s) - 1) : t[k] = s[k + 1]
  BY <1>1, <1>2, RestIs
<1>4. n < Len(list) /\ Len(s) = Len(list) - n
  BY <1>1, <1>3
<1>5. Head(s) = list[n + 1]
  <2>1. 1 \in 1..(Len(list) - n) /\ 1 + 0 = 1 /\ 1 + n = n + 1
    BY <1>1, <1>4
  <2>2. s[1 + 0] = list[1 + n]
    BY <1>1, <2>1
  <2>3. QED
    BY <1>3, <2>1, <2>2
<1>6. ASSUME NEW k \in 1..(Len(list) - (n + 1))
      PROVE  t[k + 0] = list[k + (n + 1)]
  <2>1. /\ k \in 1..(Len(s) - 1) /\ k + 1 \in 1..(Len(list) - n) /\ k + 0 = k
        /\ (k + 1) + 0 = k + 1 /\ (k + 1) + n = k + (n + 1)
    BY <1>1, <1>4
  <2>2. t[k] = s[k + 1] /\ s[(k + 1) + 0] = list[(k + 1) + n]
    BY <1>1, <1>3, <2>1
  <2>3. QED
    BY <2>1, <2>2
<1>7. Taken(list, t, n + 1, 0)
  <2>1. n + 1 \in 0..Len(list) /\ Len(t) = Len(list) - (n + 1) + 0
    BY <1>1, <1>3, <1>4
  <2>2. QED
    BY <1>3, <1>6, <2>1 DEF Taken
<1>8. QED
  BY <1>2, <1>4, <1>5, <1>7

LEMMA NoneTaken ==
  ASSUME NEW list, IsSeq(list)
  PROVE  Taken(list, list, 0, 0)
<1>1. Len(list) \in Nat
  BY IsSeqFacts
<1>2. QED
  BY <1>1 DEF Taken

LEMMA PutBack ==
  ASSUME NEW list, NEW s, NEW n \in Nat, IsSeq(list), Taken(list, s, n, 0), NEW c
  PROVE  Puts(list, <<c>> \o s, n, c)
<1>1. /\ IsSeq(s) /\ n \in 0..Len(list) /\ Len(s) = Len(list) - n + 0 /\ Len(list) \in Nat
      /\ \A k \in 1..(Len(list) - n) : s[k + 0] = list[k + n]
  BY IsSeqFacts DEF Taken
<1>2. PICK t : t = <<c>> \o s
  OBVIOUS
<1>3. /\ IsSeq(t) /\ Len(t) = Len(s) + 1 /\ t[1] = c
      /\ \A k \in 1..Len(s) : t[k + 1] = s[k]
  BY <1>1, <1>2, OnTop
<1>4. ASSUME NEW k \in 1..(Len(list) - n)
      PROVE  t[k + 1] = list[k + n]
  <2>1. k \in 1..Len(s) /\ k + 0 = k
    BY <1>1
  <2>2. QED
    BY <1>1, <1>3, <2>1
<1>5. Len(t) = Len(list) - n + 1
  BY <1>1, <1>3
<1>6. Puts(list, t, n, c)
  BY <1>1, <1>3, <1>4, <1>5 DEF Taken, Puts
<1>7. QED
  BY <1>2, <1>6

\* Words that build structures.
LEMMA ForwardBuilt ==
  ASSUME NEW code, NEW list, NEW leaves, NEW loops, NEW level, NEW inside,
         Ready(code, list, leaves, loops, level, inside),
         NEW word \in {"if", "while", "of", "rangeof"}, NEW kind \in {"if", "while", "of"},
         NEW list2, list2 = <<[kind |-> kind, at |-> Len(code) + 2]>> \o list
  PROVE  Continues(code \o <<cell(word), operand(Unpatched)>>, list2, leaves, loops)
<1>1. /\ Len(code) \in Nat /\ IsCode(code) /\ Goes(level, Len(code) + 1, loops + 1)
      /\ DOMAIN level \subseteq 1..(Len(code) + 1) /\ loops + 1 \in Nat
      /\ IsSeq(list) /\ Len(list) \in Nat /\ inside[1] = loops + 1
      /\ DOMAIN leaves = 0..2 /\ \A x \in 0..2 : x > loops => leaves[x] = {}
  BY ReadyFacts
<1>2. PICK code2 : code2 = code \o <<cell(word), operand(Unpatched)>>
  OBVIOUS
<1>3. TwoMore(code, code2, {}, 0, cell(word), operand(Unpatched))
  BY <1>1, <1>2, CellsAre, Unchanged, TwoAdded
<1>4. /\ Rewritten(code, code2, {}, 0) /\ Len(code2) = Len(code) + 2
      /\ code2[Len(code) + 1].handler = word /\ code2[Len(code) + 2].handler = "operand"
      /\ DOMAIN code2 = 1..(Len(code) + 2)
  BY <1>3, TwoMoreFacts
<1>5. PICK level2 : level2 = Grown(level, {Len(code2) + 1}, loops + 1)
  OBVIOUS
<1>6. Goes(level2, Len(code2) + 1, loops + 1) /\ Goes(level2, Len(code) + 1, loops + 1)
  <2>1. \A p \in {Len(code2) + 1} : p \notin DOMAIN level
    BY <1>1, <1>4
  <2>2. QED
    BY <1>1, <1>5, <2>1, GrownFacts
<1>7. PICK c : c = [kind |-> kind, at |-> Len(code) + 2]
  OBVIOUS
<1>8. /\ Taken(list, list2, 0, 1) /\ list2[1] = c /\ Len(list2) = Len(list) + 1
  <2>1. Puts(list, list2, 0, c)
    BY <1>1, <1>7, Pushed
  <2>2. QED
    BY <1>1, <2>1 DEF Puts, Taken
<1>9. Len(code) + 2 \in Open(list2, leaves)
  <2>1. 1 \in 1..Len(list2) /\ Len(code) + 2 \in Int
    BY <1>1, <1>8
  <2>2. list2[1].kind \in Hooked /\ list2[1].at = Len(code) + 2
    BY <1>7, <1>8 DEF Hooked
  <2>3. QED
    BY <2>1, <2>2 DEF Open
<1>10. word \in Jumping /\ word \notin Looping /\ word \notin Leaving
  BY DEF Jumping, Looping, Leaving
<1>11. Sound(Len(dictionary) + 1, code2, level2, Len(code) + 1, Open(list2, leaves))
  <2>1. (Len(code) + 1) + 1 \in DOMAIN code2 /\ (Len(code) + 1) + 1 = Len(code) + 2
    BY <1>1, <1>4
  <2>2. Goes(level2, (Len(code) + 1) + 2, level2[Len(code) + 1])
    <3>1. (Len(code) + 1) + 2 = Len(code2) + 1
      BY <1>1, <1>4
    <3>2. QED
      BY <1>6, <3>1 DEF Goes
  <2>3. Jumped(code2, level2, Len(code) + 1, Open(list2, leaves))
    BY <1>9, <2>1 DEF Jumped
  <2>4. QED
    BY <1>4, <1>10, <2>1, <2>2, <2>3, JumpSound
<1>12. KeptCondition(code2, level2, list2[1], loops + 1)
  <2>1. (Len(code) + 2) - 1 = Len(code) + 1 /\ Len(code) + 2 \in 2..Len(code2)
    BY <1>1, <1>4
  <2>2. Patchable(code2, level2, Len(code) + 2, loops + 1)
    BY <1>4, <1>6, <1>10, <2>1 DEF Patchable, After, Goes
  <2>3. list2[1].kind = kind /\ list2[1].at = Len(code) + 2
    BY <1>7, <1>8
  <2>4. QED
    BY <2>2, <2>3 DEF KeptCondition
<1>13. Compiles(code, list, leaves, level, inside, code2, list2, leaves, loops, level2,
                {}, 0, 0, {Len(code2) + 1}, loops + 1, 0, 1)
  <2>1. \A p \in {Len(code) + 1} \cup {Len(code2) + 1} :
          p # Len(code2) + 1
            => Sound(Len(dictionary) + 1, code2, level2, p, Open(list2, leaves))
    BY <1>11
  <2>2. loops + 1 = inside[0 + 1] + (IF 1 = 1 /\ list2[1].kind = "do" THEN 1 ELSE 0)
    BY <1>1, <1>7, <1>8
  <2>3. \A k \in 1..0 : FALSE
    OBVIOUS
  <2>4. level2[Len(code2) + 1] = loops + 1
    BY <1>6 DEF Goes
  <2>5. {Len(code2) + 1} \subseteq (Len(code) + 2)..(Len(code2) + 1)
    BY <1>1, <1>4
  <2>6. KeptCondition(code2, level2, list2[1], inside[0 + 1])
    BY <1>1, <1>12
  <2>7. QED
    BY <1>1, <1>4, <1>5, <1>8, <2>1, <2>2, <2>3, <2>4, <2>5, <2>6, Zenon DEF Compiles
<1>14. QED
  BY <1>2, <1>13, WordTaken

LEMMA MarkBuilt ==
  ASSUME NEW code, NEW list, NEW leaves, NEW loops, NEW level, NEW inside,
         Ready(code, list, leaves, loops, level, inside),
         NEW kind \in {"begin", "case"},
         NEW list2, list2 = <<[kind |-> kind, at |-> Len(code) + 1]>> \o list
  PROVE  Continues(code \o <<>>, list2, leaves, loops)
<1>1. /\ Len(code) \in Nat /\ IsCode(code) /\ Goes(level, Len(code) + 1, loops + 1)
      /\ DOMAIN level \subseteq 1..(Len(code) + 1) /\ loops + 1 \in Nat
      /\ IsSeq(list) /\ Len(list) \in Nat /\ inside[1] = loops + 1
      /\ DOMAIN leaves = 0..2 /\ \A x \in 0..2 : x > loops => leaves[x] = {}
  BY ReadyFacts
<1>2. PICK code2 : code2 = code \o <<>>
  OBVIOUS
<1>3. Rewritten(code, code2, {}, 0) /\ Len(code2) = Len(code)
  <2>1. Patched(code, code, {}, 0)
    BY <1>1, Unchanged
  <2>2. None(code, code2, {}, 0)
    BY <1>1, <1>2, <2>1, NoneAdded
  <2>3. QED
    BY <2>2 DEF None
<1>4. PICK level2 : level2 = Grown(level, {}, 0)
  OBVIOUS
<1>5. Goes(level2, Len(code) + 1, loops + 1)
  BY <1>1, <1>4, GrownFacts
<1>6. PICK c : c = [kind |-> kind, at |-> Len(code) + 1]
  OBVIOUS
<1>7. Taken(list, list2, 0, 1) /\ list2[1] = c
  BY <1>1, <1>6, Pushed DEF Puts
<1>8. KeptCondition(code2, level2, list2[1], loops + 1)
  <2>1. list2[1].kind = kind /\ list2[1].at = Len(code) + 1 /\ kind \notin Hooked /\ kind # "do"
    BY <1>6, <1>7 DEF Hooked
  <2>2. QED
    BY <1>5, <2>1 DEF KeptCondition
<1>9. Compiles(code, list, leaves, level, inside, code2, list2, leaves, loops, level2,
               {}, 0, 0, {}, 0, 0, 1)
  <2>1. \A p \in {Len(code) + 1} \cup {} :
          p # Len(code2) + 1
            => Sound(Len(dictionary) + 1, code2, level2, p, Open(list2, leaves))
    BY <1>3
  <2>2. loops + 1 = inside[0 + 1] + (IF 1 = 1 /\ list2[1].kind = "do" THEN 1 ELSE 0)
    BY <1>1, <1>6, <1>7
  <2>3. \A k \in 1..0 : FALSE
    OBVIOUS
  <2>4. level2[Len(code2) + 1] = loops + 1
    BY <1>3, <1>5 DEF Goes
  <2>5. KeptCondition(code2, level2, list2[1], inside[0 + 1])
    BY <1>1, <1>8
  <2>6. 0 \in Nat /\ Len(code2) + 1 = Len(code) + 1
    BY <1>3
  <2>7. QED
    BY <1>1, <1>3, <1>4, <1>7, <2>1, <2>2, <2>3, <2>4, <2>5, <2>6, Zenon DEF Compiles
<1>10. QED
  BY <1>2, <1>9, WordTaken

LEMMA DoBuilt ==
  ASSUME NEW code, NEW list, NEW leaves, NEW loops, NEW level, NEW inside,
         Ready(code, list, leaves, loops, level, inside), loops < 2,
         NEW list2, list2 = <<[kind |-> "do", at |-> Len(code) + 3]>> \o list
  PROVE  Continues(code \o <<cell("do"), cell("do2"), operand(Unpatched)>>,
                   list2, leaves, loops + 1)
<1>1. /\ Len(code) \in Nat /\ IsCode(code) /\ Goes(level, Len(code) + 1, loops + 1)
      /\ DOMAIN level \subseteq 1..(Len(code) + 1) /\ loops + 1 \in Nat /\ loops \in Int
      /\ IsSeq(list) /\ Len(list) \in Nat /\ inside[1] = loops + 1
      /\ DOMAIN leaves = 0..2 /\ \A x \in 0..2 : x > loops => leaves[x] = {}
  BY ReadyFacts
<1>2. PICK code2 : code2 = code \o <<cell("do"), cell("do2"), operand(Unpatched)>>
  OBVIOUS
<1>3. /\ Rewritten(code, code2, {}, 0) /\ Len(code2) = Len(code) + 3
      /\ code2[Len(code) + 1].handler = "do" /\ code2[Len(code) + 2].handler = "do2"
      /\ code2[Len(code) + 3].handler = "operand" /\ DOMAIN code2 = 1..(Len(code) + 3)
  <2>1. ThreeMore(code, code2, {}, 0, cell("do"), cell("do2"), operand(Unpatched))
    BY <1>1, <1>2, CellsAre, Unchanged, ThreeAdded
  <2>2. Rewritten(code, code2, {}, 0) /\ Len(code2) = Len(code) + 3
    BY <2>1 DEF ThreeMore
  <2>3. DOMAIN code2 = 1..Len(code2)
    BY <2>2, IsSeqFacts DEF Rewritten, IsCode
  <2>4. /\ code2[Len(code) + 1].handler = "do" /\ code2[Len(code) + 2].handler = "do2"
        /\ code2[Len(code) + 3].handler = "operand"
    BY <2>1, CellsAre DEF ThreeMore
  <2>5. QED
    BY <2>2, <2>3, <2>4
<1>4. PICK N : N = {Len(code) + 2, Len(code2) + 1}
  OBVIOUS
<1>5. PICK level2 : level2 = Grown(level, N, (loops + 1) + 1)
  OBVIOUS
<1>6. /\ Goes(level2, Len(code2) + 1, (loops + 1) + 1)
      /\ Goes(level2, Len(code) + 2, (loops + 1) + 1)
      /\ Goes(level2, Len(code) + 1, loops + 1)
  <2>1. \A p \in N : p \notin DOMAIN level
    BY <1>1, <1>3, <1>4
  <2>2. QED
    BY <1>1, <1>4, <1>5, <2>1, GrownFacts
<1>7. PICK c : c = [kind |-> "do", at |-> Len(code) + 3]
  OBVIOUS
<1>8. Taken(list, list2, 0, 1) /\ list2[1] = c /\ Len(list2) = Len(list) + 1
  <2>1. Puts(list, list2, 0, c)
    BY <1>1, <1>7, Pushed
  <2>2. QED
    BY <1>1, <2>1 DEF Puts, Taken
<1>9. list2[1].kind = "do" /\ list2[1].at = Len(code) + 3
  BY <1>7, <1>8
<1>10. Len(code) + 3 \in Open(list2, leaves)
  <2>1. 1 \in 1..Len(list2) /\ Len(code) + 3 \in Int /\ "do" \in Hooked
    BY <1>1, <1>8 DEF Hooked
  <2>2. QED
    BY <1>9, <2>1 DEF Open
<1>11. (loops + 1) + 1 \in Nat /\ (loops + 1) + 1 > 0 /\ ((loops + 1) + 1) - 1 = loops + 1
  BY <1>1
<1>12. Sound(Len(dictionary) + 1, code2, level2, Len(code) + 1, Open(list2, leaves))
  <2>1. Goes(level2, (Len(code) + 1) + 1, level2[Len(code) + 1] + 1)
    <3>1. (Len(code) + 1) + 1 = Len(code) + 2
      BY <1>1
    <3>2. QED
      BY <1>6, <3>1 DEF Goes
  <2>2. /\ "do" \notin Passing1 /\ "do" \notin Passing2 /\ "do" \notin Jumping
        /\ "do" \notin Looping
    BY Apart DEF Jumping
  <2>3. QED
    BY <1>3, <2>1, <2>2, Zenon DEF Sound
<1>13. "do2" \in Jumping /\ "do2" \in Looping /\ "do2" \in Leaving
  BY DEF Jumping, Looping, Leaving
<1>14. Sound(Len(dictionary) + 1, code2, level2, Len(code) + 2, Open(list2, leaves))
  <2>1. (Len(code) + 2) + 1 = Len(code) + 3 /\ (Len(code) + 2) + 1 \in DOMAIN code2
    BY <1>1, <1>3
  <2>2. Goes(level2, (Len(code) + 2) + 2, level2[Len(code) + 2])
    <3>1. (Len(code) + 2) + 2 = Len(code2) + 1
      BY <1>1, <1>3
    <3>2. QED
      BY <1>6, <3>1 DEF Goes
  <2>3. Jumped(code2, level2, Len(code) + 2, Open(list2, leaves))
    BY <1>10, <2>1 DEF Jumped
  <2>4. level2[Len(code) + 2] > 0
    BY <1>6, <1>11 DEF Goes
  <2>5. QED
    BY <1>3, <1>13, <2>1, <2>2, <2>3, <2>4, JumpSound
<1>15. KeptCondition(code2, level2, list2[1], loops + 1)
  <2>1. (Len(code) + 3) - 1 = Len(code) + 2 /\ Len(code) + 3 \in 2..Len(code2)
    BY <1>1, <1>3
  <2>2. After(code2, level2, Len(code) + 2) = loops + 1
    BY <1>3, <1>6, <1>11, <1>13 DEF After, Goes
  <2>3. Patchable(code2, level2, Len(code) + 3, loops + 1)
    BY <1>3, <1>6, <1>13, <2>1, <2>2 DEF Patchable, Goes
  <2>4. QED
    BY <1>3, <1>9, <2>1, <2>3 DEF KeptCondition
<1>16. Compiles(code, list, leaves, level, inside, code2, list2, leaves, loops + 1, level2,
                {}, 0, 0, N, (loops + 1) + 1, 0, 1)
  <2>1. \A p \in {Len(code) + 1} \cup N :
          p # Len(code2) + 1
            => Sound(Len(dictionary) + 1, code2, level2, p, Open(list2, leaves))
    BY <1>4, <1>12, <1>14
  <2>2. (loops + 1) + 1 = inside[0 + 1] + (IF 1 = 1 /\ list2[1].kind = "do" THEN 1 ELSE 0)
    BY <1>1, <1>9
  <2>3. \A k \in 1..0 : FALSE
    OBVIOUS
  <2>4. level2[Len(code2) + 1] = (loops + 1) + 1
    BY <1>6 DEF Goes
  <2>5. N \subseteq (Len(code) + 2)..(Len(code2) + 1) /\ Len(code2) + 1 \in N \cup {Len(code) + 1}
    BY <1>1, <1>3, <1>4
  <2>6. KeptCondition(code2, level2, list2[1], inside[0 + 1])
    BY <1>1, <1>15
  <2>7. \A x \in 0..2 : x > loops + 1 => leaves[x] = {}
    BY <1>1
  <2>8. QED
    BY <1>1, <1>3, <1>5, <1>8, <1>11, <2>1, <2>2, <2>3, <2>4, <2>5, <2>6, <2>7, Zenon DEF Compiles
<1>17. QED
  BY <1>2, <1>16, WordTaken

LEMMA KeptIs ==
  ASSUME NEW code, NEW list, NEW leaves, NEW loops, NEW level, NEW inside,
         Ready(code, list, leaves, loops, level, inside), NEW k \in 1..Len(list)
  PROVE  /\ KeptCondition(code, level, list[k], inside[k + 1])
         /\ inside[k + 1] \in Nat /\ inside[k] \in Nat
         /\ list[k].kind = "do" => inside[k] = inside[k + 1] + 1
         /\ list[k].kind # "do" => inside[k] = inside[k + 1]
<1>1. /\ Nested(list, inside) /\ Len(list) \in Nat
      /\ KeptCondition(code, level, list[k], inside[k + 1])
  BY ReadyFacts
<1>2. /\ inside \in [1..(Len(list) + 1) -> Nat]
      /\ inside[k] = inside[k + 1] + (IF list[k].kind = "do" THEN 1 ELSE 0)
  BY <1>1 DEF Nested
<1>3. k \in 1..(Len(list) + 1) /\ k + 1 \in 1..(Len(list) + 1)
  BY <1>1
<1>4. inside[k + 1] \in Nat /\ inside[k] \in Nat
  BY <1>2, <1>3
<1>5. QED
  BY <1>1, <1>2, <1>4

\* A jump that ends a part of a structure begins another one.
LEMMA MiddleBuilt ==
  ASSUME NEW code, NEW list, NEW leaves, NEW loops, NEW level, NEW inside,
         Ready(code, list, leaves, loops, level, inside),
         NEW word \in {"else", "endof"}, NEW kind \in {"if", "endof"},
         list # <<>>, Head(list).kind \in {"if", "of"},
         NEW list2, list2 = <<[kind |-> kind, at |-> Len(code) + 2]>> \o Tail(list)
  PROVE  Continues(Patch(code, Head(list).at, Len(code) + 2)
                     \o <<cell(word), operand(Unpatched)>>, list2, leaves, loops)
<1>1. /\ Len(code) \in Nat /\ IsCode(code) /\ Goes(level, Len(code) + 1, loops + 1)
      /\ DOMAIN level \subseteq 1..(Len(code) + 1) /\ loops + 1 \in Nat
      /\ IsSeq(list) /\ Len(list) \in Nat /\ inside[1] = loops + 1
      /\ DOMAIN leaves = 0..2 /\ \A x \in 0..2 : x > loops => leaves[x] = {}
  BY ReadyFacts
<1>2. PICK at : at = Head(list).at
  OBVIOUS
<1>3. PICK code2 : code2 = Patch(code, at, Len(code) + 2) \o <<cell(word), operand(Unpatched)>>
  OBVIOUS
<1>4. /\ Rewritten(code, code2, {at}, Len(code) + 2) /\ Len(code2) = Len(code) + 2
      /\ code2[Len(code) + 1].handler = word /\ code2[Len(code) + 2].handler = "operand"
      /\ DOMAIN code2 = 1..(Len(code) + 2)
  <2>1. Patched(code, Patch(code, at, Len(code) + 2), {at}, Len(code) + 2)
    BY <1>1, PatchIs
  <2>2. TwoMore(code, code2, {at}, Len(code) + 2, cell(word), operand(Unpatched))
    BY <1>1, <1>3, <2>1, CellsAre, TwoAdded
  <2>3. QED
    BY <2>2, TwoMoreFacts
<1>5. PICK level2 : level2 = Grown(level, {Len(code2) + 1}, loops + 1)
  OBVIOUS
<1>6. Goes(level2, Len(code2) + 1, loops + 1) /\ Goes(level2, Len(code) + 1, loops + 1)
  <2>1. \A p \in {Len(code2) + 1} : p \notin DOMAIN level
    BY <1>1, <1>4
  <2>2. QED
    BY <1>1, <1>5, <2>1, GrownFacts
<1>7. /\ Taken(list, Tail(list), 1, 0) /\ Head(list) = list[1] /\ Len(list) > 0
  <2>1. Taken(list, list, 0, 0) /\ 0 \in Nat /\ 0 + 1 = 1
    BY <1>1, NoneTaken
  <2>2. Taken(list, Tail(list), 0 + 1, 0) /\ Head(list) = list[0 + 1] /\ 0 < Len(list)
    BY <1>1, <2>1, Dropped
  <2>3. QED
    BY <2>1, <2>2
<1>8. /\ list[1].at = at /\ list[1].kind \in {"if", "of"} /\ list[1].kind \in Hooked
      /\ Patchable(code, level, at, inside[2]) /\ inside[2] = loops + 1
  <2>1. 1 \in 1..Len(list) /\ 1 + 1 = 2
    BY <1>1, <1>7
  <2>2. KeptCondition(code, level, list[1], inside[1 + 1])
        /\ (list[1].kind # "do" => inside[1] = inside[1 + 1])
    BY <2>1, KeptIs
  <2>3. /\ list[1].at = at /\ list[1].kind \in {"if", "of"} /\ list[1].kind \in Hooked
        /\ list[1].kind # "do"
    BY <1>2, <1>7 DEF Hooked
  <2>4. QED
    BY <1>1, <2>1, <2>2, <2>3 DEF KeptCondition
<1>9. PICK c : c = [kind |-> kind, at |-> Len(code) + 2]
  OBVIOUS
<1>10. /\ Taken(list, list2, 1, 1) /\ list2[1] = c /\ Len(list2) = Len(list)
  <2>1. Puts(list, list2, 1, c) /\ 1 \in Nat
    BY <1>1, <1>7, <1>9, PutBack
  <2>2. QED
    BY <1>1, <2>1 DEF Puts, Taken
<1>11. Len(code) + 2 \in Open(list2, leaves)
  <2>1. 1 \in 1..Len(list2) /\ Len(code) + 2 \in Int
    BY <1>1, <1>7, <1>10
  <2>2. list2[1].kind \in Hooked /\ list2[1].at = Len(code) + 2
    BY <1>9, <1>10 DEF Hooked
  <2>3. QED
    BY <2>1, <2>2 DEF Open
<1>12. /\ word \in Jumping /\ word \notin Looping /\ word \notin Leaving /\ word \notin Passing2
  BY DEF Jumping, Looping, Leaving, Passing2
<1>13. Sound(Len(dictionary) + 1, code2, level2, Len(code) + 1, Open(list2, leaves))
  <2>1. (Len(code) + 1) + 1 \in DOMAIN code2 /\ (Len(code) + 1) + 1 = Len(code) + 2
    BY <1>1, <1>4
  <2>2. Jumped(code2, level2, Len(code) + 1, Open(list2, leaves))
    BY <1>11, <2>1 DEF Jumped
  <2>3. QED
    BY <1>4, <1>12, <2>1, <2>2, JumpSound
<1>14. KeptCondition(code2, level2, list2[1], loops + 1)
  <2>1. (Len(code) + 2) - 1 = Len(code) + 1 /\ Len(code) + 2 \in 2..Len(code2)
    BY <1>1, <1>4
  <2>2. Patchable(code2, level2, Len(code) + 2, loops + 1)
    BY <1>4, <1>6, <1>12, <2>1 DEF Patchable, After, Goes
  <2>3. list2[1].kind = kind /\ list2[1].at = Len(code) + 2 /\ kind # "do" /\ kind # "begin"
    BY <1>9, <1>10
  <2>4. QED
    BY <2>2, <2>3 DEF KeptCondition
<1>15. Compiles(code, list, leaves, level, inside, code2, list2, leaves, loops, level2,
                {at}, Len(code) + 2, loops + 1, {Len(code2) + 1}, loops + 1, 1, 1)
  <2>1. \A p \in {Len(code) + 1} \cup {Len(code2) + 1} :
          p # Len(code2) + 1
            => Sound(Len(dictionary) + 1, code2, level2, p, Open(list2, leaves))
    BY <1>13
  <2>2. loops + 1 = inside[1 + 1] + (IF 1 = 1 /\ list2[1].kind = "do" THEN 1 ELSE 0)
    BY <1>1, <1>8, <1>9, <1>10
  <2>3. \A k \in 1..1 : list[k].kind \in Hooked => list[k].at \in {at}
    BY <1>8
  <2>4. level2[Len(code2) + 1] = loops + 1
    BY <1>6 DEF Goes
  <2>5. {Len(code2) + 1} \subseteq (Len(code) + 2)..(Len(code2) + 1)
    BY <1>1, <1>4
  <2>6. KeptCondition(code2, level2, list2[1], inside[1 + 1])
    BY <1>8, <1>14
  <2>7. \A q \in {at} : Patchable(code, level, q, loops + 1)
                        /\ Goes(level2, Len(code) + 2 + 1, loops + 1)
    <3>1. Len(code) + 2 + 1 = Len(code2) + 1
      BY <1>1, <1>4
    <3>2. QED
      BY <1>6, <1>8, <3>1
  <2>8. QED
    BY <1>1, <1>4, <1>5, <1>10, <2>1, <2>2, <2>3, <2>4, <2>5, <2>6, <2>7, Zenon DEF Compiles
<1>16. QED
  BY <1>2, <1>3, <1>15, WordTaken

LEMMA ThenBuilt ==
  ASSUME NEW code, NEW list, NEW leaves, NEW loops, NEW level, NEW inside,
         Ready(code, list, leaves, loops, level, inside),
         list # <<>>, Head(list).kind = "if"
  PROVE  Continues(Patch(code, Head(list).at, Len(code)) \o <<>>, Tail(list), leaves, loops)
<1>1. /\ Len(code) \in Nat /\ IsCode(code) /\ Goes(level, Len(code) + 1, loops + 1)
      /\ DOMAIN level \subseteq 1..(Len(code) + 1) /\ loops + 1 \in Nat
      /\ IsSeq(list) /\ Len(list) \in Nat /\ inside[1] = loops + 1
      /\ DOMAIN leaves = 0..2 /\ \A x \in 0..2 : x > loops => leaves[x] = {}
  BY ReadyFacts
<1>2. PICK at : at = Head(list).at
  OBVIOUS
<1>3. PICK code2 : code2 = Patch(code, at, Len(code)) \o <<>>
  OBVIOUS
<1>4. Rewritten(code, code2, {at}, Len(code)) /\ Len(code2) = Len(code)
  <2>1. Patched(code, Patch(code, at, Len(code)), {at}, Len(code))
    BY <1>1, PatchIs
  <2>2. None(code, code2, {at}, Len(code))
    BY <1>1, <1>3, <2>1, NoneAdded
  <2>3. QED
    BY <2>2 DEF None
<1>5. PICK level2 : level2 = Grown(level, {}, 0)
  OBVIOUS
<1>6. Goes(level2, Len(code) + 1, loops + 1)
  BY <1>1, <1>5, GrownFacts
<1>7. /\ Taken(list, Tail(list), 1, 0) /\ Head(list) = list[1] /\ Len(list) > 0
  <2>1. Taken(list, list, 0, 0) /\ 0 \in Nat /\ 0 + 1 = 1
    BY <1>1, NoneTaken
  <2>2. Taken(list, Tail(list), 0 + 1, 0) /\ Head(list) = list[0 + 1] /\ 0 < Len(list)
    BY <1>1, <2>1, Dropped
  <2>3. QED
    BY <2>1, <2>2
<1>8. /\ list[1].at = at /\ list[1].kind \in Hooked
      /\ Patchable(code, level, at, inside[2]) /\ inside[2] = loops + 1
  <2>1. 1 \in 1..Len(list) /\ 1 + 1 = 2
    BY <1>1, <1>7
  <2>2. KeptCondition(code, level, list[1], inside[1 + 1])
        /\ (list[1].kind # "do" => inside[1] = inside[1 + 1])
    BY <2>1, KeptIs
  <2>3. list[1].at = at /\ list[1].kind \in Hooked /\ list[1].kind # "do"
    BY <1>2, <1>7 DEF Hooked
  <2>4. QED
    BY <1>1, <2>1, <2>2, <2>3 DEF KeptCondition
<1>9. Compiles(code, list, leaves, level, inside, code2, Tail(list), leaves, loops, level2,
               {at}, Len(code), loops + 1, {}, 0, 1, 0)
  <2>1. \A p \in {Len(code) + 1} \cup {} :
          p # Len(code2) + 1
            => Sound(Len(dictionary) + 1, code2, level2, p, Open(Tail(list), leaves))
    BY <1>4
  <2>2. loops + 1 = inside[1 + 1] + (IF 0 = 1 /\ Tail(list)[1].kind = "do" THEN 1 ELSE 0)
    BY <1>1, <1>8
  <2>3. \A k \in 1..1 : list[k].kind \in Hooked => list[k].at \in {at}
    BY <1>8
  <2>4. level2[Len(code2) + 1] = loops + 1
    BY <1>4, <1>6 DEF Goes
  <2>5. 0 \in Nat /\ Len(code2) + 1 = Len(code) + 1 /\ 0 # 1
    BY <1>4
  <2>6. \A q \in {at} : Patchable(code, level, q, loops + 1)
                        /\ Goes(level2, Len(code) + 1, loops + 1)
    BY <1>6, <1>8
  <2>7. QED
    BY <1>1, <1>4, <1>5, <1>7, <2>1, <2>2, <2>3, <2>4, <2>5, <2>6, Zenon DEF Compiles
<1>10. QED
  BY <1>2, <1>3, <1>9, WordTaken

LEMMA LeaveBuilt ==
  ASSUME NEW code, NEW list, NEW leaves, NEW loops, NEW level, NEW inside,
         Ready(code, list, leaves, loops, level, inside), loops >= 0
  PROVE  Continues(code \o <<cell("leave"), operand(Unpatched)>>, list,
                   [leaves EXCEPT ![loops] = @ \cup {Len(code) + 1 + 1}], loops)
<1>1. /\ Len(code) \in Nat /\ IsCode(code) /\ Goes(level, Len(code) + 1, loops + 1)
      /\ DOMAIN level \subseteq 1..(Len(code) + 1) /\ loops + 1 \in Nat /\ loops \in Int
      /\ IsSeq(list) /\ Len(list) \in Nat /\ inside[1] = loops + 1
      /\ DOMAIN leaves = 0..2 /\ \A x \in 0..2 : x > loops => leaves[x] = {}
  BY ReadyFacts
<1>2. loops \in 0..2 /\ leaves \in [0..2 -> SUBSET Int]
  <2>1. loops \in -1..2 /\ leaves \in [0..2 -> SUBSET Int]
    BY ReadyFacts
  <2>2. QED
    BY <2>1
<1>3. PICK code2 : code2 = code \o <<cell("leave"), operand(Unpatched)>>
  OBVIOUS
<1>4. /\ Rewritten(code, code2, {}, 0) /\ Len(code2) = Len(code) + 2
      /\ code2[Len(code) + 1].handler = "leave" /\ code2[Len(code) + 2].handler = "operand"
      /\ DOMAIN code2 = 1..(Len(code) + 2)
  <2>1. TwoMore(code, code2, {}, 0, cell("leave"), operand(Unpatched))
    BY <1>1, <1>3, CellsAre, Unchanged, TwoAdded
  <2>2. QED
    BY <2>1, TwoMoreFacts
<1>5. PICK leaves2 : leaves2 = [leaves EXCEPT ![loops] = @ \cup {Len(code) + 1 + 1}]
  OBVIOUS
<1>6. /\ DOMAIN leaves2 = 0..2 /\ leaves2[loops] = leaves[loops] \cup {Len(code) + 2}
      /\ \A x \in 0..2 : x # loops => leaves2[x] = leaves[x]
  <2>1. Len(code) + 1 + 1 = Len(code) + 2
    BY <1>1
  <2>2. QED
    BY <1>1, <1>2, <1>5, <2>1
<1>7. PICK level2 : level2 = Grown(level, {Len(code2) + 1}, loops + 1)
  OBVIOUS
<1>8. Goes(level2, Len(code2) + 1, loops + 1) /\ Goes(level2, Len(code) + 1, loops + 1)
  <2>1. \A p \in {Len(code2) + 1} : p \notin DOMAIN level
    BY <1>1, <1>4
  <2>2. QED
    BY <1>1, <1>7, <2>1, GrownFacts
<1>9. Taken(list, list, 0, 0)
  BY <1>1, NoneTaken
<1>10. Len(code) + 2 \in Open(list, leaves2)
  <2>1. Len(code) + 2 \in Int /\ loops \in DOMAIN leaves2 /\ Len(code) + 2 \in leaves2[loops]
    BY <1>1, <1>2, <1>6
  <2>2. QED
    BY <2>1 DEF Open
<1>11. /\ "leave" \in Jumping /\ "leave" \in Leaving /\ "leave" \notin Passing2
  BY DEF Jumping, Looping, Leaving, Passing2
<1>12. loops + 1 > 0 /\ (loops + 1) - 1 = loops
  BY <1>2
<1>13. Sound(Len(dictionary) + 1, code2, level2, Len(code) + 1, Open(list, leaves2))
  <2>1. (Len(code) + 1) + 1 \in DOMAIN code2 /\ (Len(code) + 1) + 1 = Len(code) + 2
    BY <1>1, <1>4
  <2>2. Jumped(code2, level2, Len(code) + 1, Open(list, leaves2))
    BY <1>10, <2>1 DEF Jumped
  <2>3. level2[Len(code) + 1] > 0
    BY <1>8, <1>12 DEF Goes
  <2>4. QED
    BY <1>4, <1>11, <2>1, <2>2, <2>3, JumpSound
<1>14. Patchable(code2, level2, Len(code) + 2, loops)
  <2>1. (Len(code) + 2) - 1 = Len(code) + 1 /\ Len(code) + 2 \in 2..Len(code2)
    BY <1>1, <1>4
  <2>2. After(code2, level2, Len(code) + 1) = loops
    BY <1>4, <1>8, <1>11, <1>12 DEF After, Goes
  <2>3. QED
    BY <1>4, <1>8, <1>11, <2>1, <2>2 DEF Patchable, Goes
<1>15. Compiles(code, list, leaves, level, inside, code2, list, leaves2, loops, level2,
                {}, 0, 0, {Len(code2) + 1}, loops + 1, 0, 0)
  <2>1. \A p \in {Len(code) + 1} \cup {Len(code2) + 1} :
          p # Len(code2) + 1
            => Sound(Len(dictionary) + 1, code2, level2, p, Open(list, leaves2))
    BY <1>13
  <2>2. loops + 1 = inside[0 + 1] + (IF 0 = 1 /\ list[1].kind = "do" THEN 1 ELSE 0)
    BY <1>1
  <2>3. \A k \in 1..0 : FALSE
    OBVIOUS
  <2>4. level2[Len(code2) + 1] = loops + 1
    BY <1>8 DEF Goes
  <2>5. {Len(code2) + 1} \subseteq (Len(code) + 2)..(Len(code2) + 1)
    BY <1>1, <1>4
  <2>6. 0 # 1
    OBVIOUS
  <2>7. \A x \in 0..2 : \A at \in leaves[x] : at \in leaves2[x]
    BY <1>6
  <2>8. \A x \in 0..2 : \A at \in leaves2[x] :
          at \in leaves[x] \/ Patchable(code2, level2, at, x)
    BY <1>6, <1>14
  <2>9. \A x \in 0..2 : x > loops => leaves2[x] = {}
    BY <1>1, <1>6
  <2>10. QED
    BY <1>1, <1>4, <1>6, <1>7, <1>9, <2>1, <2>2, <2>3, <2>4, <2>5, <2>6, <2>7, <2>8, <2>9,
       Zenon DEF Compiles
<1>16. QED
  BY <1>3, <1>5, <1>15, WordTaken

\* A jump back to a cell that is kept.
LEMMA BackBuilt ==
  ASSUME NEW code, NEW list, NEW leaves, NEW loops, NEW level, NEW inside,
         Ready(code, list, leaves, loops, level, inside),
         NEW word \in {"until", "again"}, list # <<>>, Head(list).kind = "begin"
  PROVE  Continues(code \o <<cell(word), operand(Head(list).at - 1)>>, Tail(list),
                   leaves, loops)
<1>1. /\ Len(code) \in Nat /\ IsCode(code) /\ Goes(level, Len(code) + 1, loops + 1)
      /\ DOMAIN level \subseteq 1..(Len(code) + 1) /\ loops + 1 \in Nat
      /\ IsSeq(list) /\ Len(list) \in Nat /\ inside[1] = loops + 1
      /\ DOMAIN leaves = 0..2 /\ \A x \in 0..2 : x > loops => leaves[x] = {}
  BY ReadyFacts
<1>2. PICK at : at = Head(list).at
  OBVIOUS
<1>3. PICK code2 : code2 = code \o <<cell(word), operand(at - 1)>>
  OBVIOUS
<1>4. /\ Rewritten(code, code2, {}, 0) /\ Len(code2) = Len(code) + 2
      /\ code2[Len(code) + 1].handler = word /\ code2[Len(code) + 2].value = at - 1
      /\ DOMAIN code2 = 1..(Len(code) + 2)
  <2>1. TwoMore(code, code2, {}, 0, cell(word), operand(at - 1))
    BY <1>1, <1>3, CellsAre, Unchanged, TwoAdded
  <2>2. QED
    BY <2>1, TwoMoreFacts
<1>5. PICK level2 : level2 = Grown(level, {Len(code2) + 1}, loops + 1)
  OBVIOUS
<1>6. /\ Taken(list, Tail(list), 1, 0) /\ Head(list) = list[1] /\ Len(list) > 0
  <2>1. Taken(list, list, 0, 0) /\ 0 \in Nat /\ 0 + 1 = 1
    BY <1>1, NoneTaken
  <2>2. Taken(list, Tail(list), 0 + 1, 0) /\ Head(list) = list[0 + 1] /\ 0 < Len(list)
    BY <1>1, <2>1, Dropped
  <2>3. QED
    BY <2>1, <2>2
<1>7. /\ list[1].kind \notin Hooked /\ Goes(level, at, inside[2]) /\ inside[2] = loops + 1
  <2>1. 1 \in 1..Len(list) /\ 1 + 1 = 2
    BY <1>1, <1>6
  <2>2. KeptCondition(code, level, list[1], inside[1 + 1])
        /\ (list[1].kind # "do" => inside[1] = inside[1 + 1])
    BY <2>1, KeptIs
  <2>3. /\ list[1].at = at /\ list[1].kind = "begin"
    BY <1>2, <1>6
  <2>4. list[1].kind \notin Hooked /\ list[1].kind # "do"
    BY <2>3 DEF Hooked
  <2>5. QED
    BY <1>1, <2>1, <2>2, <2>3, <2>4 DEF KeptCondition
<1>8. /\ Goes(level2, Len(code2) + 1, loops + 1) /\ Goes(level2, Len(code) + 1, loops + 1)
      /\ Goes(level2, at, loops + 1)
  <2>1. \A p \in {Len(code2) + 1} : p \notin DOMAIN level
    BY <1>1, <1>4
  <2>2. QED
    BY <1>1, <1>5, <1>7, <2>1, GrownFacts
<1>9. word \in Jumping /\ word \notin Looping /\ word \notin Leaving
  BY DEF Jumping, Looping, Leaving
<1>10. Sound(Len(dictionary) + 1, code2, level2, Len(code) + 1, Open(Tail(list), leaves))
  <2>1. (Len(code) + 1) + 1 \in DOMAIN code2 /\ (Len(code) + 1) + 1 = Len(code) + 2
    BY <1>1, <1>4
  <2>2. Goes(level2, (Len(code) + 1) + 2, level2[Len(code) + 1])
    <3>1. (Len(code) + 1) + 2 = Len(code2) + 1
      BY <1>1, <1>4
    <3>2. QED
      BY <1>8, <3>1 DEF Goes
  <2>3. Jumped(code2, level2, Len(code) + 1, Open(Tail(list), leaves))
    <3>1. at \in Int
      BY <1>1, <1>7 DEF Goes
    <3>2. code2[(Len(code) + 1) + 1].value + 1 = at
      BY <1>4, <2>1, <3>1
    <3>3. After(code2, level2, Len(code) + 1) = loops + 1
      BY <1>4, <1>8, <1>9 DEF After, Goes
    <3>4. QED
      BY <1>8, <3>2, <3>3 DEF Jumped
  <2>4. QED
    BY <1>4, <1>9, <2>1, <2>2, <2>3, JumpSound
<1>11. Compiles(code, list, leaves, level, inside, code2, Tail(list), leaves, loops, level2,
                {}, 0, 0, {Len(code2) + 1}, loops + 1, 1, 0)
  <2>1. \A p \in {Len(code) + 1} \cup {Len(code2) + 1} :
          p # Len(code2) + 1
            => Sound(Len(dictionary) + 1, code2, level2, p, Open(Tail(list), leaves))
    BY <1>10
  <2>2. loops + 1 = inside[1 + 1] + (IF 0 = 1 /\ Tail(list)[1].kind = "do" THEN 1 ELSE 0)
    BY <1>1, <1>7
  <2>3. \A k \in 1..1 : list[k].kind \in Hooked => list[k].at \in {}
    BY <1>7
  <2>4. level2[Len(code2) + 1] = loops + 1
    BY <1>8 DEF Goes
  <2>5. {Len(code2) + 1} \subseteq (Len(code) + 2)..(Len(code2) + 1) /\ 0 # 1
    BY <1>1, <1>4
  <2>6. QED
    BY <1>1, <1>4, <1>5, <1>6, <2>1, <2>2, <2>3, <2>4, <2>5, Zenon DEF Compiles
<1>12. QED
  BY <1>2, <1>3, <1>11, WordTaken

LEMMA RepeatBuilt ==
  ASSUME NEW code, NEW list, NEW leaves, NEW loops, NEW level, NEW inside,
         Ready(code, list, leaves, loops, level, inside),
         list # <<>>, Head(list).kind = "while",
         Tail(list) # <<>>, Head(Tail(list)).kind = "begin"
  PROVE  Continues(Patch(code, Head(list).at, Len(code) + 2)
                     \o <<cell("repeat"), operand(Head(Tail(list)).at - 1)>>,
                   Tail(Tail(list)), leaves, loops)
<1>1. /\ Len(code) \in Nat /\ IsCode(code) /\ Goes(level, Len(code) + 1, loops + 1)
      /\ DOMAIN level \subseteq 1..(Len(code) + 1) /\ loops + 1 \in Nat /\ loops \in Int
      /\ IsSeq(list) /\ Len(list) \in Nat /\ inside[1] = loops + 1
      /\ DOMAIN leaves = 0..2 /\ \A x \in 0..2 : x > loops => leaves[x] = {}
  BY ReadyFacts
<1>2. PICK at, at2 : at = Head(list).at /\ at2 = Head(Tail(list)).at
  OBVIOUS
<1>3. PICK code2 : code2 = Patch(code, at, Len(code) + 2) \o <<cell("repeat"), operand(at2 - 1)>>
  OBVIOUS
<1>4. /\ Rewritten(code, code2, {at}, Len(code) + 2) /\ Len(code2) = Len(code) + 2
      /\ code2[Len(code) + 1].handler = "repeat" /\ code2[Len(code) + 2].value = at2 - 1
      /\ DOMAIN code2 = 1..(Len(code) + 2)
  <2>1. Patched(code, Patch(code, at, Len(code) + 2), {at}, Len(code) + 2)
    BY <1>1, PatchIs
  <2>2. TwoMore(code, code2, {at}, Len(code) + 2, cell("repeat"), operand(at2 - 1))
    BY <1>1, <1>3, <2>1, CellsAre, TwoAdded
  <2>3. QED
    BY <2>2, TwoMoreFacts
<1>5. PICK level2 : level2 = Grown(level, {Len(code2) + 1}, loops + 1)
  OBVIOUS
<1>6. /\ Taken(list, Tail(Tail(list)), 2, 0) /\ Len(list) > 1
      /\ Head(list) = list[1] /\ Head(Tail(list)) = list[2]
  <2>1. Taken(list, list, 0, 0) /\ 0 \in Nat /\ 0 + 1 = 1 /\ 1 \in Nat /\ 1 + 1 = 2
    BY <1>1, NoneTaken
  <2>2. Taken(list, Tail(list), 0 + 1, 0) /\ Head(list) = list[0 + 1]
    BY <1>1, <2>1, Dropped
  <2>3. Taken(list, Tail(Tail(list)), 1 + 1, 0) /\ Head(Tail(list)) = list[1 + 1] /\ 1 < Len(list)
    BY <1>1, <2>1, <2>2, Dropped
  <2>4. QED
    BY <2>1, <2>2, <2>3
<1>7. /\ list[1].at = at /\ list[1].kind = "while" /\ list[2].at = at2 /\ list[2].kind = "begin"
      /\ "while" \in Hooked /\ "begin" \notin Hooked
  BY <1>2, <1>6 DEF Hooked
<1>8. Patchable(code, level, at, loops + 1) /\ inside[2] = loops + 1
  <2>1. 1 \in 1..Len(list) /\ 1 + 1 = 2
    BY <1>1, <1>6
  <2>2. KeptCondition(code, level, list[1], inside[1 + 1])
        /\ (list[1].kind # "do" => inside[1] = inside[1 + 1])
    BY <2>1, KeptIs
  <2>3. QED
    BY <1>1, <1>7, <2>1, <2>2 DEF KeptCondition
<1>9. Goes(level, at2, loops + 1) /\ inside[3] = loops + 1
  <2>1. 2 \in 1..Len(list) /\ 2 + 1 = 3
    BY <1>1, <1>6
  <2>2. KeptCondition(code, level, list[2], inside[2 + 1])
        /\ (list[2].kind # "do" => inside[2] = inside[2 + 1])
    BY <2>1, KeptIs
  <2>3. QED
    BY <1>7, <1>8, <2>1, <2>2 DEF KeptCondition
<1>10. /\ Goes(level2, Len(code2) + 1, loops + 1) /\ Goes(level2, Len(code) + 1, loops + 1)
       /\ Goes(level2, at2, loops + 1)
  <2>1. \A p \in {Len(code2) + 1} : p \notin DOMAIN level
    BY <1>1, <1>4
  <2>2. QED
    BY <1>1, <1>5, <1>9, <2>1, GrownFacts
<1>11. /\ "repeat" \in Jumping /\ "repeat" \notin Looping /\ "repeat" \notin Leaving
       /\ "repeat" \notin Passing2
  BY DEF Jumping, Looping, Leaving, Passing2
<1>12. Sound(Len(dictionary) + 1, code2, level2, Len(code) + 1, Open(Tail(Tail(list)), leaves))
  <2>1. (Len(code) + 1) + 1 \in DOMAIN code2 /\ (Len(code) + 1) + 1 = Len(code) + 2
    BY <1>1, <1>4
  <2>2. Jumped(code2, level2, Len(code) + 1, Open(Tail(Tail(list)), leaves))
    <3>1. at2 \in Int
      BY <1>1, <1>9 DEF Goes
    <3>2. code2[(Len(code) + 1) + 1].value + 1 = at2
      BY <1>4, <2>1, <3>1
    <3>3. After(code2, level2, Len(code) + 1) = loops + 1
      BY <1>4, <1>10, <1>11 DEF After, Goes
    <3>4. QED
      BY <1>10, <3>2, <3>3 DEF Jumped
  <2>3. QED
    BY <1>4, <1>11, <2>1, <2>2, JumpSound
<1>13. Compiles(code, list, leaves, level, inside, code2, Tail(Tail(list)), leaves, loops, level2,
                {at}, Len(code) + 2, loops + 1, {Len(code2) + 1}, loops + 1, 2, 0)
  <2>1. \A p \in {Len(code) + 1} \cup {Len(code2) + 1} :
          p # Len(code2) + 1
            => Sound(Len(dictionary) + 1, code2, level2, p, Open(Tail(Tail(list)), leaves))
    BY <1>12
  <2>2. loops + 1 = inside[2 + 1] + (IF 0 = 1 /\ Tail(Tail(list))[1].kind = "do" THEN 1 ELSE 0)
    BY <1>1, <1>9
  <2>3. \A k \in 1..2 : list[k].kind \in Hooked => list[k].at \in {at}
    <3>1. \A k \in 1..2 : k = 1 \/ k = 2
      OBVIOUS
    <3>2. QED
      BY <1>7, <3>1
  <2>4. level2[Len(code2) + 1] = loops + 1
    BY <1>10 DEF Goes
  <2>5. {Len(code2) + 1} \subseteq (Len(code) + 2)..(Len(code2) + 1) /\ 0 # 1
    BY <1>1, <1>4
  <2>6. \A q \in {at} : Patchable(code, level, q, loops + 1)
                        /\ Goes(level2, Len(code) + 2 + 1, loops + 1)
    <3>1. Len(code) + 2 + 1 = Len(code2) + 1
      BY <1>1, <1>4
    <3>2. QED
      BY <1>8, <1>10, <3>1
  <2>7. QED
    BY <1>1, <1>4, <1>5, <1>6, <2>1, <2>2, <2>3, <2>4, <2>5, <2>6, Zenon DEF Compiles
<1>14. QED
  BY <1>2, <1>3, <1>13, WordTaken

Rewired(pc, Q, v) == [n \in DOMAIN pc |-> IF n \in Q THEN operand(v) ELSE pc[n]]

LEMMA PatchedMore ==
  ASSUME NEW code, NEW pc, NEW Q, NEW v, IsCode(code), Patched(code, pc, Q, v),
         NEW Q2, \A p \in 1..Len(code) : p \in Q2 => code[p].handler = "operand"
  PROVE  Patched(code, Rewired(pc, Q2, v), Q \cup Q2, v)
<1>1. PICK pc2 : pc2 = Rewired(pc, Q2, v)
  OBVIOUS
<1>2. /\ IsCode(pc) /\ Len(pc) = Len(code)
      /\ \A p \in 1..Len(pc) : p \in Q2 => pc[p].handler = "operand"
  BY DEF Patched
<1>3. Patched(pc, pc2, Q2, v)
  BY <1>1, <1>2, OperandsAre DEF Rewired
<1>4. Patched(code, pc2, Q \cup Q2, v)
  BY <1>2, <1>3 DEF Patched
<1>5. QED
  BY <1>1, <1>4

LEMMA LoopBuilt ==
  ASSUME NEW code, NEW list, NEW leaves, NEW loops, NEW level, NEW inside,
         Ready(code, list, leaves, loops, level, inside),
         NEW word \in {"loop", "+loop"}, list # <<>>, Head(list).kind = "do",
         NEW pc, pc = Patch(code, Head(list).at, Len(code) + 2)
  PROVE  Continues(Rewired(pc, leaves[loops], Len(code) + 2)
                     \o <<cell(word), operand(Head(list).at - 2)>>,
                   Tail(list), [leaves EXCEPT ![loops] = {}], loops - 1)
         /\ loops \in 0..2
<1>1. /\ Len(code) \in Nat /\ IsCode(code) /\ Goes(level, Len(code) + 1, loops + 1)
      /\ DOMAIN level \subseteq 1..(Len(code) + 1) /\ loops + 1 \in Nat /\ loops \in Int
      /\ IsSeq(list) /\ Len(list) \in Nat /\ inside[1] = loops + 1
      /\ DOMAIN leaves = 0..2 /\ \A x \in 0..2 : x > loops => leaves[x] = {}
  BY ReadyFacts
<1>2. PICK at : at = Head(list).at
  OBVIOUS
<1>3. PICK code2 : code2 = Rewired(pc, leaves[loops], Len(code) + 2)
                             \o <<cell(word), operand(at - 2)>>
  OBVIOUS
<1>4. /\ Taken(list, Tail(list), 1, 0) /\ Head(list) = list[1] /\ Len(list) > 0
  <2>1. Taken(list, list, 0, 0) /\ 0 \in Nat /\ 0 + 1 = 1
    BY <1>1, NoneTaken
  <2>2. Taken(list, Tail(list), 0 + 1, 0) /\ Head(list) = list[0 + 1] /\ 0 < Len(list)
    BY <1>1, <2>1, Dropped
  <2>3. QED
    BY <2>1, <2>2
<1>5. list[1].at = at /\ list[1].kind = "do" /\ "do" \in Hooked
  BY <1>2, <1>4 DEF Hooked
<1>6. /\ Patchable(code, level, at, loops) /\ code[at - 1].handler = "do2"
      /\ inside[2] = loops /\ loops \in Nat
  <2>1. 1 \in 1..Len(list) /\ 1 + 1 = 2
    BY <1>1, <1>4
  <2>2. /\ KeptCondition(code, level, list[1], inside[1 + 1])
        /\ inside[1 + 1] \in Nat /\ (list[1].kind = "do" => inside[1] = inside[1 + 1] + 1)
    BY <2>1, KeptIs
  <2>3. inside[2] = loops /\ loops \in Nat
    BY <1>1, <1>5, <2>1, <2>2
  <2>4. QED
    BY <1>5, <2>1, <2>2, <2>3 DEF KeptCondition
<1>7. loops \in 0..2 /\ leaves \in [0..2 -> SUBSET Int] /\ level \in [DOMAIN level -> Nat]
  <2>1. loops \in -1..2 /\ leaves \in [0..2 -> SUBSET Int]
    BY ReadyFacts
  <2>2. level \in [DOMAIN level -> Nat]
    BY DEF Ready, Built, Levels
  <2>3. QED
    BY <1>6, <2>1, <2>2
<1>8. \A q \in {at} \cup leaves[loops] : Patchable(code, level, q, loops)
  BY <1>6, <1>7, ReadyFacts
<1>9. PICK Q : Q = {at} \cup leaves[loops]
  OBVIOUS
<1>10. /\ Rewritten(code, code2, Q, Len(code) + 2) /\ Len(code2) = Len(code) + 2
       /\ code2[Len(code) + 1].handler = word /\ code2[Len(code) + 2].value = at - 2
       /\ DOMAIN code2 = 1..(Len(code) + 2)
  <2>1. Patched(code, pc, {at}, Len(code) + 2)
    BY <1>1, <1>2, PatchIs
  <2>2. \A p \in 1..Len(code) : p \in leaves[loops] => code[p].handler = "operand"
    BY <1>8 DEF Patchable
  <2>3. PICK pc2 : pc2 = Rewired(pc, leaves[loops], Len(code) + 2)
    OBVIOUS
  <2>4. Patched(code, pc2, Q, Len(code) + 2)
    BY <1>1, <1>9, <2>1, <2>2, <2>3, PatchedMore
  <2>5. TwoMore(code, code2, Q, Len(code) + 2, cell(word), operand(at - 2))
    BY <1>1, <1>3, <2>3, <2>4, CellsAre, TwoAdded
  <2>6. QED
    BY <2>5, TwoMoreFacts
<1>11. PICK level2 : level2 = Grown(level, {Len(code2) + 1}, loops)
  OBVIOUS
<1>12. Goes(level, at - 1, loops + 1) /\ at \in Int
  <2>1. at - 1 \in DOMAIN level /\ at \in 2..Len(code) /\ After(code, level, at - 1) = loops
    BY <1>6 DEF Patchable
  <2>2. level[at - 1] - 1 = loops /\ level[at - 1] \in Nat
    BY <1>6, <1>7, <2>1 DEF After, Leaving
  <2>3. level[at - 1] = loops + 1
    BY <1>6, <2>2
  <2>4. QED
    BY <2>1, <2>3 DEF Goes
<1>13. /\ Goes(level2, Len(code2) + 1, loops) /\ Goes(level2, Len(code) + 1, loops + 1)
       /\ Goes(level2, at - 1, loops + 1)
  <2>1. \A p \in {Len(code2) + 1} : p \notin DOMAIN level
    BY <1>1, <1>10
  <2>2. QED
    BY <1>1, <1>11, <1>12, <2>1, GrownFacts
<1>14. /\ word \in Jumping /\ word \notin Leaving /\ word \notin Passing2
  BY DEF Jumping, Looping, Leaving, Passing2
<1>15. PICK leaves2 : leaves2 = [leaves EXCEPT ![loops] = {}]
  OBVIOUS
<1>16. /\ DOMAIN leaves2 = 0..2 /\ leaves2[loops] = {}
       /\ \A x \in 0..2 : x # loops => leaves2[x] = leaves[x]
  BY <1>1, <1>7, <1>15
<1>17. Sound(Len(dictionary) + 1, code2, level2, Len(code) + 1, Open(Tail(list), leaves2))
  <2>1. (Len(code) + 1) + 1 \in DOMAIN code2 /\ (Len(code) + 1) + 1 = Len(code) + 2
    BY <1>1, <1>10
  <2>2. Jumped(code2, level2, Len(code) + 1, Open(Tail(list), leaves2))
    <3>1. code2[(Len(code) + 1) + 1].value + 1 = at - 1
      BY <1>10, <1>12, <2>1
    <3>2. After(code2, level2, Len(code) + 1) = loops + 1
      BY <1>10, <1>13, <1>14 DEF After, Goes
    <3>3. QED
      BY <1>13, <3>1, <3>2 DEF Jumped
  <2>3. level2[Len(code) + 1] > 0
    BY <1>6, <1>13 DEF Goes
  <2>4. QED
    BY <1>10, <1>14, <2>1, <2>2, <2>3, JumpSound
<1>18. loops - 1 + 1 = loops
  BY <1>1
<1>19. Compiles(code, list, leaves, level, inside, code2, Tail(list), leaves2, loops - 1, level2,
                Q, Len(code) + 2, loops, {Len(code2) + 1}, loops, 1, 0)
  <2>1. \A p \in {Len(code) + 1} \cup {Len(code2) + 1} :
          p # Len(code2) + 1
            => Sound(Len(dictionary) + 1, code2, level2, p, Open(Tail(list), leaves2))
    BY <1>17
  <2>2. loops - 1 + 1 = inside[1 + 1] + (IF 0 = 1 /\ Tail(list)[1].kind = "do" THEN 1 ELSE 0)
    BY <1>6, <1>18
  <2>3. \A k \in 1..1 : list[k].kind \in Hooked => list[k].at \in Q
    BY <1>5, <1>9
  <2>4. level2[Len(code2) + 1] = loops - 1 + 1
    BY <1>13, <1>18 DEF Goes
  <2>5. {Len(code2) + 1} \subseteq (Len(code) + 2)..(Len(code2) + 1) /\ 0 # 1
    BY <1>1, <1>10
  <2>6. \A q \in Q : Patchable(code, level, q, loops)
                     /\ Goes(level2, Len(code) + 2 + 1, loops)
    <3>1. Len(code) + 2 + 1 = Len(code2) + 1
      BY <1>1, <1>10
    <3>2. QED
      BY <1>8, <1>9, <1>13, <3>1
  <2>7. \A x \in 0..2 : \A p \in leaves[x] : p \in Q \/ p \in leaves2[x]
    BY <1>9, <1>16
  <2>8. \A x \in 0..2 : \A p \in leaves2[x] :
          p \in leaves[x] \/ Patchable(code2, level2, p, x)
    BY <1>16
  <2>9. \A x \in 0..2 : x > loops - 1 => leaves2[x] = {}
    <3>1. \A x \in 0..2 : x > loops - 1 => x = loops \/ x > loops
      BY <1>1
    <3>2. QED
      BY <1>1, <1>16, <3>1
  <2>10. loops - 1 + 1 \in Nat
    BY <1>6, <1>18
  <2>11. QED
    BY <1>6, <1>10, <1>11, <1>4, <1>16, <2>1, <2>2, <2>3, <2>4, <2>5, <2>6, <2>7, <2>8, <2>9,
       <2>10, Zenon DEF Compiles
<1>20. QED
  BY <1>2, <1>3, <1>7, <1>15, <1>19, WordTaken

\* Every nonempty set of natural numbers has a least element.
LEMMA LeastNat ==
  ASSUME NEW S, S \subseteq Nat, S # {}
  PROVE  \E n \in S : \A m \in S : n <= m
<1> DEFINE R == {p \in Nat \X Nat : p[1] < p[2]}
<1>1. IsWellFoundedOn(R, Nat)
  BY NatLessThanWellFounded, Zenon DEF OpToRel
<1>2. PICK x \in S : \A y \in S : ~(<<y, x>> \in R)
  BY <1>1, WFMin, Zenon
<1>3. ASSUME NEW m \in S  PROVE x <= m
  <2>1. m < x => <<m, x>> \in R
    OBVIOUS
  <2>2. QED
    BY <1>2, <2>1
<1>4. QED
  BY <1>3

LEMMA MinIs ==
  ASSUME NEW S, S \subseteq Nat, S # {}
  PROVE  Min(S) \in S /\ \A m \in S : Min(S) <= m
<1>1. \E n \in S : \A m \in S : n <= m
  BY LeastNat
<1>2. QED
  BY <1>1 DEF Min

LEMMA MaxIs ==
  ASSUME NEW n \in Nat, NEW S, S \subseteq 1..n, S # {}
  PROVE  Max(S) \in S /\ \A m \in S : Max(S) >= m
<1> DEFINE U == {x \in 0..n : \A m \in S : m <= x}
<1>1. U \subseteq Nat /\ n \in U
  OBVIOUS
<1>2. PICK x \in U : \A y \in U : x <= y
  BY <1>1, LeastNat
<1>3. x \in S
  <2>1. SUFFICES ASSUME x \notin S PROVE FALSE
    OBVIOUS
  <2>2. x - 1 \in U
    <3>1. PICK m : m \in S
      OBVIOUS
    <3>2. m \in 1..n /\ m <= x /\ x \in 0..n
      BY <3>1
    <3>3. x - 1 \in 0..n
      BY <3>2
    <3>4. ASSUME NEW k \in S PROVE k <= x - 1
      <4>1. k <= x /\ k # x /\ k \in 1..n /\ x \in 0..n
        BY <2>1
      <4>2. QED
        BY <4>1
    <3>5. QED
      BY <3>3, <3>4
  <2>3. x <= x - 1 /\ x \in Nat
    BY <1>2, <2>2
  <2>4. QED
    BY <2>3
<1>4. \A m \in S : x >= m
  OBVIOUS
<1>5. \E y \in S : \A m \in S : y >= m
  BY <1>3, <1>4
<1>6. QED
  BY <1>5 DEF Max

\* The conditions of the endofs that endcase takes.
AllEnds(list, ends) == \A k \in 1..ends : list[k].kind = "endof"

LEMMA RestTaken ==
  ASSUME NEW list, IsSeq(list), NEW n \in 0..Len(list)
  PROVE  Taken(list, SubSeq(list, n + 1, Len(list)), n, 0)
<1>1. PICK t : t = SubSeq(list, n + 1, Len(list))
  OBVIOUS
<1>2. /\ IsSeq(t) /\ Len(t) = Len(list) - n
      /\ \A k \in 1..(Len(list) - n) : t[k] = list[n + k]
  BY <1>1, Behind
<1>3. Len(list) \in Nat /\ n \in Nat
  BY IsSeqFacts
<1>4. \A k \in 1..(Len(list) - n) : k + 0 = k /\ n + k = k + n
  BY <1>3
<1>5. Len(list) - n = Len(list) - n + 0
  BY <1>3
<1>6. Taken(list, t, n, 0)
  BY <1>2, <1>4, <1>5 DEF Taken
<1>7. QED
  BY <1>1, <1>6

LEMMA SameInside ==
  ASSUME NEW code, NEW list, NEW leaves, NEW loops, NEW level, NEW inside,
         Ready(code, list, leaves, loops, level, inside),
         NEW ends \in 0..Len(list), AllEnds(list, ends)
  PROVE  \A k \in 1..(ends + 1) : inside[k] = loops + 1
<1>0. \A k \in 1..ends : list[k].kind = "endof"
  BY DEF AllEnds
<1>1. Len(list) \in Nat /\ inside[1] = loops + 1 /\ ends \in Nat
  BY ReadyFacts
<1> DEFINE S == {k \in 1..(ends + 1) : inside[k] # loops + 1}
<1>2. SUFFICES ASSUME S # {} PROVE FALSE
  OBVIOUS
<1>3. S \subseteq Nat
  BY <1>1
<1>4. PICK k \in S : \A m \in S : k <= m
  BY <1>2, <1>3, LeastNat
<1>5. k \in Nat /\ k # 1 /\ k \in 1..(ends + 1) /\ inside[k] # loops + 1
  BY <1>1, <1>4
<1>6. k - 1 \in 1..ends /\ k - 1 \in 1..Len(list) /\ (k - 1) + 1 = k
      /\ k - 1 \in 1..(ends + 1) /\ ~(k <= k - 1)
  BY <1>1, <1>5
<1>7. k - 1 \notin S
  BY <1>4, <1>6
<1>8. inside[k - 1] = loops + 1
  BY <1>6, <1>7
<1>9. list[k - 1].kind # "do"
  BY <1>0, <1>6
<1>10. inside[k - 1] = inside[(k - 1) + 1]
  BY <1>6, <1>9, KeptIs
<1>11. QED
  BY <1>5, <1>6, <1>8, <1>10

\* The code in which the jumps of the endofs are patched.
AtEnd(code, list, ends, v) ==
  [n \in DOMAIN code |-> IF \E k \in 1..ends : list[k].at = n THEN operand(v) ELSE code[n]]

LEMMA EndcaseBuilt ==
  ASSUME NEW code, NEW list, NEW leaves, NEW loops, NEW level, NEW inside,
         Ready(code, list, leaves, loops, level, inside),
         NEW ends \in 0..Len(list), AllEnds(list, ends),
         NEW rest, rest = SubSeq(list, ends + 1, Len(list)),
         rest # <<>>, Head(rest).kind = "case"
  PROVE  Continues(AtEnd(code, list, ends, Len(code)) \o <<>>, Tail(rest), leaves, loops)
<1>1. /\ Len(code) \in Nat /\ IsCode(code) /\ Goes(level, Len(code) + 1, loops + 1)
      /\ DOMAIN level \subseteq 1..(Len(code) + 1) /\ loops + 1 \in Nat /\ loops \in Int
      /\ IsSeq(list) /\ Len(list) \in Nat /\ inside[1] = loops + 1
      /\ DOMAIN leaves = 0..2 /\ \A x \in 0..2 : x > loops => leaves[x] = {}
  BY ReadyFacts
<1>2. PICK Q : Q = {list[k].at : k \in 1..ends}
  OBVIOUS
<1>3. PICK pc : pc = AtEnd(code, list, ends, Len(code))
  OBVIOUS
<1>4. PICK code2 : code2 = pc \o <<>>
  OBVIOUS
<1>5. ends \in Nat /\ \A k \in 1..(ends + 1) : inside[k] = loops + 1
  <2>1. ends \in Nat
    BY <1>1
  <2>2. \A k \in 1..(ends + 1) : inside[k] = loops + 1
    BY SameInside
  <2>3. QED
    BY <2>1, <2>2
<1>6. \A q \in Q : Patchable(code, level, q, loops + 1)
  <2>1. ASSUME NEW k \in 1..ends
        PROVE  Patchable(code, level, list[k].at, loops + 1)
    <3>1. k \in 1..Len(list) /\ k + 1 \in 1..(ends + 1)
      BY <1>1, <1>5
    <3>2. KeptCondition(code, level, list[k], inside[k + 1])
      BY <3>1, KeptIs
    <3>3. list[k].kind \in Hooked
      BY DEF Hooked, AllEnds
    <3>4. QED
      BY <1>5, <3>1, <3>2, <3>3 DEF KeptCondition
  <2>2. QED
    BY <1>2, <2>1
<1>7. Rewritten(code, code2, Q, Len(code)) /\ Len(code2) = Len(code)
  <2>1. pc = [n \in DOMAIN code |-> IF n \in Q THEN operand(Len(code)) ELSE code[n]]
    <3>1. \A n : n \in Q <=> \E k \in 1..ends : list[k].at = n
      BY <1>2
    <3>2. QED
      BY <1>3, <3>1 DEF AtEnd
  <2>2. \A p \in 1..Len(code) : p \in Q => code[p].handler = "operand"
    BY <1>6 DEF Patchable
  <2>3. Patched(code, pc, Q, Len(code))
    BY <1>1, <2>1, <2>2, OperandsAre
  <2>4. None(code, code2, Q, Len(code))
    BY <1>1, <1>4, <2>3, NoneAdded
  <2>5. QED
    BY <2>4 DEF None
<1>8. PICK level2 : level2 = Grown(level, {}, 0)
  OBVIOUS
<1>9. Goes(level2, Len(code) + 1, loops + 1)
  BY <1>1, <1>8, GrownFacts
<1>10. Taken(list, rest, ends, 0)
  BY <1>1, RestTaken
<1>11. /\ Taken(list, Tail(rest), ends + 1, 0) /\ list[ends + 1].kind = "case"
       /\ ends < Len(list)
  <2>1. Taken(list, Tail(rest), ends + 1, 0) /\ Head(rest) = list[ends + 1] /\ ends < Len(list)
    BY <1>1, <1>5, <1>10, Dropped, Zenon
  <2>2. QED
    BY <2>1
<1>12. "case" \notin Hooked /\ "case" # "do"
  BY DEF Hooked
<1>13. inside[(ends + 1) + 1] = loops + 1
  <2>1. ends + 1 \in 1..Len(list) /\ ends + 1 \in 1..(ends + 1)
    BY <1>1, <1>5, <1>11
  <2>2. list[ends + 1].kind # "do" => inside[ends + 1] = inside[(ends + 1) + 1]
    BY <2>1, KeptIs
  <2>3. QED
    BY <1>5, <1>11, <1>12, <2>1, <2>2
<1>14. Compiles(code, list, leaves, level, inside, code2, Tail(rest), leaves, loops, level2,
                Q, Len(code), loops + 1, {}, 0, ends + 1, 0)
  <2>1. \A p \in {Len(code) + 1} \cup {} :
          p # Len(code2) + 1
            => Sound(Len(dictionary) + 1, code2, level2, p, Open(Tail(rest), leaves))
    BY <1>7
  <2>2. loops + 1 = inside[(ends + 1) + 1] + (IF 0 = 1 /\ Tail(rest)[1].kind = "do" THEN 1 ELSE 0)
    BY <1>1, <1>13
  <2>3. \A k \in 1..(ends + 1) : list[k].kind \in Hooked => list[k].at \in Q
    <3>1. \A k \in 1..(ends + 1) : k \in 1..ends \/ k = ends + 1
      BY <1>5
    <3>2. QED
      BY <1>2, <1>11, <1>12, <3>1
  <2>4. level2[Len(code2) + 1] = loops + 1
    BY <1>7, <1>9 DEF Goes
  <2>5. 0 \in Nat /\ Len(code2) + 1 = Len(code) + 1 /\ 0 # 1
    BY <1>7
  <2>6. \A q \in Q : Patchable(code, level, q, loops + 1)
                     /\ Goes(level2, Len(code) + 1, loops + 1)
    BY <1>6, <1>9
  <2>7. QED
    BY <1>1, <1>7, <1>8, <1>11, <2>1, <2>2, <2>3, <2>4, <2>5, <2>6, Zenon DEF Compiles
<1>15. QED
  BY <1>3, <1>4, <1>14, WordTaken

-----------------------------------------------------------------------------
(* The actions of compiling.                                               *)

\* The text of ." ends where its last cell does.
Skips(value) == (value + 1) % Cell = 0

LEMMA BrokenIs ==
  ASSUME NEW word
  PROVE  Broken(word) <=> \/ word.spoiled
                          \/ \E i \in DOMAIN word.source :
                               word.source[i].word = Text /\ Skips(word.source[i].value)
BY Zenon DEF Broken, Text, Skips

LEMMA SameBuilt ==
  ASSUME dictionary' = dictionary,
         NEW code, NEW list, NEW leaves, NEW loops, NEW level, NEW inside,
         Built(code, list, leaves, loops, level, inside)
  PROVE  Built(code, list, leaves, loops, level, inside)'
<1>1. ASSUME NEW w, NEW p, NEW open, Sound(w, code, level, p, open)
      PROVE  Sound(w, code, level, p, open)'
  BY <1>1 DEF Sound
<1>2. ASSUME NEW w, NEW end, NEW open, Levels(w, code, level, end, open)
      PROVE  Levels(w, code, level, end, open)'
  BY <1>1, <1>2 DEF Levels
<1>3. Levels(Len(dictionary) + 1, code, level, Len(code) + 1, Open(list, leaves))'
  <2>1. PICK w, open : w = Len(dictionary) + 1 /\ open = Open(list, leaves)
    OBVIOUS
  <2>2. Levels(w, code, level, Len(code) + 1, open)
    BY <2>1 DEF Built
  <2>3. (Len(dictionary) + 1)' = w
    BY <2>1
  <2>4. Levels(w, code, level, Len(code) + 1, open)'
    BY <1>2, <2>2
  <2>5. QED
    BY <2>1, <2>3, <2>4
<1>4. QED
  BY <1>3 DEF Built

\* The state in which a word is compiled.
LEMMA WhileBuilding ==
  ASSUME CompileOk, mode = "compile"
  PROVE  /\ IsWord(new) /\ IsCode(new.code) /\ Len(new.code) \in Nat
         /\ IsSeq(conditions)
         /\ ~Broken(new) =>
              \E level, inside :
                Ready(new.code, conditions, leave_words, do_index2, level, inside)
<1>1. /\ IsWord(new) /\ IsSeq(conditions)
      /\ ~Broken(new) =>
           /\ do_index2 \in -1..2 /\ leave_words \in [0..2 -> SUBSET Int]
           /\ \E level, inside :
                Built(new.code, conditions, leave_words, do_index2, level, inside)
  BY DEF CompileOk
<1>2. IsCode(new.code)
  BY <1>1 DEF IsWord
<1>3. Len(new.code) \in Nat
  BY <1>2, DomainIs
<1>4. QED
  BY <1>1, <1>2, <1>3 DEF Ready

\* What is compiled can be compiled further.
Carries(word, value, code2) ==
  \A level, inside :
    /\ Ready(new.code, conditions, leave_words, do_index2, level, inside)
    /\ word = Text => ~Skips(value)
    => /\ Continues(code2, conditions', leave_words', do_index2')
       /\ do_index2' \in -1..2 /\ leave_words' \in [0..2 -> SUBSET Int]

Emitting(word, value, code, cells) ==
  /\ mode = "compile" /\ mode' = mode /\ dictionary' = dictionary
  /\ Emit(word, value, code, cells) /\ IsCode(code \o cells)
  /\ IsSeq(conditions')
  /\ Carries(word, value, code \o cells)

LEMMA Emitted ==
  ASSUME CompileOk, NEW word, NEW value, NEW code, NEW cells,
         Emitting(word, value, code, cells)
  PROVE  CompileOk'
<1>1. /\ mode = "compile" /\ mode' = mode /\ dictionary' = dictionary
      /\ Emit(word, value, code, cells) /\ IsCode(code \o cells)
      /\ IsSeq(conditions')
      /\ Carries(word, value, code \o cells)
  BY DEF Emitting
<1>2. PICK c, list, leaves, loops :
        c = code \o cells /\ list = conditions' /\ leaves = leave_words' /\ loops = do_index2'
  OBVIOUS
<1>3. PICK w : w = new
  OBVIOUS
<1>4. PICK e : e = [word |-> word, value |-> value]
  OBVIOUS
<1>5. /\ w = [name |-> w.name, code |-> w.code, source |-> w.source,
              first |-> w.first, spoiled |-> w.spoiled]
      /\ IsSeq(w.source) /\ IsSeq(w.first)
      /\ Len(w.code) \in Nat
  BY <1>1, <1>3, WhileBuilding DEF IsWord
<1>6. PICK w2 : w2 = [name |-> w.name, code |-> c, source |-> Append(w.source, e),
                      first |-> Append(w.first, Len(w.code) + 1), spoiled |-> w.spoiled]
  OBVIOUS
<1>7. new' = w2
  <2>1. new' = [w EXCEPT !.code = c, !.source = Append(@, e),
                         !.first = Append(@, Len(w.code) + 1)]
    BY <1>1, <1>2, <1>3, <1>4 DEF Emit, Here
  <2>2. PICK a, b, d, f, g : /\ a = w.name /\ b = w.code /\ d = w.source
                             /\ f = w.first /\ g = w.spoiled
    OBVIOUS
  <2>3. w = [name |-> a, code |-> b, source |-> d, first |-> f, spoiled |-> g]
    BY <1>5, <2>2
  <2>4. PICK x, y : x = Append(d, e) /\ y = Append(f, Len(w.code) + 1)
    OBVIOUS
  <2>5. w2 = [name |-> a, code |-> c, source |-> x, first |-> y, spoiled |-> g]
    BY <1>6, <2>2, <2>4
  <2>6. new' = [w EXCEPT !.code = c, !.source = x, !.first = y]
    BY <2>1, <2>2, <2>4
  <2>7. PICK w3 : w3 = [w EXCEPT !.code = c]
    OBVIOUS
  <2>12. PICK w4 : w4 = [w3 EXCEPT !.source = x]
    OBVIOUS
  <2>8. w3 = [name |-> a, code |-> c, source |-> d, first |-> f, spoiled |-> g]
    BY <2>3, <2>7
  <2>9. w4 = [name |-> a, code |-> c, source |-> x, first |-> f, spoiled |-> g]
    BY <2>8, <2>12
  <2>10. [w4 EXCEPT !.first = y] = w2
    BY <2>5, <2>9
  <2>11. QED
    BY <2>6, <2>7, <2>10, <2>12
<1>8. IsWord(w2)
  <2>2. IsSeq(Append(w.source, e))
    BY <1>5, Added
  <2>3. IsSeq(Append(w.first, Len(w.code) + 1))
    BY <1>5, Added
  <2>4. /\ w2.name = w.name /\ w2.code = c /\ w2.source = Append(w.source, e)
        /\ w2.first = Append(w.first, Len(w.code) + 1) /\ w2.spoiled = w.spoiled
    BY <1>6
  <2>5. IsCode(w2.code)
    BY <1>1, <1>2, <2>4
  <2>6. QED
    BY <1>6, <2>2, <2>3, <2>4, <2>5 DEF IsWord
<1>9. ASSUME ~Broken(w2)
      PROVE  ~Broken(new) /\ (word = Text => ~Skips(value))
  <2>1. w2.spoiled = w.spoiled /\ w2.source = Append(w.source, e) /\ Len(w.source) \in Nat
        /\ DOMAIN w.source = 1..Len(w.source)
    BY <1>5, <1>6, IsSeqFacts
  <2>2. /\ IsSeq(w2.source) /\ Len(w2.source) = Len(w.source) + 1
        /\ \A i \in 1..Len(w.source) : w2.source[i] = w.source[i]
        /\ w2.source[Len(w.source) + 1] = e
    BY <1>5, <2>1, Added
  <2>9. DOMAIN w2.source = 1..(Len(w.source) + 1)
    BY <2>2, IsSeqFacts
  <2>3. \A i \in DOMAIN w.source : i \in DOMAIN w2.source /\ w2.source[i] = w.source[i]
    BY <2>1, <2>2, <2>9
  <2>4. Len(w.source) + 1 \in DOMAIN w2.source /\ w2.source[Len(w.source) + 1] = e
    BY <2>1, <2>2, <2>9
  <2>5. /\ ~w2.spoiled
        /\ \A i \in DOMAIN w2.source :
             ~(w2.source[i].word = Text /\ Skips(w2.source[i].value))
    BY <1>9, BrokenIs
  <2>6. ~Broken(w)
    BY <2>1, <2>3, <2>5, BrokenIs
  <2>7. e.word = word /\ e.value = value
    BY <1>4
  <2>8. QED
    BY <1>3, <2>4, <2>5, <2>6, <2>7
<1>10. ASSUME ~Broken(w2)
       PROVE  /\ loops \in -1..2 /\ leaves \in [0..2 -> SUBSET Int]
              /\ \E level, inside : Built(c, list, leaves, loops, level, inside)'
  <2>1. PICK level, inside :
          Ready(new.code, conditions, leave_words, do_index2, level, inside)
    BY <1>1, <1>9, <1>10, WhileBuilding
  <2>2. /\ Continues(c, list, leaves, loops)
        /\ loops \in -1..2 /\ leaves \in [0..2 -> SUBSET Int]
    BY <1>1, <1>2, <1>9, <1>10, <2>1 DEF Carries
  <2>3. PICK level2, inside2 : Built(c, list, leaves, loops, level2, inside2)
    BY <2>2 DEF Continues
  <2>4. Built(c, list, leaves, loops, level2, inside2)'
    BY <1>1, <2>3, SameBuilt
  <2>5. QED
    BY <2>2, <2>4
<1>11. IsWord(new)'
  BY <1>7, <1>8 DEF IsWord, IsCode, IsSeq
<1>12. Broken(new)' <=> Broken(w2)
  BY <1>7, Zenon DEF Broken
<1>13. w2.code = c
  BY <1>6
<1>14. (~Broken(new) =>
          /\ do_index2 \in -1..2 /\ leave_words \in [0..2 -> SUBSET Int]
          /\ \E level, inside :
               Built(new.code, conditions, leave_words, do_index2, level, inside))'
  BY <1>2, <1>7, <1>10, <1>12, <1>13
<1>15. QED
  BY <1>1, <1>11, <1>14 DEF CompileOk

Refusing(code, rest) ==
  /\ mode = "compile" /\ mode' = mode /\ dictionary' = dictionary
  /\ Refuse(code, rest) /\ IsCode(code) /\ IsSeq(rest)
  /\ rest = conditions => code = new.code

\* A word that is refused spoils the definition, or changes nothing of it.
LEMMA Refused ==
  ASSUME CompileOk, NEW code, NEW rest, Refusing(code, rest)
  PROVE  CompileOk'
<1>1. /\ mode = "compile" /\ mode' = mode /\ dictionary' = dictionary
      /\ Refuse(code, rest) /\ IsCode(code) /\ IsSeq(rest)
      /\ rest = conditions => code = new.code
  BY DEF Refusing
<1>2. /\ conditions' = rest /\ do_index2' = do_index2 /\ leave_words' = leave_words
      /\ new' = [new EXCEPT !.code = code, !.spoiled = @ \/ rest # conditions]
  BY <1>1 DEF Refuse
<1>3. PICK w : w = new
  OBVIOUS
<1>4. /\ w = [name |-> w.name, code |-> w.code, source |-> w.source,
              first |-> w.first, spoiled |-> w.spoiled]
      /\ IsSeq(w.source) /\ IsSeq(w.first)
  BY <1>1, <1>3, WhileBuilding DEF IsWord
<1>5. PICK g : g = (w.spoiled \/ rest # conditions)
  OBVIOUS
<1>6. PICK w2 : w2 = [name |-> w.name, code |-> code, source |-> w.source,
                      first |-> w.first, spoiled |-> g]
  OBVIOUS
<1>7. new' = w2
  <2>1. PICK a, b, d, f, h : /\ a = w.name /\ b = w.code /\ d = w.source
                             /\ f = w.first /\ h = w.spoiled
    OBVIOUS
  <2>2. w = [name |-> a, code |-> b, source |-> d, first |-> f, spoiled |-> h]
    BY <1>4, <2>1
  <2>3. PICK w3 : w3 = [w EXCEPT !.code = code]
    OBVIOUS
  <2>4. w3 = [name |-> a, code |-> code, source |-> d, first |-> f, spoiled |-> h]
    BY <2>2, <2>3
  <2>5. [w3 EXCEPT !.spoiled = g] = [name |-> a, code |-> code, source |-> d, first |-> f, spoiled |-> g]
    BY <2>4
  <2>6. new' = [w3 EXCEPT !.spoiled = w.spoiled \/ rest # conditions]
    <3>1. w3.spoiled = w.spoiled
      BY <2>3
    <3>2. QED
      BY <1>2, <1>3, <2>3, <3>1, Zenon
  <2>7. QED
    BY <1>5, <1>6, <2>1, <2>5, <2>6
<1>8. w2.source = w.source /\ w2.first = w.first /\ w2.code = code /\ w2.spoiled = g
  BY <1>6
<1>9. IsWord(w2)
  BY <1>1, <1>4, <1>6, <1>8 DEF IsWord
<1>10. IsWord(new)'
  BY <1>7, <1>9 DEF IsWord, IsCode, IsSeq
<1>11. Broken(new)' <=> Broken(w2)
  BY <1>7, Zenon DEF Broken
<1>12. ASSUME ~Broken(w2)
       PROVE  ~Broken(new) /\ rest = conditions
  <2>1. ~g
    BY <1>8, <1>12, BrokenIs
  <2>2. ~w.spoiled /\ rest = conditions
    BY <1>5, <2>1
  <2>3. ~Broken(w)
    BY <1>8, <1>12, <2>2, BrokenIs
  <2>4. QED
    BY <1>3, <2>2, <2>3
<1>13. ASSUME ~Broken(w2)
       PROVE  /\ do_index2 \in -1..2 /\ leave_words \in [0..2 -> SUBSET Int]
              /\ \E level, inside :
                   Built(w2.code, rest, leave_words, do_index2, level, inside)'
  <2>1. PICK list, leaves, loops : list = conditions /\ leaves = leave_words /\ loops = do_index2
    OBVIOUS
  <2>2. code = new.code /\ rest = list
    BY <1>1, <1>12, <1>13, <2>1
  <2>3. PICK level, inside : Built(code, list, leaves, loops, level, inside)
    BY <1>1, <1>12, <1>13, <2>1, <2>2 DEF CompileOk
  <2>4. Built(code, list, leaves, loops, level, inside)'
    BY <1>1, <2>3, SameBuilt
  <2>5. do_index2 \in -1..2 /\ leave_words \in [0..2 -> SUBSET Int]
    BY <1>1, <1>12, <1>13 DEF CompileOk
  <2>6. QED
    BY <1>2, <1>8, <2>1, <2>2, <2>4, <2>5
<1>14. (~Broken(new) =>
          /\ do_index2 \in -1..2 /\ leave_words \in [0..2 -> SUBSET Int]
          /\ \E level, inside :
               Built(new.code, conditions, leave_words, do_index2, level, inside))'
  BY <1>2, <1>7, <1>11, <1>13
<1>15. QED
  BY <1>1, <1>2, <1>10, <1>14, WhileBuilding DEF CompileOk

LEMMA StillCode ==
  ASSUME NEW pc, IsCode(pc)
  PROVE  /\ IsCode(pc \o <<>>)
         /\ \A a : IsCell(a) => IsCode(pc \o <<a>>)
         /\ \A a, b : IsCell(a) /\ IsCell(b) => IsCode(pc \o <<a, b>>)
         /\ \A a, b, d : IsCell(a) /\ IsCell(b) /\ IsCell(d) => IsCode(pc \o <<a, b, d>>)
<1>1. Patched(pc, pc, {}, 0)
  BY Unchanged
<1>2. IsCode(pc \o <<>>)
  BY <1>1, NoneAdded DEF None, Rewritten
<1>3. \A a : IsCell(a) => IsCode(pc \o <<a>>)
  BY <1>1, OneAdded DEF OneMore, Rewritten
<1>4. \A a, b : IsCell(a) /\ IsCell(b) => IsCode(pc \o <<a, b>>)
  BY <1>1, TwoAdded DEF TwoMore, Rewritten
<1>5. \A a, b, d : IsCell(a) /\ IsCell(b) /\ IsCell(d) => IsCode(pc \o <<a, b, d>>)
  BY <1>1, ThreeAdded DEF ThreeMore, Rewritten
<1>6. QED
  BY <1>2, <1>3, <1>4, <1>5

\* Words that change nothing but the definition.
LEMMA EmittedPlain ==
  ASSUME CompileOk, NEW word, NEW value, NEW cells,
         mode = "compile", UNCHANGED <<mode, dictionary, conditions, do_index2, leave_words>>,
         Emit(word, value, new.code, cells), IsCode(new.code \o cells),
         \A level, inside :
           /\ Ready(new.code, conditions, leave_words, do_index2, level, inside)
           /\ word = Text => ~Skips(value)
           => Continues(new.code \o cells, conditions, leave_words, do_index2)
  PROVE  CompileOk'
<1>1. IsSeq(conditions)
  BY WhileBuilding
<1>2. Carries(word, value, new.code \o cells)
  BY DEF Carries, Ready
<1>3. PICK code : code = new.code
  OBVIOUS
<1>4. Emitting(word, value, code, cells)
  BY <1>1, <1>2, <1>3 DEF Emitting
<1>5. QED
  BY <1>4, Emitted

LEMMA PlainCompiled ==
  ASSUME CompileOk,
         \/ \E n \in Numbers : CompileNumber(n)
         \/ \E word \in Plain : CompilePlain(word)
         \/ \E length \in Texts : CompileText(length)
  PROVE  CompileOk'
<1>1. /\ mode = "compile"
      /\ UNCHANGED <<mode, dictionary, conditions, do_index2, leave_words>>
  BY Zenon DEF CompileNumber, CompilePlain, CompileText, WhileCompilingPlain, Compiling,
               WhileCompiling
<1>2. IsCode(new.code)
  BY <1>1, WhileBuilding
<1>3. ASSUME NEW n \in Numbers, CompileNumber(n)
      PROVE  CompileOk'
  <2>1. Emit("lit", n, new.code, <<cell("lit"), operand(n)>>)
    BY <1>3 DEF CompileNumber
  <2>3. IsCode(new.code \o <<cell("lit"), operand(n)>>)
    BY <1>2, StillCode, CellsAre
  <2>4. ASSUME NEW level, NEW inside,
               Ready(new.code, conditions, leave_words, do_index2, level, inside)
        PROVE  Continues(new.code \o <<cell("lit"), operand(n)>>, conditions, leave_words,
                         do_index2)
    BY <2>4, NumberBuilt
  <2>5. QED
    BY <1>1, <2>1, <2>3, <2>4, EmittedPlain
<1>4. ASSUME NEW word \in Plain, CompilePlain(word)
      PROVE  CompileOk'
  <2>1. Emit(word, 0, new.code, <<cell(word)>>)
    BY <1>4 DEF CompilePlain
  <2>2. word \in StackWords \cup {"i", "j", "k", "exit", "unloop"}
    BY ForthAssumption
  <2>3. IsCode(new.code \o <<cell(word)>>)
    BY <1>2, StillCode, CellsAre
  <2>4. ASSUME NEW level, NEW inside,
               Ready(new.code, conditions, leave_words, do_index2, level, inside)
        PROVE  Continues(new.code \o <<cell(word)>>, conditions, leave_words, do_index2)
    BY <2>2, <2>4, PlainBuilt
  <2>5. QED
    BY <1>1, <2>1, <2>2, <2>3, <2>4, EmittedPlain
<1>5. ASSUME NEW length \in Texts, CompileText(length)
      PROVE  CompileOk'
  <2>1. PICK rest : rest = RestOfText(length)
    OBVIOUS
  <2>2. PICK cells : cells = <<[handler |-> Text, value |-> length]>> \o rest
    OBVIOUS
  <2>3. Emit(Text, length, new.code, cells)
    BY <1>5, <2>1, <2>2, Zenon DEF CompileText, Text, RestOfText
  <2>4. length \in Nat
    BY ForthAssumption
  <2>5. IsCode(cells) /\ (~Skips(length) => TextIs(cells, length))
    BY <2>1, <2>2, <2>4, TextCellsAre, Zenon DEF Skips
  <2>6. IsCode(new.code \o cells)
    BY <1>2, <2>5, CellsAdded DEF With
  <2>7. ASSUME NEW level, NEW inside,
               Ready(new.code, conditions, leave_words, do_index2, level, inside),
               Text = Text => ~Skips(length)
        PROVE  Continues(new.code \o cells, conditions, leave_words, do_index2)
    BY <2>5, <2>7, TextBuilt
  <2>9. QED
    BY <1>1, <2>3, <2>4, <2>6, <2>7, EmittedPlain
<1>6. QED
  BY <1>3, <1>4, <1>5

LEMMA CallCompiled ==
  ASSUME CompileOk, DictionaryOk, mode = "compile",
         UNCHANGED <<mode, dictionary, conditions, do_index2, leave_words>>,
         NEW w \in DOMAIN dictionary,
         Emit("call", w, new.code, <<cell("call"), operand(w)>>)
  PROVE  CompileOk'
<1>1. IsCode(new.code)
  BY WhileBuilding
<1>2. Len(dictionary) \in Nat /\ w \in 1..Len(dictionary)
  BY IsSeqFacts DEF DictionaryOk
<1>3. IsCode(new.code \o <<cell("call"), operand(w)>>)
  BY <1>1, StillCode, CellsAre
<1>4. ASSUME NEW level, NEW inside,
             Ready(new.code, conditions, leave_words, do_index2, level, inside)
      PROVE  Continues(new.code \o <<cell("call"), operand(w)>>, conditions, leave_words,
                       do_index2)
  BY <1>2, <1>4, CallBuilt
<1>5. QED
  BY <1>3, <1>4, EmittedPlain

\* Words that change nothing else but the conditions.
LEMMA EmittedMore ==
  ASSUME CompileOk, NEW word, NEW value, NEW pc, NEW cells,
         mode = "compile", UNCHANGED <<mode, dictionary, do_index2, leave_words>>,
         Emit(word, value, pc, cells), IsCode(pc \o cells),
         NEW list2, IsSeq(list2), conditions' = list2,
         \A level, inside :
           Ready(new.code, conditions, leave_words, do_index2, level, inside)
           => Continues(pc \o cells, list2, leave_words, do_index2)
  PROVE  CompileOk'
<1>1. Carries(word, value, pc \o cells)
  BY DEF Carries, Ready
<1>2. Emitting(word, value, pc, cells)
  BY <1>1 DEF Emitting
<1>3. QED
  BY <1>2, Emitted

LEMMA HereIs ==
  ASSUME Len(new.code) \in Nat
  PROVE  /\ Here = Len(new.code) + 1 /\ Here + 1 = Len(new.code) + 2
         /\ Here + 2 = Len(new.code) + 3 /\ Here - 1 = Len(new.code)
BY DEF Here

LEMMA ForwardCompiled ==
  ASSUME CompileOk, mode = "compile", UNCHANGED <<mode, dictionary>>,
         NEW word \in {"if", "while", "of", "rangeof"}, NEW kind \in {"if", "while", "of"},
         Forward(word, kind)
  PROVE  CompileOk'
<1>1. /\ IsCode(new.code) /\ Len(new.code) \in Nat /\ IsSeq(conditions)
  BY WhileBuilding
<1>2. PICK list2 : list2 = <<[kind |-> kind, at |-> Len(new.code) + 2]>> \o conditions
  OBVIOUS
<1>3. /\ Emit(word, 0, new.code, <<cell(word), operand(Unpatched)>>)
      /\ conditions' = list2 /\ UNCHANGED <<do_index2, leave_words>>
  BY <1>1, <1>2, HereIs DEF Forward, PushCondition
<1>4. IsCode(new.code \o <<cell(word), operand(Unpatched)>>)
  BY <1>1, StillCode, CellsAre
<1>5. IsSeq(list2)
  BY <1>1, <1>2, OnTop
<1>6. ASSUME NEW level, NEW inside,
             Ready(new.code, conditions, leave_words, do_index2, level, inside)
      PROVE  Continues(new.code \o <<cell(word), operand(Unpatched)>>, list2, leave_words,
                       do_index2)
  BY <1>2, <1>6, ForwardBuilt
<1>7. QED
  BY <1>3, <1>4, <1>5, <1>6, EmittedMore

LEMMA MarkCompiled ==
  ASSUME CompileOk, mode = "compile", UNCHANGED <<mode, dictionary>>,
         NEW word \in {"begin", "case"}, Mark(word)
  PROVE  CompileOk'
<1>1. /\ IsCode(new.code) /\ Len(new.code) \in Nat /\ IsSeq(conditions)
  BY WhileBuilding
<1>2. PICK list2 : list2 = <<[kind |-> word, at |-> Len(new.code) + 1]>> \o conditions
  OBVIOUS
<1>3. /\ Emit(word, 0, new.code, <<>>)
      /\ conditions' = list2 /\ UNCHANGED <<do_index2, leave_words>>
  BY <1>1, <1>2, HereIs DEF Mark, PushCondition
<1>4. IsCode(new.code \o <<>>)
  BY <1>1, StillCode
<1>5. IsSeq(list2)
  BY <1>1, <1>2, OnTop
<1>6. ASSUME NEW level, NEW inside,
             Ready(new.code, conditions, leave_words, do_index2, level, inside)
      PROVE  Continues(new.code \o <<>>, list2, leave_words, do_index2)
  BY <1>2, <1>6, MarkBuilt
<1>7. QED
  BY <1>3, <1>4, <1>5, <1>6, EmittedMore

LEMMA DoCompiled ==
  ASSUME CompileOk, mode = "compile", UNCHANGED <<mode, dictionary>>, Do
  PROVE  CompileOk'
<1>1. /\ IsCode(new.code) /\ Len(new.code) \in Nat /\ IsSeq(conditions)
  BY WhileBuilding
<1>2. PICK list2 : list2 = <<[kind |-> "do", at |-> Len(new.code) + 3]>> \o conditions
  OBVIOUS
<1>3. PICK cells : cells = <<cell("do"), cell("do2"), operand(Unpatched)>>
  OBVIOUS
<1>4. /\ Emit("do", 0, new.code, cells) /\ conditions' = list2
      /\ do_index2 < 2 /\ do_index2' = do_index2 + 1 /\ leave_words' = leave_words
  BY <1>1, <1>2, <1>3, HereIs DEF Do, PushCondition
<1>5. IsCode(new.code \o cells)
  BY <1>1, <1>3, StillCode, CellsAre
<1>6. IsSeq(list2)
  BY <1>1, <1>2, OnTop
<1>7. ASSUME NEW level, NEW inside,
             Ready(new.code, conditions, leave_words, do_index2, level, inside)
      PROVE  Continues(new.code \o cells, list2, leave_words, do_index2 + 1)
  BY <1>2, <1>3, <1>4, <1>7, DoBuilt
<1>8. Carries("do", 0, new.code \o cells)
  <2>1. ASSUME NEW level, NEW inside,
               Ready(new.code, conditions, leave_words, do_index2, level, inside)
        PROVE  do_index2' \in -1..2 /\ leave_words' \in [0..2 -> SUBSET Int]
    BY <1>4, <2>1 DEF Ready
  <2>2. QED
    BY <1>4, <1>7, <2>1 DEF Carries
<1>9. PICK code : code = new.code
  OBVIOUS
<1>10. Emitting("do", 0, code, cells)
  BY <1>1, <1>4, <1>5, <1>6, <1>8, <1>9 DEF Emitting
<1>11. QED
  BY <1>10, Emitted

LEMMA PoppedIs ==
  ASSUME NEW list, IsSeq(list)
  PROVE  IsSeq(Popped(list)) /\ (Popped(list) = list => list = <<>>)
<1>1. CASE list = <<>>
  BY <1>1 DEF Popped
<1>2. CASE list # <<>>
  <2>1. Popped(list) = Tail(list)
    BY <1>2 DEF Popped
  <2>2. IsSeq(Tail(list)) /\ Len(Tail(list)) = Len(list) - 1 /\ Len(list) \in Nat
    BY <1>2, RestIs, IsSeqFacts
  <2>3. Tail(list) # list
    BY <2>2
  <2>4. QED
    BY <2>1, <2>2, <2>3
<1>3. QED
  BY <1>1, <1>2

\* A word that finds the wrong condition.
LEMMA PoppedRefused ==
  ASSUME CompileOk, mode = "compile", UNCHANGED <<mode, dictionary>>,
         Refuse(new.code, Popped(conditions))
  PROVE  CompileOk'
<1>1. IsCode(new.code) /\ IsSeq(conditions)
  BY WhileBuilding
<1>2. IsSeq(Popped(conditions))
  BY <1>1, PoppedIs
<1>3. PICK code, rest : code = new.code /\ rest = Popped(conditions)
  OBVIOUS
<1>4. Refusing(code, rest)
  BY <1>1, <1>2, <1>3 DEF Refusing
<1>5. QED
  BY <1>4, Refused

LEMMA MiddleCompiled ==
  ASSUME CompileOk, mode = "compile", UNCHANGED <<mode, dictionary>>,
         NEW word \in {"else", "endof"}, NEW kind \in {"if", "of"},
         NEW next \in {"if", "endof"}, Middle(word, kind, next)
  PROVE  CompileOk'
<1>1. /\ IsCode(new.code) /\ Len(new.code) \in Nat /\ IsSeq(conditions)
  BY WhileBuilding
<1>2. CASE ~Resolvable(kind, conditions)
  BY <1>2, PoppedRefused DEF Middle
<1>3. CASE Resolvable(kind, conditions)
  <2>1. conditions # <<>> /\ Head(conditions).kind = kind
    BY <1>3 DEF Resolvable
  <2>2. PICK list2 : list2 = <<[kind |-> next, at |-> Len(new.code) + 2]>> \o Tail(conditions)
    OBVIOUS
  <2>3. PICK pc : pc = Patch(new.code, Head(conditions).at, Len(new.code) + 2)
    OBVIOUS
  <2>4. /\ Emit(word, 0, pc, <<cell(word), operand(Unpatched)>>)
        /\ conditions' = list2 /\ UNCHANGED <<do_index2, leave_words>>
    BY <1>1, <1>3, <2>2, <2>3, HereIs DEF Middle, PushCondition, pcond
  <2>5. IsCode(pc \o <<cell(word), operand(Unpatched)>>)
    <3>1. IsCode(pc)
      BY <1>1, <2>3, PatchIs DEF Patched
    <3>2. QED
      BY <3>1, StillCode, CellsAre
  <2>6. IsSeq(list2)
    BY <1>1, <2>1, <2>2, RestIs, OnTop
  <2>7. ASSUME NEW level, NEW inside,
               Ready(new.code, conditions, leave_words, do_index2, level, inside)
        PROVE  Continues(pc \o <<cell(word), operand(Unpatched)>>, list2, leave_words,
                         do_index2)
    BY <2>1, <2>2, <2>3, <2>7, MiddleBuilt
  <2>8. QED
    BY <2>4, <2>5, <2>6, <2>7, EmittedMore
<1>4. QED
  BY <1>2, <1>3

LEMMA ThenCompiled ==
  ASSUME CompileOk, mode = "compile", UNCHANGED <<mode, dictionary>>, Then
  PROVE  CompileOk'
<1>1. /\ IsCode(new.code) /\ Len(new.code) \in Nat /\ IsSeq(conditions)
  BY WhileBuilding
<1>2. CASE ~Resolvable("if", conditions)
  BY <1>2, PoppedRefused DEF Then
<1>3. CASE Resolvable("if", conditions)
  <2>1. conditions # <<>> /\ Head(conditions).kind = "if"
    BY <1>3 DEF Resolvable
  <2>2. PICK list2 : list2 = Tail(conditions)
    OBVIOUS
  <2>3. PICK pc : pc = Patch(new.code, Head(conditions).at, Len(new.code))
    OBVIOUS
  <2>4. /\ Emit("then", 0, pc, <<>>)
        /\ conditions' = list2 /\ UNCHANGED <<do_index2, leave_words>>
    BY <1>1, <1>3, <2>2, <2>3, HereIs DEF Then, ThenAt, pcond
  <2>5. IsCode(pc \o <<>>)
    <3>1. IsCode(pc)
      BY <1>1, <2>3, PatchIs DEF Patched
    <3>2. QED
      BY <3>1, StillCode
  <2>6. IsSeq(list2)
    BY <1>1, <2>1, <2>2, RestIs
  <2>7. ASSUME NEW level, NEW inside,
               Ready(new.code, conditions, leave_words, do_index2, level, inside)
        PROVE  Continues(pc \o <<>>, list2, leave_words, do_index2)
    BY <2>1, <2>2, <2>3, <2>7, ThenBuilt
  <2>8. QED
    BY <2>4, <2>5, <2>6, <2>7, EmittedMore
<1>4. QED
  BY <1>2, <1>3

LEMMA BackCompiled ==
  ASSUME CompileOk, mode = "compile", UNCHANGED <<mode, dictionary>>,
         NEW word \in {"until", "again"}, Back(word)
  PROVE  CompileOk'
<1>1. /\ IsCode(new.code) /\ Len(new.code) \in Nat /\ IsSeq(conditions)
  BY WhileBuilding
<1>2. CASE ~Resolvable("begin", conditions)
  BY <1>2, PoppedRefused DEF Back
<1>3. CASE Resolvable("begin", conditions)
  <2>1. conditions # <<>> /\ Head(conditions).kind = "begin"
    BY <1>3 DEF Resolvable
  <2>2. PICK list2 : list2 = Tail(conditions)
    OBVIOUS
  <2>3. PICK cells : cells = <<cell(word), operand(Head(conditions).at - 1)>>
    OBVIOUS
  <2>4. /\ Emit(word, 0, new.code, cells)
        /\ conditions' = list2 /\ UNCHANGED <<do_index2, leave_words>>
    BY <1>3, <2>2, <2>3 DEF Back, pcond
  <2>5. IsCode(new.code \o cells)
    BY <1>1, <2>3, StillCode, CellsAre
  <2>6. IsSeq(list2)
    BY <1>1, <2>1, <2>2, RestIs
  <2>7. ASSUME NEW level, NEW inside,
               Ready(new.code, conditions, leave_words, do_index2, level, inside)
        PROVE  Continues(new.code \o cells, list2, leave_words, do_index2)
    BY <2>1, <2>2, <2>3, <2>7, BackBuilt
  <2>8. QED
    BY <2>4, <2>5, <2>6, <2>7, EmittedMore
<1>4. QED
  BY <1>2, <1>3

LEMMA RepeatCompiled ==
  ASSUME CompileOk, mode = "compile", UNCHANGED <<mode, dictionary>>, Repeat
  PROVE  CompileOk'
<1>1. /\ IsCode(new.code) /\ Len(new.code) \in Nat /\ IsSeq(conditions)
  BY WhileBuilding
<1>2. CASE ~Resolvable("while", conditions)
  BY <1>2, PoppedRefused DEF Repeat
<1>3. CASE Resolvable("while", conditions)
  <2>1. conditions # <<>> /\ Head(conditions).kind = "while"
    BY <1>3 DEF Resolvable
  <2>2. PICK rest : rest = Tail(conditions)
    OBVIOUS
  <2>3. PICK pc : pc = Patch(new.code, Head(conditions).at, Len(new.code) + 2)
    OBVIOUS
  <2>4. /\ IsSeq(rest) /\ Len(rest) < Len(conditions) /\ IsCode(pc)
    <3>1. IsSeq(rest) /\ Len(rest) = Len(conditions) - 1 /\ Len(conditions) \in Nat
      BY <1>1, <2>1, <2>2, RestIs, IsSeqFacts
    <3>2. QED
      BY <1>1, <2>3, <3>1, PatchIs DEF Patched
  <2>5. IF Resolvable("begin", rest)
        THEN /\ Emit("repeat", 0, pc, <<cell("repeat"), operand(Head(rest).at - 1)>>)
             /\ conditions' = Tail(rest) /\ UNCHANGED <<do_index2, leave_words>>
        ELSE Refuse(pc, Popped(rest))
    BY <1>1, <1>3, <2>2, <2>3, HereIs DEF Repeat, pcond
  <2>6. CASE ~Resolvable("begin", rest)
    <3>1. IsSeq(Popped(rest)) /\ Popped(rest) # conditions
      <4>1. rest = <<>> => Popped(rest) = <<>>
        BY DEF Popped
      <4>2. rest # <<>> => Len(Popped(rest)) = Len(rest) - 1 /\ Len(rest) \in Nat
        BY <2>4, RestIs, IsSeqFacts DEF Popped
      <4>3. Len(conditions) \in Nat /\ IsSeq(Popped(rest))
        BY <1>1, <2>4, IsSeqFacts, PoppedIs
      <4>4. rest # <<>> => Popped(rest) # conditions
        BY <2>4, <4>2, <4>3
      <4>5. QED
        BY <2>1, <4>1, <4>3, <4>4
    <3>2. PICK rest2 : rest2 = Popped(rest)
      OBVIOUS
    <3>3. Refusing(pc, rest2)
      BY <2>4, <2>5, <2>6, <3>1, <3>2 DEF Refusing
    <3>4. QED
      BY <3>3, Refused
  <2>7. CASE Resolvable("begin", rest)
    <3>1. rest # <<>> /\ Head(rest).kind = "begin"
      BY <2>7 DEF Resolvable
    <3>2. PICK list2 : list2 = Tail(rest)
      OBVIOUS
    <3>3. PICK cells : cells = <<cell("repeat"), operand(Head(rest).at - 1)>>
      OBVIOUS
    <3>4. IsCode(pc \o cells)
      BY <2>4, <3>3, StillCode, CellsAre
    <3>5. IsSeq(list2)
      BY <2>4, <3>1, <3>2, RestIs
    <3>6. ASSUME NEW level, NEW inside,
                 Ready(new.code, conditions, leave_words, do_index2, level, inside)
          PROVE  Continues(pc \o cells, list2, leave_words, do_index2)
      BY <2>1, <2>2, <2>3, <3>1, <3>2, <3>3, <3>6, RepeatBuilt
    <3>7. /\ Emit("repeat", 0, pc, cells) /\ conditions' = list2
          /\ UNCHANGED <<do_index2, leave_words>>
      BY <2>5, <2>7, <3>2, <3>3
    <3>8. QED
      BY <3>4, <3>5, <3>6, <3>7, EmittedMore
  <2>8. QED
    BY <2>6, <2>7
<1>4. QED
  BY <1>2, <1>3

LEMMA LoopCompiled ==
  ASSUME CompileOk, mode = "compile", UNCHANGED <<mode, dictionary>>,
         NEW word \in {"loop", "+loop"}, Loop(word)
  PROVE  CompileOk'
<1>1. /\ IsCode(new.code) /\ Len(new.code) \in Nat /\ IsSeq(conditions)
  BY WhileBuilding
<1>2. CASE ~Resolvable("do", conditions)
  BY <1>2, PoppedRefused DEF Loop
<1>3. CASE Resolvable("do", conditions)
  <2>1. conditions # <<>> /\ Head(conditions).kind = "do"
    BY <1>3 DEF Resolvable
  <2>2. PICK list2 : list2 = Tail(conditions)
    OBVIOUS
  <2>3. PICK pc : pc = Patch(new.code, Head(conditions).at, Len(new.code) + 2)
    OBVIOUS
  <2>4. PICK pc2 : pc2 = Rewired(pc, leave_words[do_index2], Len(new.code) + 2)
    OBVIOUS
  <2>5. PICK cells : cells = <<cell(word), operand(Head(conditions).at - 2)>>
    OBVIOUS
  <2>6. PICK leaves2, loops2 : /\ leaves2 = [leave_words EXCEPT ![do_index2] = {}]
                               /\ loops2 = do_index2 - 1
    OBVIOUS
  <2>7. /\ Emit(word, 0, pc2, cells)
        /\ conditions' = list2 /\ leave_words' = leaves2 /\ do_index2' = loops2
    BY <1>1, <1>3, <2>2, <2>3, <2>4, <2>5, <2>6, HereIs DEF Loop, DoAgain, pcond, Rewired
  <2>8. IsCode(pc2 \o cells)
    <3>1. IsCode(pc) /\ DOMAIN pc = 1..Len(pc) /\ Len(pc) \in Nat
      BY <1>1, <2>3, PatchIs, DomainIs DEF Patched
    <3>2. pc2 = [n \in 1..Len(pc) |-> pc2[n]] /\ DOMAIN pc2 = 1..Len(pc)
      BY <2>4, <3>1 DEF Rewired
    <3>3. IsSeq(pc2) /\ Len(pc2) = Len(pc)
      BY <3>1, <3>2, FunctionIsSeq
    <3>4. \A n \in 1..Len(pc) : IsCell(pc[n])
      BY <3>1 DEF IsCode, IsCell
    <3>5. \A n \in 1..Len(pc) : IsCell(pc2[n])
      BY <2>4, <3>1, <3>4, CellsAre DEF Rewired
    <3>6. IsCode(pc2)
      BY <3>3, <3>5 DEF IsCode, IsCell
    <3>7. QED
      BY <2>5, <3>6, StillCode, CellsAre
  <2>9. IsSeq(list2)
    BY <1>1, <2>1, <2>2, RestIs
  <2>10. ASSUME NEW level, NEW inside,
                Ready(new.code, conditions, leave_words, do_index2, level, inside)
         PROVE  /\ Continues(pc2 \o cells, list2, leaves2, loops2)
                /\ loops2 \in -1..2 /\ leaves2 \in [0..2 -> SUBSET Int]
    <3>1. PICK code, list, leaves, loops : /\ code = new.code /\ list = conditions
                                           /\ leaves = leave_words /\ loops = do_index2
      OBVIOUS
    <3>2. /\ Ready(code, list, leaves, loops, level, inside)
          /\ list # <<>> /\ Head(list).kind = "do"
          /\ pc = Patch(code, Head(list).at, Len(code) + 2)
      BY <2>1, <2>3, <2>10, <3>1
    <3>3. /\ Continues(Rewired(pc, leaves[loops], Len(code) + 2)
                          \o <<cell(word), operand(Head(list).at - 2)>>,
                        Tail(list), [leaves EXCEPT ![loops] = {}], loops - 1)
          /\ loops \in 0..2
      BY ONLY <3>2, word \in {"loop", "+loop"}, LoopBuilt
    <3>4. leaves \in [0..2 -> SUBSET Int]
      BY <3>2 DEF Ready
    <3>5. loops2 \in -1..2 /\ leaves2 \in [0..2 -> SUBSET Int]
      BY <2>6, <3>1, <3>3, <3>4
    <3>6. Continues(pc2 \o cells, list2, leaves2, loops2)
      BY <2>2, <2>4, <2>5, <2>6, <3>1, <3>3
    <3>7. QED
      BY <3>5, <3>6
  <2>11. Carries(word, 0, pc2 \o cells)
    BY <2>7, <2>10 DEF Carries
  <2>12. Emitting(word, 0, pc2, cells)
    BY <2>7, <2>8, <2>9, <2>11 DEF Emitting
  <2>13. QED
    BY <2>12, Emitted
<1>4. QED
  BY <1>2, <1>3

LEMMA LeaveCompiled ==
  ASSUME CompileOk, mode = "compile", UNCHANGED <<mode, dictionary>>, Leave
  PROVE  CompileOk'
<1>1. /\ IsCode(new.code) /\ Len(new.code) \in Nat /\ IsSeq(conditions)
  BY WhileBuilding
<1>2. PICK cells : cells = <<cell("leave"), operand(Unpatched)>>
  OBVIOUS
<1>3. PICK leaves2 :
        leaves2 = [leave_words EXCEPT ![do_index2] = @ \cup {Len(new.code) + 1 + 1}]
  OBVIOUS
<1>4. /\ Emit("leave", 0, new.code, cells) /\ do_index2 >= 0
      /\ leave_words' = leaves2 /\ UNCHANGED <<conditions, do_index2>>
  BY <1>2, <1>3 DEF Leave, Here
<1>5. IsCode(new.code \o cells)
  BY <1>1, <1>2, StillCode, CellsAre
<1>6. ASSUME NEW level, NEW inside,
             Ready(new.code, conditions, leave_words, do_index2, level, inside)
      PROVE  /\ Continues(new.code \o cells, conditions, leaves2, do_index2)
             /\ do_index2 \in -1..2 /\ leaves2 \in [0..2 -> SUBSET Int]
  <2>1. Continues(new.code \o cells, conditions, leaves2, do_index2)
    BY <1>2, <1>3, <1>4, <1>6, LeaveBuilt
  <2>2. do_index2 \in -1..2 /\ leave_words \in [0..2 -> SUBSET Int]
    BY <1>6 DEF Ready
  <2>3. do_index2 \in 0..2
    BY <1>4, <2>2
  <2>4. leaves2 \in [0..2 -> SUBSET Int]
    <3>1. Len(new.code) + 1 + 1 \in Int
      BY <1>1
    <3>2. leave_words[do_index2] \cup {Len(new.code) + 1 + 1} \in SUBSET Int
      BY <2>2, <2>3, <3>1
    <3>3. QED
      BY <1>3, <2>2, <2>3, <3>2
  <2>5. QED
    BY <2>1, <2>2, <2>4
<1>7. Carries("leave", 0, new.code \o cells)
  BY <1>4, <1>6 DEF Carries
<1>8. PICK code : code = new.code
  OBVIOUS
<1>9. Emitting("leave", 0, code, cells)
  BY <1>1, <1>4, <1>5, <1>7, <1>8 DEF Emitting
<1>10. QED
  BY <1>9, Emitted

Others(list) == {n \in DOMAIN list : list[n].kind # "endof"}
Ends(list) == IF Others(list) = {} THEN Len(list) ELSE Min(Others(list)) - 1

LEMMA EndsAre ==
  ASSUME NEW list, IsSeq(list)
  PROVE  Ends(list) \in 0..Len(list) /\ AllEnds(list, Ends(list))
<1>1. DOMAIN list = 1..Len(list) /\ Len(list) \in Nat
  BY IsSeqFacts
<1>2. CASE Others(list) = {}
  <2>1. Ends(list) = Len(list)
    BY <1>2 DEF Ends
  <2>2. \A n \in DOMAIN list : list[n].kind = "endof"
    BY <1>2 DEF Others
  <2>3. QED
    BY <1>1, <2>1, <2>2 DEF AllEnds
<1>3. CASE Others(list) # {}
  <2>1. PICK m : m = Min(Others(list))
    OBVIOUS
  <2>2. m \in Others(list) /\ \A n \in Others(list) : m <= n
    <3>1. Others(list) \subseteq Nat
      BY <1>1 DEF Others
    <3>2. QED
      BY <1>3, <2>1, <3>1, MinIs
  <2>3. Ends(list) = m - 1 /\ m \in 1..Len(list)
    BY <1>1, <1>3, <2>1, <2>2 DEF Ends, Others
  <2>4. ASSUME NEW k \in 1..(m - 1)
        PROVE  list[k].kind = "endof"
    <3>1. k \in DOMAIN list /\ ~(m <= k)
      BY <1>1, <2>3
    <3>2. k \notin Others(list)
      BY <2>2, <3>1
    <3>3. QED
      BY <3>1, <3>2 DEF Others
  <2>5. QED
    BY <1>1, <2>3, <2>4 DEF AllEnds
<1>4. QED
  BY <1>2, <1>3

LEMMA AtEndIs ==
  ASSUME NEW code, IsCode(code), NEW list, NEW ends, NEW v
  PROVE  /\ IsCode(AtEnd(code, list, ends, v))
         /\ ends = 0 => AtEnd(code, list, ends, v) = code
<1>1. PICK pc : pc = AtEnd(code, list, ends, v)
  OBVIOUS
<1>2. /\ IsSeq(code) /\ Len(code) \in Nat /\ DOMAIN code = 1..Len(code)
      /\ code = [n \in 1..Len(code) |-> code[n]]
      /\ \A n \in 1..Len(code) : IsCell(code[n])
  BY IsSeqFacts DEF IsCode, IsCell
<1>3. DOMAIN pc = 1..Len(code) /\ pc = [n \in 1..Len(code) |-> pc[n]]
  BY <1>1, <1>2 DEF AtEnd
<1>4. IsSeq(pc) /\ Len(pc) = Len(code)
  BY <1>2, <1>3, FunctionIsSeq
<1>5. \A n \in 1..Len(code) : IsCell(pc[n])
  BY <1>1, <1>2, CellsAre DEF AtEnd
<1>6. IsCode(pc)
  BY <1>4, <1>5 DEF IsCode, IsCell
<1>7. ASSUME ends = 0
      PROVE  pc = code
  <2>1. \A k \in 1..ends : FALSE
    BY <1>7
  <2>2. \A n \in 1..Len(code) : pc[n] = code[n]
    BY <1>1, <1>2, <2>1 DEF AtEnd
  <2>3. QED
    BY <1>2, <1>3, <2>2
<1>8. QED
  BY <1>1, <1>6, <1>7

LEMMA EndcaseCompiled ==
  ASSUME CompileOk, mode = "compile", UNCHANGED <<mode, dictionary>>, Endcase
  PROVE  CompileOk'
<1>1. /\ IsCode(new.code) /\ Len(new.code) \in Nat /\ IsSeq(conditions)
  BY WhileBuilding
<1>2. Len(conditions) \in Nat
  BY <1>1, IsSeqFacts
<1>3. PICK ends : ends = Ends(conditions)
  OBVIOUS
<1>4. PICK pc : pc = AtEnd(new.code, conditions, ends, Len(new.code))
  OBVIOUS
<1>5. PICK rest : rest = SubSeq(conditions, ends + 1, Len(conditions))
  OBVIOUS
<1>6. IF Resolvable("case", rest)
      THEN /\ Emit("endcase", 0, pc, <<>>)
           /\ conditions' = Tail(rest) /\ UNCHANGED <<do_index2, leave_words>>
      ELSE Refuse(pc, Popped(rest))
  <2>1. pc = [n \in DOMAIN new.code |-> IF \E k \in 1..ends : conditions[k].at = n
                                        THEN operand(Here - 1) ELSE new.code[n]]
    BY <1>1, <1>4, HereIs DEF AtEnd
  <2>2. ends = IF {n \in DOMAIN conditions : conditions[n].kind # "endof"} = {}
               THEN Len(conditions)
               ELSE Min({n \in DOMAIN conditions : conditions[n].kind # "endof"}) - 1
    BY <1>3 DEF Ends, Others
  <2>3. QED
    BY <1>5, <2>1, <2>2, Zenon DEF Endcase
<1>7. ends \in 0..Len(conditions) /\ AllEnds(conditions, ends)
  BY <1>1, <1>3, EndsAre
<1>8. IsSeq(rest) /\ Len(rest) = Len(conditions) - ends
  BY <1>1, <1>5, <1>7, Behind
<1>9. IsCode(pc) /\ (ends = 0 => pc = new.code)
  BY <1>1, <1>4, AtEndIs
<1>10. CASE ~Resolvable("case", rest)
  <2>1. IsSeq(Popped(rest)) /\ (Popped(rest) = conditions => ends = 0)
    <3>1. rest = <<>> => Popped(rest) = <<>> /\ Len(<<>>) = 0
      BY EmptyIs DEF Popped
    <3>2. rest # <<>> => Len(Popped(rest)) = Len(rest) - 1
      BY <1>8, RestIs DEF Popped
    <3>3. IsSeq(Popped(rest))
      BY <1>8, PoppedIs
    <3>4. ASSUME Popped(rest) = conditions
          PROVE  ends = 0
      <4>1. rest = <<>> => Len(conditions) = 0
        BY <3>1, <3>4
      <4>2. rest # <<>> => Len(conditions) = Len(rest) - 1
        BY <3>2, <3>4
      <4>3. QED
        BY <1>2, <1>7, <1>8, <4>1, <4>2
    <3>5. QED
      BY <3>3, <3>4
  <2>2. PICK rest2 : rest2 = Popped(rest)
    OBVIOUS
  <2>3. Refusing(pc, rest2)
    BY <1>6, <1>9, <1>10, <2>1, <2>2 DEF Refusing
  <2>4. QED
    BY <2>3, Refused
<1>11. CASE Resolvable("case", rest)
  <2>1. rest # <<>> /\ Head(rest).kind = "case"
    BY <1>11 DEF Resolvable
  <2>2. PICK list2 : list2 = Tail(rest)
    OBVIOUS
  <2>3. IsCode(pc \o <<>>)
    BY <1>9, StillCode
  <2>4. IsSeq(list2)
    BY <1>8, <2>1, <2>2, RestIs
  <2>5. ASSUME NEW level, NEW inside,
               Ready(new.code, conditions, leave_words, do_index2, level, inside)
        PROVE  Continues(pc \o <<>>, list2, leave_words, do_index2)
    <3>1. PICK code, list, leaves, loops : /\ code = new.code /\ list = conditions
                                           /\ leaves = leave_words /\ loops = do_index2
      OBVIOUS
    <3>2. /\ Ready(code, list, leaves, loops, level, inside)
          /\ ends \in 0..Len(list) /\ AllEnds(list, ends)
          /\ rest = SubSeq(list, ends + 1, Len(list))
      BY <1>5, <1>7, <2>5, <3>1
    <3>3. Continues(AtEnd(code, list, ends, Len(code)) \o <<>>, Tail(rest), leaves, loops)
      BY ONLY <2>1, <3>2, EndcaseBuilt
    <3>4. QED
      BY <1>4, <2>2, <3>1, <3>3
  <2>6. QED
    BY <1>6, <1>11, <2>2, <2>3, <2>4, <2>5, EmittedMore
<1>12. QED
  BY <1>10, <1>11

LEMMA StructureCompiled ==
  ASSUME CompileOk, NEW word,
         CompileOpener(word) \/ CompileMiddle(word) \/ CompileCloser(word)
  PROVE  CompileOk'
<1>1. mode = "compile" /\ UNCHANGED <<mode, dictionary>>
  BY Zenon DEF CompileOpener, CompileMiddle, CompileCloser, Compiling, WhileCompiling
<1>2. CASE CompileOpener(word)
  <2>1. \/ Forward("if", "if") \/ Forward("of", "of") \/ Forward("rangeof", "of")
        \/ Mark("begin") \/ Mark("case") \/ Do
    BY <1>2, Zenon DEF CompileOpener, If, Of, Rangeof, Begin, Case
  <2>2. QED
    BY <1>1, <2>1, ForwardCompiled, MarkCompiled, DoCompiled
<1>3. CASE CompileMiddle(word)
  <2>1. \/ Forward("while", "while") \/ Middle("else", "if", "if")
        \/ Middle("endof", "of", "endof")
    BY <1>3, Zenon DEF CompileMiddle, While, Else, Endof
  <2>2. QED
    BY <1>1, <2>1, ForwardCompiled, MiddleCompiled
<1>4. CASE CompileCloser(word)
  <2>1. \/ Then \/ Loop("loop") \/ Loop("+loop") \/ Leave \/ Back("until") \/ Back("again")
        \/ Repeat \/ Endcase
    BY <1>4, Zenon DEF CompileCloser, Until, Again
  <2>2. QED
    BY <1>1, <2>1, ThenCompiled, LoopCompiled, LeaveCompiled, BackCompiled, RepeatCompiled,
       EndcaseCompiled
<1>5. QED
  BY <1>2, <1>3, <1>4

-----------------------------------------------------------------------------
(* Definitions.                                                            *)

LEMMA DefinitionBegins ==
  ASSUME NEW x, start_word(x)
  PROVE  CompileOk'
<1>1. /\ new' = Blank(<<x>>) /\ conditions' = <<>> /\ do_index2' = -1
      /\ leave_words' = [n \in 0..2 |-> {}] /\ dictionary' = dictionary
  BY DEF start_word
<1>2. PICK level, inside : level = [p \in {1} |-> 0] /\ inside = [k \in {1} |-> 0]
  OBVIOUS
<1>3. PICK leaves : leaves = [n \in 0..2 |-> {}]
  OBVIOUS
<1>4. PICK e : e = <<>>
  OBVIOUS
<1>5. IsSeq(e) /\ Len(e) = 0 /\ IsCode(e)
  BY <1>4, EmptyIs DEF IsCode
<1>6. Built(e, e, leaves, -1, level, inside)
  <2>1. Levels(Len(dictionary) + 1, e, level, Len(e) + 1, Open(e, leaves))
    <3>1. DOMAIN level = {1} /\ level[1] = 0 /\ Len(e) + 1 = 1
      BY <1>2, <1>5
    <3>2. level \in [DOMAIN level -> Nat]
      BY <1>2, <3>1
    <3>3. QED
      BY <3>1, <3>2 DEF Levels, Goes
  <2>2. Nested(e, inside)
    <3>1. Len(e) + 1 = 1 /\ 1..1 = {1} /\ \A k \in 1..0 : FALSE
      BY <1>5
    <3>2. inside \in [{1} -> Nat] /\ inside[1] = 0
      BY <1>2
    <3>3. QED
      BY <1>5, <3>1, <3>2 DEF Nested
  <2>3. level[Len(e) + 1] = -1 + 1 /\ inside[1] = -1 + 1
    BY <1>2, <1>5
  <2>4. Kept(e, level, e, inside, leaves)
    <3>1. \A k \in 1..Len(e) : FALSE
      BY <1>5
    <3>2. \A n \in DOMAIN leaves : leaves[n] = {}
      BY <1>3
    <3>3. QED
      BY <3>1, <3>2 DEF Kept
  <2>5. QED
    BY <1>3, <2>1, <2>2, <2>3, <2>4 DEF Built
<1>7. Built(e, e, leaves, -1, level, inside)'
  BY <1>1, <1>6, SameBuilt
<1>8. PICK w : w = Blank(<<x>>)
  OBVIOUS
<1>9. w.code = e /\ w.source = e /\ w.first = e /\ IsWord(w)
  <2>1. w.code = e /\ w.source = e /\ w.first = e
    BY <1>4, <1>8 DEF Blank
  <2>2. w = [name |-> w.name, code |-> w.code, source |-> w.source,
             first |-> w.first, spoiled |-> w.spoiled]
    BY <1>8 DEF Blank
  <2>3. QED
    BY <1>5, <2>1, <2>2 DEF IsWord
<1>10. IsWord(new)'
  <2>1. new' = w
    BY <1>1, <1>8
  <2>2. QED
    BY <1>9, <2>1 DEF IsWord, IsCode, IsSeq
<1>11. IsSeq(conditions)'
  BY <1>1, <1>4, <1>5 DEF IsSeq
<1>12. (/\ do_index2 \in -1..2 /\ leave_words \in [0..2 -> SUBSET Int]
        /\ \E l, i : Built(new.code, conditions, leave_words, do_index2, l, i))'
  <2>1. new'.code = e /\ conditions' = e /\ leave_words' = leaves /\ do_index2' = -1
    BY <1>1, <1>3, <1>4, <1>8, <1>9
  <2>2. leaves \in [0..2 -> SUBSET Int] /\ -1 \in -1..2
    BY <1>3
  <2>3. QED
    BY <1>7, <2>1, <2>2
<1>13. QED
  BY <1>10, <1>11, <1>12 DEF CompileOk

\* Code is finished in every dictionary with the same words before it.
LEMMA FinishedIn ==
  ASSUME NEW w, NEW code, NEW level, Finished(w, code, level),
         \A v \in 1..(w - 1) : dictionary'[v] = dictionary[v]
  PROVE  Finished(w, code, level)'
<1>1. ASSUME NEW p, Sound(w, code, level, p, {})
      PROVE  Sound(w, code, level, p, {})'
  <2>1. PICK v : v = code[p + 1].value
    OBVIOUS
  <2>2. code[p].handler \in {"call", "var_set"} => v \in 1..(w - 1)
    BY <1>1, <2>1 DEF Sound
  <2>3. code[p].handler = "var_set" => IsVariable(dictionary[v].code)
    BY <1>1, <2>1 DEF Sound
  <2>4. code[p].handler = "var_set" => IsVariable(dictionary'[v].code)
    BY <2>2, <2>3
  <2>5. QED
    BY <1>1, <2>1, <2>4 DEF Sound
<1>2. QED
  BY <1>1 DEF Finished, Levels

LEMMA DictionaryGrows ==
  ASSUME DictionaryOk, IsSeq(dictionary'), Len(dictionary') >= Len(dictionary),
         \A w \in 1..Len(dictionary) : dictionary'[w] = dictionary[w],
         \A w \in (Len(dictionary) + 1)..Len(dictionary') :
           /\ IsWord(dictionary'[w])
           /\ ~Broken(dictionary'[w]) =>
                \E level : (Finished(w, dictionary[w].code, level))'
  PROVE  DictionaryOk'
<1>1. /\ IsSeq(dictionary) /\ DOMAIN dictionary = 1..Len(dictionary) /\ Len(dictionary) \in Nat
      /\ DOMAIN dictionary' = 1..Len(dictionary') /\ Len(dictionary') \in Nat
  BY IsSeqFacts DEF DictionaryOk
<1>2. ASSUME NEW w \in 1..Len(dictionary)
      PROVE  /\ IsWord(dictionary'[w])
             /\ ~Broken(dictionary'[w]) =>
                  \E level : (Finished(w, dictionary[w].code, level))'
  <2>1. PICK x : x = dictionary[w]
    OBVIOUS
  <2>2. /\ dictionary'[w] = x /\ IsWord(x)
        /\ ~Broken(x) => \E level : Finished(w, x.code, level)
    BY <1>1, <2>1 DEF DictionaryOk
  <2>3. ASSUME NEW level, Finished(w, x.code, level)
        PROVE  Finished(w, x.code, level)'
    <3>1. PICK code : code = x.code
      OBVIOUS
    <3>2. \A v \in 1..(w - 1) : dictionary'[v] = dictionary[v]
      BY <1>1
    <3>3. Finished(w, code, level)'
      BY <2>3, <3>1, <3>2, FinishedIn
    <3>4. QED
      BY <3>1, <3>3
  <2>4. QED
    BY <2>2, <2>3
<1>3. \A w \in 1..Len(dictionary') :
        w \in 1..Len(dictionary) \/ w \in (Len(dictionary) + 1)..Len(dictionary')
  BY <1>1
<1>4. (\A w \in DOMAIN dictionary :
         /\ IsWord(dictionary[w])
         /\ ~Broken(dictionary[w]) => \E level : Finished(w, dictionary[w].code, level))'
  <2>1. \A w : IsWord(dictionary[w])' <=> IsWord(dictionary'[w])
    BY DEF IsWord, IsCode, IsSeq
  <2>2. \A w : Broken(dictionary[w])' <=> Broken(dictionary'[w])
    BY Zenon DEF Broken
  <2>3. QED
    BY <1>1, <1>2, <1>3, <2>1, <2>2
<1>5. IsSeq(dictionary)'
  BY DEF IsSeq
<1>6. QED
  BY <1>4, <1>5 DEF DictionaryOk

LEMMA DictionaryShrinks ==
  ASSUME DictionaryOk, NEW n \in 0..Len(dictionary), dictionary' = SubSeq(dictionary, 1, n)
  PROVE  DictionaryOk'
<1>1. /\ IsSeq(dictionary) /\ DOMAIN dictionary = 1..Len(dictionary) /\ Len(dictionary) \in Nat
  BY IsSeqFacts DEF DictionaryOk
<1>2. PICK d : d = SubSeq(dictionary, 1, n)
  OBVIOUS
<1>3. IsSeq(d) /\ Len(d) = n /\ \A k \in 1..n : d[k] = dictionary[k]
  BY <1>1, <1>2, Before
<1>4. DOMAIN d = 1..n
  BY <1>3, IsSeqFacts
<1>5. ASSUME NEW w \in 1..n
      PROVE  /\ IsWord(d[w])
             /\ ~Broken(d[w]) => \E level : Finished(w, d[w].code, level)'
  <2>1. d[w] = dictionary[w] /\ w \in DOMAIN dictionary
    BY <1>1, <1>3
  <2>2. /\ IsWord(d[w])
        /\ ~Broken(d[w]) => \E level : Finished(w, d[w].code, level)
    BY <2>1 DEF DictionaryOk
  <2>3. PICK code : code = d[w].code
    OBVIOUS
  <2>4. \A v \in 1..(w - 1) : dictionary'[v] = dictionary[v]
    BY <1>1, <1>2, <1>3
  <2>5. ASSUME NEW level, Finished(w, code, level)
        PROVE  Finished(w, code, level)'
    BY <2>4, <2>5, FinishedIn
  <2>6. QED
    BY <2>2, <2>3, <2>5
<1>6. (\A w \in DOMAIN dictionary :
         /\ IsWord(dictionary[w])
         /\ ~Broken(dictionary[w]) => \E level : Finished(w, dictionary[w].code, level))'
  <2>1. dictionary' = d
    BY <1>2
  <2>2. \A w : IsWord(dictionary[w])' <=> IsWord(dictionary'[w])
    BY DEF IsWord, IsCode, IsSeq
  <2>3. \A w : Broken(dictionary[w])' <=> Broken(dictionary'[w])
    BY Zenon DEF Broken
  <2>4. QED
    BY <1>4, <1>5, <2>1, <2>2, <2>3
<1>7. IsSeq(dictionary)'
  BY <1>2, <1>3 DEF IsSeq
<1>8. QED
  BY <1>6, <1>7 DEF DictionaryOk

\* A cell is as sound when another one comes behind the code.
LEMMA SoundBefore ==
  ASSUME NEW w, NEW code, NEW code2, NEW level, NEW p \in 1..Len(code),
         IsSeq(code), IsSeq(code2), Len(code2) = Len(code) + 1,
         \A n \in 1..Len(code) : code2[n] = code[n],
         Sound(w, code, level, p, {})
  PROVE  Sound(w, code2, level, p, {})
<1>1. /\ DOMAIN code = 1..Len(code) /\ DOMAIN code2 = 1..(Len(code) + 1) /\ Len(code) \in Nat
      /\ code2[p] = code[p] /\ p \in Nat
  BY IsSeqFacts
<1>2. p + 1 \in DOMAIN code => p + 1 \in DOMAIN code2 /\ code2[p + 1] = code[p + 1]
  BY <1>1
<1>3. code[p].handler \in Jumping => Jumped(code2, level, p, {})
  <2>1. code[p].handler \in Jumping => p + 1 \in DOMAIN code /\ Jumped(code, level, p, {})
    BY DEF Sound
  <2>2. QED
    BY <1>1, <1>2, <2>1 DEF Jumped, After
<1>4. code[p].handler \in {"call", "var_set"} => p + 1 \in DOMAIN code
  BY DEF Sound, Passing2
<1>5. QED
  BY <1>1, <1>2, <1>3, <1>4 DEF Sound

\* All that was open is closed: the end of the code is in no loop.
LEMMA BuiltEnds ==
  ASSUME NEW code, NEW list, NEW leaves, NEW loops, NEW level, NEW inside,
         IsCode(code), list = <<>>, loops \in -1..2, leaves \in [0..2 -> SUBSET Int],
         Built(code, list, leaves, loops, level, inside), NEW last, last = cell("exit")
  PROVE  Finished(Len(dictionary) + 1, Append(code, last), level)
<1>1. Levels(Len(dictionary) + 1, code, level, Len(code) + 1, Open(list, leaves))
      /\ Nested(list, inside) /\ level[Len(code) + 1] = loops + 1 /\ inside[1] = loops + 1
      /\ \A n \in DOMAIN leaves : n > loops => leaves[n] = {}
  BY DEF Built
<1>2. IsSeq(code) /\ DOMAIN code = 1..Len(code) /\ Len(code) \in Nat
  BY IsSeqFacts DEF IsCode
<1>3. Len(list) = 0
  OBVIOUS
<1>4. loops + 1 = 0
  BY <1>1, <1>3 DEF Nested
<1>5. Open(list, leaves) = {}
  <2>1. \A n \in 0..2 : leaves[n] = {}
    BY <1>1, <1>4
  <2>2. QED
    BY <1>3, <2>1 DEF Open
<1>6. PICK code2 : code2 = Append(code, last)
  OBVIOUS
<1>7. /\ IsSeq(code2) /\ Len(code2) = Len(code) + 1 /\ code2[Len(code) + 1] = last
      /\ \A n \in 1..Len(code) : code2[n] = code[n]
  BY <1>2, <1>6, Added
<1>8. PICK w : w = Len(dictionary) + 1
  OBVIOUS
<1>9. Levels(w, code2, level, Len(code2), {})
  <2>1. /\ DOMAIN level \subseteq 1..Len(code2) /\ level \in [DOMAIN level -> Nat]
        /\ Goes(level, 1, 0) /\ Len(code2) \in DOMAIN level
        /\ \A p \in DOMAIN level : p # Len(code) + 1 => Sound(w, code, level, p, {})
    BY <1>1, <1>5, <1>7, <1>8 DEF Levels
  <2>2. ASSUME NEW p \in DOMAIN level, p # Len(code2)
        PROVE  Sound(w, code2, level, p, {})
    <3>1. p \in 1..Len(code) /\ Sound(w, code, level, p, {})
      BY <1>2, <1>7, <2>1, <2>2
    <3>2. QED
      BY <1>2, <1>7, <3>1, SoundBefore
  <2>3. QED
    BY <2>1, <2>2 DEF Levels
<1>10. code2[Len(code2)].handler = "exit" /\ level[Len(code2)] = 0
  BY <1>1, <1>4, <1>7 DEF cell
<1>11. QED
  BY <1>6, <1>8, <1>9, <1>10 DEF Finished

\* ";" ends the definition, or gives it up.
LEMMA DefinitionEnds ==
  ASSUME CompileOk, DictionaryOk, end_word
  PROVE  CompileOk' /\ DictionaryOk'
<1>1. /\ mode = "compile" /\ mode' = "interpret"
      /\ \/ /\ conditions = <<>>
            /\ dictionary' = Append(dictionary, [new EXCEPT !.code = Append(@, cell("exit"))])
         \/ dictionary' = dictionary
  BY DEF end_word
<1>2. CompileOk'
  BY <1>1 DEF CompileOk
<1>3. CASE dictionary' = dictionary
  BY <1>2, <1>3, SameDictionary
<1>4. CASE /\ conditions = <<>>
           /\ dictionary' = Append(dictionary, [new EXCEPT !.code = Append(@, cell("exit"))])
  <2>1. /\ IsWord(new) /\ IsCode(new.code)
        /\ ~Broken(new) =>
             \E level, inside :
               Ready(new.code, conditions, leave_words, do_index2, level, inside)
    BY <1>1, WhileBuilding
  <2>2. PICK last : last = cell("exit")
    OBVIOUS
  <2>3. PICK code : code = Append(new.code, last)
    OBVIOUS
  <2>4. PICK word : word = [new EXCEPT !.code = Append(@, cell("exit"))]
    OBVIOUS
  <2>5. /\ IsSeq(dictionary) /\ DOMAIN dictionary = 1..Len(dictionary)
        /\ Len(dictionary) \in Nat
    BY IsSeqFacts DEF DictionaryOk
  <2>6. /\ IsSeq(dictionary') /\ Len(dictionary') = Len(dictionary) + 1
        /\ \A w \in 1..Len(dictionary) : dictionary'[w] = dictionary[w]
        /\ dictionary'[Len(dictionary) + 1] = word
    <3>1. dictionary' = Append(dictionary, word)
      BY <1>4, <2>4
    <3>2. QED
      BY ONLY <2>5, <3>1, Added
  <2>7. /\ word.code = code /\ word.source = new.source /\ word.first = new.first
        /\ word.spoiled = new.spoiled
        /\ word = [name |-> word.name, code |-> word.code, source |-> word.source,
                   first |-> word.first, spoiled |-> word.spoiled]
    <3>1. new = [name |-> new.name, code |-> new.code, source |-> new.source,
                 first |-> new.first, spoiled |-> new.spoiled]
      BY <2>1 DEF IsWord
    <3>2. PICK n, c, s, f, sp : new = [name |-> n, code |-> c, source |-> s, first |-> f,
                                      spoiled |-> sp]
      BY <3>1
    <3>3. word = [name |-> n, code |-> Append(c, cell("exit")), source |-> s, first |-> f,
                  spoiled |-> sp]
      BY <2>4, <3>2
    <3>4. code = Append(c, cell("exit"))
      BY <2>2, <2>3, <3>2
    <3>5. QED
      BY <3>2, <3>3, <3>4
  <2>8. IsCode(code)
    <3>1. IsCell(last)
      BY <2>2, CellsAre
    <3>2. PICK pc : pc = new.code
      OBVIOUS
    <3>3. /\ IsSeq(code) /\ Len(code) = Len(pc) + 1 /\ code[Len(pc) + 1] = last
          /\ \A n \in 1..Len(pc) : code[n] = pc[n]
      BY <2>1, <2>3, <3>2, Added DEF IsCode
    <3>4. Len(pc) \in Nat /\ IsCode(pc)
      BY <2>1, <3>2, IsSeqFacts DEF IsCode
    <3>5. \A n \in 1..Len(code) : n \in 1..Len(pc) \/ n = Len(pc) + 1
      BY <3>3, <3>4
    <3>6. QED
      BY <3>1, <3>3, <3>4, <3>5 DEF IsCode, IsCell
  <2>9. IsWord(word)
    BY <2>1, <2>7, <2>8 DEF IsWord
  <2>10. Broken(word) <=> Broken(new)
    BY <2>7, BrokenIs
  <2>11. PICK w : w = Len(dictionary) + 1
    OBVIOUS
  <2>12. ASSUME ~Broken(word)
         PROVE  \E level : Finished(w, code, level)'
    <3>1. PICK level, inside :
            Ready(new.code, conditions, leave_words, do_index2, level, inside)
      BY <2>1, <2>10, <2>12
    <3>2. Finished(w, code, level)
      BY <1>4, <2>2, <2>3, <2>11, <3>1, BuiltEnds DEF Ready
    <3>3. \A v \in 1..(w - 1) : dictionary'[v] = dictionary[v]
      BY <2>5, <2>6, <2>11
    <3>4. QED
      BY <3>2, <3>3, FinishedIn
  <2>13. ~Broken(dictionary'[w]) =>
           \E level : (Finished(w, dictionary[w].code, level))'
    <3>1. dictionary'[w] = word /\ word.code = code
      BY <2>6, <2>7, <2>11
    <3>2. QED
      BY <2>12, <3>1
  <2>14. \A v \in (Len(dictionary) + 1)..Len(dictionary') : v = w
    BY <2>5, <2>6, <2>11
  <2>15. Len(dictionary') >= Len(dictionary) /\ IsWord(dictionary'[w])
    BY <2>5, <2>6, <2>9, <2>11
  <2>16. DictionaryOk'
    BY <2>6, <2>13, <2>14, <2>15, DictionaryGrows
  <2>17. QED
    BY <1>2, <2>16
<1>5. QED
  BY <1>1, <1>3, <1>4

\* The code of a constant, and of the two words of a variable.
Three(a, b, c, code) ==
  /\ IsCell(a) /\ IsCell(b) /\ IsCell(c)
  /\ a.handler \in {"lit", "var_set"} /\ c.handler = "exit"
  /\ code = Append(<<a, b>>, c)

LEMMA ThreeCells ==
  ASSUME NEW w, NEW a, NEW b, NEW c, NEW code, Three(a, b, c, code),
         a.handler = "var_set" =>
           b.value \in 1..(w - 1) /\ IsVariable(dictionary'[b.value].code)
  PROVE  /\ IsCode(code)
         /\ Len(code) = 3 /\ code[1] = a /\ code[2] = b /\ code[3] = c
         /\ \E level : Finished(w, code, level)'
<1>1. /\ IsSeq(<<a, b>>) /\ Len(<<a, b>>) = 2 /\ <<a, b>>[1] = a /\ <<a, b>>[2] = b
  <2>1. <<a, b>> \in Seq({a, b})
    OBVIOUS
  <2>2. QED
    BY <2>1, SeqIs
<1>2. IsSeq(code) /\ Len(code) = 3 /\ code[1] = a /\ code[2] = b /\ code[3] = c
  <2>1. PICK t : t = <<a, b>>
    OBVIOUS
  <2>2. IsSeq(t) /\ Len(t) = 2 /\ t[1] = a /\ t[2] = b /\ code = Append(t, c)
    BY <1>1, <2>1 DEF Three
  <2>3. /\ IsSeq(code) /\ Len(code) = Len(t) + 1 /\ code[Len(t) + 1] = c
        /\ \A n \in 1..Len(t) : code[n] = t[n]
    <3>1. IsSeq(t) /\ code = Append(t, c)
      BY <2>2
    <3>2. QED
      BY ONLY <3>1, Added
  <2>4. QED
    BY <2>2, <2>3
<1>3. DOMAIN code = 1..3 /\ \A n \in 1..3 : n = 1 \/ n = 2 \/ n = 3
  BY <1>2, IsSeqFacts
<1>4. IsCode(code)
  BY <1>2, <1>3 DEF IsCode, IsCell, Three
<1>5. PICK level : level = [p \in {1, 3} |-> 0]
  OBVIOUS
<1>6. /\ DOMAIN level = {1, 3} /\ level[1] = 0 /\ level[3] = 0
      /\ level \in [DOMAIN level -> Nat]
  BY <1>5
<1>7. Goes(level, 1, 0) /\ Goes(level, 3, 0)
  BY <1>6 DEF Goes
<1>8. /\ a.handler # "operand" /\ a.handler \notin Looping /\ a.handler \notin Jumping
      /\ a.handler \notin Passing1 /\ a.handler # "do" /\ a.handler # ".\""
      /\ a.handler # "call"
  <2>1. PICK h : h = a.handler
    OBVIOUS
  <2>2. h = "lit" \/ h = "var_set"
    BY <2>1 DEF Three
  <2>3. h \in Passing2 /\ h # "call"
    BY <2>2 DEF Passing2
  <2>4. h \notin Passing1 /\ h \notin Jumping /\ h # "operand" /\ h # "do" /\ h # ".\""
    BY <2>2, <2>3, Apart, Zenon
  <2>5. Looping \subseteq Jumping
    BY DEF Jumping
  <2>6. QED
    BY <2>1, <2>3, <2>4, <2>5
<1>9. Sound(w, code, level, 1, {})'
  <2>1. code[1].handler = a.handler /\ code[1 + 1].value = b.value
    BY <1>2
  <2>2. 1 + 1 \in DOMAIN code /\ 1 + 2 = 3
    BY <1>3
  <2>3. QED
    BY <1>6, <1>7, <1>8, <2>1, <2>2 DEF Sound
<1>10. Finished(w, code, level)'
  <2>1. Levels(w, code, level, 3, {})'
    BY <1>6, <1>7, <1>9 DEF Levels
  <2>2. QED
    BY <1>2, <1>6, <2>1 DEF Finished, Three
<1>11. QED
  BY <1>2, <1>4, <1>10

LEMMA DefinedIs ==
  ASSUME NEW name, NEW code, NEW word, word = Defined(name, code),
         IsCode(Append(code, cell("exit")))
  PROVE  IsWord(word) /\ word.code = Append(code, cell("exit"))
<1>1. word = [name |-> name, code |-> Append(code, cell("exit")), source |-> <<>>,
              first |-> <<>>, spoiled |-> FALSE]
  <2>1. PICK blank : blank = Blank(name)
    OBVIOUS
  <2>2. PICK n, e, f : n = name /\ e = <<>> /\ f = FALSE
    OBVIOUS
  <2>3. blank = [name |-> n, code |-> e, source |-> e, first |-> e, spoiled |-> f]
    BY <2>1, <2>2 DEF Blank
  <2>4. PICK c : c = Append(code, cell("exit"))
    OBVIOUS
  <2>5. [blank EXCEPT !.code = c]
          = [name |-> n, code |-> c, source |-> e, first |-> e, spoiled |-> f]
    BY <2>3
  <2>6. QED
    BY <2>1, <2>2, <2>4, <2>5 DEF Defined
<1>2. /\ word.name = name /\ word.code = Append(code, cell("exit")) /\ word.source = <<>>
      /\ word.first = <<>> /\ word.spoiled = FALSE
  BY <1>1
<1>3. word = [name |-> word.name, code |-> word.code, source |-> word.source,
              first |-> word.first, spoiled |-> word.spoiled]
  BY <1>1, <1>2
<1>4. QED
  BY <1>2, <1>3, EmptyIs DEF IsWord

LEMMA ConstantDefined ==
  ASSUME DictionaryOk, NEW x, constant(x)
  PROVE  DictionaryOk'
<1>1. PICK word : word = Defined(<<x>>, <<cell("lit"), operand(Head(data_stack))>>)
  OBVIOUS
<1>2. dictionary' = Append(dictionary, word)
  BY <1>1 DEF constant
<1>3. IsSeq(dictionary) /\ DOMAIN dictionary = 1..Len(dictionary) /\ Len(dictionary) \in Nat
  BY IsSeqFacts DEF DictionaryOk
<1>4. /\ IsSeq(dictionary') /\ Len(dictionary') = Len(dictionary) + 1
      /\ \A w \in 1..Len(dictionary) : dictionary'[w] = dictionary[w]
      /\ dictionary'[Len(dictionary) + 1] = word
  BY ONLY <1>2, <1>3, Added
<1>5. PICK w : w = Len(dictionary) + 1
  OBVIOUS
<1>6. PICK a, b, c : a = cell("lit") /\ b = operand(Head(data_stack)) /\ c = cell("exit")
  OBVIOUS
<1>7. /\ IsCell(a) /\ IsCell(b) /\ IsCell(c) /\ a.handler = "lit" /\ c.handler = "exit"
  BY <1>6 DEF IsCell, cell, operand
<1>8. PICK code : code = Append(<<a, b>>, c)
  OBVIOUS
<1>9. IsCode(code) /\ \E level : Finished(w, code, level)'
  <2>1. Three(a, b, c, code) /\ a.handler # "var_set"
    BY <1>7, <1>8 DEF Three
  <2>2. \E level : Finished(w, code, level)'
    BY <2>1, ThreeCells
  <2>3. IsCode(code)
    BY <2>1, ThreeCells
  <2>4. QED
    BY <2>2, <2>3
<1>10. IsWord(word) /\ word.code = code
  BY <1>1, <1>6, <1>8, <1>9, DefinedIs
<1>11. /\ IsWord(dictionary'[w])
       /\ ~Broken(dictionary'[w]) => \E level : (Finished(w, dictionary[w].code, level))'
  <2>1. dictionary'[w] = word
    BY <1>4, <1>5
  <2>2. QED
    BY <1>9, <1>10, <2>1
<1>12. \A v \in (Len(dictionary) + 1)..Len(dictionary') : v = w
  BY <1>3, <1>4, <1>5
<1>13. Len(dictionary') >= Len(dictionary)
  BY <1>3, <1>4
<1>14. QED
  BY <1>4, <1>11, <1>12, <1>13, DictionaryGrows

LEMMA VariableDefined ==
  ASSUME DictionaryOk, NEW x, variable(x)
  PROVE  DictionaryOk'
<1>1. PICK garbage :
        dictionary' = dictionary \o
          <<Defined(<<x, "@">>, <<cell("lit"), operand(garbage)>>),
            Defined(<<x, "!">>, <<cell("var_set"), operand(Len(dictionary) + 1)>>)>>
  BY DEF variable
<1>2. PICK u : u = Len(dictionary) + 1
  OBVIOUS
<1>3. PICK word, word2 :
        /\ word = Defined(<<x, "@">>, <<cell("lit"), operand(garbage)>>)
        /\ word2 = Defined(<<x, "!">>, <<cell("var_set"), operand(u)>>)
  OBVIOUS
<1>4. dictionary' = dictionary \o <<word, word2>>
  BY <1>1, <1>2, <1>3
<1>5. IsSeq(dictionary) /\ DOMAIN dictionary = 1..Len(dictionary) /\ Len(dictionary) \in Nat
  BY IsSeqFacts DEF DictionaryOk
<1>6. /\ IsSeq(<<word, word2>>) /\ Len(<<word, word2>>) = 2
      /\ <<word, word2>>[1] = word /\ <<word, word2>>[2] = word2
  <2>1. <<word, word2>> \in Seq({word, word2})
    OBVIOUS
  <2>2. QED
    BY <2>1, SeqIs
<1>7. /\ IsSeq(dictionary') /\ Len(dictionary') = Len(dictionary) + 2
      /\ \A w \in 1..Len(dictionary) : dictionary'[w] = dictionary[w]
      /\ dictionary'[u] = word /\ dictionary'[u + 1] = word2
  <2>1. PICK t : t = <<word, word2>>
    OBVIOUS
  <2>2. IsSeq(t) /\ Len(t) = 2 /\ t[1] = word /\ t[2] = word2 /\ dictionary' = dictionary \o t
    BY <1>4, <1>6, <2>1
  <2>3. /\ IsSeq(dictionary') /\ Len(dictionary') = Len(dictionary) + Len(t)
        /\ \A n \in 1..Len(dictionary) : dictionary'[n] = dictionary[n]
        /\ \A n \in 1..Len(t) : dictionary'[Len(dictionary) + n] = t[n]
    <3>1. IsSeq(t) /\ IsSeq(dictionary)
      BY <1>5, <2>2
    <3>2. PICK d : d = dictionary \o t
      OBVIOUS
    <3>3. /\ IsSeq(d) /\ Len(d) = Len(dictionary) + Len(t)
          /\ \A n \in 1..Len(dictionary) : d[n] = dictionary[n]
          /\ \A n \in 1..Len(t) : d[Len(dictionary) + n] = t[n]
      BY ONLY <3>1, <3>2, Joined
    <3>4. dictionary' = d
      BY <2>2, <3>2
    <3>5. QED
      BY <3>3, <3>4
  <2>4. 1 \in 1..Len(t) /\ 2 \in 1..Len(t) /\ u + 1 = Len(dictionary) + 2
    BY <1>2, <1>5, <2>2
  <2>5. QED
    BY <1>2, <2>2, <2>3, <2>4
<1>8. PICK a, b, c, a2, b2 :
        /\ a = cell("lit") /\ b = operand(garbage) /\ c = cell("exit")
        /\ a2 = cell("var_set") /\ b2 = operand(u)
  OBVIOUS
<1>9. /\ IsCell(a) /\ IsCell(b) /\ IsCell(c) /\ IsCell(a2) /\ IsCell(b2)
      /\ a.handler = "lit" /\ b.handler = "operand" /\ c.handler = "exit"
      /\ a2.handler = "var_set" /\ b2.value = u
  BY <1>8 DEF IsCell, cell, operand
<1>10. PICK code, code2 : code = Append(<<a, b>>, c) /\ code2 = Append(<<a2, b2>>, c)
  OBVIOUS
<1>11. u \in Nat /\ u + 1 \in Nat /\ u \in 1..((u + 1) - 1)
  BY <1>2, <1>5
<1>12. /\ IsCode(code) /\ Len(code) = 3 /\ code[1] = a /\ code[2] = b /\ code[3] = c
       /\ \E level : Finished(u, code, level)'
  <2>1. Three(a, b, c, code) /\ a.handler # "var_set"
    BY <1>9, <1>10 DEF Three
  <2>2. \E level : Finished(u, code, level)'
    BY <2>1, ThreeCells
  <2>3. IsCode(code) /\ Len(code) = 3
    BY <2>1, ThreeCells
  <2>4. code[1] = a /\ code[2] = b /\ code[3] = c
    BY <2>1, ThreeCells
  <2>5. QED
    BY <2>2, <2>3, <2>4
<1>13. IsVariable(code)
  BY <1>9, <1>12 DEF IsVariable
<1>14. IsCode(Append(<<cell("lit"), operand(garbage)>>, cell("exit")))
  BY <1>8, <1>10, <1>12
<1>15. IsWord(word) /\ word.code = code
  BY <1>3, <1>8, <1>10, <1>14, DefinedIs
<1>16. IsVariable(dictionary'[u].code)
  BY <1>7, <1>13, <1>15
<1>17. IsCode(code2) /\ \E level : Finished(u + 1, code2, level)'
  <2>1. Three(a2, b2, c, code2)
    BY <1>9, <1>10 DEF Three
  <2>2. b2.value \in 1..((u + 1) - 1) /\ IsVariable(dictionary'[b2.value].code)
    BY <1>9, <1>11, <1>16
  <2>3. QED
    BY <2>1, <2>2, ThreeCells
<1>18. IsWord(word2) /\ word2.code = code2
  BY <1>3, <1>8, <1>10, <1>17, DefinedIs
<1>19. /\ IsWord(dictionary'[u])
       /\ ~Broken(dictionary'[u]) => \E level : (Finished(u, dictionary[u].code, level))'
  BY <1>7, <1>12, <1>15
<1>20. PICK u2 : u2 = u + 1
  OBVIOUS
<1>21. /\ IsWord(dictionary'[u2])
       /\ ~Broken(dictionary'[u2]) => \E level : (Finished(u2, dictionary[u2].code, level))'
  <2>1. dictionary'[u2] = word2
    BY <1>7, <1>20
  <2>2. QED
    BY <1>17, <1>18, <1>20, <2>1
<1>22. \A v \in (Len(dictionary) + 1)..Len(dictionary') : v = u \/ v = u2
  BY <1>2, <1>5, <1>7, <1>20
<1>23. Len(dictionary') >= Len(dictionary)
  BY <1>5, <1>7
<1>24. QED
  BY <1>7, <1>19, <1>21, <1>22, <1>23, DictionaryGrows

\* forget keeps the words before the one that it is given.
LEMMA WordsForgotten ==
  ASSUME DictionaryOk, NEW name, forget(name)
  PROVE  DictionaryOk'
<1>1. IsSeq(dictionary) /\ DOMAIN dictionary = 1..Len(dictionary) /\ Len(dictionary) \in Nat
  BY IsSeqFacts DEF DictionaryOk
<1>2. CASE WordsNamed(name) = {}
  <2>1. dictionary' = dictionary
    BY <1>2 DEF forget
  <2>2. QED
    BY <2>1, SameDictionary
<1>3. CASE WordsNamed(name) # {}
  <2>1. WordsNamed(name) \subseteq 1..Len(dictionary)
    BY <1>1 DEF WordsNamed
  <2>2. Max(WordsNamed(name)) \in 1..Len(dictionary)
    BY <1>1, <1>3, <2>1, MaxIs
  <2>3. PICK n : n = Max(WordsNamed(name)) - 1
    OBVIOUS
  <2>4. n \in 0..Len(dictionary) /\ dictionary' = SubSeq(dictionary, 1, n)
    BY <1>1, <1>3, <2>2, <2>3 DEF forget
  <2>5. QED
    BY <2>4, DictionaryShrinks
<1>4. QED
  BY <1>2, <1>3

LEMMA AllForgotten ==
  ASSUME dictionary' = <<>>
  PROVE  DictionaryOk'
<1>1. IsSeq(dictionary)' /\ \A w \in DOMAIN dictionary' : FALSE
  BY EmptyIs DEF IsSeq
<1>2. QED
  BY <1>1 DEF DictionaryOk

-----------------------------------------------------------------------------
(* The invariant of the whole.                                             *)

\* What is built and run is sound until a definition that is broken is run.
SoundCode ==
  broken \/ (CompileOk /\ DictionaryOk /\ RunningOk /\ lost # "astray")

LEMMA NoneRunning ==
  ASSUME RunningOk, running = <<>>, running' = <<>>, UNCHANGED <<do_index, exited>>,
         failed => failed'
  PROVE  RunningOk'
<1>1. \A k \in DOMAIN running' : FALSE
  OBVIOUS
<1>2. running' \in Seq(Frames)
  OBVIOUS
<1>3. failed' \/ Balance(do_index, -2, 0)'
  BY DEF RunningOk, Balance
<1>4. do_index' \in Int
  BY DEF RunningOk
<1>5. QED
  BY <1>1, <1>2, <1>3, <1>4 DEF RunningOk

LEMMA CompilingStays ==
  ASSUME CompileOk, UNCHANGED <<mode, dictionary, compileVars>>
  PROVE  CompileOk'
<1>1. mode' = mode /\ dictionary' = dictionary /\ new' = new /\ conditions' = conditions
      /\ do_index2' = do_index2 /\ leave_words' = leave_words
  BY DEF compileVars
<1>2. ASSUME mode = "compile", ~Broken(new)
      PROVE  (\E level, inside :
                Built(new.code, conditions, leave_words, do_index2, level, inside))'
  <2>1. PICK level, inside :
          Built(new.code, conditions, leave_words, do_index2, level, inside)
    BY <1>2 DEF CompileOk
  <2>2. PICK code, list, leaves, loops :
          code = new.code /\ list = conditions /\ leaves = leave_words /\ loops = do_index2
    OBVIOUS
  <2>3. Built(code, list, leaves, loops, level, inside)
    BY <2>1, <2>2
  <2>4. Built(code, list, leaves, loops, level, inside)'
    BY <1>1, <2>3, SameBuilt
  <2>5. QED
    BY <1>1, <2>2, <2>4
<1>3. IsWord(new)' <=> IsWord(new)
  BY <1>1 DEF IsWord, IsCode, IsSeq
<1>4. Broken(new)' <=> Broken(new)
  BY <1>1, Zenon DEF Broken
<1>5. IsSeq(conditions)' <=> IsSeq(conditions)
  BY <1>1 DEF IsSeq
<1>6. QED
  BY <1>1, <1>2, <1>3, <1>4, <1>5 DEF CompileOk

LEMMA CompilingEnds ==
  ASSUME mode' = "interpret"
  PROVE  CompileOk'
BY DEF CompileOk

\* A word that is compiled.
LEMMA CompilingSound ==
  ASSUME SoundCode, ~broken,
         \/ \E n \in Numbers : CompileNumber(n)
         \/ \E word \in Plain : CompilePlain(word)
         \/ \E length \in Texts : CompileText(length)
         \/ \E word \in Structure : CompileOpener(word) \/ CompileMiddle(word) \/ CompileCloser(word)
  PROVE  SoundCode'
<1>1. CompileOk /\ DictionaryOk /\ RunningOk /\ lost # "astray"
  BY DEF SoundCode
<1>2. Reading /\ WhileCompiling
  BY Zenon DEF CompileNumber, CompilePlain, CompileText, WhileCompilingPlain, CompileOpener,
               CompileMiddle, CompileCloser, Compiling
<1>3. running = <<>> /\ ~failed /\ running' = running /\ dictionary' = dictionary
      /\ lost' = lost /\ do_index' = do_index /\ exited' = exited
  BY <1>2 DEF Reading, WhileCompiling, loopVars, histories
<1>4. CompileOk'
  BY <1>1, PlainCompiled, StructureCompiled
<1>5. DictionaryOk'
  BY <1>1, <1>3, SameDictionary
<1>6. RunningOk'
  BY <1>1, <1>3, NoneRunning
<1>7. QED
  BY <1>1, <1>3, <1>4, <1>5, <1>6 DEF SoundCode

\* What begins, ends or takes away a definition.
LEMMA DefiningSound ==
  ASSUME SoundCode, ~broken,
         \/ \E x \in Names : start_word(x) \/ constant(x) \/ variable(x)
         \/ start_word_in_word \/ end_word \/ reset
         \/ \E name \in Given : forget(name)
  PROVE  SoundCode'
<1>1. CompileOk /\ DictionaryOk /\ RunningOk /\ lost # "astray"
  BY DEF SoundCode
<1>2. /\ running = <<>> /\ ~failed /\ running' = running
      /\ lost' = lost /\ do_index' = do_index /\ exited' = exited
  BY DEF start_word, constant, variable, start_word_in_word, end_word, reset, forget,
         Defining, WhileDefining, Compiling, WhileCompiling, Interpreting, Reading,
         loopVars, histories
<1>3. RunningOk'
  BY <1>1, <1>2, NoneRunning
<1>4. ASSUME NEW x, start_word(x)
      PROVE  CompileOk' /\ DictionaryOk'
  <2>1. dictionary' = dictionary
    BY <1>4 DEF start_word
  <2>2. QED
    BY <1>1, <1>4, <2>1, DefinitionBegins, SameDictionary
<1>5. ASSUME NEW x, constant(x)
      PROVE  CompileOk' /\ DictionaryOk'
  <2>1. mode' = "interpret"
    BY <1>5 DEF constant, Defining, WhileDefining, Interpreting
  <2>2. QED
    BY <1>1, <1>5, <2>1, CompilingEnds, ConstantDefined
<1>6. ASSUME NEW x, variable(x)
      PROVE  CompileOk' /\ DictionaryOk'
  <2>1. mode' = "interpret"
    BY <1>6 DEF variable, Defining, WhileDefining, Interpreting
  <2>2. QED
    BY <1>1, <1>6, <2>1, CompilingEnds, VariableDefined
<1>7. CASE start_word_in_word
  <2>1. UNCHANGED <<mode, dictionary, compileVars>>
    BY <1>7 DEF start_word_in_word, WhileCompiling
  <2>2. CompileOk' /\ DictionaryOk'
    BY <1>1, <2>1, CompilingStays, SameDictionary
  <2>3. QED
    BY <1>1, <1>2, <1>3, <2>2 DEF SoundCode
<1>8. CASE end_word
  <2>1. CompileOk' /\ DictionaryOk'
    BY <1>1, <1>8, DefinitionEnds
  <2>2. QED
    BY <1>1, <1>2, <1>3, <2>1 DEF SoundCode
<1>9. CASE reset
  <2>1. mode' = "interpret" /\ dictionary' = <<>>
    BY <1>9 DEF reset, WhileDefining, Interpreting
  <2>2. CompileOk' /\ DictionaryOk'
    BY <2>1, CompilingEnds, AllForgotten
  <2>3. QED
    BY <1>1, <1>2, <1>3, <2>2 DEF SoundCode
<1>10. ASSUME NEW name, forget(name)
       PROVE  CompileOk' /\ DictionaryOk'
  <2>1. mode' = "interpret"
    BY <1>10 DEF forget, Interpreting
  <2>2. QED
    BY <1>1, <1>10, <2>1, CompilingEnds, WordsForgotten
<1>11. QED
  BY <1>1, <1>2, <1>3, <1>4, <1>5, <1>6, <1>7, <1>8, <1>9, <1>10 DEF SoundCode

\* A word of the dictionary is run.
LEMMA WordBegins ==
  ASSUME DictionaryOk, RunningOk, running = <<>>, ~failed, mode' = "interpret",
         UNCHANGED <<dictionary, do_index, exited>>,
         NEW w \in DOMAIN dictionary, ~Broken(dictionary[w]),
         running' = <<[word |-> w, at |-> 1, loops |-> do_index]>>
  PROVE  RunningOk'
<1>1. PICK level : Finished(w, dictionary[w].code, level)
  BY DEF DictionaryOk
<1>2. Balance(do_index, -2, 0) /\ do_index \in Int
  BY DEF RunningOk
<1>3. DOMAIN dictionary = 1..Len(dictionary) /\ Len(dictionary) \in Nat
  BY IsSeqFacts DEF DictionaryOk
<1>4. PICK f : f = [word |-> w, at |-> 1, loops |-> do_index]
  OBVIOUS
<1>5. f \in Frames /\ f.word = w /\ f.at = 1 /\ f.loops = do_index
  BY <1>2, <1>3, <1>4 DEF Frames
<1>6. /\ running' = <<f>> /\ running' \in Seq(Frames) /\ Len(running') = 1
      /\ running'[1] = f /\ DOMAIN running' = {1}
  BY <1>4, <1>5
<1>7. FrameOk(1)'
  <2>1. Place(1)' = 1 /\ Height(1)' = do_index'
    BY <1>5, <1>6 DEF Place, Height
  <2>2. Finished(w, dictionary[w].code, level)'
    BY <1>1, SameCode DEF CodeStays
  <2>3. Goes(level, 1, 0)
    BY <1>1 DEF Finished, Levels
  <2>4. Balance(do_index, do_index, 0)'
    BY <1>2 DEF Balance
  <2>5. QED
    BY <1>5, <1>6, <2>1, <2>2, <2>3, <2>4 DEF FrameOk, Goes
<1>8. Balance(running[Len(running)].loops, -2, 0)' /\ do_index >= -2
  BY <1>2, <1>5, <1>6 DEF Balance
<1>9. QED
  BY <1>2, <1>5, <1>6, <1>7, <1>8 DEF RunningOk

\* What is typed: a name, a word of the stack or of a structure, a number.
LEMMA TypingSound ==
  ASSUME SoundCode, ~broken, ~broken',
         \/ \E name \in Given : Name(name)
         \/ \E v \in Numbers : TypeNumber(v)
         \/ \E word \in StackWords : TypeStackWord(word)
         \/ TypeStructure \/ NewLine
  PROVE  SoundCode'
<1>1. CompileOk /\ DictionaryOk /\ RunningOk /\ lost # "astray"
  BY DEF SoundCode
<1>2. IsSeq(dictionary) /\ DOMAIN dictionary = 1..Len(dictionary) /\ Len(dictionary) \in Nat
  BY <1>1, IsSeqFacts DEF DictionaryOk
<1>3. ASSUME dictionary' = dictionary, running = <<>>, running' = <<>>,
             UNCHANGED <<do_index, exited>>, failed => failed', lost' # "astray",
             mode' = "interpret" \/ UNCHANGED <<mode, compileVars>>
      PROVE  SoundCode'
  <2>1. CompileOk'
    BY <1>1, <1>3, CompilingStays, CompilingEnds
  <2>2. DictionaryOk' /\ RunningOk'
    BY <1>1, <1>3, SameDictionary, NoneRunning
  <2>3. QED
    BY <1>3, <2>1, <2>2 DEF SoundCode
<1>4. ASSUME NEW name, Name(name)
      PROVE  SoundCode'
  <2>1. CASE WordsNamed(name) = {}
    <3>1. /\ dictionary' = dictionary /\ running = <<>> /\ running' = <<>>
          /\ UNCHANGED <<do_index, exited>> /\ failed' /\ lost' = lost /\ mode' = "interpret"
      BY <1>4, <2>1 DEF Name, Reading, loopVars, histories
    <3>2. QED
      BY <1>1, <1>3, <3>1
  <2>2. CASE WordsNamed(name) # {}
    <3>1. PICK w : w = Max(WordsNamed(name))
      OBVIOUS
    <3>2. w \in DOMAIN dictionary
      <4>1. WordsNamed(name) \subseteq 1..Len(dictionary)
        BY <1>2 DEF WordsNamed
      <4>2. QED
        BY <1>2, <2>2, <3>1, <4>1, MaxIs
    <3>3. CASE /\ Compiling /\ WhileCompiling /\ MorePlain
               /\ Emit("call", w, new.code, <<cell("call"), operand(w)>>)
               /\ UNCHANGED <<conditions, do_index2, leave_words>>
      <4>1. /\ mode = "compile" /\ UNCHANGED <<mode, dictionary>> /\ running = <<>>
            /\ running' = running /\ lost' = lost /\ ~failed
            /\ do_index' = do_index /\ exited' = exited
        BY <3>3 DEF Compiling, Reading, WhileCompiling, loopVars, histories
      <4>2. CompileOk'
        BY <1>1, <3>2, <3>3, <4>1, CallCompiled
      <4>3. DictionaryOk' /\ RunningOk'
        BY <1>1, <4>1, SameDictionary, NoneRunning
      <4>4. QED
        BY <1>1, <4>1, <4>2, <4>3 DEF SoundCode
    <3>4. CASE /\ Interpreting /\ Once
               /\ running' = <<[word |-> w, at |-> 1, loops |-> do_index]>>
               /\ broken' = (broken \/ Broken(dictionary[w]))
               /\ UNCHANGED <<exited, mode, data_stack, dictionary, compileVars, loopVars,
                              failed, lost>>
      <4>1. /\ mode' = "interpret" /\ running = <<>> /\ ~failed /\ ~Broken(dictionary[w])
            /\ UNCHANGED <<dictionary, do_index, exited>> /\ lost' = lost
        BY <3>4 DEF Interpreting, Reading, loopVars
      <4>2. RunningOk'
        BY <1>1, <3>2, <3>4, <4>1, WordBegins
      <4>3. CompileOk' /\ DictionaryOk'
        BY <1>1, <4>1, CompilingEnds, SameDictionary
      <4>4. QED
        BY <1>1, <4>1, <4>2, <4>3 DEF SoundCode
    <3>5. QED
      BY <1>4, <2>2, <3>1, <3>3, <3>4 DEF Name
  <2>3. QED
    BY <2>1, <2>2
<1>5. ASSUME NEW v, TypeNumber(v)
      PROVE  SoundCode'
  <2>1. /\ dictionary' = dictionary /\ running = <<>> /\ running' = <<>>
        /\ UNCHANGED <<do_index, exited>> /\ failed' = failed
        /\ UNCHANGED <<mode, compileVars>>
    BY <1>5 DEF TypeNumber, WhileTyping, Typing, Interpreting, Reading, loopVars, histories
  <2>2. lost' # "astray"
    BY <1>1, <1>5 DEF TypeNumber, Push
  <2>3. QED
    BY <1>3, <2>1, <2>2
<1>6. ASSUME NEW word, TypeStackWord(word)
      PROVE  SoundCode'
  <2>1. /\ dictionary' = dictionary /\ running = <<>> /\ running' = <<>>
        /\ UNCHANGED <<do_index, exited>> /\ (failed => failed')
        /\ UNCHANGED <<mode, compileVars>>
    BY <1>6 DEF TypeStackWord, WhileTyping, Typing, Interpreting, Reading, loopVars, histories
  <2>2. lost' # "astray"
    BY <1>1, <1>6 DEF TypeStackWord
  <2>3. QED
    BY <1>3, <2>1, <2>2
<1>7. CASE TypeStructure
  <2>1. /\ dictionary' = dictionary /\ running = <<>> /\ running' = <<>>
        /\ UNCHANGED <<do_index, exited>> /\ lost' = lost /\ failed'
        /\ UNCHANGED <<mode, compileVars>>
    BY <1>7 DEF TypeStructure, Interpreting, Reading, loopVars, histories
  <2>2. QED
    BY <1>1, <1>3, <2>1
<1>8. CASE NewLine
  <2>1. /\ dictionary' = dictionary /\ running' = <<>> /\ do_index' = -2
        /\ lost' = lost /\ UNCHANGED <<mode, compileVars>>
    BY <1>8 DEF NewLine
  <2>2. CompileOk' /\ DictionaryOk'
    BY <1>1, <2>1, CompilingStays, SameDictionary
  <2>3. RunningOk'
    <3>1. \A k \in DOMAIN running' : FALSE
      BY <2>1
    <3>2. running' \in Seq(Frames)
      BY <2>1
    <3>3. Balance(do_index, -2, 0)' /\ do_index' \in Int
      BY <2>1 DEF Balance
    <3>4. QED
      BY <2>1, <3>1, <3>2, <3>3 DEF RunningOk
  <2>4. QED
    BY <1>1, <2>1, <2>2, <2>3 DEF SoundCode
<1>9. QED
  BY <1>4, <1>5, <1>6, <1>7, <1>8

\* A cell is run.
LEMMA RunningSound ==
  ASSUME SoundCode, ~broken, ~broken',
         \/ RunNumber \/ RunIndex \/ RunText \/ RunUnloop \/ RunStackWord \/ RunCall \/ RunExit
         \/ RunIf \/ RunJump \/ RunOf \/ RunRangeof \/ RunDo \/ RunDo2 \/ RunLoop \/ RunLeave
         \/ RunVarSet \/ RunAstray \/ Lost
  PROVE  SoundCode'
<1>1. CompileOk /\ DictionaryOk /\ RunningOk /\ lost # "astray"
  BY DEF SoundCode
<1>2. ASSUME running # <<>>, WhileRunning, RunningOk', DictionaryOk', lost' # "astray"
      PROVE  SoundCode'
  <2>1. mode' = "interpret"
    BY <1>1, <1>2 DEF WhileRunning, RunningOk
  <2>2. QED
    BY <1>2, <2>1, CompilingEnds DEF SoundCode
<1>3. CASE \/ RunNumber \/ RunIndex \/ RunText \/ RunUnloop \/ RunStackWord
           \/ RunIf \/ RunJump \/ RunOf \/ RunRangeof
  <2>1. running # <<>> /\ WhileRunning /\ dictionary' = dictionary
    BY <1>3 DEF RunNumber, RunIndex, RunText, RunUnloop, RunStackWord, RunIf, RunJump, RunOf,
                RunRangeof, Executing, WhileRunningPlain
  <2>2. lost' # "astray"
    BY <1>1, <1>3 DEF RunNumber, RunIndex, RunText, RunUnloop, RunStackWord, RunIf, RunJump,
                      RunOf, RunRangeof, Push
  <2>3. QED
    BY <1>1, <1>2, <1>3, <2>1, <2>2, PlainRuns, SameDictionary
<1>4. CASE RunCall
  <2>1. running # <<>> /\ WhileRunning /\ dictionary' = dictionary /\ lost' = lost
    BY <1>4 DEF RunCall, Executing
  <2>2. QED
    BY <1>1, <1>2, <1>4, <2>1, CallRuns, SameDictionary
<1>5. CASE RunExit
  <2>1. running # <<>> /\ WhileRunning /\ dictionary' = dictionary /\ lost' = lost
    BY <1>5 DEF RunExit, Executing
  <2>2. QED
    BY <1>1, <1>2, <1>5, <2>1, ExitRuns, SameDictionary
<1>6. CASE RunDo \/ RunDo2 \/ RunLoop \/ RunLeave
  <2>1. running # <<>> /\ WhileRunning /\ dictionary' = dictionary
    BY <1>6 DEF RunDo, RunDo2, RunLoop, RunLeave, InLoop, Executing
  <2>2. lost' # "astray"
    BY <1>1, <1>6 DEF RunDo, RunDo2, RunLoop, RunLeave, InLoop
  <2>3. QED
    BY <1>1, <1>2, <1>6, <2>1, <2>2, LoopRuns, SameDictionary
<1>7. CASE RunVarSet
  <2>1. running # <<>> /\ WhileRunning /\ lost' = lost
    BY <1>7 DEF RunVarSet, Executing
  <2>2. QED
    BY <1>1, <1>2, <1>7, <2>1, SetRuns
<1>8. CASE RunAstray
  BY <1>1, <1>8, NotAstray
<1>9. CASE Lost
  <2>1. UNCHANGED <<mode, dictionary, compileVars, running, do_index, exited, failed, lost>>
    BY <1>9 DEF Lost, vars, loopVars, histories
  <2>2. RunningOk'
    BY <1>1, <2>1, NoneRunning, StandsStill
  <2>3. CompileOk' /\ DictionaryOk'
    BY <1>1, <2>1, CompilingStays, SameDictionary
  <2>4. QED
    BY <1>1, <2>1, <2>2, <2>3 DEF SoundCode
<1>10. QED
  BY <1>3, <1>4, <1>5, <1>6, <1>7, <1>8, <1>9

\* A table of the compiler is written past its end.
LEMMA OverrunSound ==
  ASSUME SoundCode, ~broken, NEW word, Overrun(word)
  PROVE  SoundCode'
<1>1. CompileOk /\ DictionaryOk /\ RunningOk
  BY DEF SoundCode
<1>2. /\ UNCHANGED <<mode, dictionary, compileVars, running, do_index, exited, failed>>
      /\ running = <<>> /\ ~failed /\ lost' # "astray"
  BY DEF Overrun, Compiling, Reading, loopVars, histories
<1>3. RunningOk'
  BY <1>1, <1>2, NoneRunning
<1>4. CompileOk' /\ DictionaryOk'
  BY <1>1, <1>2, CompilingStays, SameDictionary
<1>5. QED
  BY <1>2, <1>3, <1>4 DEF SoundCode

\* That a broken definition was run is never forgotten.
LEMMA BrokenStays ==
  ASSUME broken, Next
  PROVE  broken'
<1>1. CASE \/ \E n \in Numbers : CompileNumber(n)
           \/ \E word \in Plain : CompilePlain(word)
           \/ \E length \in Texts : CompileText(length)
           \/ \E word \in Structure :
                CompileOpener(word) \/ CompileMiddle(word) \/ CompileCloser(word)
           \/ start_word_in_word
  <2>1. WhileCompiling
    BY <1>1, Zenon DEF CompileNumber, CompilePlain, CompileText, WhileCompilingPlain,
                 CompileOpener, CompileMiddle, CompileCloser, start_word_in_word
  <2>2. QED
    BY <2>1 DEF WhileCompiling, histories
<1>2. CASE \/ \E x \in Names : start_word(x) \/ constant(x) \/ variable(x)
           \/ end_word \/ reset \/ \E name \in Given : forget(name)
  BY <1>2 DEF start_word, constant, variable, end_word, reset, forget, WhileDefining, histories
<1>3. CASE \E name \in Given : Name(name)
  BY <1>3 DEF Name, WhileCompiling, histories
<1>4. CASE \/ \E v \in Numbers : TypeNumber(v)
           \/ \E word \in StackWords : TypeStackWord(word)
           \/ TypeStructure \/ NewLine
  BY <1>4 DEF TypeNumber, TypeStackWord, TypeStructure, NewLine, WhileTyping, histories
<1>5. CASE \/ RunNumber \/ RunIndex \/ RunText \/ RunUnloop \/ RunStackWord
           \/ RunIf \/ RunJump \/ RunOf \/ RunRangeof
  <2>1. WhileRunningPlain
    BY <1>5 DEF RunNumber, RunIndex, RunText, RunUnloop, RunStackWord, RunIf, RunJump, RunOf,
                RunRangeof
  <2>2. QED
    BY <2>1 DEF WhileRunningPlain, histories
<1>6. CASE RunCall \/ RunExit \/ RunVarSet \/ RunAstray
  BY <1>6 DEF RunCall, RunExit, RunVarSet, RunAstray, histories
<1>7. CASE RunDo \/ RunDo2 \/ RunLoop \/ RunLeave \/ Lost
  BY <1>7 DEF RunDo, RunDo2, RunLoop, RunLeave, InLoop, Lost, vars, histories
<1>8. CASE \E word \in Structure : Overrun(word)
  BY <1>8 DEF Overrun, histories
<1>9. QED
  BY <1>1, <1>2, <1>3, <1>4, <1>5, <1>6, <1>7, <1>8 DEF Next

LEMMA SoundAtFirst ==
  ASSUME Init
  PROVE  SoundCode
<1>1. CompileOk
  BY DEF Init, CompileOk
<1>2. DictionaryOk
  <2>1. dictionary = <<>> /\ \A w \in DOMAIN dictionary : FALSE
    BY DEF Init
  <2>2. QED
    BY <2>1, EmptyIs DEF DictionaryOk
<1>3. RunningOk
  <2>1. /\ running = <<>> /\ running \in Seq(Frames) /\ do_index = -2
        /\ \A k \in DOMAIN running : FALSE
    BY DEF Init
  <2>2. Balance(do_index, -2, 0)
    BY <2>1 DEF Balance
  <2>3. QED
    BY <2>1, <2>2 DEF RunningOk
<1>4. QED
  BY <1>1, <1>2, <1>3 DEF Init, SoundCode

LEMMA SoundNext ==
  ASSUME SoundCode, [Next]_vars
  PROVE  SoundCode'
<1>1. CASE broken'
  BY <1>1 DEF SoundCode
<1>2. CASE ~broken' /\ Next
  <2>1. ~broken
    BY <1>2, BrokenStays
  <2>2. CASE \/ \E n \in Numbers : CompileNumber(n)
             \/ \E word \in Plain : CompilePlain(word)
             \/ \E length \in Texts : CompileText(length)
             \/ \E word \in Structure :
                  CompileOpener(word) \/ CompileMiddle(word) \/ CompileCloser(word)
    BY <2>1, <2>2, CompilingSound
  <2>3. CASE \/ \E x \in Names : start_word(x) \/ constant(x) \/ variable(x)
             \/ start_word_in_word \/ end_word \/ reset
             \/ \E name \in Given : forget(name)
    BY <2>1, <2>3, DefiningSound
  <2>4. CASE \/ \E name \in Given : Name(name)
             \/ \E v \in Numbers : TypeNumber(v)
             \/ \E word \in StackWords : TypeStackWord(word)
             \/ TypeStructure \/ NewLine
    BY <1>2, <2>1, <2>4, TypingSound
  <2>5. CASE \/ RunNumber \/ RunIndex \/ RunText \/ RunUnloop \/ RunStackWord \/ RunCall
             \/ RunExit \/ RunIf \/ RunJump \/ RunOf \/ RunRangeof \/ RunDo \/ RunDo2
             \/ RunLoop \/ RunLeave \/ RunVarSet \/ RunAstray \/ Lost
    BY <1>2, <2>1, <2>5, RunningSound
  <2>6. CASE \E word \in Structure : Overrun(word)
    BY <2>1, <2>6, OverrunSound
  <2>7. QED
    BY <1>2, <2>2, <2>3, <2>4, <2>5, <2>6 DEF Next
<1>3. CASE ~broken' /\ UNCHANGED vars
  <2>1. /\ UNCHANGED <<mode, dictionary, compileVars, running, do_index, exited, failed, lost>>
        /\ ~broken
    BY <1>3 DEF vars, loopVars, histories
  <2>2. CompileOk /\ DictionaryOk /\ RunningOk /\ lost # "astray"
    BY <2>1 DEF SoundCode
  <2>3. RunningOk'
    BY <2>1, <2>2, NoneRunning, StandsStill
  <2>4. CompileOk' /\ DictionaryOk'
    BY <2>1, <2>2, CompilingStays, SameDictionary
  <2>5. QED
    BY <2>1, <2>2, <2>3, <2>4 DEF SoundCode
<1>4. QED
  BY <1>1, <1>2, <1>3

\* Whatever is typed, until a broken definition is run: the definition that is
\* being compiled and those of the dictionary have a level for each of their
\* cells that is kept by every way to go on, and what runs is in it
\* (forth_core.c:64-80, forth_words.c:910-1145).
THEOREM CodeIsSound == Spec => []SoundCode
<1>1. Init => SoundCode
  BY SoundAtFirst
<1>2. SoundCode /\ [Next]_vars => SoundCode'
  BY SoundNext
<1>3. QED
  BY <1>1, <1>2, PTL DEF Spec

\* Nothing but the code of the dictionary is run: through jumps, calls, returns,
\* literals and texts fvm_current_word comes to handlers only, and no loop goes
\* on that did not begin (forth_core.c:64-80, forth_words.c:923-1145).
THEOREM AlwaysInCode == Spec => []NeverAstray
<1>1. SoundCode => NeverAstray
  BY DEF SoundCode, NeverAstray
<1>2. QED
  BY <1>1, CodeIsSound, PTL

\* A word that ends leaves the stack of loop variables as high as it was when
\* it was called, and a line leaves it empty, whichever way each loop was left
\* but exit (forth_words.c:1019-1087, 1291-1299, 1776-1781).
THEOREM LoopsEnd == Spec => []LoopsBalanced
<1>1. ASSUME SoundCode
      PROVE  LoopsBalanced
  <2>1. SUFFICES ASSUME ~broken, ~exited, lost = "no"
                 PROVE  IF running = <<>> THEN failed \/ do_index = -2
                        ELSE Frame.at = Len(Code) => do_index = Frame.loops
    BY DEF LoopsBalanced
  <2>2. RunningOk
    BY <1>1, <2>1 DEF SoundCode
  <2>3. CASE running = <<>>
    <3>1. failed \/ Balance(do_index, -2, 0)
      BY <2>2, <2>3 DEF RunningOk
    <3>2. QED
      BY <2>1, <2>3, <3>1 DEF Balance
  <2>4. CASE running # <<>>
    <3>1. SUFFICES ASSUME Frame.at = Len(Code) PROVE do_index = Frame.loops
      BY <2>4
    <3>2. PICK level : /\ Finished(Frame.word, Code, level)
                       /\ Frame.at \in DOMAIN level
                       /\ Balance(do_index, Frame.loops, level[Frame.at])
      BY <2>2, <2>4, AtHandler
    <3>3. level[Frame.at] = 0 /\ do_index \in Int /\ Frame.loops \in Int
      BY <2>2, <2>4, <3>1, <3>2, AtHandler DEF Finished, Frames
    <3>4. QED
      BY <2>1, <3>2, <3>3 DEF Balance
  <2>5. QED
    BY <2>3, <2>4
<1>2. QED
  BY <1>1, CodeIsSound, PTL

-----------------------------------------------------------------------------
(* What the words do to the stack.                                         *)

Commented == {"2swap", "over", "rot", "-rot", "tuck", "?dup", "roll", "-roll", "within"}

\* Two stacks of the same length with the same numbers.
LEMMA SameStack ==
  ASSUME NEW s \in Seq(Int), NEW t \in Seq(Int), Len(s) = Len(t),
         \A n \in 1..Len(s) : s[n] = t[n]
  PROVE  s = t
OBVIOUS

\* The numbers of s, and behind them those of t.
JoinedAre(s, t, d) ==
  /\ d \in Seq(Int) /\ Len(d) = Len(s) + Len(t)
  /\ \A n \in 1..Len(s) : d[n] = s[n]
  /\ \A n \in (Len(s) + 1)..(Len(s) + Len(t)) : d[n] = t[n - Len(s)]

LEMMA JoinedNumbers ==
  ASSUME NEW s \in Seq(Int), NEW t \in Seq(Int)
  PROVE  JoinedAre(s, t, s \o t)
BY DEF JoinedAre

\* The numbers m to k.
PartIs(s, m, k, d) ==
  /\ d \in Seq(Int) /\ Len(d) = k - m + 1
  /\ \A n \in 1..(k - m + 1) : d[n] = s[n + m - 1]

LEMMA SomeNumbers ==
  ASSUME NEW s \in Seq(Int), NEW m \in 1..(Len(s) + 1), NEW k \in (m - 1)..Len(s)
  PROVE  PartIs(s, m, k, SubSeq(s, m, k))
BY DEF PartIs

LEMMA RestOfNumbers ==
  ASSUME NEW s \in Seq(Int), NEW m \in 1..(Len(s) + 1)
  PROVE  PartIs(s, m, Len(s), SubSeq(s, m, Len(s)))
BY DEF PartIs

LEMMA SwapCommented ==
  ASSUME NEW s \in Seq(Int), Len(s) > 3
  PROVE  swap2(s) = Comment("2swap", s)
<1> DEFINE x == <<s[3], s[4], s[1], s[2]>>
           y == SubSeq(s, 5, Len(s))
           t == x \o y
<1>1. swap2(s) \in Seq(Int) /\ Len(swap2(s)) = Len(s)
  BY DEF swap2
<1>2. /\ x \in Seq(Int) /\ Len(x) = 4
      /\ x[1] = s[3] /\ x[2] = s[4] /\ x[3] = s[1] /\ x[4] = s[2]
  OBVIOUS
<1>3. PartIs(s, 5, Len(s), y)
  <2>1. 5 \in 1..(Len(s) + 1) /\ Len(s) \in (5 - 1)..Len(s)
    OBVIOUS
  <2>2. QED
    BY <2>1, SomeNumbers, Zenon
<1>4. swap2(s) = [s EXCEPT ![1] = s[3], ![3] = s[1], ![2] = s[4], ![4] = s[2]]
  BY DEF swap2
<1>5. Comment("2swap", s) = t
  BY DEF Comment
<1> HIDE DEF x, y
<1>6. JoinedAre(x, y, t)
  <2>1. y \in Seq(Int)
    BY <1>3 DEF PartIs
  <2>2. QED
    BY <1>2, <2>1, JoinedNumbers, Zenon
<1> HIDE DEF t
<1>7. t \in Seq(Int) /\ Len(t) = Len(s)
  BY <1>2, <1>3, <1>6 DEF JoinedAre, PartIs
<1>8. ASSUME NEW n \in 1..Len(s) PROVE swap2(s)[n] = t[n]
  <2>1. CASE n > 4
    <3>1. n - 4 \in 1..(Len(s) - 5 + 1) /\ (n - 4) + 5 - 1 = n
      BY <2>1
    <3>2. t[n] = y[n - 4]
      <4>1. Len(x) = 4 /\ n \in (Len(x) + 1)..(Len(x) + Len(y))
        BY <1>2, <1>3, <2>1 DEF PartIs
      <4>2. QED
        BY <1>6, <4>1, Zenon DEF JoinedAre
    <3>3. y[n - 4] = s[n]
      BY <1>3, <3>1 DEF PartIs
    <3>4. swap2(s)[n] = s[n]
      <4>1. n \in DOMAIN s /\ n # 1 /\ n # 2 /\ n # 3 /\ n # 4
        BY <2>1
      <4>2. QED
        BY <1>4, <4>1, Zenon
    <3>5. QED
      BY <3>2, <3>3, <3>4
  <2>2. CASE n \in {1, 2, 3, 4}
    <3>1. t[n] = x[n]
      <4>1. n \in 1..Len(x)
        BY <1>2, <2>2
      <4>2. QED
        BY <1>6, <4>1, Zenon DEF JoinedAre
    <3>2. QED
      BY <1>2, <1>4, <2>2, <3>1
  <2>3. QED
    BY <2>1, <2>2
<1>9. QED
  BY <1>1, <1>5, <1>7, <1>8, SameStack

LEMMA OverCommented ==
  ASSUME NEW s \in Seq(Int), Len(s) > 1
  PROVE  over(s) = Comment("over", s)
<1> DEFINE x == <<s[2], s[1], s[2]>>
           y == SubSeq(s, 3, Len(s))
           t == x \o y
           o == <<s[2]>>
           v == o \o s
<1>1. x \in Seq(Int) /\ Len(x) = 3 /\ x[1] = s[2] /\ x[2] = s[1] /\ x[3] = s[2]
  OBVIOUS
<1>2. PartIs(s, 3, Len(s), y)
  <2>1. 3 \in 1..(Len(s) + 1) /\ Len(s) \in (3 - 1)..Len(s)
    OBVIOUS
  <2>2. QED
    BY <2>1, SomeNumbers, Zenon
<1>3. o \in Seq(Int) /\ Len(o) = 1 /\ o[1] = s[2]
  OBVIOUS
<1>4. Comment("over", s) = t /\ over(s) = v
  BY DEF Comment, over
<1> HIDE DEF x, y, o
<1>5. JoinedAre(x, y, t) /\ JoinedAre(o, s, v)
  <2>1. y \in Seq(Int)
    BY <1>2 DEF PartIs
  <2>2. QED
    BY <1>1, <1>3, <2>1, JoinedNumbers, Zenon
<1> HIDE DEF t, v
<1>6. /\ t \in Seq(Int) /\ Len(t) = Len(s) + 1
      /\ v \in Seq(Int) /\ Len(v) = Len(s) + 1
  BY <1>1, <1>2, <1>3, <1>5 DEF JoinedAre, PartIs
<1>7. ASSUME NEW n \in 1..(Len(s) + 1) PROVE v[n] = t[n]
  <2>1. CASE n > 3
    <3>1. n - 3 \in 1..(Len(s) - 3 + 1) /\ (n - 3) + 3 - 1 = n - 1
      BY <2>1
    <3>2. t[n] = y[n - 3]
      <4>1. n \in (Len(x) + 1)..(Len(x) + Len(y))
        BY <1>1, <1>2, <2>1 DEF PartIs
      <4>2. QED
        BY <1>1, <1>5, <4>1 DEF JoinedAre
    <3>3. y[n - 3] = s[n - 1]
      BY <1>2, <3>1 DEF PartIs
    <3>4. v[n] = s[n - 1]
      <4>1. n \in (Len(o) + 1)..(Len(o) + Len(s))
        BY <1>3, <2>1
      <4>2. v[n] = s[n - Len(o)]
        BY <1>5, <4>1, Zenon DEF JoinedAre
      <4>3. QED
        BY <1>3, <4>2
    <3>5. QED
      BY <3>2, <3>3, <3>4
  <2>2. CASE n \in {1, 2, 3}
    <3>1. t[n] = x[n]
      <4>1. n \in 1..Len(x)
        BY <1>1, <2>2
      <4>2. QED
        BY <1>5, <4>1, Zenon DEF JoinedAre
    <3>2. v[n] = IF n = 1 THEN s[2] ELSE s[n - 1]
      <4>1. /\ n = 1 => n \in 1..Len(o)
            /\ n # 1 => n \in (Len(o) + 1)..(Len(o) + Len(s))
        BY <1>3, <2>2
      <4>2. /\ n = 1 => v[n] = o[n]
            /\ n # 1 => v[n] = s[n - Len(o)]
        BY <1>5, <4>1, Zenon DEF JoinedAre
      <4>3. QED
        BY <1>3, <4>2
    <3>3. QED
      BY <1>1, <2>2, <3>1, <3>2
  <2>3. QED
    BY <2>1, <2>2
<1>8. QED
  BY <1>4, <1>6, <1>7, SameStack

LEMMA RollCommented ==
  ASSUME NEW s \in Seq(Int), Len(s) > 0, s[1] > 0 => s[1] + 2 <= Len(s)
  PROVE  roll(s) = Comment("roll", s)
<1>1. CASE s[1] <= 0
  BY <1>1 DEF roll, Comment
<1>2. CASE s[1] > 0
  <2> DEFINE u == s[1]
             t == Tail(s)
             r == [n \in DOMAIN t |-> IF n = 1 THEN t[u + 1]
                                      ELSE IF n \in 2..(u + 1) THEN t[n - 1] ELSE t[n]]
             a == SubSeq(s, 2, u + 1)
             x == <<s[u + 2]>>
             b == SubSeq(s, u + 3, Len(s))
             p == x \o a
             c == p \o b
  <2>1. u \in Int
    OBVIOUS
  <2>2. u \in 1..(Len(s) - 2) /\ Len(s) \in Nat
    BY <1>2, <2>1
  <2>3. roll(s) = r
    BY <1>2, Zenon DEF roll
  <2>4. Comment("roll", s) = c
    <3>1. ~(s[1] <= 0)
      BY <1>2
    <3>2. QED
      BY <3>1 DEF Comment
  <2> HIDE DEF u
  <2>5. /\ DOMAIN t = 1..(Len(s) - 1)
        /\ \A n \in 1..(Len(s) - 1) : t[n] = s[n + 1] /\ s[n + 1] \in Int
    BY <2>2
  <2>6. x \in Seq(Int) /\ Len(x) = 1 /\ x[1] = s[u + 2]
    BY <2>2
  <2>7. PartIs(s, 2, u + 1, a)
    <3>1. 2 \in 1..(Len(s) + 1) /\ u + 1 \in (2 - 1)..Len(s)
      BY <2>2
    <3>2. QED
      BY <3>1, SomeNumbers, Zenon
  <2>8. PartIs(s, u + 3, Len(s), b)
    <3>1. u + 3 \in 1..(Len(s) + 1)
      BY <2>2
    <3>2. QED
      BY <3>1, RestOfNumbers, Zenon
  <2> HIDE DEF t, a, x, b
  <2>9. \A n \in 1..(Len(s) - 1) :
          r[n] = IF n = 1 THEN s[u + 2] ELSE IF n \in 2..(u + 1) THEN s[n] ELSE s[n + 1]
    <3>1. \A n \in 1..(Len(s) - 1) :
            r[n] = IF n = 1 THEN t[u + 1] ELSE IF n \in 2..(u + 1) THEN t[n - 1] ELSE t[n]
      BY <2>5
    <3>2. SUFFICES ASSUME NEW n \in 1..(Len(s) - 1)
                   PROVE  r[n] = IF n = 1 THEN s[u + 2] ELSE IF n \in 2..(u + 1) THEN s[n] ELSE s[n + 1]
      OBVIOUS
    <3> HIDE DEF r
    <3>3. r[n] = IF n = 1 THEN t[u + 1] ELSE IF n \in 2..(u + 1) THEN t[n - 1] ELSE t[n]
      BY <3>1
    <3>4. \A k \in Int : 1 <= k /\ k <= Len(s) - 1 => t[k] = s[k + 1]
      BY <2>2, <2>5
    <3>5. t[u + 1] = s[u + 2]
      <4>1. t[u + 1] = s[u + 1 + 1]
        BY <2>2, <3>4
      <4>2. u + 1 + 1 = u + 2
        BY <2>2
      <4>3. QED
        BY <4>1, <4>2
    <3>6. n \in 2..(u + 1) => t[n - 1] = s[n]
      <4>1. SUFFICES ASSUME n \in 2..(u + 1) PROVE t[n - 1] = s[n]
        OBVIOUS
      <4>2. t[n - 1] = s[n - 1 + 1]
        BY <2>2, <3>4, <4>1
      <4>3. n - 1 + 1 = n
        OBVIOUS
      <4>4. QED
        BY <4>2, <4>3
    <3>7. t[n] = s[n + 1]
      BY <2>5
    <3>8. QED
      BY <3>3, <3>5, <3>6, <3>7, Zenon
  <2>10. DOMAIN r = 1..(Len(s) - 1)
    BY <2>5
  <2>11. r \in [1..(Len(s) - 1) -> Int]
    <3>1. r = [n \in 1..(Len(s) - 1) |-> r[n]]
      BY <2>5, <2>10
    <3> HIDE DEF r
    <3>2. \A n \in 1..(Len(s) - 1) : r[n] \in Int
      BY <2>2, <2>9
    <3>3. QED
      BY <3>1, <3>2
  <2> HIDE DEF r
  <2>12. r \in Seq(Int) /\ Len(r) = Len(s) - 1
    <3>1. Len(s) - 1 \in Nat
      BY <2>2
    <3>2. r \in Seq(Int)
      BY <2>11, <3>1, SeqDef
    <3>3. QED
      BY <2>11, <3>1, <3>2, LenProperties
  <2>13. a \in Seq(Int) /\ b \in Seq(Int)
    BY <2>7, <2>8 DEF PartIs
  <2>14. JoinedAre(x, a, p)
    BY <2>6, <2>13, JoinedNumbers, Zenon
  <2> HIDE DEF p
  <2>15. p \in Seq(Int)
    BY <2>14 DEF JoinedAre
  <2>16. JoinedAre(p, b, c)
    BY <2>13, <2>15, JoinedNumbers, Zenon
  <2> HIDE DEF c
  <2>17. Len(p) = u + 1 /\ Len(b) = Len(s) - u - 2 /\ Len(a) = u
    BY <2>2, <2>6, <2>7, <2>8, <2>14 DEF JoinedAre, PartIs
  <2>18. c \in Seq(Int) /\ Len(c) = Len(s) - 1
    BY <2>2, <2>16, <2>17 DEF JoinedAre
  <2>19. ASSUME NEW n \in 1..(Len(s) - 1) PROVE r[n] = c[n]
    <3>1. CASE n > u + 1
      <4>1. n - (u + 1) \in 1..(Len(s) - (u + 3) + 1) /\ (n - (u + 1)) + (u + 3) - 1 = n + 1
        BY <2>2, <3>1
      <4>2. c[n] = b[n - (u + 1)]
        <5>1. n \in (Len(p) + 1)..(Len(p) + Len(b))
          BY <2>2, <2>17, <3>1
        <5>2. c[n] = b[n - Len(p)]
          BY <2>16, <5>1, Zenon DEF JoinedAre
        <5>3. QED
          BY <2>17, <5>2
      <4>3. b[n - (u + 1)] = s[n + 1]
        BY <2>8, <4>1 DEF PartIs
      <4>4. QED
        BY <2>2, <2>9, <3>1, <4>2, <4>3
    <3>2. CASE n <= u + 1
      <4>1. c[n] = p[n]
        <5>1. n \in 1..Len(p)
          BY <2>2, <2>17, <3>2
        <5>2. QED
          BY <2>16, <5>1, Zenon DEF JoinedAre
      <4>2. p[n] = IF n = 1 THEN x[1] ELSE a[n - 1]
        <5>1. /\ n = 1 => n \in 1..Len(x)
              /\ n # 1 => n \in (Len(x) + 1)..(Len(x) + Len(a))
          BY <2>2, <2>6, <2>17, <3>2
        <5>2. /\ n = 1 => p[n] = x[n]
              /\ n # 1 => p[n] = a[n - Len(x)]
          BY <2>14, <5>1, Zenon DEF JoinedAre
        <5>3. QED
          BY <2>6, <5>1, <5>2
      <4>3. n # 1 => a[n - 1] = s[n]
        <5>1. SUFFICES ASSUME n # 1 PROVE a[n - 1] = s[n]
          OBVIOUS
        <5>2. (n - 1) \in 1..((u + 1) - 2 + 1) /\ (n - 1) + 2 - 1 = n
          BY <2>2, <3>2, <5>1
        <5>3. a[n - 1] = s[(n - 1) + 2 - 1]
          BY <2>7, <5>2, Zenon DEF PartIs
        <5>4. QED
          BY <5>2, <5>3
      <4>4. QED
        BY <2>2, <2>6, <2>9, <3>2, <4>1, <4>2, <4>3
    <3>3. QED
      BY <2>2, <3>1, <3>2
  <2>20. QED
    BY <2>3, <2>12, <2>18, <2>19, <2>4, SameStack
<1>3. s[1] \in Int
  OBVIOUS
<1>4. QED
  BY <1>1, <1>2, <1>3

LEMMA BackRollCommented ==
  ASSUME NEW s \in Seq(Int), Len(s) > 0, s[1] > 0 => s[1] + 2 <= Len(s)
  PROVE  mroll(s) = Comment("-roll", s)
<1>1. CASE s[1] <= 0
  BY <1>1 DEF mroll, Comment
<1>2. CASE s[1] > 0
  <2> DEFINE u == s[1]
             t == Tail(s)
             r == [n \in DOMAIN t |-> IF n = u + 1 THEN t[1]
                                      ELSE IF n \in 1..u THEN t[n + 1] ELSE t[n]]
             a == SubSeq(s, 3, u + 2)
             x == <<s[2]>>
             b == SubSeq(s, u + 3, Len(s))
             p == a \o x
             c == p \o b
  <2>1. u \in Int
    OBVIOUS
  <2>2. u \in 1..(Len(s) - 2) /\ Len(s) \in Nat
    BY <1>2, <2>1
  <2>3. mroll(s) = r
    BY <1>2, Zenon DEF mroll
  <2>4. Comment("-roll", s) = c
    <3>1. ~(s[1] <= 0)
      BY <1>2
    <3>2. QED
      BY <3>1 DEF Comment
  <2> HIDE DEF u
  <2>5. /\ DOMAIN t = 1..(Len(s) - 1)
        /\ \A n \in 1..(Len(s) - 1) : t[n] = s[n + 1] /\ s[n + 1] \in Int
    BY <2>2
  <2>6. x \in Seq(Int) /\ Len(x) = 1 /\ x[1] = s[2]
    BY <2>2
  <2>7. PartIs(s, 3, u + 2, a)
    <3>1. 3 \in 1..(Len(s) + 1) /\ u + 2 \in (3 - 1)..Len(s)
      BY <2>2
    <3>2. QED
      BY <3>1, SomeNumbers, Zenon
  <2>8. PartIs(s, u + 3, Len(s), b)
    <3>1. u + 3 \in 1..(Len(s) + 1)
      BY <2>2
    <3>2. QED
      BY <3>1, RestOfNumbers, Zenon
  <2> HIDE DEF t, a, x, b
  <2>9. \A n \in 1..(Len(s) - 1) :
          r[n] = IF n = u + 1 THEN s[2] ELSE IF n \in 1..u THEN s[n + 2] ELSE s[n + 1]
    <3>1. \A n \in 1..(Len(s) - 1) :
            r[n] = IF n = u + 1 THEN t[1] ELSE IF n \in 1..u THEN t[n + 1] ELSE t[n]
      BY <2>5
    <3>2. SUFFICES ASSUME NEW n \in 1..(Len(s) - 1)
                   PROVE  r[n] = IF n = u + 1 THEN s[2] ELSE IF n \in 1..u THEN s[n + 2] ELSE s[n + 1]
      OBVIOUS
    <3> HIDE DEF r
    <3>3. r[n] = IF n = u + 1 THEN t[1] ELSE IF n \in 1..u THEN t[n + 1] ELSE t[n]
      BY <3>1
    <3>4. \A k \in Int : 1 <= k /\ k <= Len(s) - 1 => t[k] = s[k + 1]
      BY <2>2, <2>5
    <3>5. t[1] = s[2]
      BY <2>2, <3>4
    <3>6. n \in 1..u => t[n + 1] = s[n + 2]
      <4>1. SUFFICES ASSUME n \in 1..u PROVE t[n + 1] = s[n + 2]
        OBVIOUS
      <4>2. t[n + 1] = s[n + 1 + 1]
        BY <2>2, <3>4, <4>1
      <4>3. n + 1 + 1 = n + 2
        OBVIOUS
      <4>4. QED
        BY <4>2, <4>3
    <3>7. t[n] = s[n + 1]
      BY <2>5
    <3>8. QED
      BY <3>3, <3>5, <3>6, <3>7, Zenon
  <2>10. DOMAIN r = 1..(Len(s) - 1)
    BY <2>5
  <2>11. r \in [1..(Len(s) - 1) -> Int]
    <3>1. r = [n \in 1..(Len(s) - 1) |-> r[n]]
      BY <2>5, <2>10
    <3> HIDE DEF r
    <3>2. \A n \in 1..(Len(s) - 1) : r[n] \in Int
      BY <2>2, <2>9
    <3>3. QED
      BY <3>1, <3>2
  <2> HIDE DEF r
  <2>12. r \in Seq(Int) /\ Len(r) = Len(s) - 1
    <3>1. Len(s) - 1 \in Nat
      BY <2>2
    <3>2. r \in Seq(Int)
      BY <2>11, <3>1, SeqDef
    <3>3. QED
      BY <2>11, <3>1, <3>2, LenProperties
  <2>13. a \in Seq(Int) /\ b \in Seq(Int)
    BY <2>7, <2>8 DEF PartIs
  <2>14. JoinedAre(a, x, p)
    BY <2>6, <2>13, JoinedNumbers, Zenon
  <2> HIDE DEF p
  <2>15. p \in Seq(Int)
    BY <2>14 DEF JoinedAre
  <2>16. JoinedAre(p, b, c)
    BY <2>13, <2>15, JoinedNumbers, Zenon
  <2> HIDE DEF c
  <2>17. Len(p) = u + 1 /\ Len(b) = Len(s) - u - 2 /\ Len(a) = u
    BY <2>2, <2>6, <2>7, <2>8, <2>14 DEF JoinedAre, PartIs
  <2>18. c \in Seq(Int) /\ Len(c) = Len(s) - 1
    BY <2>2, <2>16, <2>17 DEF JoinedAre
  <2>19. ASSUME NEW n \in 1..(Len(s) - 1) PROVE r[n] = c[n]
    <3>1. CASE n > u + 1
      <4>1. n - (u + 1) \in 1..(Len(s) - (u + 3) + 1) /\ (n - (u + 1)) + (u + 3) - 1 = n + 1
        BY <2>2, <3>1
      <4>2. c[n] = b[n - (u + 1)]
        <5>1. n \in (Len(p) + 1)..(Len(p) + Len(b))
          BY <2>2, <2>17, <3>1
        <5>2. c[n] = b[n - Len(p)]
          BY <2>16, <5>1, Zenon DEF JoinedAre
        <5>3. QED
          BY <2>17, <5>2
      <4>3. b[n - (u + 1)] = s[n + 1]
        BY <2>8, <4>1 DEF PartIs
      <4>4. QED
        BY <2>2, <2>9, <3>1, <4>2, <4>3
    <3>2. CASE n <= u + 1
      <4>1. c[n] = p[n]
        <5>1. n \in 1..Len(p)
          BY <2>2, <2>17, <3>2
        <5>2. QED
          BY <2>16, <5>1, Zenon DEF JoinedAre
      <4>2. p[n] = IF n = u + 1 THEN x[1] ELSE a[n]
        <5>1. /\ n # u + 1 => n \in 1..Len(a)
              /\ n = u + 1 => n \in (Len(a) + 1)..(Len(a) + Len(x))
          BY <2>2, <2>6, <2>17, <3>2
        <5>2. /\ n # u + 1 => p[n] = a[n]
              /\ n = u + 1 => p[n] = x[n - Len(a)]
          BY <2>14, <5>1, Zenon DEF JoinedAre
        <5>3. (u + 1) - u = 1
          BY <2>2
        <5>4. QED
          BY <2>17, <5>1, <5>2, <5>3
      <4>3. n # u + 1 => a[n] = s[n + 2]
        <5>1. SUFFICES ASSUME n # u + 1 PROVE a[n] = s[n + 2]
          OBVIOUS
        <5>2. n \in 1..((u + 2) - 3 + 1) /\ n + 3 - 1 = n + 2
          BY <2>2, <3>2, <5>1
        <5>3. a[n] = s[n + 3 - 1]
          BY <2>7, <5>2, Zenon DEF PartIs
        <5>4. QED
          BY <5>2, <5>3
      <4>4. QED
        BY <2>2, <2>6, <2>9, <3>2, <4>1, <4>2, <4>3
    <3>3. QED
      BY <2>2, <3>1, <3>2
  <2>20. QED
    BY <2>3, <2>12, <2>18, <2>19, <2>4, SameStack
<1>3. s[1] \in Int
  OBVIOUS
<1>4. QED
  BY <1>1, <1>2, <1>3

LEMMA WithinCommented ==
  ASSUME NEW s \in Seq(Int), Len(s) > 2
  PROVE  within(s) = Comment("within", s)
<1>1. (s[3] >= s[2] /\ s[3] < s[1]) <=> s[3] \in s[2]..(s[1] - 1)
  OBVIOUS
<1>2. QED
  BY <1>1 DEF within, Replace, Truth, Comment

\* Each word that has enough numbers does what its comment says.
LEMMA WordCommented ==
  ASSUME NEW s \in Seq(Int), NEW word \in Commented, ~Fails(word, s)
  PROVE  Apply(word, s) = Comment(word, s)
<1>1. Len(s) \in Nat
  OBVIOUS
<1>2. CASE word = "2swap"
  BY <1>1, <1>2, SwapCommented DEF Fails, Underflow, Apply
<1>3. CASE word = "over"
  BY <1>1, <1>3, OverCommented DEF Fails, Underflow, Needing2, Apply
<1>4. CASE word = "roll"
  BY <1>1, <1>4, RollCommented DEF Fails, Underflow, Needing1, Apply
<1>5. CASE word = "-roll"
  BY <1>1, <1>5, BackRollCommented DEF Fails, Underflow, Needing1, Apply
<1>6. CASE word = "within"
  BY <1>1, <1>6, WithinCommented DEF Fails, Underflow, Needing3, Apply
<1>7. CASE word = "rot"
  BY <1>7 DEF Apply, Comment, rot, Replace
<1>8. CASE word = "-rot"
  BY <1>8 DEF Apply, Comment, mrot, Replace
<1>9. CASE word = "tuck"
  BY <1>9 DEF Apply, Comment, tuck, Replace
<1>10. CASE word = "?dup"
  BY <1>10 DEF Apply, Comment, dup0, dup
<1>11. QED
  BY <1>2, <1>3, <1>4, <1>5, <1>6, <1>7, <1>8, <1>9, <1>10 DEF Commented

\* Nothing has been typed, and the stack is one of those of the start.
FreshStack ==
  typed \in Nat /\ (typed = 0 => running = <<>> /\ data_stack \in Seq(Int))

LEMMA FreshAtFirst ==
  ASSUME Init
  PROVE  FreshStack
<1>1. Ints \subseteq Int
  BY BitsAssumption DEF Ints
<1>2. data_stack \in Seq(Int)
  <2>1. Stacks \subseteq Seq(Ints)
    BY ForthAssumption, Zenon
  <2>2. data_stack \in Stacks
    BY DEF Init
  <2> HIDE DEF Ints
  <2>3. data_stack \in Seq(Ints)
    BY <2>1, <2>2
  <2>4. /\ Len(data_stack) \in Nat
        /\ data_stack = [n \in 1..Len(data_stack) |-> data_stack[n]]
        /\ \A n \in 1..Len(data_stack) : data_stack[n] \in Ints
    BY <2>3
  <2>5. data_stack \in [1..Len(data_stack) -> Int]
    BY <1>1, <2>4
  <2>6. QED
    BY <2>4, <2>5, SeqDef
<1>3. QED
  BY <1>2 DEF Init, FreshStack

\* A step counts a word that is typed, or is one of the machine, or moves no number.
LEMMA TypedOrNot ==
  ASSUME FreshStack, [Next]_vars
  PROVE  \/ typed' = typed + 1
         \/ typed' = typed /\ running # <<>>
         \/ UNCHANGED <<typed, running, data_stack>>
<1>1. CASE \/ \E n \in Numbers : CompileNumber(n)
           \/ \E word \in Plain : CompilePlain(word)
           \/ \E length \in Texts : CompileText(length)
  BY <1>1, Zenon DEF CompileNumber, CompilePlain, CompileText, Emit
<1>2. CASE \E word \in Structure : CompileOpener(word)
  BY <1>2, Zenon DEF CompileOpener, If, Of, Rangeof, Begin, Case, Do, Forward, Mark, Emit
<1>3. CASE \E word \in Structure : CompileMiddle(word)
  BY <1>3, Zenon DEF CompileMiddle, While, Else, Endof, Middle, Forward, Emit, Refuse
<1>4. CASE \E word \in Structure : CompileCloser(word)
  BY <1>4, Zenon DEF CompileCloser, Then, Loop, Leave, Until, Again, Back, Repeat, Endcase,
                     Emit, Refuse
<1>5. CASE \/ \E x \in Names : constant(x) \/ variable(x)
           \/ \E name \in Given : forget(name)
           \/ reset \/ TypeStructure
           \/ \E v \in Numbers : TypeNumber(v)
           \/ \E word \in StackWords : TypeStackWord(word)
  BY <1>5, Zenon DEF constant, variable, forget, reset, TypeStructure, TypeNumber,
                     TypeStackWord, Defining, Once, WhileTyping
<1>6. CASE \/ \E x \in Names : start_word(x)
           \/ start_word_in_word \/ end_word \/ NewLine \/ Lost
           \/ \E word \in Structure : Overrun(word)
  BY <1>6, Zenon DEF start_word, start_word_in_word, end_word, NewLine, Lost, vars,
                     WhileCompiling, Overrun
<1>7. CASE \E name \in Given : Name(name)
  BY <1>7, Zenon DEF Name, Once, Emit
<1>8. CASE \/ RunNumber \/ RunIndex \/ RunText \/ RunUnloop \/ RunStackWord \/ RunCall
           \/ RunExit \/ RunIf \/ RunJump \/ RunOf \/ RunRangeof \/ RunDo \/ RunDo2
           \/ RunLoop \/ RunLeave \/ RunVarSet \/ RunAstray
  BY <1>8, Zenon DEF RunNumber, RunIndex, RunText, RunUnloop, RunStackWord, RunCall, RunExit,
       RunIf, RunJump, RunOf, RunRangeof, RunDo, RunDo2, RunLoop, RunLeave, RunVarSet,
       RunAstray, Executing, InLoop, WhileRunningPlain, WhileRunning
<1>9. CASE UNCHANGED vars
  BY <1>9, Zenon DEF vars
<1>10. QED
  BY <1>1, <1>2, <1>3, <1>4, <1>5, <1>6, <1>7, <1>8, <1>9, Zenon DEF Next

LEMMA FreshNext ==
  ASSUME FreshStack, [Next]_vars
  PROVE  FreshStack'
<1>1. typed \in Nat
  BY DEF FreshStack
<1>2. CASE typed' = typed + 1
  BY <1>1, <1>2 DEF FreshStack
<1>3. CASE typed' = typed /\ running # <<>>
  BY <1>3 DEF FreshStack
<1>4. CASE UNCHANGED <<typed, running, data_stack>>
  BY <1>4 DEF FreshStack
<1>5. QED
  BY <1>2, <1>3, <1>4, TypedOrNot

\* Words of a line that find enough numbers on the stack leave it as their
\* comments say (forth_words.c:862, 1266, 1303, 1468, 1488, 1507, 1596, 1628,
\* 1785), roll and -roll for every depth.
THEOREM WordsDoAsCommented == Spec => StackComments
<1>1. Init => FreshStack
  BY FreshAtFirst
<1>2. FreshStack /\ [Next]_vars => FreshStack'
  BY FreshNext
<1> DEFINE AsCommented == \A word \in Commented :
             TypeStackWord(word) /\ ~Fails(word, data_stack) /\ lost' = lost
               => data_stack' = Comment(word, data_stack)
<1>3. FreshStack => AsCommented
  <2>1. SUFFICES ASSUME FreshStack, NEW word \in Commented,
                        TypeStackWord(word), ~Fails(word, data_stack), lost' = lost
                 PROVE  data_stack' = Comment(word, data_stack)
    OBVIOUS
  <2>2. data_stack \in Seq(Int) /\ data_stack' = Apply(word, data_stack)
    BY <2>1 DEF FreshStack, TypeStackWord, Typing, Interpreting, Reading
  <2>3. QED
    BY <2>1, <2>2, WordCommented
<1>4. FreshStack /\ [Next]_vars => [AsCommented]_vars
  BY <1>3
<1>5. QED
  BY <1>1, <1>2, <1>4, PTL DEF Spec, StackComments, Commented

=============================================================================
