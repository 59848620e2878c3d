--------------------------- MODULE ForthJumpProofs ---------------------------
(***************************************************************************)
(* Where the jumps go that the compiling words of forth_words.c build: for *)
(* every definition whose words were all taken, each goes where the        *)
(* structure it was written for says.                                      *)
(***************************************************************************)
EXTENDS ForthProofs

-----------------------------------------------------------------------------
(* Where jumps go, in the words of the source.                             *)

Delta(word) == (IF word \in Openers THEN 1 ELSE 0) - (IF word \in Closers THEN 1 ELSE 0)

\* One more word in the source.
Longer(src, src2, e) ==
  /\ Len(src) \in Nat /\ Len(src2) = Len(src) + 1
  /\ \A k \in 1..Len(src) : src2[k] = src[k]
  /\ src2[Len(src) + 1] = e

CountsOn(src, src2, e, words) ==
  /\ \A k \in 0..Len(src) :
       Count(src, k, words) \in Nat /\ Count(src2, k, words) = Count(src, k, words)
  /\ e.word \in words
       => Count(src2, Len(src) + 1, words) = Count(src, Len(src), words) + 1
  /\ e.word \notin words
       => Count(src2, Len(src) + 1, words) = Count(src, Len(src), words)

LEMMA CountIs ==
  ASSUME NEW src, NEW src2, NEW e, Longer(src, src2, e), NEW words
  PROVE  CountsOn(src, src2, e, words)
<1>1. PICK n : n = Len(src)
  OBVIOUS
<1>2. n \in Nat /\ (\A k \in 1..n : src2[k] = src[k]) /\ src2[n + 1] = e
  BY <1>1 DEF Longer
<1> DEFINE S(k) == {j \in 1..k : src[j].word \in words}
           T(k) == {j \in 1..k : src2[j].word \in words}
<1>3. ASSUME NEW k \in 0..n
      PROVE  T(k) = S(k) /\ S(k) \subseteq 1..k /\ Cardinality(S(k)) \in Nat /\ IsFiniteSet(S(k))
  <2>1. T(k) = S(k) /\ S(k) \subseteq 1..k
    BY <1>2
  <2>2. IsFiniteSet(S(k))
    BY <1>2, <2>1, FS_Interval, FS_Subset
  <2>3. QED
    BY <2>1, <2>2, FS_CardinalityType
<1>4. \A k : Count(src, k, words) = Cardinality(S(k)) /\ Count(src2, k, words) = Cardinality(T(k))
  BY DEF Count
<1>5. ASSUME e.word \in words
      PROVE  Cardinality(T(n + 1)) = Cardinality(S(n)) + 1
  <2>1. T(n + 1) = T(n) \cup {n + 1}
    <3>1. \A j : j \in 1..(n + 1) <=> j \in 1..n \/ j = n + 1
      BY <1>2
    <3>2. QED
      BY <1>2, <1>5, <3>1
  <2>2. n + 1 \notin S(n)
    BY <1>2
  <2>3. n \in 0..n
    BY <1>2
  <2>4. IsFiniteSet(S(n)) /\ T(n) = S(n)
    BY <1>3, <2>3
  <2>5. QED
    BY <2>1, <2>2, <2>4, FS_AddElement
<1>6. ASSUME e.word \notin words
      PROVE  T(n + 1) = S(n)
  <2>1. \A j : j \in 1..(n + 1) <=> j \in 1..n \/ j = n + 1
    BY <1>2
  <2>2. QED
    BY <1>2, <1>6, <2>1
<1> HIDE DEF S, T
<1>7. n \in 0..n
  BY <1>2
<1>8. QED
  BY <1>1, <1>3, <1>4, <1>5, <1>6, <1>7 DEF CountsOn

LEMMA DepthIs ==
  ASSUME NEW src, NEW src2, NEW e, Longer(src, src2, e)
  PROVE  /\ \A k \in 0..Len(src) : Depth(src, k) \in Int /\ Depth(src2, k) = Depth(src, k)
         /\ Depth(src2, Len(src) + 1) = Depth(src, Len(src)) + Delta(e.word)
<1>1. PICK n, m : n = Len(src) /\ m = Len(src) + 1
  OBVIOUS
<1>2. n \in Nat
  BY <1>1 DEF Longer
<1>3. ASSUME NEW words
      PROVE  /\ \A k \in 0..n :
                  Count(src, k, words) \in Nat /\ Count(src2, k, words) = Count(src, k, words)
             /\ e.word \in words => Count(src2, m, words) = Count(src, n, words) + 1
             /\ e.word \notin words => Count(src2, m, words) = Count(src, n, words)
  <2>1. CountsOn(src, src2, e, words)
    BY CountIs
  <2>2. QED
    BY <1>1, <2>1 DEF CountsOn
<1>4. ASSUME NEW k \in 0..n
      PROVE  Depth(src, k) \in Int /\ Depth(src2, k) = Depth(src, k)
  <2>1. /\ Count(src, k, Openers) \in Nat /\ Count(src, k, Closers) \in Nat
        /\ Count(src2, k, Openers) = Count(src, k, Openers)
        /\ Count(src2, k, Closers) = Count(src, k, Closers)
    BY <1>3
  <2>2. QED
    BY <2>1 DEF Depth
<1>5. n \in 0..n
  BY <1>2
<1>6. PICK a, b, c, d : /\ a = Count(src, n, Openers) /\ b = Count(src, n, Closers)
                        /\ c = Count(src2, m, Openers) /\ d = Count(src2, m, Closers)
  OBVIOUS
<1>7. PICK x, y : /\ x = (IF e.word \in Openers THEN 1 ELSE 0)
                  /\ y = (IF e.word \in Closers THEN 1 ELSE 0)
  OBVIOUS
<1>8. a \in Nat /\ b \in Nat /\ x \in Int /\ y \in Int /\ c = a + x /\ d = b + y
  BY <1>3, <1>5, <1>6, <1>7
<1>9. Depth(src, n) = a - b /\ Depth(src2, m) = c - d /\ Delta(e.word) = x - y
  BY <1>6, <1>7 DEF Depth, Delta
<1>10. Depth(src2, m) = Depth(src, n) + Delta(e.word)
  BY <1>8, <1>9
<1>11. QED
  BY <1>1, <1>4, <1>10

LEMMA NoDepth ==
  ASSUME NEW src
  PROVE  Depth(src, 0) = 0
<1>1. 0 \in Nat /\ \A k \in 1..0 : src[k] = src[k]
  OBVIOUS
<1>2. ASSUME NEW words PROVE Count(src, 0, words) = 0
  <2>1. {j \in 1..0 : src[j].word \in words} = {}
    OBVIOUS
  <2>2. QED
    BY <2>1, FS_EmptySet DEF Count
<1>3. QED
  BY <1>2 DEF Depth

\* The conditions from the bottom of their stack: the n-th one stays the n-th.
Below(list, q) == list[Len(list) - q + 1]

\* The conditions of a structure, and the words that put each of them there.
Opening == {"if", "do", "begin", "case", "of"}
Tokens(kind) ==
  IF kind = "if" THEN {"if", "else"}
  ELSE IF kind = "of" THEN {"of", "rangeof"} ELSE {kind}

\* The structure of word d is open up to word n.
Stays(src, d, n) == \A k \in d..n : Depth(src, k) >= Depth(src, d)

ElseAt(src, k, deep) == Depth(src, k) = deep /\ src[k].word = "else"

\* NextPart, End and Opener as relations: they stay true when words follow.
IsNext(src, i, j) ==
  /\ j \in (i + 1)..Len(src)
  /\ Depth(src, j) < Depth(src, i) \/ ElseAt(src, j, Depth(src, i))
  /\ Stays(src, i, j - 1)
  /\ \A k \in (i + 1)..(j - 1) : ~ElseAt(src, k, Depth(src, i))

IsEnd(src, d, j) ==
  j \in (d + 1)..Len(src) /\ Depth(src, j) < Depth(src, d) /\ Stays(src, d, j - 1)

IsOpener(src, i, word, d) ==
  /\ d \in 1..(i - 1) /\ src[d].word = word /\ Stays(src, d, i - 1)
  /\ \A e \in (d + 1)..(i - 1) : src[e].word = word => ~Stays(src, e, i - 1)

Onward == {"if", "else", "while", "of", "rangeof"}
Backward == {"repeat", "until", "again"}

\* Word j is the one that the jump of word i goes behind, or back to.
Aim(src, i, j) ==
  LET word == src[i].word
  IN \/ word \in Onward /\ IsNext(src, i, j)
     \/ word = "do" /\ IsEnd(src, i, j)
     \/ word \in {"loop", "+loop"} /\ IsOpener(src, i, "do", j)
     \/ word = "leave" /\ \E d : IsOpener(src, i, "do", d) /\ IsEnd(src, d, j)
     \/ word \in Backward /\ IsOpener(src, i, "begin", j)
     \/ word = "endof" /\ \E d : IsOpener(src, i, "case", d) /\ IsEnd(src, d, j)

Reads(src, src2, n) ==
  /\ Len(src2) >= Len(src) /\ Len(src) \in Nat /\ n = Len(src) /\ Len(src2) \in Nat
  /\ \A k \in 1..n : src2[k] = src[k]
  /\ \A k \in 0..n : Depth(src, k) \in Int /\ Depth(src2, k) = Depth(src, k)

LEMMA LongerReads ==
  ASSUME NEW src, NEW src2, NEW e, Longer(src, src2, e)
  PROVE  Reads(src, src2, Len(src))
<1>1. \A k \in 0..Len(src) : Depth(src, k) \in Int /\ Depth(src2, k) = Depth(src, k)
  BY DepthIs
<1>2. /\ Len(src) \in Nat /\ Len(src2) = Len(src) + 1
      /\ \A k \in 1..Len(src) : src2[k] = src[k]
  BY DEF Longer
<1>3. QED
  BY <1>1, <1>2 DEF Reads

LEMMA StaysSame ==
  ASSUME NEW src, NEW src2, NEW n, Reads(src, src2, n),
         NEW d \in 1..(n + 1), NEW k \in 0..n
  PROVE  Stays(src2, d, k) <=> Stays(src, d, k)
<1>1. n \in Nat /\ \A x \in 0..n : Depth(src, x) \in Int /\ Depth(src2, x) = Depth(src, x)
  BY DEF Reads
<1>2. CASE d > k
  <2>1. d..k = {}
    BY <1>1, <1>2
  <2>2. QED
    BY <2>1 DEF Stays
<1>3. CASE d <= k
  <2>1. Depth(src2, d) = Depth(src, d) /\ \A x \in d..k : Depth(src2, x) = Depth(src, x)
    BY <1>1, <1>3
  <2>2. QED
    BY <2>1 DEF Stays
<1>4. QED
  BY <1>1, <1>2, <1>3

LEMMA NextStays ==
  ASSUME NEW src, NEW src2, NEW n, Reads(src, src2, n), NEW i \in 1..n, NEW j, IsNext(src, i, j)
  PROVE  IsNext(src2, i, j)
<1>1. /\ n \in Nat /\ n = Len(src) /\ Len(src2) >= n /\ Len(src2) \in Nat
      /\ \A x \in 0..n : Depth(src2, x) = Depth(src, x)
      /\ \A x \in 1..n : src2[x] = src[x]
  BY DEF Reads
<1>2. /\ j \in (i + 1)..n
      /\ Stays(src, i, j - 1)
      /\ Depth(src, j) < Depth(src, i) \/ ElseAt(src, j, Depth(src, i))
  BY <1>1 DEF IsNext
<1>3. \A k \in (i + 1)..(j - 1) : ~ElseAt(src, k, Depth(src, i))
  BY DEF IsNext
<1>4. i \in 0..n /\ j \in 0..n /\ j \in 1..n /\ j - 1 \in 0..n /\ i \in 1..(n + 1)
      /\ j \in (i + 1)..Len(src2)
  <2>1. n \in Nat /\ Len(src2) >= n /\ Len(src2) \in Nat /\ j \in (i + 1)..n
    BY <1>1, <1>2
  <2>2. QED
    BY ONLY <2>1, i \in 1..n
<1>5. Stays(src2, i, j - 1)
  BY <1>2, <1>4, StaysSame
<1>6. Depth(src2, i) = Depth(src, i)
  BY <1>1, <1>4
<1>7. ASSUME NEW k \in 1..n
      PROVE  ElseAt(src2, k, Depth(src2, i)) <=> ElseAt(src, k, Depth(src, i))
  <2>1. Depth(src2, k) = Depth(src, k) /\ src2[k] = src[k]
    BY <1>1
  <2>2. QED
    BY <1>6, <2>1 DEF ElseAt
<1>8. Depth(src2, j) < Depth(src2, i) \/ ElseAt(src2, j, Depth(src2, i))
  BY <1>1, <1>2, <1>4, <1>6, <1>7
<1>9. \A k \in (i + 1)..(j - 1) : k \in 1..n
  BY <1>1, <1>4
<1>10. \A k \in (i + 1)..(j - 1) : ~ElseAt(src2, k, Depth(src2, i))
  BY <1>3, <1>7, <1>9
<1>11. QED
  BY <1>4, <1>5, <1>8, <1>10 DEF IsNext

LEMMA EndStays ==
  ASSUME NEW src, NEW src2, NEW n, Reads(src, src2, n), NEW d \in 1..n, NEW j, IsEnd(src, d, j)
  PROVE  IsEnd(src2, d, j)
<1>1. /\ n \in Nat /\ n = Len(src) /\ Len(src2) >= n /\ Len(src2) \in Nat
      /\ \A x \in 0..n : Depth(src2, x) = Depth(src, x)
  BY DEF Reads
<1>2. j \in (d + 1)..n /\ Stays(src, d, j - 1) /\ Depth(src, j) < Depth(src, d)
  BY <1>1 DEF IsEnd
<1>3. d \in 0..n /\ j \in 0..n /\ j - 1 \in 0..n /\ d \in 1..(n + 1)
      /\ j \in (d + 1)..Len(src2)
  BY <1>1, <1>2
<1>4. Stays(src2, d, j - 1)
  BY <1>2, <1>3, StaysSame
<1>5. Depth(src2, j) < Depth(src2, d)
  BY <1>1, <1>2, <1>3
<1>6. QED
  BY <1>3, <1>4, <1>5 DEF IsEnd

\* What is before word i decides it.
LEMMA OpenerSame ==
  ASSUME NEW src, NEW src2, NEW n, Reads(src, src2, n), NEW i \in 1..(n + 1), NEW word, NEW d
  PROVE  IsOpener(src2, i, word, d) <=> IsOpener(src, i, word, d)
<1>1. n \in Nat /\ \A x \in 1..n : src2[x] = src[x]
  BY DEF Reads
<1>2. i - 1 \in 0..n /\ \A e \in 1..(i - 1) : e \in 1..n /\ e \in 1..(n + 1)
  BY <1>1
<1>3. \A e \in 1..(i - 1) : Stays(src2, e, i - 1) <=> Stays(src, e, i - 1)
  BY <1>2, StaysSame
<1>4. \A e \in 1..(i - 1) : src2[e] = src[e]
  BY <1>1, <1>2
<1>5. ASSUME d \in 1..(i - 1)
      PROVE  \A e \in (d + 1)..(i - 1) : e \in 1..(i - 1)
  BY <1>1, <1>5
<1>6. QED
  BY <1>3, <1>4, <1>5 DEF IsOpener

LEMMA AimStays ==
  ASSUME NEW src, NEW src2, NEW n, Reads(src, src2, n), NEW i \in 1..n, NEW j, Aim(src, i, j)
  PROVE  Aim(src2, i, j)
<1>1. src2[i] = src[i] /\ i \in 1..(n + 1) /\ n \in Nat
  BY DEF Reads
<1>2. \A word, d : IsOpener(src, i, word, d) => IsOpener(src2, i, word, d)
  BY <1>1, OpenerSame
<1>3. \A d : d \in 1..n /\ IsEnd(src, d, j) => IsEnd(src2, d, j)
  BY EndStays
<1>4. IsNext(src, i, j) => IsNext(src2, i, j)
  BY NextStays
<1>5. \A word, d : IsOpener(src, i, word, d) => d \in 1..n
  <2>1. \A d : d \in 1..(i - 1) => d \in 1..n
    BY <1>1
  <2>2. QED
    BY <2>1 DEF IsOpener
<1>6. QED
  BY <1>1, <1>2, <1>3, <1>4, <1>5, Zenon DEF Aim

\* The cell behind those of word j; end is the one behind the last word.
AfterWord(word, j, end) == IF j = Len(word.source) THEN end ELSE word.first[j + 1]

Landing(word, i, j, end) ==
  IF word.source[i].word \in {"loop", "+loop"} THEN word.first[j] + 1
  ELSE AfterWord(word, j, end)

\* The jump of word i goes where it should.
Done(word, i, end) ==
  \E j \in 1..Len(word.source) :
    /\ Aim(word.source, i, j)
    /\ word.code[OperandOf(word, i)].value + 1 = Landing(word, i, j, end)

IsJump(word, i) == i \in 1..Len(word.source) /\ word.source[i].word \in Jumps

Hook(code, at) ==
  /\ at \in 2..Len(code)
  /\ code[at - 1].handler \in Jumping /\ code[at].handler = "operand"

\* Where the cells of the words are.
Placed(word) ==
  /\ Len(word.first) = Len(word.source)
  /\ \A i \in 1..Len(word.source) : word.first[i] \in Int
  /\ \A i \in 1..Len(word.source) :
       word.source[i].word = "begin"
         => AfterWord(word, i, Len(word.code) + 1) = word.first[i]
  /\ \A i : IsJump(word, i) => Hook(word.code, OperandOf(word, i))
  /\ \A i, j : IsJump(word, i) /\ IsJump(word, j) /\ OperandOf(word, i) = OperandOf(word, j)
       => i = j

\* A word that has got one more word, e, and in which the operands in Q were
\* patched, to go behind it.
Grows(word, word2, e, Q) ==
  /\ Longer(word.source, word2.source, e)
  /\ Longer(word.first, word2.first, Len(word.code) + 1)
  /\ IsCode(word.code) /\ Len(word.code) \in Nat
  /\ Rewritten(word.code, word2.code, Q, Len(word2.code))

LEMMA AfterSame ==
  ASSUME NEW word, NEW word2, NEW e, NEW Q, Placed(word), Grows(word, word2, e, Q),
         NEW j \in 1..Len(word.source)
  PROVE  /\ AfterWord(word2, j, Len(word2.code) + 1) = AfterWord(word, j, Len(word.code) + 1)
         /\ word2.first[j] = word.first[j] /\ word2.source[j] = word.source[j]
         /\ OperandOf(word2, j) = OperandOf(word, j)
<1>1. /\ Len(word.source) \in Nat /\ Len(word2.source) = Len(word.source) + 1
      /\ Len(word.first) = Len(word.source)
      /\ \A k \in 1..Len(word.source) :
           word2.source[k] = word.source[k] /\ word2.first[k] = word.first[k]
      /\ word2.first[Len(word.source) + 1] = Len(word.code) + 1
  BY DEF Grows, Longer, Placed
<1>2. word2.first[j] = word.first[j] /\ word2.source[j] = word.source[j]
  BY <1>1
<1>3. AfterWord(word2, j, Len(word2.code) + 1) = word2.first[j + 1]
  BY <1>1 DEF AfterWord
<1>4. CASE j = Len(word.source)
  <2>1. AfterWord(word, j, Len(word.code) + 1) = Len(word.code) + 1
    BY <1>4 DEF AfterWord
  <2>2. QED
    BY <1>1, <1>2, <1>3, <1>4, <2>1 DEF OperandOf
<1>5. CASE j # Len(word.source)
  <2>1. AfterWord(word, j, Len(word.code) + 1) = word.first[j + 1]
    BY <1>5 DEF AfterWord
  <2>2. j + 1 \in 1..Len(word.source)
    BY <1>1, <1>5
  <2>3. QED
    BY <1>1, <1>2, <1>3, <2>1, <2>2 DEF OperandOf
<1>6. QED
  BY <1>4, <1>5

\* What is known of a word that grows.
Larger(word, word2, e, N) ==
  /\ N = Len(word.source) + 1 /\ Len(word.source) \in Nat /\ N \in Nat /\ N > 0
  /\ Len(word2.source) = N /\ Len(word2.first) = N
  /\ word2.source[N] = e /\ word2.first[N] = Len(word.code) + 1
  /\ OperandOf(word2, N) = Len(word.code) + (IF e.word = "do" THEN 3 ELSE 2)
  /\ OperandOf(word2, N) > Len(word.code)
  /\ Len(word.code) \in Nat /\ Len(word2.code) \in Nat
  /\ Len(word2.code) >= Len(word.code)

LEMMA GrowsFacts ==
  ASSUME NEW word, NEW word2, NEW e, NEW Q, Placed(word), Grows(word, word2, e, Q)
  PROVE  Larger(word, word2, e, Len(word.source) + 1)
<1>0. PICK N : N = Len(word.source) + 1
  OBVIOUS
<1>1. /\ Len(word.source) \in Nat /\ Len(word2.source) = Len(word.source) + 1
      /\ word2.source[Len(word.source) + 1] = e
      /\ Len(word.first) = Len(word.source) /\ Len(word2.first) = Len(word.first) + 1
      /\ word2.first[Len(word.first) + 1] = Len(word.code) + 1
      /\ Len(word.code) \in Nat /\ IsCode(word2.code) /\ Len(word2.code) >= Len(word.code)
  BY DEF Grows, Longer, Placed, Rewritten
<1>2. Len(word2.code) \in Nat
  BY <1>1, DomainIs
<1>3. word2.source[N] = e /\ word2.first[N] = Len(word.code) + 1
  BY <1>0, <1>1
<1>4. CASE e.word = "do"
  <2>1. OperandOf(word2, N) = Len(word.code) + 3
    BY <1>1, <1>3, <1>4 DEF OperandOf
  <2>2. QED
    BY <1>0, <1>1, <1>2, <1>3, <1>4, <2>1 DEF Larger
<1>5. CASE e.word # "do"
  <2>1. OperandOf(word2, N) = Len(word.code) + 2
    BY <1>1, <1>3, <1>5 DEF OperandOf
  <2>2. QED
    BY <1>0, <1>1, <1>2, <1>3, <1>5, <2>1 DEF Larger
<1>6. QED
  BY <1>4, <1>5

LEMMA HookStays ==
  ASSUME NEW code, NEW code2, NEW Q, NEW v, Rewritten(code, code2, Q, v),
         Len(code) \in Nat, Len(code2) \in Nat, NEW at, Hook(code, at)
  PROVE  Hook(code2, at)
<1>1. /\ Len(code2) >= Len(code) /\ at \in 2..Len(code)
      /\ \A p \in 1..Len(code) : code2[p].handler = code[p].handler
  BY DEF Rewritten, Hook
<1>2. at \in 1..Len(code) /\ at - 1 \in 1..Len(code) /\ at \in 2..Len(code2)
  BY <1>1
<1>3. QED
  BY <1>1, <1>2 DEF Hook

LEMMA PlacedNext ==
  ASSUME NEW word, NEW word2, NEW e, NEW Q, Placed(word), Grows(word, word2, e, Q),
         NEW N, N = Len(word.source) + 1,
         e.word \in Jumps => Hook(word2.code, OperandOf(word2, N)),
         e.word = "begin" => Len(word2.code) = Len(word.code)
  PROVE  Placed(word2)
<1>1. /\ Len(word.source) \in Nat /\ N \in Nat /\ N > 0 /\ Len(word2.source) = N
      /\ word2.source[N] = e /\ word2.first[N] = Len(word.code) + 1
      /\ Len(word2.first) = N /\ OperandOf(word2, N) > Len(word.code)
      /\ Len(word.code) \in Nat /\ Len(word2.code) \in Nat
  BY GrowsFacts DEF Larger
<1>2. \A i \in 1..N : i = N \/ i \in 1..Len(word.source)
  BY <1>1
<1>3. ASSUME NEW i \in 1..Len(word.source)
      PROVE  /\ AfterWord(word2, i, Len(word2.code) + 1) = AfterWord(word, i, Len(word.code) + 1)
             /\ word2.first[i] = word.first[i] /\ word2.source[i] = word.source[i]
             /\ OperandOf(word2, i) = OperandOf(word, i)
             /\ IsJump(word2, i) => IsJump(word, i)
  <2>1. /\ AfterWord(word2, i, Len(word2.code) + 1) = AfterWord(word, i, Len(word.code) + 1)
        /\ word2.first[i] = word.first[i] /\ word2.source[i] = word.source[i]
        /\ OperandOf(word2, i) = OperandOf(word, i)
    BY AfterSame
  <2>2. QED
    BY <2>1 DEF IsJump
<1>4. /\ Len(word.first) = Len(word.source)
      /\ \A i \in 1..Len(word.source) : word.first[i] \in Int
      /\ \A i \in 1..Len(word.source) :
           word.source[i].word = "begin"
             => AfterWord(word, i, Len(word.code) + 1) = word.first[i]
      /\ \A i : IsJump(word, i) => Hook(word.code, OperandOf(word, i))
      /\ \A i, j : IsJump(word, i) /\ IsJump(word, j) /\ OperandOf(word, i) = OperandOf(word, j)
           => i = j
  BY DEF Placed
<1>5. ASSUME NEW i \in 1..N
      PROVE  /\ word2.first[i] \in Int
             /\ word2.source[i].word = "begin"
                  => AfterWord(word2, i, Len(word2.code) + 1) = word2.first[i]
  <2>1. CASE i = N
    <3>1. AfterWord(word2, N, Len(word2.code) + 1) = Len(word2.code) + 1
      BY <1>1 DEF AfterWord
    <3>2. QED
      BY <1>1, <2>1, <3>1
  <2>2. CASE i \in 1..Len(word.source)
    BY <1>3, <1>4, <2>2
  <2>3. QED
    BY <1>2, <2>1, <2>2
<1>6. ASSUME NEW i, IsJump(word2, i)
      PROVE  /\ Hook(word2.code, OperandOf(word2, i))
             /\ i = N \/ (IsJump(word, i) /\ OperandOf(word2, i) = OperandOf(word, i)
                          /\ OperandOf(word, i) <= Len(word.code))
  <2>1. i \in 1..N /\ word2.source[i].word \in Jumps
    BY <1>1, <1>6 DEF IsJump
  <2>2. CASE i = N
    BY <1>1, <2>1, <2>2
  <2>3. CASE i \in 1..Len(word.source)
    <3>1. IsJump(word, i) /\ OperandOf(word2, i) = OperandOf(word, i)
      BY <1>3, <1>6, <2>3
    <3>2. Hook(word.code, OperandOf(word, i))
      BY <1>4, <3>1
    <3>3. Hook(word2.code, OperandOf(word, i))
      BY <1>1, <3>2, HookStays DEF Grows
    <3>4. OperandOf(word, i) <= Len(word.code)
      BY <1>1, <3>2 DEF Hook
    <3>5. QED
      BY <3>1, <3>3, <3>4
  <2>4. QED
    BY <1>2, <2>1, <2>2, <2>3
<1>7. ASSUME NEW i, NEW j, IsJump(word2, i), IsJump(word2, j),
             OperandOf(word2, i) = OperandOf(word2, j)
      PROVE  i = j
  <2>1. \A k : IsJump(word2, k) => OperandOf(word2, k) \in Int
    BY <1>6 DEF Hook
  <2>2. ~(i = N /\ j # N) /\ ~(i # N /\ j = N)
    BY <1>1, <1>6, <1>7, <2>1
  <2>3. CASE i # N /\ j # N
    BY <1>4, <1>6, <1>7, <2>3
  <2>4. QED
    BY <2>2, <2>3
<1>8. QED
  BY <1>1, <1>5, <1>6, <1>7 DEF Placed

LEMMA DoneStays ==
  ASSUME NEW word, NEW word2, NEW e, NEW Q, Placed(word), Grows(word, word2, e, Q),
         NEW i, IsJump(word, i), OperandOf(word, i) \notin Q, Done(word, i, Len(word.code) + 1)
  PROVE  Done(word2, i, Len(word2.code) + 1)
<1>1. PICK j \in 1..Len(word.source) :
        /\ Aim(word.source, i, j)
        /\ word.code[OperandOf(word, i)].value + 1 = Landing(word, i, j, Len(word.code) + 1)
  BY DEF Done
<1>2. i \in 1..Len(word.source)
  BY DEF IsJump
<1>3. Reads(word.source, word2.source, Len(word.source))
  BY LongerReads DEF Grows
<1>4. Aim(word2.source, i, j)
  BY <1>1, <1>2, <1>3, AimStays
<1>5. /\ AfterWord(word2, j, Len(word2.code) + 1) = AfterWord(word, j, Len(word.code) + 1)
      /\ word2.first[j] = word.first[j]
  BY AfterSame
<1>6. word2.source[i] = word.source[i] /\ OperandOf(word2, i) = OperandOf(word, i)
  BY <1>2, AfterSame
<1>7. Landing(word2, i, j, Len(word2.code) + 1) = Landing(word, i, j, Len(word.code) + 1)
  BY <1>5, <1>6 DEF Landing
<1>8. word2.code[OperandOf(word, i)].value = word.code[OperandOf(word, i)].value
  <2>1. OperandOf(word, i) \in 1..Len(word.code)
    BY DEF Placed, Hook, Grows
  <2>2. QED
    BY <2>1 DEF Grows, Rewritten
<1>9. j \in 1..Len(word2.source)
  BY DEF Grows, Longer
<1>10. QED
  BY <1>1, <1>4, <1>6, <1>7, <1>8, <1>9 DEF Done

\* A jump that is patched goes behind the new word.
LEMMA DoneNow ==
  ASSUME NEW word, NEW word2, NEW e, NEW Q, Placed(word), Grows(word, word2, e, Q),
         NEW N, N = Len(word.source) + 1,
         NEW i, IsJump(word, i), OperandOf(word, i) \in Q,
         Aim(word2.source, i, N), word.source[i].word \notin {"loop", "+loop"}
  PROVE  Done(word2, i, Len(word2.code) + 1)
<1>1. i \in 1..Len(word.source)
  BY DEF IsJump
<1>2. word2.source[i] = word.source[i] /\ OperandOf(word2, i) = OperandOf(word, i)
  BY <1>1, AfterSame
<1>3. Len(word2.source) = N /\ N \in 1..N
  <2>1. Larger(word, word2, e, Len(word.source) + 1)
    BY GrowsFacts
  <2>2. QED
    BY <2>1 DEF Larger
<1>4. Landing(word2, i, N, Len(word2.code) + 1) = Len(word2.code) + 1
  BY <1>2, <1>3 DEF Landing, AfterWord
<1>5. word2.code[OperandOf(word, i)].value = Len(word2.code)
  <2>1. OperandOf(word, i) \in 1..Len(word.code)
    BY DEF Placed, Hook, Grows
  <2>2. QED
    BY <2>1 DEF Grows, Rewritten
<1>6. QED
  BY <1>2, <1>3, <1>4, <1>5 DEF Done

\* How deep the structures are nested that the lowest q conditions are of.
Lev(src, t, q) == IF q = 0 THEN 0 ELSE Depth(src, t[q])

\* Condition c was put there by word d, whose structure is still open.
Entry(word, c, d) ==
  LET src == word.source
  IN /\ d \in 1..Len(src) /\ src[d].word \in Tokens(c.kind)
     /\ Stays(src, d, Len(src))
     /\ c.kind \in Hooked => c.at = OperandOf(word, d)
     /\ c.kind = "begin" => c.at = word.first[d]
     /\ c.kind \in {"if", "while", "of"} =>
          \A k \in (d + 1)..Len(src) : ~ElseAt(src, k, Depth(src, d))

Stacked(word, list, t) ==
  /\ Len(list) \in Nat /\ t \in [1..Len(list) -> Nat]
  /\ \A p, q \in 1..Len(list) : p < q => t[p] < t[q]
  /\ \A q \in 1..Len(list) : Entry(word, Below(list, q), t[q])
  /\ \A q \in 1..Len(list) :
       Depth(word.source, t[q])
         = Lev(word.source, t, q - 1) + (IF Below(list, q).kind \in Opening THEN 1 ELSE 0)
  /\ Depth(word.source, Len(word.source)) = Lev(word.source, t, Len(list))

LEMMA LevelsRise ==
  ASSUME NEW word, NEW list, NEW t, Stacked(word, list, t),
         \A k \in 0..Len(word.source) : Depth(word.source, k) \in Int,
         Len(word.source) \in Nat
  PROVE  /\ \A q \in 0..Len(list) : Lev(word.source, t, q) \in Int
         /\ \A p, q \in 0..Len(list) :
              p <= q => Lev(word.source, t, p) <= Lev(word.source, t, q)
<1> DEFINE src == word.source
<1>1. /\ Len(list) \in Nat
      /\ \A p, q \in 1..Len(list) : p < q => t[p] < t[q]
      /\ \A q \in 1..Len(list) :
           Depth(src, t[q]) = Lev(src, t, q - 1) + (IF Below(list, q).kind \in Opening THEN 1 ELSE 0)
  BY DEF Stacked
<1>2. \A q \in 1..Len(list) : t[q] \in 1..Len(src) /\ Stays(src, t[q], Len(src))
  BY DEF Stacked, Entry
<1> HIDE DEF src
<1>3. \A q \in 0..Len(list) : Lev(src, t, q) \in Int
  <2>1. \A q \in 1..Len(list) : Depth(src, t[q]) \in Int
    BY <1>2 DEF src
  <2>2. QED
    BY <1>1, <2>1 DEF Lev
<1>4. ASSUME NEW p \in 1..Len(list), NEW q \in 1..Len(list), p <= q
      PROVE  Lev(src, t, p) <= Lev(src, t, q)
  <2>1. CASE p = q
    BY <1>1, <1>3, <2>1
  <2>2. CASE p < q
    <3>1. t[q] \in t[p]..Len(src)
      BY <1>1, <1>2, <2>2
    <3>2. Depth(src, t[q]) >= Depth(src, t[p])
      BY <1>2, <3>1 DEF Stays
    <3>3. Depth(src, t[p]) <= Depth(src, t[q])
      BY <1>2, <3>2 DEF src
    <3>4. QED
      BY <1>1, <3>3 DEF Lev
  <2>3. QED
    BY <1>1, <1>4, <2>1, <2>2
<1>5. ASSUME NEW q \in 1..Len(list)
      PROVE  0 <= Lev(src, t, q)
  <2>1. 1 \in 1..Len(list) /\ 1 <= q
    BY <1>1
  <2>2. Lev(src, t, 1) <= Lev(src, t, q)
    BY <1>4, <2>1
  <2>3. Lev(src, t, 1 - 1) = 0 /\ Lev(src, t, 1) = Depth(src, t[1])
    BY DEF Lev
  <2>4. Lev(src, t, 1) = 0 + (IF Below(list, 1).kind \in Opening THEN 1 ELSE 0)
    BY <1>1, <2>1, <2>3
  <2>5. Lev(src, t, 1) >= 0
    BY <2>4
  <2>6. QED
    BY <1>1, <1>3, <2>2, <2>5
<1>6. Lev(src, t, 0) = 0
  BY DEF Lev
<1>7. ASSUME NEW p \in 0..Len(list), NEW q \in 0..Len(list), p <= q
      PROVE  Lev(src, t, p) <= Lev(src, t, q)
  <2>1. p = 0 \/ (p \in 1..Len(list) /\ q \in 1..Len(list))
    BY <1>1, <1>7
  <2>2. q = 0 \/ q \in 1..Len(list)
    BY <1>1
  <2>3. QED
    BY <1>4, <1>5, <1>6, <1>7, <2>1, <2>2
<1>8. QED
  BY <1>3, <1>7 DEF src

\* The stack of conditions, of which the lowest M stay.
Lower(list, list2, M, put) ==
  /\ Len(list) \in Nat /\ M \in 0..Len(list) /\ put \in {0, 1}
  /\ Len(list2) = M + put
  /\ \A q \in 1..M : Below(list2, q) = Below(list, q)
  /\ put = 1 => Below(list2, M + 1) = list2[1]

LEMMA TakenLower ==
  ASSUME NEW list, NEW list2, NEW n, NEW put, IsSeq(list), Taken(list, list2, n, put)
  PROVE  Lower(list, list2, Len(list) - n, put)
<1>1. /\ Len(list) \in Nat /\ n \in 0..Len(list) /\ put \in {0, 1}
      /\ Len(list2) = Len(list) - n + put
      /\ \A k \in 1..(Len(list) - n) : list2[k + put] = list[k + n]
  BY IsSeqFacts DEF Taken
<1>2. PICK M : M = Len(list) - n
  OBVIOUS
<1>3. M \in 0..Len(list) /\ Len(list2) = M + put /\ M \in Nat /\ put \in Nat /\ n \in Nat
      /\ Len(list) = M + n
  BY <1>1, <1>2
<1>4. ASSUME NEW q \in 1..M
      PROVE  Below(list2, q) = Below(list, q)
  <2>1. PICK k : k = M - q + 1
    OBVIOUS
  <2>2. /\ k \in 1..(Len(list) - n) /\ Len(list2) - q + 1 = k + put
        /\ Len(list) - q + 1 = k + n
    BY <1>3, <2>1
  <2>3. list2[k + put] = list[k + n]
    BY <1>1, <2>2
  <2>4. Below(list2, q) = list2[k + put]
    BY <2>2 DEF Below
  <2>5. Below(list, q) = list[k + n]
    BY <2>2 DEF Below
  <2>6. QED
    BY <2>3, <2>4, <2>5
<1>5. put = 1 => Below(list2, M + 1) = list2[1]
  <2>1. put = 1 => Len(list2) - (M + 1) + 1 = 1
    BY <1>3
  <2>2. QED
    BY <2>1 DEF Below
<1>6. Lower(list, list2, M, put)
  BY <1>1, <1>3, <1>4, <1>5 DEF Lower
<1>7. QED
  BY <1>2, <1>6

LEMMA FromTop ==
  ASSUME NEW list, IsSeq(list), NEW k \in 1..Len(list)
  PROVE  /\ Below(list, Len(list) - k + 1) = list[k]
         /\ Len(list) - k + 1 \in 1..Len(list)
<1>1. Len(list) \in Nat
  BY IsSeqFacts
<1>2. Len(list) - (Len(list) - k + 1) + 1 = k /\ Len(list) - k + 1 \in 1..Len(list)
  BY <1>1
<1>3. QED
  BY <1>2 DEF Below

\* The words of the conditions when word N has changed them.
Tracing(t, M, put, N) == [q \in 1..(M + put) |-> IF q <= M THEN t[q] ELSE N]

\* How word e of a definition changes the stack.
Turns(word, list, t, word2, list2, e, N, M, put) ==
  /\ Lower(list, list2, M, put)
  /\ Depth(word2.source, N)
       = Lev(word.source, t, M)
           + (IF put = 1 /\ list2[1].kind \in Opening THEN 1 ELSE 0)
  /\ e.word = "else" => put = 1 /\ list2[1].kind = "if"
  /\ put = 1 =>
       /\ e.word \in Tokens(list2[1].kind)
       /\ list2[1].kind \in Hooked => list2[1].at = OperandOf(word2, N)
       /\ list2[1].kind = "begin" => list2[1].at = word2.first[N]

LEMMA StackedNext ==
  ASSUME NEW word, NEW word2, NEW e, NEW Q, Placed(word), Grows(word, word2, e, Q),
         NEW list, NEW t, Stacked(word, list, t), NEW N, N = Len(word.source) + 1,
         NEW list2, NEW M, NEW put, Turns(word, list, t, word2, list2, e, N, M, put)
  PROVE  Stacked(word2, list2, Tracing(t, M, put, N))
<1> DEFINE src == word.source
           src2 == word2.source
           n == Len(word.source)
           t2 == Tracing(t, M, put, N)
           m2 == Len(list2)
<1>1. /\ n \in Nat /\ N \in Nat /\ N > 0 /\ N = n + 1 /\ Len(src2) = N /\ src2[N] = e
  <2>1. Larger(word, word2, e, n + 1)
    BY GrowsFacts
  <2>2. QED
    BY <2>1 DEF Larger
<1>2. Reads(src, src2, n)
  BY LongerReads DEF Grows
<1>3. /\ \A k \in 1..n : src2[k] = src[k]
      /\ \A k \in 0..n : Depth(src, k) \in Int /\ Depth(src2, k) = Depth(src, k)
  BY <1>2 DEF Reads
<1>4. /\ Len(list) \in Nat /\ M \in 0..Len(list) /\ put \in {0, 1} /\ m2 = M + put
      /\ \A q \in 1..M : Below(list2, q) = Below(list, q)
      /\ put = 1 => Below(list2, M + 1) = list2[1]
  BY DEF Turns, Lower
<1>5. /\ \A q \in 1..Len(list) : t[q] \in Nat
      /\ \A p, q \in 1..Len(list) : p < q => t[p] < t[q]
      /\ \A q \in 1..Len(list) : Entry(word, Below(list, q), t[q])
      /\ \A q \in 1..Len(list) :
           Depth(src, t[q]) = Lev(src, t, q - 1) + (IF Below(list, q).kind \in Opening THEN 1 ELSE 0)
  BY DEF Stacked
<1>6. \A q \in 1..Len(list) : t[q] \in 1..n /\ Stays(src, t[q], n)
  BY <1>5 DEF Entry
<1>7. /\ \A q \in 0..Len(list) : Lev(src, t, q) \in Int
      /\ \A p, q \in 0..Len(list) : p <= q => Lev(src, t, p) <= Lev(src, t, q)
  BY <1>1, <1>3, LevelsRise
<1>8. PICK x : x = IF put = 1 /\ list2[1].kind \in Opening THEN 1 ELSE 0
  OBVIOUS
<1>9. /\ Depth(src2, N) = Lev(src, t, M) + x /\ x \in {0, 1}
      /\ e.word = "else" => put = 1 /\ list2[1].kind = "if" /\ x = 1
      /\ put = 1 => (x = 1 <=> list2[1].kind \in Opening)
  BY <1>8 DEF Turns, Opening
<1>10. Depth(src2, N) \in Int /\ Depth(src2, N) >= Lev(src, t, M)
  BY <1>4, <1>7, <1>9
<1>11. /\ \A q \in 1..M : t2[q] = t[q] /\ q \in 1..Len(list) /\ q \in 0..Len(list)
       /\ put = 1 => t2[M + 1] = N
       /\ \A q \in 1..m2 : q \in 1..M \/ (q = M + 1 /\ put = 1)
  BY <1>4 DEF Tracing
<1>12. t2 \in [1..m2 -> Nat] /\ m2 \in Nat
  <2>1. \A q \in 1..m2 : (IF q <= M THEN t[q] ELSE N) \in Nat
    BY <1>1, <1>4, <1>5, <1>11
  <2>2. QED
    BY <1>4, <2>1 DEF Tracing
<1> HIDE DEF src, src2, n, t2, m2
<1>13. ASSUME NEW p \in 1..m2, NEW q \in 1..m2, p < q
       PROVE  t2[p] < t2[q]
  <2>1. p \in 1..M
    BY <1>4, <1>11, <1>13
  <2>2. CASE q \in 1..M
    BY <1>5, <1>11, <1>13, <2>1, <2>2
  <2>3. CASE q = M + 1 /\ put = 1
    <3>1. t[p] \in 1..n /\ t2[p] = t[p] /\ t2[q] = N
      BY <1>6, <1>11, <2>1, <2>3
    <3>2. QED
      BY <1>1, <3>1
  <2>4. QED
    BY <1>11, <2>2, <2>3
<1>14. \A q \in 0..M : Lev(src2, t2, q) = Lev(src, t, q)
  <2>1. ASSUME NEW q \in 1..M
        PROVE  Depth(src2, t2[q]) = Depth(src, t[q])
    BY <1>1, <1>3, <1>6, <1>11
  <2>2. QED
    BY <1>4, <2>1 DEF Lev
<1>15. ASSUME NEW q \in 1..M
       PROVE  Entry(word2, Below(list2, q), t2[q])
  <2>1. PICK d, c : d = t[q] /\ c = Below(list, q)
    OBVIOUS
  <2>2. /\ t2[q] = d /\ Below(list2, q) = c /\ Entry(word, c, d)
        /\ d \in 1..n /\ Stays(src, d, n)
    BY <1>4, <1>5, <1>6, <1>11, <2>1
  <2>3. Depth(src2, d) = Depth(src, d) /\ Depth(src, d) \in Int /\ Depth(src, d) <= Lev(src, t, M)
    <3>1. q \in 0..Len(list) /\ M \in 0..Len(list) /\ q <= M /\ q # 0
      BY <1>4, <1>11
    <3>2. Lev(src, t, q) = Depth(src, d)
      BY <2>1, <3>1 DEF Lev
    <3>3. d \in 0..n
      BY <1>1, <2>2
    <3>4. QED
      BY <1>3, <1>7, <3>1, <3>2, <3>3
  <2>4. Stays(src2, d, N)
    <3>1. ASSUME NEW k \in d..N
          PROVE  Depth(src2, k) >= Depth(src2, d)
      <4>1. CASE k = N
        BY <1>7, <1>4, <1>10, <2>3, <4>1
      <4>2. CASE k # N
        <5>1. k \in d..n /\ k \in 0..n
          BY <1>1, <2>2, <4>2
        <5>2. Depth(src, k) >= Depth(src, d) /\ Depth(src2, k) = Depth(src, k)
          BY <1>3, <2>2, <5>1 DEF Stays
        <5>3. QED
          BY <2>3, <5>2
      <4>3. QED
        BY <4>1, <4>2
    <3>2. QED
      BY <3>1 DEF Stays
  <2>5. word2.first[d] = word.first[d] /\ OperandOf(word2, d) = OperandOf(word, d)
        /\ src2[d] = src[d] /\ d \in 1..N
    <3>1. d \in 1..Len(word.source)
      BY <2>2 DEF n
    <3>2. word2.first[d] = word.first[d] /\ OperandOf(word2, d) = OperandOf(word, d)
      BY <3>1, AfterSame
    <3>3. QED
      BY <1>1, <1>3, <2>2, <3>2
  <2>6. ASSUME c.kind \in {"if", "while", "of"}, NEW k \in (d + 1)..N
        PROVE  ~ElseAt(src2, k, Depth(src2, d))
    <3>1. CASE k = N
      <4>1. ASSUME e.word = "else"
            PROVE  Depth(src2, N) # Depth(src2, d)
        BY <1>4, <1>7, <1>9, <2>3, <4>1
      <4>2. QED
        BY <1>1, <3>1, <4>1 DEF ElseAt
    <3>2. CASE k # N
      <4>1. k \in (d + 1)..n /\ k \in 0..n /\ k \in 1..n
        BY <1>1, <2>2, <3>2
      <4>2. ~ElseAt(src, k, Depth(src, d))
        BY <2>2, <2>6, <4>1 DEF Entry, src, n
      <4>3. QED
        BY <1>3, <2>3, <4>1, <4>2 DEF ElseAt
    <3>3. QED
      BY <3>1, <3>2
  <2>7. /\ src[d].word \in Tokens(c.kind)
        /\ c.kind \in Hooked => c.at = OperandOf(word, d)
        /\ c.kind = "begin" => c.at = word.first[d]
    BY <2>2 DEF Entry, src
  <2>8. Entry(word2, c, d)
    BY <1>1, <2>4, <2>5, <2>6, <2>7 DEF Entry, src2
  <2>9. QED
    BY <2>2, <2>8
<1>16. ASSUME put = 1
       PROVE  Entry(word2, list2[1], N)
  <2>1. /\ e.word \in Tokens(list2[1].kind)
        /\ list2[1].kind \in Hooked => list2[1].at = OperandOf(word2, N)
        /\ list2[1].kind = "begin" => list2[1].at = word2.first[N]
    BY <1>16 DEF Turns
  <2>2. Stays(src2, N, N)
    <3>1. \A k \in N..N : k = N
      BY <1>1
    <3>2. QED
      BY <1>10, <3>1 DEF Stays
  <2>3. (N + 1)..N = {} /\ N \in 1..N
    BY <1>1
  <2>4. QED
    BY <1>1, <2>1, <2>2, <2>3 DEF Entry, src2
<1>17. ASSUME NEW q \in 1..m2
       PROVE  /\ Entry(word2, Below(list2, q), t2[q])
              /\ Depth(src2, t2[q])
                   = Lev(src2, t2, q - 1) + (IF Below(list2, q).kind \in Opening THEN 1 ELSE 0)
  <2>1. CASE q \in 1..M
    <3>1. q - 1 \in 0..M /\ q \in 1..Len(list)
      BY <1>4, <2>1
    <3>2. Depth(src2, t2[q]) = Depth(src, t[q])
      BY <1>1, <1>3, <1>6, <1>11, <2>1
    <3>3. Lev(src2, t2, q - 1) = Lev(src, t, q - 1) /\ Below(list2, q) = Below(list, q)
      BY <1>4, <1>14, <2>1, <3>1
    <3>4. Depth(src, t[q]) = Lev(src, t, q - 1) + (IF Below(list, q).kind \in Opening THEN 1 ELSE 0)
      BY <1>5, <3>1
    <3>5. QED
      BY <1>15, <2>1, <3>2, <3>3, <3>4
  <2>2. CASE q = M + 1 /\ put = 1
    <3>1. M \in 0..M /\ q - 1 = M
      BY <1>4, <2>2
    <3>2. t2[q] = N /\ Below(list2, q) = list2[1] /\ Lev(src2, t2, q - 1) = Lev(src, t, M)
      BY <1>4, <1>11, <1>14, <2>2, <3>1
    <3>3. x = IF list2[1].kind \in Opening THEN 1 ELSE 0
      BY <1>8, <2>2
    <3>4. QED
      BY <1>9, <1>16, <2>2, <3>2, <3>3
  <2>3. QED
    BY <1>11, <2>1, <2>2
<1>18. Depth(src2, N) = Lev(src2, t2, m2)
  <2>1. CASE put = 1
    <3>1. m2 = M + 1 /\ m2 # 0 /\ t2[m2] = N
      BY <1>4, <1>11, <2>1
    <3>2. QED
      BY <3>1 DEF Lev
  <2>2. CASE put = 0
    <3>1. m2 = M /\ M \in 0..M /\ x = 0
      BY <1>4, <1>8, <2>2
    <3>2. Lev(src2, t2, m2) = Lev(src, t, M)
      BY <1>14, <3>1
    <3>3. QED
      BY <1>4, <1>7, <1>9, <3>1, <3>2
  <2>3. QED
    BY <1>4, <2>1, <2>2
<1>19. QED
  BY <1>1, <1>12, <1>13, <1>17, <1>18 DEF Stacked, src2, t2, m2

\* Each do, begin or case that is open has its condition ...
Marks == {"do", "begin", "case"}

Opened(word, list, t) ==
  \A d \in 1..Len(word.source) :
    word.source[d].word \in Marks /\ Stays(word.source, d, Len(word.source))
    => \E q \in 1..Len(list) : t[q] = d

\* ... and had it when an endof was met that is still on the stack.
InCase(word, list, t) ==
  \A q \in 1..Len(list) : Below(list, q).kind = "endof" =>
    \A d \in 1..(t[q] - 1) :
      word.source[d].word = "case" /\ Stays(word.source, d, t[q] - 1)
      => \E p \in 1..(q - 1) : t[p] = d

\* What a word takes off the stack when it puts something there.
Spares(list, e, M, put) ==
  /\ put = 1 => \A q \in (M + 1)..Len(list) : Below(list, q).kind \notin Marks
  /\ e.word \in Marks => put = 1

LEMMA MarkKind ==
  ASSUME NEW word, NEW c, NEW d, Entry(word, c, d), word.source[d].word \in Marks
  PROVE  c.kind = word.source[d].word
BY DEF Entry, Tokens, Marks

\* The facts that the steps below start from.
Growing(word, word2, e, list, t, N) ==
  /\ Len(word.source) \in Nat /\ N \in Nat /\ N > 0 /\ N = Len(word.source) + 1
  /\ Len(word2.source) = N /\ word2.source[N] = e
  /\ Reads(word.source, word2.source, Len(word.source))
  /\ \A k \in 1..Len(word.source) : word2.source[k] = word.source[k]
  /\ \A k \in 0..Len(word.source) :
       /\ Depth(word.source, k) \in Int
       /\ Depth(word2.source, k) = Depth(word.source, k)
  /\ Len(list) \in Nat
  /\ \A q \in 1..Len(list) : t[q] \in 1..Len(word.source) /\ Entry(word, Below(list, q), t[q])
  /\ \A p, q \in 1..Len(list) : p < q => t[p] < t[q]
  /\ \A q \in 0..Len(list) : Lev(word.source, t, q) \in Int
  /\ \A p, q \in 0..Len(list) :
       p <= q => Lev(word.source, t, p) <= Lev(word.source, t, q)

LEMMA GrowingIs ==
  ASSUME NEW word, NEW word2, NEW e, NEW Q, Placed(word), Grows(word, word2, e, Q),
         NEW list, NEW t, Stacked(word, list, t)
  PROVE  Growing(word, word2, e, list, t, Len(word.source) + 1)
<1>1. PICK N : N = Len(word.source) + 1
  OBVIOUS
<1>2. /\ Len(word.source) \in Nat /\ N \in Nat /\ N > 0 /\ Len(word2.source) = N
      /\ word2.source[N] = e
  <2>1. Larger(word, word2, e, Len(word.source) + 1)
    BY GrowsFacts
  <2>2. QED
    BY <1>1, <2>1 DEF Larger
<1>3. Reads(word.source, word2.source, Len(word.source))
  BY LongerReads DEF Grows
<1>4. /\ \A k \in 1..Len(word.source) : word2.source[k] = word.source[k]
      /\ \A k \in 0..Len(word.source) :
           /\ Depth(word.source, k) \in Int
           /\ Depth(word2.source, k) = Depth(word.source, k)
  BY <1>3 DEF Reads
<1>5. /\ Len(list) \in Nat
      /\ \A p, q \in 1..Len(list) : p < q => t[p] < t[q]
      /\ \A q \in 1..Len(list) : t[q] \in 1..Len(word.source) /\ Entry(word, Below(list, q), t[q])
  BY DEF Stacked, Entry
<1>6. /\ \A q \in 0..Len(list) : Lev(word.source, t, q) \in Int
      /\ \A p, q \in 0..Len(list) :
           p <= q => Lev(word.source, t, p) <= Lev(word.source, t, q)
  BY <1>2, <1>4, LevelsRise
<1>7. QED
  BY <1>1, <1>2, <1>3, <1>4, <1>5, <1>6 DEF Growing

\* The conditions that stay, and the one that is put on.
LEMMA TracingIs ==
  ASSUME NEW list, NEW list2, NEW M, NEW put, Lower(list, list2, M, put), NEW t, NEW N
  PROVE  /\ \A q \in 1..M : Tracing(t, M, put, N)[q] = t[q]
         /\ put = 1 => Tracing(t, M, put, N)[M + 1] = N
         /\ \A q \in 1..Len(list2) : q \in 1..M \/ (q = M + 1 /\ put = 1)
         /\ \A q \in 1..M : q \in 1..Len(list) /\ q \in 1..Len(list2)
         /\ \A q \in 1..Len(list) : q \in 1..M \/ q \in (M + 1)..Len(list)
         /\ put = 1 => M + 1 \in 1..Len(list2)
<1>1. Len(list) \in Nat /\ M \in 0..Len(list) /\ put \in {0, 1} /\ Len(list2) = M + put
  BY DEF Lower
<1>2. \A q \in 1..M : q \in 1..(M + put) /\ q <= M
  BY <1>1
<1>3. put = 1 => M + 1 \in 1..(M + put) /\ ~(M + 1 <= M)
  BY <1>1
<1>4. \A q \in 1..M : Tracing(t, M, put, N)[q] = t[q]
  BY <1>2 DEF Tracing
<1>5. put = 1 => Tracing(t, M, put, N)[M + 1] = N
  BY <1>3 DEF Tracing
<1>6. QED
  BY <1>1, <1>4, <1>5

LEMMA OpenedNext ==
  ASSUME NEW word, NEW word2, NEW e, NEW Q, Placed(word), Grows(word, word2, e, Q),
         NEW list, NEW t, Stacked(word, list, t), NEW N, N = Len(word.source) + 1,
         NEW list2, NEW M, NEW put, Turns(word, list, t, word2, list2, e, N, M, put),
         Opened(word, list, t), Spares(list, e, M, put)
  PROVE  Opened(word2, list2, Tracing(t, M, put, N))
<1>1. PICK src, src2, n, t2 : /\ src = word.source /\ src2 = word2.source
                              /\ n = Len(word.source) /\ t2 = Tracing(t, M, put, N)
  OBVIOUS
<1>2. Growing(word, word2, e, list, t, N)
  BY GrowingIs
<1>3. /\ n \in Nat /\ N \in Nat /\ N = n + 1 /\ Len(src2) = N /\ src2[N] = e /\ n = Len(src)
      /\ Reads(src, src2, n)
      /\ \A k \in 1..n : src2[k] = src[k]
      /\ \A k \in 0..n : Depth(src, k) \in Int /\ Depth(src2, k) = Depth(src, k)
      /\ Len(list) \in Nat
      /\ \A q \in 1..Len(list) : t[q] \in 1..n /\ Entry(word, Below(list, q), t[q])
      /\ \A q \in 0..Len(list) : Lev(src, t, q) \in Int
      /\ \A p, q \in 0..Len(list) : p <= q => Lev(src, t, p) <= Lev(src, t, q)
  BY <1>1, <1>2 DEF Growing
<1>4. Lower(list, list2, M, put)
  BY DEF Turns
<1>5. Len(list) \in Nat /\ M \in 0..Len(list) /\ put \in {0, 1} /\ Len(list2) = M + put
  BY <1>4 DEF Lower
<1>6. /\ \A q \in 1..M : t2[q] = t[q]
      /\ put = 1 => t2[M + 1] = N
      /\ \A q \in 1..M : q \in 1..Len(list) /\ q \in 1..Len(list2)
      /\ \A q \in 1..Len(list) : q \in 1..M \/ q \in (M + 1)..Len(list)
      /\ put = 1 => M + 1 \in 1..Len(list2)
  BY <1>1, <1>4, TracingIs
<1>7. ASSUME NEW d \in 1..N, src2[d].word \in Marks, Stays(src2, d, N)
      PROVE  \E q \in 1..Len(list2) : t2[q] = d
  <2>1. CASE d = N
    <3>1. put = 1
      BY <1>3, <1>7, <2>1 DEF Spares
    <3>2. QED
      BY <1>6, <2>1, <3>1
  <2>2. CASE d # N
    <3>1. d \in 1..n /\ d \in 0..n /\ src[d].word \in Marks
      BY <1>3, <1>7, <2>2
    <3>2. Stays(src, d, n)
      <4>1. d \in 1..(n + 1) /\ n \in 0..n /\ \A k \in d..n : k \in d..N
        BY <1>3, <3>1
      <4>2. Stays(src2, d, n)
        BY <1>7, <4>1 DEF Stays
      <4>3. QED
        BY <1>3, <4>1, <4>2, StaysSame
    <3>3. PICK q \in 1..Len(list) : t[q] = d
      BY <1>1, <3>1, <3>2 DEF Opened
    <3>4. CASE q \in 1..M
      BY <1>6, <3>3, <3>4
    <3>5. CASE q \in (M + 1)..Len(list)
      <4>1. Entry(word, Below(list, q), d)
        BY <1>3, <3>3
      <4>2. Below(list, q).kind \in Marks
        BY <1>1, <3>1, <4>1, MarkKind
      <4>3. put = 0
        BY <1>5, <3>5, <4>2 DEF Spares
      <4>4. Depth(src2, N) = Lev(src, t, M) + 0
        BY <1>1, <4>3 DEF Turns
      <4>5. Depth(src2, N) >= Depth(src2, d)
        <5>1. N \in d..N
          BY <1>3
        <5>2. QED
          BY <1>7, <5>1 DEF Stays
      <4>6. Depth(src, d) = Lev(src, t, q - 1) + 1
        <5>1. Below(list, q).kind \in Opening
          BY <4>2 DEF Marks, Opening
        <5>2. QED
          BY <1>1, <3>3, <5>1 DEF Stacked
      <4>7. M \in 0..Len(list) /\ q - 1 \in 0..Len(list) /\ M <= q - 1
        BY <1>5, <3>5
      <4>8. Lev(src, t, M) <= Lev(src, t, q - 1) /\ Lev(src, t, M) \in Int
            /\ Lev(src, t, q - 1) \in Int
        BY <1>3, <4>7
      <4>9. Depth(src2, d) = Depth(src, d)
        BY <1>3, <3>1
      <4>10. QED
        BY <4>4, <4>5, <4>6, <4>8, <4>9
    <3>6. QED
      BY <1>6, <3>4, <3>5
  <2>3. QED
    BY <2>1, <2>2
<1>8. QED
  BY <1>1, <1>3, <1>7 DEF Opened

LEMMA InCaseNext ==
  ASSUME NEW word, NEW word2, NEW e, NEW Q, Placed(word), Grows(word, word2, e, Q),
         NEW list, NEW t, Stacked(word, list, t), NEW N, N = Len(word.source) + 1,
         NEW list2, NEW M, NEW put, Turns(word, list, t, word2, list2, e, N, M, put),
         Opened(word, list, t), InCase(word, list, t), Spares(list, e, M, put)
  PROVE  InCase(word2, list2, Tracing(t, M, put, N))
<1>1. PICK src, src2, n, t2 : /\ src = word.source /\ src2 = word2.source
                              /\ n = Len(word.source) /\ t2 = Tracing(t, M, put, N)
  OBVIOUS
<1>2. Growing(word, word2, e, list, t, N)
  BY GrowingIs
<1>3. /\ n \in Nat /\ N \in Nat /\ N = n + 1 /\ n = Len(src)
      /\ Reads(src, src2, n)
      /\ \A k \in 1..n : src2[k] = src[k]
      /\ \A q \in 1..Len(list) : t[q] \in 1..n /\ Entry(word, Below(list, q), t[q])
  BY <1>1, <1>2 DEF Growing
<1>4. Lower(list, list2, M, put)
  BY DEF Turns
<1>5. /\ Len(list) \in Nat /\ M \in 0..Len(list) /\ put \in {0, 1}
      /\ \A q \in 1..M : Below(list2, q) = Below(list, q)
  BY <1>4 DEF Lower
<1>6. /\ \A q \in 1..M : t2[q] = t[q]
      /\ put = 1 => t2[M + 1] = N
      /\ \A q \in 1..Len(list2) : q \in 1..M \/ (q = M + 1 /\ put = 1)
      /\ \A q \in 1..M : q \in 1..Len(list)
      /\ \A q \in 1..Len(list) : q \in 1..M \/ q \in (M + 1)..Len(list)
  BY <1>1, <1>4, TracingIs
<1>7. ASSUME NEW d \in 1..n, NEW k \in 0..n, Stays(src2, d, k)
      PROVE  Stays(src, d, k)
  <2>1. d \in 1..(n + 1)
    BY <1>3
  <2>2. QED
    BY <1>3, <1>7, <2>1, StaysSame
<1>8. ASSUME NEW q \in 1..Len(list2), Below(list2, q).kind = "endof",
             NEW d \in 1..(t2[q] - 1), src2[d].word = "case", Stays(src2, d, t2[q] - 1)
      PROVE  \E p \in 1..(q - 1) : t2[p] = d
  <2>1. CASE q \in 1..M
    <3>1. q \in 1..Len(list) /\ t2[q] = t[q] /\ t[q] \in 1..n /\ Below(list, q).kind = "endof"
      BY <1>3, <1>5, <1>6, <1>8, <2>1
    <3>2. d \in 1..(t[q] - 1) /\ d \in 1..n /\ t[q] - 1 \in 0..n
      BY <1>3, <3>1
    <3>3. src[d].word = "case" /\ Stays(src, d, t[q] - 1)
      BY <1>3, <1>7, <1>8, <3>1, <3>2
    <3>4. PICK p \in 1..(q - 1) : t[p] = d
      BY <1>1, <3>1, <3>2, <3>3 DEF InCase
    <3>5. p \in 1..M
      BY <1>5, <2>1
    <3>6. QED
      BY <1>6, <3>4, <3>5
  <2>2. CASE q = M + 1 /\ put = 1
    <3>1. t2[q] = N /\ N - 1 = n
      BY <1>3, <1>6, <2>2
    <3>2. d \in 1..n /\ n \in 0..n
      BY <1>3, <3>1
    <3>3. src[d].word = "case" /\ Stays(src, d, n)
      BY <1>3, <1>7, <1>8, <3>1, <3>2
    <3>4. src[d].word \in Marks
      BY <3>3 DEF Marks
    <3>5. PICK p \in 1..Len(list) : t[p] = d
      BY <1>1, <3>2, <3>3, <3>4 DEF Opened
    <3>6. Below(list, p).kind \in Marks
      BY <1>1, <1>3, <3>4, <3>5, MarkKind
    <3>7. p \notin (M + 1)..Len(list)
      BY <2>2, <3>6 DEF Spares
    <3>8. p \in 1..M
      BY <1>6, <3>7
    <3>9. p \in 1..(q - 1)
      BY <1>5, <2>2, <3>8
    <3>10. QED
      BY <1>6, <3>5, <3>8, <3>9
  <2>3. QED
    BY <1>6, <2>1, <2>2
<1>9. QED
  BY <1>1, <1>8 DEF InCase

\* How many loops the lowest conditions are in.
Loops(list, ins) ==
  /\ ins \in [0..Len(list) -> Nat] /\ ins[0] = 0
  /\ \A q \in 1..Len(list) :
       ins[q] = ins[q - 1] + (IF Below(list, q).kind = "do" THEN 1 ELSE 0)
  /\ \A p, q \in 0..Len(list) : p <= q => ins[p] <= ins[q]

Looped(ins, M, put, x) == [q \in 0..(M + put) |-> IF q <= M THEN ins[q] ELSE ins[M] + x]

LEMMA LoopsNext ==
  ASSUME NEW list, NEW ins, Loops(list, ins),
         NEW list2, NEW M, NEW put, Lower(list, list2, M, put),
         NEW x, x = IF put = 1 /\ list2[1].kind = "do" THEN 1 ELSE 0
  PROVE  /\ Loops(list2, Looped(ins, M, put, x))
         /\ \A q \in 0..M : Looped(ins, M, put, x)[q] = ins[q]
         /\ Looped(ins, M, put, x)[Len(list2)] = ins[M] + x
<1>1. PICK ins2, m2 : ins2 = Looped(ins, M, put, x) /\ m2 = Len(list2)
  OBVIOUS
<1>2. /\ Len(list) \in Nat /\ M \in 0..Len(list) /\ put \in {0, 1} /\ m2 = M + put
      /\ \A q \in 1..M : Below(list2, q) = Below(list, q)
      /\ put = 1 => Below(list2, M + 1) = list2[1]
  BY <1>1 DEF Lower
<1>3. /\ ins \in [0..Len(list) -> Nat] /\ ins[0] = 0
      /\ \A q \in 1..Len(list) :
           ins[q] = ins[q - 1] + (IF Below(list, q).kind = "do" THEN 1 ELSE 0)
      /\ \A p, q \in 0..Len(list) : p <= q => ins[p] <= ins[q]
  BY DEF Loops
<1>4. x \in {0, 1} /\ (put = 0 => x = 0)
  OBVIOUS
<1>5. /\ DOMAIN ins2 = 0..m2
      /\ \A q \in 0..m2 : ins2[q] = IF q <= M THEN ins[q] ELSE ins[M] + x
  BY <1>1, <1>2 DEF Looped
<1>6. /\ \A q \in 0..M : q \in 0..m2 /\ q <= M /\ q \in 0..Len(list)
      /\ \A q \in 0..m2 : q \in 0..M \/ (q = M + 1 /\ put = 1)
      /\ M \in 0..M /\ 0 \in 0..M
      /\ put = 1 => M + 1 \in 0..m2 /\ ~(M + 1 <= M)
  BY <1>2
<1>7. /\ \A q \in 0..M : ins2[q] = ins[q]
      /\ put = 1 => ins2[M + 1] = ins[M] + x
  BY <1>5, <1>6
<1>8. \A q \in 0..Len(list) : ins[q] \in Nat
  BY <1>3
<1>9. ins2 \in [0..m2 -> Nat]
  <2>1. \A q \in 0..m2 : ins2[q] \in Nat
    BY <1>4, <1>6, <1>7, <1>8
  <2>2. ins2 = [q \in 0..m2 |-> ins2[q]]
    BY <1>1, <1>2 DEF Looped
  <2>3. QED
    BY <2>1, <2>2
<1>10. ASSUME NEW q \in 1..m2
       PROVE  ins2[q] = ins2[q - 1] + (IF Below(list2, q).kind = "do" THEN 1 ELSE 0)
  <2>1. CASE q \in 0..M
    <3>1. q \in 1..M /\ q - 1 \in 0..M /\ q \in 1..Len(list)
      BY <1>2, <2>1
    <3>2. ins2[q] = ins[q] /\ ins2[q - 1] = ins[q - 1] /\ Below(list2, q) = Below(list, q)
      BY <1>2, <1>7, <3>1
    <3>3. QED
      BY <1>3, <3>1, <3>2
  <2>2. CASE q = M + 1 /\ put = 1
    <3>1. q - 1 = M /\ M \in 0..M
      BY <1>2, <2>2
    <3>2. ins2[q] = ins[M] + x /\ ins2[q - 1] = ins[M] /\ Below(list2, q) = list2[1]
      BY <1>2, <1>7, <2>2, <3>1
    <3>3. QED
      BY <2>2, <3>2
  <2>3. q \in 0..m2
    BY <1>2
  <2>4. QED
    BY <1>6, <2>1, <2>2, <2>3
<1>11. ASSUME NEW p \in 0..m2, NEW q \in 0..m2, p <= q
       PROVE  ins2[p] <= ins2[q]
  <2>1. CASE q \in 0..M
    <3>1. p \in 0..M
      BY <1>2, <1>11, <2>1
    <3>2. QED
      BY <1>3, <1>6, <1>7, <1>11, <2>1, <3>1
  <2>2. CASE q = M + 1 /\ put = 1
    <3>1. CASE p \in 0..M
      <4>1. ins[p] <= ins[M] /\ ins[p] \in Nat /\ ins[M] \in Nat
        BY <1>3, <1>6, <1>8, <3>1
      <4>2. QED
        BY <1>4, <1>7, <2>2, <3>1, <4>1
    <3>2. CASE p = M + 1
      <4>1. ins2[q] \in Nat /\ p = q
        BY <1>9, <2>2, <3>2
      <4>2. QED
        BY <4>1
    <3>3. QED
      BY <1>6, <3>1, <3>2
  <2>3. QED
    BY <1>6, <2>1, <2>2
<1>12. Loops(list2, ins2)
  <2>1. ins2[0] = 0
    BY <1>3, <1>6, <1>7
  <2>2. QED
    BY <1>1, <1>9, <1>10, <1>11, <2>1 DEF Loops
<1>13. ins2[m2] = ins[M] + x
  <2>1. CASE put = 1
    BY <1>2, <1>7, <2>1
  <2>2. CASE put = 0
    <3>1. m2 = M /\ ins2[M] = ins[M] /\ ins[M] \in Nat /\ x = 0
      BY <1>2, <1>4, <1>6, <1>7, <1>8, <2>2
    <3>2. QED
      BY <3>1
  <2>3. QED
    BY <1>2, <2>1, <2>2
<1>14. QED
  BY <1>1, <1>7, <1>12, <1>13

\* Each jump is done, or will be.
Pending(word, list, leaves, t) ==
  \A i : IsJump(word, i) =>
    \/ Done(word, i, Len(word.code) + 1)
    \/ \E q \in 1..Len(list) : t[q] = i /\ Below(list, q).kind \in Hooked
    \/ /\ word.source[i].word = "leave"
       /\ \E x \in 0..2 : OperandOf(word, i) \in leaves[x]

\* The leave of a loop that is open.
LeaveOf(word, list, t, ins, x, at) ==
  \E i \in 1..Len(word.source), q \in 1..Len(list) :
    /\ word.source[i].word = "leave" /\ at = OperandOf(word, i)
    /\ Below(list, q).kind = "do" /\ ins[q] = x + 1
    /\ IsOpener(word.source, i, "do", t[q])

Leaves(word, list, leaves, loops, t, ins) ==
  /\ loops + 1 = ins[Len(list)]
  /\ \A x \in 0..2 : x > loops => leaves[x] = {}
  /\ \A x \in 0..2 : \A at \in leaves[x] : LeaveOf(word, list, t, ins, x, at)

\* What a word does for the jumps that are not done: those in Q are.
Patches(word, word2, list, leaves, list2, leaves2, e, Q, N, M, put) ==
  /\ \A i : IsJump(word, i) /\ OperandOf(word, i) \in Q =>
       Aim(word2.source, i, N) /\ word.source[i].word \notin {"loop", "+loop"}
  /\ \A q \in (M + 1)..Len(list) : Below(list, q).kind \in Hooked => Below(list, q).at \in Q
  /\ \A x \in 0..2 : \A at \in leaves[x] : at \in Q \/ at \in leaves2[x]
  /\ e.word \in Jumps =>
       \/ Done(word2, N, Len(word2.code) + 1)
       \/ put = 1 /\ list2[1].kind \in Hooked
       \/ e.word = "leave" /\ \E x \in 0..2 : OperandOf(word2, N) \in leaves2[x]

LEMMA PendingNext ==
  ASSUME NEW word, NEW word2, NEW e, NEW Q, Placed(word), Grows(word, word2, e, Q),
         NEW list, NEW t, Stacked(word, list, t), NEW N, N = Len(word.source) + 1,
         NEW list2, NEW M, NEW put, Turns(word, list, t, word2, list2, e, N, M, put),
         NEW leaves, NEW leaves2, Pending(word, list, leaves, t),
         Patches(word, word2, list, leaves, list2, leaves2, e, Q, N, M, put)
  PROVE  Pending(word2, list2, leaves2, Tracing(t, M, put, N))
<1>1. PICK n, t2 : n = Len(word.source) /\ t2 = Tracing(t, M, put, N)
  OBVIOUS
<1>2. Growing(word, word2, e, list, t, N)
  BY GrowingIs
<1>3. /\ n \in Nat /\ N \in Nat /\ N = n + 1 /\ Len(word2.source) = N /\ word2.source[N] = e
      /\ \A q \in 1..Len(list) : t[q] \in 1..n /\ Entry(word, Below(list, q), t[q])
  BY <1>1, <1>2 DEF Growing
<1>4. Lower(list, list2, M, put)
  BY DEF Turns
<1>5. /\ \A q \in 1..M : Below(list2, q) = Below(list, q)
      /\ put = 1 => Below(list2, M + 1) = list2[1]
  BY <1>4 DEF Lower
<1>6. /\ \A q \in 1..M : t2[q] = t[q]
      /\ put = 1 => t2[M + 1] = N
      /\ \A q \in 1..M : q \in 1..Len(list) /\ q \in 1..Len(list2)
      /\ \A q \in 1..Len(list) : q \in 1..M \/ q \in (M + 1)..Len(list)
      /\ put = 1 => M + 1 \in 1..Len(list2)
  BY <1>1, <1>4, TracingIs
<1>7. /\ \A i : IsJump(word, i) /\ OperandOf(word, i) \in Q =>
           Aim(word2.source, i, N) /\ word.source[i].word \notin {"loop", "+loop"}
      /\ \A q \in (M + 1)..Len(list) : Below(list, q).kind \in Hooked => Below(list, q).at \in Q
      /\ \A x \in 0..2 : \A at \in leaves[x] : at \in Q \/ at \in leaves2[x]
      /\ e.word \in Jumps =>
           \/ Done(word2, N, Len(word2.code) + 1)
           \/ put = 1 /\ list2[1].kind \in Hooked
           \/ e.word = "leave" /\ \E x \in 0..2 : OperandOf(word2, N) \in leaves2[x]
  BY DEF Patches
<1>8. ASSUME NEW i, IsJump(word2, i)
      PROVE  \/ Done(word2, i, Len(word2.code) + 1)
             \/ \E q \in 1..Len(list2) : t2[q] = i /\ Below(list2, q).kind \in Hooked
             \/ /\ word2.source[i].word = "leave"
                /\ \E x \in 0..2 : OperandOf(word2, i) \in leaves2[x]
  <2>1. i \in 1..N /\ word2.source[i].word \in Jumps
    BY <1>3, <1>8 DEF IsJump
  <2>2. CASE i = N
    BY <1>3, <1>5, <1>6, <1>7, <2>1, <2>2
  <2>3. CASE i # N
    <3>1. i \in 1..Len(word.source)
      BY <1>1, <1>3, <2>1, <2>3
    <3>2. word2.source[i] = word.source[i] /\ OperandOf(word2, i) = OperandOf(word, i)
      BY <3>1, AfterSame
    <3>3. IsJump(word, i)
      BY <2>1, <3>1, <3>2 DEF IsJump
    <3>4. CASE OperandOf(word, i) \in Q
      <4>1. Aim(word2.source, i, N) /\ word.source[i].word \notin {"loop", "+loop"}
        BY <1>7, <3>3, <3>4
      <4>2. Done(word2, i, Len(word2.code) + 1)
        BY <3>3, <3>4, <4>1, DoneNow
      <4>3. QED
        BY <4>2
    <3>5. CASE OperandOf(word, i) \notin Q
      <4>1. CASE Done(word, i, Len(word.code) + 1)
        <5>1. Done(word2, i, Len(word2.code) + 1)
          BY <3>3, <3>5, <4>1, DoneStays
        <5>2. QED
          BY <5>1
      <4>2. CASE \E q \in 1..Len(list) : t[q] = i /\ Below(list, q).kind \in Hooked
        <5>1. PICK q \in 1..Len(list) : t[q] = i /\ Below(list, q).kind \in Hooked
          BY <4>2
        <5>2. Below(list, q).at = OperandOf(word, i)
          BY <1>3, <5>1 DEF Entry
        <5>3. q \in 1..M
          BY <1>6, <1>7, <3>5, <5>1, <5>2
        <5>4. QED
          BY <1>5, <1>6, <5>1, <5>3
      <4>3. CASE /\ word.source[i].word = "leave"
                 /\ \E x \in 0..2 : OperandOf(word, i) \in leaves[x]
        BY <1>7, <3>2, <3>5, <4>3
      <4>4. QED
        BY <3>3, <4>1, <4>2, <4>3 DEF Pending
    <3>6. QED
      BY <3>4, <3>5
  <2>4. QED
    BY <2>2, <2>3
<1>9. QED
  BY <1>1, <1>8 DEF Pending

\* What a word does to the leaves of the loops.
Leaves2(word2, list, list2, leaves, leaves2, loops2, t2, ins, ins2, M, x) ==
  /\ loops2 + 1 = ins[M] + x
  /\ \A y \in 0..2 : y > loops2 => leaves2[y] = {}
  /\ \A y \in 0..2 : \A at \in leaves2[y] :
       at \in leaves[y] \/ LeaveOf(word2, list2, t2, ins2, y, at)
  /\ \A y \in 0..2, q \in (M + 1)..Len(list) :
       Below(list, q).kind = "do" /\ ins[q] = y + 1 => leaves2[y] = {}

LEMMA LeavesNext ==
  ASSUME NEW word, NEW word2, NEW e, NEW Q, Placed(word), Grows(word, word2, e, Q),
         NEW list, NEW t, Stacked(word, list, t), NEW N, N = Len(word.source) + 1,
         NEW list2, NEW M, NEW put, Turns(word, list, t, word2, list2, e, N, M, put),
         NEW leaves, NEW leaves2, NEW loops, NEW loops2, NEW ins, Loops(list, ins),
         Leaves(word, list, leaves, loops, t, ins),
         NEW x, x = IF put = 1 /\ list2[1].kind = "do" THEN 1 ELSE 0,
         Leaves2(word2, list, list2, leaves, leaves2, loops2, Tracing(t, M, put, N), ins,
                 Looped(ins, M, put, x), M, x)
  PROVE  Leaves(word2, list2, leaves2, loops2, Tracing(t, M, put, N), Looped(ins, M, put, x))
<1>1. PICK n, t2, ins2 : /\ n = Len(word.source) /\ t2 = Tracing(t, M, put, N)
                         /\ ins2 = Looped(ins, M, put, x)
  OBVIOUS
<1>2. Growing(word, word2, e, list, t, N)
  BY GrowingIs
<1>3. /\ n \in Nat /\ N \in Nat /\ N = n + 1 /\ Len(word2.source) = N
      /\ Reads(word.source, word2.source, n)
  BY <1>1, <1>2 DEF Growing
<1>4. Lower(list, list2, M, put)
  BY DEF Turns
<1>5. M \in Nat /\ \A q \in 1..M : Below(list2, q) = Below(list, q)
  BY <1>4 DEF Lower
<1>6. /\ \A q \in 1..M : t2[q] = t[q]
      /\ \A q \in 1..M : q \in 1..Len(list2)
      /\ \A q \in 1..Len(list) : q \in 1..M \/ q \in (M + 1)..Len(list)
  BY <1>1, <1>4, TracingIs
<1>7. ins2[Len(list2)] = ins[M] + x /\ \A q \in 0..M : ins2[q] = ins[q]
  BY <1>1, <1>4, LoopsNext
<1>8. /\ loops2 + 1 = ins[M] + x
      /\ \A y \in 0..2 : y > loops2 => leaves2[y] = {}
      /\ \A y \in 0..2 : \A at \in leaves2[y] :
           at \in leaves[y] \/ LeaveOf(word2, list2, t2, ins2, y, at)
      /\ \A y \in 0..2, q \in (M + 1)..Len(list) :
           Below(list, q).kind = "do" /\ ins[q] = y + 1 => leaves2[y] = {}
  BY <1>1 DEF Leaves2
<1>9. ASSUME NEW y \in 0..2, NEW at \in leaves2[y], at \in leaves[y]
      PROVE  LeaveOf(word2, list2, t2, ins2, y, at)
  <2>1. LeaveOf(word, list, t, ins, y, at)
    BY <1>9 DEF Leaves
  <2>2. PICK i \in 1..Len(word.source), q \in 1..Len(list) :
          /\ word.source[i].word = "leave" /\ at = OperandOf(word, i)
          /\ Below(list, q).kind = "do" /\ ins[q] = y + 1
          /\ IsOpener(word.source, i, "do", t[q])
    BY <2>1 DEF LeaveOf
  <2>3. q \in 1..M
    BY <1>6, <1>8, <1>9, <2>2
  <2>4. q \in 1..Len(list2) /\ t2[q] = t[q] /\ Below(list2, q) = Below(list, q)
    BY <1>5, <1>6, <2>3
  <2>5. ins2[q] = ins[q]
    <3>1. q \in 0..M
      BY <1>5, <2>3
    <3>2. QED
      BY <1>7, <3>1
  <2>6. word2.source[i] = word.source[i] /\ OperandOf(word2, i) = OperandOf(word, i)
    BY <2>2, AfterSame
  <2>7. i \in 1..N /\ i \in 1..(n + 1)
    BY <1>1, <1>3, <2>2
  <2>8. IsOpener(word2.source, i, "do", t[q])
    BY <1>3, <2>2, <2>7, OpenerSame
  <2>9. QED
    BY <1>3, <2>2, <2>4, <2>5, <2>6, <2>7, <2>8 DEF LeaveOf
<1>10. QED
  BY <1>1, <1>7, <1>8, <1>9 DEF Leaves

Traced(word, list, leaves, loops, t, ins) ==
  /\ Placed(word) /\ Stacked(word, list, t)
  /\ Opened(word, list, t) /\ InCase(word, list, t)
  /\ Loops(list, ins)
  /\ Pending(word, list, leaves, t)
  /\ Leaves(word, list, leaves, loops, t, ins)

\* How a word is taken: what it must do for its definition to be traced on.
Steps(word, list, leaves, t, ins, word2, list2, leaves2, loops2, e, Q, M, put) ==
  \E N, x :
    /\ N = Len(word.source) + 1
    /\ x = IF put = 1 /\ list2[1].kind = "do" THEN 1 ELSE 0
    /\ Grows(word, word2, e, Q)
    /\ Turns(word, list, t, word2, list2, e, N, M, put)
    /\ Spares(list, e, M, put)
    /\ e.word \in Jumps => Hook(word2.code, OperandOf(word2, N))
    /\ e.word = "begin" => Len(word2.code) = Len(word.code)
    /\ Patches(word, word2, list, leaves, list2, leaves2, e, Q, N, M, put)
    /\ Leaves2(word2, list, list2, leaves, leaves2, loops2, Tracing(t, M, put, N), ins,
               Looped(ins, M, put, x), M, x)

LEMMA TracedNext ==
  ASSUME NEW word, NEW list, NEW leaves, NEW loops, NEW t, NEW ins,
         Traced(word, list, leaves, loops, t, ins),
         NEW word2, NEW list2, NEW leaves2, NEW loops2, NEW e, NEW Q, NEW M, NEW put,
         Steps(word, list, leaves, t, ins, word2, list2, leaves2, loops2, e, Q, M, put)
  PROVE  \E t2, ins2 : Traced(word2, list2, leaves2, loops2, t2, ins2)
<1>1. PICK N, x :
        /\ N = Len(word.source) + 1
        /\ x = IF put = 1 /\ list2[1].kind = "do" THEN 1 ELSE 0
        /\ Grows(word, word2, e, Q)
        /\ Turns(word, list, t, word2, list2, e, N, M, put)
        /\ Spares(list, e, M, put)
        /\ e.word \in Jumps => Hook(word2.code, OperandOf(word2, N))
        /\ e.word = "begin" => Len(word2.code) = Len(word.code)
        /\ Patches(word, word2, list, leaves, list2, leaves2, e, Q, N, M, put)
        /\ Leaves2(word2, list, list2, leaves, leaves2, loops2, Tracing(t, M, put, N), ins,
                   Looped(ins, M, put, x), M, x)
  BY DEF Steps
<1>2. /\ Placed(word) /\ Stacked(word, list, t)
      /\ Opened(word, list, t) /\ InCase(word, list, t)
      /\ Loops(list, ins)
      /\ Pending(word, list, leaves, t)
      /\ Leaves(word, list, leaves, loops, t, ins)
  BY DEF Traced
<1>3. Placed(word2)
  BY <1>1, <1>2, PlacedNext
<1>4. Stacked(word2, list2, Tracing(t, M, put, N))
  BY <1>1, <1>2, StackedNext
<1>5. Opened(word2, list2, Tracing(t, M, put, N))
  BY <1>1, <1>2, OpenedNext
<1>6. InCase(word2, list2, Tracing(t, M, put, N))
  BY <1>1, <1>2, InCaseNext
<1>7. Loops(list2, Looped(ins, M, put, x))
  BY <1>1, <1>2, LoopsNext DEF Turns
<1>8. Pending(word2, list2, leaves2, Tracing(t, M, put, N))
  BY <1>1, <1>2, PendingNext
<1>9. Leaves(word2, list2, leaves2, loops2, Tracing(t, M, put, N), Looped(ins, M, put, x))
  BY <1>1, <1>2, LeavesNext
<1>10. QED
  BY <1>3, <1>4, <1>5, <1>6, <1>7, <1>8, <1>9 DEF Traced

\* Nothing that opens a loop, or a structure, is between condition M and the top.
LEMMA SameLoops ==
  ASSUME NEW list, Len(list) \in Nat, NEW ins, Loops(list, ins), NEW M \in 0..Len(list),
         \A q \in (M + 1)..Len(list) : Below(list, q).kind # "do"
  PROVE  ins[M] = ins[Len(list)]
<1>1. /\ \A q \in 0..Len(list) : ins[q] \in Nat
      /\ \A q \in 1..Len(list) :
           ins[q] = ins[q - 1] + (IF Below(list, q).kind = "do" THEN 1 ELSE 0)
  BY DEF Loops
<1> DEFINE S == {q \in M..Len(list) : ins[q] # ins[M]}
<1>2. SUFFICES ASSUME S # {} PROVE FALSE
  OBVIOUS
<1>3. S \subseteq Nat
  OBVIOUS
<1>4. PICK q \in S : \A p \in S : q <= p
  BY <1>2, <1>3, LeastNat
<1>5. /\ q \in (M + 1)..Len(list) /\ q \in 1..Len(list) /\ q - 1 \in M..Len(list)
      /\ q - 1 \in 0..Len(list) /\ ~(q <= q - 1) /\ ins[q] # ins[M]
  BY <1>4
<1>6. ins[q - 1] = ins[M]
  BY <1>4, <1>5
<1>7. ins[q] = ins[q - 1] + 0 /\ ins[q - 1] \in Nat
  BY <1>1, <1>5
<1>8. QED
  BY <1>5, <1>6, <1>7

LEMMA SameLev ==
  ASSUME NEW word, NEW list, NEW t, Stacked(word, list, t), NEW M \in 0..Len(list),
         \A q \in 0..Len(list) : Lev(word.source, t, q) \in Int,
         \A q \in (M + 1)..Len(list) : Below(list, q).kind \notin Opening
  PROVE  Lev(word.source, t, M) = Lev(word.source, t, Len(list))
<1>1. /\ Len(list) \in Nat
      /\ \A q \in 1..Len(list) :
           Depth(word.source, t[q])
             = Lev(word.source, t, q - 1) + (IF Below(list, q).kind \in Opening THEN 1 ELSE 0)
  BY DEF Stacked
<1> DEFINE l(q) == Lev(word.source, t, q)
           S == {q \in M..Len(list) : l(q) # l(M)}
<1>2. SUFFICES ASSUME S # {} PROVE FALSE
  BY <1>1
<1>3. S \subseteq Nat
  OBVIOUS
<1>4. PICK q \in S : \A p \in S : q <= p
  BY <1>2, <1>3, LeastNat
<1>5. /\ q \in (M + 1)..Len(list) /\ q \in 1..Len(list) /\ q - 1 \in M..Len(list)
      /\ q - 1 \in 0..Len(list) /\ ~(q <= q - 1) /\ l(q) # l(M) /\ q # 0
  BY <1>1, <1>4
<1>6. l(q - 1) = l(M)
  BY <1>4, <1>5
<1>7. Depth(word.source, t[q]) = l(q - 1) + 0 /\ l(q - 1) \in Int
  BY <1>1, <1>5
<1>8. l(q) = Depth(word.source, t[q])
  BY <1>5 DEF Lev
<1>9. QED
  BY <1>5, <1>6, <1>7, <1>8

\* The word of a condition with a jump that is patched.
LEMMA HookIs ==
  ASSUME NEW word, Placed(word), NEW c, NEW d, Entry(word, c, d),
         c.kind \in Hooked, NEW i, IsJump(word, i), OperandOf(word, i) = c.at
  PROVE  i = d
<1>1. d \in 1..Len(word.source) /\ word.source[d].word \in Tokens(c.kind)
      /\ c.at = OperandOf(word, d)
  BY DEF Entry
<1>2. word.source[d].word \in Jumps
  BY <1>1 DEF Tokens, Hooked, Jumps
<1>3. IsJump(word, d)
  BY <1>1, <1>2 DEF IsJump
<1>4. QED
  BY <1>1, <1>3 DEF Placed

\* Word N is the next part of the structure of a condition.
LEMMA NextHere ==
  ASSUME NEW word, NEW word2, NEW e, NEW Q, Placed(word), Grows(word, word2, e, Q),
         NEW list, NEW t, Stacked(word, list, t), NEW N, N = Len(word.source) + 1,
         NEW q \in 1..Len(list), Below(list, q).kind \in {"if", "while", "of"},
         \/ Depth(word2.source, N) < Depth(word.source, t[q])
         \/ ElseAt(word2.source, N, Depth(word.source, t[q]))
  PROVE  IsNext(word2.source, t[q], N)
<1>1. PICK src, src2, n, d : /\ src = word.source /\ src2 = word2.source
                             /\ n = Len(word.source) /\ d = t[q]
  OBVIOUS
<1>2. Growing(word, word2, e, list, t, N)
  BY GrowingIs
<1>3. /\ n \in Nat /\ N = n + 1 /\ Len(src2) = N /\ n = Len(src)
      /\ Reads(src, src2, n)
      /\ \A k \in 1..n : src2[k] = src[k]
      /\ \A k \in 0..n : Depth(src, k) \in Int /\ Depth(src2, k) = Depth(src, k)
      /\ d \in 1..n /\ Entry(word, Below(list, q), d)
  BY <1>1, <1>2 DEF Growing
<1>4. Stays(src, d, n) /\ \A k \in (d + 1)..n : ~ElseAt(src, k, Depth(src, d))
  BY <1>1, <1>3 DEF Entry
<1>5. d \in 1..(n + 1) /\ n \in 0..n /\ d \in 0..n /\ N - 1 = n /\ N \in (d + 1)..N
      /\ \A k \in (d + 1)..n : k \in 1..n /\ k \in 0..n
  BY <1>3
<1>6. Stays(src2, d, n)
  BY <1>3, <1>4, <1>5, StaysSame
<1>7. Depth(src2, d) = Depth(src, d)
  BY <1>3, <1>5
<1>8. \A k \in (d + 1)..n : ~ElseAt(src2, k, Depth(src2, d))
  <2>1. \A k \in (d + 1)..n : Depth(src2, k) = Depth(src, k) /\ src2[k] = src[k]
    BY <1>3, <1>5
  <2>2. QED
    BY <1>4, <1>7, <2>1 DEF ElseAt
<1>9. Depth(src2, N) < Depth(src2, d) \/ ElseAt(src2, N, Depth(src2, d))
  BY <1>1, <1>7
<1>10. IsNext(src2, d, N)
  BY <1>3, <1>5, <1>6, <1>8, <1>9 DEF IsNext
<1>11. QED
  BY <1>1, <1>10

\* ... or the end of it.
LEMMA EndHere ==
  ASSUME NEW word, NEW word2, NEW e, NEW Q, Placed(word), Grows(word, word2, e, Q),
         NEW list, NEW t, Stacked(word, list, t), NEW N, N = Len(word.source) + 1,
         NEW q \in 1..Len(list), Depth(word2.source, N) < Depth(word.source, t[q])
  PROVE  IsEnd(word2.source, t[q], N)
<1>1. PICK src, src2, n, d : /\ src = word.source /\ src2 = word2.source
                             /\ n = Len(word.source) /\ d = t[q]
  OBVIOUS
<1>2. Growing(word, word2, e, list, t, N)
  BY GrowingIs
<1>3. /\ n \in Nat /\ N = n + 1 /\ Len(src2) = N /\ n = Len(src)
      /\ Reads(src, src2, n)
      /\ \A k \in 0..n : Depth(src, k) \in Int /\ Depth(src2, k) = Depth(src, k)
      /\ d \in 1..n /\ Entry(word, Below(list, q), d)
  BY <1>1, <1>2 DEF Growing
<1>4. Stays(src, d, n)
  BY <1>1, <1>3 DEF Entry
<1>5. d \in 1..(n + 1) /\ n \in 0..n /\ d \in 0..n /\ N - 1 = n /\ N \in (d + 1)..N
  BY <1>3
<1>6. Stays(src2, d, n)
  BY <1>3, <1>4, <1>5, StaysSame
<1>7. Depth(src2, N) < Depth(src2, d)
  BY <1>1, <1>3, <1>5
<1>8. IsEnd(src2, d, N)
  BY <1>3, <1>5, <1>6, <1>7 DEF IsEnd
<1>9. QED
  BY <1>1, <1>8

\* The innermost loop, or the like, at word N is the one whose condition has
\* none of its kind above it.
LEMMA Innermost ==
  ASSUME NEW word, NEW word2, NEW e, NEW Q, Placed(word), Grows(word, word2, e, Q),
         NEW list, NEW t, Stacked(word, list, t), Opened(word, list, t),
         NEW N, N = Len(word.source) + 1,
         NEW q \in 1..Len(list), NEW kind \in Marks, Below(list, q).kind = kind,
         \A p \in (q + 1)..Len(list) : Below(list, p).kind # kind
  PROVE  IsOpener(word2.source, N, kind, t[q])
<1>1. PICK src, src2, n, d : /\ src = word.source /\ src2 = word2.source
                             /\ n = Len(word.source) /\ d = t[q]
  OBVIOUS
<1>2. Growing(word, word2, e, list, t, N)
  BY GrowingIs
<1>3. /\ n \in Nat /\ N = n + 1 /\ n = Len(src)
      /\ Reads(src, src2, n)
      /\ \A k \in 1..n : src2[k] = src[k]
      /\ Len(list) \in Nat
      /\ \A p \in 1..Len(list) : t[p] \in 1..n /\ Entry(word, Below(list, p), t[p])
      /\ \A p, r \in 1..Len(list) : p < r => t[p] < t[r]
  BY <1>1, <1>2 DEF Growing
<1>4. d \in 1..n /\ Stays(src, d, n) /\ src[d].word = kind
  BY <1>1, <1>3 DEF Entry, Tokens, Marks
<1>5. d \in 1..(N - 1) /\ d \in 1..(n + 1) /\ n \in 0..n /\ N - 1 = n
  BY <1>3, <1>4
<1>6. Stays(src2, d, n) /\ src2[d].word = kind
  BY <1>3, <1>4, <1>5, StaysSame
<1>7. ASSUME NEW f \in (d + 1)..n, src2[f].word = kind, Stays(src2, f, n)
      PROVE  FALSE
  <2>1. f \in 1..n /\ f \in 1..(n + 1) /\ d < f
    BY <1>3, <1>4
  <2>2. Stays(src, f, n) /\ src[f].word = kind
    BY <1>3, <1>5, <1>7, <2>1, StaysSame
  <2>3. PICK p \in 1..Len(list) : t[p] = f
    BY <1>1, <2>1, <2>2 DEF Opened
  <2>4. Below(list, p).kind = kind
    BY <1>1, <1>3, <2>2, <2>3, MarkKind
  <2>5. ~(p < q) /\ p # q
    BY <1>1, <1>3, <2>1, <2>3
  <2>6. p \in (q + 1)..Len(list)
    BY <1>3, <2>5
  <2>7. QED
    BY <2>4, <2>6
<1>8. IsOpener(src2, N, kind, d)
  BY <1>5, <1>6, <1>7 DEF IsOpener
<1>9. QED
  BY <1>1, <1>8

\* The leaves stay when no loop is closed.
LEMMA LeavesSame ==
  ASSUME NEW word, NEW list, NEW leaves, NEW loops, NEW t, NEW ins,
         Leaves(word, list, leaves, loops, t, ins), Loops(list, ins), Len(list) \in Nat,
         NEW M \in 0..Len(list), NEW x \in {0, 1},
         \A q \in (M + 1)..Len(list) : Below(list, q).kind # "do",
         NEW word2, NEW list2, NEW t2, NEW ins2, NEW loops2,
         loops \in Int, loops2 = loops + x
  PROVE  Leaves2(word2, list, list2, leaves, leaves, loops2, t2, ins, ins2, M, x)
<1>1. loops + 1 = ins[Len(list)] /\ \A y \in 0..2 : y > loops => leaves[y] = {}
  BY DEF Leaves
<1>2. ins[M] = ins[Len(list)]
  BY SameLoops
<1>3. loops2 + 1 = ins[M] + x
  BY <1>1, <1>2
<1>4. \A y \in 0..2 : y > loops2 => leaves[y] = {}
  BY <1>1
<1>5. QED
  BY <1>3, <1>4 DEF Leaves2

\* What a word is added to, and how it is written down.
Base(word, list, leaves, loops, t, ins) ==
  /\ Traced(word, list, leaves, loops, t, ins)
  /\ IsCode(word.code) /\ IsSeq(list)
  /\ loops \in -1..2 /\ leaves \in [0..2 -> SUBSET Int]

Gets(word, word2, e) ==
  /\ Longer(word.source, word2.source, e)
  /\ Longer(word.first, word2.first, Len(word.code) + 1)

Traces(word, list, leaves, loops) ==
  \E t, ins : Traced(word, list, leaves, loops, t, ins)

\* The condition that word N puts on the stack.
Puts1(word2, e, list2, N) ==
  /\ e.word \in Tokens(list2[1].kind)
  /\ list2[1].kind \in Hooked => list2[1].at = OperandOf(word2, N)
  /\ list2[1].kind = "begin" => list2[1].at = word2.first[N]

\* How much the words of kinds that are opened are deeper.
Opens(put, list2) == IF put = 1 /\ list2[1].kind \in Opening THEN 1 ELSE 0
Loops1(put, list2) == IF put = 1 /\ list2[1].kind = "do" THEN 1 ELSE 0

BaseFacts(word, word2, e, list, leaves, loops, t, ins, N) ==
  /\ Placed(word) /\ Stacked(word, list, t)
  /\ Opened(word, list, t) /\ InCase(word, list, t)
  /\ Loops(list, ins)
  /\ Leaves(word, list, leaves, loops, t, ins)
  /\ Larger(word, word2, e, N)
  /\ Len(list) \in Nat
  /\ \A q \in 0..Len(list) : Lev(word.source, t, q) \in Int
  /\ \A q \in 1..Len(list) : t[q] \in 1..Len(word.source) /\ Entry(word, Below(list, q), t[q])
  /\ Depth(word2.source, N) = Lev(word.source, t, Len(list)) + Delta(e.word)

LEMMA BaseIs ==
  ASSUME NEW word, NEW list, NEW leaves, NEW loops, NEW t, NEW ins,
         Base(word, list, leaves, loops, t, ins),
         NEW word2, NEW e, NEW Q, Grows(word, word2, e, Q)
  PROVE  BaseFacts(word, word2, e, list, leaves, loops, t, ins, Len(word.source) + 1)
<1>1. PICK N : N = Len(word.source) + 1
  OBVIOUS
<1>2. /\ Placed(word) /\ Stacked(word, list, t)
      /\ Opened(word, list, t) /\ InCase(word, list, t)
      /\ Loops(list, ins)
      /\ Leaves(word, list, leaves, loops, t, ins)
  BY DEF Base, Traced
<1>3. Larger(word, word2, e, N)
  BY <1>1, <1>2, GrowsFacts
<1>4. Growing(word, word2, e, list, t, N)
  BY <1>1, <1>2, GrowingIs
<1>5. /\ Len(list) \in Nat
      /\ \A q \in 0..Len(list) : Lev(word.source, t, q) \in Int
      /\ \A q \in 1..Len(list) : t[q] \in 1..Len(word.source) /\ Entry(word, Below(list, q), t[q])
  BY <1>4 DEF Growing
<1>6. Depth(word2.source, N) = Lev(word.source, t, Len(list)) + Delta(e.word)
  <2>1. Longer(word.source, word2.source, e)
    BY DEF Grows
  <2>2. Depth(word2.source, Len(word.source) + 1) = Depth(word.source, Len(word.source)) + Delta(e.word)
    BY <2>1, DepthIs
  <2>3. Depth(word.source, Len(word.source)) = Lev(word.source, t, Len(list))
    BY <1>2 DEF Stacked
  <2>4. QED
    BY <1>1, <2>2, <2>3
<1>7. BaseFacts(word, word2, e, list, leaves, loops, t, ins, N)
  BY <1>2, <1>3, <1>5, <1>6 DEF BaseFacts
<1>8. QED
  BY <1>1, <1>7

LEMMA StepTaken ==
  ASSUME NEW word, NEW list, NEW leaves, NEW loops, NEW t, NEW ins,
         Base(word, list, leaves, loops, t, ins),
         NEW word2, NEW list2, NEW leaves2, NEW loops2, NEW e, NEW Q, NEW M, NEW put,
         Steps(word, list, leaves, t, ins, word2, list2, leaves2, loops2, e, Q, M, put)
  PROVE  Traces(word2, list2, leaves2, loops2)
<1>1. Traced(word, list, leaves, loops, t, ins)
  BY DEF Base
<1>2. \E t2, ins2 : Traced(word2, list2, leaves2, loops2, t2, ins2)
  BY <1>1, TracedNext
<1>3. QED
  BY <1>2 DEF Traces

\* Words that take nothing off the stack.
LEMMA StaysTraced ==
  ASSUME NEW word, NEW list, NEW leaves, NEW loops, NEW t, NEW ins,
         Base(word, list, leaves, loops, t, ins),
         NEW word2, NEW e, Grows(word, word2, e, {}),
         NEW list2, NEW put, Lower(list, list2, Len(list), put),
         Delta(e.word) = Opens(put, list2), e.word # "else",
         NEW N, N = Len(word.source) + 1,
         put = 1 => Puts1(word2, e, list2, N),
         e.word \in Marks => put = 1,
         e.word = "begin" => Len(word2.code) = Len(word.code),
         e.word \in Jumps =>
           Hook(word2.code, OperandOf(word2, N)) /\ put = 1 /\ list2[1].kind \in Hooked,
         NEW loops2, loops2 = loops + Loops1(put, list2)
  PROVE  Traces(word2, list2, leaves, loops2)
<1>1. BaseFacts(word, word2, e, list, leaves, loops, t, ins, N)
  BY BaseIs
<1>2. /\ Loops(list, ins) /\ Len(list) \in Nat
      /\ Leaves(word, list, leaves, loops, t, ins)
      /\ Depth(word2.source, N) = Lev(word.source, t, Len(list)) + Delta(e.word)
  BY <1>1 DEF BaseFacts
<1>3. PICK M : M = Len(list)
  OBVIOUS
<1>4. PICK x : x = Loops1(put, list2)
  OBVIOUS
<1>5. x \in {0, 1} /\ x = IF put = 1 /\ list2[1].kind = "do" THEN 1 ELSE 0
  BY <1>4 DEF Loops1
<1>6. M \in 0..Len(list) /\ \A q \in (M + 1)..Len(list) : FALSE
  BY <1>2, <1>3
<1>7. Turns(word, list, t, word2, list2, e, N, M, put)
  BY <1>2, <1>3 DEF Turns, Opens, Puts1
<1>8. Spares(list, e, M, put)
  BY <1>6 DEF Spares
<1>9. Patches(word, word2, list, leaves, list2, leaves, e, {}, N, M, put)
  BY <1>6 DEF Patches
<1>10. Leaves2(word2, list, list2, leaves, leaves, loops2, Tracing(t, M, put, N), ins,
               Looped(ins, M, put, x), M, x)
  <2>1. loops \in Int /\ loops2 = loops + x
    BY <1>4 DEF Base
  <2>2. PICK t2, ins2 : t2 = Tracing(t, M, put, N) /\ ins2 = Looped(ins, M, put, x)
    OBVIOUS
  <2>3. Leaves2(word2, list, list2, leaves, leaves, loops2, t2, ins, ins2, M, x)
    BY <1>2, <1>5, <1>6, <2>1, LeavesSame
  <2>4. QED
    BY <2>2, <2>3
<1>11. Steps(word, list, leaves, t, ins, word2, list2, leaves, loops2, e, {}, M, put)
  BY <1>5, <1>7, <1>8, <1>9, <1>10 DEF Steps
<1>12. QED
  BY <1>11, StepTaken

\* The condition on the top of the stack.
TopFacts(word, list, t, m) ==
  /\ m = Len(list) /\ m \in Nat /\ m > 0 /\ m \in 1..Len(list) /\ m - 1 \in 0..Len(list)
  /\ Below(list, m) = list[1] /\ Entry(word, list[1], t[m])
  /\ t[m] \in 1..Len(word.source)
  /\ \A q \in ((m - 1) + 1)..Len(list) : q = m
  /\ Lev(word.source, t, m) = Depth(word.source, t[m])
  /\ Lev(word.source, t, m) \in Int /\ Lev(word.source, t, m - 1) \in Int
  /\ Lev(word.source, t, m)
       = Lev(word.source, t, m - 1) + (IF list[1].kind \in Opening THEN 1 ELSE 0)

LEMMA TopIs ==
  ASSUME NEW word, NEW word2, NEW e, NEW list, NEW leaves, NEW loops, NEW t, NEW ins, NEW N,
         BaseFacts(word, word2, e, list, leaves, loops, t, ins, N), IsSeq(list),
         list # <<>>
  PROVE  TopFacts(word, list, t, Len(list))
<1>1. PICK m : m = Len(list)
  OBVIOUS
<1>2. m \in Nat /\ m > 0
  BY <1>1, IsSeqFacts, RestIs
<1>3. m \in 1..Len(list) /\ m - 1 \in 0..Len(list) /\ m \in 0..Len(list)
      /\ \A q \in ((m - 1) + 1)..Len(list) : q = m
  BY <1>1, <1>2
<1>4. Below(list, m) = list[1]
  <2>1. m - m + 1 = 1
    BY <1>2
  <2>2. QED
    BY <1>1, <2>1 DEF Below
<1>5. Entry(word, list[1], t[m]) /\ t[m] \in 1..Len(word.source)
  BY <1>3, <1>4 DEF BaseFacts
<1>6. Lev(word.source, t, m) = Depth(word.source, t[m])
  BY <1>2 DEF Lev
<1>7. Stacked(word, list, t) /\ \A q \in 0..Len(list) : Lev(word.source, t, q) \in Int
  BY DEF BaseFacts
<1>8. Depth(word.source, t[m])
        = Lev(word.source, t, m - 1) + (IF Below(list, m).kind \in Opening THEN 1 ELSE 0)
  BY <1>3, <1>7 DEF Stacked
<1>9. TopFacts(word, list, t, m)
  BY <1>1, <1>2, <1>3, <1>4, <1>5, <1>6, <1>7, <1>8 DEF TopFacts
<1>10. QED
  BY <1>1, <1>9

\* A word that takes a condition off, not that of a loop: the next part, or the
\* end, of its structure.
LEMMA TakesTraced ==
  ASSUME NEW word, NEW list, NEW leaves, NEW loops, NEW t, NEW ins,
         Base(word, list, leaves, loops, t, ins),
         NEW word2, NEW e, NEW Q, Grows(word, word2, e, Q),
         list # <<>>, NEW m, m = Len(list),
         NEW list2, NEW put, Lower(list, list2, m - 1, put),
         (IF list[1].kind \in Opening THEN 1 ELSE 0) + Delta(e.word) = Opens(put, list2),
         NEW N, N = Len(word.source) + 1,
         e.word = "else" => put = 1 /\ list2[1].kind = "if",
         put = 1 => /\ Puts1(word2, e, list2, N)
                    /\ list[1].kind \notin Marks /\ list2[1].kind # "do",
         list[1].kind # "do", e.word \notin Marks,
         \A at \in Q : list[1].kind \in Hooked /\ at = list[1].at,
         list[1].kind \in Hooked =>
           /\ list[1].at \in Q /\ Aim(word2.source, t[m], N)
           /\ word.source[t[m]].word \notin {"loop", "+loop"},
         e.word \in Jumps =>
           /\ Hook(word2.code, OperandOf(word2, N))
           /\ Done(word2, N, Len(word2.code) + 1) \/ (put = 1 /\ list2[1].kind \in Hooked)
  PROVE  Traces(word2, list2, leaves, loops)
<1>1. BaseFacts(word, word2, e, list, leaves, loops, t, ins, N)
  BY BaseIs
<1>2. /\ Placed(word) /\ Loops(list, ins) /\ Len(list) \in Nat
      /\ Leaves(word, list, leaves, loops, t, ins)
      /\ Depth(word2.source, N) = Lev(word.source, t, Len(list)) + Delta(e.word)
  BY <1>1 DEF BaseFacts
<1>3. IsSeq(list) /\ loops \in Int
  BY DEF Base
<1>4. TopFacts(word, list, t, m)
  BY <1>1, <1>3, TopIs
<1>5. /\ Below(list, m) = list[1] /\ Entry(word, list[1], t[m])
      /\ m - 1 \in 0..Len(list)
      /\ \A q \in ((m - 1) + 1)..Len(list) : q = m
      /\ Lev(word.source, t, m) \in Int /\ Lev(word.source, t, m - 1) \in Int
      /\ Lev(word.source, t, m)
           = Lev(word.source, t, m - 1) + (IF list[1].kind \in Opening THEN 1 ELSE 0)
  BY <1>4 DEF TopFacts
<1>6. PICK M : M = m - 1
  OBVIOUS
<1>7. put \in {0, 1}
  BY DEF Lower
<1>8. Depth(word2.source, N) = Lev(word.source, t, M) + Opens(put, list2)
  <2>1. Delta(e.word) \in Int
    BY DEF Delta
  <2>2. PICK a, b, o, f, g : /\ a = Lev(word.source, t, m) /\ b = Lev(word.source, t, m - 1)
                             /\ o = (IF list[1].kind \in Opening THEN 1 ELSE 0)
                             /\ f = Delta(e.word) /\ g = Opens(put, list2)
    OBVIOUS
  <2>3. /\ a \in Int /\ b \in Int /\ o \in Int /\ f \in Int /\ g \in Int
        /\ a = b + o /\ o + f = g
    BY <1>5, <2>1, <2>2 DEF Opens
  <2>4. a + f = b + g
    BY <2>3
  <2>5. QED
    BY <1>2, <1>6, <2>2, <2>4
<1>9. Turns(word, list, t, word2, list2, e, N, M, put)
  BY <1>6, <1>8 DEF Turns, Opens, Puts1
<1>10. Spares(list, e, M, put)
  BY <1>5, <1>6 DEF Spares
<1>11. Patches(word, word2, list, leaves, list2, leaves, e, Q, N, M, put)
  <2>1. ASSUME NEW i, IsJump(word, i), OperandOf(word, i) \in Q
        PROVE  Aim(word2.source, i, N) /\ word.source[i].word \notin {"loop", "+loop"}
    <3>1. list[1].kind \in Hooked /\ OperandOf(word, i) = list[1].at
      BY <2>1
    <3>2. i = t[m]
      BY <1>2, <1>5, <2>1, <3>1, HookIs
    <3>3. QED
      BY <3>1, <3>2
  <2>2. \A q \in (M + 1)..Len(list) : Below(list, q).kind \in Hooked => Below(list, q).at \in Q
    BY <1>5, <1>6
  <2>3. QED
    BY <2>1, <2>2 DEF Patches
<1>12. PICK x : x = IF put = 1 /\ list2[1].kind = "do" THEN 1 ELSE 0
  OBVIOUS
<1>13. x = 0
  BY <1>7, <1>12
<1>14. Leaves2(word2, list, list2, leaves, leaves, loops, Tracing(t, M, put, N), ins,
               Looped(ins, M, put, x), M, x)
  <2>1. \A q \in (M + 1)..Len(list) : Below(list, q).kind # "do"
    BY <1>5, <1>6
  <2>2. PICK t2, ins2 : t2 = Tracing(t, M, put, N) /\ ins2 = Looped(ins, M, put, x)
    OBVIOUS
  <2>3. M \in 0..Len(list) /\ x \in {0, 1} /\ loops = loops + x
    BY <1>3, <1>5, <1>6, <1>13
  <2>4. Leaves2(word2, list, list2, leaves, leaves, loops, t2, ins, ins2, M, x)
    BY <1>2, <1>3, <2>1, <2>3, LeavesSame
  <2>5. QED
    BY <2>2, <2>4
<1>15. e.word \in Jumps => Hook(word2.code, OperandOf(word2, N))
  OBVIOUS
<1>16. e.word # "begin"
  BY DEF Marks
<1>17. Steps(word, list, leaves, t, ins, word2, list2, leaves, loops, e, Q, M, put)
  BY <1>9, <1>10, <1>11, <1>12, <1>14, <1>15, <1>16 DEF Steps
<1>18. QED
  BY <1>17, StepTaken

OpenerFacts(word, word2, e, N, kind, d) ==
  /\ d \in 1..Len(word.source) /\ d \in 1..Len(word2.source) /\ word2.source[N] = e
  /\ word.source[d].word = kind /\ word2.first[d] = word.first[d]
  /\ AfterWord(word2, d, Len(word2.code) + 1) = AfterWord(word, d, Len(word.code) + 1)

LEMMA OpenerOf ==
  ASSUME NEW word, NEW word2, NEW e, NEW Q, Placed(word), Grows(word, word2, e, Q),
         NEW N, N = Len(word.source) + 1, NEW kind, NEW d, IsOpener(word2.source, N, kind, d)
  PROVE  OpenerFacts(word, word2, e, N, kind, d)
<1>1. Larger(word, word2, e, N)
  BY GrowsFacts
<1>2. /\ Len(word.source) \in Nat /\ Len(word2.source) = N /\ N - 1 = Len(word.source)
      /\ word2.source[N] = e
  BY <1>1 DEF Larger
<1>3. d \in 1..(N - 1) /\ word2.source[d].word = kind
  BY DEF IsOpener
<1>4. d \in 1..Len(word.source) /\ d \in 1..Len(word2.source)
  BY <1>2, <1>3
<1>5. /\ AfterWord(word2, d, Len(word2.code) + 1) = AfterWord(word, d, Len(word.code) + 1)
      /\ word2.first[d] = word.first[d] /\ word2.source[d] = word.source[d]
  BY <1>4, AfterSame
<1>6. QED
  BY <1>2, <1>3, <1>4, <1>5 DEF OpenerFacts

\* Jumps back: to the cell of begin, and to that behind do.
LEMMA BackDone ==
  ASSUME NEW word, NEW word2, NEW e, NEW Q, Placed(word), Grows(word, word2, e, Q),
         NEW N, N = Len(word.source) + 1, e.word \in Backward,
         NEW d, IsOpener(word2.source, N, "begin", d),
         word2.code[OperandOf(word2, N)].value + 1 = word.first[d]
  PROVE  Done(word2, N, Len(word2.code) + 1)
<1>1. /\ d \in 1..Len(word.source) /\ d \in 1..Len(word2.source) /\ word2.source[N] = e
      /\ word.source[d].word = "begin"
      /\ AfterWord(word2, d, Len(word2.code) + 1) = AfterWord(word, d, Len(word.code) + 1)
  <2>1. OpenerFacts(word, word2, e, N, "begin", d)
    BY OpenerOf
  <2>2. QED
    BY <2>1 DEF OpenerFacts
<1>2. AfterWord(word, d, Len(word.code) + 1) = word.first[d]
  BY <1>1 DEF Placed
<1>3. Landing(word2, N, d, Len(word2.code) + 1) = word.first[d]
  BY <1>1, <1>2 DEF Landing, Backward
<1>4. Aim(word2.source, N, d)
  BY <1>1 DEF Aim
<1>5. QED
  BY <1>1, <1>3, <1>4 DEF Done

LEMMA LoopDone ==
  ASSUME NEW word, NEW word2, NEW e, NEW Q, Placed(word), Grows(word, word2, e, Q),
         NEW N, N = Len(word.source) + 1, e.word \in {"loop", "+loop"},
         NEW d, IsOpener(word2.source, N, "do", d),
         word2.code[OperandOf(word2, N)].value + 1 = word.first[d] + 1
  PROVE  Done(word2, N, Len(word2.code) + 1)
<1>1. /\ d \in 1..Len(word2.source) /\ word2.source[N] = e
      /\ word2.first[d] = word.first[d]
  <2>1. OpenerFacts(word, word2, e, N, "do", d)
    BY OpenerOf
  <2>2. QED
    BY <2>1 DEF OpenerFacts
<1>2. Landing(word2, N, d, Len(word2.code) + 1) = word.first[d] + 1
  BY <1>1 DEF Landing
<1>3. Aim(word2.source, N, d)
  BY <1>1 DEF Aim
<1>4. QED
  BY <1>1, <1>2, <1>3 DEF Done

\* The k-th condition from the top.
KthFacts(word, list, t, k, q) ==
  /\ q \in 1..Len(list) /\ q - 1 \in 0..Len(list)
  /\ Below(list, q) = list[k] /\ Entry(word, list[k], t[q])
  /\ t[q] \in 1..Len(word.source)
  /\ Lev(word.source, t, q) = Depth(word.source, t[q])
  /\ Lev(word.source, t, q) \in Int /\ Lev(word.source, t, q - 1) \in Int
  /\ Lev(word.source, t, q)
       = Lev(word.source, t, q - 1) + (IF list[k].kind \in Opening THEN 1 ELSE 0)

LEMMA FromTopIs ==
  ASSUME NEW word, NEW word2, NEW e, NEW list, NEW leaves, NEW loops, NEW t, NEW ins, NEW N,
         BaseFacts(word, word2, e, list, leaves, loops, t, ins, N), IsSeq(list),
         NEW k \in 1..Len(list), NEW q, q = Len(list) - k + 1
  PROVE  KthFacts(word, list, t, k, q)
<1>1. q \in 1..Len(list) /\ Below(list, q) = list[k]
  BY FromTop
<1>2. Len(list) \in Nat /\ q \in 0..Len(list) /\ q - 1 \in 0..Len(list) /\ q # 0
  BY <1>1 DEF BaseFacts
<1>3. Entry(word, list[k], t[q]) /\ t[q] \in 1..Len(word.source)
  BY <1>1 DEF BaseFacts
<1>4. Lev(word.source, t, q) = Depth(word.source, t[q])
  BY <1>2 DEF Lev
<1>5. Stacked(word, list, t) /\ \A p \in 0..Len(list) : Lev(word.source, t, p) \in Int
  BY DEF BaseFacts
<1>6. Depth(word.source, t[q])
        = Lev(word.source, t, q - 1) + (IF Below(list, q).kind \in Opening THEN 1 ELSE 0)
  BY <1>1, <1>5 DEF Stacked
<1>7. QED
  BY <1>1, <1>2, <1>3, <1>4, <1>5, <1>6 DEF KthFacts

LEMMA RepeatTraced ==
  ASSUME NEW word, NEW list, NEW leaves, NEW loops, NEW t, NEW ins,
         Base(word, list, leaves, loops, t, ins),
         NEW word2, NEW e, e.word = "repeat", NEW Q, Grows(word, word2, e, Q),
         Len(list) > 1, list[1].kind = "while", list[2].kind = "begin", Q = {list[1].at},
         NEW m, m = Len(list),
         NEW list2, Lower(list, list2, m - 2, 0),
         NEW N, N = Len(word.source) + 1,
         Hook(word2.code, OperandOf(word2, N)),
         word2.code[OperandOf(word2, N)].value + 1 = list[2].at
  PROVE  Traces(word2, list2, leaves, loops)
<1>1. BaseFacts(word, word2, e, list, leaves, loops, t, ins, N)
  BY BaseIs
<1>2. /\ Placed(word) /\ Loops(list, ins) /\ Len(list) \in Nat
      /\ Leaves(word, list, leaves, loops, t, ins)
      /\ Stacked(word, list, t) /\ Opened(word, list, t)
      /\ Depth(word2.source, N) = Lev(word.source, t, Len(list)) + Delta(e.word)
  BY <1>1 DEF BaseFacts
<1>3. IsSeq(list) /\ loops \in Int
  BY DEF Base
<1>4. PICK M, p : M = m - 2 /\ p = m - 1
  OBVIOUS
<1>5. /\ 1 \in 1..Len(list) /\ 2 \in 1..Len(list) /\ m = Len(list) - 1 + 1
      /\ p = Len(list) - 2 + 1 /\ m - 1 = p /\ p - 1 = M
      /\ M \in 0..Len(list) /\ M \in Nat
      /\ \A q \in (M + 1)..Len(list) : q = p \/ q = m
      /\ \A q \in (p + 1)..Len(list) : q = m
  BY <1>2, <1>4
<1>6. /\ m \in 1..Len(list) /\ Below(list, m) = list[1] /\ Entry(word, list[1], t[m])
      /\ Lev(word.source, t, m) = Depth(word.source, t[m])
      /\ Lev(word.source, t, m) \in Int /\ Lev(word.source, t, m - 1) \in Int
      /\ Lev(word.source, t, m)
           = Lev(word.source, t, m - 1) + (IF list[1].kind \in Opening THEN 1 ELSE 0)
  <2>1. KthFacts(word, list, t, 1, m)
    BY <1>1, <1>3, <1>5, FromTopIs
  <2>2. QED
    BY <2>1 DEF KthFacts
<1>7. /\ p \in 1..Len(list) /\ Below(list, p) = list[2] /\ Entry(word, list[2], t[p])
      /\ Lev(word.source, t, p - 1) \in Int
      /\ Lev(word.source, t, p)
           = Lev(word.source, t, p - 1) + (IF list[2].kind \in Opening THEN 1 ELSE 0)
  <2>1. KthFacts(word, list, t, 2, p)
    BY <1>1, <1>3, <1>5, FromTopIs
  <2>2. QED
    BY <2>1 DEF KthFacts
<1>8. "while" \notin Opening /\ "begin" \in Opening /\ "begin" \in Marks /\ Delta(e.word) = -1
      /\ "while" \in Hooked /\ "begin" \notin Hooked
  BY DEF Opening, Marks, Delta, Openers, Closers, Hooked
<1>9. /\ Depth(word2.source, N) = Lev(word.source, t, M)
      /\ Depth(word2.source, N) < Depth(word.source, t[m])
  <2>1. PICK a, b, c : /\ a = Lev(word.source, t, m) /\ b = Lev(word.source, t, p)
                       /\ c = Lev(word.source, t, M)
    OBVIOUS
  <2>2. a = b + 0 /\ b = c + 1 /\ a \in Int /\ b \in Int /\ c \in Int
    BY <1>5, <1>6, <1>7, <1>8, <2>1
  <2>3. Depth(word2.source, N) = a + -1
    BY <1>2, <1>8, <2>1
  <2>4. Depth(word2.source, N) = c /\ c < a
    BY <2>2, <2>3
  <2>5. QED
    BY <1>6, <2>1, <2>4
<1>10. Turns(word, list, t, word2, list2, e, N, M, 0)
  <2>1. Lev(word.source, t, M) \in Int
    BY <1>5, <1>7
  <2>2. QED
    BY <1>4, <1>9, <2>1 DEF Turns
<1>11. Spares(list, e, M, 0)
  BY DEF Spares, Marks
<1>12. Aim(word2.source, t[m], N) /\ word.source[t[m]].word \notin {"loop", "+loop"}
  <2>1. IsNext(word2.source, t[m], N)
    BY <1>2, <1>6, <1>9, NextHere
  <2>2. t[m] \in 1..Len(word.source) /\ word.source[t[m]].word = "while"
    BY <1>6 DEF Entry, Tokens
  <2>3. word2.source[t[m]] = word.source[t[m]]
    BY <1>2, <2>2, AfterSame
  <2>4. QED
    BY <2>1, <2>2, <2>3 DEF Aim, Onward
<1>13. Done(word2, N, Len(word2.code) + 1)
  <2>1. \A q \in (p + 1)..Len(list) : Below(list, q).kind # "begin"
    BY <1>5, <1>6
  <2>2. IsOpener(word2.source, N, "begin", t[p])
    BY <1>2, <1>7, <1>8, <2>1, Innermost
  <2>3. list[2].at = word.first[t[p]]
    BY <1>7 DEF Entry
  <2>4. e.word \in Backward
    BY DEF Backward
  <2>5. QED
    BY <1>2, <2>2, <2>3, <2>4, BackDone
<1>14. Patches(word, word2, list, leaves, list2, leaves, e, Q, N, M, 0)
  <2>1. ASSUME NEW i, IsJump(word, i), OperandOf(word, i) \in Q
        PROVE  Aim(word2.source, i, N) /\ word.source[i].word \notin {"loop", "+loop"}
    <3>1. i = t[m]
      BY <1>2, <1>6, <1>8, <2>1, HookIs
    <3>2. QED
      BY <1>12, <3>1
  <2>2. \A q \in (M + 1)..Len(list) : Below(list, q).kind \in Hooked => Below(list, q).at \in Q
    BY <1>5, <1>6, <1>7, <1>8
  <2>3. QED
    BY <1>13, <2>1, <2>2 DEF Patches
<1>15. Leaves2(word2, list, list2, leaves, leaves, loops, Tracing(t, M, 0, N), ins,
               Looped(ins, M, 0, 0), M, 0)
  <2>1. \A q \in (M + 1)..Len(list) : Below(list, q).kind # "do"
    BY <1>5, <1>6, <1>7
  <2>2. PICK t2, ins2 : t2 = Tracing(t, M, 0, N) /\ ins2 = Looped(ins, M, 0, 0)
    OBVIOUS
  <2>3. 0 \in {0, 1} /\ loops = loops + 0
    BY <1>3
  <2>4. Leaves2(word2, list, list2, leaves, leaves, loops, t2, ins, ins2, M, 0)
    BY <1>2, <1>3, <1>5, <2>1, <2>3, LeavesSame
  <2>5. QED
    BY <2>2, <2>4
<1>16. PICK x : x = IF 0 = 1 /\ list2[1].kind = "do" THEN 1 ELSE 0
  OBVIOUS
<1>17. x = 0
  BY <1>16
<1>18. Steps(word, list, leaves, t, ins, word2, list2, leaves, loops, e, Q, M, 0)
  BY <1>10, <1>11, <1>14, <1>15, <1>16, <1>17 DEF Steps
<1>19. QED
  BY <1>18, StepTaken

\* How a loop ends: loop goes behind do, and do and the leaves of the loop
\* behind loop.
EndsLoop(word, word2, e, Q, list, list2, leaves, leaves2, loops, loops2, m, N) ==
  /\ e.word \in {"loop", "+loop"} /\ Grows(word, word2, e, Q)
  /\ list # <<>> /\ list[1].kind = "do" /\ Q = {list[1].at} \cup leaves[loops]
  /\ m = Len(list) /\ Lower(list, list2, m - 1, 0) /\ N = Len(word.source) + 1
  /\ Hook(word2.code, OperandOf(word2, N))
  /\ word2.code[OperandOf(word2, N)].value = list[1].at - 2
  /\ leaves2 = [leaves EXCEPT ![loops] = {}] /\ loops2 = loops - 1

LEMMA LoopTraced ==
  ASSUME NEW word, NEW list, NEW leaves, NEW loops, NEW t, NEW ins,
         Base(word, list, leaves, loops, t, ins),
         NEW word2, NEW e, NEW Q, NEW m, NEW list2, NEW N, NEW leaves2, NEW loops2,
         EndsLoop(word, word2, e, Q, list, list2, leaves, leaves2, loops, loops2, m, N)
  PROVE  Traces(word2, list2, leaves2, loops2)
<1> SUFFICES ASSUME e.word \in {"loop", "+loop"}, Grows(word, word2, e, Q),
                    list # <<>>, list[1].kind = "do", Q = {list[1].at} \cup leaves[loops],
                    m = Len(list), Lower(list, list2, m - 1, 0), N = Len(word.source) + 1,
                    Hook(word2.code, OperandOf(word2, N)),
                    word2.code[OperandOf(word2, N)].value = list[1].at - 2,
                    leaves2 = [leaves EXCEPT ![loops] = {}], loops2 = loops - 1
             PROVE  Traces(word2, list2, leaves2, loops2)
  BY DEF EndsLoop
<1>1. BaseFacts(word, word2, e, list, leaves, loops, t, ins, N)
  BY BaseIs
<1>2. /\ Placed(word) /\ Loops(list, ins) /\ Len(list) \in Nat
      /\ Leaves(word, list, leaves, loops, t, ins)
      /\ Stacked(word, list, t) /\ Opened(word, list, t)
      /\ Larger(word, word2, e, N)
      /\ Depth(word2.source, N) = Lev(word.source, t, Len(list)) + Delta(e.word)
  BY <1>1 DEF BaseFacts
<1>3. IsSeq(list) /\ loops \in -1..2 /\ leaves \in [0..2 -> SUBSET Int]
  BY DEF Base
<1>4. PICK M : M = m - 1
  OBVIOUS
<1>5. TopFacts(word, list, t, m)
  BY <1>1, <1>3, TopIs
<1>6. /\ Below(list, m) = list[1] /\ Entry(word, list[1], t[m])
      /\ m \in 1..Len(list) /\ m \in Nat /\ t[m] \in 1..Len(word.source)
      /\ M \in 0..Len(list) /\ M \in Nat
      /\ \A q \in (M + 1)..Len(list) : q = m
      /\ Lev(word.source, t, m) = Depth(word.source, t[m])
      /\ Lev(word.source, t, m) \in Int /\ Lev(word.source, t, M) \in Int
      /\ Lev(word.source, t, m)
           = Lev(word.source, t, M) + (IF list[1].kind \in Opening THEN 1 ELSE 0)
  BY <1>4, <1>5 DEF TopFacts
<1>7. "do" \in Opening /\ "do" \in Marks /\ Delta(e.word) = -1 /\ "do" \in Hooked
  BY DEF Opening, Marks, Delta, Openers, Closers, Hooked
<1>8. /\ Depth(word2.source, N) = Lev(word.source, t, M)
      /\ Depth(word2.source, N) < Depth(word.source, t[m])
  <2>1. PICK a, c : a = Lev(word.source, t, m) /\ c = Lev(word.source, t, M)
    OBVIOUS
  <2>2. a = c + 1 /\ a \in Int /\ c \in Int
    BY <1>6, <1>7, <2>1
  <2>3. Depth(word2.source, N) = a + -1
    BY <1>2, <1>7, <2>1
  <2>4. Depth(word2.source, N) = c /\ c < a
    BY <2>2, <2>3
  <2>5. QED
    BY <1>6, <2>1, <2>4
<1>9. Turns(word, list, t, word2, list2, e, N, M, 0)
  BY <1>4, <1>6, <1>8 DEF Turns
<1>10. Spares(list, e, M, 0)
  BY DEF Spares, Marks
<1>11. ins[m] = ins[M] + 1 /\ ins[M] \in Nat /\ ins[M] = loops /\ loops \in 0..2
  <2>1. ins[m] = ins[m - 1] + 1
    BY <1>2, <1>6 DEF Loops
  <2>2. ins[M] \in Nat /\ ins[m] = ins[M] + 1
    BY <1>2, <1>4, <1>6, <2>1 DEF Loops
  <2>3. loops + 1 = ins[m]
    BY <1>2 DEF Leaves
  <2>4. QED
    BY <1>3, <2>2, <2>3
<1>12. ASSUME NEW i, IsJump(word, i), OperandOf(word, i) \in leaves[loops]
       PROVE  word.source[i].word = "leave" /\ IsOpener(word.source, i, "do", t[m])
              /\ i \in 1..Len(word.source)
  <2>1. LeaveOf(word, list, t, ins, loops, OperandOf(word, i))
    BY <1>2, <1>11, <1>12 DEF Leaves
  <2>2. PICK j \in 1..Len(word.source), q \in 1..Len(list) :
          /\ word.source[j].word = "leave" /\ OperandOf(word, i) = OperandOf(word, j)
          /\ Below(list, q).kind = "do" /\ ins[q] = loops + 1
          /\ IsOpener(word.source, j, "do", t[q])
    BY <2>1 DEF LeaveOf
  <2>3. IsJump(word, j)
    BY <2>2 DEF IsJump, Jumps
  <2>4. i = j
    BY <1>2, <1>12, <2>2, <2>3 DEF Placed
  <2>5. q = m
    <3>1. ASSUME q # m  PROVE FALSE
      <4>1. q \in 0..Len(list) /\ q <= M
        BY <1>2, <1>4, <1>6, <3>1
      <4>2. ins[q] <= ins[M]
        BY <1>2, <1>6, <4>1 DEF Loops
      <4>3. QED
        BY <1>11, <2>2, <4>2
    <3>2. QED
      BY <3>1
  <2>6. QED
    BY <2>2, <2>4, <2>5
<1>13. IsEnd(word2.source, t[m], N)
  BY <1>2, <1>6, <1>8, EndHere
<1>14. ASSUME NEW i, IsJump(word, i), OperandOf(word, i) \in Q
       PROVE  Aim(word2.source, i, N) /\ word.source[i].word \notin {"loop", "+loop"}
  <2>1. CASE OperandOf(word, i) = list[1].at
    <3>1. i = t[m]
      BY <1>2, <1>6, <1>7, <1>14, <2>1, HookIs
    <3>2. word.source[i].word = "do"
      BY <1>6, <3>1 DEF Entry, Tokens
    <3>3. word2.source[i] = word.source[i]
      BY <1>2, <1>6, <3>1, AfterSame
    <3>4. QED
      BY <1>13, <3>1, <3>2, <3>3 DEF Aim
  <2>2. CASE OperandOf(word, i) \in leaves[loops]
    <3>1. /\ word.source[i].word = "leave" /\ IsOpener(word.source, i, "do", t[m])
          /\ i \in 1..Len(word.source)
      BY <1>12, <1>14, <2>2
    <3>2. word2.source[i] = word.source[i]
      BY <1>2, <3>1, AfterSame
    <3>3. Reads(word.source, word2.source, Len(word.source))
      BY LongerReads DEF Grows
    <3>4. i \in 1..(Len(word.source) + 1)
      BY <1>2, <3>1 DEF Larger
    <3>5. IsOpener(word2.source, i, "do", t[m])
      BY <3>1, <3>3, <3>4, OpenerSame
    <3>6. QED
      BY <1>13, <3>1, <3>2, <3>5 DEF Aim
  <2>3. QED
    BY <1>14, <2>1, <2>2
<1>15. Done(word2, N, Len(word2.code) + 1)
  <2>1. \A q \in (m + 1)..Len(list) : FALSE
    BY <1>2, <1>6
  <2>2. IsOpener(word2.source, N, "do", t[m])
    BY <1>2, <1>6, <1>7, <2>1, Innermost
  <2>3. list[1].at = word.first[t[m]] + 2
    <3>1. list[1].at = OperandOf(word, t[m]) /\ word.source[t[m]].word = "do"
      BY <1>6, <1>7 DEF Entry, Tokens
    <3>2. QED
      BY <3>1 DEF OperandOf
  <2>4. word.first[t[m]] \in Int
    BY <1>2, <1>6 DEF Placed
  <2>5. word2.code[OperandOf(word2, N)].value + 1 = word.first[t[m]] + 1
    BY <2>3, <2>4
  <2>6. QED
    BY <1>2, <2>2, <2>5, LoopDone
<1>16. \A y \in 0..2 : leaves2[y] = IF y = loops THEN {} ELSE leaves[y]
  BY <1>3
<1>17. Patches(word, word2, list, leaves, list2, leaves2, e, Q, N, M, 0)
  <2>1. \A q \in (M + 1)..Len(list) : Below(list, q).kind \in Hooked => Below(list, q).at \in Q
    BY <1>6
  <2>2. \A x \in 0..2 : \A at \in leaves[x] : at \in Q \/ at \in leaves2[x]
    BY <1>16
  <2>3. QED
    BY <1>14, <1>15, <2>1, <2>2 DEF Patches
<1>18. Leaves2(word2, list, list2, leaves, leaves2, loops2, Tracing(t, M, 0, N), ins,
               Looped(ins, M, 0, 0), M, 0)
  <2>1. loops2 + 1 = ins[M] + 0
    BY <1>11
  <2>2. \A y \in 0..2 : y > loops => leaves[y] = {}
    BY <1>2 DEF Leaves
  <2>3. \A y \in 0..2 : y > loops2 => leaves2[y] = {}
    BY <1>11, <1>16, <2>2
  <2>4. \A y \in 0..2 : \A at \in leaves2[y] : at \in leaves[y]
    BY <1>16
  <2>5. \A y \in 0..2, q \in (M + 1)..Len(list) :
          Below(list, q).kind = "do" /\ ins[q] = y + 1 => leaves2[y] = {}
    <3>1. SUFFICES ASSUME NEW y \in 0..2, NEW q \in (M + 1)..Len(list), ins[q] = y + 1
                   PROVE  leaves2[y] = {}
      OBVIOUS
    <3>2. ins[q] = ins[M] + 1
      BY <1>6, <1>11
    <3>3. y = loops
      BY <1>11, <3>1, <3>2
    <3>4. QED
      BY <1>16, <3>3
  <2>6. QED
    BY <2>1, <2>3, <2>4, <2>5 DEF Leaves2
<1>19. PICK x : x = IF 0 = 1 /\ list2[1].kind = "do" THEN 1 ELSE 0
  OBVIOUS
<1>20. x = 0
  BY <1>19
<1>21. e.word \in Jumps /\ e.word # "begin"
  BY DEF Jumps
<1>22. Steps(word, list, leaves, t, ins, word2, list2, leaves2, loops2, e, Q, M, 0)
  BY <1>9, <1>10, <1>17, <1>18, <1>19, <1>20, <1>21 DEF Steps
<1>23. QED
  BY <1>22, StepTaken

\* leave waits for the end of the innermost loop.
LEMMA LoopAbove ==
  ASSUME NEW list, Len(list) \in Nat, NEW ins, Loops(list, ins), ins[Len(list)] # 0
  PROVE  \E q \in 1..Len(list) :
           /\ Below(list, q).kind = "do" /\ ins[q] = ins[Len(list)]
           /\ \A p \in (q + 1)..Len(list) : Below(list, p).kind # "do"
<1>1. PICK m : m = Len(list)
  OBVIOUS
<1>2. /\ ins \in [0..m -> Nat] /\ ins[0] = 0
      /\ \A q \in 1..m : ins[q] = ins[q - 1] + (IF Below(list, q).kind = "do" THEN 1 ELSE 0)
      /\ \A p, q \in 0..m : p <= q => ins[p] <= ins[q]
  BY <1>1 DEF Loops
<1>3. PICK S : S = {q \in 0..m : ins[q] = ins[m]}
  OBVIOUS
<1>4. PICK q \in S : \A p \in S : q <= p
  <2>1. S \subseteq Nat /\ m \in S
    BY <1>1, <1>3
  <2>2. QED
    BY <2>1, LeastNat
<1>5. q \in 1..m /\ ins[q] = ins[m]
  BY <1>1, <1>2, <1>3, <1>4
<1>6. Below(list, q).kind = "do"
  <2>1. q - 1 \in 0..m /\ ~(q <= q - 1)
    BY <1>1, <1>5
  <2>2. ins[q - 1] # ins[m] /\ ins[q - 1] \in Nat
    BY <1>2, <1>3, <1>4, <2>1
  <2>3. ins[q] = ins[q - 1] + (IF Below(list, q).kind = "do" THEN 1 ELSE 0)
    BY <1>2, <1>5
  <2>4. QED
    BY <1>5, <2>2, <2>3
<1>7. ASSUME NEW p \in (q + 1)..m
      PROVE  Below(list, p).kind # "do"
  <2>1. p \in 1..m /\ p - 1 \in 0..m /\ p \in 0..m /\ q \in 0..m /\ q <= p - 1 /\ m \in 0..m
        /\ p <= m
    BY <1>1, <1>5
  <2>2. ins[q] <= ins[p - 1] /\ ins[p] <= ins[m]
    BY <1>2, <2>1
  <2>3. ins[p] = ins[p - 1] + (IF Below(list, p).kind = "do" THEN 1 ELSE 0)
    BY <1>2, <2>1
  <2>4. ins[q] \in Nat /\ ins[p - 1] \in Nat /\ ins[p] \in Nat /\ ins[m] \in Nat
    BY <1>2, <2>1
  <2>5. QED
    BY <1>5, <2>2, <2>3, <2>4
<1>8. QED
  BY <1>1, <1>5, <1>6, <1>7

LEMMA LeaveTraced ==
  ASSUME NEW word, NEW list, NEW leaves, NEW loops, NEW t, NEW ins,
         Base(word, list, leaves, loops, t, ins), loops >= 0,
         NEW word2, NEW e, e.word = "leave", Grows(word, word2, e, {}),
         NEW N, N = Len(word.source) + 1,
         Hook(word2.code, OperandOf(word2, N)),
         NEW leaves2, leaves2 = [leaves EXCEPT ![loops] = @ \cup {Len(word.code) + 2}]
  PROVE  Traces(word2, list, leaves2, loops)
<1>1. BaseFacts(word, word2, e, list, leaves, loops, t, ins, N)
  BY BaseIs
<1>2. /\ Placed(word) /\ Loops(list, ins) /\ Len(list) \in Nat
      /\ Leaves(word, list, leaves, loops, t, ins)
      /\ Stacked(word, list, t) /\ Opened(word, list, t)
      /\ Larger(word, word2, e, N)
      /\ \A q \in 0..Len(list) : Lev(word.source, t, q) \in Int
      /\ Depth(word2.source, N) = Lev(word.source, t, Len(list)) + Delta(e.word)
  BY <1>1 DEF BaseFacts
<1>3. IsSeq(list) /\ loops \in 0..2 /\ leaves \in [0..2 -> SUBSET Int]
  BY DEF Base
<1>4. PICK m : m = Len(list)
  OBVIOUS
<1>5. /\ m \in Nat /\ m \in 0..m /\ \A q \in (m + 1)..m : FALSE
      /\ m + 0 = m
  BY <1>2, <1>4
<1>6. Lower(list, list, m, 0)
  BY <1>4, <1>5 DEF Lower
<1>7. Delta(e.word) = 0
  BY DEF Delta, Openers, Closers
<1>8. Depth(word2.source, N) = Lev(word.source, t, m)
  <2>1. PICK a : a = Lev(word.source, t, m)
    OBVIOUS
  <2>2. a \in Int /\ Depth(word2.source, N) = a + 0
    BY <1>2, <1>4, <1>5, <1>7, <2>1
  <2>3. QED
    BY <2>1, <2>2
<1>9. Turns(word, list, t, word2, list, e, N, m, 0)
  <2>1. Lev(word.source, t, m) \in Int
    BY <1>2, <1>4, <1>5
  <2>2. QED
    BY <1>6, <1>8, <2>1 DEF Turns
<1>10. Spares(list, e, m, 0)
  BY DEF Spares, Marks
<1>11. OperandOf(word2, N) = Len(word.code) + 2
  BY <1>2 DEF Larger
<1>12. \A y \in 0..2 : leaves2[y]
         = IF y = loops THEN leaves[y] \cup {OperandOf(word2, N)} ELSE leaves[y]
  BY <1>3, <1>11
<1>13. Patches(word, word2, list, leaves, list, leaves2, e, {}, N, m, 0)
  BY <1>3, <1>4, <1>5, <1>12 DEF Patches
<1>14. loops + 1 = ins[m] /\ \A y \in 0..2 : y > loops => leaves[y] = {}
  BY <1>2, <1>4 DEF Leaves
<1>15. PICK q \in 1..m :
         /\ Below(list, q).kind = "do" /\ ins[q] = ins[m]
         /\ \A p \in (q + 1)..m : Below(list, p).kind # "do"
  <2>1. ins[m] # 0
    BY <1>3, <1>14
  <2>2. QED
    BY <1>2, <1>4, <2>1, LoopAbove
<1>16. PICK t2, ins2 : t2 = Tracing(t, m, 0, N) /\ ins2 = Looped(ins, m, 0, 0)
  OBVIOUS
<1>17. LeaveOf(word2, list, t2, ins2, loops, OperandOf(word2, N))
  <2>1. IsOpener(word2.source, N, "do", t[q])
    <3>1. "do" \in Marks
      BY DEF Marks
    <3>2. QED
      BY <1>2, <1>4, <1>15, <3>1, Innermost
  <2>2. t2[q] = t[q] /\ ins2[q] = ins[q]
    BY <1>5, <1>15, <1>16 DEF Tracing, Looped
  <2>3. N \in 1..Len(word2.source) /\ word2.source[N].word = "leave"
    BY <1>2 DEF Larger
  <2>4. QED
    BY <1>4, <1>14, <1>15, <2>1, <2>2, <2>3 DEF LeaveOf
<1>18. Leaves2(word2, list, list, leaves, leaves2, loops, t2, ins, ins2, m, 0)
  <2>1. loops + 1 = ins[m] + 0
    BY <1>3, <1>14
  <2>2. \A y \in 0..2 : y > loops => leaves2[y] = {}
    BY <1>3, <1>12, <1>14
  <2>3. \A y \in 0..2 : \A at \in leaves2[y] :
          at \in leaves[y] \/ LeaveOf(word2, list, t2, ins2, y, at)
    BY <1>12, <1>17
  <2>4. QED
    BY <1>4, <1>5, <2>1, <2>2, <2>3 DEF Leaves2
<1>19. PICK x : x = IF 0 = 1 /\ list[1].kind = "do" THEN 1 ELSE 0
  OBVIOUS
<1>20. x = 0
  BY <1>19
<1>21. e.word # "begin"
  OBVIOUS
<1>22. Steps(word, list, leaves, t, ins, word2, list, leaves2, loops, e, {}, m, 0)
  BY <1>9, <1>10, <1>13, <1>16, <1>18, <1>19, <1>20, <1>21 DEF Steps
<1>23. QED
  BY <1>22, StepTaken

\* The endofs above a case.
EndofsAim(word, word2, list, t, N, p) ==
  \A q \in (p + 1)..Len(list) :
    Aim(word2.source, t[q], N) /\ word.source[t[q]].word = "endof"

LEMMA EndofAim ==
  ASSUME NEW word, NEW word2, NEW e, NEW Q, Placed(word), Grows(word, word2, e, Q),
         NEW list, NEW t, Stacked(word, list, t), InCase(word, list, t),
         NEW N, N = Len(word.source) + 1,
         NEW p \in 1..Len(list), Below(list, p).kind = "case",
         \A q \in (p + 1)..Len(list) : Below(list, q).kind = "endof",
         Depth(word2.source, N) < Depth(word.source, t[p])
  PROVE  EndofsAim(word, word2, list, t, N, p)
<1>0. SUFFICES ASSUME NEW q \in (p + 1)..Len(list)
               PROVE  Aim(word2.source, t[q], N) /\ word.source[t[q]].word = "endof"
  BY DEF EndofsAim
<1>1. PICK src, src2, n, d, i : /\ src = word.source /\ src2 = word2.source
                                /\ n = Len(word.source) /\ d = t[p] /\ i = t[q]
  OBVIOUS
<1>2. Growing(word, word2, e, list, t, N)
  BY GrowingIs
<1>3. /\ n \in Nat /\ Len(list) \in Nat
      /\ Reads(src, src2, n)
      /\ \A k \in 1..n : src2[k] = src[k]
      /\ \A r \in 1..Len(list) : t[r] \in 1..n /\ Entry(word, Below(list, r), t[r])
      /\ \A r, s \in 1..Len(list) : r < s => t[r] < t[s]
  BY <1>1, <1>2 DEF Growing
<1>4. q \in 1..Len(list) /\ p < q
  BY <1>3
<1>5. d \in 1..n /\ i \in 1..n /\ d < i /\ i - 1 \in 0..n /\ d \in 1..(i - 1)
      /\ i \in 1..(n + 1)
  <2>1. d \in 1..n /\ i \in 1..n /\ d < i
    BY <1>1, <1>3, <1>4
  <2>2. QED
    BY <1>3, <2>1
<1>6. src[i].word = "endof" /\ src[d].word = "case"
  BY <1>1, <1>3, <1>4 DEF Entry, Tokens
<1>7. Stays(src, d, i - 1)
  <2>1. Stays(src, d, n)
    BY <1>1, <1>3 DEF Entry
  <2>2. \A k \in d..(i - 1) : k \in d..n
    BY <1>3, <1>5
  <2>3. QED
    BY <2>1, <2>2 DEF Stays
<1>8. ASSUME NEW f \in (d + 1)..(i - 1), src[f].word = "case", Stays(src, f, i - 1)
      PROVE  FALSE
  <2>1. f \in 1..(i - 1) /\ f \in 1..n /\ d < f
    BY <1>3, <1>5
  <2>2. PICK r \in 1..(q - 1) : t[r] = f
    BY <1>1, <1>4, <1>8, <2>1 DEF InCase
  <2>3. r \in 1..Len(list)
    BY <1>3, <1>4
  <2>4. Below(list, r).kind = "case"
    BY <1>1, <1>3, <1>8, <2>2, <2>3, MarkKind DEF Marks
  <2>5. ~(r < p) /\ r # p
    BY <1>1, <1>3, <2>1, <2>2, <2>3
  <2>6. r \in (p + 1)..Len(list)
    BY <1>3, <2>3, <2>5
  <2>7. QED
    BY <2>4, <2>6
<1>9. IsOpener(src, i, "case", d)
  BY <1>5, <1>6, <1>7, <1>8 DEF IsOpener
<1>10. IsOpener(src2, i, "case", d)
  BY <1>3, <1>5, <1>9, OpenerSame
<1>11. IsEnd(src2, d, N)
  BY <1>1, EndHere
<1>12. src2[i] = src[i]
  BY <1>3, <1>5
<1>13. Aim(src2, i, N)
  BY <1>6, <1>10, <1>11, <1>12 DEF Aim
<1>14. QED
  BY <1>1, <1>6, <1>13

LEMMA EndcaseTraced ==
  ASSUME NEW word, NEW list, NEW leaves, NEW loops, NEW t, NEW ins,
         Base(word, list, leaves, loops, t, ins),
         NEW word2, NEW e, e.word = "endcase", NEW Q, Grows(word, word2, e, Q),
         NEW ends \in 0..(Len(list) - 1), AllEnds(list, ends), list[ends + 1].kind = "case",
         Q = {list[k].at : k \in 1..ends},
         NEW m, m = Len(list),
         NEW list2, Lower(list, list2, m - (ends + 1), 0)
  PROVE  Traces(word2, list2, leaves, loops)
<1>1. PICK N : N = Len(word.source) + 1
  OBVIOUS
<1>2. BaseFacts(word, word2, e, list, leaves, loops, t, ins, N)
  BY <1>1, BaseIs
<1>3. /\ Placed(word) /\ Loops(list, ins) /\ Len(list) \in Nat
      /\ Leaves(word, list, leaves, loops, t, ins)
      /\ Stacked(word, list, t) /\ Opened(word, list, t) /\ InCase(word, list, t)
      /\ \A q \in 0..Len(list) : Lev(word.source, t, q) \in Int
      /\ \A q \in 1..Len(list) : t[q] \in 1..Len(word.source) /\ Entry(word, Below(list, q), t[q])
      /\ Depth(word2.source, N) = Lev(word.source, t, Len(list)) + Delta(e.word)
  BY <1>2 DEF BaseFacts
<1>4. IsSeq(list) /\ loops \in Int
  BY DEF Base
<1>5. PICK M, p, k : M = m - (ends + 1) /\ p = m - ends /\ k = ends + 1
  OBVIOUS
<1>6. /\ k \in 1..Len(list) /\ p = Len(list) - k + 1 /\ M + 1 = p /\ p - 1 = M
      /\ M \in 0..Len(list) /\ M \in Nat /\ p \in 1..Len(list) /\ p \in 0..Len(list)
      /\ \A q \in (M + 1)..Len(list) : q = p \/ q \in (p + 1)..Len(list)
      /\ \A q \in (p + 1)..Len(list) : Len(list) - q + 1 \in 1..ends /\ q \in 1..Len(list)
  BY <1>3, <1>5
<1>7. \A q \in (p + 1)..Len(list) : Below(list, q).kind = "endof"
  BY <1>6 DEF Below, AllEnds
<1>8. /\ Below(list, p) = list[k]
      /\ Lev(word.source, t, p) = Depth(word.source, t[p])
      /\ Lev(word.source, t, p) \in Int /\ Lev(word.source, t, M) \in Int
      /\ Lev(word.source, t, p)
           = Lev(word.source, t, M) + (IF list[k].kind \in Opening THEN 1 ELSE 0)
  <2>1. KthFacts(word, list, t, k, p)
    BY <1>2, <1>4, <1>6, FromTopIs
  <2>2. QED
    BY <1>6, <2>1 DEF KthFacts
<1>9. "endof" \notin Opening /\ "case" \in Opening /\ Delta(e.word) = -1
      /\ "endof" \in Hooked /\ "case" \notin Hooked
  BY DEF Opening, Delta, Openers, Closers, Hooked
<1>10. list[k].kind = "case"
  BY <1>5
<1>11. Lev(word.source, t, p) = Lev(word.source, t, Len(list))
  BY <1>3, <1>6, <1>7, <1>9, SameLev
<1>12. /\ Depth(word2.source, N) = Lev(word.source, t, M)
       /\ Depth(word2.source, N) < Depth(word.source, t[p])
  <2>1. PICK a, c : a = Lev(word.source, t, p) /\ c = Lev(word.source, t, M)
    OBVIOUS
  <2>2. a = c + 1 /\ a \in Int /\ c \in Int
    BY <1>8, <1>9, <1>10, <2>1
  <2>3. Depth(word2.source, N) = a + -1
    BY <1>3, <1>9, <1>11, <2>1
  <2>4. Depth(word2.source, N) = c /\ c < a
    BY <2>2, <2>3
  <2>5. QED
    BY <1>8, <2>1, <2>4
<1>13. Turns(word, list, t, word2, list2, e, N, M, 0)
  BY <1>5, <1>8, <1>12 DEF Turns
<1>14. Spares(list, e, M, 0)
  BY DEF Spares, Marks
<1>15. ASSUME NEW i, IsJump(word, i), OperandOf(word, i) \in Q
       PROVE  Aim(word2.source, i, N) /\ word.source[i].word \notin {"loop", "+loop"}
  <2>1. PICK h \in 1..ends : OperandOf(word, i) = list[h].at
    BY <1>15
  <2>2. PICK q : q = Len(list) - h + 1
    OBVIOUS
  <2>3. h \in 1..Len(list) /\ q \in (p + 1)..Len(list) /\ q \in 1..Len(list)
    BY <1>3, <1>5, <2>2
  <2>4. Below(list, q) = list[h]
    BY <1>4, <2>2, <2>3, FromTop
  <2>5. Below(list, q).kind = "endof"
    BY <1>7, <2>3
  <2>6. i = t[q]
    <3>1. PICK c, d : c = Below(list, q) /\ d = t[q]
      OBVIOUS
    <3>2. Entry(word, c, d)
      BY <1>3, <2>3, <3>1
    <3>3. c.kind \in Hooked /\ OperandOf(word, i) = c.at
      BY <1>9, <2>1, <2>4, <2>5, <3>1
    <3>4. Placed(word) /\ IsJump(word, i)
      BY <1>3, <1>15
    <3>5. i = d
      BY <3>2, <3>3, <3>4, HookIs
    <3>6. QED
      BY <3>1, <3>5
  <2>7. Aim(word2.source, t[q], N) /\ word.source[t[q]].word = "endof"
    <3>1. Below(list, p).kind = "case" /\ Depth(word2.source, N) < Depth(word.source, t[p])
      BY <1>8, <1>10, <1>12
    <3>2. p \in 1..Len(list)
      BY <1>6
    <3>3. Grows(word, word2, e, Q)
      OBVIOUS
    <3>4. EndofsAim(word, word2, list, t, N, p)
      BY <1>1, <1>3, <1>7, <3>1, <3>2, <3>3, EndofAim
    <3>5. QED
      BY <3>4, <2>3 DEF EndofsAim
  <2>8. QED
    BY <2>6, <2>7
<1>16. Patches(word, word2, list, leaves, list2, leaves, e, Q, N, M, 0)
  <2>1. ASSUME NEW q \in (M + 1)..Len(list), Below(list, q).kind \in Hooked
        PROVE  Below(list, q).at \in Q
    <3>1. q \in (p + 1)..Len(list)
      BY <1>6, <1>8, <1>9, <1>10, <2>1
    <3>2. Len(list) - q + 1 \in 1..ends
      BY <1>6, <3>1
    <3>3. QED
      BY <3>2 DEF Below
  <2>2. e.word \notin Jumps
    BY DEF Jumps
  <2>3. QED
    BY <1>15, <2>1, <2>2 DEF Patches
<1>17. Leaves2(word2, list, list2, leaves, leaves, loops, Tracing(t, M, 0, N), ins,
               Looped(ins, M, 0, 0), M, 0)
  <2>1. \A q \in (M + 1)..Len(list) : Below(list, q).kind # "do"
    BY <1>6, <1>7, <1>8, <1>10
  <2>2. PICK t2, ins2 : t2 = Tracing(t, M, 0, N) /\ ins2 = Looped(ins, M, 0, 0)
    OBVIOUS
  <2>3. 0 \in {0, 1} /\ loops = loops + 0
    BY <1>4
  <2>4. Leaves2(word2, list, list2, leaves, leaves, loops, t2, ins, ins2, M, 0)
    BY <1>3, <1>4, <1>6, <2>1, <2>3, LeavesSame
  <2>5. QED
    BY <2>2, <2>4
<1>18. PICK x : x = IF 0 = 1 /\ list2[1].kind = "do" THEN 1 ELSE 0
  OBVIOUS
<1>19. x = 0
  BY <1>18
<1>20. e.word \notin Jumps /\ e.word # "begin"
  BY DEF Jumps
<1>21. Steps(word, list, leaves, t, ins, word2, list2, leaves, loops, e, Q, M, 0)
  BY <1>1, <1>13, <1>14, <1>16, <1>17, <1>18, <1>19, <1>20 DEF Steps
<1>22. QED
  BY <1>21, StepTaken

-----------------------------------------------------------------------------
(* Definitions that are broken or not: what is kept of their code.         *)

\* The word of a variable that x! writes to.
Simple(word) == IsVariable(word.code) /\ word.source = <<>>

\* The calls of the code of word w are of words before it.
CallOk(dict, w, code, p) ==
  /\ p + 1 \in 1..Len(code) /\ code[p + 1].value \in 1..(w - 1)
  /\ code[p].handler = "var_set" => Simple(dict[code[p + 1].value])

CellsOk(dict, w, code) ==
  \A p \in 1..Len(code) : code[p].handler \in {"call", "var_set"} => CallOk(dict, w, code, p)

Drawn(word, list, loops, leaves) ==
  /\ loops \in -1..2 /\ leaves \in [0..2 -> SUBSET Int]
  /\ Traces(word, list, leaves, loops)

\* The word that is compiled.
NewOk(dict, word, list, loops, leaves) ==
  /\ IsWord(word) /\ word.spoiled \in BOOLEAN /\ IsSeq(list)
  /\ CellsOk(dict, Len(dict) + 1, word.code)
  /\ word.spoiled \/ Drawn(word, list, loops, leaves)

\* One more word is written, with this code.
Written(word, word2, e, c) ==
  /\ IsWord(word2) /\ word2.code = c /\ word2.spoiled = word.spoiled
  /\ word2.source = Append(word.source, e)
  /\ word2.first = Append(word.first, Len(word.code) + 1)

LEMMA EmitWrites ==
  ASSUME IsWord(new), NEW word, NEW value, NEW code, NEW cells,
         Emit(word, value, code, cells), IsCode(code \o cells)
  PROVE  Written(new, new', [word |-> word, value |-> value], code \o cells)
<1>1. PICK c, w, e : c = code \o cells /\ w = new /\ e = [word |-> word, value |-> value]
  OBVIOUS
<1>2. /\ w = [name |-> w.name, code |-> w.code, source |-> w.source,
              first |-> w.first, spoiled |-> w.spoiled]
      /\ IsSeq(w.source) /\ IsSeq(w.first) /\ IsCode(c)
  BY <1>1 DEF IsWord
<1>3. PICK x, y : x = Append(w.source, e) /\ y = Append(w.first, Len(w.code) + 1)
  OBVIOUS
<1>4. PICK w2 : w2 = [name |-> w.name, code |-> c, source |-> x, first |-> y,
                      spoiled |-> w.spoiled]
  OBVIOUS
<1>5. new' = w2
  <2>1. new' = [w EXCEPT !.code = c, !.source = x, !.first = y]
    BY <1>1, <1>3 DEF Emit, Here
  <2>2. PICK a, b, d, f, g : /\ a = w.name /\ b = w.code /\ d = w.source
                             /\ f = w.first /\ g = w.spoiled
    OBVIOUS
  <2>3. w = [name |-> a, code |-> b, source |-> d, first |-> f, spoiled |-> g]
    BY <1>2, <2>2
  <2>4. w2 = [name |-> a, code |-> c, source |-> x, first |-> y, spoiled |-> g]
    BY <1>4, <2>2
  <2>5. PICK w3 : w3 = [w EXCEPT !.code = c]
    OBVIOUS
  <2>6. PICK w4 : w4 = [w3 EXCEPT !.source = x]
    OBVIOUS
  <2>7. w3 = [name |-> a, code |-> c, source |-> d, first |-> f, spoiled |-> g]
    BY <2>3, <2>5
  <2>8. w4 = [name |-> a, code |-> c, source |-> x, first |-> f, spoiled |-> g]
    BY <2>6, <2>7
  <2>9. [w4 EXCEPT !.first = y] = w2
    BY <2>4, <2>8
  <2>10. QED
    BY <2>1, <2>5, <2>6, <2>9
<1>6. w2.code = c /\ w2.source = x /\ w2.first = y /\ w2.spoiled = w.spoiled
  BY <1>4
<1>7. IsSeq(x) /\ IsSeq(y)
  BY <1>2, <1>3, Added
<1>8. IsWord(w2)
  BY <1>2, <1>4, <1>6, <1>7 DEF IsWord
<1>9. Written(w, w2, e, c)
  BY <1>3, <1>6, <1>8 DEF Written
<1>10. QED
  BY <1>1, <1>5, <1>9

LEMMA WrittenGrows ==
  ASSUME NEW word, IsWord(word), NEW word2, NEW e, NEW c, Written(word, word2, e, c),
         NEW Q, NEW v, Rewritten(word.code, c, Q, v), Q = {} \/ v = Len(c)
  PROVE  Grows(word, word2, e, Q)
<1>1. /\ word2.code = c /\ word2.source = Append(word.source, e)
      /\ word2.first = Append(word.first, Len(word.code) + 1)
  BY DEF Written
<1>2. IsSeq(word.source) /\ IsSeq(word.first) /\ IsCode(word.code)
  BY DEF IsWord
<1>3. Longer(word.source, word2.source, e)
  BY <1>1, <1>2, Added, IsSeqFacts DEF Longer
<1>4. Longer(word.first, word2.first, Len(word.code) + 1)
  BY <1>1, <1>2, Added, IsSeqFacts DEF Longer
<1>5. Len(word.code) \in Nat
  BY <1>2, IsSeqFacts DEF IsCode
<1>6. Rewritten(word.code, word2.code, Q, Len(word2.code))
  BY <1>1 DEF Rewritten
<1>7. QED
  BY <1>2, <1>3, <1>4, <1>5, <1>6 DEF Grows

\* The operands that are patched belong to jumps.
Hooks(word, list, leaves) ==
  /\ \A k \in 1..Len(list) : list[k].kind \in Hooked => Hook(word.code, list[k].at)
  /\ \A x \in 0..2 : \A at \in leaves[x] : Hook(word.code, at)

LEMMA HooksAre ==
  ASSUME NEW word, NEW list, NEW leaves, NEW loops, NEW t, NEW ins,
         Traced(word, list, leaves, loops, t, ins), IsSeq(list)
  PROVE  Hooks(word, list, leaves)
<1>1. /\ Placed(word) /\ Stacked(word, list, t)
      /\ Leaves(word, list, leaves, loops, t, ins)
  BY DEF Traced
<1>2. \A i : IsJump(word, i) => Hook(word.code, OperandOf(word, i))
  BY <1>1 DEF Placed
<1>3. ASSUME NEW k \in 1..Len(list), list[k].kind \in Hooked
      PROVE  Hook(word.code, list[k].at)
  <2>1. PICK q : q = Len(list) - k + 1
    OBVIOUS
  <2>2. Below(list, q) = list[k] /\ q \in 1..Len(list)
    BY <2>1, FromTop
  <2>3. Entry(word, list[k], t[q])
    BY <1>1, <2>2 DEF Stacked
  <2>4. IsJump(word, t[q])
    BY <1>3, <2>3 DEF Entry, IsJump, Jumps, Tokens, Hooked
  <2>5. list[k].at = OperandOf(word, t[q])
    BY <1>3, <2>3 DEF Entry
  <2>6. QED
    BY <1>2, <2>4, <2>5
<1>4. ASSUME NEW x \in 0..2, NEW at \in leaves[x]
      PROVE  Hook(word.code, at)
  <2>1. PICK i \in 1..Len(word.source) :
          word.source[i].word = "leave" /\ at = OperandOf(word, i)
    BY <1>1 DEF Leaves, LeaveOf
  <2>2. IsJump(word, i)
    BY <2>1 DEF IsJump, Jumps
  <2>3. QED
    BY <1>2, <2>1, <2>2
<1>5. QED
  BY <1>3, <1>4 DEF Hooks

\* No call is lost when operands of jumps are patched, and none is added.
NoCalls(code, c) ==
  \A p \in 1..Len(c) : p > Len(code) => c[p].handler \notin {"call", "var_set"}

LEMMA CellsGrow ==
  ASSUME NEW dict, NEW w, NEW code, CellsOk(dict, w, code), Len(code) \in Nat,
         NEW c, NEW Q, NEW v, Rewritten(code, c, Q, v), Len(c) \in Nat,
         \A at \in Q : Hook(code, at), NoCalls(code, c)
  PROVE  CellsOk(dict, w, c)
<1>1. SUFFICES ASSUME NEW p \in 1..Len(c), c[p].handler \in {"call", "var_set"}
               PROVE  CallOk(dict, w, c, p)
  BY DEF CellsOk
<1>2. p \in 1..Len(code)
  BY <1>1 DEF NoCalls
<1>3. /\ Len(c) >= Len(code)
      /\ \A n \in 1..Len(code) :
           c[n].handler = code[n].handler /\ (n \notin Q => c[n].value = code[n].value)
  BY DEF Rewritten
<1>4. c[p].handler = code[p].handler
  BY <1>2, <1>3
<1>5. PICK n : n = p + 1
  OBVIOUS
<1>6. /\ n \in 1..Len(code) /\ code[n].value \in 1..(w - 1)
      /\ code[p].handler = "var_set" => Simple(dict[code[n].value])
  BY <1>1, <1>2, <1>4, <1>5 DEF CellsOk, CallOk
<1>7. n \notin Q
  <2>1. ASSUME n \in Q  PROVE FALSE
    <3>1. code[n - 1].handler \in Jumping /\ n - 1 = p
      BY <1>2, <1>5, <2>1 DEF Hook
    <3>2. QED
      BY <1>1, <1>4, <3>1 DEF Jumping, Looping
  <2>2. QED
    BY <2>1
<1>8. c[n].value = code[n].value /\ n \in 1..Len(c)
  BY <1>3, <1>6, <1>7
<1>9. QED
  BY <1>4, <1>5, <1>6, <1>8 DEF CallOk

\* What is taken for granted of the definition that a word is added to.
Drawing(dict, word, list, loops, leaves) ==
  NewOk(dict, word, list, loops, leaves) /\ ~word.spoiled

LEMMA DrawingIs ==
  ASSUME NEW dict, NEW word, NEW list, NEW loops, NEW leaves,
         Drawing(dict, word, list, loops, leaves)
  PROVE  /\ IsWord(word) /\ IsCode(word.code) /\ Len(word.code) \in Nat /\ IsSeq(list)
         /\ Len(list) \in Nat
         /\ loops \in -1..2 /\ leaves \in [0..2 -> SUBSET Int]
         /\ Hooks(word, list, leaves)
         /\ \E t, ins : Base(word, list, leaves, loops, t, ins)
<1>1. /\ IsWord(word) /\ IsSeq(list) /\ Drawn(word, list, loops, leaves)
  BY DEF Drawing, NewOk
<1>2. IsCode(word.code) /\ Len(word.code) \in Nat /\ Len(list) \in Nat
  BY <1>1, IsSeqFacts DEF IsWord, IsCode
<1>3. loops \in -1..2 /\ leaves \in [0..2 -> SUBSET Int]
  BY <1>1 DEF Drawn
<1>4. PICK t, ins : Traced(word, list, leaves, loops, t, ins)
  BY <1>1 DEF Drawn, Traces
<1>5. Base(word, list, leaves, loops, t, ins)
  BY <1>1, <1>2, <1>3, <1>4 DEF Base
<1>6. Hooks(word, list, leaves)
  BY <1>1, <1>4, HooksAre
<1>7. QED
  BY <1>1, <1>2, <1>3, <1>5, <1>6

\* How a word is written, and what it leaves.
Writes(word, word2, e, c, Q, v, list2, loops2, leaves2) ==
  /\ Written(word, word2, e, c) /\ Rewritten(word.code, c, Q, v)
  /\ \A at \in Q : Hook(word.code, at)
  /\ NoCalls(word.code, c)
  /\ IsSeq(list2) /\ loops2 \in -1..2 /\ leaves2 \in [0..2 -> SUBSET Int]
  /\ Traces(word2, list2, leaves2, loops2)

LEMMA WordDrawn ==
  ASSUME NEW dict, NEW word, NEW list, NEW loops, NEW leaves,
         Drawing(dict, word, list, loops, leaves),
         NEW word2, NEW e, NEW c, NEW Q, NEW v, NEW list2, NEW loops2, NEW leaves2,
         Writes(word, word2, e, c, Q, v, list2, loops2, leaves2)
  PROVE  NewOk(dict, word2, list2, loops2, leaves2)
<1>1. Len(word.code) \in Nat
  BY DrawingIs
<1>2. CellsOk(dict, Len(dict) + 1, word.code)
  BY DEF Drawing, NewOk
<1>3. /\ IsWord(word2) /\ word2.code = c /\ Rewritten(word.code, c, Q, v)
      /\ \A at \in Q : Hook(word.code, at)
      /\ NoCalls(word.code, c) /\ IsSeq(list2)
  BY DEF Writes, Written
<1>4. Len(c) \in Nat
  BY <1>3, IsSeqFacts DEF IsWord, IsCode
<1>5. CellsOk(dict, Len(dict) + 1, c)
  BY <1>1, <1>2, <1>3, <1>4, CellsGrow
<1>6. Drawn(word2, list2, loops2, leaves2)
  BY DEF Drawn, Writes
<1>7. word2.spoiled \in BOOLEAN
  <2>1. word.spoiled \in BOOLEAN
    BY DEF Drawing, NewOk
  <2>2. word2.spoiled = word.spoiled
    BY DEF Writes, Written
  <2>3. QED
    BY <2>1, <2>2
<1>8. QED
  BY <1>3, <1>5, <1>6, <1>7 DEF NewOk

\* Words that build no structure.
LEMMA StraightDrawn ==
  ASSUME NEW dict, NEW word, NEW list, NEW loops, NEW leaves,
         Drawing(dict, word, list, loops, leaves),
         NEW word2, NEW e, NEW c, Written(word, word2, e, c), Rewritten(word.code, c, {}, 0),
         e.word \notin AllStructure, CellsOk(dict, Len(dict) + 1, c)
  PROVE  NewOk(dict, word2, list, loops, leaves)
<1>1. /\ IsWord(word) /\ IsSeq(list) /\ Len(list) \in Nat
      /\ loops \in -1..2 /\ leaves \in [0..2 -> SUBSET Int]
  BY DrawingIs
<1>2. PICK t, ins : Base(word, list, leaves, loops, t, ins)
  BY DrawingIs
<1>3. Grows(word, word2, e, {})
  BY <1>1, WrittenGrows
<1>4. PICK N : N = Len(word.source) + 1
  OBVIOUS
<1>5. Lower(list, list, Len(list), 0)
  BY <1>1 DEF Lower
<1>6. /\ Delta(e.word) = 0 /\ e.word # "else" /\ e.word \notin Marks /\ e.word \notin Jumps
      /\ e.word # "begin"
  BY DEF Delta, AllStructure, Openers, Middles, Closers, Marks, Jumps
<1>7. Opens(0, list) = 0 /\ loops = loops + Loops1(0, list)
  BY <1>1 DEF Opens, Loops1
<1>8. Delta(e.word) = Opens(0, list)
  BY <1>6, <1>7
<1>9. Traces(word2, list, leaves, loops)
  BY <1>2, <1>3, <1>4, <1>5, <1>6, <1>7, <1>8, StaysTraced
<1>10. Drawn(word2, list, loops, leaves)
  BY <1>1, <1>9 DEF Drawn
<1>11. IsWord(word2) /\ word2.code = c
  BY DEF Written
<1>12. word2.spoiled \in BOOLEAN
  <2>1. word.spoiled \in BOOLEAN
    BY DEF Drawing, NewOk
  <2>2. word2.spoiled = word.spoiled
    BY DEF Written
  <2>3. QED
    BY <2>1, <2>2
<1>13. QED
  BY <1>1, <1>10, <1>11, <1>12 DEF NewOk

\* A jump with its operand behind it.
TwoFacts(code, c, Q, v, h, x) ==
  /\ Rewritten(code, c, Q, v) /\ Len(c) = Len(code) + 2 /\ NoCalls(code, c)
  /\ c[Len(code) + 2].value = x
  /\ h \in Jumping => Hook(c, Len(code) + 2)

LEMMA TwoIs ==
  ASSUME NEW code, IsCode(code), NEW pc, NEW Q, NEW v, Patched(code, pc, Q, v),
         NEW h, h \notin {"call", "var_set"}, NEW x
  PROVE  TwoFacts(code, pc \o <<cell(h), operand(x)>>, Q, v, h, x)
<1>1. PICK c : c = pc \o <<cell(h), operand(x)>>
  OBVIOUS
<1>2. TwoMore(code, c, Q, v, cell(h), operand(x))
  BY <1>1, TwoAdded, CellsAre
<1>3. /\ Rewritten(code, c, Q, v) /\ Len(c) = Len(code) + 2
      /\ c[Len(code) + 1].handler = h
      /\ c[Len(code) + 2].handler = "operand" /\ c[Len(code) + 2].value = x
  BY <1>2, TwoMoreFacts
<1>4. Len(code) \in Nat
  BY IsSeqFacts DEF IsCode
<1>5. \A p \in 1..Len(c) : p > Len(code) => p = Len(code) + 1 \/ p = Len(code) + 2
  BY <1>3, <1>4
<1>6. NoCalls(code, c)
  BY <1>3, <1>5 DEF NoCalls
<1>7. h \in Jumping => Hook(c, Len(code) + 2)
  <2>1. Len(code) + 2 \in 2..Len(c) /\ (Len(code) + 2) - 1 = Len(code) + 1
    BY <1>3, <1>4
  <2>2. QED
    BY <1>3, <2>1 DEF Hook
<1>8. TwoFacts(code, c, Q, v, h, x)
  BY <1>3, <1>6, <1>7 DEF TwoFacts
<1>9. QED
  BY <1>1, <1>8

\* A word that puts a condition on the stack.
Opener1(word, word2, e, c, d, list, list2, loops, loops2) ==
  /\ Written(word, word2, e, c) /\ Rewritten(word.code, c, {}, 0) /\ NoCalls(word.code, c)
  /\ list2 = <<d>> \o list
  /\ list2[1] = d => Puts1(word2, e, list2, Len(word.source) + 1)
  /\ Delta(e.word) = (IF d.kind \in Opening THEN 1 ELSE 0) /\ e.word # "else"
  /\ e.word = "begin" => Len(c) = Len(word.code)
  /\ e.word \in Jumps =>
       Hook(c, OperandOf(word2, Len(word.source) + 1)) /\ d.kind \in Hooked
  /\ loops2 \in -1..2 /\ loops2 = loops + (IF d.kind = "do" THEN 1 ELSE 0)

LEMMA PutsDrawn ==
  ASSUME NEW dict, NEW word, NEW list, NEW loops, NEW leaves,
         Drawing(dict, word, list, loops, leaves),
         NEW word2, NEW e, NEW c, NEW d, NEW list2, NEW loops2,
         Opener1(word, word2, e, c, d, list, list2, loops, loops2)
  PROVE  NewOk(dict, word2, list2, loops2, leaves)
<1>0. /\ Written(word, word2, e, c) /\ Rewritten(word.code, c, {}, 0) /\ NoCalls(word.code, c)
      /\ list2 = <<d>> \o list
      /\ list2[1] = d => Puts1(word2, e, list2, Len(word.source) + 1)
      /\ Delta(e.word) = (IF d.kind \in Opening THEN 1 ELSE 0) /\ e.word # "else"
      /\ e.word = "begin" => Len(c) = Len(word.code)
      /\ e.word \in Jumps =>
           Hook(c, OperandOf(word2, Len(word.source) + 1)) /\ d.kind \in Hooked
      /\ loops2 \in -1..2 /\ loops2 = loops + (IF d.kind = "do" THEN 1 ELSE 0)
  BY DEF Opener1
<1>1. /\ IsWord(word) /\ IsCode(word.code) /\ IsSeq(list) /\ Len(list) \in Nat
      /\ loops \in -1..2 /\ leaves \in [0..2 -> SUBSET Int]
  BY DrawingIs
<1>2. PICK t, ins : Base(word, list, leaves, loops, t, ins)
  BY DrawingIs
<1>3. word2.code = c
  BY <1>0 DEF Written
<1>4. Grows(word, word2, e, {})
  BY <1>0, <1>1, WrittenGrows
<1>5. PICK N : N = Len(word.source) + 1
  OBVIOUS
<1>6. Puts(list, list2, 0, d)
  BY <1>0, <1>1, Pushed
<1>7. Taken(list, list2, 0, 1) /\ list2[1] = d
  BY <1>6 DEF Puts
<1>8. Lower(list, list2, Len(list), 1)
  <2>1. Lower(list, list2, Len(list) - 0, 1)
    BY <1>1, <1>7, TakenLower
  <2>2. Len(list) - 0 = Len(list)
    BY <1>1
  <2>3. QED
    BY <2>1, <2>2
<1>9. Delta(e.word) = Opens(1, list2) /\ loops2 = loops + Loops1(1, list2)
  BY <1>0, <1>7 DEF Opens, Loops1
<1>10. Puts1(word2, e, list2, N)
  BY <1>0, <1>5, <1>7
<1>11. /\ e.word \in Jumps => Hook(word2.code, OperandOf(word2, N)) /\ list2[1].kind \in Hooked
       /\ e.word = "begin" => Len(word2.code) = Len(word.code)
  BY <1>0, <1>3, <1>5, <1>7
<1>12. Traces(word2, list2, leaves, loops2)
  BY <1>0, <1>2, <1>4, <1>5, <1>8, <1>9, <1>10, <1>11, StaysTraced
<1>13. IsSeq(list2)
  BY <1>0, <1>1, OnTop
<1>14. Writes(word, word2, e, c, {}, 0, list2, loops2, leaves)
  BY <1>0, <1>1, <1>12, <1>13 DEF Writes
<1>15. QED
  BY <1>14, WordDrawn

\* Where the new word is.
LEMMA NewestIs ==
  ASSUME NEW dict, NEW word, NEW list, NEW loops, NEW leaves,
         Drawing(dict, word, list, loops, leaves),
         NEW word2, NEW e, NEW c, Written(word, word2, e, c),
         NEW Q, NEW v, Rewritten(word.code, c, Q, v), Q = {} \/ v = Len(c)
  PROVE  Larger(word, word2, e, Len(word.source) + 1)
<1>1. IsWord(word)
  BY DrawingIs
<1>2. PICK t, ins : Base(word, list, leaves, loops, t, ins)
  BY DrawingIs
<1>3. Placed(word)
  BY <1>2 DEF Base, Traced
<1>4. Grows(word, word2, e, Q)
  BY <1>1, WrittenGrows
<1>5. QED
  BY <1>3, <1>4, GrowsFacts

\* A word that jumps forward is written, and its condition put on the stack.
Forwards(word, word2, e, list, list2) ==
  \E kind :
    /\ e.word \in {"if", "while", "of", "rangeof"}
    /\ kind = IF e.word = "rangeof" THEN "of" ELSE e.word
    /\ Written(word, word2, e, word.code \o <<cell(e.word), operand(Unpatched)>>)
    /\ list2 = <<[kind |-> kind, at |-> Len(word.code) + 2]>> \o list

LEMMA ForwardDrawn ==
  ASSUME NEW dict, NEW word, NEW list, NEW loops, NEW leaves,
         Drawing(dict, word, list, loops, leaves),
         NEW word2, NEW e, NEW list2, Forwards(word, word2, e, list, list2)
  PROVE  NewOk(dict, word2, list2, loops, leaves)
<1> SUFFICES ASSUME e.word \in {"if", "while", "of", "rangeof"},
                    NEW kind, kind = IF e.word = "rangeof" THEN "of" ELSE e.word,
                    Written(word, word2, e, word.code \o <<cell(e.word), operand(Unpatched)>>),
                    list2 = <<[kind |-> kind, at |-> Len(word.code) + 2]>> \o list
             PROVE  NewOk(dict, word2, list2, loops, leaves)
  BY DEF Forwards
<1>1. IsCode(word.code) /\ loops \in -1..2
  BY DrawingIs
<1>2. PICK c : c = word.code \o <<cell(e.word), operand(Unpatched)>>
  OBVIOUS
<1>3. TwoFacts(word.code, c, {}, 0, e.word, Unpatched)
  BY <1>1, <1>2, Unchanged, TwoIs
<1>4. Rewritten(word.code, c, {}, 0) /\ NoCalls(word.code, c) /\ Hook(c, Len(word.code) + 2)
  BY <1>3 DEF TwoFacts, Jumping
<1>5. Written(word, word2, e, c)
  BY <1>2
<1>6. OperandOf(word2, Len(word.source) + 1) = Len(word.code) + 2
  <2>1. Larger(word, word2, e, Len(word.source) + 1)
    BY <1>4, <1>5, NewestIs
  <2>2. QED
    BY <2>1 DEF Larger
<1>7. PICK d : d = [kind |-> kind, at |-> Len(word.code) + 2]
  OBVIOUS
<1>8. d.kind = kind /\ d.at = Len(word.code) + 2 /\ list2 = <<d>> \o list
  BY <1>7
<1>9. ASSUME list2[1] = d
      PROVE  Puts1(word2, e, list2, Len(word.source) + 1)
  BY <1>6, <1>8, <1>9 DEF Puts1, Tokens
<1>10. /\ Delta(e.word) = (IF d.kind \in Opening THEN 1 ELSE 0)
       /\ loops = loops + (IF d.kind = "do" THEN 1 ELSE 0)
       /\ e.word # "else" /\ e.word # "begin" /\ d.kind \in Hooked
  BY <1>1, <1>8 DEF Delta, Opening, Openers, Closers, Hooked
<1>11. Hook(c, OperandOf(word2, Len(word.source) + 1))
  BY <1>4, <1>6
<1>12. Opener1(word, word2, e, c, d, list, list2, loops, loops)
  BY <1>1, <1>4, <1>5, <1>8, <1>9, <1>10, <1>11 DEF Opener1
<1>13. QED
  BY <1>12, PutsDrawn

\* A word that is jumped to.
Marking(word, word2, e, list, list2) ==
  /\ e.word \in {"begin", "case"} /\ Written(word, word2, e, word.code \o <<>>)
  /\ list2 = <<[kind |-> e.word, at |-> Len(word.code) + 1]>> \o list

LEMMA MarkDrawn ==
  ASSUME NEW dict, NEW word, NEW list, NEW loops, NEW leaves,
         Drawing(dict, word, list, loops, leaves),
         NEW word2, NEW e, NEW list2, Marking(word, word2, e, list, list2)
  PROVE  NewOk(dict, word2, list2, loops, leaves)
<1> SUFFICES ASSUME e.word \in {"begin", "case"},
                    Written(word, word2, e, word.code \o <<>>),
                    list2 = <<[kind |-> e.word, at |-> Len(word.code) + 1]>> \o list
             PROVE  NewOk(dict, word2, list2, loops, leaves)
  BY DEF Marking
<1>1. IsCode(word.code) /\ loops \in -1..2 /\ Len(word.code) \in Nat
  BY DrawingIs
<1>2. PICK c : c = word.code \o <<>>
  OBVIOUS
<1>3. None(word.code, c, {}, 0)
  BY <1>1, <1>2, Unchanged, NoneAdded
<1>4. Rewritten(word.code, c, {}, 0) /\ Len(c) = Len(word.code)
  BY <1>3 DEF None
<1>5. Written(word, word2, e, c)
  BY <1>2
<1>6. word2.first[Len(word.source) + 1] = Len(word.code) + 1
  <2>1. Larger(word, word2, e, Len(word.source) + 1)
    BY <1>4, <1>5, NewestIs
  <2>2. QED
    BY <2>1 DEF Larger
<1>7. PICK d : d = [kind |-> e.word, at |-> Len(word.code) + 1]
  OBVIOUS
<1>8. d.kind = e.word /\ d.at = Len(word.code) + 1 /\ list2 = <<d>> \o list
  BY <1>7
<1>9. ASSUME list2[1] = d
      PROVE  Puts1(word2, e, list2, Len(word.source) + 1)
  BY <1>6, <1>8, <1>9 DEF Puts1, Tokens, Hooked
<1>10. /\ Delta(e.word) = (IF d.kind \in Opening THEN 1 ELSE 0)
       /\ loops = loops + (IF d.kind = "do" THEN 1 ELSE 0)
       /\ e.word # "else" /\ e.word \notin Jumps
  BY <1>1, <1>8 DEF Delta, Opening, Openers, Closers, Jumps
<1>11. NoCalls(word.code, c)
  BY <1>1, <1>4 DEF NoCalls
<1>12. Opener1(word, word2, e, c, d, list, list2, loops, loops)
  BY <1>1, <1>4, <1>5, <1>8, <1>9, <1>10, <1>11 DEF Opener1
<1>13. QED
  BY <1>12, PutsDrawn

LEMMA DoDrawn ==
  ASSUME NEW dict, NEW word, NEW list, NEW loops, NEW leaves,
         Drawing(dict, word, list, loops, leaves), loops < 2,
         NEW word2, NEW e, e.word = "do",
         Written(word, word2, e, word.code \o <<cell("do"), cell("do2"), operand(Unpatched)>>),
         NEW list2, list2 = <<[kind |-> "do", at |-> Len(word.code) + 3]>> \o list,
         NEW loops2, loops2 = loops + 1
  PROVE  NewOk(dict, word2, list2, loops2, leaves)
<1>1. IsCode(word.code) /\ loops \in -1..2 /\ Len(word.code) \in Nat
  BY DrawingIs
<1>2. PICK c : c = word.code \o <<cell("do"), cell("do2"), operand(Unpatched)>>
  OBVIOUS
<1>3. ThreeMore(word.code, c, {}, 0, cell("do"), cell("do2"), operand(Unpatched))
  BY <1>1, <1>2, Unchanged, ThreeAdded, CellsAre
<1>4. /\ Rewritten(word.code, c, {}, 0) /\ Len(c) = Len(word.code) + 3
      /\ c[Len(word.code) + 1].handler = "do" /\ c[Len(word.code) + 2].handler = "do2"
      /\ c[Len(word.code) + 3].handler = "operand"
  BY <1>3 DEF ThreeMore, cell, operand
<1>5. Hook(c, Len(word.code) + 3)
  <2>1. Len(word.code) + 3 \in 2..Len(c) /\ (Len(word.code) + 3) - 1 = Len(word.code) + 2
    BY <1>1, <1>4
  <2>2. QED
    BY <1>4, <2>1 DEF Hook, Jumping, Looping
<1>6. NoCalls(word.code, c)
  <2>1. PICK n : n = Len(word.code)
    OBVIOUS
  <2>2. n \in Nat /\ Len(c) = n + 3
    BY <1>1, <1>4, <2>1
  <2>3. \A p \in 1..Len(c) : p > n => p = n + 1 \/ p = n + 2 \/ p = n + 3
    BY ONLY <2>2
  <2>4. QED
    BY <1>4, <2>1, <2>3 DEF NoCalls
<1>7. Written(word, word2, e, c)
  BY <1>2
<1>8. OperandOf(word2, Len(word.source) + 1) = Len(word.code) + 3
  <2>1. Larger(word, word2, e, Len(word.source) + 1)
    BY <1>4, <1>7, NewestIs
  <2>2. QED
    BY <2>1 DEF Larger
<1>9. PICK d : d = [kind |-> "do", at |-> Len(word.code) + 3]
  OBVIOUS
<1>10. d.kind = "do" /\ d.at = Len(word.code) + 3 /\ list2 = <<d>> \o list
  BY <1>9
<1>11. ASSUME list2[1] = d
       PROVE  Puts1(word2, e, list2, Len(word.source) + 1)
  BY <1>8, <1>10, <1>11 DEF Puts1, Tokens
<1>12. /\ Delta(e.word) = (IF d.kind \in Opening THEN 1 ELSE 0)
       /\ loops2 = loops + (IF d.kind = "do" THEN 1 ELSE 0) /\ loops2 \in -1..2
       /\ e.word # "else" /\ e.word # "begin" /\ d.kind \in Hooked
  BY <1>1, <1>10 DEF Delta, Opening, Openers, Closers, Hooked
<1>13. Hook(c, OperandOf(word2, Len(word.source) + 1))
  BY <1>5, <1>8
<1>14. Opener1(word, word2, e, c, d, list, list2, loops, loops2)
  BY <1>4, <1>6, <1>7, <1>10, <1>11, <1>12, <1>13 DEF Opener1
<1>15. QED
  BY <1>14, PutsDrawn

\* A word that takes the condition on the top off the stack, not that of a loop.
Closer1(word, word2, e, c, Q, v, list, list2, put) ==
  /\ Written(word, word2, e, c) /\ Rewritten(word.code, c, Q, v) /\ NoCalls(word.code, c)
  /\ Q = {} \/ v = Len(c)
  /\ list # <<>> /\ Taken(list, list2, 1, put) /\ IsSeq(list2)
  /\ (IF list[1].kind \in Opening THEN 1 ELSE 0) + Delta(e.word) = Opens(put, list2)
  /\ e.word = "else" => put = 1 /\ list2[1].kind = "if"
  /\ put = 1 => /\ Puts1(word2, e, list2, Len(word.source) + 1)
                /\ list[1].kind \notin Marks /\ list2[1].kind # "do"
  /\ list[1].kind # "do" /\ e.word \notin Marks
  /\ \A at \in Q : list[1].kind \in Hooked /\ at = list[1].at
  /\ list[1].kind \in Hooked =>
       /\ list[1].at \in Q /\ list[1].kind \in {"if", "of"}
       /\ Delta(e.word) = -1 \/ (e.word = "else" /\ Delta(e.word) = 0)
  /\ e.word \in Jumps =>
       /\ Hook(c, OperandOf(word2, Len(word.source) + 1))
       /\ \/ put = 1 /\ list2[1].kind \in Hooked
          \/ /\ e.word \in Backward /\ list[1].kind = "begin"
             /\ c[OperandOf(word2, Len(word.source) + 1)].value + 1 = list[1].at

LEMMA TakesDrawn ==
  ASSUME NEW dict, NEW word, NEW list, NEW loops, NEW leaves,
         Drawing(dict, word, list, loops, leaves),
         NEW word2, NEW e, NEW c, NEW Q, NEW v, NEW list2, NEW put,
         Closer1(word, word2, e, c, Q, v, list, list2, put)
  PROVE  NewOk(dict, word2, list2, loops, leaves)
<1>1. /\ IsWord(word) /\ IsSeq(list) /\ Hooks(word, list, leaves)
      /\ loops \in -1..2 /\ leaves \in [0..2 -> SUBSET Int]
  BY DrawingIs
<1>2. PICK t, ins : Base(word, list, leaves, loops, t, ins)
  BY DrawingIs
<1>3. PICK N, m : N = Len(word.source) + 1 /\ m = Len(list)
  OBVIOUS
<1>4. /\ Written(word, word2, e, c) /\ Rewritten(word.code, c, Q, v) /\ NoCalls(word.code, c)
      /\ Q = {} \/ v = Len(c)
      /\ list # <<>> /\ Taken(list, list2, 1, put) /\ IsSeq(list2)
      /\ (IF list[1].kind \in Opening THEN 1 ELSE 0) + Delta(e.word) = Opens(put, list2)
      /\ e.word = "else" => put = 1 /\ list2[1].kind = "if"
      /\ list[1].kind # "do" /\ e.word \notin Marks
      /\ \A at \in Q : list[1].kind \in Hooked /\ at = list[1].at
  BY DEF Closer1
<1>5. /\ put = 1 => /\ Puts1(word2, e, list2, N)
                    /\ list[1].kind \notin Marks /\ list2[1].kind # "do"
      /\ list[1].kind \in Hooked =>
           /\ list[1].at \in Q /\ list[1].kind \in {"if", "of"}
           /\ Delta(e.word) = -1 \/ (e.word = "else" /\ Delta(e.word) = 0)
      /\ e.word \in Jumps =>
           /\ Hook(c, OperandOf(word2, N))
           /\ \/ put = 1 /\ list2[1].kind \in Hooked
              \/ /\ e.word \in Backward /\ list[1].kind = "begin"
                 /\ c[OperandOf(word2, N)].value + 1 = list[1].at
  BY <1>3 DEF Closer1
<1>6. word2.code = c
  BY <1>4 DEF Written
<1>7. Grows(word, word2, e, Q)
  BY <1>1, <1>4, WrittenGrows
<1>8. BaseFacts(word, word2, e, list, leaves, loops, t, ins, N)
  BY <1>2, <1>3, <1>7, BaseIs
<1>9. /\ Placed(word) /\ Stacked(word, list, t) /\ Opened(word, list, t)
      /\ Larger(word, word2, e, N)
      /\ Depth(word2.source, N) = Lev(word.source, t, m) + Delta(e.word)
  BY <1>3, <1>8 DEF BaseFacts
<1>10. TopFacts(word, list, t, m)
  BY <1>1, <1>3, <1>4, <1>8, TopIs
<1>11. /\ m \in 1..Len(list) /\ Below(list, m) = list[1] /\ Entry(word, list[1], t[m])
       /\ t[m] \in 1..Len(word.source)
       /\ Lev(word.source, t, m) = Depth(word.source, t[m]) /\ Lev(word.source, t, m) \in Int
       /\ \A q \in (m + 1)..Len(list) : FALSE
  <2>1. /\ m \in 1..Len(list) /\ Below(list, m) = list[1] /\ Entry(word, list[1], t[m])
        /\ t[m] \in 1..Len(word.source)
        /\ Lev(word.source, t, m) = Depth(word.source, t[m]) /\ Lev(word.source, t, m) \in Int
        /\ m \in Nat
    BY <1>10 DEF TopFacts
  <2>2. QED
    BY <1>3, <2>1
<1>12. Lower(list, list2, m - 1, put)
  BY <1>1, <1>3, <1>4, TakenLower
<1>13. ASSUME list[1].kind \in Hooked
       PROVE  /\ list[1].at \in Q /\ Aim(word2.source, t[m], N)
              /\ word.source[t[m]].word \notin {"loop", "+loop"}
  <2>1. list[1].at \in Q /\ list[1].kind \in {"if", "of"}
    BY <1>5, <1>13
  <2>2. PICK a, b : a = Depth(word.source, t[m]) /\ b = Depth(word2.source, N)
    OBVIOUS
  <2>3. a \in Int /\ b = a + Delta(e.word)
    BY <1>9, <1>11, <2>2
  <2>4. b < a \/ ElseAt(word2.source, N, a)
    <3>1. CASE Delta(e.word) = -1
      BY <2>3, <3>1
    <3>2. CASE e.word = "else" /\ Delta(e.word) = 0
      <4>1. b = a
        BY <2>3, <3>2
      <4>2. word2.source[N] = e
        BY <1>9 DEF Larger
      <4>3. QED
        BY <2>2, <3>2, <4>1, <4>2 DEF ElseAt
    <3>3. QED
      BY <1>5, <1>13, <3>1, <3>2
  <2>5. IsNext(word2.source, t[m], N)
    BY <1>3, <1>7, <1>9, <1>11, <2>1, <2>2, <2>4, NextHere
  <2>6. word.source[t[m]].word \in {"if", "else", "of", "rangeof"}
    BY <1>11, <2>1 DEF Entry, Tokens
  <2>7. word2.source[t[m]] = word.source[t[m]]
    BY <1>7, <1>9, <1>11, AfterSame
  <2>8. QED
    BY <2>1, <2>5, <2>6, <2>7 DEF Aim, Onward
<1>14. ASSUME e.word \in Jumps
       PROVE  /\ Hook(word2.code, OperandOf(word2, N))
              /\ \/ Done(word2, N, Len(word2.code) + 1)
                 \/ put = 1 /\ list2[1].kind \in Hooked
  <2>1. ASSUME /\ e.word \in Backward /\ list[1].kind = "begin"
               /\ c[OperandOf(word2, N)].value + 1 = list[1].at
        PROVE  Done(word2, N, Len(word2.code) + 1)
    <3>1. "begin" \in Marks /\ Below(list, m).kind = "begin"
      BY <1>11, <2>1 DEF Marks
    <3>2. IsOpener(word2.source, N, "begin", t[m])
      BY <1>3, <1>7, <1>9, <1>11, <3>1, Innermost
    <3>3. list[1].at = word.first[t[m]]
      BY <1>11, <2>1 DEF Entry
    <3>4. QED
      BY <1>3, <1>6, <1>7, <1>9, <2>1, <3>2, <3>3, BackDone
  <2>2. QED
    BY <1>5, <1>6, <1>14, <2>1
<1>15. Traces(word2, list2, leaves, loops)
  BY <1>2, <1>3, <1>4, <1>5, <1>7, <1>12, <1>13, <1>14, TakesTraced
<1>16. \A at \in Q : Hook(word.code, at)
  <2>1. 1 \in 1..Len(list)
    BY <1>3, <1>11
  <2>2. QED
    BY <1>1, <1>4, <2>1 DEF Hooks
<1>17. Writes(word, word2, e, c, Q, v, list2, loops, leaves)
  BY <1>1, <1>4, <1>15, <1>16 DEF Writes
<1>18. QED
  BY <1>17, WordDrawn

\* The condition that is taken.
LEMMA TopTaken ==
  ASSUME NEW list, IsSeq(list), list # <<>>
  PROVE  /\ Head(list) = list[1] /\ IsSeq(Tail(list)) /\ Taken(list, Tail(list), 1, 0)
         /\ \A d : Puts(list, <<d>> \o Tail(list), 1, d) /\ IsSeq(<<d>> \o Tail(list))
<1>1. Taken(list, list, 0, 0)
  BY NoneTaken
<1>2. PICK rest : rest = Tail(list)
  OBVIOUS
<1>3. Taken(list, rest, 0 + 1, 0) /\ Head(list) = list[0 + 1]
  BY <1>1, <1>2, Dropped
<1>4. 0 + 1 = 1 /\ 1 \in Nat
  OBVIOUS
<1>5. Taken(list, rest, 1, 0) /\ Head(list) = list[1]
  BY <1>3, <1>4
<1>6. IsSeq(rest)
  BY <1>2, RestIs
<1>7. \A d : Puts(list, <<d>> \o rest, 1, d)
  BY <1>4, <1>5, PutBack, Zenon
<1>8. \A d : IsSeq(<<d>> \o rest)
  BY <1>6, OnTop
<1>9. QED
  BY <1>2, <1>5, <1>6, <1>7, <1>8

LEMMA MiddleDrawn ==
  ASSUME NEW dict, NEW word, NEW list, NEW loops, NEW leaves,
         Drawing(dict, word, list, loops, leaves),
         NEW word2, NEW e, NEW kind, NEW next,
         \/ e.word = "else" /\ kind = "if" /\ next = "if"
         \/ e.word = "endof" /\ kind = "of" /\ next = "endof",
         list # <<>>, Head(list).kind = kind,
         NEW pc, pc = Patch(word.code, Head(list).at, Len(word.code) + 2),
         Written(word, word2, e, pc \o <<cell(e.word), operand(Unpatched)>>),
         NEW list2, list2 = <<[kind |-> next, at |-> Len(word.code) + 2]>> \o Tail(list)
  PROVE  NewOk(dict, word2, list2, loops, leaves)
<1>1. IsCode(word.code) /\ IsSeq(list)
  BY DrawingIs
<1>2. Head(list) = list[1]
  BY <1>1, TopTaken
<1>3. PICK c, v, Q : /\ c = pc \o <<cell(e.word), operand(Unpatched)>>
                     /\ v = Len(word.code) + 2 /\ Q = {list[1].at}
  OBVIOUS
<1>4. TwoFacts(word.code, c, Q, v, e.word, Unpatched)
  <2>1. Patched(word.code, pc, Q, v)
    BY <1>1, <1>2, <1>3, PatchIs
  <2>2. QED
    BY <1>1, <1>3, <2>1, TwoIs
<1>5. /\ Rewritten(word.code, c, Q, v) /\ NoCalls(word.code, c) /\ Hook(c, Len(word.code) + 2)
      /\ v = Len(c)
  BY <1>3, <1>4 DEF TwoFacts, Jumping
<1>6. Written(word, word2, e, c)
  BY <1>3
<1>7. OperandOf(word2, Len(word.source) + 1) = Len(word.code) + 2
  <2>1. Larger(word, word2, e, Len(word.source) + 1)
    BY <1>5, <1>6, NewestIs
  <2>2. QED
    BY <2>1 DEF Larger
<1>8. PICK d : d = [kind |-> next, at |-> Len(word.code) + 2]
  OBVIOUS
<1>9. d.kind = next /\ d.at = Len(word.code) + 2
  BY <1>8
<1>10. Puts(list, list2, 1, d) /\ IsSeq(list2)
  BY <1>1, <1>8, TopTaken
<1>11. Taken(list, list2, 1, 1) /\ list2[1] = d
  BY <1>10 DEF Puts
<1>12. Puts1(word2, e, list2, Len(word.source) + 1)
  BY <1>7, <1>9, <1>11 DEF Puts1, Tokens
<1>13. /\ (IF list[1].kind \in Opening THEN 1 ELSE 0) + Delta(e.word) = Opens(1, list2)
       /\ list[1].kind \in {"if", "of"} /\ list2[1].kind = next
       /\ list[1].kind \notin Marks /\ e.word \notin Marks
       /\ list2[1].kind \in Hooked
       /\ Delta(e.word) = -1 \/ (e.word = "else" /\ Delta(e.word) = 0)
  BY <1>2, <1>9, <1>11 DEF Delta, Opens, Opening, Openers, Closers, Marks, Hooked
<1>14. \A at \in Q : list[1].kind \in Hooked /\ at = list[1].at
  BY <1>3, <1>13 DEF Hooked
<1>15. Closer1(word, word2, e, c, Q, v, list, list2, 1)
  BY <1>3, <1>5, <1>6, <1>7, <1>10, <1>11, <1>12, <1>13, <1>14 DEF Closer1
<1>16. QED
  BY <1>15, TakesDrawn

LEMMA ThenDrawn ==
  ASSUME NEW dict, NEW word, NEW list, NEW loops, NEW leaves,
         Drawing(dict, word, list, loops, leaves),
         NEW word2, NEW e, e.word = "then",
         list # <<>>, Head(list).kind = "if",
         NEW pc, pc = Patch(word.code, Head(list).at, Len(word.code)),
         Written(word, word2, e, pc \o <<>>),
         NEW list2, list2 = Tail(list)
  PROVE  NewOk(dict, word2, list2, loops, leaves)
<1>1. IsCode(word.code) /\ IsSeq(list) /\ Len(word.code) \in Nat
  BY DrawingIs
<1>2. Head(list) = list[1] /\ IsSeq(list2) /\ Taken(list, list2, 1, 0)
  BY <1>1, TopTaken
<1>3. PICK c, v, Q : c = pc \o <<>> /\ v = Len(word.code) /\ Q = {list[1].at}
  OBVIOUS
<1>4. None(word.code, c, Q, v)
  <2>1. Patched(word.code, pc, Q, v)
    BY <1>1, <1>2, <1>3, PatchIs
  <2>2. QED
    BY <1>1, <1>3, <2>1, NoneAdded
<1>5. Rewritten(word.code, c, Q, v) /\ NoCalls(word.code, c) /\ v = Len(c)
  BY <1>1, <1>3, <1>4 DEF None, NoCalls
<1>6. Written(word, word2, e, c)
  BY <1>3
<1>7. /\ (IF list[1].kind \in Opening THEN 1 ELSE 0) + Delta(e.word) = Opens(0, list2)
      /\ list[1].kind = "if" /\ e.word \notin Marks /\ e.word \notin Jumps
      /\ Delta(e.word) = -1
  BY <1>2 DEF Delta, Opens, Opening, Openers, Closers, Marks, Jumps
<1>8. \A at \in Q : list[1].kind \in Hooked /\ at = list[1].at
  BY <1>3, <1>7 DEF Hooked
<1>9. Closer1(word, word2, e, c, Q, v, list, list2, 0)
  BY <1>2, <1>3, <1>5, <1>6, <1>7, <1>8 DEF Closer1
<1>10. QED
  BY <1>9, TakesDrawn

\* A word that jumps back.
Returning(word, word2, e, list, list2) ==
  /\ e.word \in {"until", "again"} /\ list # <<>> /\ Head(list).kind = "begin"
  /\ Written(word, word2, e, word.code \o <<cell(e.word), operand(Head(list).at - 1)>>)
  /\ list2 = Tail(list)

LEMMA BackDrawn ==
  ASSUME NEW dict, NEW word, NEW list, NEW loops, NEW leaves,
         Drawing(dict, word, list, loops, leaves),
         NEW word2, NEW e, NEW list2, Returning(word, word2, e, list, list2)
  PROVE  NewOk(dict, word2, list2, loops, leaves)
<1> SUFFICES ASSUME e.word \in {"until", "again"}, list # <<>>, Head(list).kind = "begin",
                    Written(word, word2, e,
                            word.code \o <<cell(e.word), operand(Head(list).at - 1)>>),
                    list2 = Tail(list)
             PROVE  NewOk(dict, word2, list2, loops, leaves)
  BY DEF Returning
<1>1. IsCode(word.code) /\ IsSeq(list)
  BY DrawingIs
<1>2. Head(list) = list[1] /\ IsSeq(list2) /\ Taken(list, list2, 1, 0)
  BY <1>1, TopTaken
<1>3. PICK c, x : c = word.code \o <<cell(e.word), operand(x)>> /\ x = list[1].at - 1
  BY <1>2
<1>4. TwoFacts(word.code, c, {}, 0, e.word, x)
  BY <1>1, <1>3, Unchanged, TwoIs
<1>5. /\ Rewritten(word.code, c, {}, 0) /\ NoCalls(word.code, c) /\ Hook(c, Len(word.code) + 2)
      /\ c[Len(word.code) + 2].value = x
  BY <1>4 DEF TwoFacts, Jumping
<1>6. Written(word, word2, e, c)
  BY <1>2, <1>3
<1>7. OperandOf(word2, Len(word.source) + 1) = Len(word.code) + 2
  <2>1. Larger(word, word2, e, Len(word.source) + 1)
    BY <1>5, <1>6, NewestIs
  <2>2. QED
    BY <2>1 DEF Larger
<1>8. list[1].at \in Int
  <2>1. PICK t, ins : Base(word, list, leaves, loops, t, ins)
    BY DrawingIs
  <2>2. Grows(word, word2, e, {})
    BY <1>5, <1>6, DrawingIs, WrittenGrows
  <2>3. PICK N : N = Len(word.source) + 1
    OBVIOUS
  <2>4. BaseFacts(word, word2, e, list, leaves, loops, t, ins, N)
    BY <2>1, <2>2, <2>3, BaseIs
  <2>5. TopFacts(word, list, t, Len(list))
    BY <1>1, <2>4, TopIs
  <2>6. Entry(word, list[1], t[Len(list)]) /\ t[Len(list)] \in 1..Len(word.source)
    BY <2>5 DEF TopFacts
  <2>7. list[1].at = word.first[t[Len(list)]]
    BY <1>2, <2>6 DEF Entry
  <2>8. QED
    BY <2>4, <2>6, <2>7 DEF BaseFacts, Placed
<1>9. c[OperandOf(word2, Len(word.source) + 1)].value + 1 = list[1].at
  <2>1. c[OperandOf(word2, Len(word.source) + 1)].value = x
    BY <1>5, <1>7
  <2>2. x + 1 = list[1].at
    BY <1>3, <1>8
  <2>3. QED
    BY <2>1, <2>2
<1>10. /\ (IF list[1].kind \in Opening THEN 1 ELSE 0) + Delta(e.word) = Opens(0, list2)
       /\ list[1].kind = "begin" /\ e.word \notin Marks /\ list[1].kind \notin Hooked
       /\ e.word \in Backward
  BY <1>2 DEF Delta, Opens, Opening, Openers, Closers, Marks, Hooked, Backward
<1>11. Closer1(word, word2, e, c, {}, 0, list, list2, 0)
  BY <1>2, <1>5, <1>6, <1>7, <1>9, <1>10 DEF Closer1
<1>12. QED
  BY <1>11, TakesDrawn

LEMMA MarkIsAt ==
  ASSUME NEW dict, NEW word, NEW list, NEW loops, NEW leaves,
         Drawing(dict, word, list, loops, leaves),
         NEW k \in 1..Len(list), list[k].kind = "begin"
  PROVE  list[k].at \in Int
<1>1. PICK t, ins : Base(word, list, leaves, loops, t, ins)
  BY DrawingIs
<1>2. Placed(word) /\ Stacked(word, list, t) /\ IsSeq(list)
  BY <1>1 DEF Base, Traced
<1>3. PICK q : q = Len(list) - k + 1
  OBVIOUS
<1>4. Below(list, q) = list[k] /\ q \in 1..Len(list)
  BY <1>2, <1>3, FromTop
<1>5. Entry(word, list[k], t[q])
  BY <1>2, <1>4 DEF Stacked
<1>6. list[k].at = word.first[t[q]] /\ t[q] \in 1..Len(word.source)
  BY <1>5 DEF Entry
<1>7. QED
  BY <1>2, <1>6 DEF Placed

\* The conditions that repeat takes.
LEMMA TwoTaken ==
  ASSUME NEW list, IsSeq(list), list # <<>>, Tail(list) # <<>>
  PROVE  /\ Head(list) = list[1] /\ Head(Tail(list)) = list[2] /\ Len(list) > 1
         /\ IsSeq(Tail(Tail(list))) /\ Lower(list, Tail(Tail(list)), Len(list) - 2, 0)
<1>1. PICK rest, rest2 : rest = Tail(list) /\ rest2 = Tail(rest)
  OBVIOUS
<1>2. Taken(list, list, 0, 0) /\ 0 \in Nat /\ 0 + 1 = 1 /\ 1 \in Nat /\ 1 + 1 = 2
  BY NoneTaken
<1>3. Taken(list, rest, 0 + 1, 0) /\ Head(list) = list[0 + 1]
  BY <1>1, <1>2, Dropped
<1>4. Taken(list, rest2, 1 + 1, 0) /\ Head(rest) = list[1 + 1] /\ 1 < Len(list)
  <2>1. PICK one : one = 0 + 1
    OBVIOUS
  <2>2. one \in Nat /\ Taken(list, rest, one, 0) /\ rest # <<>>
    BY <1>1, <1>2, <1>3, <2>1
  <2>3. Taken(list, Tail(rest), one + 1, 0) /\ Head(rest) = list[one + 1] /\ one < Len(list)
    BY <2>2, Dropped
  <2>4. QED
    BY <1>1, <1>2, <2>1, <2>3
<1>5. IsSeq(rest2)
  <2>1. IsSeq(rest) /\ rest # <<>>
    BY <1>1, RestIs
  <2>2. IsSeq(Tail(rest))
    BY <2>1, RestIs
  <2>3. QED
    BY <1>1, <2>2
<1>6. Taken(list, rest2, 2, 0)
  BY <1>2, <1>4
<1>7. Lower(list, rest2, Len(list) - 2, 0)
  BY <1>6, TakenLower
<1>8. QED
  BY <1>1, <1>2, <1>3, <1>4, <1>5, <1>7

\* Repeat: to the begin below the while.
Repeating(word, word2, e, list, rest, list2) ==
  \E pc :
    /\ e.word = "repeat" /\ list # <<>> /\ Head(list).kind = "while"
    /\ rest = Tail(list) /\ rest # <<>> /\ Head(rest).kind = "begin"
    /\ pc = Patch(word.code, Head(list).at, Len(word.code) + 2)
    /\ Written(word, word2, e, pc \o <<cell("repeat"), operand(Head(rest).at - 1)>>)
    /\ list2 = Tail(rest)

LEMMA RepeatDrawn ==
  ASSUME NEW dict, NEW word, NEW list, NEW loops, NEW leaves,
         Drawing(dict, word, list, loops, leaves),
         NEW word2, NEW e, NEW rest, NEW list2, Repeating(word, word2, e, list, rest, list2)
  PROVE  NewOk(dict, word2, list2, loops, leaves)
<1> SUFFICES ASSUME e.word = "repeat", list # <<>>, Head(list).kind = "while",
                    rest = Tail(list), rest # <<>>, Head(rest).kind = "begin",
                    NEW pc, pc = Patch(word.code, Head(list).at, Len(word.code) + 2),
                    Written(word, word2, e, pc \o <<cell("repeat"), operand(Head(rest).at - 1)>>),
                    list2 = Tail(rest)
             PROVE  NewOk(dict, word2, list2, loops, leaves)
  BY DEF Repeating
<1>1. /\ IsWord(word) /\ IsCode(word.code) /\ IsSeq(list) /\ Len(list) \in Nat
      /\ loops \in -1..2 /\ leaves \in [0..2 -> SUBSET Int]
      /\ Hooks(word, list, leaves)
  BY DrawingIs
<1>2. PICK t, ins : Base(word, list, leaves, loops, t, ins)
  BY DrawingIs
<1>3. /\ Head(list) = list[1] /\ Head(rest) = list[2] /\ Len(list) > 1
      /\ IsSeq(list2) /\ Lower(list, list2, Len(list) - 2, 0)
  BY <1>1, TwoTaken
<1>4. PICK c, x, v, Q : /\ c = pc \o <<cell("repeat"), operand(x)>> /\ x = list[2].at - 1
                        /\ v = Len(word.code) + 2 /\ Q = {list[1].at}
  BY <1>3
<1>5. TwoFacts(word.code, c, Q, v, "repeat", x)
  <2>1. Patched(word.code, pc, Q, v)
    BY <1>1, <1>3, <1>4, PatchIs
  <2>2. QED
    BY <1>1, <1>4, <2>1, TwoIs
<1>6. /\ Rewritten(word.code, c, Q, v) /\ NoCalls(word.code, c) /\ Hook(c, Len(word.code) + 2)
      /\ c[Len(word.code) + 2].value = x /\ v = Len(c)
  BY <1>4, <1>5 DEF TwoFacts, Jumping
<1>7. Written(word, word2, e, c) /\ word2.code = c
  BY <1>3, <1>4 DEF Written
<1>8. Grows(word, word2, e, Q)
  BY <1>1, <1>6, <1>7, WrittenGrows
<1>9. PICK N, m : N = Len(word.source) + 1 /\ m = Len(list)
  OBVIOUS
<1>10. OperandOf(word2, N) = Len(word.code) + 2
  <2>1. Larger(word, word2, e, Len(word.source) + 1)
    BY <1>6, <1>7, NewestIs
  <2>2. QED
    BY <1>9, <2>1 DEF Larger
<1>11. Hook(word2.code, OperandOf(word2, N)) /\ word2.code[OperandOf(word2, N)].value = x
  BY <1>6, <1>7, <1>10
<1>12. x + 1 = list[2].at
  <2>1. list[2].at \in Int
    <3>1. 2 \in 1..Len(list)
      BY <1>1, <1>3
    <3>2. QED
      BY <1>3, <3>1, MarkIsAt
  <2>2. QED
    BY <1>4, <2>1
<1>13. word2.code[OperandOf(word2, N)].value + 1 = list[2].at
  BY <1>11, <1>12
<1>14. list[1].kind = "while" /\ list[2].kind = "begin"
  BY <1>3
<1>15. Lower(list, list2, m - 2, 0)
  BY <1>3, <1>9
<1>16. Traces(word2, list2, leaves, loops)
  BY <1>2, <1>3, <1>4, <1>8, <1>9, <1>11, <1>13, <1>14, <1>15, RepeatTraced
<1>17. \A at \in Q : Hook(word.code, at)
  <2>1. 1 \in 1..Len(list) /\ "while" \in Hooked
    BY <1>1, <1>3 DEF Hooked
  <2>2. QED
    BY <1>1, <1>4, <1>14, <2>1 DEF Hooks
<1>18. Writes(word, word2, e, c, Q, v, list2, loops, leaves)
  BY <1>1, <1>3, <1>6, <1>7, <1>16, <1>17 DEF Writes
<1>19. QED
  BY <1>18, WordDrawn

\* A loop that ends is one that is open.
LEMMA LoopOpen ==
  ASSUME NEW word, NEW list, NEW leaves, NEW loops, NEW t, NEW ins,
         Base(word, list, leaves, loops, t, ins), Len(list) \in Nat,
         list # <<>>, list[1].kind = "do"
  PROVE  loops \in 0..2
<1>1. Loops(list, ins) /\ Leaves(word, list, leaves, loops, t, ins) /\ IsSeq(list)
      /\ loops \in -1..2
  BY DEF Base, Traced
<1>2. PICK m : m = Len(list)
  OBVIOUS
<1>3. 1 \in 1..Len(list)
  BY <1>1, IsSeqFacts
<1>4. Below(list, m - 1 + 1) = list[1] /\ m - 1 + 1 = m /\ m \in 1..Len(list)
  BY <1>2, <1>3 DEF Below
<1>5. ins[m] = ins[m - 1] + 1 /\ ins[m - 1] \in Nat
  <2>1. m - 1 \in 0..Len(list)
    BY <1>2, <1>3
  <2>2. QED
    BY <1>1, <1>4, <2>1 DEF Loops
<1>6. loops + 1 = ins[m]
  BY <1>1, <1>2 DEF Leaves
<1>7. QED
  BY <1>1, <1>5, <1>6

\* The end of a loop, and the jumps that go behind it.
LoopsBack(word, word2, e, list, list2, loops, loops2, leaves, leaves2) ==
  \E pc :
    /\ e.word \in {"loop", "+loop"} /\ list # <<>> /\ Head(list).kind = "do"
    /\ pc = Patch(word.code, Head(list).at, Len(word.code) + 2)
    /\ Written(word, word2, e, Rewired(pc, leaves[loops], Len(word.code) + 2)
                                 \o <<cell(e.word), operand(Head(list).at - 2)>>)
    /\ list2 = Tail(list) /\ leaves2 = [leaves EXCEPT ![loops] = {}] /\ loops2 = loops - 1

LEMMA LoopDrawn ==
  ASSUME NEW dict, NEW word, NEW list, NEW loops, NEW leaves,
         Drawing(dict, word, list, loops, leaves),
         NEW word2, NEW e, NEW list2, NEW loops2, NEW leaves2,
         LoopsBack(word, word2, e, list, list2, loops, loops2, leaves, leaves2)
  PROVE  NewOk(dict, word2, list2, loops2, leaves2)
<1> SUFFICES ASSUME e.word \in {"loop", "+loop"}, list # <<>>, Head(list).kind = "do",
                    NEW pc, pc = Patch(word.code, Head(list).at, Len(word.code) + 2),
                    Written(word, word2, e, Rewired(pc, leaves[loops], Len(word.code) + 2)
                              \o <<cell(e.word), operand(Head(list).at - 2)>>),
                    list2 = Tail(list), leaves2 = [leaves EXCEPT ![loops] = {}],
                    loops2 = loops - 1
             PROVE  NewOk(dict, word2, list2, loops2, leaves2)
  BY DEF LoopsBack
<1>1. /\ IsWord(word) /\ IsCode(word.code) /\ IsSeq(list) /\ Len(list) \in Nat
      /\ leaves \in [0..2 -> SUBSET Int] /\ Hooks(word, list, leaves)
  BY DrawingIs
<1>2. PICK t, ins : Base(word, list, leaves, loops, t, ins)
  BY DrawingIs
<1>3. Head(list) = list[1] /\ IsSeq(list2) /\ Taken(list, list2, 1, 0)
  BY <1>1, TopTaken
<1>4. loops \in 0..2 /\ list[1].kind = "do"
  BY <1>1, <1>2, <1>3, LoopOpen
<1>5. loops2 \in -1..2 /\ leaves2 \in [0..2 -> SUBSET Int]
  BY <1>1, <1>4
<1>6. PICK c, x, v, Q, pc2 :
        /\ pc2 = Rewired(pc, leaves[loops], v) /\ c = pc2 \o <<cell(e.word), operand(x)>>
        /\ x = list[1].at - 2 /\ v = Len(word.code) + 2 /\ Q = {list[1].at} \cup leaves[loops]
  OBVIOUS
<1>7. \A at \in Q : Hook(word.code, at)
  <2>1. 1 \in 1..Len(list) /\ "do" \in Hooked
    BY <1>1, IsSeqFacts DEF Hooked
  <2>2. QED
    BY <1>1, <1>4, <1>6, <2>1 DEF Hooks
<1>8. TwoFacts(word.code, c, Q, v, e.word, x)
  <2>1. Patched(word.code, pc, {list[1].at}, v)
    BY <1>1, <1>3, <1>6, PatchIs
  <2>2. \A p \in 1..Len(word.code) : p \in leaves[loops] => word.code[p].handler = "operand"
    BY <1>6, <1>7 DEF Hook
  <2>3. Patched(word.code, pc2, Q, v)
    BY <1>1, <1>6, <2>1, <2>2, PatchedMore
  <2>4. QED
    BY <1>1, <1>6, <2>3, TwoIs
<1>9. /\ Rewritten(word.code, c, Q, v) /\ NoCalls(word.code, c) /\ Hook(c, Len(word.code) + 2)
      /\ c[Len(word.code) + 2].value = x /\ v = Len(c)
  BY <1>6, <1>8 DEF TwoFacts, Jumping, Looping
<1>10. Written(word, word2, e, c) /\ word2.code = c
  BY <1>3, <1>6 DEF Written
<1>11. Grows(word, word2, e, Q)
  BY <1>1, <1>9, <1>10, WrittenGrows
<1>12. PICK N, m : N = Len(word.source) + 1 /\ m = Len(list)
  OBVIOUS
<1>13. OperandOf(word2, N) = Len(word.code) + 2
  <2>1. Larger(word, word2, e, Len(word.source) + 1)
    BY <1>9, <1>10, NewestIs, Zenon
  <2>2. QED
    BY <1>12, <2>1 DEF Larger
<1>14. /\ Hook(word2.code, OperandOf(word2, N))
       /\ word2.code[OperandOf(word2, N)].value = list[1].at - 2
  BY <1>6, <1>9, <1>10, <1>13, Zenon
<1>15. Lower(list, list2, m - 1, 0)
  BY <1>1, <1>3, <1>12, TakenLower
<1>16. Traces(word2, list2, leaves2, loops2)
  <2>1. EndsLoop(word, word2, e, Q, list, list2, leaves, leaves2, loops, loops2, m, N)
    BY <1>4, <1>6, <1>11, <1>12, <1>14, <1>15 DEF EndsLoop
  <2>2. QED
    BY <1>2, <2>1, LoopTraced
<1>17. Writes(word, word2, e, c, Q, v, list2, loops2, leaves2)
  BY <1>3, <1>5, <1>7, <1>9, <1>10, <1>16 DEF Writes
<1>18. QED
  BY <1>17, WordDrawn

\* A jump behind the loop, to be patched at its end.
Leaving1(word, word2, e, loops, leaves, leaves2) ==
  /\ loops >= 0 /\ e.word = "leave"
  /\ Written(word, word2, e, word.code \o <<cell("leave"), operand(Unpatched)>>)
  /\ leaves2 = [leaves EXCEPT ![loops] = @ \cup {Len(word.code) + 2}]

LEMMA LeaveDrawn ==
  ASSUME NEW dict, NEW word, NEW list, NEW loops, NEW leaves,
         Drawing(dict, word, list, loops, leaves),
         NEW word2, NEW e, NEW leaves2, Leaving1(word, word2, e, loops, leaves, leaves2)
  PROVE  NewOk(dict, word2, list, loops, leaves2)
<1> SUFFICES ASSUME loops >= 0, e.word = "leave",
                    Written(word, word2, e, word.code \o <<cell("leave"), operand(Unpatched)>>),
                    leaves2 = [leaves EXCEPT ![loops] = @ \cup {Len(word.code) + 2}]
             PROVE  NewOk(dict, word2, list, loops, leaves2)
  BY DEF Leaving1
<1>1. /\ IsWord(word) /\ IsCode(word.code) /\ IsSeq(list) /\ Len(word.code) \in Nat
      /\ loops \in -1..2 /\ leaves \in [0..2 -> SUBSET Int]
  BY DrawingIs
<1>2. PICK t, ins : Base(word, list, leaves, loops, t, ins)
  BY DrawingIs
<1>3. PICK c : c = word.code \o <<cell("leave"), operand(Unpatched)>>
  OBVIOUS
<1>4. TwoFacts(word.code, c, {}, 0, "leave", Unpatched)
  BY <1>1, <1>3, Unchanged, TwoIs
<1>5. Rewritten(word.code, c, {}, 0) /\ NoCalls(word.code, c) /\ Hook(c, Len(word.code) + 2)
  BY <1>4 DEF TwoFacts, Jumping, Looping
<1>6. Written(word, word2, e, c) /\ word2.code = c
  BY <1>3 DEF Written
<1>7. Grows(word, word2, e, {})
  BY <1>1, <1>5, <1>6, WrittenGrows
<1>8. PICK N : N = Len(word.source) + 1
  OBVIOUS
<1>9. OperandOf(word2, N) = Len(word.code) + 2
  <2>1. Larger(word, word2, e, Len(word.source) + 1)
    BY <1>5, <1>6, NewestIs
  <2>2. QED
    BY <1>8, <2>1 DEF Larger
<1>10. Hook(word2.code, OperandOf(word2, N))
  BY <1>5, <1>6, <1>9
<1>11. Traces(word2, list, leaves2, loops)
  BY <1>2, <1>7, <1>8, <1>10, LeaveTraced
<1>12. leaves2 \in [0..2 -> SUBSET Int]
  <2>1. loops \in 0..2 /\ Len(word.code) + 2 \in Int
    BY <1>1
  <2>2. leaves[loops] \cup {Len(word.code) + 2} \in SUBSET Int
    BY <1>1, <2>1
  <2>3. QED
    BY <1>1, <2>1, <2>2
<1>13. Writes(word, word2, e, c, {}, 0, list, loops, leaves2)
  BY <1>1, <1>5, <1>6, <1>11, <1>12 DEF Writes
<1>14. QED
  BY <1>13, WordDrawn

\* The jumps of the endofs of a case.
EndsPatch(code, list, ends, v, Q, pc) ==
  /\ Q = {list[k].at : k \in 1..ends} /\ pc = AtEnd(code, list, ends, v)
  /\ Patched(code, pc, Q, v) /\ \A at \in Q : Hook(code, at)

LEMMA EndsPatched ==
  ASSUME NEW dict, NEW word, NEW list, NEW loops, NEW leaves,
         Drawing(dict, word, list, loops, leaves),
         NEW ends \in 0..Len(list), AllEnds(list, ends), NEW v
  PROVE  \E Q, pc : EndsPatch(word.code, list, ends, v, Q, pc)
<1>1. /\ IsCode(word.code) /\ Len(list) \in Nat /\ Hooks(word, list, leaves)
  BY DrawingIs
<1>2. PICK Q, pc : Q = {list[k].at : k \in 1..ends} /\ pc = AtEnd(word.code, list, ends, v)
  OBVIOUS
<1>3. \A at \in Q : Hook(word.code, at)
  <2>1. ASSUME NEW k \in 1..ends
        PROVE  Hook(word.code, list[k].at)
    <3>1. k \in 1..Len(list)
      BY <1>1
    <3>2. list[k].kind = "endof" /\ "endof" \in Hooked
      BY DEF AllEnds, Hooked
    <3>3. QED
      BY <1>1, <3>1, <3>2 DEF Hooks
  <2>2. QED
    BY <1>2, <2>1
<1>4. pc = [n \in DOMAIN word.code |-> IF n \in Q THEN operand(v) ELSE word.code[n]]
  <2>1. \A n : n \in Q <=> \E k \in 1..ends : list[k].at = n
    BY <1>2
  <2>2. QED
    BY <1>2, <2>1 DEF AtEnd
<1>5. \A p \in 1..Len(word.code) : p \in Q => word.code[p].handler = "operand"
  BY <1>3 DEF Hook
<1>6. Patched(word.code, pc, Q, v)
  BY <1>1, <1>4, <1>5, OperandsAre
<1>7. QED
  BY <1>2, <1>3, <1>6 DEF EndsPatch

LEMMA EndcaseDrawn ==
  ASSUME NEW dict, NEW word, NEW list, NEW loops, NEW leaves,
         Drawing(dict, word, list, loops, leaves),
         NEW word2, NEW e, e.word = "endcase",
         NEW ends \in 0..Len(list), AllEnds(list, ends),
         NEW rest, rest = SubSeq(list, ends + 1, Len(list)),
         rest # <<>>, Head(rest).kind = "case",
         Written(word, word2, e, AtEnd(word.code, list, ends, Len(word.code)) \o <<>>),
         NEW list2, list2 = Tail(rest)
  PROVE  NewOk(dict, word2, list2, loops, leaves)
<1>1. /\ IsWord(word) /\ IsCode(word.code) /\ IsSeq(list) /\ Len(list) \in Nat
      /\ loops \in -1..2 /\ leaves \in [0..2 -> SUBSET Int]
      /\ Hooks(word, list, leaves) /\ Len(word.code) \in Nat
  BY DrawingIs
<1>2. PICK t, ins : Base(word, list, leaves, loops, t, ins)
  BY DrawingIs
<1>3. Taken(list, rest, ends, 0) /\ IsSeq(rest) /\ ends \in Nat
  BY <1>1, RestTaken DEF Taken
<1>4. Taken(list, list2, ends + 1, 0) /\ Head(rest) = list[ends + 1] /\ ends < Len(list)
  BY <1>1, <1>3, Dropped, Zenon
<1>5. IsSeq(list2)
  BY <1>3, RestIs
<1>6. PICK v : v = Len(word.code)
  OBVIOUS
<1>7. PICK Q, pc : EndsPatch(word.code, list, ends, v, Q, pc)
  BY EndsPatched
<1>8. PICK c : c = pc \o <<>>
  OBVIOUS
<1>9. /\ Q = {list[k].at : k \in 1..ends} /\ pc = AtEnd(word.code, list, ends, v)
       /\ Patched(word.code, pc, Q, v) /\ \A at \in Q : Hook(word.code, at)
  BY <1>7 DEF EndsPatch
<1>10. None(word.code, c, Q, v)
  BY <1>1, <1>8, <1>9, NoneAdded
<1>11. Rewritten(word.code, c, Q, v) /\ NoCalls(word.code, c) /\ v = Len(c)
  BY <1>1, <1>6, <1>10 DEF None, NoCalls
<1>12. Written(word, word2, e, c)
  BY <1>6, <1>8, <1>9
<1>13. Grows(word, word2, e, Q)
  BY <1>1, <1>11, <1>12, WrittenGrows
<1>14. PICK m : m = Len(list)
  OBVIOUS
<1>15. Lower(list, list2, m - (ends + 1), 0)
  BY <1>1, <1>4, <1>14, TakenLower
<1>16. ends \in 0..(Len(list) - 1) /\ list[ends + 1].kind = "case"
  BY <1>1, <1>4
<1>17. Traces(word2, list2, leaves, loops)
  BY <1>2, <1>6, <1>13, <1>14, <1>15, <1>16, <1>9, EndcaseTraced
<1>18. Writes(word, word2, e, c, Q, v, list2, loops, leaves)
  BY <1>1, <1>5, <1>11, <1>12, <1>17, <1>9 DEF Writes
<1>19. QED
  BY <1>18, WordDrawn

-----------------------------------------------------------------------------
(* The words that are compiled.                                            *)

NewTraced == NewOk(dictionary, new, conditions, do_index2, leave_words)

\* A state that compiles a definition.
Now(dict, word, list, loops, leaves) ==
  /\ dict = dictionary /\ word = new /\ list = conditions
  /\ loops = do_index2 /\ leaves = leave_words
  /\ Drawing(dict, word, list, loops, leaves)

LEMMA NowIs ==
  ASSUME NewTraced, ~new.spoiled
  PROVE  \E dict, word, list, loops, leaves : Now(dict, word, list, loops, leaves)
<1>1. PICK dict, word, list, loops, leaves :
        /\ dict = dictionary /\ word = new /\ list = conditions
        /\ loops = do_index2 /\ leaves = leave_words
  OBVIOUS
<1>2. Drawing(dict, word, list, loops, leaves)
  BY <1>1 DEF Drawing, NewTraced
<1>3. QED
  BY <1>1, <1>2 DEF Now

LEMMA NowFacts ==
  ASSUME NEW dict, NEW word, NEW list, NEW loops, NEW leaves,
         Now(dict, word, list, loops, leaves)
  PROVE  /\ dict = dictionary /\ word = new /\ list = conditions
         /\ loops = do_index2 /\ leaves = leave_words
         /\ Drawing(dict, word, list, loops, leaves)
         /\ IsCode(word.code) /\ IsCode(new.code) /\ Len(word.code) \in Nat
         /\ Len(new.code) \in Nat /\ IsSeq(list) /\ IsWord(new)
<1>1. /\ dict = dictionary /\ word = new /\ list = conditions
      /\ loops = do_index2 /\ leaves = leave_words
      /\ Drawing(dict, word, list, loops, leaves)
  BY DEF Now
<1>2. IsWord(word) /\ IsCode(word.code) /\ Len(word.code) \in Nat /\ IsSeq(list)
  BY <1>1, DrawingIs
<1>3. QED
  BY <1>1, <1>2

\* A word that is written in it.
LEMMA NowWritten ==
  ASSUME NEW dict, NEW word, NEW list, NEW loops, NEW leaves,
         Now(dict, word, list, loops, leaves),
         NEW name, NEW value, NEW code, NEW cells,
         Emit(name, value, code, cells), IsCode(code \o cells)
  PROVE  \E word2, e : /\ word2 = new' /\ e.word = name
                       /\ Written(word, word2, e, code \o cells)
<1>1. word = new /\ IsWord(new)
  BY NowFacts
<1>2. PICK word2, e : word2 = new' /\ e = [word |-> name, value |-> value]
  OBVIOUS
<1>3. Written(word, word2, e, code \o cells)
  BY <1>1, <1>2, EmitWrites
<1>4. e.word = name
  BY <1>2
<1>5. QED
  BY <1>2, <1>3, <1>4

LEMMA ThenTraced ==
  ASSUME NEW dict, NEW word2, NEW list2, NEW loops2, NEW leaves2,
         dict = dictionary', word2 = new', list2 = conditions',
         loops2 = do_index2', leaves2 = leave_words',
         NewOk(dict, word2, list2, loops2, leaves2)
  PROVE  NewTraced'
BY DEF NewTraced

LEMMA ForwardFollows ==
  ASSUME NewTraced, ~new.spoiled, dictionary' = dictionary,
         NEW word \in {"if", "while", "of", "rangeof"},
         NEW kind, kind = IF word = "rangeof" THEN "of" ELSE word, Forward(word, kind)
  PROVE  NewTraced'
<1>1. PICK dict, w, list, loops, leaves : Now(dict, w, list, loops, leaves)
  BY NowIs
<1>2. /\ dict = dictionary /\ w = new /\ list = conditions
      /\ loops = do_index2 /\ leaves = leave_words
      /\ Drawing(dict, w, list, loops, leaves)
      /\ IsCode(new.code) /\ Len(new.code) \in Nat
  BY <1>1, NowFacts
<1>3. PICK list2 : list2 = <<[kind |-> kind, at |-> Len(w.code) + 2]>> \o list
  OBVIOUS
<1>4. PICK code, cells : code = new.code /\ cells = <<cell(word), operand(Unpatched)>>
  OBVIOUS
<1>5. /\ Emit(word, 0, code, cells)
      /\ conditions' = list2 /\ UNCHANGED <<do_index2, leave_words>>
  BY <1>2, <1>3, <1>4, HereIs DEF Forward, PushCondition
<1>6. IsCode(code \o cells)
  BY <1>2, <1>4, StillCode, CellsAre
<1>7. PICK w2, e : w2 = new' /\ e.word = word /\ Written(w, w2, e, code \o cells)
  BY <1>1, <1>5, <1>6, NowWritten
<1>8. Written(w, w2, e, w.code \o <<cell(e.word), operand(Unpatched)>>)
  BY <1>2, <1>4, <1>7
<1>9. NewOk(dict, w2, list2, loops, leaves)
  <2>1. Forwards(w, w2, e, list, list2)
    BY <1>3, <1>7, <1>8 DEF Forwards
  <2>2. QED
    BY <1>2, <2>1, ForwardDrawn
<1>10. QED
  BY <1>2, <1>5, <1>7, <1>9, ThenTraced

LEMMA MarkFollows ==
  ASSUME NewTraced, ~new.spoiled, dictionary' = dictionary,
         NEW word \in {"begin", "case"}, Mark(word)
  PROVE  NewTraced'
<1>1. PICK dict, w, list, loops, leaves : Now(dict, w, list, loops, leaves)
  BY NowIs
<1>2. /\ dict = dictionary /\ w = new /\ list = conditions
      /\ loops = do_index2 /\ leaves = leave_words
      /\ Drawing(dict, w, list, loops, leaves)
      /\ IsCode(new.code) /\ Len(new.code) \in Nat
  BY <1>1, NowFacts
<1>3. PICK list2 : list2 = <<[kind |-> word, at |-> Len(w.code) + 1]>> \o list
  OBVIOUS
<1>4. PICK code : code = new.code
  OBVIOUS
<1>5. /\ Emit(word, 0, code, <<>>)
      /\ conditions' = list2 /\ UNCHANGED <<do_index2, leave_words>>
  BY <1>2, <1>3, <1>4, HereIs DEF Mark, PushCondition
<1>6. IsCode(code \o <<>>)
  BY <1>2, <1>4, StillCode
<1>7. PICK w2, e : w2 = new' /\ e.word = word /\ Written(w, w2, e, code \o <<>>)
  BY <1>1, <1>5, <1>6, NowWritten
<1>8. Written(w, w2, e, w.code \o <<>>)
  BY <1>2, <1>4, <1>7
<1>9. NewOk(dict, w2, list2, loops, leaves)
  <2>1. Marking(w, w2, e, list, list2)
    BY <1>3, <1>7, <1>8 DEF Marking
  <2>2. QED
    BY <1>2, <2>1, MarkDrawn
<1>10. QED
  BY <1>2, <1>5, <1>7, <1>9, ThenTraced

LEMMA DoFollows ==
  ASSUME NewTraced, ~new.spoiled, dictionary' = dictionary, Do
  PROVE  NewTraced'
<1>1. PICK dict, w, list, loops, leaves : Now(dict, w, list, loops, leaves)
  BY NowIs
<1>2. /\ dict = dictionary /\ w = new /\ list = conditions
      /\ loops = do_index2 /\ leaves = leave_words
      /\ Drawing(dict, w, list, loops, leaves)
      /\ IsCode(new.code) /\ Len(new.code) \in Nat
  BY <1>1, NowFacts
<1>3. PICK list2, loops2 :
        list2 = <<[kind |-> "do", at |-> Len(w.code) + 3]>> \o list /\ loops2 = loops + 1
  OBVIOUS
<1>4. PICK code, cells :
        code = new.code /\ cells = <<cell("do"), cell("do2"), operand(Unpatched)>>
  OBVIOUS
<1>5. /\ Emit("do", 0, code, cells) /\ loops < 2
      /\ conditions' = list2 /\ do_index2' = loops2 /\ leave_words' = leave_words
  BY <1>2, <1>3, <1>4, HereIs DEF Do, PushCondition
<1>6. IsCode(code \o cells)
  BY <1>2, <1>4, StillCode, CellsAre
<1>7. PICK w2, e : w2 = new' /\ e.word = "do" /\ Written(w, w2, e, code \o cells)
  BY <1>1, <1>5, <1>6, NowWritten
<1>8. Written(w, w2, e, w.code \o <<cell("do"), cell("do2"), operand(Unpatched)>>)
  BY <1>2, <1>4, <1>7
<1>9. NewOk(dict, w2, list2, loops2, leaves)
  BY <1>2, <1>3, <1>5, <1>7, <1>8, DoDrawn
<1>10. QED
  BY <1>2, <1>5, <1>7, <1>9, ThenTraced

\* A word that is refused spoils the definition, or changes nothing of it.
Refusal(code, rest) ==
  /\ Refuse(code, rest) /\ dictionary' = dictionary /\ IsCode(code) /\ IsSeq(rest)
  /\ CellsOk(dictionary, Len(dictionary) + 1, code)
  /\ rest = conditions => code = new.code

LEMMA RefusedFollows ==
  ASSUME NewTraced, ~new.spoiled, NEW code, NEW rest, Refusal(code, rest)
  PROVE  NewTraced'
<1>1. /\ conditions' = rest /\ do_index2' = do_index2 /\ leave_words' = leave_words
      /\ new' = [new EXCEPT !.code = code, !.spoiled = @ \/ rest # conditions]
      /\ dictionary' = dictionary
      /\ IsCode(code) /\ IsSeq(rest) /\ CellsOk(dictionary, Len(dictionary) + 1, code)
      /\ rest = conditions => code = new.code
  BY DEF Refusal, Refuse
<1>2. PICK dict, w, list, loops, leaves : Now(dict, w, list, loops, leaves)
  BY NowIs
<1>3. /\ dict = dictionary /\ w = new /\ list = conditions
      /\ loops = do_index2 /\ leaves = leave_words
      /\ Drawing(dict, w, list, loops, leaves) /\ IsWord(w)
  BY <1>2, NowFacts
<1>4. NewOk(dict, w, list, loops, leaves) /\ ~w.spoiled /\ w.spoiled \in BOOLEAN
  BY <1>3 DEF Drawing, NewOk
<1>5. /\ w = [name |-> w.name, code |-> w.code, source |-> w.source,
              first |-> w.first, spoiled |-> w.spoiled]
      /\ IsSeq(w.source) /\ IsSeq(w.first)
  BY <1>3 DEF IsWord
<1>6. PICK g : g = (w.spoiled \/ rest # conditions)
  OBVIOUS
<1>7. PICK w2 : w2 = [name |-> w.name, code |-> code, source |-> w.source,
                      first |-> w.first, spoiled |-> g]
  OBVIOUS
<1>8. new' = w2
  <2>1. PICK a, b, d, f, h : /\ a = w.name /\ b = w.code /\ d = w.source
                             /\ f = w.first /\ h = w.spoiled
    OBVIOUS
  <2>2. w = [name |-> a, code |-> b, source |-> d, first |-> f, spoiled |-> h]
    BY <1>5, <2>1
  <2>3. PICK w3 : w3 = [w EXCEPT !.code = code]
    OBVIOUS
  <2>4. w3 = [name |-> a, code |-> code, source |-> d, first |-> f, spoiled |-> h]
    BY <2>2, <2>3
  <2>5. [w3 EXCEPT !.spoiled = g] = [name |-> a, code |-> code, source |-> d, first |-> f, spoiled |-> g]
    BY <2>4
  <2>6. new' = [w3 EXCEPT !.spoiled = w.spoiled \/ rest # conditions]
    <3>1. w3.spoiled = w.spoiled
      BY <2>3
    <3>2. QED
      BY <1>1, <1>3, <2>3, <3>1, Zenon
  <2>7. QED
    BY <1>6, <1>7, <2>1, <2>5, <2>6
<1>9. g \in BOOLEAN
  BY <1>6, Zenon
<1>10. NewOk(dict, w2, rest, loops, leaves)
  <2>1. CASE rest = conditions
    <3>1. code = w.code /\ rest = list
      BY <1>1, <1>3, <2>1
    <3>2. g = w.spoiled
      BY <1>4, <1>6, <1>9, <2>1
    <3>3. w2 = w
      BY <1>5, <1>7, <3>1, <3>2
    <3>4. QED
      BY <1>4, <3>1, <3>3
  <2>2. CASE rest # conditions
    <3>1. g
      BY <1>6, <2>2, Zenon
    <3>2. w2.source = w.source /\ w2.first = w.first /\ w2.code = code /\ w2.spoiled = g
      BY <1>7
    <3>3. IsWord(w2)
      BY <1>1, <1>5, <1>7, <3>2 DEF IsWord
    <3>4. CellsOk(dict, Len(dict) + 1, w2.code)
      BY <1>1, <1>3, <3>2
    <3>5. QED
      BY <1>1, <1>9, <3>1, <3>2, <3>3, <3>4 DEF NewOk
  <2>3. QED
    BY <2>1, <2>2
<1>11. QED
  BY <1>1, <1>3, <1>8, <1>10, ThenTraced

\* A word that finds the wrong condition.
LEMMA PoppedFollows ==
  ASSUME NewTraced, ~new.spoiled, dictionary' = dictionary, Refuse(new.code, Popped(conditions))
  PROVE  NewTraced'
<1>1. /\ IsWord(new) /\ IsSeq(conditions)
      /\ CellsOk(dictionary, Len(dictionary) + 1, new.code)
  BY DEF NewTraced, NewOk
<1>2. PICK code, rest : code = new.code /\ rest = Popped(conditions)
  OBVIOUS
<1>3. IsCode(code) /\ IsSeq(rest)
  BY <1>1, <1>2, PoppedIs DEF IsWord
<1>4. Refusal(code, rest)
  BY <1>1, <1>2, <1>3 DEF Refusal
<1>5. QED
  BY <1>4, RefusedFollows

LEMMA MiddleFollows ==
  ASSUME NewTraced, ~new.spoiled, dictionary' = dictionary,
         NEW word, NEW kind, NEW next,
         \/ word = "else" /\ kind = "if" /\ next = "if"
         \/ word = "endof" /\ kind = "of" /\ next = "endof",
         Middle(word, kind, next)
  PROVE  NewTraced'
<1>1. PICK dict, w, list, loops, leaves : Now(dict, w, list, loops, leaves)
  BY NowIs
<1>2. /\ dict = dictionary /\ w = new /\ list = conditions
      /\ loops = do_index2 /\ leaves = leave_words
      /\ Drawing(dict, w, list, loops, leaves)
      /\ IsCode(new.code) /\ Len(new.code) \in Nat
  BY <1>1, NowFacts
<1>3. CASE ~Resolvable(kind, conditions)
  BY <1>3, PoppedFollows DEF Middle
<1>4. CASE Resolvable(kind, conditions)
  <2>1. list # <<>> /\ Head(list).kind = kind
    BY <1>2, <1>4 DEF Resolvable
  <2>2. PICK list2 : list2 = <<[kind |-> next, at |-> Len(w.code) + 2]>> \o Tail(list)
    OBVIOUS
  <2>3. PICK pc : pc = Patch(w.code, Head(list).at, Len(w.code) + 2)
    OBVIOUS
  <2>4. PICK cells : cells = <<cell(word), operand(Unpatched)>>
    OBVIOUS
  <2>5. /\ Emit(word, 0, pc, cells)
        /\ conditions' = list2 /\ UNCHANGED <<do_index2, leave_words>>
    BY <1>2, <1>4, <2>2, <2>3, <2>4, HereIs DEF Middle, PushCondition, pcond
  <2>6. IsCode(pc \o cells)
    <3>1. IsCode(pc)
      BY <1>2, <2>3, PatchIs DEF Patched
    <3>2. QED
      BY <2>4, <3>1, StillCode, CellsAre
  <2>7. PICK w2, e : w2 = new' /\ e.word = word /\ Written(w, w2, e, pc \o cells)
    BY <1>1, <2>5, <2>6, NowWritten
  <2>8. Written(w, w2, e, pc \o <<cell(e.word), operand(Unpatched)>>)
    BY <2>4, <2>7
  <2>9. \/ e.word = "else" /\ kind = "if" /\ next = "if"
        \/ e.word = "endof" /\ kind = "of" /\ next = "endof"
    BY <2>7
  <2>10. NewOk(dict, w2, list2, loops, leaves)
    BY <1>2, <2>1, <2>2, <2>3, <2>8, <2>9, MiddleDrawn
  <2>11. QED
    BY <1>2, <2>5, <2>7, <2>10, ThenTraced
<1>5. QED
  BY <1>3, <1>4

LEMMA ThenFollows ==
  ASSUME NewTraced, ~new.spoiled, dictionary' = dictionary, Then
  PROVE  NewTraced'
<1>1. PICK dict, w, list, loops, leaves : Now(dict, w, list, loops, leaves)
  BY NowIs
<1>2. /\ dict = dictionary /\ w = new /\ list = conditions
      /\ loops = do_index2 /\ leaves = leave_words
      /\ Drawing(dict, w, list, loops, leaves)
      /\ IsCode(new.code) /\ Len(new.code) \in Nat
  BY <1>1, NowFacts
<1>3. CASE ~Resolvable("if", conditions)
  BY <1>3, PoppedFollows DEF Then
<1>4. CASE Resolvable("if", conditions)
  <2>1. list # <<>> /\ Head(list).kind = "if"
    BY <1>2, <1>4 DEF Resolvable
  <2>2. PICK list2 : list2 = Tail(list)
    OBVIOUS
  <2>3. PICK pc : pc = Patch(w.code, Head(list).at, Len(w.code))
    OBVIOUS
  <2>4. /\ Emit("then", 0, pc, <<>>)
        /\ conditions' = list2 /\ UNCHANGED <<do_index2, leave_words>>
    BY <1>2, <1>4, <2>2, <2>3, HereIs DEF Then, ThenAt, pcond
  <2>5. IsCode(pc \o <<>>)
    <3>1. IsCode(pc)
      BY <1>2, <2>3, PatchIs DEF Patched
    <3>2. QED
      BY <3>1, StillCode
  <2>6. PICK w2, e : w2 = new' /\ e.word = "then" /\ Written(w, w2, e, pc \o <<>>)
    BY <1>1, <2>4, <2>5, NowWritten
  <2>7. NewOk(dict, w2, list2, loops, leaves)
    BY <1>2, <2>1, <2>2, <2>3, <2>6, ThenDrawn
  <2>8. QED
    BY <1>2, <2>4, <2>6, <2>7, ThenTraced
<1>5. QED
  BY <1>3, <1>4

LEMMA BackFollows ==
  ASSUME NewTraced, ~new.spoiled, dictionary' = dictionary,
         NEW word \in {"until", "again"}, Back(word)
  PROVE  NewTraced'
<1>1. PICK dict, w, list, loops, leaves : Now(dict, w, list, loops, leaves)
  BY NowIs
<1>2. /\ dict = dictionary /\ w = new /\ list = conditions
      /\ loops = do_index2 /\ leaves = leave_words
      /\ Drawing(dict, w, list, loops, leaves)
      /\ IsCode(new.code) /\ Len(new.code) \in Nat
  BY <1>1, NowFacts
<1>3. CASE ~Resolvable("begin", conditions)
  BY <1>3, PoppedFollows DEF Back
<1>4. CASE Resolvable("begin", conditions)
  <2>1. list # <<>> /\ Head(list).kind = "begin"
    BY <1>2, <1>4 DEF Resolvable
  <2>2. PICK list2 : list2 = Tail(list)
    OBVIOUS
  <2>3. PICK code, cells : code = w.code /\ cells = <<cell(word), operand(Head(list).at - 1)>>
    OBVIOUS
  <2>4. /\ Emit(word, 0, code, cells)
        /\ conditions' = list2 /\ UNCHANGED <<do_index2, leave_words>>
    BY <1>2, <1>4, <2>2, <2>3 DEF Back, pcond
  <2>5. IsCode(code \o cells)
    BY <1>2, <2>3, StillCode, CellsAre
  <2>6. PICK w2, e : w2 = new' /\ e.word = word /\ Written(w, w2, e, code \o cells)
    BY <1>1, <2>4, <2>5, NowWritten
  <2>7. Written(w, w2, e, w.code \o <<cell(e.word), operand(Head(list).at - 1)>>)
    BY <2>3, <2>6
  <2>8. NewOk(dict, w2, list2, loops, leaves)
    <3>1. Returning(w, w2, e, list, list2)
      BY <2>1, <2>2, <2>6, <2>7 DEF Returning
    <3>2. QED
      BY <1>2, <3>1, BackDrawn
  <2>9. QED
    BY <1>2, <2>4, <2>6, <2>8, ThenTraced
<1>5. QED
  BY <1>3, <1>4

\* Patching keeps the calls.
LEMMA PatchedCells ==
  ASSUME NEW dict, NEW word, NEW list, NEW loops, NEW leaves,
         Drawing(dict, word, list, loops, leaves),
         NEW pc, NEW Q, NEW v, Patched(word.code, pc, Q, v), \A at \in Q : Hook(word.code, at)
  PROVE  IsCode(pc) /\ CellsOk(dict, Len(dict) + 1, pc)
<1>1. IsCode(word.code) /\ Len(word.code) \in Nat
  BY DrawingIs
<1>2. CellsOk(dict, Len(dict) + 1, word.code)
  BY DEF Drawing, NewOk
<1>3. Rewritten(word.code, pc, Q, v) /\ Len(pc) \in Nat /\ NoCalls(word.code, pc) /\ IsCode(pc)
  BY <1>1 DEF Patched, Rewritten, NoCalls
<1>4. QED
  BY <1>1, <1>2, <1>3, CellsGrow

LEMMA RepeatFollows ==
  ASSUME NewTraced, ~new.spoiled, dictionary' = dictionary, Repeat
  PROVE  NewTraced'
<1>1. PICK dict, w, list, loops, leaves : Now(dict, w, list, loops, leaves)
  BY NowIs
<1>2. /\ dict = dictionary /\ w = new /\ list = conditions
      /\ loops = do_index2 /\ leaves = leave_words
      /\ Drawing(dict, w, list, loops, leaves)
      /\ IsCode(new.code) /\ Len(new.code) \in Nat /\ IsSeq(list)
  BY <1>1, NowFacts
<1>3. CASE ~Resolvable("while", conditions)
  BY <1>3, PoppedFollows DEF Repeat
<1>4. CASE Resolvable("while", conditions)
  <2>1. list # <<>> /\ Head(list).kind = "while"
    BY <1>2, <1>4 DEF Resolvable
  <2>2. PICK rest : rest = Tail(list)
    OBVIOUS
  <2>3. PICK pc : pc = Patch(w.code, Head(list).at, Len(w.code) + 2)
    OBVIOUS
  <2>4. IF Resolvable("begin", rest)
        THEN /\ Emit("repeat", 0, pc, <<cell("repeat"), operand(Head(rest).at - 1)>>)
             /\ conditions' = Tail(rest) /\ UNCHANGED <<do_index2, leave_words>>
        ELSE Refuse(pc, Popped(rest))
    BY <1>2, <1>4, <2>2, <2>3, HereIs DEF Repeat, pcond
  <2>5. IsCode(pc) /\ CellsOk(dict, Len(dict) + 1, pc)
    <3>1. Hook(w.code, Head(list).at)
      <4>1. Head(list) = list[1] /\ 1 \in 1..Len(list)
        BY <1>2, <2>1, TopTaken, IsSeqFacts, EmptyIs
      <4>2. Hooks(w, list, leaves)
        BY <1>2, DrawingIs
      <4>3. QED
        BY <2>1, <4>1, <4>2 DEF Hooks, Hooked
    <3>2. PICK at, v, Q : at = Head(list).at /\ v = Len(w.code) + 2 /\ Q = {at}
      OBVIOUS
    <3>3. Patched(w.code, pc, Q, v)
      BY <1>2, <2>3, <3>2, PatchIs
    <3>4. \A a \in Q : Hook(w.code, a)
      BY <3>1, <3>2
    <3>5. QED
      BY <1>2, <3>3, <3>4, PatchedCells
  <2>6. IsSeq(rest) /\ Len(rest) = Len(list) - 1 /\ Len(list) \in Nat /\ Len(rest) \in Nat
    BY <1>2, <2>1, <2>2, RestIs, IsSeqFacts
  <2>7. CASE ~Resolvable("begin", rest)
    <3>1. PICK rest2 : rest2 = Popped(rest)
      OBVIOUS
    <3>2. IsSeq(rest2) /\ rest2 # list
      <4>1. IsSeq(rest2) /\ (rest = <<>> => rest2 = <<>>)
        BY <2>6, <3>1, PoppedIs DEF Popped
      <4>2. rest # <<>> => Len(rest2) = Len(rest) - 1
        BY <2>6, <3>1, RestIs DEF Popped
      <4>3. rest # <<>> => rest2 # list
        BY <2>6, <4>2
      <4>4. QED
        BY <2>1, <4>1, <4>3
    <3>3. Refusal(pc, rest2)
      BY <1>2, <2>4, <2>5, <2>7, <3>1, <3>2 DEF Refusal
    <3>4. QED
      BY <3>3, RefusedFollows
  <2>8. CASE Resolvable("begin", rest)
    <3>1. rest # <<>> /\ Head(rest).kind = "begin"
      BY <2>8 DEF Resolvable
    <3>2. PICK list2, cells : /\ list2 = Tail(rest)
                              /\ cells = <<cell("repeat"), operand(Head(rest).at - 1)>>
      OBVIOUS
    <3>3. /\ Emit("repeat", 0, pc, cells) /\ conditions' = list2
          /\ UNCHANGED <<do_index2, leave_words>>
      BY <2>4, <2>8, <3>2
    <3>4. IsCode(pc \o cells)
      BY <2>5, <3>2, StillCode, CellsAre
    <3>5. PICK w2, e : w2 = new' /\ e.word = "repeat" /\ Written(w, w2, e, pc \o cells)
      BY <1>1, <3>3, <3>4, NowWritten
    <3>6. Repeating(w, w2, e, list, rest, list2)
      BY <2>1, <2>2, <2>3, <3>1, <3>2, <3>5 DEF Repeating
    <3>7. NewOk(dict, w2, list2, loops, leaves)
      BY <1>2, <3>6, RepeatDrawn
    <3>8. QED
      BY <1>2, <3>3, <3>5, <3>7, ThenTraced
  <2>9. QED
    BY <2>7, <2>8
<1>5. QED
  BY <1>3, <1>4

LEMMA LoopFollows ==
  ASSUME NewTraced, ~new.spoiled, dictionary' = dictionary,
         NEW word \in {"loop", "+loop"}, Loop(word)
  PROVE  NewTraced'
<1>1. PICK dict, w, list, loops, leaves : Now(dict, w, list, loops, leaves)
  BY NowIs
<1>2. /\ dict = dictionary /\ w = new /\ list = conditions
      /\ loops = do_index2 /\ leaves = leave_words
      /\ Drawing(dict, w, list, loops, leaves)
      /\ IsCode(new.code) /\ Len(new.code) \in Nat /\ IsSeq(list)
  BY <1>1, NowFacts
<1>3. CASE ~Resolvable("do", conditions)
  BY <1>3, PoppedFollows DEF Loop
<1>4. CASE Resolvable("do", conditions)
  <2>1. list # <<>> /\ Head(list).kind = "do"
    BY <1>2, <1>4 DEF Resolvable
  <2>2. PICK list2 : list2 = Tail(list)
    OBVIOUS
  <2>3. PICK pc : pc = Patch(w.code, Head(list).at, Len(w.code) + 2)
    OBVIOUS
  <2>4. PICK pc2 : pc2 = Rewired(pc, leaves[loops], Len(w.code) + 2)
    OBVIOUS
  <2>5. PICK cells : cells = <<cell(word), operand(Head(list).at - 2)>>
    OBVIOUS
  <2>6. PICK leaves2, loops2 : /\ leaves2 = [leaves EXCEPT ![loops] = {}]
                               /\ loops2 = loops - 1
    OBVIOUS
  <2>7. /\ Emit(word, 0, pc2, cells)
        /\ conditions' = list2 /\ leave_words' = leaves2 /\ do_index2' = loops2
    BY <1>2, <1>4, <2>2, <2>3, <2>4, <2>5, <2>6, HereIs DEF Loop, DoAgain, pcond, Rewired
  <2>8. IsCode(pc2 \o cells)
    <3>1. IsCode(pc) /\ DOMAIN pc = 1..Len(pc) /\ Len(pc) \in Nat
      BY <1>2, <2>3, PatchIs, DomainIs DEF Patched
    <3>2. pc2 = [n \in 1..Len(pc) |-> pc2[n]] /\ DOMAIN pc2 = 1..Len(pc)
      BY <2>4, <3>1 DEF Rewired
    <3>3. IsSeq(pc2) /\ Len(pc2) = Len(pc)
      BY <3>1, <3>2, FunctionIsSeq
    <3>4. \A n \in 1..Len(pc) : IsCell(pc[n])
      BY <3>1 DEF IsCode, IsCell
    <3>5. \A n \in 1..Len(pc) : IsCell(pc2[n])
      BY <2>4, <3>1, <3>4, CellsAre DEF Rewired
    <3>6. IsCode(pc2)
      BY <3>3, <3>5 DEF IsCode, IsCell
    <3>7. QED
      BY <2>5, <3>6, StillCode, CellsAre
  <2>9. PICK w2, e : w2 = new' /\ e.word = word /\ Written(w, w2, e, pc2 \o cells)
    BY <1>1, <2>7, <2>8, NowWritten
  <2>10. LoopsBack(w, w2, e, list, list2, loops, loops2, leaves, leaves2)
    BY <2>1, <2>2, <2>3, <2>4, <2>5, <2>6, <2>9 DEF LoopsBack
  <2>11. NewOk(dict, w2, list2, loops2, leaves2)
    BY <1>2, <2>10, LoopDrawn
  <2>12. QED
    BY <1>2, <2>7, <2>9, <2>11, ThenTraced
<1>5. QED
  BY <1>3, <1>4

LEMMA LeaveFollows ==
  ASSUME NewTraced, ~new.spoiled, dictionary' = dictionary, Leave
  PROVE  NewTraced'
<1>1. PICK dict, w, list, loops, leaves : Now(dict, w, list, loops, leaves)
  BY NowIs
<1>2. /\ dict = dictionary /\ w = new /\ list = conditions
      /\ loops = do_index2 /\ leaves = leave_words
      /\ Drawing(dict, w, list, loops, leaves)
      /\ IsCode(new.code) /\ Len(new.code) \in Nat
  BY <1>1, NowFacts
<1>3. PICK code, cells : code = w.code /\ cells = <<cell("leave"), operand(Unpatched)>>
  OBVIOUS
<1>4. PICK leaves2 : leaves2 = [leaves EXCEPT ![loops] = @ \cup {Len(w.code) + 2}]
  OBVIOUS
<1>5. /\ Emit("leave", 0, code, cells) /\ loops >= 0
      /\ leave_words' = leaves2 /\ UNCHANGED <<conditions, do_index2>>
  BY <1>2, <1>3, <1>4, HereIs DEF Leave
<1>6. IsCode(code \o cells)
  BY <1>2, <1>3, StillCode, CellsAre
<1>7. PICK w2, e : w2 = new' /\ e.word = "leave" /\ Written(w, w2, e, code \o cells)
  BY <1>1, <1>5, <1>6, NowWritten
<1>8. NewOk(dict, w2, list, loops, leaves2)
  <2>1. Leaving1(w, w2, e, loops, leaves, leaves2)
    BY <1>3, <1>4, <1>5, <1>7 DEF Leaving1
  <2>2. QED
    BY <1>2, <2>1, LeaveDrawn
<1>9. QED
  BY <1>2, <1>5, <1>7, <1>8, ThenTraced

LEMMA EndcaseFollows ==
  ASSUME NewTraced, ~new.spoiled, dictionary' = dictionary, Endcase
  PROVE  NewTraced'
<1>1. PICK dict, w, list, loops, leaves : Now(dict, w, list, loops, leaves)
  BY NowIs
<1>2. /\ dict = dictionary /\ w = new /\ list = conditions
      /\ loops = do_index2 /\ leaves = leave_words
      /\ Drawing(dict, w, list, loops, leaves)
      /\ IsCode(new.code) /\ Len(new.code) \in Nat /\ IsSeq(list)
  BY <1>1, NowFacts
<1>3. PICK ends : ends = Ends(list)
  OBVIOUS
<1>4. PICK rest : rest = SubSeq(list, ends + 1, Len(list))
  OBVIOUS
<1>5. ends \in 0..Len(list) /\ AllEnds(list, ends) /\ Len(list) \in Nat
  BY <1>2, <1>3, EndsAre, IsSeqFacts
<1>6. PICK v : v = Len(w.code)
  OBVIOUS
<1>7. PICK Q, pc : EndsPatch(w.code, list, ends, v, Q, pc)
  BY <1>2, <1>5, EndsPatched
<1>8. /\ pc = AtEnd(w.code, list, ends, v) /\ Patched(w.code, pc, Q, v)
      /\ \A at \in Q : Hook(w.code, at)
  BY <1>7 DEF EndsPatch
<1>9. IsCode(pc) /\ CellsOk(dict, Len(dict) + 1, pc) /\ (ends = 0 => pc = w.code)
  <2>1. IsCode(pc) /\ CellsOk(dict, Len(dict) + 1, pc)
    BY <1>2, <1>8, PatchedCells
  <2>2. ends = 0 => pc = w.code
    BY <1>2, <1>8, AtEndIs
  <2>3. QED
    BY <2>1, <2>2
<1>10. IF Resolvable("case", rest)
       THEN /\ Emit("endcase", 0, pc, <<>>)
            /\ conditions' = Tail(rest) /\ UNCHANGED <<do_index2, leave_words>>
       ELSE Refuse(pc, Popped(rest))
  <2>1. pc = [n \in DOMAIN new.code |-> IF \E k \in 1..ends : conditions[k].at = n
                                        THEN operand(Here - 1) ELSE new.code[n]]
    BY <1>2, <1>6, <1>8, HereIs DEF AtEnd
  <2>2. ends = IF {n \in DOMAIN conditions : conditions[n].kind # "endof"} = {}
               THEN Len(conditions)
               ELSE Min({n \in DOMAIN conditions : conditions[n].kind # "endof"}) - 1
    BY <1>2, <1>3 DEF Ends, Others
  <2>3. rest = SubSeq(conditions, ends + 1, Len(conditions))
    BY <1>2, <1>4
  <2>4. QED
    BY <2>1, <2>2, <2>3, Zenon DEF Endcase
<1>11. IsSeq(rest) /\ Len(rest) = Len(list) - ends
  BY <1>2, <1>4, <1>5, Behind
<1>12. CASE ~Resolvable("case", rest)
  <2>1. PICK rest2 : rest2 = Popped(rest)
    OBVIOUS
  <2>2. IsSeq(rest2) /\ (rest2 = list => ends = 0)
    <3>1. rest = <<>> => rest2 = <<>> /\ Len(<<>>) = 0
      BY <2>1, EmptyIs DEF Popped
    <3>2. rest # <<>> => Len(rest2) = Len(rest) - 1
      BY <1>11, <2>1, RestIs DEF Popped
    <3>3. IsSeq(rest2)
      BY <1>11, <2>1, PoppedIs
    <3>4. ASSUME rest2 = list
          PROVE  ends = 0
      <4>1. rest = <<>> => Len(list) = 0
        BY <3>1, <3>4
      <4>2. rest # <<>> => Len(list) = Len(rest) - 1
        BY <3>2, <3>4
      <4>3. QED
        BY <1>5, <1>11, <4>1, <4>2
    <3>5. QED
      BY <3>3, <3>4
  <2>3. Refusal(pc, rest2)
    BY <1>2, <1>9, <1>10, <1>12, <2>1, <2>2 DEF Refusal
  <2>4. QED
    BY <2>3, RefusedFollows
<1>13. CASE Resolvable("case", rest)
  <2>1. rest # <<>> /\ Head(rest).kind = "case"
    BY <1>13 DEF Resolvable
  <2>2. PICK list2 : list2 = Tail(rest)
    OBVIOUS
  <2>3. IsCode(pc \o <<>>)
    BY <1>9, StillCode
  <2>4. Emit("endcase", 0, pc, <<>>) /\ conditions' = list2 /\ UNCHANGED <<do_index2, leave_words>>
    BY <1>10, <1>13, <2>2
  <2>5. PICK w2, e : w2 = new' /\ e.word = "endcase" /\ Written(w, w2, e, pc \o <<>>)
    BY <1>1, <2>3, <2>4, NowWritten
  <2>6. Written(w, w2, e, AtEnd(w.code, list, ends, Len(w.code)) \o <<>>)
    BY <1>6, <1>8, <2>5
  <2>7. NewOk(dict, w2, list2, loops, leaves)
    BY <1>2, <1>4, <1>5, <2>1, <2>2, <2>5, <2>6, EndcaseDrawn
  <2>8. QED
    BY <1>2, <2>4, <2>5, <2>7, ThenTraced
<1>14. QED
  BY <1>12, <1>13

\* Words that build no structure.
Straight(word, value, cells) ==
  /\ UNCHANGED <<dictionary, conditions, do_index2, leave_words>>
  /\ Emit(word, value, new.code, cells) /\ IsCode(cells) /\ word \notin AllStructure
  /\ CellsOk(dictionary, Len(dictionary) + 1, new.code \o cells)

LEMMA StraightFollows ==
  ASSUME NewTraced, ~new.spoiled, NEW word, NEW value, NEW cells, Straight(word, value, cells)
  PROVE  NewTraced'
<1>1. PICK dict, w, list, loops, leaves : Now(dict, w, list, loops, leaves)
  BY NowIs
<1>2. /\ dict = dictionary /\ w = new /\ list = conditions
      /\ loops = do_index2 /\ leaves = leave_words
      /\ Drawing(dict, w, list, loops, leaves)
      /\ IsCode(new.code) /\ Len(new.code) \in Nat /\ IsSeq(list)
  BY <1>1, NowFacts
<1>3. PICK code, c : code = w.code /\ c = code \o cells
  OBVIOUS
<1>4. /\ UNCHANGED <<dictionary, conditions, do_index2, leave_words>>
      /\ Emit(word, value, code, cells) /\ IsCode(cells) /\ word \notin AllStructure
      /\ CellsOk(dict, Len(dict) + 1, c)
  BY <1>2, <1>3 DEF Straight
<1>5. With(c, code, cells)
  BY <1>2, <1>3, <1>4, CellsAdded
<1>6. IsCode(code \o cells) /\ Rewritten(w.code, c, {}, 0)
  <2>1. Patched(code, code, {}, 0) /\ IsCode(code)
    BY <1>2, <1>3, Unchanged
  <2>2. Rewritten(code, c, {}, 0)
    BY <1>4, <1>5, <2>1, Rewrites
  <2>3. QED
    BY <1>3, <1>5, <2>2 DEF With
<1>7. PICK w2, e : w2 = new' /\ e.word = word /\ Written(w, w2, e, code \o cells)
  BY <1>1, <1>4, <1>6, NowWritten
<1>8. NewOk(dict, w2, list, loops, leaves)
  <2>1. Written(w, w2, e, c) /\ e.word \notin AllStructure
    BY <1>3, <1>4, <1>7
  <2>2. QED
    BY <1>2, <1>4, <1>6, <2>1, StraightDrawn
<1>9. QED
  BY <1>2, <1>4, <1>7, <1>8, ThenTraced

\* Cells that call nothing.
LEMMA NoMoreCalls ==
  ASSUME NEW dict, NEW w, NEW code, IsCode(code), CellsOk(dict, w, code),
         NEW cells, IsCode(cells),
         \A p \in 1..Len(cells) : cells[p].handler \notin {"call", "var_set"}
  PROVE  CellsOk(dict, w, code \o cells)
<1>1. PICK c : c = code \o cells
  OBVIOUS
<1>2. With(c, code, cells)
  BY <1>1, CellsAdded
<1>3. /\ IsCode(c) /\ Len(c) = Len(code) + Len(cells)
      /\ \A p \in 1..Len(cells) : c[Len(code) + p] = cells[p]
  BY <1>2 DEF With
<1>4. Len(code) \in Nat /\ Len(cells) \in Nat /\ Len(c) \in Nat
  BY <1>3, IsSeqFacts DEF IsCode
<1>5. Rewritten(code, c, {}, 0)
  <2>1. Patched(code, code, {}, 0)
    BY Unchanged
  <2>2. QED
    BY <1>2, <2>1, Rewrites
<1>6. ASSUME NEW p \in 1..Len(c), p > Len(code)
      PROVE  c[p].handler \notin {"call", "var_set"}
  <2>1. PICK q : q = p - Len(code)
    OBVIOUS
  <2>2. q \in 1..Len(cells) /\ p = Len(code) + q
    BY <1>3, <1>4, <1>6, <2>1
  <2>3. c[p] = cells[q]
    BY <1>3, <2>2
  <2>4. QED
    BY <2>2, <2>3
<1>7. NoCalls(code, c)
  BY <1>6 DEF NoCalls
<1>8. PICK Q, v : Q = {} /\ v = 0
  OBVIOUS
<1>9. Rewritten(code, c, Q, v) /\ \A at \in Q : Hook(code, at)
  BY <1>5, <1>8
<1>10. CellsOk(dict, w, c)
  BY <1>4, <1>7, <1>9, CellsGrow
<1>11. QED
  BY <1>1, <1>10

LEMMA CodeOfTwo ==
  ASSUME NEW h, NEW x, NEW cells, cells = <<cell(h), operand(x)>>
  PROVE  /\ IsCode(cells) /\ Len(cells) = 2 /\ cells[1] = cell(h) /\ cells[2] = operand(x)
<1>1. /\ cells \in Seq({cell(h), operand(x)}) /\ Len(cells) = 2
      /\ cells[1] = cell(h) /\ cells[2] = operand(x)
  OBVIOUS
<1>2. IsCell(cell(h)) /\ IsCell(operand(x))
  BY CellsAre
<1>3. \A p \in 1..2 : p = 1 \/ p = 2
  OBVIOUS
<1>4. IsCode(cells)
  BY <1>1, <1>2, <1>3, SeqIs DEF IsCode, IsCell
<1>5. QED
  BY <1>1, <1>4

LEMMA NumberFollows ==
  ASSUME NewTraced, ~new.spoiled, NEW n, UNCHANGED <<dictionary, conditions, do_index2, leave_words>>,
         Emit("lit", n, new.code, <<cell("lit"), operand(n)>>)
  PROVE  NewTraced'
<1>1. IsCode(new.code) /\ CellsOk(dictionary, Len(dictionary) + 1, new.code)
  BY DEF NewTraced, NewOk, IsWord
<1>2. PICK cells : cells = <<cell("lit"), operand(n)>>
  OBVIOUS
<1>3. IsCode(cells) /\ \A p \in 1..Len(cells) : cells[p].handler \notin {"call", "var_set"}
  <2>1. IsCode(cells) /\ Len(cells) = 2 /\ cells[1] = cell("lit") /\ cells[2] = operand(n)
    BY <1>2, CodeOfTwo
  <2>2. \A p \in 1..2 : p = 1 \/ p = 2
    OBVIOUS
  <2>3. QED
    BY <2>1, <2>2 DEF cell, operand
<1>4. CellsOk(dictionary, Len(dictionary) + 1, new.code \o cells)
  BY <1>1, <1>3, NoMoreCalls
<1>5. Straight("lit", n, cells)
  BY <1>2, <1>3, <1>4 DEF Straight, AllStructure, Openers, Middles, Closers
<1>6. QED
  BY <1>5, StraightFollows

LEMMA WordFollows ==
  ASSUME NewTraced, ~new.spoiled, NEW word \in StackWords \cup {"i", "j", "k", "exit", "unloop"},
         UNCHANGED <<dictionary, conditions, do_index2, leave_words>>,
         Emit(word, 0, new.code, <<cell(word)>>)
  PROVE  NewTraced'
<1>1. IsCode(new.code) /\ CellsOk(dictionary, Len(dictionary) + 1, new.code)
  BY DEF NewTraced, NewOk, IsWord
<1>2. PICK cells : cells = <<cell(word)>>
  OBVIOUS
<1>3. word \notin {"call", "var_set"} /\ word \notin AllStructure
  BY DEF StackWords, Needing1, Needing2, Needing3, Unchecked, AllStructure, Openers, Middles,
         Closers
<1>4. IsCode(cells) /\ \A p \in 1..Len(cells) : cells[p].handler \notin {"call", "var_set"}
  <2>1. cells \in Seq({cell(word)}) /\ Len(cells) = 1 /\ cells[1] = cell(word)
    BY <1>2
  <2>2. IsCode(cells)
    BY <2>1, SeqIs, CellsAre DEF IsCode, IsCell
  <2>3. QED
    BY <1>3, <2>1, <2>2 DEF cell
<1>5. CellsOk(dictionary, Len(dictionary) + 1, new.code \o cells)
  BY <1>1, <1>4, NoMoreCalls
<1>6. Straight(word, 0, cells)
  BY <1>2, <1>3, <1>4, <1>5 DEF Straight
<1>7. QED
  BY <1>6, StraightFollows

LEMMA TextFollows ==
  ASSUME NewTraced, ~new.spoiled, NEW length \in Nat,
         UNCHANGED <<dictionary, conditions, do_index2, leave_words>>,
         NEW cells, cells = <<[handler |-> Text, value |-> length]>> \o RestOfText(length),
         Emit(Text, length, new.code, cells)
  PROVE  NewTraced'
<1>1. IsCode(new.code) /\ CellsOk(dictionary, Len(dictionary) + 1, new.code)
  BY DEF NewTraced, NewOk, IsWord
<1>2. Text \notin {"call", "var_set"} /\ Text \notin AllStructure
  BY Zenon DEF Text, AllStructure, Openers, Middles, Closers
<1>3. IsCode(cells)
  BY TextCellsAre
<1>4. \A p \in 1..Len(cells) : cells[p].handler \notin {"call", "var_set"}
  <2>1. PICK x \in Nat : x = (length + Cell) \div Cell
    <3>1. Cell \in Nat /\ Cell > 0 /\ length \in Nat
      BY ForthAssumption
    <3>2. (length + Cell) \div Cell \in Nat
      BY ONLY <3>1
    <3>3. QED
      BY ONLY <3>2
  <2>2. PICK rest, one : rest = RestOfText(length) /\ one = <<[handler |-> Text, value |-> length]>>
    OBVIOUS
  <2>3. IsCode(rest) /\ Len(rest) = x /\ \A p \in 1..Len(rest) : rest[p] = operand(0)
    <3>1. rest = [n \in 1..x |-> operand(0)]
      BY <2>1, <2>2 DEF RestOfText
    <3>2. IsSeq(rest) /\ Len(rest) = x
      BY <3>1, FunctionIsSeq
    <3>3. IsCell(operand(0))
      BY CellsAre
    <3>4. QED
      BY <3>1, <3>2, <3>3 DEF IsCode, IsCell
  <2>4. IsCode(one) /\ Len(one) = 1 /\ one[1].handler = Text
    <3>1. PICK a : a = [handler |-> Text, value |-> length]
      OBVIOUS
    <3>2. IsCell(a) /\ a.handler = Text
      BY <3>1, CellsAre
    <3>3. one \in Seq({a}) /\ Len(one) = 1 /\ one[1] = a
      BY <2>2, <3>1
    <3>4. QED
      BY <3>2, <3>3, SeqIs DEF IsCode, IsCell
  <2>5. With(cells, one, rest)
    BY <2>2, <2>3, <2>4, CellsAdded
  <2>6. /\ Len(cells) = 1 + x /\ cells[1] = one[1]
        /\ \A p \in 1..x : cells[1 + p] = rest[p]
    <3>1. /\ Len(cells) = Len(one) + Len(rest)
          /\ \A p \in 1..Len(one) : cells[p] = one[p]
          /\ \A p \in 1..Len(rest) : cells[Len(one) + p] = rest[p]
      BY <2>5 DEF With
    <3>2. 1 \in 1..Len(one)
      BY <2>4
    <3>3. QED
      BY <2>3, <2>4, <3>1, <3>2
  <2>7. ASSUME NEW p \in 1..Len(cells)
        PROVE  cells[p].handler \notin {"call", "var_set"}
    <3>1. CASE p = 1
      BY <1>2, <2>4, <2>6, <3>1
    <3>2. CASE p # 1
      <4>1. PICK q : q = p - 1
        OBVIOUS
      <4>2. q \in 1..x /\ p = 1 + q
        BY <2>6, <3>2, <4>1
      <4>3. cells[p] = operand(0)
        BY <2>3, <2>6, <4>2
      <4>4. QED
        BY <4>3 DEF operand
    <3>3. QED
      BY <3>1, <3>2
  <2>8. QED
    BY <2>7
<1>5. CellsOk(dictionary, Len(dictionary) + 1, new.code \o cells)
  BY <1>1, <1>3, <1>4, NoMoreCalls
<1>6. Straight(Text, length, cells)
  BY <1>2, <1>3, <1>5 DEF Straight
<1>7. QED
  BY <1>6, StraightFollows

\* A call of a word of the dictionary.
LEMMA CallOk1 ==
  ASSUME NEW dict, NEW code, IsCode(code), NEW m, CellsOk(dict, m, code),
         NEW w \in 1..(m - 1), NEW cells, cells = <<cell("call"), operand(w)>>
  PROVE  IsCode(cells) /\ CellsOk(dict, m, code \o cells)
<1>1. PICK c : c = code \o cells
  OBVIOUS
<1>2. TwoMore(code, c, {}, 0, cell("call"), operand(w))
  BY <1>1, Unchanged, TwoAdded, CellsAre
<1>3. /\ Rewritten(code, c, {}, 0) /\ Len(c) = Len(code) + 2
      /\ c[Len(code) + 1].handler = "call"
      /\ c[Len(code) + 2].handler = "operand" /\ c[Len(code) + 2].value = w
  BY <1>2, TwoMoreFacts
<1>4. Len(code) \in Nat
  BY IsSeqFacts DEF IsCode
<1>5. ASSUME NEW p \in 1..Len(c), c[p].handler \in {"call", "var_set"}
      PROVE  CallOk(dict, m, c, p)
  <2>1. CASE p = Len(code) + 1
    <3>1. p + 1 = Len(code) + 2 /\ p + 1 \in 1..Len(c)
      BY <1>3, <1>4, <2>1
    <3>2. c[p + 1].value = w /\ c[p].handler = "call"
      BY <1>3, <2>1, <3>1
    <3>3. QED
      BY <3>1, <3>2 DEF CallOk
  <2>2. CASE p = Len(code) + 2
    BY <1>3, <1>5, <2>2
  <2>3. CASE p \in 1..Len(code)
    <3>1. \A n \in 1..Len(code) : c[n].handler = code[n].handler /\ c[n].value = code[n].value
      BY <1>3 DEF Rewritten
    <3>2. PICK n : n = p + 1
      OBVIOUS
    <3>3. /\ n \in 1..Len(code) /\ code[n].value \in 1..(m - 1)
          /\ code[p].handler = "var_set" => Simple(dict[code[n].value])
      BY <1>5, <2>3, <3>1, <3>2 DEF CellsOk, CallOk
    <3>4. n \in 1..Len(c) /\ c[n].value = code[n].value /\ c[p].handler = code[p].handler
      BY <1>3, <1>4, <2>3, <3>1, <3>3
    <3>5. QED
      BY <3>2, <3>3, <3>4 DEF CallOk
  <2>4. QED
    BY <1>3, <1>4, <2>1, <2>2, <2>3
<1>6. CellsOk(dict, m, c)
  BY <1>5 DEF CellsOk
<1>7. IsCode(cells)
  BY CodeOfTwo
<1>8. QED
  BY <1>1, <1>6, <1>7

LEMMA CallFollows ==
  ASSUME NewTraced, ~new.spoiled, Len(dictionary) \in Nat, NEW w \in 1..Len(dictionary),
         UNCHANGED <<dictionary, conditions, do_index2, leave_words>>,
         Emit("call", w, new.code, <<cell("call"), operand(w)>>)
  PROVE  NewTraced'
<1>1. PICK m, cells : m = Len(dictionary) + 1 /\ cells = <<cell("call"), operand(w)>>
  OBVIOUS
<1>2. IsCode(new.code) /\ CellsOk(dictionary, m, new.code) /\ w \in 1..(m - 1)
  BY <1>1 DEF NewTraced, NewOk, IsWord
<1>3. IsCode(cells) /\ CellsOk(dictionary, m, new.code \o cells)
  BY <1>1, <1>2, CallOk1
<1>4. Straight("call", w, cells)
  BY <1>1, <1>3 DEF Straight, AllStructure, Openers, Middles, Closers
<1>5. QED
  BY <1>4, StraightFollows

LEMMA StructureFollows ==
  ASSUME NewTraced, NEW word,
         CompileOpener(word) \/ CompileMiddle(word) \/ CompileCloser(word)
  PROVE  NewTraced'
<1>1. ~new.spoiled /\ dictionary' = dictionary
  BY Zenon DEF CompileOpener, CompileMiddle, CompileCloser, Compiling, WhileCompiling
<1>2. CASE CompileOpener(word)
  <2>1. \/ Forward("if", "if") \/ Forward("of", "of") \/ Forward("rangeof", "of")
        \/ Mark("begin") \/ Mark("case") \/ Do
    BY <1>2, Zenon DEF CompileOpener, If, Of, Rangeof, Begin, Case
  <2>2. QED
    BY <1>1, <2>1, ForwardFollows, MarkFollows, DoFollows
<1>3. CASE CompileMiddle(word)
  <2>1. \/ Forward("while", "while") \/ Middle("else", "if", "if")
        \/ Middle("endof", "of", "endof")
    BY <1>3, Zenon DEF CompileMiddle, While, Else, Endof
  <2>2. QED
    BY <1>1, <2>1, ForwardFollows, MiddleFollows
<1>4. CASE CompileCloser(word)
  <2>1. \/ Then \/ Loop("loop") \/ Loop("+loop") \/ Leave \/ Back("until") \/ Back("again")
        \/ Repeat \/ Endcase
    BY <1>4, Zenon DEF CompileCloser, Until, Again
  <2>2. QED
    BY <1>1, <2>1, ThenFollows, LoopFollows, LeaveFollows, BackFollows, RepeatFollows,
       EndcaseFollows
<1>5. QED
  BY <1>2, <1>3, <1>4

LEMMA PlainFollows ==
  ASSUME NewTraced,
         \/ \E n \in Numbers : CompileNumber(n)
         \/ \E word \in Plain : CompilePlain(word)
         \/ \E length \in Texts : CompileText(length)
  PROVE  NewTraced'
<1>1. /\ ~new.spoiled
      /\ UNCHANGED <<dictionary, conditions, do_index2, leave_words>>
  BY Zenon DEF CompileNumber, CompilePlain, CompileText, WhileCompilingPlain, Compiling,
               WhileCompiling
<1>2. ASSUME NEW n \in Numbers, CompileNumber(n)
      PROVE  NewTraced'
  BY <1>1, <1>2, NumberFollows DEF CompileNumber
<1>3. ASSUME NEW word \in Plain, CompilePlain(word)
      PROVE  NewTraced'
  BY <1>1, <1>3, WordFollows, ForthAssumption DEF CompilePlain
<1>4. ASSUME NEW length \in Texts, CompileText(length)
      PROVE  NewTraced'
  <2>1. PICK cells : cells = <<[handler |-> Text, value |-> length]>> \o RestOfText(length)
    OBVIOUS
  <2>2. Emit(Text, length, new.code, cells)
    BY <1>4, <2>1, Zenon DEF CompileText, Text, RestOfText
  <2>3. length \in Nat
    BY ForthAssumption
  <2>4. QED
    BY <1>1, <2>1, <2>2, <2>3, TextFollows
<1>5. QED
  BY <1>2, <1>3, <1>4

-----------------------------------------------------------------------------
(* The words of the dictionary.                                            *)

\* The jumps of a word that is finished.
Follows(word) == word.spoiled \/ \A i : IsJump(word, i) => Done(word, i, Len(word.code))

WordOk(dict, w) == IsWord(dict[w]) /\ CellsOk(dict, w, dict[w].code) /\ Follows(dict[w])
WordsOk(dict) == IsSeq(dict) /\ \A w \in 1..Len(dict) : WordOk(dict, w)

\* What runs is in the dictionary.
IsFrame(f) == f = [word |-> f.word, at |-> f.at, loops |-> f.loops]
FrameIn(dict, f) == IsFrame(f) /\ f.word \in 1..Len(dict)
RunsIn(dict, list) == IsSeq(list) /\ \A k \in 1..Len(list) : FrameIn(dict, list[k])

TracedOk ==
  WordsOk(dictionary) /\ (mode = "compile" => NewTraced) /\ RunsIn(dictionary, running)

\* Variables stay variables.
Keeps(dict, dict2, n) == \A v \in 1..n : Simple(dict[v]) => Simple(dict2[v])

LEMMA CellsIn ==
  ASSUME NEW dict, NEW dict2, NEW w \in Nat, NEW code, CellsOk(dict, w, code),
         NEW n \in Nat, Keeps(dict, dict2, n), w - 1 <= n
  PROVE  CellsOk(dict2, w, code)
<1>1. SUFFICES ASSUME NEW p \in 1..Len(code), code[p].handler \in {"call", "var_set"}
               PROVE  CallOk(dict2, w, code, p)
  BY DEF CellsOk
<1>2. PICK v : v = code[p + 1].value
  OBVIOUS
<1>3. /\ p + 1 \in 1..Len(code) /\ v \in 1..(w - 1)
      /\ code[p].handler = "var_set" => Simple(dict[v])
  BY <1>1, <1>2 DEF CellsOk, CallOk
<1>4. v \in 1..n
  BY <1>3
<1>5. code[p].handler = "var_set" => Simple(dict2[v])
  BY <1>3, <1>4 DEF Keeps
<1>6. QED
  BY <1>2, <1>3, <1>5 DEF CallOk

LEMMA WordsGrow ==
  ASSUME NEW dict, NEW dict2, WordsOk(dict), IsSeq(dict2), Len(dict2) >= Len(dict),
         \A w \in 1..Len(dict) : dict2[w] = dict[w],
         \A w \in (Len(dict) + 1)..Len(dict2) : WordOk(dict2, w)
  PROVE  WordsOk(dict2)
<1>1. Len(dict) \in Nat /\ Len(dict2) \in Nat
  BY IsSeqFacts DEF WordsOk
<1>2. PICK n \in Nat : n = Len(dict)
  BY <1>1
<1>3. Keeps(dict, dict2, n)
  BY <1>2 DEF Keeps
<1>4. ASSUME NEW w \in 1..n
      PROVE  WordOk(dict2, w)
  <2>1. PICK word : word = dict[w]
    OBVIOUS
  <2>2. dict2[w] = word /\ IsWord(word) /\ CellsOk(dict, w, word.code) /\ Follows(word)
    BY <1>2, <2>1 DEF WordsOk, WordOk
  <2>3. w \in Nat /\ w - 1 <= n
    BY <1>2
  <2>4. CellsOk(dict2, w, word.code)
    BY <1>3, <2>2, <2>3, CellsIn
  <2>5. QED
    BY <2>2, <2>4 DEF WordOk
<1>5. \A w \in 1..Len(dict2) : w \in 1..n \/ w \in (Len(dict) + 1)..Len(dict2)
  BY <1>1, <1>2
<1>6. QED
  BY <1>4, <1>5 DEF WordsOk

LEMMA WordsShrink ==
  ASSUME NEW dict, WordsOk(dict), NEW n \in 0..Len(dict)
  PROVE  WordsOk(SubSeq(dict, 1, n))
<1>1. IsSeq(dict) /\ Len(dict) \in Nat /\ n \in Nat
  BY IsSeqFacts DEF WordsOk
<1>2. PICK d : d = SubSeq(dict, 1, n)
  OBVIOUS
<1>3. IsSeq(d) /\ Len(d) = n /\ \A k \in 1..n : d[k] = dict[k]
  BY <1>1, <1>2, Before
<1>4. ASSUME NEW w \in 1..n
      PROVE  WordOk(d, w)
  <2>1. PICK word : word = dict[w]
    OBVIOUS
  <2>2. d[w] = word /\ IsWord(word) /\ CellsOk(dict, w, word.code) /\ Follows(word)
    BY <1>1, <1>3, <2>1 DEF WordsOk, WordOk
  <2>3. w \in Nat /\ w - 1 <= n
    BY <1>1
  <2>4. Keeps(dict, d, n)
    BY <1>3 DEF Keeps
  <2>5. CellsOk(d, w, word.code)
    BY <1>1, <2>2, <2>3, <2>4, CellsIn
  <2>6. QED
    BY <2>2, <2>5 DEF WordOk
<1>5. QED
  BY <1>2, <1>3, <1>4 DEF WordsOk

-----------------------------------------------------------------------------
(* Definitions.                                                            *)

LEMMA BlankIs ==
  ASSUME NEW name, NEW w, w = Blank(name)
  PROVE  /\ IsWord(w) /\ w.code = <<>> /\ w.source = <<>> /\ w.first = <<>>
         /\ w.spoiled = FALSE
<1>1. w = [name |-> name, code |-> <<>>, source |-> <<>>, first |-> <<>>, spoiled |-> FALSE]
  BY DEF Blank
<1>2. PICK n, e, f : n = name /\ e = <<>> /\ f = FALSE
  OBVIOUS
<1>3. w = [name |-> n, code |-> e, source |-> e, first |-> e, spoiled |-> f]
  BY <1>1, <1>2
<1>4. w.name = n /\ w.code = e /\ w.source = e /\ w.first = e /\ w.spoiled = f
  BY <1>3
<1>5. w = [name |-> w.name, code |-> w.code, source |-> w.source,
           first |-> w.first, spoiled |-> w.spoiled]
  BY <1>3, <1>4
<1>6. IsSeq(e) /\ IsCode(e)
  BY <1>2, EmptyIs DEF IsCode
<1>7. IsWord(w)
  BY <1>4, <1>5, <1>6 DEF IsWord
<1>8. QED
  BY <1>2, <1>4, <1>7

\* Nothing is written yet.
LEMMA NothingDrawn ==
  ASSUME NEW word, NEW e, Len(e) = 0, word.code = e, word.source = e, word.first = e,
         NEW leaves, leaves = [n \in 0..2 |-> {}]
  PROVE  Drawn(word, e, -1, leaves)
<1>1. PICK t, ins : t = [q \in 1..0 |-> 0] /\ ins = [q \in 0..0 |-> 0]
  OBVIOUS
<1>2. \A i : ~IsJump(word, i)
  BY DEF IsJump
<1>3. \A i \in 1..0 : FALSE
  OBVIOUS
<1>4. Placed(word)
  <2>1. /\ Len(word.first) = Len(word.source)
        /\ \A i \in 1..Len(word.source) : FALSE
    OBVIOUS
  <2>2. QED
    BY <1>2, <2>1 DEF Placed
<1>5. Stacked(word, e, t)
  <2>1. PICK src : src = word.source
    OBVIOUS
  <2>2. Len(src) = 0 /\ Depth(src, 0) = 0 /\ Lev(src, t, 0) = 0
    BY <2>1, NoDepth DEF Lev
  <2>3. Depth(src, Len(src)) = Lev(src, t, Len(e))
    BY <2>2
  <2>4. t \in [1..0 -> Nat]
    BY <1>1
  <2>5. QED
    BY <1>3, <2>1, <2>3, <2>4 DEF Stacked
<1>6. Opened(word, e, t) /\ InCase(word, e, t)
  BY <1>3 DEF Opened, InCase
<1>7. Loops(e, ins) /\ ins[0] = 0
  <2>1. ins \in [0..0 -> Nat] /\ ins[0] = 0
    BY <1>1
  <2>2. \A p, q \in 0..0 : p <= q => ins[p] <= ins[q]
    BY <2>1
  <2>3. QED
    BY <1>3, <2>1, <2>2 DEF Loops
<1>8. Pending(word, e, leaves, t)
  BY <1>2 DEF Pending
<1>9. Leaves(word, e, leaves, -1, t, ins)
  <2>1. -1 + 1 = ins[Len(e)] /\ \A x \in 0..2 : leaves[x] = {}
    BY <1>7
  <2>2. QED
    BY <2>1 DEF Leaves
<1>10. Traced(word, e, leaves, -1, t, ins)
  BY <1>4, <1>5, <1>6, <1>7, <1>8, <1>9 DEF Traced
<1>11. Traces(word, e, leaves, -1)
  BY <1>10 DEF Traces
<1>12. leaves \in [0..2 -> SUBSET Int] /\ -1 \in -1..2
  OBVIOUS
<1>13. QED
  BY <1>11, <1>12 DEF Drawn

LEMMA BeginFollows ==
  ASSUME NEW x, start_word(x)
  PROVE  NewTraced'
<1>1. PICK dict, w, e, leaves :
        dict = dictionary' /\ w = Blank(<<x>>) /\ e = <<>> /\ leaves = [n \in 0..2 |-> {}]
  OBVIOUS
<1>2. /\ dict = dictionary' /\ w = new' /\ e = conditions'
      /\ -1 = do_index2' /\ leaves = leave_words'
  BY <1>1 DEF start_word
<1>3. IsWord(w) /\ w.code = e /\ w.source = e /\ w.first = e /\ w.spoiled = FALSE
  BY <1>1, BlankIs
<1>4. IsSeq(e) /\ Len(e) = 0
  BY <1>1, EmptyIs
<1>5. Drawn(w, e, -1, leaves)
  BY <1>1, <1>3, <1>4, NothingDrawn
<1>6. CellsOk(dict, Len(dict) + 1, w.code)
  BY <1>3, <1>4 DEF CellsOk
<1>7. NewOk(dict, w, e, -1, leaves)
  BY <1>3, <1>4, <1>5, <1>6 DEF NewOk
<1>8. QED
  BY <1>2, <1>7, ThenTraced

\* ";": the jumps go to the end of the code, or into it.
Closed(word, word2) ==
  /\ word2.source = word.source /\ word2.first = word.first
  /\ word2.spoiled = word.spoiled
  /\ IsCode(word2.code) /\ Len(word.code) \in Nat /\ Len(word2.code) = Len(word.code) + 1
  /\ \A p \in 1..Len(word.code) : word2.code[p] = word.code[p]
  /\ word2.code[Len(word.code) + 1].handler = "exit"

LEMMA ClosedDone ==
  ASSUME NEW word, NEW word2, Closed(word, word2), Placed(word),
         NEW i, IsJump(word, i), Done(word, i, Len(word.code) + 1)
  PROVE  Done(word2, i, Len(word2.code))
<1>1. /\ word2.source = word.source /\ word2.first = word.first
      /\ Len(word.code) \in Nat /\ Len(word2.code) = Len(word.code) + 1
      /\ \A p \in 1..Len(word.code) : word2.code[p] = word.code[p]
  BY DEF Closed
<1>2. OperandOf(word2, i) = OperandOf(word, i)
  BY <1>1 DEF OperandOf
<1>3. word2.code[OperandOf(word, i)] = word.code[OperandOf(word, i)]
  <2>1. Hook(word.code, OperandOf(word, i))
    BY DEF Placed
  <2>2. OperandOf(word, i) \in 1..Len(word.code)
    BY <1>1, <2>1 DEF Hook
  <2>3. QED
    BY <1>1, <2>2
<1>4. PICK j \in 1..Len(word.source) :
        /\ Aim(word.source, i, j)
        /\ word.code[OperandOf(word, i)].value + 1 = Landing(word, i, j, Len(word.code) + 1)
  BY DEF Done
<1>5. Landing(word2, i, j, Len(word2.code)) = Landing(word, i, j, Len(word.code) + 1)
  BY <1>1 DEF Landing, AfterWord
<1>6. QED
  BY <1>1, <1>2, <1>3, <1>4, <1>5 DEF Done

\* No structure is open: no jump waits.
LEMMA ClosedFollows ==
  ASSUME NEW word, NEW word2, Closed(word, word2), NEW list, Len(list) = 0,
         NEW loops, NEW leaves, word.spoiled \/ Drawn(word, list, loops, leaves)
  PROVE  Follows(word2)
<1>1. CASE word.spoiled
  BY <1>1 DEF Closed, Follows
<1>2. CASE Drawn(word, list, loops, leaves)
  <2>1. PICK t, ins : Traced(word, list, leaves, loops, t, ins)
    BY <1>2 DEF Drawn, Traces
  <2>2. /\ Placed(word) /\ Pending(word, list, leaves, t) /\ Loops(list, ins)
        /\ Leaves(word, list, leaves, loops, t, ins)
    BY <2>1 DEF Traced
  <2>3. \A x \in 0..2 : leaves[x] = {}
    <3>1. loops + 1 = 0 /\ loops \in -1..2
      BY <1>2, <2>2 DEF Leaves, Loops, Drawn
    <3>2. \A x \in 0..2 : x > loops
      BY <3>1
    <3>3. QED
      BY <2>2, <3>2 DEF Leaves
  <2>4. ASSUME NEW i, IsJump(word2, i)
        PROVE  Done(word2, i, Len(word2.code))
    <3>1. IsJump(word, i)
      BY <2>4 DEF IsJump, Closed
    <3>2. Done(word, i, Len(word.code) + 1)
      BY <2>2, <2>3, <3>1 DEF Pending
    <3>3. QED
      BY <2>2, <3>1, <3>2, ClosedDone
  <2>5. QED
    BY <2>4 DEF Follows
<1>3. QED
  BY <1>1, <1>2

LEMMA ClosedCells ==
  ASSUME NEW dict, NEW w, NEW word, NEW word2, Closed(word, word2), CellsOk(dict, w, word.code)
  PROVE  CellsOk(dict, w, word2.code)
<1>1. PICK code, c : code = word.code /\ c = word2.code
  OBVIOUS
<1>2. /\ Len(code) \in Nat /\ Len(c) = Len(code) + 1
      /\ \A p \in 1..Len(code) : c[p] = code[p]
      /\ c[Len(code) + 1].handler = "exit"
  BY <1>1 DEF Closed
<1>3. SUFFICES ASSUME NEW p \in 1..Len(c), c[p].handler \in {"call", "var_set"}
               PROVE  CallOk(dict, w, c, p)
  BY <1>1 DEF CellsOk
<1>4. p \in 1..Len(code)
  <2>1. p # Len(code) + 1
    BY <1>2, <1>3
  <2>2. QED
    BY <1>2, <2>1
<1>5. CallOk(dict, w, code, p)
  BY <1>1, <1>2, <1>3, <1>4 DEF CellsOk
<1>6. p + 1 \in 1..Len(code) /\ p + 1 \in 1..Len(c) /\ c[p] = code[p] /\ c[p + 1] = code[p + 1]
  BY <1>2, <1>4, <1>5 DEF CallOk
<1>7. QED
  BY <1>5, <1>6 DEF CallOk

\* The word that ";" puts into the dictionary.
LEMMA ClosedIs ==
  ASSUME NEW word, IsWord(word), NEW word2,
         word2 = [word EXCEPT !.code = Append(@, cell("exit"))]
  PROVE  Closed(word, word2) /\ IsWord(word2)
<1>1. PICK last : last = cell("exit")
  OBVIOUS
<1>2. PICK pc, code : pc = word.code /\ code = Append(pc, last)
  OBVIOUS
<1>3. IsCell(last) /\ last.handler = "exit"
  BY <1>1, CellsAre
<1>4. IsCode(pc) /\ IsSeq(pc) /\ Len(pc) \in Nat
  BY <1>2, IsSeqFacts DEF IsWord, IsCode
<1>5. /\ IsSeq(code) /\ Len(code) = Len(pc) + 1 /\ code[Len(pc) + 1] = last
      /\ \A n \in 1..Len(pc) : code[n] = pc[n]
  BY <1>2, <1>4, Added
<1>6. IsCode(code)
  <2>1. \A n \in 1..Len(code) : n \in 1..Len(pc) \/ n = Len(pc) + 1
    BY <1>4, <1>5
  <2>2. QED
    BY <1>3, <1>4, <1>5, <2>1 DEF IsCode, IsCell
<1>7. /\ word2.code = code /\ word2.source = word.source /\ word2.first = word.first
      /\ word2.spoiled = word.spoiled
      /\ word2 = [name |-> word2.name, code |-> word2.code, source |-> word2.source,
                  first |-> word2.first, spoiled |-> word2.spoiled]
  <2>1. word = [name |-> word.name, code |-> word.code, source |-> word.source,
                first |-> word.first, spoiled |-> word.spoiled]
    BY DEF IsWord
  <2>2. PICK n, c, s, f, sp : word = [name |-> n, code |-> c, source |-> s, first |-> f,
                                      spoiled |-> sp]
    BY <2>1
  <2>3. word2 = [name |-> n, code |-> Append(c, cell("exit")), source |-> s, first |-> f,
                 spoiled |-> sp]
    BY <2>2
  <2>4. code = Append(c, cell("exit"))
    BY <1>1, <1>2, <2>2
  <2>5. QED
    BY <2>2, <2>3, <2>4
<1>8. IsWord(word2)
  BY <1>6, <1>7 DEF IsWord
<1>9. QED
  BY <1>2, <1>3, <1>4, <1>5, <1>6, <1>7, <1>8 DEF Closed

\* One more word in the dictionary.
LEMMA WordAdded ==
  ASSUME NEW dict, WordsOk(dict), NEW word, IsWord(word), Follows(word),
         CellsOk(dict, Len(dict) + 1, word.code)
  PROVE  WordsOk(Append(dict, word)) /\ Len(Append(dict, word)) = Len(dict) + 1
<1>1. IsSeq(dict) /\ Len(dict) \in Nat
  BY IsSeqFacts DEF WordsOk
<1>2. PICK n, d : n = Len(dict) /\ d = Append(dict, word)
  OBVIOUS
<1>3. IsSeq(d) /\ Len(d) = n + 1 /\ d[n + 1] = word /\ \A w \in 1..n : d[w] = dict[w]
  BY <1>1, <1>2, Added
<1>4. CellsOk(d, n + 1, word.code)
  <2>1. n \in Nat /\ n + 1 \in Nat /\ (n + 1) - 1 <= n
    BY <1>1, <1>2
  <2>2. Keeps(dict, d, n)
    BY <1>3 DEF Keeps
  <2>3. QED
    BY <1>2, <2>1, <2>2, CellsIn
<1>5. WordOk(d, n + 1)
  BY <1>3, <1>4 DEF WordOk
<1>6. /\ Len(d) >= Len(dict) /\ \A w \in 1..Len(dict) : d[w] = dict[w]
      /\ \A w \in (Len(dict) + 1)..Len(d) : w = n + 1
  BY <1>1, <1>2, <1>3
<1>7. WordsOk(d)
  BY <1>3, <1>5, <1>6, WordsGrow
<1>8. QED
  BY <1>2, <1>3, <1>7

LEMMA EndFollows ==
  ASSUME WordsOk(dictionary), NewTraced, end_word
  PROVE  WordsOk(dictionary)'
<1>1. \/ /\ conditions = <<>>
         /\ dictionary' = Append(dictionary, [new EXCEPT !.code = Append(@, cell("exit"))])
      \/ dictionary' = dictionary
  BY DEF end_word
<1>2. CASE dictionary' = dictionary
  BY <1>2
<1>3. CASE /\ conditions = <<>>
           /\ dictionary' = Append(dictionary, [new EXCEPT !.code = Append(@, cell("exit"))])
  <2>1. PICK word, word2, list, loops, leaves, dict :
          /\ word = new /\ word2 = [word EXCEPT !.code = Append(@, cell("exit"))]
          /\ list = conditions /\ loops = do_index2 /\ leaves = leave_words
          /\ dict = dictionary
    OBVIOUS
  <2>2. NewOk(dict, word, list, loops, leaves) /\ dictionary' = Append(dict, word2)
    BY <1>3, <2>1 DEF NewTraced
  <2>3. Len(list) = 0
    BY <1>3, <2>1, EmptyIs
  <2>4. /\ IsWord(word) /\ CellsOk(dict, Len(dict) + 1, word.code)
        /\ word.spoiled \/ Drawn(word, list, loops, leaves)
    BY <2>2 DEF NewOk
  <2>5. Closed(word, word2) /\ IsWord(word2)
    BY <2>1, <2>4, ClosedIs
  <2>6. Follows(word2)
    BY <2>3, <2>4, <2>5, ClosedFollows
  <2>7. CellsOk(dict, Len(dict) + 1, word2.code)
    BY <2>4, <2>5, ClosedCells
  <2>8. WordsOk(Append(dict, word2))
    BY <2>1, <2>5, <2>6, <2>7, WordAdded
  <2>9. QED
    BY <2>2, <2>8
<1>4. QED
  BY <1>1, <1>2, <1>3

\* The code of a constant, and of the two words of a variable.
LEMMA ThreeAre ==
  ASSUME NEW a, NEW b, NEW c, NEW code, Three(a, b, c, code)
  PROVE  IsCode(code) /\ Len(code) = 3 /\ code[1] = a /\ code[2] = b /\ code[3] = c
<1>1. PICK t : t = <<a, b>>
  OBVIOUS
<1>2. IsSeq(t) /\ Len(t) = 2 /\ t[1] = a /\ t[2] = b
  <2>1. t \in Seq({a, b}) /\ Len(t) = 2 /\ t[1] = a /\ t[2] = b
    BY <1>1
  <2>2. QED
    BY <2>1, SeqIs
<1>3. code = Append(t, c) /\ IsCell(a) /\ IsCell(b) /\ IsCell(c)
  BY <1>1 DEF Three
<1>4. /\ IsSeq(code) /\ Len(code) = Len(t) + 1 /\ code[Len(t) + 1] = c
      /\ \A n \in 1..Len(t) : code[n] = t[n]
  <2>1. IsSeq(t) /\ code = Append(t, c)
    BY <1>2, <1>3
  <2>2. QED
    BY ONLY <2>1, Added
<1>5. Len(code) = 3 /\ code[1] = a /\ code[2] = b /\ code[3] = c
  BY <1>2, <1>4
<1>6. \A n \in 1..3 : n = 1 \/ n = 2 \/ n = 3
  OBVIOUS
<1>7. IsCode(code)
  BY <1>3, <1>4, <1>5, <1>6 DEF IsCode, IsCell
<1>8. QED
  BY <1>5, <1>7

LEMMA DefinedFollows ==
  ASSUME NEW name, NEW code, NEW word, word = Defined(name, code),
         IsCode(Append(code, cell("exit")))
  PROVE  /\ IsWord(word) /\ word.code = Append(code, cell("exit")) /\ word.source = <<>>
         /\ Follows(word)
<1>1. IsWord(word) /\ word.code = Append(code, cell("exit"))
  BY DefinedIs
<1>2. word.source = <<>>
  <2>1. PICK blank : blank = Blank(name)
    OBVIOUS
  <2>2. blank = [name |-> name, code |-> <<>>, source |-> <<>>, first |-> <<>>,
                 spoiled |-> FALSE]
    BY <2>1 DEF Blank
  <2>3. word = [blank EXCEPT !.code = Append(code, cell("exit"))]
    BY <2>1 DEF Defined
  <2>4. word.source = blank.source
    BY <2>2, <2>3
  <2>5. QED
    BY <2>2, <2>4
<1>3. \A i : ~IsJump(word, i)
  BY <1>2, EmptyIs DEF IsJump
<1>4. QED
  BY <1>1, <1>2, <1>3 DEF Follows

\* The word with the value of a constant or a variable.
LEMMA ValueIs ==
  ASSUME NEW name, NEW v, NEW word,
         word = Defined(name, <<cell("lit"), operand(v)>>), NEW dict, NEW w
  PROVE  IsWord(word) /\ Follows(word) /\ Simple(word) /\ CellsOk(dict, w, word.code)
<1>1. PICK a, b, c, code : /\ a = cell("lit") /\ b = operand(v) /\ c = cell("exit")
                           /\ code = Append(<<a, b>>, c)
  OBVIOUS
<1>2. /\ IsCell(a) /\ IsCell(b) /\ IsCell(c)
      /\ a.handler = "lit" /\ b.handler = "operand" /\ c.handler = "exit"
  BY <1>1, CellsAre
<1>3. Three(a, b, c, code)
  BY <1>1, <1>2 DEF Three
<1>4. IsCode(code) /\ Len(code) = 3 /\ code[1] = a /\ code[2] = b /\ code[3] = c
  BY <1>3, ThreeAre
<1>5. IsWord(word) /\ word.code = code /\ word.source = <<>> /\ Follows(word)
  BY <1>1, <1>4, DefinedFollows
<1>6. Simple(word)
  BY <1>2, <1>4, <1>5 DEF Simple, IsVariable
<1>7. CellsOk(dict, w, code)
  <2>1. \A p \in 1..3 : p = 1 \/ p = 2 \/ p = 3
    OBVIOUS
  <2>2. QED
    BY <1>2, <1>4, <2>1 DEF CellsOk
<1>8. QED
  BY <1>5, <1>6, <1>7

LEMMA ConstantFollows ==
  ASSUME WordsOk(dictionary), NEW x, constant(x)
  PROVE  WordsOk(dictionary)'
<1>1. PICK dict, word : /\ dict = dictionary
                        /\ word = Defined(<<x>>, <<cell("lit"), operand(Head(data_stack))>>)
  OBVIOUS
<1>2. dictionary' = Append(dict, word)
  BY <1>1 DEF constant
<1>3. IsWord(word) /\ Follows(word) /\ CellsOk(dict, Len(dict) + 1, word.code)
  BY <1>1, ValueIs
<1>4. WordsOk(Append(dict, word))
  BY <1>1, <1>3, WordAdded
<1>5. QED
  BY <1>2, <1>4

LEMMA TwoAppended ==
  ASSUME NEW s, IsSeq(s), NEW a, NEW b
  PROVE  s \o <<a, b>> = Append(Append(s, a), b)
<1>1. PICK t, d, e, f : /\ t = <<a, b>> /\ d = s \o t
                        /\ e = Append(s, a) /\ f = Append(e, b)
  OBVIOUS
<1>2. IsSeq(t) /\ Len(t) = 2 /\ t[1] = a /\ t[2] = b
  <2>1. t \in Seq({a, b}) /\ Len(t) = 2 /\ t[1] = a /\ t[2] = b
    BY <1>1
  <2>2. QED
    BY <2>1, SeqIs
<1>3. PICK m : m = Len(s)
  OBVIOUS
<1>4. /\ IsSeq(d) /\ Len(d) = m + Len(t)
      /\ \A n \in 1..m : d[n] = s[n]
      /\ \A n \in 1..Len(t) : d[m + n] = t[n]
  BY <1>1, <1>2, <1>3, Joined
<1>5. IsSeq(e) /\ Len(e) = m + 1 /\ e[m + 1] = a /\ \A n \in 1..m : e[n] = s[n]
  BY <1>1, <1>3, Added
<1>6. /\ IsSeq(f) /\ Len(f) = Len(e) + 1 /\ f[Len(e) + 1] = b
      /\ \A n \in 1..Len(e) : f[n] = e[n]
  BY <1>1, <1>5, Added
<1>7. m \in Nat
  BY <1>3, IsSeqFacts
<1>8. d[m + 1] = a /\ d[m + 2] = b /\ Len(d) = m + 2
  <2>1. 1 \in 1..Len(t) /\ 2 \in 1..Len(t)
    BY <1>2
  <2>2. QED
    BY <1>2, <1>4, <2>1
<1>9. f[m + 1] = a /\ f[m + 2] = b /\ Len(f) = m + 2
  BY <1>5, <1>6, <1>7
<1>10. ASSUME NEW n \in 1..(m + 2)
       PROVE  d[n] = f[n]
  <2>1. n \in 1..m \/ n = m + 1 \/ n = m + 2
    BY <1>7
  <2>2. n \in 1..m => f[n] = s[n]
    BY <1>5, <1>6, <1>7
  <2>3. QED
    BY <1>4, <1>8, <1>9, <2>1, <2>2
<1>11. d = [n \in 1..(m + 2) |-> d[n]] /\ f = [n \in 1..(m + 2) |-> f[n]]
  BY <1>4, <1>6, <1>8, <1>9, IsSeqFacts
<1>12. d = f
  BY <1>10, <1>11
<1>13. QED
  BY <1>1, <1>12

LEMMA VariableFollows ==
  ASSUME WordsOk(dictionary), NEW x, variable(x)
  PROVE  WordsOk(dictionary)'
<1>1. PICK garbage :
        dictionary' = dictionary \o
          <<Defined(<<x, "@">>, <<cell("lit"), operand(garbage)>>),
            Defined(<<x, "!">>, <<cell("var_set"), operand(Len(dictionary) + 1)>>)>>
  BY DEF variable
<1>2. PICK dict, u, word, word2 :
        /\ dict = dictionary /\ u = Len(dict) + 1
        /\ word = Defined(<<x, "@">>, <<cell("lit"), operand(garbage)>>)
        /\ word2 = Defined(<<x, "!">>, <<cell("var_set"), operand(u)>>)
  OBVIOUS
<1>3. PICK d : d = Append(dict, word)
  OBVIOUS
<1>4. IsSeq(dict) /\ Len(dict) \in Nat
  BY <1>2, IsSeqFacts DEF WordsOk
<1>5. dictionary' = Append(d, word2)
  <2>1. dictionary' = dict \o <<word, word2>>
    BY <1>1, <1>2
  <2>2. QED
    BY <1>3, <1>4, <2>1, TwoAppended
<1>6. IsWord(word) /\ Follows(word) /\ Simple(word) /\ CellsOk(dict, Len(dict) + 1, word.code)
  BY <1>2, ValueIs
<1>7. WordsOk(d) /\ Len(d) = u
  BY <1>2, <1>3, <1>6, WordAdded
<1>8. d[u] = word
  BY <1>2, <1>3, <1>4, Added
<1>9. PICK a, b, c, code : /\ a = cell("var_set") /\ b = operand(u) /\ c = cell("exit")
                           /\ code = Append(<<a, b>>, c)
  OBVIOUS
<1>10. /\ IsCell(a) /\ IsCell(b) /\ IsCell(c) /\ b.value = u
       /\ a.handler = "var_set" /\ b.handler = "operand" /\ c.handler = "exit"
  BY <1>9, CellsAre
<1>11. Three(a, b, c, code)
  BY <1>9, <1>10 DEF Three
<1>12. IsCode(code) /\ Len(code) = 3 /\ code[1] = a /\ code[2] = b /\ code[3] = c
  BY <1>11, ThreeAre
<1>13. IsWord(word2) /\ word2.code = code /\ Follows(word2)
  <2>1. PICK name, two : name = <<x, "!">> /\ two = <<a, b>>
    OBVIOUS
  <2>2. word2 = Defined(name, two) /\ code = Append(two, cell("exit"))
    BY <1>2, <1>9, <2>1
  <2>3. IsCode(Append(two, cell("exit")))
    BY <1>12, <2>2
  <2>4. IsWord(word2) /\ word2.code = Append(two, cell("exit")) /\ Follows(word2)
    BY <2>2, <2>3, DefinedFollows
  <2>5. QED
    BY <2>2, <2>4
<1>14. CellsOk(d, u + 1, code)
  <2>1. \A p \in 1..3 : p = 1 \/ p = 2 \/ p = 3
    OBVIOUS
  <2>2. CallOk(d, u + 1, code, 1)
    <3>1. 1 + 1 \in 1..Len(code) /\ code[1 + 1].value = u
      BY <1>10, <1>12
    <3>2. u \in 1..((u + 1) - 1)
      BY <1>2, <1>4
    <3>3. Simple(d[u])
      BY <1>6, <1>8
    <3>4. QED
      BY <3>1, <3>2, <3>3 DEF CallOk
  <2>3. QED
    BY <1>10, <1>12, <2>1, <2>2 DEF CellsOk
<1>15. CellsOk(d, Len(d) + 1, word2.code)
  BY <1>7, <1>13, <1>14
<1>16. WordsOk(Append(d, word2))
  BY <1>7, <1>13, <1>15, WordAdded
<1>17. QED
  BY <1>5, <1>16

LEMMA ForgetFollows ==
  ASSUME WordsOk(dictionary), NEW name, forget(name)
  PROVE  WordsOk(dictionary)'
<1>1. IsSeq(dictionary) /\ DOMAIN dictionary = 1..Len(dictionary) /\ Len(dictionary) \in Nat
  BY IsSeqFacts DEF WordsOk
<1>2. CASE WordsNamed(name) = {}
  BY <1>2 DEF forget
<1>3. CASE WordsNamed(name) # {}
  <2>1. WordsNamed(name) \subseteq 1..Len(dictionary)
    BY <1>1 DEF WordsNamed
  <2>2. Max(WordsNamed(name)) \in 1..Len(dictionary)
    BY <1>1, <1>3, <2>1, MaxIs
  <2>3. PICK n, dict : n = Max(WordsNamed(name)) - 1 /\ dict = dictionary
    OBVIOUS
  <2>4. n \in 0..Len(dict) /\ dictionary' = SubSeq(dict, 1, n)
    BY <1>1, <1>3, <2>2, <2>3 DEF forget
  <2>5. WordsOk(SubSeq(dict, 1, n))
    BY <2>3, <2>4, WordsShrink
  <2>6. QED
    BY <2>4, <2>5
<1>4. QED
  BY <1>2, <1>3

LEMMA NoWords ==
  ASSUME NEW dict, dict = <<>>
  PROVE  WordsOk(dict)
BY EmptyIs DEF WordsOk

-----------------------------------------------------------------------------
(* The words that run stay words of the dictionary, broken or not.         *)

LEMMA FrameMoved ==
  ASSUME NEW dict, NEW f, FrameIn(dict, f), NEW x, NEW g, g = [f EXCEPT !.at = x]
  PROVE  FrameIn(dict, g)
<1>1. PICK w, a, l : f = [word |-> w, at |-> a, loops |-> l]
  BY DEF FrameIn, IsFrame
<1>2. g = [word |-> w, at |-> x, loops |-> l] /\ f.word = w /\ w \in 1..Len(dict)
  BY <1>1 DEF FrameIn
<1>3. QED
  BY <1>2 DEF FrameIn, IsFrame

LEMMA RunsOnTop ==
  ASSUME NEW dict, NEW list, RunsIn(dict, list), NEW f, FrameIn(dict, f)
  PROVE  RunsIn(dict, <<f>> \o list)
<1>1. PICK t : t = <<f>> \o list
  OBVIOUS
<1>2. IsSeq(list) /\ Len(list) \in Nat /\ \A k \in 1..Len(list) : FrameIn(dict, list[k])
  BY IsSeqFacts DEF RunsIn
<1>3. IsSeq(t) /\ Len(t) = Len(list) + 1 /\ t[1] = f /\ \A k \in 1..Len(list) : t[k + 1] = list[k]
  BY <1>1, <1>2, OnTop
<1>4. ASSUME NEW k \in 1..Len(t)
      PROVE  FrameIn(dict, t[k])
  <2>1. CASE k = 1
    BY <1>3, <2>1
  <2>2. CASE k # 1
    <3>1. k - 1 \in 1..Len(list) /\ (k - 1) + 1 = k
      BY <1>2, <1>3, <2>2
    <3>2. t[k] = list[k - 1]
      BY <1>3, <3>1
    <3>3. QED
      BY <1>2, <3>1, <3>2
  <2>3. QED
    BY <2>1, <2>2
<1>5. QED
  BY <1>1, <1>3, <1>4 DEF RunsIn

LEMMA RunsBelow ==
  ASSUME NEW dict, NEW list, RunsIn(dict, list), list # <<>>
  PROVE  RunsIn(dict, Tail(list)) /\ FrameIn(dict, Head(list))
<1>1. IsSeq(list) /\ Len(list) \in Nat /\ \A k \in 1..Len(list) : FrameIn(dict, list[k])
  BY IsSeqFacts DEF RunsIn
<1>2. PICK t : t = Tail(list)
  OBVIOUS
<1>3. /\ Len(list) > 0 /\ Head(list) = list[1] /\ IsSeq(t) /\ Len(t) = Len(list) - 1
      /\ \A k \in 1..(Len(list) - 1) : t[k] = list[k + 1]
  BY <1>1, <1>2, RestIs
<1>4. ASSUME NEW k \in 1..Len(t)
      PROVE  FrameIn(dict, t[k])
  <2>1. k + 1 \in 1..Len(list) /\ t[k] = list[k + 1]
    BY <1>1, <1>3
  <2>2. QED
    BY <1>1, <2>1
<1>5. FrameIn(dict, Head(list))
  BY <1>1, <1>3
<1>6. QED
  BY <1>2, <1>3, <1>4, <1>5 DEF RunsIn

LEMMA NoneRunsIn ==
  ASSUME NEW dict, NEW list, list = <<>>
  PROVE  RunsIn(dict, list)
BY EmptyIs DEF RunsIn

LEMMA GotoIn ==
  ASSUME NEW dict, RunsIn(dict, running), running # <<>>, NEW x, Goto(x)
  PROVE  RunsIn(dict, running')
<1>1. PICK f, t, g : f = Head(running) /\ t = Tail(running) /\ g = [f EXCEPT !.at = x]
  OBVIOUS
<1>2. FrameIn(dict, f) /\ RunsIn(dict, t)
  BY <1>1, RunsBelow
<1>3. FrameIn(dict, g)
  BY <1>1, <1>2, FrameMoved
<1>4. RunsIn(dict, <<g>> \o t)
  BY <1>2, <1>3, RunsOnTop
<1>5. running' = <<g>> \o t
  BY <1>1 DEF Goto, Frame
<1>6. QED
  BY <1>4, <1>5

LEMMA TwoOnTop ==
  ASSUME NEW a, NEW b, NEW s, IsSeq(s)
  PROVE  <<a, b>> \o s = <<a>> \o (<<b>> \o s)
<1>1. PICK t, d, e, f : /\ t = <<a, b>> /\ d = t \o s
                        /\ e = <<b>> \o s /\ f = <<a>> \o e
  OBVIOUS
<1>2. IsSeq(t) /\ Len(t) = 2 /\ t[1] = a /\ t[2] = b
  <2>1. t \in Seq({a, b}) /\ Len(t) = 2 /\ t[1] = a /\ t[2] = b
    BY <1>1
  <2>2. QED
    BY <2>1, SeqIs
<1>3. PICK m : m = Len(s)
  OBVIOUS
<1>4. m \in Nat
  BY <1>3, IsSeqFacts
<1>5. /\ IsSeq(d) /\ Len(d) = Len(t) + m
      /\ \A n \in 1..Len(t) : d[n] = t[n]
      /\ \A n \in 1..m : d[Len(t) + n] = s[n]
  BY <1>1, <1>2, <1>3, Joined
<1>6. IsSeq(e) /\ Len(e) = m + 1 /\ e[1] = b /\ \A n \in 1..m : e[n + 1] = s[n]
  BY <1>1, <1>3, OnTop
<1>7. IsSeq(f) /\ Len(f) = Len(e) + 1 /\ f[1] = a /\ \A n \in 1..Len(e) : f[n + 1] = e[n]
  BY <1>1, <1>6, OnTop
<1>8. Len(d) = m + 2 /\ Len(f) = m + 2
  BY <1>2, <1>4, <1>5, <1>6, <1>7
<1>9. ASSUME NEW n \in 1..(m + 2)
      PROVE  d[n] = f[n]
  <2>1. CASE n = 1
    BY <1>2, <1>5, <1>7, <2>1
  <2>2. CASE n = 2
    <3>1. 1 \in 1..Len(e) /\ 1 + 1 = 2
      BY <1>4, <1>6
    <3>2. f[2] = e[1]
      BY <1>7, <3>1
    <3>3. QED
      BY <1>2, <1>5, <1>6, <2>2, <3>2
  <2>3. CASE n # 1 /\ n # 2
    <3>1. PICK k : k = n - 2
      OBVIOUS
    <3>2. k \in 1..m /\ n = Len(t) + k /\ k + 1 \in 1..Len(e) /\ n = (k + 1) + 1
      BY <1>2, <1>4, <1>6, <2>3, <3>1
    <3>3. d[n] = s[k] /\ f[n] = e[k + 1] /\ e[k + 1] = s[k]
      BY <1>5, <1>6, <1>7, <3>2
    <3>4. QED
      BY <3>3
  <2>4. QED
    BY <2>1, <2>2, <2>3
<1>10. d = [n \in 1..(m + 2) |-> d[n]] /\ f = [n \in 1..(m + 2) |-> f[n]]
  BY <1>5, <1>7, <1>8, IsSeqFacts
<1>11. d = f
  BY <1>9, <1>10
<1>12. QED
  BY <1>1, <1>11

\* The code of the word that runs.
LEMMA FrameCode ==
  ASSUME WordsOk(dictionary), RunsIn(dictionary, running), running # <<>>, InCode
  PROVE  /\ Frame.word \in 1..Len(dictionary) /\ FrameIn(dictionary, Frame)
         /\ Frame.at \in 1..Len(Code) /\ CellsOk(dictionary, Frame.word, Code)
<1>1. PICK dict, f : dict = dictionary /\ f = Frame
  OBVIOUS
<1>2. FrameIn(dict, f)
  BY <1>1, RunsBelow DEF Frame
<1>3. PICK w : w = f.word
  OBVIOUS
<1>4. w \in 1..Len(dict)
  BY <1>2, <1>3 DEF FrameIn
<1>5. PICK code : code = dict[w].code
  OBVIOUS
<1>6. CellsOk(dict, w, code) /\ IsWord(dict[w])
  BY <1>1, <1>4, <1>5 DEF WordsOk, WordOk
<1>7. DOMAIN code = 1..Len(code)
  BY <1>5, <1>6, IsSeqFacts DEF IsWord, IsCode
<1>8. Code = code
  BY <1>1, <1>3, <1>5 DEF Code
<1>9. f.at \in DOMAIN code
  BY <1>1, <1>8 DEF InCode
<1>10. QED
  BY <1>1, <1>2, <1>3, <1>4, <1>6, <1>7, <1>8, <1>9

LEMMA CalledIs ==
  ASSUME WordsOk(dictionary), RunsIn(dictionary, running), Executing,
         Handler \in {"call", "var_set"}
  PROVE  /\ Operand \in 1..Len(dictionary)
         /\ Handler = "var_set" => Simple(dictionary[Operand])
<1>1. running # <<>> /\ InCode
  BY DEF Executing
<1>2. PICK dict, code, w, p : /\ dict = dictionary /\ code = Code /\ w = Frame.word
                              /\ p = Frame.at
  OBVIOUS
<1>3. w \in 1..Len(dict) /\ p \in 1..Len(code) /\ CellsOk(dict, w, code)
  BY <1>1, <1>2, FrameCode
<1>4. CallOk(dict, w, code, p)
  <2>1. code[p].handler \in {"call", "var_set"}
    BY <1>2 DEF Handler
  <2>2. QED
    BY <1>3, <2>1 DEF CellsOk
<1>5. Operand = code[p + 1].value /\ Handler = code[p].handler
  BY <1>2 DEF Operand, Handler
<1>6. Len(dict) \in Nat
  BY <1>2, IsSeqFacts DEF WordsOk
<1>7. Operand \in 1..Len(dict)
  BY <1>3, <1>4, <1>5, <1>6 DEF CallOk
<1>8. QED
  BY <1>2, <1>4, <1>5, <1>7 DEF CallOk

LEMMA CallIn ==
  ASSUME WordsOk(dictionary), RunsIn(dictionary, running), RunCall
  PROVE  RunsIn(dictionary, running')
<1>1. Executing /\ Handler = "call"
  BY DEF RunCall
<1>2. running # <<>>
  BY <1>1 DEF Executing
<1>3. PICK dict, f, t, v, g, h :
        /\ dict = dictionary /\ f = Head(running) /\ t = Tail(running) /\ v = Operand
        /\ g = [word |-> v, at |-> 1, loops |-> do_index] /\ h = [f EXCEPT !.at = @ + 1]
  OBVIOUS
<1>4. FrameIn(dict, f) /\ RunsIn(dict, t)
  BY <1>2, <1>3, RunsBelow
<1>5. FrameIn(dict, h)
  <2>1. PICK x : x = f.at + 1
    OBVIOUS
  <2>2. h = [f EXCEPT !.at = x]
    BY <1>3, <2>1
  <2>3. QED
    BY <1>4, <2>2, FrameMoved
<1>6. FrameIn(dict, g)
  <2>1. v \in 1..Len(dict)
    BY <1>1, <1>3, CalledIs
  <2>2. QED
    BY <1>3, <2>1 DEF FrameIn, IsFrame
<1>7. PICK s : s = <<h>> \o t
  OBVIOUS
<1>8. RunsIn(dict, s)
  BY <1>4, <1>5, <1>7, RunsOnTop
<1>9. RunsIn(dict, <<g>> \o s)
  BY <1>6, <1>8, RunsOnTop
<1>10. running' = <<g, h>> \o t
  BY <1>3 DEF RunCall, Frame
<1>11. <<g, h>> \o t = <<g>> \o s
  BY <1>4, <1>7, TwoOnTop DEF RunsIn
<1>12. QED
  BY <1>3, <1>9, <1>10, <1>11

LEMMA ExitIn ==
  ASSUME NEW dict, RunsIn(dict, running), running # <<>>, RunExit
  PROVE  RunsIn(dict, running')
<1>1. PICK list : list = Tail(running)
  OBVIOUS
<1>2. RunsIn(dict, list)
  BY <1>1, RunsBelow
<1>3. CASE list = <<>>
  <2>1. running' = <<>>
    BY <1>1, <1>3 DEF RunExit
  <2>2. QED
    BY <2>1, NoneRunsIn
<1>4. CASE list # <<>>
  <2>1. PICK list2 : list2 = [list EXCEPT ![1].at = @ + 1]
    OBVIOUS
  <2>2. running' = list2
    BY <1>1, <1>4, <2>1 DEF RunExit
  <2>3. /\ Len(list) \in Nat /\ DOMAIN list = 1..Len(list) /\ Len(list) > 0
        /\ \A k \in 1..Len(list) : FrameIn(dict, list[k])
    BY <1>2, <1>4, IsSeqFacts, RestIs DEF RunsIn
  <2>4. PICK f, x : f = list[1] /\ x = f.at + 1
    OBVIOUS
  <2>5. PICK g : g = [f EXCEPT !.at = x]
    OBVIOUS
  <2>6. list2 = [list EXCEPT ![1] = g]
    BY <2>1, <2>4, <2>5
  <2>7. DOMAIN list2 = 1..Len(list) /\ list2[1] = g
        /\ \A k \in 1..Len(list) : k # 1 => list2[k] = list[k]
    BY <2>3, <2>6
  <2>8. IsSeq(list2) /\ Len(list2) = Len(list)
    <3>1. list2 = [n \in 1..Len(list) |-> list2[n]]
      BY <2>6, <2>7
    <3>2. QED
      BY <2>3, <3>1, FunctionIsSeq
  <2>9. FrameIn(dict, g)
    <3>1. FrameIn(dict, f)
      BY <2>3, <2>4
    <3>2. QED
      BY <2>5, <3>1, FrameMoved
  <2>10. QED
    BY <2>2, <2>3, <2>7, <2>8, <2>9 DEF RunsIn
<1>5. QED
  BY <1>3, <1>4

\* x! writes into the code of x@.
Sets(dict, dict2, v, x) ==
  v \in 1..Len(dict) /\ Simple(dict[v]) /\ dict2 = [dict EXCEPT ![v].code[2].value = x]

LEMMA SetIs ==
  ASSUME NEW dict, WordsOk(dict), NEW dict2, NEW v, NEW x, Sets(dict, dict2, v, x)
  PROVE  WordsOk(dict2) /\ Len(dict2) = Len(dict) /\ Keeps(dict, dict2, Len(dict))
<1> SUFFICES ASSUME v \in 1..Len(dict), Simple(dict[v]),
                    dict2 = [dict EXCEPT ![v].code[2].value = x]
             PROVE  WordsOk(dict2) /\ Len(dict2) = Len(dict) /\ Keeps(dict, dict2, Len(dict))
  BY DEF Sets
<1>1. /\ IsSeq(dict) /\ Len(dict) \in Nat /\ DOMAIN dict = 1..Len(dict)
      /\ \A w \in 1..Len(dict) : WordOk(dict, w)
  BY IsSeqFacts DEF WordsOk
<1>2. PICK word, code : word = dict[v] /\ code = word.code
  OBVIOUS
<1>3. IsWord(word) /\ IsCode(code) /\ IsVariable(code) /\ word.source = <<>>
  BY <1>1, <1>2 DEF WordOk, IsWord, Simple
<1>4. Len(code) = 3 /\ DOMAIN code = 1..3
  BY <1>3, IsSeqFacts DEF IsCode, IsVariable
<1>5. PICK h, y : code[2] = [handler |-> h, value |-> y]
  BY <1>3, <1>4 DEF IsCode
<1>6. PICK c, code2 : /\ c = [handler |-> h, value |-> x]
                      /\ code2 = [code EXCEPT ![2].value = x]
  OBVIOUS
<1>7. /\ DOMAIN code2 = 1..3 /\ code2[2] = c
      /\ code2[1] = code[1] /\ code2[3] = code[3]
  BY <1>4, <1>5, <1>6
<1>8. IsSeq(code2) /\ Len(code2) = 3
  <2>1. code2 = [n \in 1..3 |-> code2[n]]
    BY <1>6, <1>7
  <2>2. QED
    BY <1>7, <2>1, FunctionIsSeq
<1>9. IsCell(c) /\ c.handler = h /\ code[2].handler = h
  BY <1>5, <1>6 DEF IsCell
<1>10. \A n \in 1..3 : n = 1 \/ n = 2 \/ n = 3
  OBVIOUS
<1>11. IsCode(code2)
  <2>1. IsCell(code2[1]) /\ IsCell(code2[2]) /\ IsCell(code2[3])
    BY <1>3, <1>4, <1>7, <1>9 DEF IsCode, IsCell
  <2>2. QED
    BY <1>8, <1>10, <2>1 DEF IsCode, IsCell
<1>12. /\ code2[1].handler = "lit" /\ code2[2].handler = "operand"
       /\ code2[3].handler = "exit"
  BY <1>3, <1>7, <1>9 DEF IsVariable
<1>13. IsVariable(code2)
  BY <1>8, <1>12 DEF IsVariable
<1>14. PICK word2 : word2 = [word EXCEPT !.code = code2]
  OBVIOUS
<1>15. word2.code = code2 /\ word2.source = <<>> /\ IsWord(word2)
  <2>1. word = [name |-> word.name, code |-> word.code, source |-> word.source,
                first |-> word.first, spoiled |-> word.spoiled]
    BY <1>3 DEF IsWord
  <2>2. PICK n, k, s, f, sp : word = [name |-> n, code |-> k, source |-> s, first |-> f,
                                      spoiled |-> sp]
    BY <2>1
  <2>3. word2 = [name |-> n, code |-> code2, source |-> s, first |-> f, spoiled |-> sp]
    BY <1>14, <2>2
  <2>4. s = word.source /\ f = word.first
    BY <2>2
  <2>5. /\ word2.code = code2 /\ word2.source = s /\ word2.first = f
        /\ word2.name = n /\ word2.spoiled = sp
    BY <2>3
  <2>6. IsSeq(s) /\ IsSeq(f) /\ s = <<>>
    BY <1>3, <2>4 DEF IsWord
  <2>7. QED
    BY <1>11, <2>3, <2>5, <2>6 DEF IsWord
<1>16. dict2 = [dict EXCEPT ![v] = word2]
  <2>1. dict2 = [dict EXCEPT ![v] = [word EXCEPT !.code = [code EXCEPT ![2].value = x]]]
    BY <1>2
  <2>2. QED
    BY <1>6, <1>14, <2>1
<1>17. /\ DOMAIN dict2 = 1..Len(dict) /\ dict2[v] = word2
       /\ \A w \in 1..Len(dict) : w # v => dict2[w] = dict[w]
  BY <1>1, <1>16
<1>18. IsSeq(dict2) /\ Len(dict2) = Len(dict)
  <2>1. dict2 = [n \in 1..Len(dict) |-> dict2[n]]
    BY <1>16, <1>17
  <2>2. QED
    BY <1>1, <1>17, <2>1, FunctionIsSeq
<1>19. Keeps(dict, dict2, Len(dict))
  <2>1. Simple(word2)
    BY <1>13, <1>15 DEF Simple
  <2>2. QED
    BY <1>17, <2>1 DEF Keeps
<1>20. WordOk(dict2, v)
  <2>1. CellsOk(dict2, v, code2)
    BY <1>8, <1>10, <1>12 DEF CellsOk
  <2>2. Follows(word2)
    <3>1. \A i : ~IsJump(word2, i)
      BY <1>15, EmptyIs DEF IsJump
    <3>2. QED
      BY <3>1 DEF Follows
  <2>3. QED
    BY <1>15, <1>17, <2>1, <2>2 DEF WordOk
<1>21. ASSUME NEW w \in 1..Len(dict), w # v
       PROVE  WordOk(dict2, w)
  <2>1. PICK word3, n : word3 = dict[w] /\ n = Len(dict)
    OBVIOUS
  <2>2. /\ dict2[w] = word3 /\ IsWord(word3) /\ CellsOk(dict, w, word3.code)
        /\ Follows(word3)
    BY <1>1, <1>17, <1>21, <2>1 DEF WordOk
  <2>3. w \in Nat /\ n \in Nat /\ w - 1 <= n /\ Keeps(dict, dict2, n)
    BY <1>1, <1>19, <2>1
  <2>4. CellsOk(dict2, w, word3.code)
    BY <2>2, <2>3, CellsIn
  <2>5. QED
    BY <2>2, <2>4 DEF WordOk
<1>22. \A w \in 1..Len(dict2) : WordOk(dict2, w)
  BY <1>18, <1>20, <1>21
<1>23. QED
  BY <1>18, <1>19, <1>22 DEF WordsOk

\* What is compiled does not depend on the values of variables.
LEMMA StillTraced ==
  ASSUME NewTraced, UNCHANGED compileVars, NEW dict, NEW dict2, dict = dictionary,
         dict2 = dictionary', Len(dict) \in Nat, Len(dict2) = Len(dict),
         Keeps(dict, dict2, Len(dict))
  PROVE  NewTraced'
<1>1. PICK word, list, loops, leaves : /\ word = new /\ list = conditions
                                       /\ loops = do_index2 /\ leaves = leave_words
  OBVIOUS
<1>2. NewOk(dict, word, list, loops, leaves)
  BY <1>1 DEF NewTraced
<1>3. PICK n, m : n = Len(dict) /\ m = n + 1
  OBVIOUS
<1>4. CellsOk(dict, m, word.code)
  BY <1>2, <1>3 DEF NewOk
<1>5. m \in Nat /\ n \in Nat /\ m - 1 <= n
  BY <1>3
<1>6. CellsOk(dict2, m, word.code)
  BY <1>3, <1>4, <1>5, CellsIn
<1>7. NewOk(dict2, word, list, loops, leaves)
  BY <1>2, <1>3, <1>6 DEF NewOk
<1>8. /\ dict2 = dictionary' /\ word = new' /\ list = conditions'
      /\ loops = do_index2' /\ leaves = leave_words'
  BY <1>1 DEF compileVars
<1>9. QED
  BY <1>7, <1>8, ThenTraced

LEMMA SetFollows ==
  ASSUME TracedOk, RunVarSet
  PROVE  TracedOk'
<1>1. /\ WordsOk(dictionary) /\ RunsIn(dictionary, running)
      /\ Executing /\ Handler = "var_set" /\ mode' = mode /\ UNCHANGED compileVars
  BY DEF TracedOk, RunVarSet, WhileRunning
<1>2. running # <<>> /\ IsSeq(dictionary) /\ Len(dictionary) \in Nat
  BY <1>1, IsSeqFacts DEF Executing, WordsOk
<1>3. PICK dict, dict2 : dict = dictionary /\ dict2 = dictionary'
  OBVIOUS
<1>4. CASE GiveUp /\ dictionary' = dictionary
  <2>1. Keeps(dict, dict2, Len(dict)) /\ Len(dict2) = Len(dict)
    BY <1>3, <1>4 DEF Keeps
  <2>2. mode = "compile" => NewTraced'
    BY <1>1, <1>2, <1>3, <2>1, StillTraced DEF TracedOk
  <2>3. RunsIn(dict2, running')
    BY <1>4, NoneRunsIn DEF GiveUp
  <2>4. WordsOk(dict2)
    BY <1>1, <1>3, <1>4
  <2>5. QED
    BY <1>1, <1>3, <2>2, <2>3, <2>4 DEF TracedOk
<1>5. CASE /\ dictionary' = [dictionary EXCEPT ![Operand].code[2].value = Head(data_stack)]
           /\ Goto(Frame.at + 2)
  <2>1. PICK v, x : v = Operand /\ x = Head(data_stack)
    OBVIOUS
  <2>2. v \in 1..Len(dict) /\ Simple(dict[v])
    BY <1>1, <1>3, <2>1, CalledIs
  <2>3. Sets(dict, dict2, v, x)
    BY <1>3, <1>5, <2>1, <2>2 DEF Sets
  <2>4. WordsOk(dict2) /\ Len(dict2) = Len(dict) /\ Keeps(dict, dict2, Len(dict))
    BY <1>1, <1>3, <2>3, SetIs
  <2>5. mode = "compile" => NewTraced'
    BY <1>1, <1>2, <1>3, <2>4, StillTraced DEF TracedOk
  <2>6. RunsIn(dict, running')
    BY <1>1, <1>2, <1>3, <1>5, GotoIn
  <2>7. RunsIn(dict2, running')
    BY <2>4, <2>6 DEF RunsIn, FrameIn
  <2>8. QED
    BY <1>1, <1>3, <2>4, <2>5, <2>7 DEF TracedOk
<1>6. QED
  BY <1>4, <1>5 DEF RunVarSet, Past

-----------------------------------------------------------------------------
(* Every step.                                                             *)

LEMMA Steady ==
  ASSUME TracedOk, UNCHANGED <<mode, dictionary, compileVars>>, RunsIn(dictionary, running')
  PROVE  TracedOk'
<1>1. PICK dict, word, list, loops, leaves, runs :
        /\ dict = dictionary /\ word = new /\ list = conditions
        /\ loops = do_index2 /\ leaves = leave_words /\ runs = running'
  OBVIOUS
<1>2. /\ dict = dictionary' /\ word = new' /\ list = conditions'
      /\ loops = do_index2' /\ leaves = leave_words' /\ mode' = mode
  BY <1>1 DEF compileVars
<1>3. /\ WordsOk(dict) /\ RunsIn(dict, runs)
      /\ mode = "compile" => NewOk(dict, word, list, loops, leaves)
  BY <1>1 DEF TracedOk, NewTraced
<1>4. mode' = "compile" => NewTraced'
  BY <1>2, <1>3, ThenTraced
<1>5. QED
  BY <1>1, <1>2, <1>3, <1>4 DEF TracedOk

LEMMA Compiled ==
  ASSUME TracedOk, mode = "compile",
         UNCHANGED <<dictionary, running>>, NewTraced'
  PROVE  TracedOk'
<1>1. PICK dict, runs : dict = dictionary /\ runs = running
  OBVIOUS
<1>2. WordsOk(dict) /\ RunsIn(dict, runs) /\ dictionary' = dict /\ running' = runs
  BY <1>1 DEF TracedOk
<1>3. QED
  BY <1>2 DEF TracedOk

LEMMA Interprets ==
  ASSUME mode' = "interpret", WordsOk(dictionary)', running' = <<>>
  PROVE  TracedOk'
<1>1. PICK dict, runs : dict = dictionary' /\ runs = running'
  OBVIOUS
<1>2. WordsOk(dict) /\ RunsIn(dict, runs)
  BY <1>1, NoneRunsIn
<1>3. QED
  BY <1>1, <1>2 DEF TracedOk

LEMMA CompilingFollows ==
  ASSUME TracedOk,
         \/ \E n \in Numbers : CompileNumber(n)
         \/ \E word \in Plain : CompilePlain(word)
         \/ \E length \in Texts : CompileText(length)
         \/ \E word \in Structure : CompileOpener(word) \/ CompileMiddle(word) \/ CompileCloser(word)
  PROVE  TracedOk'
<1>1. Compiling /\ WhileCompiling
  BY Zenon DEF CompileNumber, CompilePlain, CompileText, WhileCompilingPlain, CompileOpener,
               CompileMiddle, CompileCloser
<1>2. mode = "compile" /\ UNCHANGED <<dictionary, running>>
  BY <1>1 DEF Compiling, WhileCompiling
<1>3. NewTraced
  BY <1>2 DEF TracedOk
<1>4. NewTraced'
  BY <1>3, PlainFollows, StructureFollows
<1>5. QED
  BY <1>2, <1>4, Compiled

LEMMA DefiningFollows ==
  ASSUME TracedOk,
         \/ \E x \in Names : start_word(x) \/ constant(x) \/ variable(x)
         \/ start_word_in_word \/ end_word \/ reset
         \/ \E name \in Given : forget(name)
  PROVE  TracedOk'
<1>1. running = <<>> /\ running' = running /\ WordsOk(dictionary)
  BY DEF start_word, constant, variable, start_word_in_word, end_word, reset, forget,
         Defining, WhileDefining, Compiling, WhileCompiling, Interpreting, Reading, TracedOk
<1>2. ASSUME NEW x, start_word(x)
      PROVE  TracedOk'
  <2>1. NewTraced'
    BY <1>2, BeginFollows
  <2>2. dictionary' = dictionary /\ WordsOk(dictionary)'
    BY <1>1, <1>2 DEF start_word
  <2>3. RunsIn(dictionary', running')
    BY <1>1, NoneRunsIn
  <2>4. QED
    BY <2>1, <2>2, <2>3 DEF TracedOk
<1>3. ASSUME NEW x, constant(x)
      PROVE  TracedOk'
  <2>1. mode' = "interpret"
    BY <1>3 DEF constant, Defining, WhileDefining, Interpreting
  <2>2. QED
    BY <1>1, <1>3, <2>1, ConstantFollows, Interprets
<1>4. ASSUME NEW x, variable(x)
      PROVE  TracedOk'
  <2>1. mode' = "interpret"
    BY <1>4 DEF variable, Defining, WhileDefining, Interpreting
  <2>2. QED
    BY <1>1, <1>4, <2>1, VariableFollows, Interprets
<1>5. CASE start_word_in_word
  <2>1. UNCHANGED <<mode, dictionary, compileVars>>
    BY <1>5 DEF start_word_in_word, WhileCompiling
  <2>2. RunsIn(dictionary, running')
    BY <1>1, NoneRunsIn
  <2>3. QED
    BY <2>1, <2>2, Steady
<1>6. CASE end_word
  <2>1. mode = "compile" /\ mode' = "interpret"
    BY <1>6 DEF end_word
  <2>2. NewTraced
    BY <2>1 DEF TracedOk
  <2>3. WordsOk(dictionary)'
    BY <1>1, <1>6, <2>2, EndFollows
  <2>4. QED
    BY <1>1, <2>1, <2>3, Interprets
<1>7. CASE reset
  <2>1. mode' = "interpret" /\ dictionary' = <<>>
    BY <1>7 DEF reset, WhileDefining, Interpreting
  <2>2. WordsOk(dictionary)'
    BY <2>1, NoWords
  <2>3. QED
    BY <1>1, <2>1, <2>2, Interprets
<1>8. ASSUME NEW name, forget(name)
      PROVE  TracedOk'
  <2>1. mode' = "interpret"
    BY <1>8 DEF forget, Interpreting
  <2>2. QED
    BY <1>1, <1>8, <2>1, ForgetFollows, Interprets
<1>9. QED
  BY <1>2, <1>3, <1>4, <1>5, <1>6, <1>7, <1>8

LEMMA TypingFollows ==
  ASSUME TracedOk,
         \/ \E name \in Given : Name(name)
         \/ \E v \in Numbers : TypeNumber(v)
         \/ \E word \in StackWords : TypeStackWord(word)
         \/ TypeStructure \/ NewLine
  PROVE  TracedOk'
<1>1. /\ WordsOk(dictionary) /\ DOMAIN dictionary = 1..Len(dictionary)
      /\ Len(dictionary) \in Nat
  BY IsSeqFacts DEF TracedOk, WordsOk
<1>2. CASE \/ \E v \in Numbers : TypeNumber(v)
           \/ \E word \in StackWords : TypeStackWord(word)
           \/ TypeStructure \/ NewLine
  <2>1. UNCHANGED <<mode, dictionary, compileVars>> /\ running' = <<>>
    BY <1>2 DEF TypeNumber, TypeStackWord, TypeStructure, NewLine, WhileTyping, Typing,
                Interpreting, Reading
  <2>2. RunsIn(dictionary, running')
    BY <2>1, NoneRunsIn
  <2>3. QED
    BY <2>1, <2>2, Steady
<1>3. ASSUME NEW name, Name(name)
      PROVE  TracedOk'
  <2>1. CASE WordsNamed(name) = {}
    <3>1. dictionary' = dictionary /\ running' = <<>> /\ mode' = "interpret"
      BY <1>3, <2>1 DEF Name, Reading
    <3>2. WordsOk(dictionary)'
      BY <1>1, <3>1
    <3>3. QED
      BY <3>1, <3>2, Interprets
  <2>2. CASE WordsNamed(name) # {}
    <3>1. PICK w : w = Max(WordsNamed(name))
      OBVIOUS
    <3>2. w \in 1..Len(dictionary)
      <4>1. WordsNamed(name) \subseteq 1..Len(dictionary)
        BY <1>1 DEF WordsNamed
      <4>2. QED
        BY <1>1, <2>2, <3>1, <4>1, MaxIs
    <3>3. CASE /\ Compiling /\ WhileCompiling
               /\ Emit("call", w, new.code, <<cell("call"), operand(w)>>)
               /\ UNCHANGED <<conditions, do_index2, leave_words>>
      <4>1. mode = "compile" /\ UNCHANGED <<dictionary, running>> /\ ~new.spoiled
        BY <3>3 DEF Compiling, WhileCompiling
      <4>2. NewTraced
        BY <4>1 DEF TracedOk
      <4>3. NewTraced'
        BY <1>1, <3>2, <3>3, <4>1, <4>2, CallFollows
      <4>4. QED
        BY <4>1, <4>3, Compiled
    <3>4. CASE /\ running' = <<[word |-> w, at |-> 1, loops |-> do_index]>>
               /\ UNCHANGED <<mode, dictionary, compileVars>>
      <4>1. PICK f, runs, e : /\ f = [word |-> w, at |-> 1, loops |-> do_index]
                              /\ runs = <<f>> /\ e = <<>>
        OBVIOUS
      <4>2. FrameIn(dictionary, f)
        BY <3>2, <4>1 DEF FrameIn, IsFrame
      <4>3. RunsIn(dictionary, <<f>> \o e)
        BY <4>1, <4>2, NoneRunsIn, RunsOnTop
      <4>4. <<f>> \o e = runs
        BY <4>1
      <4>5. RunsIn(dictionary, running')
        BY <3>4, <4>1, <4>3, <4>4
      <4>6. QED
        BY <3>4, <4>5, Steady
    <3>5. QED
      BY <1>3, <2>2, <3>1, <3>3, <3>4 DEF Name
  <2>3. QED
    BY <2>1, <2>2
<1>4. QED
  BY <1>2, <1>3

LEMMA RunningFollows ==
  ASSUME TracedOk,
         \/ RunNumber \/ RunIndex \/ RunText \/ RunUnloop \/ RunStackWord \/ RunCall \/ RunExit
         \/ RunIf \/ RunJump \/ RunOf \/ RunRangeof \/ RunDo \/ RunDo2 \/ RunLoop \/ RunLeave
         \/ RunVarSet \/ RunAstray \/ Lost
  PROVE  TracedOk'
<1>1. WordsOk(dictionary) /\ RunsIn(dictionary, running)
  BY DEF TracedOk
<1>2. ASSUME running # <<>>, WhileRunning, dictionary' = dictionary,
             GiveUp \/ running' = running \/ \E x : Goto(x)
      PROVE  TracedOk'
  <2>1. RunsIn(dictionary, running')
    BY <1>1, <1>2, NoneRunsIn, GotoIn DEF GiveUp
  <2>2. QED
    BY <1>2, <2>1, Steady DEF WhileRunning
<1>3. CASE RunNumber \/ RunIndex \/ RunText \/ RunUnloop
  <2>1. running # <<>> /\ WhileRunning /\ dictionary' = dictionary
    BY <1>3, Zenon DEF RunNumber, RunIndex, RunText, RunUnloop, Executing, WhileRunningPlain
  <2>2. \E x : Goto(x)
    BY <1>3, Zenon DEF RunNumber, RunIndex, RunText, RunUnloop, Past
  <2>3. QED
    BY <1>2, <2>1, <2>2
<1>4. CASE RunStackWord \/ RunIf \/ RunJump \/ RunOf \/ RunRangeof
  <2>1. running # <<>> /\ WhileRunning /\ dictionary' = dictionary
    BY <1>4, Zenon DEF RunStackWord, RunIf, RunJump, RunOf, RunRangeof, Executing, WhileRunningPlain
  <2>2. GiveUp \/ running' = running \/ \E x : Goto(x)
    BY <1>4, Zenon DEF RunStackWord, RunIf, RunJump, RunOf, RunRangeof, Jump, Past
  <2>3. QED
    BY <1>2, <2>1, <2>2
<1>5. CASE RunDo \/ RunDo2 \/ RunLoop \/ RunLeave
  <2>1. running # <<>> /\ WhileRunning /\ dictionary' = dictionary
    BY <1>5, Zenon DEF RunDo, RunDo2, RunLoop, RunLeave, InLoop, Executing
  <2>2. GiveUp \/ running' = running \/ \E x : Goto(x)
    BY <1>5, Zenon DEF RunDo, RunDo2, RunLoop, RunLeave, InLoop, Jump, Past
  <2>3. QED
    BY <1>2, <2>1, <2>2
<1>6. CASE RunCall
  <2>1. UNCHANGED <<mode, dictionary, compileVars>>
    BY <1>6 DEF RunCall, WhileRunning
  <2>2. QED
    BY <1>1, <1>6, <2>1, CallIn, Steady
<1>7. CASE RunExit
  <2>1. UNCHANGED <<mode, dictionary, compileVars>> /\ running # <<>>
    BY <1>7 DEF RunExit, WhileRunning, Executing
  <2>2. RunsIn(dictionary, running')
    BY <1>1, <1>7, <2>1, ExitIn
  <2>3. QED
    BY <2>1, <2>2, Steady
<1>8. CASE RunVarSet
  BY <1>8, SetFollows
<1>9. CASE RunAstray \/ Lost
  <2>1. UNCHANGED <<mode, dictionary, compileVars, running>>
    BY <1>9 DEF RunAstray, Lost, vars
  <2>2. QED
    BY <1>1, <2>1, Steady
<1>10. QED
  BY <1>3, <1>4, <1>5, <1>6, <1>7, <1>8, <1>9

LEMMA TracedAtFirst ==
  ASSUME Init
  PROVE  TracedOk
<1>1. WordsOk(dictionary)
  BY NoWords DEF Init
<1>2. RunsIn(dictionary, running)
  BY NoneRunsIn DEF Init
<1>3. QED
  BY <1>1, <1>2 DEF Init, TracedOk

LEMMA EveryStepFollows ==
  ASSUME TracedOk, [Next]_vars
  PROVE  TracedOk'
<1>1. ASSUME Next
      PROVE  TracedOk'
  <2>1. CASE \/ \E n \in Numbers : CompileNumber(n)
             \/ \E word \in Plain : CompilePlain(word)
             \/ \E length \in Texts : CompileText(length)
             \/ \E word \in Structure :
                  CompileOpener(word) \/ CompileMiddle(word) \/ CompileCloser(word)
    BY <2>1, CompilingFollows
  <2>2. CASE \/ \E x \in Names : start_word(x) \/ constant(x) \/ variable(x)
             \/ start_word_in_word \/ end_word \/ reset
             \/ \E name \in Given : forget(name)
    BY <2>2, DefiningFollows
  <2>3. CASE \/ \E name \in Given : Name(name)
             \/ \E v \in Numbers : TypeNumber(v)
             \/ \E word \in StackWords : TypeStackWord(word)
             \/ TypeStructure \/ NewLine
    BY <2>3, TypingFollows
  <2>4. CASE \/ RunNumber \/ RunIndex \/ RunText \/ RunUnloop \/ RunStackWord \/ RunCall
             \/ RunExit \/ RunIf \/ RunJump \/ RunOf \/ RunRangeof \/ RunDo \/ RunDo2
             \/ RunLoop \/ RunLeave \/ RunVarSet \/ RunAstray \/ Lost
    BY <2>4, RunningFollows
  <2>5. CASE \E word \in Structure : Overrun(word)
    <3>1. UNCHANGED <<mode, dictionary, compileVars, running>>
      BY <2>5 DEF Overrun
    <3>2. RunsIn(dictionary, running')
      BY <3>1 DEF TracedOk
    <3>3. QED
      BY <3>1, <3>2, Steady
  <2>6. QED
    BY <1>1, <2>1, <2>2, <2>3, <2>4, <2>5 DEF Next
<1>2. CASE UNCHANGED vars
  <2>1. UNCHANGED <<mode, dictionary, compileVars, running>>
    BY <1>2 DEF vars
  <2>2. RunsIn(dictionary, running')
    BY <2>1 DEF TracedOk
  <2>3. QED
    BY <2>1, <2>2, Steady
<1>3. QED
  BY <1>1, <1>2

-----------------------------------------------------------------------------
(* Where Target says that the jumps of a finished definition go.           *)

LEMMA DepthNumber ==
  ASSUME NEW src, NEW k \in Nat
  PROVE  Depth(src, k) \in Int
<1>1. ASSUME NEW words
      PROVE  Count(src, k, words) \in Nat
  <2>1. PICK S : S = {j \in 1..k : src[j].word \in words}
    OBVIOUS
  <2>2. S \subseteq 1..k /\ IsFiniteSet(1..k)
    BY <2>1, FS_Interval
  <2>3. Cardinality(S) \in Nat
    BY <2>2, FS_Subset, FS_CardinalityType
  <2>4. QED
    BY <2>1, <2>3 DEF Count
<1>2. Count(src, k, Openers) \in Nat /\ Count(src, k, Closers) \in Nat
  BY <1>1
<1>3. QED
  BY <1>2 DEF Depth

LEMMA LeastIs ==
  ASSUME NEW S, S \subseteq Nat, NEW j \in S, \A k \in S : j <= k
  PROVE  Min(S) = j
<1>1. Min(S) \in S /\ Min(S) <= j
  BY MinIs
<1>2. PICK m : m = Min(S)
  OBVIOUS
<1>3. m \in S /\ m <= j
  BY <1>1, <1>2
<1>4. j <= m /\ m \in Nat /\ j \in Nat
  BY <1>3
<1>5. m = j
  BY <1>3, <1>4
<1>6. QED
  BY <1>2, <1>5

LEMMA GreatestIs ==
  ASSUME NEW n \in Nat, NEW S, S \subseteq 1..n, NEW j \in S, \A k \in S : k <= j
  PROVE  Max(S) = j
<1>1. Max(S) \in S /\ Max(S) >= j
  BY MaxIs
<1>2. PICK m : m = Max(S)
  OBVIOUS
<1>3. m \in S /\ m >= j
  BY <1>1, <1>2
<1>4. m <= j /\ m \in Nat /\ j \in Nat
  BY <1>3
<1>5. m = j
  BY <1>3, <1>4
<1>6. QED
  BY <1>2, <1>5

LEMMA NextIs ==
  ASSUME NEW src, Len(src) \in Nat, NEW i \in 1..Len(src), NEW j, IsNext(src, i, j)
  PROVE  NextPart(src, i) = j
<1>1. PICK S : S = {k \in (i + 1)..Len(src) :
                      \/ Depth(src, k) < Depth(src, i)
                      \/ Depth(src, k) = Depth(src, i) /\ src[k].word = "else"}
  OBVIOUS
<1>2. /\ j \in (i + 1)..Len(src)
      /\ Depth(src, j) < Depth(src, i) \/ ElseAt(src, j, Depth(src, i))
      /\ \A k \in i..(j - 1) : Depth(src, k) >= Depth(src, i)
      /\ \A k \in (i + 1)..(j - 1) : ~ElseAt(src, k, Depth(src, i))
  BY DEF IsNext, Stays
<1>3. j \in S /\ S \subseteq Nat
  BY <1>1, <1>2 DEF ElseAt
<1>4. ASSUME NEW k \in S
      PROVE  j <= k
  <2>1. SUFFICES ASSUME k < j PROVE FALSE
    BY <1>1, <1>2
  <2>2. k \in (i + 1)..(j - 1) /\ k \in i..(j - 1) /\ k \in Nat /\ i \in Nat
    BY <1>1, <1>2, <2>1
  <2>3. /\ Depth(src, k) >= Depth(src, i) /\ ~ElseAt(src, k, Depth(src, i))
        /\ Depth(src, k) \in Int /\ Depth(src, i) \in Int
    BY <1>2, <2>2, DepthNumber
  <2>4. \/ Depth(src, k) < Depth(src, i)
        \/ ElseAt(src, k, Depth(src, i))
    BY <1>1 DEF ElseAt
  <2>5. QED
    BY <2>3, <2>4
<1>5. Min(S) = j
  BY <1>3, <1>4, LeastIs
<1>6. QED
  BY <1>1, <1>5 DEF NextPart

LEMMA EndIs ==
  ASSUME NEW src, Len(src) \in Nat, NEW d \in 1..Len(src), NEW j, IsEnd(src, d, j)
  PROVE  End(src, d) = j
<1>1. PICK S : S = {k \in (d + 1)..Len(src) : Depth(src, k) < Depth(src, d)}
  OBVIOUS
<1>2. /\ j \in (d + 1)..Len(src) /\ Depth(src, j) < Depth(src, d)
      /\ \A k \in d..(j - 1) : Depth(src, k) >= Depth(src, d)
  BY DEF IsEnd, Stays
<1>3. j \in S /\ S \subseteq Nat
  BY <1>1, <1>2
<1>4. ASSUME NEW k \in S
      PROVE  j <= k
  <2>1. SUFFICES ASSUME k < j PROVE FALSE
    BY <1>1, <1>2
  <2>2. k \in d..(j - 1) /\ k \in Nat /\ d \in Nat
    BY <1>1, <1>2, <2>1
  <2>3. /\ Depth(src, k) >= Depth(src, d) /\ Depth(src, k) < Depth(src, d)
        /\ Depth(src, k) \in Int /\ Depth(src, d) \in Int
    BY <1>1, <1>2, <2>2, DepthNumber
  <2>4. QED
    BY <2>3
<1>5. Min(S) = j
  BY <1>3, <1>4, LeastIs
<1>6. QED
  BY <1>1, <1>5 DEF End

LEMMA OpenerIs ==
  ASSUME NEW src, NEW i \in Nat, NEW kind, NEW d, IsOpener(src, i, kind, d)
  PROVE  Opener(src, i, {kind}) = d /\ d \in 1..(i - 1)
<1>1. PICK S : S = {j \in 1..(i - 1) : /\ src[j].word \in {kind}
                                       /\ \A k \in j..(i - 1) : Depth(src, k) >= Depth(src, j)}
  OBVIOUS
<1>2. /\ d \in 1..(i - 1) /\ src[d].word = kind /\ Stays(src, d, i - 1)
      /\ \A e \in (d + 1)..(i - 1) : src[e].word = kind => ~Stays(src, e, i - 1)
  BY DEF IsOpener
<1>3. i - 1 \in Nat /\ S \subseteq 1..(i - 1)
  BY <1>1, <1>2
<1>4. d \in S
  BY <1>1, <1>2 DEF Stays
<1>5. ASSUME NEW e \in S
      PROVE  e <= d
  <2>1. SUFFICES ASSUME e > d PROVE FALSE
    BY <1>2, <1>3
  <2>2. e \in (d + 1)..(i - 1)
    BY <1>2, <1>3, <2>1
  <2>3. src[e].word = kind /\ Stays(src, e, i - 1)
    BY <1>1 DEF Stays
  <2>4. QED
    BY <1>2, <2>2, <2>3
<1>6. PICK n : n = i - 1
  OBVIOUS
<1>7. n \in Nat /\ S \subseteq 1..n
  BY <1>3, <1>6
<1>8. Max(S) = d
  BY <1>4, <1>5, <1>7, GreatestIs
<1>9. QED
  BY <1>1, <1>2, <1>8 DEF Opener

\* Target, one line for each kind of jump.
TargetOf(word, i, src, end) ==
  /\ src[i].word \in Onward => Target(word, i) = AfterWord(word, NextPart(src, i), end)
  /\ src[i].word = "do" => Target(word, i) = AfterWord(word, End(src, i), end)
  /\ src[i].word \in {"loop", "+loop"}
       => Target(word, i) = word.first[Opener(src, i, {"do"})] + 1
  /\ src[i].word = "leave"
       => Target(word, i) = AfterWord(word, End(src, Opener(src, i, {"do"})), end)
  /\ src[i].word \in Backward
       => Target(word, i) = AfterWord(word, Opener(src, i, {"begin"}), end)
  /\ src[i].word = "endof"
       => Target(word, i) = AfterWord(word, End(src, Opener(src, i, {"case"})), end)

LEMMA TargetCases ==
  ASSUME NEW word, NEW i, NEW src, src = word.source, NEW end, end = Len(word.code)
  PROVE  TargetOf(word, i, src, end)
<1>1. PICK token : token = src[i].word
  OBVIOUS
<1>2. token \in Onward => Target(word, i) = AfterWord(word, NextPart(src, i), end)
  BY <1>1 DEF Target, AfterWord, Onward
<1>3. token = "do" => Target(word, i) = AfterWord(word, End(src, i), end)
  BY <1>1 DEF Target, AfterWord
<1>4. token \in {"loop", "+loop"} => Target(word, i) = word.first[Opener(src, i, {"do"})] + 1
  BY <1>1 DEF Target
<1>5. token = "leave"
        => Target(word, i) = AfterWord(word, End(src, Opener(src, i, {"do"})), end)
  BY <1>1 DEF Target, AfterWord
<1>6. token \in Backward => Target(word, i) = AfterWord(word, Opener(src, i, {"begin"}), end)
  BY <1>1 DEF Target, AfterWord, Backward
<1>7. token = "endof"
        => Target(word, i) = AfterWord(word, End(src, Opener(src, i, {"case"})), end)
  BY <1>1 DEF Target, AfterWord
<1>8. QED
  BY <1>1, <1>2, <1>3, <1>4, <1>5, <1>6, <1>7, Zenon DEF TargetOf

LEMMA TargetIs ==
  ASSUME NEW word, IsSeq(word.source), NEW i \in 1..Len(word.source),
         NEW j \in 1..Len(word.source), Aim(word.source, i, j)
  PROVE  Target(word, i) = Landing(word, i, j, Len(word.code))
<1>1. PICK src, token, end : src = word.source /\ token = src[i].word /\ end = Len(word.code)
  OBVIOUS
<1>2. Len(src) \in Nat /\ i \in 1..Len(src) /\ i \in Nat
  BY <1>1, IsSeqFacts
<1>3. PICK target, to : target = Target(word, i) /\ to = AfterWord(word, j, end)
  OBVIOUS
<1>4. TargetOf(word, i, src, end)
  BY <1>1, TargetCases
<1>5. Landing(word, i, j, end)
        = IF token \in {"loop", "+loop"} THEN word.first[j] + 1 ELSE to
  BY <1>1, <1>3 DEF Landing
<1>6. CASE token \in Onward /\ IsNext(src, i, j)
  <2>1. NextPart(src, i) = j
    BY <1>2, <1>6, NextIs
  <2>2. token \notin {"loop", "+loop"}
    BY <1>6 DEF Onward
  <2>3. target = to
    BY <1>4, <1>1, <1>3, <1>6, <2>1 DEF TargetOf
  <2>4. QED
    BY <1>1, <1>3, <1>5, <2>2, <2>3
<1>7. CASE token = "do" /\ IsEnd(src, i, j)
  <2>1. End(src, i) = j
    BY <1>2, <1>7, EndIs
  <2>2. target = to
    BY <1>4, <1>1, <1>3, <1>7, <2>1 DEF TargetOf
  <2>3. QED
    BY <1>1, <1>3, <1>5, <1>7, <2>2
<1>8. CASE token \in {"loop", "+loop"} /\ IsOpener(src, i, "do", j)
  <2>1. Opener(src, i, {"do"}) = j
    BY <1>2, <1>8, OpenerIs
  <2>2. target = word.first[j] + 1
    BY <1>4, <1>1, <1>3, <1>8, <2>1 DEF TargetOf
  <2>3. QED
    BY <1>1, <1>3, <1>5, <1>8, <2>2
<1>9. CASE token = "leave" /\ \E d : IsOpener(src, i, "do", d) /\ IsEnd(src, d, j)
  <2>1. PICK d : IsOpener(src, i, "do", d) /\ IsEnd(src, d, j)
    BY <1>9
  <2>2. PICK opener : opener = Opener(src, i, {"do"})
    OBVIOUS
  <2>3. opener = d /\ d \in 1..(i - 1)
    BY <1>2, <2>1, <2>2, OpenerIs
  <2>4. d \in 1..Len(src)
    BY ONLY <1>2, <2>3
  <2>5. End(src, d) = j
    BY <1>2, <2>1, <2>4, EndIs
  <2>6. End(src, opener) = j
    BY <2>5, <2>3
  <2>7. target = to
    BY <1>4, <1>1, <1>3, <1>9, <2>2, <2>3, <2>6 DEF TargetOf
  <2>8. QED
    BY <1>1, <1>3, <1>5, <1>9, <2>7
<1>10. CASE token \in Backward /\ IsOpener(src, i, "begin", j)
  <2>1. Opener(src, i, {"begin"}) = j
    BY <1>2, <1>10, OpenerIs
  <2>2. token \notin {"loop", "+loop"}
    BY <1>10 DEF Backward
  <2>3. target = to
    BY <1>4, <1>1, <1>3, <1>10, <2>1 DEF TargetOf
  <2>4. QED
    BY <1>1, <1>3, <1>5, <2>2, <2>3
<1>11. CASE token = "endof" /\ \E d : IsOpener(src, i, "case", d) /\ IsEnd(src, d, j)
  <2>1. PICK d : IsOpener(src, i, "case", d) /\ IsEnd(src, d, j)
    BY <1>11
  <2>2. PICK opener : opener = Opener(src, i, {"case"})
    OBVIOUS
  <2>3. opener = d /\ d \in 1..(i - 1)
    BY <1>2, <2>1, <2>2, OpenerIs
  <2>4. d \in 1..Len(src)
    BY ONLY <1>2, <2>3
  <2>5. End(src, d) = j
    BY <1>2, <2>1, <2>4, EndIs
  <2>6. End(src, opener) = j
    BY <2>5, <2>3
  <2>7. target = to
    BY <1>4, <1>1, <1>3, <1>11, <2>2, <2>3, <2>6 DEF TargetOf
  <2>8. QED
    BY <1>1, <1>3, <1>5, <1>11, <2>7
<1>12. QED
  BY <1>1, <1>6, <1>7, <1>8, <1>9, <1>10, <1>11, Zenon DEF Aim

\* Whatever is typed: in the words of the dictionary that were not refused, and
\* in the one that is being compiled as far as it goes, each jump goes where its
\* structure says or waits on a stack for the word that patches it, and words
\* only call words before them (forth_words.c:910-1145, 1279-1289, 1801-1927).
THEOREM CodeIsTraced == Spec => []TracedOk
<1>1. Init => TracedOk
  BY TracedAtFirst
<1>2. TracedOk /\ [Next]_vars => TracedOk'
  BY EveryStepFollows
<1>3. QED
  BY <1>1, <1>2, PTL DEF Spec

\* However if, case, begin and do are nested in each other, each jump of a
\* finished definition goes where its structure says, unless a word of it was
\* refused (forth_words.c:910-1145, 1279-1289, 1801-1927).
THEOREM JumpsAsWritten == Spec => []JumpsFollowStructure
<1>1. ASSUME TracedOk
      PROVE  JumpsFollowStructure
  <2>1. SUFFICES ASSUME NEW w \in DOMAIN dictionary, ~dictionary[w].spoiled,
                        NEW i \in DOMAIN dictionary[w].source,
                        dictionary[w].source[i].word \in Jumps
                 PROVE  dictionary[w].code[OperandOf(dictionary[w], i)].value + 1
                          = Target(dictionary[w], i)
    BY DEF JumpsFollowStructure
  <2>2. PICK word : word = dictionary[w]
    OBVIOUS
  <2>3. IsWord(word) /\ Follows(word)
    BY <1>1, <2>2, IsSeqFacts DEF TracedOk, WordsOk, WordOk
  <2>4. IsSeq(word.source) /\ i \in 1..Len(word.source)
    BY <2>2, <2>3, IsSeqFacts DEF IsWord
  <2>5. Done(word, i, Len(word.code))
    BY <2>1, <2>2, <2>3, <2>4 DEF Follows, IsJump
  <2>6. PICK j \in 1..Len(word.source) :
          /\ Aim(word.source, i, j)
          /\ word.code[OperandOf(word, i)].value + 1 = Landing(word, i, j, Len(word.code))
    BY <2>5 DEF Done
  <2>7. Target(word, i) = Landing(word, i, j, Len(word.code))
    BY <2>4, <2>6, TargetIs
  <2>8. QED
    BY <2>2, <2>6, <2>7
<1>2. QED
  BY <1>1, CodeIsTraced, PTL

=============================================================================
