----------------------------- MODULE ForthStack -----------------------------
(***************************************************************************)
(* What the words of forth_words.c do to the data stack: one operator for  *)
(* each handler, of its name.  A stack is a sequence whose first element   *)
(* is the top, so that fvm_data_stack_pointer[n] is s[n + 1].  Numbers are *)
(* two's complement and of Bits bits; arithmetic that overflows wraps      *)
(* round, as it does in the builds for the microcontrollers.               *)
(***************************************************************************)
EXTENDS Integers, Sequences, FiniteSetsExt

CONSTANT Bits

ASSUME BitsAssumption == Bits \in Nat /\ Bits > 1

Ints == -(2 ^ (Bits - 1))..(2 ^ (Bits - 1) - 1)

Wrap(v) == ((v + 2 ^ (Bits - 1)) % (2 ^ Bits)) - 2 ^ (Bits - 1)

Bit(v, i) == ((v % (2 ^ Bits)) \div (2 ^ i)) % 2

OfBits(set) == Wrap(MapThenSumSet(LAMBDA i : 2 ^ i, set))

Truth(p) == IF p THEN 1 ELSE 0

Magnitude(v) == IF v < 0 THEN -v ELSE v

\* Division in C rounds towards zero.
Quotient(x, y) ==
  LET q == Magnitude(x) \div Magnitude(y)
  IN IF (x < 0) = (y < 0) THEN q ELSE -q

\* The n topmost numbers are replaced by those in list, whose first is the new top.
Replace(s, n, list) == list \o SubSeq(s, n + 1, Len(s))

-----------------------------------------------------------------------------
(* Arithmetic, comparisons and logic: the result takes the place of the    *)
(* operands.                                                               *)

plus(s) == Replace(s, 2, <<Wrap(s[2] + s[1])>>)
minus(s) == Replace(s, 2, <<Wrap(s[2] - s[1])>>)
mul(s) == Replace(s, 2, <<Wrap(s[2] * s[1])>>)
div(s) == Replace(s, 2, <<Wrap(Quotient(s[2], s[1]))>>)
mod(s) == Replace(s, 2, <<s[2] - s[1] * Quotient(s[2], s[1])>>)

onep(s) == Replace(s, 1, <<Wrap(s[1] + 1)>>)
ones(s) == Replace(s, 1, <<Wrap(s[1] - 1)>>)
twop(s) == Replace(s, 1, <<Wrap(s[1] + 2)>>)
twos(s) == Replace(s, 1, <<Wrap(s[1] - 1)>>)  \* "2-" takes one away
twom(s) == Replace(s, 1, <<Wrap(s[1] * 2)>>)
twod(s) == Replace(s, 1, <<Quotient(s[1], 2)>>)

eq0(s) == Replace(s, 1, <<Truth(s[1] = 0)>>)
ne0(s) == Replace(s, 1, <<Truth(s[1] # 0)>>)
gt0(s) == Replace(s, 1, <<Truth(s[1] > 0)>>)
lt0(s) == Replace(s, 1, <<Truth(s[1] < 0)>>)
le0(s) == Replace(s, 1, <<Truth(s[1] <= 0)>>)
ge0(s) == Replace(s, 1, <<Truth(s[1] >= 0)>>)

eq(s) == Replace(s, 2, <<Truth(s[2] = s[1])>>)
ne(s) == Replace(s, 2, <<Truth(s[2] # s[1])>>)
lt(s) == Replace(s, 2, <<Truth(s[2] < s[1])>>)
gt(s) == Replace(s, 2, <<Truth(s[2] > s[1])>>)
le(s) == Replace(s, 2, <<Truth(s[2] <= s[1])>>)
ge(s) == Replace(s, 2, <<Truth(s[2] >= s[1])>>)
within(s) == Replace(s, 3, <<Truth(s[3] >= s[2] /\ s[3] < s[1])>>)

Places == 0..(Bits - 1)
and(s) == Replace(s, 2, <<OfBits({i \in Places : Bit(s[2], i) = 1 /\ Bit(s[1], i) = 1})>>)
or(s) == Replace(s, 2, <<OfBits({i \in Places : Bit(s[2], i) = 1 \/ Bit(s[1], i) = 1})>>)
xor(s) == Replace(s, 2, <<OfBits({i \in Places : Bit(s[2], i) # Bit(s[1], i)})>>)
invert(s) == Replace(s, 1, <<OfBits({i \in Places : Bit(s[1], i) = 0})>>)
lshift(s) == Replace(s, 2, <<Wrap(s[2] * 2 ^ s[1])>>)
rshift(s) == Replace(s, 2, <<s[2] \div 2 ^ s[1]>>)  \* of a signed number

abs(s) == Replace(s, 1, <<Wrap(Magnitude(s[1]))>>)
negate(s) == Replace(s, 1, <<Wrap(-s[1])>>)
max(s) == Replace(s, 2, <<IF s[1] > s[2] THEN s[1] ELSE s[2]>>)
min(s) == Replace(s, 2, <<IF s[1] < s[2] THEN s[1] ELSE s[2]>>)

-----------------------------------------------------------------------------
(* Moving and copying.                                                     *)

drop(s) == Tail(s)
drop2(s) == Replace(s, 2, <<>>)
dup(s) == <<s[1]>> \o s
dup2(s) == <<s[1], s[2]>> \o s
swap(s) == Replace(s, 2, <<s[2], s[1]>>)
swap2(s) == [s EXCEPT ![1] = s[3], ![3] = s[1], ![2] = s[4], ![4] = s[2]]
over(s) == <<s[2]>> \o s
rot(s) == Replace(s, 3, <<s[3], s[1], s[2]>>)
nip(s) == Replace(s, 2, <<s[1]>>)
pick(s) == [s EXCEPT ![1] = s[s[1] + 2]]
mrot(s) == Replace(s, 3, <<s[2], s[3], s[1]>>)
tuck(s) == Replace(s, 2, <<s[1], s[2], s[1]>>)
dup0(s) == IF s[1] # 0 THEN dup(s) ELSE s
depth(s) == <<Wrap(Len(s))>> \o s

\* Mutant: the loop of roll_word_handler ends a step early.
RollShort(s) ==
  LET u == s[1]
      t == Tail(s)
  IN IF u > 0 THEN [n \in DOMAIN t |-> IF n = 1 THEN t[u + 1]
                                       ELSE IF n \in 3..(u + 1) THEN t[n - 1] ELSE t[n]]
     ELSE t

roll(s) ==
  LET u == s[1]
      t == Tail(s)
  IN IF u > 0 THEN [n \in DOMAIN t |-> IF n = 1 THEN t[u + 1]
                                       ELSE IF n \in 2..(u + 1) THEN t[n - 1] ELSE t[n]]
     ELSE t

mroll(s) ==
  LET u == s[1]
      t == Tail(s)
  IN IF u > 0 THEN [n \in DOMAIN t |-> IF n = u + 1 THEN t[1]
                                       ELSE IF n \in 1..u THEN t[n + 1] ELSE t[n]]
     ELSE t

-----------------------------------------------------------------------------
(* The words by their names in the dictionary.                             *)

Unchecked == {"0<>", "0>", "0<"}  \* these do not look whether there is a number
Needing1 == Unchecked \cup {"1+", "1-", "2+", "2-", "2*", "2/", "0=", "0<=", "0>=",
                             "invert", "abs", "negate", "drop", "dup", "pick", "?dup",
                             "roll", "-roll"}
Needing2 == {"+", "-", "*", "/", "mod", "=", "<>", "<", ">", "<=", ">=", "and", "or",
             "xor", "lshift", "rshift", "max", "min", "2drop", "2dup", "swap", "over",
             "nip", "tuck"}
Needing3 == {"within", "rot", "-rot"}
StackWords == Needing1 \cup Needing2 \cup Needing3 \cup {"2swap", "depth", "reset_stack"}

\* fvm_data_stack_underflow, fvm_data_stack_underflow2
Underflow(word, s) ==
  \/ word \in Needing1 /\ Len(s) < 1
  \/ word \in Needing2 /\ Len(s) < 2
  \/ word \in Needing3 /\ Len(s) < 3
  \/ word = "2swap" /\ Len(s) < 4
  \/ word = "pick" /\ s[1] + 2 > Len(s)
  \/ word \in {"roll", "-roll"} /\ s[1] > 0 /\ s[1] + 2 > Len(s)

Fails(word, s) == Underflow(word, s) \/ (word = "/" /\ s[1] = 0)

\* These have taken a number off the stack before they fail.
LeftByFailure(word, s) ==
  IF \/ word \in {"roll", "-roll"} /\ s # <<>>
     \/ word = "/" /\ Len(s) > 1
  THEN Tail(s) ELSE s

\* What the handlers do not check and C leaves undefined.
Undefined(word, s) ==
  \/ word \in Unchecked /\ s = <<>>
  \/ word = "mod" /\ Len(s) > 1 /\ s[1] = 0
  \/ word \in {"lshift", "rshift"} /\ Len(s) > 1 /\ s[1] \notin Places
  \/ word = "pick" /\ s # <<>> /\ s[1] < -1

Apply(word, s) ==
  CASE word = "+" -> plus(s) [] word = "-" -> minus(s) [] word = "*" -> mul(s)
    [] word = "/" -> div(s) [] word = "mod" -> mod(s)
    [] word = "1+" -> onep(s) [] word = "1-" -> ones(s) [] word = "2+" -> twop(s)
    [] word = "2-" -> twos(s) [] word = "2*" -> twom(s) [] word = "2/" -> twod(s)
    [] word = "0=" -> eq0(s) [] word = "0<>" -> ne0(s) [] word = "0>" -> gt0(s)
    [] word = "0<" -> lt0(s) [] word = "0<=" -> le0(s) [] word = "0>=" -> ge0(s)
    [] word = "=" -> eq(s) [] word = "<>" -> ne(s) [] word = "<" -> lt(s)
    [] word = ">" -> gt(s) [] word = "<=" -> le(s) [] word = ">=" -> ge(s)
    [] word = "within" -> within(s) [] word = "and" -> and(s) [] word = "or" -> or(s)
    [] word = "xor" -> xor(s) [] word = "invert" -> invert(s)
    [] word = "lshift" -> lshift(s) [] word = "rshift" -> rshift(s)
    [] word = "abs" -> abs(s) [] word = "negate" -> negate(s)
    [] word = "max" -> max(s) [] word = "min" -> min(s)
    [] word = "drop" -> drop(s) [] word = "2drop" -> drop2(s) [] word = "dup" -> dup(s)
    [] word = "2dup" -> dup2(s) [] word = "swap" -> swap(s) [] word = "2swap" -> swap2(s)
    [] word = "over" -> over(s) [] word = "rot" -> rot(s) [] word = "nip" -> nip(s)
    [] word = "pick" -> pick(s) [] word = "-rot" -> mrot(s) [] word = "tuck" -> tuck(s)
    [] word = "?dup" -> dup0(s) [] word = "depth" -> depth(s) [] word = "roll" -> roll(s)
    [] word = "-roll" -> mroll(s) [] word = "reset_stack" -> <<>>
=============================================================================
