------------------------------ MODULE MCForth ------------------------------
(* TLC instance of Forth: every short stack for the words that only use    *)
(* the stack, and two stacks for definitions to be run on.                 *)
EXTENDS Forth

MCStacks ==
  {<<>>} \cup {<<x>> : x \in Ints}
    \cup {<<x, y>> \o rest : x \in Ints, y \in Ints,
                             rest \in {<<>>, <<1>>, <<2, -3>>, <<1, 2, 3>>}}

MCCallStacks == {<<0, 2, 1>>, <<1, 1, 0>>}
=============================================================================
