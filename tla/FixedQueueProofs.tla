-------------------------- MODULE FixedQueueProofs --------------------------
(***************************************************************************)
(* For every size of the ring: it is the list of the newest items that     *)
(* RecencyList describes.  What makes this more than a matter of types is  *)
(* that positions are counted back from "current" through the wrap-around, *)
(* so a push renumbers every item without moving one.                      *)
(*                                                                         *)
(* The history of the shells on top of it holds no command twice, whatever *)
(* the keys that are pressed between two commands, and the shell handles   *)
(* key by key what arrives byte by byte.                                   *)
(***************************************************************************)
EXTENDS Shell2, WellFoundedInduction, TLAPS

\* Every nonempty set of natural numbers has a least element: to show a fact
\* for every number, take the least of those that it does not hold for.
LEMMA LeastNat ==
  ASSUME NEW S, S \subseteq Nat, S # {}
  PROVE  \E n \in S : \A m \in S : n <= m
<1> DEFINE R == {p \in Nat \X Nat : p[1] < p[2]}
<1>1. IsWellFoundedOn(R, Nat)
  BY NatLessThanWellFounded, Zenon DEF OpToRel
<1>2. PICK x \in S : \A y \in S : ~(<<y, x>> \in R)
  BY <1>1, WFMin, Zenon
<1>3. ASSUME NEW m \in S  PROVE x <= m
  <2>1. m < x => <<m, x>> \in R
    OBVIOUS
  <2>2. QED
    BY <1>2, <2>1
<1>4. QED
  BY <1>3

-----------------------------------------------------------------------------
(* Arithmetic on the ring.                                                 *)

LEMMA SlotsAreClosed ==
  ASSUME NEW s \in Slots, NEW k \in 0..Size
  PROVE  After(s) \in Slots /\ Back(s, k) \in Slots
BY FixedQueueAssumption DEF Slots, After, Back

LEMMA SizeRange ==
  ASSUME TypeOK
  PROVE  /\ QueueSize \in 0..(Size - 1)
         /\ QueueSize = 0 <=> first = current
BY FixedQueueAssumption DEF TypeOK, Slots, QueueSize

LEMMA Distance ==
  ASSUME NEW c \in 0..(Size - 1), NEW f \in 0..(Size - 1)
  PROVE  (IF c >= f THEN c - f ELSE Size - f + c) \in 0..(Size - 1)
BY FixedQueueAssumption

LEMMA NextSizeRange ==
  ASSUME TypeOK'
  PROVE  QueueSize' \in 0..(Size - 1)
<1>1. current' \in 0..(Size - 1) /\ first' \in 0..(Size - 1)
  BY DEF TypeOK, Slots
<1>2. QED
  BY <1>1, Distance DEF QueueSize

LEMMA SlotAtType ==
  ASSUME TypeOK, NEW k \in 0..(Size - 1)
  PROVE  SlotAt(k) \in Slots
BY FixedQueueAssumption, SlotsAreClosed DEF TypeOK, SlotAt

\* Different offsets are different slots, and none of them is "current".
LEMMA SlotsDiffer ==
  ASSUME TypeOK, NEW k \in 0..(Size - 2), NEW j \in 0..(Size - 2)
  PROVE  /\ SlotAt(k) # current
         /\ SlotAt(k) = SlotAt(j) => k = j
BY FixedQueueAssumption DEF TypeOK, Slots, SlotAt, Back

\* Going back one more and then forward again.
LEMMA AfterSlotAt ==
  ASSUME TypeOK, NEW k \in 1..(Size - 2)
  PROVE  After(SlotAt(k)) = SlotAt(k - 1)
BY FixedQueueAssumption DEF TypeOK, Slots, SlotAt, Back, After

-----------------------------------------------------------------------------
(* Types.                                                                  *)

LEMMA RotatedType ==
  ASSUME TypeOK, NEW offset \in Offsets \ {0}
  PROVE  Rotated(offset) \in [Slots -> Items \cup {Blank}]
<1>1. offset \in 0..(Size - 1)
  BY SizeRange, FixedQueueAssumption DEF Offsets
<1>2. \A s \in Slots : After(s) \in Slots
  BY SlotsAreClosed, FixedQueueAssumption
<1>3. SlotAt(offset) \in Slots
  BY <1>1, SlotAtType
<1>4. \A s \in Slots : buffer[s] \in Items \cup {Blank}
  BY DEF TypeOK
<1> HIDE DEF TypeOK
<1>5. QED
  BY <1>2, <1>3, <1>4 DEF Rotated

LEMMA InitType == Init => TypeOK
BY FixedQueueAssumption DEF Init, TypeOK, Slots

LEMMA NextType == TypeOK /\ [Next]_vars => TypeOK'
<1> SUFFICES ASSUME TypeOK, [Next]_vars PROVE TypeOK'
  OBVIOUS
<1>1. ASSUME NEW d \in Items, Push(d) PROVE TypeOK'
  <2>1. After(current) \in Slots /\ After(first) \in Slots
    BY SlotsAreClosed, FixedQueueAssumption DEF TypeOK
  <2>2. QED
    BY <1>1, <2>1 DEF Push, MoveNext, TypeOK
<1>2. CASE Pop
  <2>1. After(first) \in Slots
    BY SlotsAreClosed, FixedQueueAssumption DEF TypeOK
  <2>2. QED
    BY <1>2, <2>1 DEF Pop, TypeOK
<1>3. CASE Reset
  BY <1>3, FixedQueueAssumption DEF Reset, TypeOK, Slots
<1>4. ASSUME NEW offset \in Slots, MoveToTop(offset) PROVE TypeOK'
  BY <1>4, RotatedType DEF MoveToTop, TypeOK
<1>5. CASE UNCHANGED vars
  BY <1>5 DEF vars, TypeOK
<1>6. QED
  BY <1>1, <1>2, <1>3, <1>4, <1>5 DEF Next

\* The two indexes never leave the buffer (fixed_queue.c:24-50).
THEOREM TypeCorrect == Spec => []TypeOK
<1>1. Init => TypeOK
  BY InitType
<1>2. TypeOK /\ [Next]_vars => TypeOK'
  BY NextType
<1>3. QED
  BY <1>1, <1>2, PTL DEF Spec

-----------------------------------------------------------------------------
(* What the operations do to the contents.                                 *)

LEMMA PushSize ==
  ASSUME TypeOK, MoveNext
  PROVE  QueueSize' = IF QueueSize = Size - 1 THEN Size - 1 ELSE QueueSize + 1
BY FixedQueueAssumption DEF TypeOK, Slots, MoveNext, QueueSize, After

LEMMA PushSlots ==
  ASSUME TypeOK, MoveNext
  PROVE  /\ SlotAt(0)' = current
         /\ \A k \in 1..(Size - 1) : SlotAt(k)' = SlotAt(k - 1)
BY FixedQueueAssumption DEF TypeOK, Slots, MoveNext, SlotAt, Back, After

LEMMA PushContents ==
  ASSUME TypeOK, NEW d, Push(d)
  PROVE  Contents' = [i \in 1..QueueSize' |-> IF i = 1 THEN d ELSE Contents[i - 1]]
<1>1. /\ QueueSize' \in 0..(Size - 1) /\ QueueSize \in 0..(Size - 1)
      /\ QueueSize' <= QueueSize + 1
  BY SizeRange, PushSize, FixedQueueAssumption DEF Push
<1>2. ASSUME NEW i \in 1..QueueSize'
      PROVE  buffer'[SlotAt(i - 1)'] = IF i = 1 THEN d ELSE Contents[i - 1]
  <2>1. CASE i = 1
    <3>1. SlotAt(i - 1)' = current
      BY <2>1, PushSlots DEF Push
    <3>2. QED
      BY <2>1, <3>1 DEF Push, TypeOK
  <2>2. CASE i # 1
    <3>1. /\ i - 1 \in 1..QueueSize /\ i - 1 \in 1..(Size - 1)
          /\ i - 2 \in 0..(Size - 2) /\ (i - 1) - 1 = i - 2
      BY <1>1, <2>2, FixedQueueAssumption
    <3>2. SlotAt(i - 1)' = SlotAt(i - 2)
      BY <3>1, PushSlots DEF Push
    <3>3. SlotAt(i - 2) # current /\ SlotAt(i - 2) \in Slots
      BY <3>1, SlotsDiffer, SlotAtType, FixedQueueAssumption
    <3>4. buffer'[SlotAt(i - 2)] = buffer[SlotAt(i - 2)]
      BY <3>3 DEF Push, TypeOK
    <3>5. Contents[i - 1] = buffer[SlotAt(i - 2)]
      BY <3>1 DEF Contents
    <3>6. QED
      BY <2>2, <3>2, <3>4, <3>5
  <2>3. QED
    BY <2>1, <2>2
<1>3. QED
  BY <1>2 DEF Contents

LEMMA PopContents ==
  ASSUME TypeOK, Pop
  PROVE  /\ QueueSize # 0
         /\ Contents' = [i \in 1..(QueueSize - 1) |-> Contents[i]]
<1>1. QueueSize \in 1..(Size - 1) /\ QueueSize' = QueueSize - 1
  BY FixedQueueAssumption DEF TypeOK, Slots, Pop, QueueSize, After
<1>2. \A k : SlotAt(k)' = SlotAt(k)
  BY DEF Pop, SlotAt, Back
<1>3. Contents' = [i \in 1..(QueueSize - 1) |-> buffer[SlotAt(i - 1)]]
  BY <1>1, <1>2 DEF Contents, Pop
<1>4. \A i \in 1..(QueueSize - 1) : Contents[i] = buffer[SlotAt(i - 1)]
  BY <1>1 DEF Contents
<1>5. QED
  BY <1>1, <1>3, <1>4

LEMMA MoveToTopContents ==
  ASSUME TypeOK, NEW k \in Offsets \ {0}, MoveToTop(k)
  PROVE  Contents' = [i \in 1..QueueSize |->
                        CASE i = 1 -> Contents[k + 1]
                          [] i \in 2..(k + 1) -> Contents[i - 1]
                          [] OTHER -> Contents[i]]
<1>1. QueueSize \in 1..(Size - 1) /\ k \in 1..(QueueSize - 1) /\ k \in 1..(Size - 2)
  BY SizeRange, FixedQueueAssumption DEF Offsets
<1>2. QueueSize' = QueueSize /\ \A j : SlotAt(j)' = SlotAt(j)
  BY DEF MoveToTop, QueueSize, SlotAt, Back
<1>3. buffer' = Rotated(k)
  BY DEF MoveToTop
<1> DEFINE New(i) == CASE i = 1 -> Contents[k + 1]
                       [] i \in 2..(k + 1) -> Contents[i - 1]
                       [] OTHER -> Contents[i]
<1>4. ASSUME NEW i \in 1..QueueSize
      PROVE  Rotated(k)[SlotAt(i - 1)] = New(i)
  <2>1. i - 1 \in 0..(Size - 2) /\ i - 1 \in 0..(Size - 1) /\ 0 \in 0..(Size - 2)
    BY <1>1, FixedQueueAssumption
  <2>2. SlotAt(i - 1) \in Slots
    BY <2>1, SlotAtType
  <2>3. CASE i = 1
    <3>1. Rotated(k)[SlotAt(i - 1)] = buffer[SlotAt(k)]
      BY <2>2, <2>3 DEF Rotated
    <3>2. Contents[k + 1] = buffer[SlotAt(k)]
      <4>1. k + 1 \in 1..QueueSize /\ (k + 1) - 1 = k
        BY <1>1
      <4>2. QED
        BY <4>1 DEF Contents
    <3>3. QED
      BY <2>3, <3>1, <3>2
  <2>4. CASE i \in 2..(k + 1)
    <3>1. i - 1 \in 1..k /\ i - 1 \in 1..(Size - 2) /\ SlotAt(i - 1) # SlotAt(0)
      BY <1>1, <2>1, <2>4, SlotsDiffer
    <3>2. Rotated(k)[SlotAt(i - 1)] = buffer[After(SlotAt(i - 1))]
      BY <2>2, <3>1 DEF Rotated
    <3>3. After(SlotAt(i - 1)) = SlotAt((i - 1) - 1)
      BY <3>1, AfterSlotAt
    <3>4. Contents[i - 1] = buffer[SlotAt((i - 1) - 1)]
      <4>1. i - 1 \in 1..QueueSize
        BY <1>1, <3>1
      <4>2. QED
        BY <4>1 DEF Contents
    <3>5. i # 1
      BY <2>4
    <3>6. QED
      BY <2>4, <3>2, <3>3, <3>4, <3>5
  <2>5. CASE i > k + 1
    <3>1. SlotAt(i - 1) # SlotAt(0)
      BY <1>1, <2>1, <2>5, SlotsDiffer
    <3>2. ASSUME NEW j \in 1..k PROVE SlotAt(i - 1) # SlotAt(j)
      <4>1. j \in 0..(Size - 2) /\ i - 1 # j
        BY <1>1, <2>5, FixedQueueAssumption
      <4>2. QED
        BY <2>1, <4>1, SlotsDiffer
    <3>3. Rotated(k)[SlotAt(i - 1)] = buffer[SlotAt(i - 1)]
      BY <2>2, <3>1, <3>2 DEF Rotated
    <3>4. Contents[i] = buffer[SlotAt(i - 1)]
      BY DEF Contents
    <3>5. i # 1 /\ i \notin 2..(k + 1)
      BY <1>1, <2>5
    <3>6. QED
      BY <3>3, <3>4, <3>5
  <2>6. QED
    BY <1>1, <2>3, <2>4, <2>5
<1>5. Contents' = [i \in 1..QueueSize |-> Rotated(k)[SlotAt(i - 1)]]
  BY <1>2, <1>3 DEF Contents
<1> HIDE DEF New
<1>6. Contents' = [i \in 1..QueueSize |-> New(i)]
  BY <1>4, <1>5
<1>7. QED
  BY <1>6 DEF New

LEMMA Unchanged ==
  ASSUME TypeOK, \/ UNCHANGED vars
                 \/ \E k \in Slots \ (Offsets \ {0}) : MoveToTop(k)
  PROVE  Contents' = Contents
<1>1. UNCHANGED vars
  BY DEF vars, MoveToTop
<1>2. QED
  BY <1>1 DEF vars, Contents, QueueSize, SlotAt, Back

LEMMA ResetContents ==
  ASSUME Reset
  PROVE  Contents' = <<>>
<1>1. QueueSize' = 0
  BY DEF Reset, QueueSize
<1>2. QED
  BY <1>1 DEF Contents

-----------------------------------------------------------------------------
(* Nothing is visible that was not pushed.                                 *)

Visible == TypeOK /\ NoBlankVisible

\* NoBlankVisible speaks of the contents alone.
LEMMA VisibleContents ==
  ASSUME TypeOK
  PROVE  /\ NoBlankVisible <=> \A i \in 1..QueueSize : Contents[i] \in Items
         /\ NoBlankVisible <=> Contents \in [1..QueueSize -> Items]
         /\ QueueSize \in Nat
BY SizeRange, FixedQueueAssumption DEF NoBlankVisible, Contents

LEMMA InitVisible == Init => Visible
<1> SUFFICES ASSUME Init PROVE Visible
  OBVIOUS
<1>1. TypeOK
  BY FixedQueueAssumption DEF Init, TypeOK, Slots
<1>2. QueueSize = 0
  BY DEF Init, QueueSize
<1>3. QED
  BY <1>1, <1>2 DEF Visible, NoBlankVisible

LEMMA NextVisible == Visible /\ TypeOK' /\ [Next]_vars => Visible'
<1> SUFFICES ASSUME Visible, TypeOK', [Next]_vars PROVE NoBlankVisible'
  BY DEF Visible
<1>1. TypeOK /\ QueueSize \in 0..(Size - 1) /\ QueueSize' \in 0..(Size - 1)
  BY SizeRange, NextSizeRange DEF Visible
<1>2. \A i \in 1..QueueSize : Contents[i] \in Items
  BY DEF Visible, NoBlankVisible
<1>3. ASSUME NEW d \in Items, Push(d) PROVE NoBlankVisible'
  <2>1. QueueSize' <= QueueSize + 1
    BY <1>1, <1>3, PushSize, FixedQueueAssumption DEF Push
  <2>2. \A i \in 1..QueueSize' : i # 1 => i - 1 \in 1..QueueSize
    BY <1>1, <2>1, FixedQueueAssumption
  <2>3. \A i \in 1..QueueSize' : Contents'[i] = IF i = 1 THEN d ELSE Contents[i - 1]
    BY <1>1, <1>3, PushContents
  <2>4. QED
    BY <1>2, <2>2, <2>3 DEF NoBlankVisible
<1>4. CASE Pop
  <2>1. QueueSize' = QueueSize - 1
    BY <1>1, <1>4, FixedQueueAssumption DEF TypeOK, Slots, Pop, QueueSize, After
  <2>2. \A i \in 1..QueueSize' : i \in 1..QueueSize /\ Contents'[i] = Contents[i]
    BY <1>1, <1>4, <2>1, PopContents, FixedQueueAssumption
  <2>3. QED
    BY <1>2, <2>2 DEF NoBlankVisible
<1>5. CASE Reset
  <2>1. QueueSize' = 0
    BY <1>5 DEF Reset, QueueSize
  <2>2. QED
    BY <2>1 DEF NoBlankVisible
<1>6. ASSUME NEW k \in Offsets \ {0}, MoveToTop(k) PROVE NoBlankVisible'
  <2>1. QueueSize' = QueueSize /\ k \in 1..(QueueSize - 1)
    BY <1>1, <1>6, FixedQueueAssumption DEF MoveToTop, QueueSize, Offsets
  <2>2. ASSUME NEW i \in 1..QueueSize PROVE Contents'[i] \in Items
    <3>1. k + 1 \in 1..QueueSize /\ (i # 1 => i - 1 \in 1..QueueSize)
      BY <1>1, <2>1
    <3>2. Contents'[i] = CASE i = 1 -> Contents[k + 1]
                           [] i \in 2..(k + 1) -> Contents[i - 1]
                           [] OTHER -> Contents[i]
      BY <1>1, <1>6, MoveToTopContents
    <3>3. CASE i = 1
      BY <1>2, <3>1, <3>2, <3>3
    <3>4. CASE i # 1 /\ i \in 2..(k + 1)
      BY <1>2, <3>1, <3>2, <3>4
    <3>5. CASE i # 1 /\ i \notin 2..(k + 1)
      BY <1>2, <3>2, <3>5
    <3>6. QED
      BY <3>3, <3>4, <3>5
  <2>3. QED
    BY <2>1, <2>2 DEF NoBlankVisible
<1>7. CASE \/ UNCHANGED vars
           \/ \E k \in Slots \ (Offsets \ {0}) : MoveToTop(k)
  <2>1. Contents' = Contents
    BY <1>1, <1>7, Unchanged
  <2>2. QueueSize' = QueueSize
    BY <1>7 DEF vars, MoveToTop, QueueSize
  <2>3. QED
    BY <1>2, <2>1, <2>2 DEF NoBlankVisible
<1>8. QED
  BY <1>3, <1>4, <1>5, <1>6, <1>7 DEF Next

\* Every slot that peek, peekn and get_index can see holds an item that was
\* pushed (fixed_queue.c:17-22, :80-115).
THEOREM OnlyPushedItems == Spec => []NoBlankVisible
<1>1. Init => Visible
  BY InitVisible
<1>2. Visible /\ TypeOK' /\ [Next]_vars => Visible'
  BY NextVisible
<1>3. Visible => NoBlankVisible
  BY DEF Visible
<1>4. QED
  BY <1>1, <1>2, <1>3, TypeCorrect, PTL DEF Spec

-----------------------------------------------------------------------------
(* The ring implements the list.                                           *)

LEMMA ContentsIsSeq ==
  ASSUME Visible
  PROVE  /\ Contents \in Seq(Items) /\ Len(Contents) = QueueSize
         /\ QueueSize \in 0..(Size - 1)
<1>1. QueueSize \in 0..(Size - 1) /\ QueueSize \in Nat
  BY SizeRange, FixedQueueAssumption DEF Visible
<1>2. Contents \in [1..QueueSize -> Items]
  BY VisibleContents DEF Visible
<1>3. QED
  BY <1>1, <1>2

\* A new item in front of a sequence that is cut to n items.
LEMMA PrefixOfPushed ==
  ASSUME NEW s \in Seq(Items), NEW d \in Items, NEW n \in Nat \ {0}
  PROVE  List!Prefix(<<d>> \o s, n) =
           [i \in 1..(IF Len(s) + 1 <= n THEN Len(s) + 1 ELSE n) |->
              IF i = 1 THEN d ELSE s[i - 1]]
<1> DEFINE all == <<d>> \o s
           m == IF Len(s) + 1 <= n THEN Len(s) + 1 ELSE n
<1>1. /\ all \in Seq(Items) /\ Len(all) = Len(s) + 1
      /\ \A i \in 1..Len(all) : all[i] = IF i = 1 THEN d ELSE s[i - 1]
  OBVIOUS
<1>2. m \in 1..Len(all) /\ m \in Nat
  BY <1>1
<1>3. List!Prefix(all, n) = SubSeq(all, 1, m)
  BY <1>1 DEF List!Prefix
<1> HIDE DEF all, m
<1>4. SubSeq(all, 1, m) = [i \in 1..m |-> all[i]]
  BY <1>1, <1>2
<1>5. \A i \in 1..m : all[i] = IF i = 1 THEN d ELSE s[i - 1]
  BY <1>1, <1>2
<1>6. List!Prefix(all, n) = [i \in 1..m |-> IF i = 1 THEN d ELSE s[i - 1]]
  BY <1>3, <1>4, <1>5
<1>7. QED
  BY <1>6 DEF all, m

LEMMA InitImplements == Init => List!Init
<1> SUFFICES ASSUME Init PROVE Contents = <<>>
  BY DEF List!Init
<1>1. QueueSize = 0
  BY DEF Init, QueueSize
<1>2. QED
  BY <1>1 DEF Contents

LEMMA NextImplements == Visible /\ [Next]_vars => [List!Next]_Contents
<1> SUFFICES ASSUME Visible, [Next]_vars PROVE List!Next \/ Contents' = Contents
  OBVIOUS
<1>1. /\ TypeOK /\ Contents \in Seq(Items) /\ Len(Contents) = QueueSize
      /\ QueueSize \in 0..(Size - 1)
  BY ContentsIsSeq DEF Visible
<1>2. ASSUME NEW d \in Items, Push(d) PROVE List!Push(d)
  <2>1. Size - 1 \in Nat \ {0}
    BY FixedQueueAssumption
  <2>2. QueueSize' = IF Len(Contents) + 1 <= Size - 1 THEN Len(Contents) + 1 ELSE Size - 1
    BY <1>1, <1>2, PushSize, FixedQueueAssumption DEF Push
  <2>3. Contents' = [i \in 1..QueueSize' |-> IF i = 1 THEN d ELSE Contents[i - 1]]
    BY <1>1, <1>2, PushContents
  <2>4. QED
    BY <1>1, <2>1, <2>2, <2>3, PrefixOfPushed DEF List!Push
<1>3. CASE Pop
  <2>1. QueueSize # 0 /\ Contents' = [i \in 1..(QueueSize - 1) |-> Contents[i]]
    BY <1>1, <1>3, PopContents
  <2>2. SubSeq(Contents, 1, QueueSize - 1) = [i \in 1..(QueueSize - 1) |-> Contents[i]]
    BY <1>1, <2>1
  <2>3. List!Pop
    BY <1>1, <2>1, <2>2 DEF List!Pop
  <2>4. QED
    BY <2>3 DEF List!Next
<1>4. CASE Reset
  BY <1>4, ResetContents DEF List!Next, List!Clear
<1>5. ASSUME NEW k \in Offsets \ {0}, MoveToTop(k) PROVE List!Next
  <2>1. k + 1 \in 1..Len(Contents) /\ Len(Contents) = QueueSize
    BY <1>1, FixedQueueAssumption DEF Offsets
  <2>2. List!MoveToTop(k + 1)
    BY <1>1, <1>5, <2>1, MoveToTopContents DEF List!MoveToTop
  <2>3. QED
    BY <2>1, <2>2 DEF List!Next
<1>6. CASE \/ UNCHANGED vars
           \/ \E k \in Slots \ (Offsets \ {0}) : MoveToTop(k)
  BY <1>1, <1>6, Unchanged
<1>7. QED
  BY <1>2, <1>3, <1>4, <1>5, <1>6 DEF Next, List!Next

\* fixed_queue.c is the bounded list of the newest items, for every size of
\* the ring: pushes, pops and rotations do to the items what RecencyList says
\* wherever the indexes are (fixed_queue.c:12-115).
THEOREM RingIsRecencyList == Spec => ImplementsRecencyList
<1>1. Init => List!Init
  BY InitImplements
<1>2. Visible /\ [Next]_vars => [List!Next]_Contents
  BY NextImplements
<1>3. Init => Visible
  BY InitVisible
<1>4. Visible /\ TypeOK' /\ [Next]_vars => Visible'
  BY NextVisible
<1>5. QED
  BY <1>1, <1>2, <1>3, <1>4, TypeCorrect, PTL DEF Spec, ImplementsRecencyList, List!Spec

-----------------------------------------------------------------------------
(* The history of the shells.                                              *)

\* fixed_queue_get_index finds an item if and only if it is there.
LEMMA IndexFinds ==
  ASSUME TypeOK, NEW d
  PROVE  /\ GetIndex(d) < 0 => \A i \in 1..QueueSize : Contents[i] # d
         /\ GetIndex(d) >= 0 => GetIndex(d) \in Offsets /\ Contents[GetIndex(d) + 1] = d
         /\ GetIndex(d) \in Int
<1>1. QueueSize \in Nat /\ Offsets \subseteq Nat
  BY SizeRange, FixedQueueAssumption DEF Offsets
<1>2. CASE IndexOf(d) = {}
  <2>1. ASSUME NEW i \in 1..QueueSize PROVE Contents[i] # d
    <3>1. i - 1 \in Offsets /\ Contents[i] = buffer[SlotAt(i - 1)]
      BY <1>1 DEF Offsets, Contents
    <3>2. QED
      BY <1>2, <3>1 DEF IndexOf
  <2>2. GetIndex(d) = -1
    BY <1>2 DEF GetIndex
  <2>3. QED
    BY <2>1, <2>2
<1>3. CASE IndexOf(d) # {}
  <2>1. IndexOf(d) \subseteq Nat /\ IndexOf(d) \subseteq Offsets
    BY <1>1 DEF IndexOf
  <2>2. \E k \in IndexOf(d) : \A j \in IndexOf(d) : k <= j
    BY <1>3, <2>1, LeastNat
  <2>3. GetIndex(d) \in IndexOf(d)
    BY <1>3, <2>2 DEF GetIndex
  <2>4. PICK k \in Offsets : k = GetIndex(d) /\ buffer[SlotAt(k)] = d
    BY <2>3 DEF IndexOf
  <2>5. k + 1 \in 1..QueueSize /\ (k + 1) - 1 = k /\ k \in Nat
    BY <1>1 DEF Offsets
  <2>6. Contents[k + 1] = d
    BY <2>4, <2>5 DEF Contents
  <2>7. QED
    BY <2>4, <2>5, <2>6
<1>4. QED
  BY <1>2, <1>3

\* The history does to the ring what the ring allows.
LEMMA HistorySteps ==
  ASSUME TypeOK, [HistoryNext]_historyVars
  PROVE  [Next]_vars
<1>1. ASSUME NEW c \in Commands, Execute(c) PROVE Next
  <2>1. CASE Push(c)
    BY <2>1 DEF Next, Commands
  <2>2. CASE GetIndex(c) >= 0 /\ MoveToTop(GetIndex(c))
    <3>1. GetIndex(c) \in Slots
      BY <2>2, IndexFinds, SizeRange, FixedQueueAssumption DEF Offsets, Slots
    <3>2. QED
      BY <2>2, <3>1 DEF Next
  <2>3. QED
    BY <1>1, <2>1, <2>2 DEF Execute, Remember
<1>2. CASE Prev \/ GetNext
  BY <1>2 DEF Prev, GetNext, queue, vars
<1>3. CASE UNCHANGED historyVars
  BY <1>3 DEF historyVars, queue, vars
<1>4. QED
  BY <1>1, <1>2, <1>3 DEF HistoryNext

\* What Up and Down fetch is in the ring.
LEMMA RecalledType ==
  ASSUME TypeOK, NEW offset \in Offsets
  PROVE  Peekn(offset, NoLine) \in Commands \cup {NoLine}
<1>1. SlotAt(offset) \in Slots
  BY SlotAtType, SizeRange, FixedQueueAssumption DEF Offsets
<1>2. QED
  BY <1>1 DEF Peekn, TypeOK, Commands, NoLine

LEMMA HistoryNextType ==
  ASSUME HistoryTypeOK, [HistoryNext]_historyVars
  PROVE  HistoryTypeOK'
<1>1. TypeOK /\ QueueSize \in Nat /\ history_offset \in 0..QueueSize
  BY SizeRange DEF HistoryTypeOK
<1>2. TypeOK'
  BY <1>1, HistorySteps, NextType
<1>3. QueueSize' \in Nat
  BY <1>2, NextSizeRange
<1>4. ASSUME NEW c \in Commands, Execute(c) PROVE HistoryTypeOK'
  BY <1>2, <1>3, <1>4 DEF Execute, HistoryTypeOK
<1>5. ASSUME UNCHANGED queue PROVE QueueSize' = QueueSize
  BY <1>5 DEF queue, vars, QueueSize
<1>6. CASE Prev
  <2>1. history_offset < QueueSize => history_offset \in Offsets
    BY <1>1 DEF Offsets
  <2>2. recalled' \in Commands \cup {NoLine}
    BY <1>1, <1>6, <2>1, RecalledType DEF Prev
  <2>3. history_offset' \in 0..QueueSize
    BY <1>1, <1>6 DEF Prev
  <2>4. QED
    BY <1>2, <1>5, <1>6, <2>2, <2>3 DEF Prev, HistoryTypeOK
<1>7. CASE GetNext
  <2>1. history_offset # 0 => history_offset - 1 \in Offsets
    BY <1>1 DEF Offsets
  <2>2. recalled' \in Commands \cup {NoLine}
    BY <1>1, <1>7, <2>1, RecalledType DEF GetNext
  <2>3. history_offset' \in 0..QueueSize
    BY <1>1, <1>7 DEF GetNext
  <2>4. QED
    BY <1>2, <1>5, <1>7, <2>2, <2>3 DEF GetNext, HistoryTypeOK
<1>8. CASE UNCHANGED historyVars
  BY <1>2, <1>5, <1>8 DEF historyVars, HistoryTypeOK
<1>9. QED
  BY <1>4, <1>6, <1>7, <1>8 DEF HistoryNext

\* The offset of the arrow keys stays within the history, and what they fetch
\* is a command or none (shell/shell.c, shell2/shell.c: history_offset).
THEOREM HistoryTypeCorrect == HistorySpec => []HistoryTypeOK
<1>1. HistoryInit => HistoryTypeOK
  <2> SUFFICES ASSUME HistoryInit PROVE HistoryTypeOK
    OBVIOUS
  <2>1. TypeOK
    BY InitType DEF HistoryInit
  <2>2. QueueSize \in Nat
    BY <2>1, SizeRange
  <2>3. QED
    BY <2>1, <2>2 DEF HistoryInit, HistoryTypeOK
<1>2. HistoryTypeOK /\ [HistoryNext]_historyVars => HistoryTypeOK'
  BY HistoryNextType
<1>3. QED
  BY <1>1, <1>2, PTL DEF HistorySpec

\* The history is the list of the most recent commands (shell.c:160-176,
\* fixed_queue.c:12-115).
THEOREM HistoryIsRecencyList == HistorySpec => ImplementsRecencyList
<1>1. HistoryInit => Init
  BY DEF HistoryInit
<1>2. HistoryTypeOK /\ [HistoryNext]_historyVars => [Next]_vars
  BY HistorySteps DEF HistoryTypeOK
<1>3. HistorySpec => Spec
  BY <1>1, <1>2, HistoryTypeCorrect, PTL DEF HistorySpec, Spec
<1>4. QED
  BY <1>3, RingIsRecencyList, PTL

-----------------------------------------------------------------------------
(* No command twice.                                                       *)

\* A new item in front of others.
LEMMA PushDistinct ==
  ASSUME TypeOK, TypeOK', NoDuplicates, NEW d, Push(d),
         \A i \in 1..QueueSize : Contents[i] # d
  PROVE  NoDuplicates'
<1>1. /\ QueueSize' \in 0..(Size - 1) /\ QueueSize \in 0..(Size - 1)
      /\ QueueSize' <= QueueSize + 1
  BY SizeRange, PushSize, NextSizeRange, FixedQueueAssumption DEF Push
<1>2. Contents' = [i \in 1..QueueSize' |-> IF i = 1 THEN d ELSE Contents[i - 1]]
  BY PushContents
<1>3. \A i \in 1..QueueSize' : i # 1 => i - 1 \in 1..QueueSize
  BY <1>1, FixedQueueAssumption
<1>4. DOMAIN Contents = 1..QueueSize
  BY DEF Contents
<1>5. ASSUME NEW i \in 1..QueueSize', NEW j \in 1..QueueSize', Contents'[i] = Contents'[j]
      PROVE  i = j
  <2>1. Contents'[i] = IF i = 1 THEN d ELSE Contents[i - 1]
    BY <1>2
  <2>2. Contents'[j] = IF j = 1 THEN d ELSE Contents[j - 1]
    BY <1>2
  <2>3. i # 1 /\ j # 1 => i - 1 = j - 1
    BY <1>3, <1>4, <1>5, <2>1, <2>2 DEF NoDuplicates
  <2>4. (i = 1) <=> (j = 1)
    BY <1>3, <1>5, <2>1, <2>2
  <2>5. i \in Int /\ j \in Int
    BY <1>1
  <2>6. QED
    BY <2>3, <2>4, <2>5
<1>6. DOMAIN Contents' = 1..QueueSize'
  BY <1>2
<1>7. QED
  BY <1>5, <1>6 DEF NoDuplicates

\* A rotation only moves items.
LEMMA RotationDistinct ==
  ASSUME TypeOK, NoDuplicates, NEW k \in Offsets \ {0}, MoveToTop(k)
  PROVE  NoDuplicates'
<1>1. QueueSize \in Nat /\ k \in 1..(QueueSize - 1)
  BY SizeRange, FixedQueueAssumption DEF Offsets
<1> DEFINE from(i) == IF i = 1 THEN k + 1 ELSE IF i <= k + 1 THEN i - 1 ELSE i
<1>2. \A i \in 1..QueueSize : from(i) \in 1..QueueSize
  BY <1>1
<1>3. \A i, j \in 1..QueueSize : from(i) = from(j) => i = j
  BY <1>1
<1>4. ASSUME NEW i \in 1..QueueSize PROVE Contents'[i] = Contents[from(i)]
  <2>1. Contents' = [x \in 1..QueueSize |->
                       CASE x = 1 -> Contents[k + 1]
                         [] x \in 2..(k + 1) -> Contents[x - 1]
                         [] OTHER -> Contents[x]]
    BY MoveToTopContents
  <2>2. Contents'[i] = CASE i = 1 -> Contents[k + 1]
                         [] i \in 2..(k + 1) -> Contents[i - 1]
                         [] OTHER -> Contents[i]
    BY <2>1
  <2>3. i \in 2..(k + 1) <=> (i # 1 /\ i <= k + 1)
    BY <1>1
  <2>4. QED
    BY <2>2, <2>3
<1> HIDE DEF from
<1>5. DOMAIN Contents = 1..QueueSize /\ DOMAIN Contents' = 1..QueueSize
  BY DEF Contents, MoveToTop, QueueSize
<1>6. QED
  BY <1>2, <1>3, <1>4, <1>5 DEF NoDuplicates

LEMMA NextDistinct ==
  ASSUME HistoryTypeOK, HistoryTypeOK', NoDuplicates, [HistoryNext]_historyVars
  PROVE  NoDuplicates'
<1>1. TypeOK /\ TypeOK'
  BY DEF HistoryTypeOK
<1>2. ASSUME UNCHANGED vars PROVE NoDuplicates'
  <2>1. Contents' = Contents
    BY <1>1, <1>2, Unchanged
  <2>2. QED
    BY <2>1 DEF NoDuplicates
<1>3. ASSUME NEW c \in Commands, Execute(c) PROVE NoDuplicates'
  <2>1. CASE GetIndex(c) < 0 /\ Push(c)
    BY <1>1, <2>1, IndexFinds, PushDistinct
  <2>2. CASE GetIndex(c) >= 0 /\ MoveToTop(GetIndex(c))
    <3>1. CASE GetIndex(c) \in Offsets \ {0}
      BY <1>1, <2>2, <3>1, RotationDistinct
    <3>2. CASE GetIndex(c) \notin Offsets \ {0}
      BY <1>2, <2>2, <3>2 DEF MoveToTop, vars
    <3>3. QED
      BY <3>1, <3>2
  <2>3. QED
    BY <1>3, <2>1, <2>2 DEF Execute, Remember
<1>4. CASE Prev \/ GetNext \/ UNCHANGED historyVars
  BY <1>2, <1>4 DEF Prev, GetNext, queue, historyVars
<1>5. QED
  BY <1>3, <1>4 DEF HistoryNext

\* For every size of the history: no command is in it twice, although nothing
\* is ever removed from the ring but its oldest item (shell.c:171-175).
THEOREM NeverTwice == HistorySpec => []NoDuplicates
<1>1. HistoryInit => NoDuplicates
  <2> SUFFICES ASSUME HistoryInit PROVE NoDuplicates
    OBVIOUS
  <2>1. QueueSize = 0
    BY DEF HistoryInit, Init, QueueSize
  <2>2. QED
    BY <2>1 DEF NoDuplicates, Contents
<1>2. HistoryTypeOK /\ HistoryTypeOK' /\ NoDuplicates /\ [HistoryNext]_historyVars
        => NoDuplicates'
  BY NextDistinct
<1>3. QED
  BY <1>1, <1>2, HistoryTypeCorrect, PTL DEF HistorySpec

-----------------------------------------------------------------------------
(* The keys that bytes stand for.                                          *)

\* The keys that the first bytes stand for.
LEMMA KeysUnfold ==
  ASSUME NEW s, Len(s) \in Nat
  PROVE  \E t : /\ t[0] = <<>> /\ KeysIn(s) = t[Len(s)]
                /\ \A n \in 1..Len(s) :
                     t[n] = IF s[n] \in {"ESC", "["} THEN t[n - 1] ELSE Append(t[n - 1], s[n])
<1> DEFINE N == Len(s)
           Add(n, keys) == IF s[n] \in {"ESC", "["} THEN keys ELSE Append(keys, s[n])
           IsUpTo(m, g) == /\ g = [n \in 0..N |-> g[n]]
                           /\ g[0] = <<>>
                           /\ \A n \in 1..m : g[n] = Add(n, g[n - 1])
           Bad == {m \in 0..N : \A g : ~IsUpTo(m, g)}
           Solves(w) == w = [n \in 0..N |-> IF n = 0 THEN <<>> ELSE Add(n, w[n - 1])]
<1>1. N \in Nat
  OBVIOUS
<1>2. PICK w : w = CHOOSE v : Solves(v)
  OBVIOUS
<1>3. KeysIn(s) = w[N]
  BY <1>2 DEF KeysIn
<1> HIDE DEF Add, N
<1>4. Bad = {}
  <2>1. SUFFICES ASSUME Bad # {} PROVE FALSE
    OBVIOUS
  <2>2. PICK m \in Bad : \A k \in Bad : m <= k
    <3>1. Bad \subseteq Nat
      BY <1>1
    <3>2. QED
      BY <2>1, <3>1, LeastNat
  <2>3. m # 0
    <3>1. IsUpTo(0, [n \in 0..N |-> <<>>])
      BY <1>1
    <3>2. QED
      BY <2>2, <3>1
  <2>4. m - 1 \in 0..N /\ m - 1 \notin Bad /\ m \in 1..N
    BY <1>1, <2>2, <2>3
  <2>5. PICK g : IsUpTo(m - 1, g)
    BY <2>4
  <2>6. PICK h : h = [n \in 0..N |-> IF n = m THEN Add(m, g[m - 1]) ELSE g[n]]
    OBVIOUS
  <2>7. h = [n \in 0..N |-> h[n]]
    BY <2>6
  <2>8. h[0] = <<>>
    BY <1>1, <2>4, <2>5, <2>6
  <2>9. ASSUME NEW n \in 1..m
        PROVE  h[n] = Add(n, h[n - 1])
    <3>1. n \in 0..N /\ n - 1 \in 0..N /\ n - 1 # m
      BY <1>1, <2>4
    <3>2. h[n - 1] = g[n - 1] /\ h[n] = IF n = m THEN Add(m, g[m - 1]) ELSE g[n]
      BY <2>6, <3>1
    <3>3. n # m => g[n] = Add(n, g[n - 1])
      <4>1. \A k \in 1..(m - 1) : g[k] = Add(k, g[k - 1])
        BY <2>5, Zenon
      <4>2. n # m => n \in 1..(m - 1)
        BY <2>4
      <4>3. QED
        BY <4>1, <4>2
    <3>4. QED
      BY <3>2, <3>3
  <2>10. IsUpTo(m, h)
    BY <2>7, <2>8, <2>9
  <2>11. QED
    BY <2>2, <2>10
<1>5. PICK g : IsUpTo(N, g)
  BY <1>1, <1>4
<1>6. \A n \in 0..N : g[n] = IF n = 0 THEN <<>> ELSE Add(n, g[n - 1])
  <2>1. ASSUME NEW n \in 0..N, n # 0
        PROVE  g[n] = Add(n, g[n - 1])
    <3>1. n \in 1..N
      BY <1>1, <2>1
    <3>2. QED
      BY <1>5, <3>1
  <2>2. QED
    BY <1>5, <2>1
<1>7. Solves(g)
  BY <1>5, <1>6
<1>8. Solves(w)
  <2>1. \E v : Solves(v)
    BY <1>7, Zenon
  <2> HIDE DEF Solves
  <2>2. QED
    BY <1>2, <2>1, Zenon
<1>9. \A n \in 0..N : w[n] = IF n = 0 THEN <<>> ELSE Add(n, w[n - 1])
  BY <1>8, Zenon
<1>10. 0 \in 0..N /\ \A n \in 1..N : n # 0 /\ n \in 0..N
  BY <1>1
<1>11. w[0] = <<>> /\ \A n \in 1..N : w[n] = Add(n, w[n - 1])
  BY <1>9, <1>10, Zenon
<1>12. QED
  BY <1>3, <1>11, Zenon DEF Add, N

LEMMA KeysOfNone == KeysIn(<<>>) = <<>>
<1>1. Len(<<>>) = 0
  OBVIOUS
<1>2. QED
  BY <1>1, KeysUnfold

\* One byte more at the end.
LEMMA KeysAtEnd ==
  ASSUME NEW B, NEW s \in Seq(B), NEW b \in B
  PROVE  KeysIn(Append(s, b)) = IF b \in {"ESC", "["} THEN KeysIn(s) ELSE Append(KeysIn(s), b)
<1> DEFINE Add(c, keys) == IF c \in {"ESC", "["} THEN keys ELSE Append(keys, c)
           N == Len(s)
<1>1. PICK r : r = Append(s, b)
  OBVIOUS
<1>2. N \in Nat /\ Len(r) = N + 1 /\ r[N + 1] = b /\ \A n \in 1..N : r[n] = s[n]
  BY <1>1
<1>3. PICK t : /\ t[0] = <<>> /\ KeysIn(s) = t[N]
               /\ \A n \in 1..N : t[n] = Add(s[n], t[n - 1])
  BY <1>2, KeysUnfold
<1>4. PICK u : /\ u[0] = <<>> /\ KeysIn(r) = u[N + 1]
               /\ \A n \in 1..(N + 1) : u[n] = Add(r[n], u[n - 1])
  <2>1. Len(r) \in Nat
    BY <1>2
  <2>2. QED
    BY <1>2, <2>1, KeysUnfold
<1> HIDE DEF Add, N
<1> DEFINE Bad == {n \in 0..N : t[n] # u[n]}
<1>5. Bad = {}
  <2>1. SUFFICES ASSUME Bad # {} PROVE FALSE
    OBVIOUS
  <2>2. PICK m \in Bad : \A k \in Bad : m <= k
    <3>1. Bad \subseteq Nat
      BY <1>2
    <3>2. QED
      BY <2>1, <3>1, LeastNat
  <2>3. m \in 1..N /\ m \in 1..(N + 1) /\ m - 1 \in 0..N /\ m - 1 \notin Bad
    BY <1>2, <1>3, <1>4, <2>2
  <2>4. t[m] = Add(s[m], t[m - 1]) /\ u[m] = Add(r[m], u[m - 1]) /\ r[m] = s[m]
    BY <1>2, <1>3, <1>4, <2>3
  <2>5. QED
    BY <2>2, <2>3, <2>4
<1>6. t[N] = u[N]
  BY <1>2, <1>5
<1>7. N + 1 \in 1..(N + 1) /\ (N + 1) - 1 = N
  BY <1>2
<1>8. KeysIn(r) = Add(b, u[N])
  BY <1>2, <1>4, <1>7
<1>9. QED
  BY <1>1, <1>3, <1>6, <1>8 DEF Add

\* One byte more in front.
LEMMA KeysInFront ==
  ASSUME NEW B, NEW s \in Seq(B), NEW b \in B
  PROVE  /\ KeysIn(<<b>> \o s) = IF b \in {"ESC", "["} THEN KeysIn(s) ELSE <<b>> \o KeysIn(s)
         /\ KeysIn(s) \in Seq(B)
<1> DEFINE Add(c, keys) == IF c \in {"ESC", "["} THEN keys ELSE Append(keys, c)
           N == Len(s)
<1>1. PICK r : r = <<b>> \o s
  OBVIOUS
<1>2. /\ N \in Nat /\ Len(r) = N + 1 /\ r[1] = b
      /\ \A n \in 1..N : r[n + 1] = s[n] /\ s[n] \in B
  BY <1>1
<1>3. PICK t : /\ t[0] = <<>> /\ KeysIn(s) = t[N]
               /\ \A n \in 1..N : t[n] = Add(s[n], t[n - 1])
  BY <1>2, KeysUnfold
<1>4. PICK u : /\ u[0] = <<>> /\ KeysIn(r) = u[N + 1]
               /\ \A n \in 1..(N + 1) : u[n] = Add(r[n], u[n - 1])
  <2>1. Len(r) \in Nat
    BY <1>2
  <2>2. QED
    BY <1>2, <2>1, KeysUnfold
<1>5. PICK front : front = Add(b, <<>>)
  OBVIOUS
<1>6. front \in Seq(B) /\ front = IF b \in {"ESC", "["} THEN <<>> ELSE <<b>>
  BY <1>5
<1>7. \A c \in B, keys \in Seq(B) :
        Add(c, keys) \in Seq(B) /\ Add(c, front \o keys) = front \o Add(c, keys)
  <2>1. ASSUME NEW c \in B, NEW keys \in Seq(B)
        PROVE  Append(keys, c) \in Seq(B) /\ Append(front \o keys, c) = front \o Append(keys, c)
    BY <1>6
  <2>2. QED
    BY <2>1
<1> HIDE DEF Add, N
<1> DEFINE Bad == {n \in 0..N : ~(t[n] \in Seq(B) /\ u[n + 1] = front \o t[n])}
<1>8. 0 \notin Bad
  <2>1. u[1] = Add(r[1], u[0])
    <3>1. 1 \in 1..(N + 1) /\ 1 - 1 = 0
      BY <1>2
    <3>2. QED
      BY <1>4, <3>1
  <2>2. u[1] = front
    BY <1>2, <1>4, <1>5, <2>1
  <2>3. u[0 + 1] = front \o t[0]
    BY <1>3, <1>6, <2>2
  <2>4. t[0] \in Seq(B)
    BY <1>3
  <2>5. QED
    BY <2>3, <2>4
<1>9. Bad = {}
  <2>1. SUFFICES ASSUME Bad # {} PROVE FALSE
    OBVIOUS
  <2>2. PICK m \in Bad : \A k \in Bad : m <= k
    <3>1. Bad \subseteq Nat
      BY <1>2
    <3>2. QED
      BY <2>1, <3>1, LeastNat
  <2>3. /\ m \in 1..N /\ m + 1 \in 1..(N + 1) /\ m - 1 \in 0..N /\ m - 1 \notin Bad
        /\ (m - 1) + 1 = m /\ (m + 1) - 1 = m
    <3>1. m \in 0..N /\ m # 0
      BY <1>8, <2>2
    <3>2. m \in 1..N /\ m - 1 \in 0..N /\ ~(m <= m - 1)
      BY <1>2, <3>1
    <3>3. m - 1 \notin Bad
      BY <2>2, <3>2
    <3>4. m + 1 \in 1..(N + 1) /\ (m - 1) + 1 = m /\ (m + 1) - 1 = m
      BY <1>2, <3>2
    <3>5. QED
      BY <3>2, <3>3, <3>4
  <2>4. t[m] = Add(s[m], t[m - 1]) /\ u[m + 1] = Add(s[m], u[m]) /\ s[m] \in B
    BY <1>2, <1>3, <1>4, <2>3
  <2>5. t[m - 1] \in Seq(B) /\ u[m] = front \o t[m - 1]
    BY <2>3
  <2>6. QED
    BY <1>7, <2>2, <2>4, <2>5
<1>10. t[N] \in Seq(B) /\ u[N + 1] = front \o t[N]
  <2>1. N \in 0..N
    BY <1>2
  <2>2. N \notin Bad
    BY <1>9, Zenon
  <2>3. QED
    BY <2>1, <2>2, Zenon
<1>11. front \o t[N] = IF b \in {"ESC", "["} THEN t[N] ELSE <<b>> \o t[N]
  <2>1. \A keys \in Seq(B) : <<>> \o keys = keys
    OBVIOUS
  <2>2. QED
    BY <1>6, <1>10, <2>1
<1>12. QED
  BY <1>1, <1>3, <1>4, <1>10, <1>11

-----------------------------------------------------------------------------
(* The bytes that wait, are on the wire or have been taken as the start of *)
(* an escape sequence are whole keys.                                      *)

AllBytes == Keys \cup {"ESC", "["}

Whole(s) ==
  /\ s \in Seq(AllBytes)
  /\ \A i \in 1..Len(s) :
       /\ s[i] = "ESC" => i + 2 <= Len(s) /\ s[i + 1] = "[" /\ s[i + 2] \in Arrows
       /\ s[i] = "[" => i > 1 /\ s[i - 1] = "ESC"
       /\ s[i] \in Arrows => i > 2 /\ s[i - 1] = "["

LEMMA WholeAppend ==
  ASSUME NEW s, Whole(s), NEW key \in Keys
  PROVE  Whole(s \o Bytes(key)) /\ KeysIn(s \o Bytes(key)) = Append(KeysIn(s), key)
<1>1. s \in Seq(AllBytes) /\ key \in AllBytes /\ "ESC" \in AllBytes /\ "[" \in AllBytes
  BY DEF Whole, AllBytes
<1>2. key # "ESC" /\ key # "["
  BY Shell2Assumption DEF Keys, Arrows
<1>3. CASE key \notin Arrows
  <2>1. s \o Bytes(key) = Append(s, key)
    BY <1>1, <1>3 DEF Bytes
  <2>2. Whole(Append(s, key))
    BY <1>1, <1>2, <1>3 DEF Whole
  <2>3. QED
    BY <1>1, <1>2, <2>1, <2>2, KeysAtEnd
<1>4. CASE key \in Arrows
  <2>1. PICK e : e = Append(s, "ESC")
    OBVIOUS
  <2>2. PICK f : f = Append(e, "[")
    OBVIOUS
  <2>3. PICK g : g = Append(f, key)
    OBVIOUS
  <2>4. e \in Seq(AllBytes) /\ f \in Seq(AllBytes) /\ g \in Seq(AllBytes)
    BY <1>1, <2>1, <2>2, <2>3
  <2>5. s \o Bytes(key) = g
    <3>1. Bytes(key) = <<"ESC", "[", key>>
      BY <1>4 DEF Bytes
    <3>2. s \o <<"ESC", "[", key>> = g
      BY <1>1, <2>1, <2>2, <2>3
    <3>3. QED
      BY <3>1, <3>2
  <2>6. KeysIn(e) = KeysIn(s) /\ KeysIn(f) = KeysIn(e) /\ KeysIn(g) = Append(KeysIn(f), key)
    BY <1>1, <1>2, <2>1, <2>2, <2>3, <2>4, KeysAtEnd
  <2>7. Whole(g)
    <3>1. /\ Len(s) \in Nat /\ Len(g) = Len(s) + 3
          /\ \A i \in 1..Len(s) : g[i] = s[i]
          /\ g[Len(s) + 1] = "ESC" /\ g[Len(s) + 2] = "[" /\ g[Len(s) + 3] = key
      BY <1>1, <2>1, <2>2, <2>3
    <3>2. ASSUME NEW i \in 1..Len(g)
          PROVE  /\ g[i] = "ESC" => i + 2 <= Len(g) /\ g[i + 1] = "[" /\ g[i + 2] \in Arrows
                 /\ g[i] = "[" => i > 1 /\ g[i - 1] = "ESC"
                 /\ g[i] \in Arrows => i > 2 /\ g[i - 1] = "["
      <4>1. CASE i \in 1..Len(s)
        <5>1. /\ s[i] = "ESC" => i + 2 <= Len(s) /\ s[i + 1] = "[" /\ s[i + 2] \in Arrows
              /\ s[i] = "[" => i > 1 /\ s[i - 1] = "ESC"
              /\ s[i] \in Arrows => i > 2 /\ s[i - 1] = "["
          BY <4>1 DEF Whole
        <5>2. i + 2 <= Len(s) => i + 1 \in 1..Len(s) /\ i + 2 \in 1..Len(s)
          BY <3>1, <4>1
        <5>3. i > 1 => i - 1 \in 1..Len(s)
          BY <3>1, <4>1
        <5>4. QED
          BY <3>1, <4>1, <5>1, <5>2, <5>3
      <4>2. CASE i = Len(s) + 1
        BY <1>4, <3>1, <4>2 DEF Arrows
      <4>3. CASE i = Len(s) + 2
        BY <1>4, <3>1, <4>3 DEF Arrows
      <4>4. CASE i = Len(s) + 3
        BY <1>2, <1>4, <3>1, <4>4
      <4>5. QED
        BY <3>1, <4>1, <4>2, <4>3, <4>4
    <3>3. QED
      BY <2>4, <3>2 DEF Whole
  <2>8. QED
    BY <2>5, <2>6, <2>7
<1>5. QED
  BY <1>3, <1>4

\* The bytes of the first key go.
LEMMA WholePlain ==
  ASSUME NEW b \in AllBytes, NEW s \in Seq(AllBytes), Whole(<<b>> \o s), b # "ESC"
  PROVE  /\ b \in Keys \ Arrows /\ Whole(s)
         /\ KeysIn(s) \in Seq(AllBytes) /\ KeysIn(<<b>> \o s) = <<b>> \o KeysIn(s)
<1>1. PICK r : r = <<b>> \o s
  OBVIOUS
<1>2. /\ Len(s) \in Nat /\ Len(r) = Len(s) + 1 /\ r[1] = b
      /\ \A i \in 1..Len(s) : s[i] = r[i + 1]
  BY <1>1
<1>3. Whole(r)
  BY <1>1
<1>4. b # "[" /\ b \notin Arrows
  BY <1>2, <1>3 DEF Whole
<1>5. ASSUME NEW i \in 1..Len(s)
      PROVE  /\ s[i] = "ESC" => i + 2 <= Len(s) /\ s[i + 1] = "[" /\ s[i + 2] \in Arrows
             /\ s[i] = "[" => i > 1 /\ s[i - 1] = "ESC"
             /\ s[i] \in Arrows => i > 2 /\ s[i - 1] = "["
  <2>1. i + 1 \in 1..Len(r) /\ s[i] = r[i + 1]
    BY <1>2
  <2>2. /\ s[i] = "ESC" => (i + 1) + 2 <= Len(r) /\ r[(i + 1) + 1] = "["
                           /\ r[(i + 1) + 2] \in Arrows
        /\ s[i] = "[" => r[(i + 1) - 1] = "ESC"
        /\ s[i] \in Arrows => i + 1 > 2 /\ r[(i + 1) - 1] = "["
    BY <1>3, <2>1 DEF Whole
  <2>3. i + 2 <= Len(s) => s[i + 1] = r[(i + 1) + 1] /\ s[i + 2] = r[(i + 1) + 2]
    <3>1. i + 2 <= Len(s) => i + 1 \in 1..Len(s) /\ i + 2 \in 1..Len(s)
      BY <1>2
    <3>2. i + 2 <= Len(s) => s[i + 1] = r[(i + 1) + 1] /\ s[i + 2] = r[(i + 2) + 1]
      BY <1>2, <3>1
    <3>3. (i + 2) + 1 = (i + 1) + 2
      OBVIOUS
    <3>4. QED
      BY <3>2, <3>3
  <2>4. (i + 1) + 2 <= Len(r) <=> i + 2 <= Len(s)
    BY <1>2
  <2>5. i = 1 => r[(i + 1) - 1] = b
    BY <1>2
  <2>6. i > 1 => s[i - 1] = r[(i + 1) - 1]
    <3>1. i > 1 => i - 1 \in 1..Len(s) /\ (i - 1) + 1 = (i + 1) - 1
      BY <1>2
    <3>2. QED
      BY <1>2, <3>1
  <2>7. i = 1 \/ i > 1
    OBVIOUS
  <2>8. i > 1 /\ s[i] \in Arrows => i > 2
    <3>1. CASE i = 2 /\ s[i] \in Arrows
      <4>1. r[2] = "["
        BY <2>2, <3>1
      <4>2. 2 \in 1..Len(r)
        BY <1>2, <3>1
      <4>3. r[2 - 1] = "ESC"
        BY <1>3, <4>1, <4>2 DEF Whole
      <4>4. QED
        BY <1>2, <4>3
    <3>2. QED
      BY <3>1
  <2>9. QED
    BY <1>4, <2>2, <2>3, <2>4, <2>5, <2>6, <2>7, <2>8
<1>6. Whole(s)
  BY <1>5 DEF Whole
<1>7. KeysIn(s) \in Seq(AllBytes) /\ KeysIn(<<b>> \o s) = <<b>> \o KeysIn(s)
  BY <1>4, KeysInFront
<1>8. b \in Keys
  BY <1>4 DEF AllBytes
<1>9. QED
  BY <1>4, <1>6, <1>7, <1>8

LEMMA WholeArrow ==
  ASSUME NEW b \in AllBytes, NEW s \in Seq(AllBytes), Whole(<<"ESC", "[">> \o (<<b>> \o s))
  PROVE  /\ b \in Arrows /\ Whole(s)
         /\ KeysIn(s) \in Seq(AllBytes)
         /\ KeysIn(<<"ESC", "[">> \o (<<b>> \o s)) = <<b>> \o KeysIn(s)
<1>1. PICK r : r = <<"ESC", "[">> \o (<<b>> \o s)
  OBVIOUS
<1>2. /\ Len(s) \in Nat /\ Len(r) = Len(s) + 3
      /\ r[1] = "ESC" /\ r[2] = "[" /\ r[3] = b
      /\ \A i \in 1..Len(s) : s[i] = r[i + 3]
  BY <1>1
<1>3. Whole(r)
  BY <1>1
<1>4. b \in Arrows
  <2>1. 1 \in 1..Len(r)
    BY <1>2
  <2>2. r[1 + 2] \in Arrows
    BY <1>2, <1>3, <2>1 DEF Whole
  <2>3. QED
    BY <1>2, <2>2
<1>5. b # "ESC" /\ b # "["
  BY <1>4 DEF Arrows
<1>6. ASSUME NEW i \in 1..Len(s)
      PROVE  /\ s[i] = "ESC" => i + 2 <= Len(s) /\ s[i + 1] = "[" /\ s[i + 2] \in Arrows
             /\ s[i] = "[" => i > 1 /\ s[i - 1] = "ESC"
             /\ s[i] \in Arrows => i > 2 /\ s[i - 1] = "["
  <2>1. i + 3 \in 1..Len(r) /\ s[i] = r[i + 3]
    BY <1>2
  <2>2. /\ s[i] = "ESC" => (i + 3) + 2 <= Len(r) /\ r[(i + 3) + 1] = "["
                           /\ r[(i + 3) + 2] \in Arrows
        /\ s[i] = "[" => r[(i + 3) - 1] = "ESC"
        /\ s[i] \in Arrows => r[(i + 3) - 1] = "["
    BY <1>3, <2>1 DEF Whole
  <2>3. i + 2 <= Len(s) => s[i + 1] = r[(i + 3) + 1] /\ s[i + 2] = r[(i + 3) + 2]
    <3>1. i + 2 <= Len(s) => i + 1 \in 1..Len(s) /\ i + 2 \in 1..Len(s)
      BY <1>2
    <3>2. i + 2 <= Len(s) => s[i + 1] = r[(i + 1) + 3] /\ s[i + 2] = r[(i + 2) + 3]
      BY <1>2, <3>1
    <3>3. (i + 2) + 3 = (i + 3) + 2 /\ (i + 1) + 3 = (i + 3) + 1
      OBVIOUS
    <3>4. QED
      BY <3>2, <3>3
  <2>4. (i + 3) + 2 <= Len(r) <=> i + 2 <= Len(s)
    BY <1>2
  <2>5. i = 1 => r[(i + 3) - 1] = b
    BY <1>2
  <2>6. i > 1 => s[i - 1] = r[(i + 3) - 1]
    <3>1. i > 1 => i - 1 \in 1..Len(s) /\ (i - 1) + 3 = (i + 3) - 1
      BY <1>2
    <3>2. QED
      BY <1>2, <3>1
  <2>7. i = 1 \/ i > 1
    OBVIOUS
  <2>8. i = 2 /\ s[i] \in Arrows => FALSE
    <3>1. SUFFICES ASSUME i = 2, s[i] \in Arrows PROVE FALSE
      OBVIOUS
    <3>2. r[4] = "[" /\ 4 \in 1..Len(r)
      BY <1>2, <2>2, <3>1
    <3>3. r[4 - 1] = "ESC"
      BY <1>3, <3>2 DEF Whole
    <3>4. QED
      BY <1>2, <1>5, <3>3
  <2>9. QED
    BY <1>5, <2>2, <2>3, <2>4, <2>5, <2>6, <2>7, <2>8
<1>7. Whole(s)
  BY <1>6 DEF Whole
<1>8. KeysIn(r) = <<b>> \o KeysIn(s) /\ KeysIn(s) \in Seq(AllBytes)
  <2>1. "ESC" \in AllBytes /\ "[" \in AllBytes
    BY DEF AllBytes
  <2>2. PICK f : f = <<b>> \o s
    OBVIOUS
  <2>3. PICK g : g = <<"[">> \o f
    OBVIOUS
  <2>4. f \in Seq(AllBytes) /\ g \in Seq(AllBytes) /\ r = <<"ESC">> \o g
    BY <1>1, <2>1, <2>2, <2>3
  <2>5. KeysIn(f) = <<b>> \o KeysIn(s) /\ KeysIn(s) \in Seq(AllBytes)
    BY <1>5, <2>2, KeysInFront
  <2>6. KeysIn(g) = KeysIn(f)
    BY <2>1, <2>3, <2>4, KeysInFront
  <2>7. KeysIn(r) = KeysIn(g)
    BY <2>1, <2>4, KeysInFront
  <2>8. QED
    BY <2>5, <2>6, <2>7
<1>9. QED
  BY <1>1, <1>4, <1>7, <1>8

-----------------------------------------------------------------------------
(* The line and the history.                                               *)

LEMMA LineFacts ==
  ASSUME NEW l
  PROVE  l \in Lines <=> l \in Seq(Letters) /\ Len(l) <= COMMAND_LINE_LENGTH - 1
<1>1. COMMAND_LINE_LENGTH - 1 \in Nat
  BY Shell2Assumption
<1>2. ASSUME l \in Lines
      PROVE  l \in Seq(Letters) /\ Len(l) <= COMMAND_LINE_LENGTH - 1
  <2>1. PICK n \in 0..(COMMAND_LINE_LENGTH - 1) : l \in [1..n -> Letters]
    BY <1>2 DEF Lines
  <2>2. QED
    BY <1>1, <2>1
<1>3. ASSUME l \in Seq(Letters), Len(l) <= COMMAND_LINE_LENGTH - 1
      PROVE  l \in Lines
  <2>1. Len(l) \in 0..(COMMAND_LINE_LENGTH - 1) /\ l \in [1..Len(l) -> Letters]
    BY <1>1, <1>3
  <2>2. QED
    BY <2>1 DEF Lines
<1>4. QED
  BY <1>2, <1>3

LEMMA EditedLine ==
  ASSUME line \in Lines, NEW b \in Letters \cup {"backspace"}
  PROVE  Edited(b) \in Lines
<1>1. line \in Seq(Letters) /\ Len(line) <= COMMAND_LINE_LENGTH - 1
  BY LineFacts
<1>2. COMMAND_LINE_LENGTH - 1 \in Nat
  BY Shell2Assumption
<1>3. CASE b = "backspace"
  <2>1. /\ SubSeq(line, 1, Len(line) - 1) \in Seq(Letters)
        /\ Len(SubSeq(line, 1, Len(line) - 1)) <= COMMAND_LINE_LENGTH - 1
    <3>1. CASE Len(line) = 0
      <4>1. SubSeq(line, 1, Len(line) - 1) = <<>>
        BY <1>1, <3>1
      <4>2. <<>> \in Seq(Letters) /\ Len(<<>>) <= COMMAND_LINE_LENGTH - 1
        BY <1>2
      <4>3. QED
        BY <4>1, <4>2, Zenon
    <3>2. CASE Len(line) > 0
      <4>1. PICK m : m = Len(line) - 1
        OBVIOUS
      <4>2. m \in 0..Len(line) /\ m <= COMMAND_LINE_LENGTH - 1
        BY <1>1, <3>2, <4>1, <1>2
      <4>3. SubSeq(line, 1, m) \in Seq(Letters) /\ Len(SubSeq(line, 1, m)) = m
        BY <1>1, <4>2
      <4>4. QED
        BY <4>1, <4>2, <4>3
    <3>3. QED
      BY <1>1, <3>1, <3>2
  <2>2. QED
    BY <1>3, <2>1, LineFacts DEF Edited
<1>4. CASE b # "backspace" /\ Room
  <2>1. Append(line, b) \in Seq(Letters) /\ Len(Append(line, b)) <= COMMAND_LINE_LENGTH - 1
    BY <1>1, <1>2, <1>4 DEF Room
  <2>2. QED
    BY <1>4, <2>1, LineFacts DEF Edited
<1>5. CASE b # "backspace" /\ ~Room
  BY <1>5 DEF Edited
<1>6. QED
  BY <1>3, <1>4, <1>5

\* A command that is there already moves to the top of the others.
LEMMA MovedToTop ==
  ASSUME NEW s \in Seq(Items), NEW k \in 1..Len(s)
  PROVE  \E all : /\ all = <<s[k]>> \o (SubSeq(s, 1, k - 1) \o SubSeq(s, k + 1, Len(s)))
                 /\ all = [i \in 1..Len(s) |->
                             IF i = 1 THEN s[k] ELSE IF i <= k THEN s[i - 1] ELSE s[i]]
                 /\ Len(all) = Len(s) /\ SubSeq(all, 1, Len(s)) = all
<1>0. PICK all : all = <<s[k]>> \o (SubSeq(s, 1, k - 1) \o SubSeq(s, k + 1, Len(s)))
  OBVIOUS
<1>1. PICK low : low = SubSeq(s, 1, k - 1)
  OBVIOUS
<1>2. PICK high : high = SubSeq(s, k + 1, Len(s))
  OBVIOUS
<1>3. /\ low \in Seq(Items) /\ Len(low) = k - 1
      /\ \A i \in 1..(k - 1) : low[i] = s[i]
  BY <1>1
<1>4. /\ high \in Seq(Items) /\ Len(high) = Len(s) - k
      /\ \A i \in 1..(Len(s) - k) : high[i] = s[k + i]
  BY <1>2
<1>5. all = <<s[k]>> \o (low \o high)
  BY <1>0, <1>1, <1>2
<1>6. /\ low \o high \in Seq(Items) /\ Len(low \o high) = Len(s) - 1
      /\ \A i \in 1..(Len(s) - 1) : (low \o high)[i] = IF i <= k - 1 THEN s[i] ELSE s[i + 1]
  <2>1. low \o high \in Seq(Items) /\ Len(low \o high) = Len(s) - 1
    BY <1>3, <1>4
  <2>2. ASSUME NEW i \in 1..(Len(s) - 1)
        PROVE  (low \o high)[i] = IF i <= k - 1 THEN s[i] ELSE s[i + 1]
    <3>1. CASE i <= k - 1
      BY <1>3, <1>4, <3>1
    <3>2. CASE i > k - 1
      <4>1. i - (k - 1) \in 1..(Len(s) - k) /\ k + (i - (k - 1)) = i + 1
        BY <3>2
      <4>2. (low \o high)[i] = high[i - (k - 1)]
        BY <1>3, <1>4, <3>2
      <4>3. high[i - (k - 1)] = s[i + 1]
        BY <1>4, <4>1
      <4>4. QED
        BY <3>2, <4>2, <4>3
    <3>3. i <= k - 1 \/ i > k - 1
      OBVIOUS
    <3>4. QED
      BY <3>1, <3>2, <3>3, Zenon
  <2>3. QED
    BY <2>1, <2>2
<1>7. /\ all \in Seq(Items) /\ Len(all) = Len(s)
      /\ \A i \in 1..Len(s) :
           all[i] = IF i = 1 THEN s[k] ELSE IF i <= k THEN s[i - 1] ELSE s[i]
  <2>1. PICK others : others = low \o high
    OBVIOUS
  <2>2. all = <<s[k]>> \o others /\ others \in Seq(Items) /\ s[k] \in Items
    BY <1>5, <1>6, <2>1
  <2>3. all \in Seq(Items) /\ Len(all) = Len(s)
    BY <1>6, <2>1, <2>2
  <2>4. ASSUME NEW i \in 1..Len(s)
        PROVE  all[i] = IF i = 1 THEN s[k] ELSE IF i <= k THEN s[i - 1] ELSE s[i]
    <3>1. all[i] = IF i = 1 THEN s[k] ELSE others[i - 1]
      BY <1>6, <2>1, <2>2, SMTT(30)
    <3>2. i # 1 => i - 1 \in 1..(Len(s) - 1) /\ (i - 1) + 1 = i
      OBVIOUS
    <3>3. i # 1 => others[i - 1] = IF i - 1 <= k - 1 THEN s[i - 1] ELSE s[i]
      BY <1>6, <2>1, <3>2
    <3>4. QED
      BY <3>1, <3>3
  <2>5. QED
    BY <2>3, <2>4
<1>8. SubSeq(all, 1, Len(s)) = all
  BY <1>7
<1>9. all = [i \in 1..Len(s) |-> IF i = 1 THEN s[k] ELSE IF i <= k THEN s[i - 1] ELSE s[i]]
  BY <1>7
<1>10. QED
  BY <1>0, <1>7, <1>8, <1>9

\* What shell_execute remembers is what the terminal promises.
LEMMA RememberContents ==
  ASSUME Visible, NoDuplicates, NEW c \in Items, Remember(c),
         NEW all, all = <<c>> \o Keyboard!Without(Contents, c)
  PROVE  Contents' = SubSeq(all, 1, IF Len(all) <= Size - 1 THEN Len(all) ELSE Size - 1)
<1>1. /\ TypeOK /\ Contents \in Seq(Items) /\ Len(Contents) = QueueSize
      /\ QueueSize \in 0..(Size - 1) /\ Size - 1 \in Nat \ {0}
  BY ContentsIsSeq, FixedQueueAssumption DEF Visible
<1>2. CASE GetIndex(c) < 0 /\ Push(c)
  <2>1. \A i \in 1..QueueSize : Contents[i] # c
    BY <1>1, <1>2, IndexFinds
  <2>2. Keyboard!Without(Contents, c) = Contents
    <3>1. DOMAIN Contents = 1..QueueSize
      BY DEF Contents
    <3>2. QED
      BY <2>1, <3>1 DEF Keyboard!Without
  <2>3. QueueSize' = IF Len(Contents) + 1 <= Size - 1 THEN Len(Contents) + 1 ELSE Size - 1
    BY <1>1, <1>2, PushSize, FixedQueueAssumption DEF Push
  <2>4. Contents' = [i \in 1..QueueSize' |-> IF i = 1 THEN c ELSE Contents[i - 1]]
    BY <1>1, <1>2, PushContents
  <2>5. Contents' = List!Prefix(<<c>> \o Contents, Size - 1)
    BY <1>1, <2>3, <2>4, PrefixOfPushed
  <2>6. QED
    BY <2>2, <2>5 DEF List!Prefix
<1>3. CASE GetIndex(c) >= 0 /\ MoveToTop(GetIndex(c))
  <2>1. PICK g : g = GetIndex(c)
    OBVIOUS
  <2>2. g \in Offsets /\ Contents[g + 1] = c /\ MoveToTop(g)
    BY <1>1, <1>3, <2>1, IndexFinds
  <2>3. g \in Nat /\ g + 1 \in 1..QueueSize /\ DOMAIN Contents = 1..QueueSize
    BY <1>1, <2>2 DEF Offsets, Contents
  <2>4. Keyboard!Without(Contents, c) = RemoveAt(Contents, g + 1)
    <3>1. (CHOOSE k \in DOMAIN Contents : Contents[k] = c) = g + 1
      BY <2>2, <2>3 DEF NoDuplicates
    <3>2. QED
      BY <2>2, <2>3, <3>1 DEF Keyboard!Without, Keyboard!RemoveAt, RemoveAt
  <2>5. /\ all = [i \in 1..QueueSize |->
                    IF i = 1 THEN c ELSE IF i <= g + 1 THEN Contents[i - 1] ELSE Contents[i]]
        /\ Len(all) = QueueSize /\ SubSeq(all, 1, QueueSize) = all
    <3>1. all = <<Contents[g + 1]>>
                  \o (SubSeq(Contents, 1, (g + 1) - 1) \o SubSeq(Contents, (g + 1) + 1, Len(Contents)))
      BY <2>2, <2>4 DEF RemoveAt
    <3>2. g + 1 \in 1..Len(Contents)
      BY <1>1, <2>3
    <3>3. /\ all = [i \in 1..Len(Contents) |->
                      IF i = 1 THEN Contents[g + 1]
                      ELSE IF i <= g + 1 THEN Contents[i - 1] ELSE Contents[i]]
          /\ Len(all) = Len(Contents) /\ SubSeq(all, 1, Len(Contents)) = all
      BY <1>1, <3>1, <3>2, MovedToTop
    <3>4. QED
      BY <1>1, <2>2, <3>3
  <2>6. Contents' = all
    <3>1. CASE g # 0
      <4>1. Contents' = [i \in 1..QueueSize |->
                           CASE i = 1 -> Contents[g + 1]
                             [] i \in 2..(g + 1) -> Contents[i - 1]
                             [] OTHER -> Contents[i]]
        BY <1>1, <2>2, <3>1, MoveToTopContents
      <4>2. ASSUME NEW i \in 1..QueueSize
            PROVE  (CASE i = 1 -> Contents[g + 1]
                      [] i \in 2..(g + 1) -> Contents[i - 1]
                      [] OTHER -> Contents[i])
                   = IF i = 1 THEN c ELSE IF i <= g + 1 THEN Contents[i - 1] ELSE Contents[i]
        BY <1>1, <2>2, <2>3
      <4>3. QED
        BY <2>5, <4>1, <4>2
    <3>2. CASE g = 0
      <4>1. Contents' = Contents
        BY <1>1, <2>2, <3>2, Unchanged DEF MoveToTop, vars
      <4>2. ASSUME NEW i \in 1..QueueSize
            PROVE  Contents[i] =
                     IF i = 1 THEN c ELSE IF i <= g + 1 THEN Contents[i - 1] ELSE Contents[i]
        BY <1>1, <2>2, <3>2
      <4>3. Contents = [i \in 1..QueueSize |-> Contents[i]]
        BY <1>1
      <4>4. QED
        BY <2>5, <4>1, <4>2, <4>3
    <3>3. QED
      BY <3>1, <3>2
  <2>7. QED
    BY <1>1, <2>5, <2>6
<1>4. QED
  BY <1>2, <1>3 DEF Remember

-----------------------------------------------------------------------------
(* The shell handles what was typed key by key.                            *)

Stream == escape \o waiting \o sending

(* What holds until a key is garbled on its way: the history is one, the   *)
(* line has room, and the bytes that are still to be handled are whole     *)
(* keys, of the first of which the main loop may have taken two.           *)
Orderly ==
  /\ HistoryTypeOK /\ NoBlankVisible /\ NoDuplicates
  /\ line \in Lines
  /\ escape \in {<<>>, <<"ESC">>, <<"ESC", "[">>}
  /\ waiting \in Seq(AllBytes) /\ sending \in Seq(AllBytes)
  /\ Whole(Stream)

ShellInv ==
  /\ garbled \in BOOLEAN
  /\ ~garbled => Orderly

History == HistoryTypeOK /\ NoBlankVisible /\ NoDuplicates

LEMMA HistoryKept ==
  ASSUME History, [HistoryNext]_historyVars
  PROVE  History'
<1>1. HistoryTypeOK'
  BY HistoryNextType DEF History
<1>2. TypeOK /\ TypeOK' /\ Visible
  BY <1>1 DEF History, HistoryTypeOK, Visible
<1>3. Visible'
  BY <1>2, HistorySteps, NextVisible
<1>4. NoDuplicates'
  BY <1>1, NextDistinct DEF History
<1>5. QED
  BY <1>1, <1>3, <1>4 DEF History, Visible

LEMMA CommandsAreLines == Items \subseteq Lines
BY CommandsAssumption

\* The bytes that wait, the first of them apart.
LEMMA StreamSplit ==
  ASSUME NEW w \in Seq(AllBytes), NEW s \in Seq(AllBytes), w # <<>>
  PROVE  \E b \in AllBytes, rest \in Seq(AllBytes) :
           /\ b = Head(w) /\ rest = <<>> \o Tail(w) \o s
           /\ <<>> \o w \o s = <<b>> \o rest
           /\ <<"ESC", "[">> \o w \o s = <<"ESC", "[">> \o (<<b>> \o rest)
           /\ Tail(w) \in Seq(AllBytes)
<1>1. PICK b : b = Head(w)
  OBVIOUS
<1>2. PICK t : t = Tail(w)
  OBVIOUS
<1>3. b \in AllBytes /\ t \in Seq(AllBytes) /\ w = <<b>> \o t
  BY <1>1, <1>2
<1>4. PICK rest : rest = t \o s
  OBVIOUS
<1>5. rest \in Seq(AllBytes) /\ rest = <<>> \o t \o s
  BY <1>3, <1>4
<1>6. <<>> \o w \o s = <<b>> \o rest
  BY <1>3, <1>4
<1>7. <<"ESC", "[">> \o w \o s = <<"ESC", "[">> \o (<<b>> \o rest)
  <2>1. w \o s = <<b>> \o rest
    BY <1>3, <1>4
  <2>2. PICK p : p = <<"ESC", "[">>
    OBVIOUS
  <2>3. p \in Seq(AllBytes)
    BY <2>2 DEF AllBytes
  <2>4. (p \o w) \o s = p \o (w \o s)
    BY <2>3
  <2>5. QED
    BY <2>1, <2>2, <2>4
<1>8. QED
  BY <1>1, <1>2, <1>3, <1>5, <1>6, <1>7

\* The second byte of an escape sequence.
LEMMA StreamSecond ==
  ASSUME NEW w \in Seq(AllBytes), NEW s \in Seq(AllBytes), w # <<>>,
         Whole(<<"ESC">> \o w \o s)
  PROVE  Head(w) = "[" /\ <<"ESC", "[">> \o Tail(w) \o s = <<"ESC">> \o w \o s
<1>1. PICK b : b = Head(w)
  OBVIOUS
<1>2. PICK t : t = Tail(w)
  OBVIOUS
<1>3. b \in AllBytes /\ t \in Seq(AllBytes) /\ w = <<b>> \o t
  BY <1>1, <1>2
<1>4. PICK r : r = <<"ESC">> \o w \o s
  OBVIOUS
<1>5. r[1] = "ESC" /\ r[2] = b /\ 1 \in 1..Len(r)
  BY <1>3, <1>4
<1>6. Whole(r)
  BY <1>4
<1>7. r[1 + 1] = "["
  BY <1>5, <1>6 DEF Whole
<1>8. b = "["
  BY <1>5, <1>7
<1>9. <<"ESC", "[">> \o t \o s = <<"ESC">> \o w \o s
  <2>1. <<"ESC", "[">> \o t = <<"ESC">> \o w
    BY <1>3, <1>8
  <2>2. QED
    BY <2>1
<1>10. QED
  BY <1>1, <1>2, <1>8, <1>9

\* The first byte of an escape sequence.
LEMMA StreamFirst ==
  ASSUME NEW w \in Seq(AllBytes), NEW s \in Seq(AllBytes), w # <<>>, Head(w) = "ESC"
  PROVE  <<"ESC">> \o Tail(w) \o s = <<>> \o w \o s
<1>1. w = <<"ESC">> \o Tail(w) /\ Tail(w) \in Seq(AllBytes)
  OBVIOUS
<1>2. QED
  BY <1>1

\* A byte that arrives.
LEMMA StreamMoves ==
  ASSUME NEW e \in Seq(AllBytes), NEW w \in Seq(AllBytes),
         NEW b \in AllBytes, NEW t \in Seq(AllBytes)
  PROVE  e \o Append(w, b) \o t = e \o w \o (<<b>> \o t)
<1>1. Append(w, b) \in Seq(AllBytes)
  OBVIOUS
<1>2. PICK v : v = e \o w
  OBVIOUS
<1>3. v \in Seq(AllBytes) /\ e \o Append(w, b) = Append(v, b)
  BY <1>2
<1>4. PICK s : s = <<b>> \o t
  OBVIOUS
<1>5. s \in Seq(AllBytes)
  BY <1>4
<1>6. Append(v, b) \o t = v \o s
  BY <1>3, <1>4, <1>5
<1>7. v \o s = e \o w \o s
  BY <1>2
<1>8. QED
  BY <1>1, <1>3, <1>4, <1>6, <1>7, Zenon

LEMMA EscapeType ==
  ASSUME escape \in {<<>>, <<"ESC">>, <<"ESC", "[">>}
  PROVE  /\ escape \in Seq(AllBytes)
         /\ Len(escape) = 1 => escape = <<"ESC">>
         /\ Len(escape) = 2 => escape = <<"ESC", "[">>
<1>1. "ESC" \in AllBytes /\ "[" \in AllBytes
  BY DEF AllBytes
<1>2. CASE escape = <<>>
  BY <1>2
<1>3. CASE escape = <<"ESC">>
  BY <1>1, <1>3
<1>4. CASE escape = <<"ESC", "[">>
  BY <1>1, <1>4
<1>5. QED
  BY <1>2, <1>3, <1>4

LEMMA AppendFacts ==
  ASSUME NEW s \in Seq(AllBytes), NEW b \in AllBytes
  PROVE  /\ Append(s, b) \in Seq(AllBytes)
         /\ Len(Append(s, b)) = Len(s) + 1
         /\ Append(s, b)[Len(s) + 1] = b
         /\ \A i \in 1..Len(s) : Append(s, b)[i] = s[i]
OBVIOUS

LEMMA TwoBytes == Append(<<"ESC">>, "[") = <<"ESC", "[">>
<1>1. PICK s : s = <<"ESC">>
  OBVIOUS
<1>2. s \in Seq(AllBytes) /\ Len(s) = 1 /\ s[1] = "ESC" /\ "[" \in AllBytes
  BY <1>1 DEF AllBytes
<1>3. /\ Append(s, "[") \in Seq(AllBytes)
      /\ Len(Append(s, "[")) = Len(s) + 1
      /\ Append(s, "[")[Len(s) + 1] = "["
      /\ \A i \in 1..Len(s) : Append(s, "[")[i] = s[i]
  BY <1>2, AppendFacts
<1>4. PICK r : r = Append(s, "[")
  OBVIOUS
<1>5. r \in Seq(AllBytes) /\ Len(r) = 2 /\ r[2] = "[" /\ r[1] = "ESC"
  <2>1. /\ r \in Seq(AllBytes) /\ Len(r) = Len(s) + 1 /\ r[Len(s) + 1] = "["
        /\ \A i \in 1..Len(s) : r[i] = s[i]
    BY <1>3, <1>4, Zenon
  <2>2. QED
    BY <1>2, <2>1
<1>6. r = <<r[1], r[2]>>
  BY <1>5
<1>7. QED
  BY <1>1, <1>4, <1>5, <1>6, Zenon

\* The next key.
LEMMA NextKey ==
  ASSUME NEW b \in AllBytes, NEW keys \in Seq(AllBytes), NEW t, t = <<b>> \o keys
  PROVE  t # <<>> /\ Head(t) = b /\ Tail(t) = keys
OBVIOUS

\* What leaves the history alone leaves what it shows alone.
LEMMA ContentsStay ==
  ASSUME TypeOK, UNCHANGED historyVars
  PROVE  Contents' = Contents /\ history_offset' = history_offset
BY Unchanged DEF historyVars, queue

\* A step of the terminal, or none.
TerminalStep == Keyboard!Next \/ UNCHANGED Keyboard!vars

LEMMA ReceiveStep ==
  ASSUME Orderly, garbled = FALSE, Receive, ~garbled'
  PROVE  Orderly' /\ TerminalStep
<1>1. TypeOK /\ escape \in Seq(AllBytes) /\ waiting \in Seq(AllBytes) /\ sending \in Seq(AllBytes)
  BY EscapeType DEF Orderly, HistoryTypeOK
<1>2. Contents' = Contents /\ history_offset' = history_offset
  BY <1>1, ContentsStay DEF Receive
<1>3. garbled' = FALSE
  BY DEF Receive, shell_process_char
<1>4. HistoryTypeOK' /\ NoBlankVisible' /\ NoDuplicates' /\ line' = line /\ escape' = escape
  BY HistoryKept DEF Orderly, History, Receive
<1>5. PICK bytes \in IF sending = <<>> THEN {Bytes(key) : key \in Keys} ELSE {sending} :
        waiting' = Append(waiting, Head(bytes)) /\ sending' = Tail(bytes)
  BY DEF Receive, shell_process_char
<1>6. ASSUME bytes \in Seq(AllBytes), bytes # <<>>, Whole(escape \o waiting \o bytes)
      PROVE  Orderly' /\ Stream' = escape \o waiting \o bytes
  <2>1. /\ escape \o waiting' \o sending' = escape \o waiting \o bytes
        /\ waiting' \in Seq(AllBytes) /\ sending' \in Seq(AllBytes)
    <3>1. PICK b \in AllBytes, t \in Seq(AllBytes) :
            b = Head(bytes) /\ t = Tail(bytes) /\ bytes = <<b>> \o t
      <4>1. PICK b : b = Head(bytes)
        OBVIOUS
      <4>2. PICK t : t = Tail(bytes)
        OBVIOUS
      <4>3. b \in AllBytes /\ t \in Seq(AllBytes) /\ bytes = <<b>> \o t
        BY <1>6, <4>1, <4>2
      <4>4. QED
        BY <4>1, <4>2, <4>3, Zenon
    <3>2. waiting' = Append(waiting, b) /\ sending' = t
      BY <1>5, <3>1
    <3>3. escape \in Seq(AllBytes) /\ waiting \in Seq(AllBytes)
      BY <1>1
    <3>4. Append(waiting, b) \in Seq(AllBytes)
      BY <3>3
    <3>5. escape \o Append(waiting, b) \o t = escape \o waiting \o (<<b>> \o t)
      BY <3>3, StreamMoves, Zenon
    <3>6. QED
      BY <3>1, <3>2, <3>4, <3>5, Zenon
  <2>2. Stream' = escape \o waiting' \o sending'
    BY <1>4 DEF Stream
  <2>3. Stream' = escape \o waiting \o bytes /\ waiting' \in Seq(AllBytes) /\ sending' \in Seq(AllBytes)
    BY <2>1, <2>2
  <2>4. Whole(Stream)'
    BY <1>6, <2>3 DEF Whole
  <2>5. QED
    BY <1>4, <2>3, <2>4 DEF Orderly
<1>7. CASE sending # <<>>
  <2>1. bytes = sending /\ Whole(escape \o waiting \o sending)
    BY <1>5, <1>7 DEF Orderly, Stream
  <2>2. Orderly' /\ Stream' = Stream
    BY <1>1, <1>6, <1>7, <2>1 DEF Stream
  <2>3. Typed' = Typed
    BY <2>2 DEF Typed, Stream
  <2>4. QED
    BY <1>2, <1>3, <1>4, <2>2, <2>3 DEF TerminalStep, Keyboard!vars
<1>8. CASE sending = <<>>
  <2>1. PICK key \in Keys : bytes = Bytes(key)
    BY <1>5, <1>8
  <2>2. bytes \in Seq(AllBytes) /\ bytes # <<>>
    <3>1. key \in AllBytes /\ "ESC" \in AllBytes /\ "[" \in AllBytes
      BY DEF AllBytes
    <3>2. CASE key \in Arrows
      BY <2>1, <3>1, <3>2 DEF Bytes
    <3>3. CASE key \notin Arrows
      BY <2>1, <3>1, <3>3 DEF Bytes
    <3>4. QED
      BY <3>2, <3>3
  <2>3. Stream = escape \o waiting
    BY <1>1, <1>8 DEF Stream
  <2>4. Whole(escape \o waiting \o bytes) /\ KeysIn(escape \o waiting \o bytes) = Append(KeysIn(Stream), key)
    BY <2>1, <2>3, WholeAppend DEF Orderly
  <2>5. Orderly' /\ Stream' = escape \o waiting \o bytes
    BY <1>6, <2>2, <2>4
  <2>6. Typed' = Append(Typed, key)
    BY <2>4, <2>5 DEF Typed, Stream
  <2>7. Keyboard!Type(key)
    BY <1>2, <1>4, <2>6 DEF Keyboard!Type
  <2>8. key \in Keyboard!Keys
    BY DEF Keyboard!Keys, Keys, Arrows
  <2>9. QED
    BY <1>3, <2>5, <2>7, <2>8 DEF TerminalStep, Keyboard!Next
<1>9. QED
  BY <1>7, <1>8

\* Enter.
LEMMA EnterStep ==
  ASSUME Orderly, EndLine, Head(Typed) = "enter"
  PROVE  History' /\ line' \in Lines /\ Keyboard!Enter
<1>1. History /\ TypeOK /\ Visible
  BY DEF Orderly, History, HistoryTypeOK, Visible
<1>2. line' = <<>> /\ <<>> \in Lines
  <2>1. <<>> \in Seq(Letters) /\ Len(<<>>) <= COMMAND_LINE_LENGTH - 1
    BY Shell2Assumption
  <2>2. QED
    BY <2>1, LineFacts DEF EndLine
<1>3. line \in Items <=> buildCommandParameters(line) > 0
  BY CommandsAssumption DEF Orderly
<1>4. CASE line \in Items
  <2>1. Execute(line)
    BY <1>3, <1>4 DEF EndLine, shell_execute
  <2>2. History'
    BY <1>1, <1>4, <2>1, HistoryKept DEF HistoryNext, Commands
  <2>3. PICK all : all = <<line>> \o Keyboard!Without(Contents, line)
    OBVIOUS
  <2>4. Contents' = SubSeq(all, 1, IF Len(all) <= Size - 1 THEN Len(all) ELSE Size - 1)
    BY <1>1, <1>4, <2>1, <2>3, RememberContents DEF Execute, History
  <2>5. Keyboard!Enter
    BY <1>2, <1>4, <2>1, <2>3, <2>4 DEF Keyboard!Enter, Execute, Commands, SHELL_HISTORY_SIZE
  <2>6. QED
    BY <1>2, <2>2, <2>5
<1>5. CASE line \notin Items
  <2>1. UNCHANGED historyVars
    BY <1>3, <1>5 DEF EndLine, shell_execute
  <2>2. Contents' = Contents /\ history_offset' = history_offset
    BY <1>1, <2>1, ContentsStay
  <2>3. History'
    BY <1>1, <2>1, HistoryKept
  <2>4. Keyboard!Enter
    BY <1>2, <1>5, <2>2 DEF Keyboard!Enter, Commands
  <2>5. QED
    BY <1>2, <2>3, <2>4
<1>6. QED
  BY <1>4, <1>5

\* Up and Down.
LEMMA RecallStep ==
  ASSUME Orderly, line' = Recalled,
         \/ Prev /\ Head(Typed) = "up"
         \/ GetNext /\ Head(Typed) = "down"
  PROVE  History' /\ line' \in Lines /\ Keyboard!Recall
<1>1. /\ History /\ TypeOK /\ Visible /\ UNCHANGED queue
      /\ history_offset \in 0..QueueSize /\ QueueSize \in Nat
  <2>1. TypeOK /\ Visible
    BY DEF Orderly, HistoryTypeOK, Visible
  <2>2. QED
    BY <2>1, SizeRange DEF Orderly, History, HistoryTypeOK, Prev, GetNext
<1>2. Contents' = Contents
  BY <1>1, Unchanged DEF queue
<1>3. History'
  BY <1>1, HistoryKept DEF HistoryNext
<1>4. <<>> \in Lines
  <2>1. <<>> \in Seq(Letters) /\ Len(<<>>) <= COMMAND_LINE_LENGTH - 1
    BY Shell2Assumption
  <2>2. QED
    BY <2>1, LineFacts
<1>5. ASSUME NEW k \in Offsets, recalled' = Peekn(k, NoLine)
      PROVE  line' = Contents[k + 1] /\ line' \in Lines
  <2>1. k \in Nat /\ k + 1 \in 1..QueueSize /\ (k + 1) - 1 = k
    BY <1>1 DEF Offsets
  <2>2. recalled' = Contents[k + 1]
    BY <1>5, <2>1 DEF Peekn, Contents
  <2>3. Contents[k + 1] \in Items
    BY <1>1, <2>1 DEF Visible, NoBlankVisible
  <2>4. recalled' # NoLine
    BY <2>2, <2>3, FixedQueueAssumption DEF NoLine
  <2>5. QED
    BY <2>2, <2>3, <2>4, CommandsAreLines DEF Recalled
<1>6. recalled' = NoLine => line' = <<>>
  BY DEF Recalled
<1>7. Len(Contents) = QueueSize
  BY <1>1, ContentsIsSeq
<1>8. CASE Prev /\ Head(Typed) = "up"
  <2>1. CASE history_offset < QueueSize
    <3>1. history_offset \in Offsets
      BY <1>1, <2>1 DEF Offsets
    <3>2. line' = Contents[history_offset + 1] /\ line' \in Lines /\ history_offset' = history_offset + 1
      BY <1>1, <1>5, <1>8, <2>1, <3>1 DEF Prev
    <3>3. QED
      BY <1>2, <1>3, <1>7, <1>8, <2>1, <3>2 DEF Keyboard!Recall
  <2>2. CASE history_offset >= QueueSize
    <3>1. history_offset = QueueSize
      BY <1>1, <2>2
    <3>2. line' = <<>> /\ history_offset' = history_offset
      BY <1>1, <1>6, <1>8, <2>2 DEF Prev
    <3>3. QED
      BY <1>2, <1>3, <1>4, <1>7, <1>8, <3>1, <3>2 DEF Keyboard!Recall
  <2>3. QED
    BY <1>1, <2>1, <2>2
<1>9. CASE GetNext /\ Head(Typed) = "down"
  <2>1. CASE history_offset # 0
    <3>1. history_offset - 1 \in Offsets /\ (history_offset - 1) + 1 = history_offset
          /\ history_offset > 0
      BY <1>1, <2>1 DEF Offsets
    <3>2. line' = Contents[history_offset] /\ line' \in Lines /\ history_offset' = history_offset - 1
      BY <1>5, <1>9, <2>1, <3>1 DEF GetNext
    <3>3. QED
      BY <1>2, <1>3, <1>9, <3>1, <3>2 DEF Keyboard!Recall
  <2>2. CASE history_offset = 0
    <3>1. line' = <<>> /\ history_offset' = history_offset
      BY <1>6, <1>9, <2>2 DEF GetNext
    <3>2. QED
      BY <1>2, <1>3, <1>4, <1>9, <2>2, <3>1 DEF Keyboard!Recall
  <2>3. QED
    BY <2>1, <2>2
<1>10. QED
  BY <1>8, <1>9

\* The main loop takes a byte.
LEMMA ByteTaken ==
  ASSUME shell_getch
  PROVE  sending' = sending /\ waiting' = IF waiting = <<>> THEN <<>> ELSE Tail(waiting)
BY DEF shell_getch

LEMMA OrderlyAfter ==
  ASSUME Orderly, shell_getch, History', line' \in Lines,
         escape' \in {<<>>, <<"ESC">>, <<"ESC", "[">>},
         NEW s, Stream' = s, Whole(s)
  PROVE  Orderly'
<1>1. waiting' \in Seq(AllBytes) /\ sending' \in Seq(AllBytes)
  BY ByteTaken DEF Orderly
<1>2. Whole(Stream)'
  BY DEF Whole
<1>3. QED
  BY <1>1, <1>2 DEF Orderly, History

LEMMA HandledKey ==
  ASSUME garbled = FALSE, garbled' = FALSE, NEW b, Typed # <<>>, Head(Typed) = b,
         Typed' = Tail(Typed),
         \/ b \in Letters \cup {"backspace", "left"} /\ Keyboard!Edit
         \/ Keyboard!Enter
         \/ Keyboard!Recall
  PROVE  TerminalStep
<1>1. Keyboard!Handle
  BY DEF Keyboard!Handle
<1>2. QED
  BY <1>1 DEF TerminalStep, Keyboard!Next

LEMMA PlainStep ==
  ASSUME Orderly, garbled = FALSE, Plain
  PROVE  Orderly' /\ TerminalStep
<1>1. /\ TypeOK /\ History /\ waiting \in Seq(AllBytes) /\ sending \in Seq(AllBytes)
      /\ escape = <<>> /\ waiting # <<>> /\ shell_getch /\ line \in Lines
      /\ garbled' = FALSE /\ Whole(<<>> \o waiting \o sending)
  BY DEF Orderly, History, HistoryTypeOK, Plain, Stream
<1>2. sending' = sending /\ waiting' = Tail(waiting) /\ getcharf = Head(waiting)
  BY <1>1, ByteTaken DEF getcharf
<1>3. PICK b \in AllBytes, rest \in Seq(AllBytes) :
        /\ b = Head(waiting) /\ rest = <<>> \o Tail(waiting) \o sending
        /\ <<>> \o waiting \o sending = <<b>> \o rest
  <2>1. \E b \in AllBytes, rest \in Seq(AllBytes) :
          /\ b = Head(waiting) /\ rest = <<>> \o Tail(waiting) \o sending
          /\ <<>> \o waiting \o sending = <<b>> \o rest
          /\ <<"ESC", "[">> \o waiting \o sending = <<"ESC", "[">> \o (<<b>> \o rest)
          /\ Tail(waiting) \in Seq(AllBytes)
    BY <1>1, StreamSplit, Zenon
  <2>2. QED
    BY <2>1, Zenon
<1>4. Stream = <<b>> \o rest /\ Whole(<<b>> \o rest)
  BY <1>1, <1>3 DEF Stream
<1>5. ASSUME UNCHANGED historyVars
      PROVE  History' /\ Contents' = Contents /\ history_offset' = history_offset
  BY <1>1, <1>5, HistoryKept, ContentsStay
<1>6. CASE b = "ESC"
  <2>1. escape' = <<"ESC">> /\ UNCHANGED <<historyVars, line>>
    <3>1. getcharf = "ESC"
      BY <1>2, <1>3, <1>6
    <3>2. QED
      BY <3>1 DEF Plain
  <2>2. Stream' = Stream
    <3>1. Stream' = <<"ESC">> \o Tail(waiting) \o sending
      BY <1>2, <2>1 DEF Stream
    <3>2. Head(waiting) = "ESC"
      BY <1>3, <1>6
    <3>3. <<"ESC">> \o Tail(waiting) \o sending = <<>> \o waiting \o sending
      BY <1>1, <3>2, StreamFirst
    <3>4. QED
      BY <1>1, <3>1, <3>3 DEF Stream
  <2>3. Orderly'
    BY <1>1, <1>4, <1>5, <2>1, <2>2, OrderlyAfter
  <2>4. Typed' = Typed
    BY <2>2 DEF Typed, Stream
  <2>5. UNCHANGED Keyboard!vars
    BY <1>1, <1>5, <2>1, <2>4 DEF Keyboard!vars
  <2>6. QED
    BY <2>3, <2>5 DEF TerminalStep
<1>7. CASE b # "ESC"
  <2>1. /\ b \in Keys \ Arrows /\ Whole(rest)
        /\ KeysIn(rest) \in Seq(AllBytes) /\ KeysIn(<<b>> \o rest) = <<b>> \o KeysIn(rest)
    BY <1>4, <1>7, WholePlain
  <2>2. escape' = <<>>
    BY <1>1, <1>2, <1>3, <1>7 DEF Plain
  <2>3. Stream' = rest
    BY <1>2, <1>3, <2>2 DEF Stream
  <2>4. Typed = <<b>> \o KeysIn(rest) /\ Typed' = KeysIn(rest)
    BY <1>4, <2>1, <2>3 DEF Typed, Stream
  <2>5. Typed # <<>> /\ Head(Typed) = b /\ Tail(Typed) = Typed'
    BY <2>1, <2>4, NextKey
  <2>6. CASE b = "enter"
    <3>1. EndLine
      BY <1>2, <1>3, <2>6 DEF Plain
    <3>2. History' /\ line' \in Lines /\ Keyboard!Enter
      BY <2>5, <2>6, <3>1, EnterStep
    <3>3. Orderly'
      BY <1>1, <2>1, <2>2, <2>3, <3>2, OrderlyAfter
    <3>4. QED
      BY <1>1, <2>5, <3>2, <3>3, HandledKey
  <2>7. CASE b # "enter"
    <3>1. b \in Letters \cup {"backspace"} /\ b # "left"
      <4>1. b # "left" /\ b \in Letters \cup {"backspace"}
        BY <2>1, <2>7 DEF Keys, Arrows
      <4>2. QED
        BY <4>1
    <3>2. line' = Edited(b) /\ UNCHANGED historyVars
      BY <1>2, <1>3, <1>7, <2>7 DEF Plain
    <3>3. line' \in Lines
      BY <1>1, <3>1, <3>2, EditedLine
    <3>4. Orderly'
      BY <1>1, <1>5, <2>1, <2>2, <2>3, <3>2, <3>3, OrderlyAfter
    <3>5. Keyboard!Edit
      <4>1. CASE b = "backspace"
        <5>1. line' = SubSeq(line, 1, Len(line) - 1)
          BY <3>2, <4>1 DEF Edited
        <5>2. Contents' = Contents /\ history_offset' = history_offset
          BY <1>5, <3>2
        <5>3. Head(Typed) = "backspace"
          BY <2>5, <4>1
        <5>4. "backspace" # "left" /\ "backspace" \notin Letters
          BY Shell2Assumption
        <5>5. QED
          BY <5>1, <5>2, <5>3, <5>4 DEF Keyboard!Edit
      <4>2. CASE b # "backspace"
        <5>1. b \in Letters
          BY <3>1, <4>2
        <5>2. line' = IF Len(line) < COMMAND_LINE_LENGTH - 1 THEN Append(line, b) ELSE line
          BY <3>2, <4>2 DEF Edited, Room
        <5>3. QED
          BY <1>5, <2>5, <3>1, <3>2, <4>2, <5>1, <5>2 DEF Keyboard!Edit
      <4>3. QED
        BY <4>1, <4>2
    <3>6. QED
      BY <1>1, <2>5, <3>1, <3>4, <3>5, HandledKey
  <2>8. QED
    BY <2>6, <2>7
<1>8. QED
  BY <1>6, <1>7

LEMMA SecondStep ==
  ASSUME Orderly, garbled = FALSE, SecondOfEscape, ~garbled'
  PROVE  Orderly' /\ TerminalStep
<1>1. /\ TypeOK /\ History /\ waiting \in Seq(AllBytes) /\ sending \in Seq(AllBytes)
      /\ escape = <<"ESC">> /\ shell_getch /\ UNCHANGED <<historyVars, line>>
      /\ line \in Lines /\ Whole(Stream)
  BY EscapeType DEF Orderly, History, HistoryTypeOK, SecondOfEscape
<1>2. getcharf # EOF /\ garbled' = FALSE
  BY DEF SecondOfEscape
<1>3. waiting # <<>> /\ getcharf = Head(waiting)
  BY <1>2 DEF getcharf
<1>4. sending' = sending /\ waiting' = Tail(waiting)
  BY <1>1, <1>3, ByteTaken
<1>5. Stream = <<"ESC">> \o waiting \o sending
  BY <1>1 DEF Stream
<1>6. Head(waiting) = "[" /\ <<"ESC", "[">> \o Tail(waiting) \o sending = Stream
  BY <1>1, <1>3, <1>5, StreamSecond
<1>7. escape' = <<"ESC", "[">>
  <2>1. escape' = Append(escape, "[")
    BY <1>3, <1>6 DEF SecondOfEscape
  <2>2. QED
    BY <1>1, <2>1, TwoBytes, Zenon
<1>8. Stream' = Stream
  BY <1>4, <1>6, <1>7 DEF Stream
<1>9. History' /\ Contents' = Contents /\ history_offset' = history_offset
  BY <1>1, HistoryKept, ContentsStay
<1>10. Orderly'
  BY <1>1, <1>7, <1>8, <1>9, OrderlyAfter
<1>11. Typed' = Typed
  BY <1>8 DEF Typed, Stream
<1>12. UNCHANGED Keyboard!vars
  BY <1>1, <1>2, <1>9, <1>11 DEF Keyboard!vars
<1>13. QED
  BY <1>10, <1>12 DEF TerminalStep

LEMMA ThirdStep ==
  ASSUME Orderly, garbled = FALSE, ThirdOfEscape, ~garbled'
  PROVE  Orderly' /\ TerminalStep
<1>1. /\ TypeOK /\ History /\ waiting \in Seq(AllBytes) /\ sending \in Seq(AllBytes)
      /\ escape = <<"ESC", "[">> /\ shell_getch /\ escape' = <<>>
      /\ line \in Lines /\ Whole(Stream)
  BY EscapeType DEF Orderly, History, HistoryTypeOK, ThirdOfEscape
<1>2. getcharf # EOF /\ garbled' = FALSE
  BY DEF ThirdOfEscape
<1>3. waiting # <<>> /\ getcharf = Head(waiting)
  BY <1>2 DEF getcharf
<1>4. sending' = sending /\ waiting' = Tail(waiting)
  BY <1>1, <1>3, ByteTaken
<1>5. PICK b \in AllBytes, rest \in Seq(AllBytes) :
        /\ b = Head(waiting) /\ rest = <<>> \o Tail(waiting) \o sending
        /\ <<"ESC", "[">> \o waiting \o sending = <<"ESC", "[">> \o (<<b>> \o rest)
  <2>1. \E b \in AllBytes, rest \in Seq(AllBytes) :
          /\ b = Head(waiting) /\ rest = <<>> \o Tail(waiting) \o sending
          /\ <<>> \o waiting \o sending = <<b>> \o rest
          /\ <<"ESC", "[">> \o waiting \o sending = <<"ESC", "[">> \o (<<b>> \o rest)
          /\ Tail(waiting) \in Seq(AllBytes)
    BY <1>1, <1>3, StreamSplit, Zenon
  <2>2. QED
    BY <2>1, Zenon
<1>6. Stream = <<"ESC", "[">> \o (<<b>> \o rest)
  BY <1>1, <1>5 DEF Stream
<1>7. /\ b \in Arrows /\ Whole(rest) /\ KeysIn(rest) \in Seq(AllBytes)
      /\ KeysIn(<<"ESC", "[">> \o (<<b>> \o rest)) = <<b>> \o KeysIn(rest)
  BY <1>1, <1>6, WholeArrow
<1>8. Stream' = rest
  BY <1>1, <1>4, <1>5 DEF Stream
<1>9. Typed = <<b>> \o KeysIn(rest) /\ Typed' = KeysIn(rest)
  BY <1>6, <1>7, <1>8 DEF Typed, Stream
<1>10. Typed # <<>> /\ Head(Typed) = b /\ Tail(Typed) = Typed'
  BY <1>7, <1>9, NextKey
<1>11. getcharf = b /\ escape[2] = "["
  BY <1>1, <1>3, <1>5
<1>12. CASE b \in {"up", "down"}
  <2>1. line' = Recalled /\ ((Prev /\ Head(Typed) = "up") \/ (GetNext /\ Head(Typed) = "down"))
    <3>1. CASE b = "up"
      <4>1. Prev /\ line' = Recalled
        BY <1>11, <3>1 DEF ThirdOfEscape
      <4>2. QED
        BY <1>10, <3>1, <4>1
    <3>2. CASE b = "down"
      <4>1. GetNext /\ line' = Recalled
        BY <1>11, <3>2 DEF ThirdOfEscape
      <4>2. QED
        BY <1>10, <3>2, <4>1
    <3>3. QED
      BY <1>12, <3>1, <3>2
  <2>2. History' /\ line' \in Lines /\ Keyboard!Recall
    BY <2>1, RecallStep
  <2>3. Orderly'
    BY <1>1, <1>7, <1>8, <2>2, OrderlyAfter
  <2>4. QED
    BY <1>2, <1>10, <2>2, <2>3, HandledKey
<1>13. CASE b = "left"
  <2>1. UNCHANGED <<historyVars, line>>
    BY <1>11, <1>13 DEF ThirdOfEscape
  <2>2. History' /\ Contents' = Contents /\ history_offset' = history_offset
    BY <1>1, <2>1, HistoryKept, ContentsStay
  <2>3. Orderly'
    BY <1>1, <1>7, <1>8, <2>1, <2>2, OrderlyAfter
  <2>4. Keyboard!Edit
    <3>1. Head(Typed) = "left" /\ line' = line
      BY <1>10, <1>13, <2>1
    <3>2. "left" # "backspace" /\ "left" \notin Letters
      BY Shell2Assumption
    <3>3. QED
      BY <2>2, <3>1, <3>2 DEF Keyboard!Edit
  <2>5. QED
    BY <1>2, <1>10, <1>13, <2>3, <2>4, HandledKey
<1>14. QED
  BY <1>7, <1>12, <1>13 DEF Arrows

LEMMA ShellStep ==
  ASSUME ShellInv, [ShellNext]_shellVars
  PROVE  ShellInv' /\ TerminalStep
<1>1. CASE UNCHANGED shellVars
  <2>1. /\ UNCHANGED <<historyVars, line, escape, waiting, sending, garbled>>
        /\ UNCHANGED <<current, first, buffer, history_offset, recalled>>
    BY <1>1 DEF shellVars, keyboard, historyVars, queue, vars
  <2>2. Contents' = Contents /\ QueueSize' = QueueSize /\ Typed' = Typed /\ Stream' = Stream
    BY <2>1 DEF Contents, QueueSize, SlotAt, Back, Typed, Stream
  <2>3. UNCHANGED Keyboard!vars
    BY <2>1, <2>2 DEF Keyboard!vars
  <2>4. Orderly => Orderly'
    BY <2>1, <2>2 DEF Orderly, HistoryTypeOK, TypeOK, NoBlankVisible, NoDuplicates, Whole
  <2>5. QED
    BY <2>1, <2>3, <2>4 DEF ShellInv, TerminalStep
<1>2. CASE ShellNext
  <2>1. garbled' \in BOOLEAN /\ (garbled => garbled')
    BY <1>2 DEF ShellNext, Receive, shell_process_char, Plain, SecondOfEscape, ThirdOfEscape, ShellInv
  <2>2. CASE garbled'
    BY <2>1, <2>2 DEF ShellInv, TerminalStep, Keyboard!Next
  <2>3. CASE ~garbled'
    <3>1. garbled = FALSE /\ Orderly
      BY <2>1, <2>3 DEF ShellInv
    <3>2. Orderly' /\ TerminalStep
      BY <1>2, <2>3, <3>1, ReceiveStep, PlainStep, SecondStep, ThirdStep DEF ShellNext
    <3>3. QED
      BY <2>1, <3>2 DEF ShellInv
  <2>4. QED
    BY <2>2, <2>3
<1>3. QED
  BY <1>1, <1>2

LEMMA ShellStarts == ShellInit => ShellInv /\ Keyboard!Init
<1> SUFFICES ASSUME ShellInit PROVE ShellInv /\ Keyboard!Init
  OBVIOUS
<1>1. Init /\ history_offset = 0 /\ recalled = NoLine
  BY DEF ShellInit, HistoryInit
<1>2. Visible
  BY <1>1, InitVisible
<1>3. QueueSize = 0 /\ Contents = <<>>
  <2>1. QueueSize = 0
    BY <1>1 DEF Init, QueueSize
  <2>2. QED
    BY <2>1 DEF Contents
<1>4. HistoryTypeOK /\ NoBlankVisible /\ NoDuplicates
  BY <1>1, <1>2, <1>3 DEF HistoryTypeOK, Visible, NoDuplicates
<1>5. Stream = <<>>
  BY DEF ShellInit, Stream
<1>6. Whole(Stream)
  BY <1>5 DEF Whole
<1>7. <<>> \in Lines
  <2>1. <<>> \in Seq(Letters) /\ Len(<<>>) <= COMMAND_LINE_LENGTH - 1
    BY Shell2Assumption
  <2>2. QED
    BY <2>1, LineFacts
<1>8. Orderly
  BY <1>4, <1>6, <1>7 DEF Orderly, ShellInit
<1>9. Typed = <<>>
  BY <1>5, KeysOfNone DEF Typed, Stream
<1>10. QED
  BY <1>1, <1>3, <1>8, <1>9 DEF ShellInv, ShellInit, Keyboard!Init

\* Until a key is garbled, the bytes that are still to be handled are whole
\* keys, wherever the interrupt and the main loop are, and the history is in
\* order (shell2/shell.c:198-246, getstring.c:41-121).
THEOREM ShellHolds == ShellSpec => []ShellInv
<1>1. ShellInit => ShellInv
  BY ShellStarts
<1>2. ShellInv /\ [ShellNext]_shellVars => ShellInv'
  BY ShellStep
<1>3. QED
  BY <1>1, <1>2, PTL DEF ShellSpec

\* The shell handles what is typed key by key, as the terminal promises it,
\* however long the ring, the line and the history are and whenever the
\* interrupt comes (shell2/shell.c:198-246, getstring.c:41-121).
THEOREM TerminalImplemented == ShellSpec => ImplementsTerminal
<1>1. ShellInit => Keyboard!Init
  BY ShellStarts
<1>2. ShellInv /\ [ShellNext]_shellVars => [Keyboard!Next]_Keyboard!vars
  BY ShellStep DEF TerminalStep
<1>3. QED
  BY <1>1, <1>2, ShellHolds, PTL DEF ShellSpec, ImplementsTerminal, Keyboard!Spec

=============================================================================
