------------------------------ MODULE HeapProofs ------------------------------
(***************************************************************************)
(* The lists of heap.c are what they should be after any calls of          *)
(* Heap_Alloc and Heap_Free, for every layout of the heap and every size   *)
(* that is asked for, and they do to the blocks what HeapBlocks says: no   *)
(* memory is handed out twice, and none is lost.                           *)
(***************************************************************************)
EXTENDS Heap, WellFoundedInduction, FiniteSetTheorems, TLAPS

\* Every nonempty set of natural numbers has a least element: to show a fact
\* for every number, take the least of those that it does not hold for.
LEMMA LeastNat ==
  ASSUME NEW S, S \subseteq Nat, S # {}
  PROVE  \E n \in S : \A m \in S : n <= m
<1> DEFINE R == {p \in Nat \X Nat : p[1] < p[2]}
<1>1. IsWellFoundedOn(R, Nat)
  BY NatLessThanWellFounded, Zenon DEF OpToRel
<1>2. PICK x \in S : \A y \in S : ~(<<y, x>> \in R)
  BY <1>1, WFMin, Zenon
<1>3. ASSUME NEW m \in S  PROVE x <= m
  <2>1. m < x => <<m, x>> \in R
    OBVIOUS
  <2>2. QED
    BY <1>2, <2>1
<1>4. QED
  BY <1>3

LEMMA LeastIs ==
  ASSUME NEW S, S \subseteq Nat, S # {}
  PROVE  Least(S) \in S /\ \A m \in S : Least(S) <= m
<1>1. \E n \in S : \A m \in S : n <= m
  BY LeastNat
<1>2. QED
  BY <1>1 DEF Least

-----------------------------------------------------------------------------
(* A list of blocks in the order of some ranks: the free list in that of   *)
(* the addresses, the used list in that of the calls of Heap_Alloc.        *)

Addresses == 1..(HeapEnd - 1)

Header == [prev : 0..HeapEnd, next : 0..HeapEnd, size : 0..HeapEnd]

Headers(hdr) ==
  /\ DOMAIN hdr \subseteq Addresses
  /\ hdr = [a \in DOMAIN hdr |-> hdr[a]]
  /\ \A a \in DOMAIN hdr : hdr[a] \in Header

Ranks(S, r) ==
  /\ \A x \in S : r[x] \in Nat
  /\ \A x, y \in S : r[x] = r[y] => x = y

\* n is the first of S that is ranked after k.
After(S, r, k, n) ==
  \/ n = NULL /\ \A y \in S : r[y] <= k
  \/ n \in S /\ r[n] > k /\ \A y \in S : r[y] > k => r[n] <= r[y]

\* p is the last of S that is ranked before k.
Before(S, r, k, p) ==
  \/ p = NULL /\ \A y \in S : r[y] >= k
  \/ p \in S /\ r[p] < k /\ \A y \in S : r[y] < k => r[y] <= r[p]

IsFirst(S, r, head) ==
  \/ head = NULL /\ S = {}
  \/ head \in S /\ \A y \in S : r[head] <= r[y]

\* The blocks S are the list that starts at head.
Ordered(hdr, S, head, r) ==
  /\ Ranks(S, r)
  /\ IsFirst(S, r, head)
  /\ \A x \in S : /\ After(S, r, r[x], hdr[x].next)
                  /\ Before(S, r, r[x], hdr[x].prev)

LEMMA AddressFacts ==
  /\ NULL \notin Addresses /\ Addresses \subseteq Nat
  /\ HeapEnd \in Nat
  /\ \A a \in Addresses : a \in Nat /\ a > 0 /\ a < HeapEnd /\ a \in 0..HeapEnd /\ a # NULL
BY HeapAssumption DEF Addresses, NULL

\* The links back are the inverse of the links forward.
LinksAgree(hdr, S, head, r, x) ==
  /\ hdr[x].next \in S \cup {NULL}
  /\ hdr[x].prev \in S \cup {NULL}
  /\ hdr[x].next # NULL => r[x] < r[hdr[x].next] /\ hdr[hdr[x].next].prev = x
  /\ hdr[x].prev # NULL => r[hdr[x].prev] < r[x] /\ hdr[hdr[x].prev].next = x
  /\ hdr[x].prev = NULL <=> x = head

LEMMA OrderedInverse ==
  ASSUME NEW hdr, NEW S, S \subseteq Addresses, NEW head, NEW r,
         Ordered(hdr, S, head, r), NEW x \in S
  PROVE  LinksAgree(hdr, S, head, r, x)
<1> PICK n, p : n = hdr[x].next /\ p = hdr[x].prev
  OBVIOUS
<1>1. /\ After(S, r, r[x], n) /\ Before(S, r, r[x], p)
      /\ Ranks(S, r) /\ IsFirst(S, r, head)
  BY DEF Ordered
<1>2. ASSUME n # NULL
      PROVE  n \in S /\ r[x] < r[n] /\ hdr[n].prev = x
  <2>1. n \in S /\ r[x] < r[n] /\ \A y \in S : r[y] > r[x] => r[n] <= r[y]
    BY <1>1, <1>2 DEF After
  <2>2. Before(S, r, r[n], hdr[n].prev)
    BY <2>1 DEF Ordered
  <2>3. PICK q : q = hdr[n].prev
    OBVIOUS
  <2>4. q \in S /\ r[q] < r[n] /\ r[x] <= r[q]
    BY <1>1, <2>1, <2>2, <2>3 DEF Before, Ranks
  <2>5. r[q] = r[x]
    BY <1>1, <2>1, <2>4 DEF Ranks
  <2>6. QED
    BY <1>1, <2>1, <2>3, <2>4, <2>5 DEF Ranks
<1>3. ASSUME p # NULL
      PROVE  p \in S /\ r[p] < r[x] /\ hdr[p].next = x
  <2>1. p \in S /\ r[p] < r[x] /\ \A y \in S : r[y] < r[x] => r[y] <= r[p]
    BY <1>1, <1>3 DEF Before
  <2>2. After(S, r, r[p], hdr[p].next)
    BY <2>1 DEF Ordered
  <2>3. PICK q : q = hdr[p].next
    OBVIOUS
  <2>4. q \in S /\ r[p] < r[q] /\ r[q] <= r[x]
    BY <1>1, <2>1, <2>2, <2>3 DEF After, Ranks
  <2>5. r[q] = r[x]
    BY <1>1, <2>1, <2>4 DEF Ranks
  <2>6. QED
    BY <1>1, <2>1, <2>3, <2>4, <2>5 DEF Ranks
<1>4. p = NULL <=> x = head
  <2>1. ASSUME p = NULL PROVE x = head
    <3>1. \A y \in S : r[y] >= r[x]
      BY <1>1, <2>1, AddressFacts DEF Before
    <3>2. head \in S /\ r[head] <= r[x]
      BY <1>1 DEF IsFirst
    <3>3. r[head] = r[x]
      BY <1>1, <3>1, <3>2 DEF Ranks
    <3>4. QED
      BY <1>1, <3>2, <3>3 DEF Ranks
  <2>2. ASSUME x = head PROVE p = NULL
    <3>1. \A y \in S : r[x] <= r[y]
      BY <1>1, <2>2 DEF IsFirst
    <3>2. QED
      BY <1>1, <1>3, <3>1 DEF Ranks
  <2>3. QED
    BY <2>1, <2>2
<1>5. QED
  BY <1>2, <1>3, <1>4 DEF LinksAgree

-----------------------------------------------------------------------------
(* A loop along the list.                                                  *)

LEMMA WalkUnfold ==
  ASSUME NEW hdr, NEW a
  PROVE  /\ Walk(hdr, a)[0] = a
         /\ \A i \in 1..HeapEnd :
              Walk(hdr, a)[i] = Onward(hdr, Walk(hdr, a)[i - 1])
<1> DEFINE N == HeapEnd
           IsWalk(m, g) == /\ g = [i \in 0..N |-> g[i]]
                           /\ g[0] = a
                           /\ \A i \in 1..m : g[i] = Onward(hdr, g[i - 1])
           Bad == {m \in 0..N : \A g : ~IsWalk(m, g)}
<1>1. N \in Nat
  BY HeapAssumption
<1>2. Bad = {}
  <2>1. SUFFICES ASSUME Bad # {} PROVE FALSE
    OBVIOUS
  <2>2. PICK m \in Bad : \A k \in Bad : m <= k
    <3>1. Bad \subseteq Nat
      BY <1>1
    <3>2. QED
      BY <2>1, <3>1, LeastNat
  <2>3. m # 0
    <3>1. IsWalk(0, [i \in 0..N |-> a])
      BY <1>1
    <3>2. QED
      BY <2>2, <3>1
  <2>4. m - 1 \in 0..N /\ m - 1 \notin Bad /\ m \in 1..N
    BY <1>1, <2>2, <2>3
  <2>5. PICK g : IsWalk(m - 1, g)
    BY <2>4
  <2>6. PICK h : h = [i \in 0..N |-> IF i = m THEN Onward(hdr, g[m - 1]) ELSE g[i]]
    OBVIOUS
  <2>7. h = [i \in 0..N |-> h[i]]
    BY <2>6
  <2>8. h[0] = a
    BY <1>1, <2>4, <2>5, <2>6
  <2>9. ASSUME NEW i \in 1..m
        PROVE  h[i] = Onward(hdr, h[i - 1])
    <3>1. i \in 0..N /\ i - 1 \in 0..N /\ i - 1 # m
      BY <1>1, <2>4
    <3>2. h[i - 1] = g[i - 1] /\ h[i] = IF i = m THEN Onward(hdr, g[m - 1]) ELSE g[i]
      BY <2>6, <3>1
    <3>3. i # m => g[i] = Onward(hdr, g[i - 1])
      <4>1. \A k \in 1..(m - 1) : g[k] = Onward(hdr, g[k - 1])
        BY <2>5, Zenon
      <4>2. i # m => i \in 1..(m - 1)
        BY <2>4
      <4>3. QED
        BY <4>1, <4>2
    <3>4. QED
      BY <3>2, <3>3
  <2>10. IsWalk(m, h)
    BY <2>7, <2>8, <2>9
  <2>11. QED
    BY <2>2, <2>10
<1>3. PICK g : IsWalk(N, g)
  BY <1>1, <1>2
<1>4. \A i \in 0..N : g[i] = IF i = 0 THEN a ELSE Onward(hdr, g[i - 1])
  <2>1. ASSUME NEW i \in 0..N, i # 0
        PROVE  g[i] = Onward(hdr, g[i - 1])
    <3>1. i \in 1..N
      BY <1>1, <2>1
    <3>2. QED
      BY <1>3, <3>1
  <2>2. QED
    BY <1>3, <2>1
<1> DEFINE Solves(w) == w = [i \in 0..HeapEnd |->
                               IF i = 0 THEN a ELSE Onward(hdr, w[i - 1])]
<1>5. Solves(g)
  BY <1>3, <1>4
<1>6. PICK w : w = Walk(hdr, a)
  OBVIOUS
<1>7. Solves(w)
  <2>1. Walk(hdr, a) = CHOOSE v : Solves(v)
    BY DEF Walk
  <2>2. \E v : Solves(v)
    BY <1>5, Zenon
  <2> HIDE DEF Solves
  <2>3. Solves(CHOOSE v : Solves(v))
    BY <2>2, Zenon
  <2>4. QED
    BY <1>6, <2>1, <2>3, Zenon
<1>8. \A i \in 0..HeapEnd : w[i] = IF i = 0 THEN a ELSE Onward(hdr, w[i - 1])
  BY <1>7, Zenon
<1>9. 0 \in 0..HeapEnd
      /\ \A i \in 1..HeapEnd : i # 0 /\ i \in 0..HeapEnd
  BY <1>1
<1>10. QED
  BY <1>6, <1>8, <1>9, Zenon

\* What the loop meets is in the list, in the order of the ranks.
LEMMA WalkOrdered ==
  ASSUME NEW hdr, NEW S, S \subseteq Addresses, NEW head, NEW r,
         Ordered(hdr, S, head, r)
  PROVE  LET w == Walk(hdr, head)
         IN /\ \A i \in 0..HeapEnd : w[i] \in S \cup {NULL}
            /\ \A j \in 0..HeapEnd : \A i \in 0..(j - 1) :
                 w[j] \in S => w[i] \in S /\ r[w[i]] < r[w[j]]
<1> PICK w : w = Walk(hdr, head)
  OBVIOUS
<1>1. HeapEnd \in Nat /\ NULL \notin S
  BY AddressFacts
<1>2. w[0] = head /\ \A i \in 1..HeapEnd : w[i] = Onward(hdr, w[i - 1])
  <2>1. /\ Walk(hdr, head)[0] = head
        /\ \A i \in 1..HeapEnd :
              Walk(hdr, head)[i] = Onward(hdr, Walk(hdr, head)[i - 1])
    BY WalkUnfold
  <2>2. QED
    BY <2>1
<1>3. ASSUME NEW i \in 1..HeapEnd, w[i - 1] \in S \cup {NULL}
      PROVE  /\ w[i] \in S \cup {NULL}
             /\ w[i] \in S => w[i - 1] \in S /\ r[w[i - 1]] < r[w[i]]
  <2>1. w[i] = Onward(hdr, w[i - 1])
    BY <1>2
  <2>2. CASE w[i - 1] = NULL
    BY <1>1, <2>1, <2>2 DEF Onward
  <2>3. CASE w[i - 1] # NULL
    <3>1. PICK x \in S : x = w[i - 1]
      BY <1>3, <2>3
    <3>2. hdr[x].next \in S \cup {NULL}
          /\ (hdr[x].next # NULL => r[x] < r[hdr[x].next])
      BY OrderedInverse DEF LinksAgree
    <3>3. w[i] = hdr[x].next
      BY <2>1, <2>3, <3>1 DEF Onward
    <3>4. QED
      BY <1>1, <3>1, <3>2, <3>3
  <2>4. QED
    BY <2>2, <2>3
<1>4. \A i \in 0..HeapEnd : w[i] \in S \cup {NULL}
  <2> DEFINE Bad == {i \in 0..HeapEnd : w[i] \notin S \cup {NULL}}
  <2>1. SUFFICES ASSUME Bad # {} PROVE FALSE
    OBVIOUS
  <2>2. PICK i \in Bad : \A k \in Bad : i <= k
    <3>1. Bad \subseteq Nat
      BY <1>1
    <3>2. QED
      BY <2>1, <3>1, LeastNat
  <2>3. i # 0
    BY <1>2, <2>2 DEF Ordered, IsFirst
  <2>4. i \in 1..HeapEnd /\ i - 1 \in 0..HeapEnd /\ i - 1 \notin Bad
    BY <1>1, <2>2, <2>3
  <2>5. QED
    BY <1>3, <2>2, <2>4
<1>5. ASSUME NEW j \in 0..HeapEnd, NEW i \in 0..(j - 1), w[j] \in S
      PROVE  w[i] \in S /\ r[w[i]] < r[w[j]]
  <2> DEFINE Good(k) == w[k] \in S => w[i] \in S /\ r[w[i]] < r[w[k]]
             Bad == {k \in (i + 1)..HeapEnd : ~Good(k)}
  <2>1. Bad = {}
    <3>1. SUFFICES ASSUME Bad # {} PROVE FALSE
      OBVIOUS
    <3>2. PICK k \in Bad : \A l \in Bad : k <= l
      <4>1. Bad \subseteq Nat
        BY <1>1
      <4>2. QED
        BY <3>1, <4>1, LeastNat
    <3>3. /\ k \in 1..HeapEnd /\ k - 1 \in 0..HeapEnd /\ k - 1 \notin Bad
          /\ k - 1 # i => Good(k - 1)
      BY <1>1, <3>2
    <3>4. w[k] \in S
      BY <3>2
    <3>5. w[k - 1] \in S /\ r[w[k - 1]] < r[w[k]]
      BY <1>3, <1>4, <3>3, <3>4
    <3>6. k - 1 # i
      BY <3>2, <3>5
    <3>7. w[i] \in S /\ r[w[i]] < r[w[k - 1]]
      BY <3>3, <3>5, <3>6
    <3>8. r[w[i]] \in Nat /\ r[w[k - 1]] \in Nat /\ r[w[k]] \in Nat
      BY <3>4, <3>5, <3>7 DEF Ordered, Ranks
    <3>9. QED
      BY <3>2, <3>5, <3>7, <3>8
  <2>2. j \in (i + 1)..HeapEnd
    BY <1>1
  <2>3. QED
    BY <1>5, <2>1, <2>2
<1>6. QED
  BY <1>4, <1>5

\* The loop meets the end of the list: there are not as many addresses.
LEMMA WalkEnds ==
  ASSUME NEW hdr, NEW S, S \subseteq Addresses, NEW head, NEW r,
         Ordered(hdr, S, head, r)
  PROVE  Walk(hdr, head)[HeapEnd] = NULL
<1> PICK w : w = Walk(hdr, head)
  OBVIOUS
<1>1. /\ \A i \in 0..HeapEnd : w[i] \in S \cup {NULL}
      /\ \A j \in 0..HeapEnd : \A i \in 0..(j - 1) :
           w[j] \in S => w[i] \in S /\ r[w[i]] < r[w[j]]
  BY WalkOrdered
<1>2. HeapEnd \in Nat /\ NULL \notin S
  BY AddressFacts
<1>3. SUFFICES ASSUME w[HeapEnd] \in S PROVE FALSE
  BY <1>1, <1>2
<1>4. ASSUME NEW i \in 0..HeapEnd PROVE w[i] \in S
  BY <1>1, <1>2, <1>3
<1>5. ASSUME NEW i \in 0..HeapEnd, NEW j \in 0..HeapEnd, w[i] = w[j]
      PROVE  i = j
  <2>1. w[i] \in S /\ r[w[i]] \in Nat
    BY <1>4 DEF Ordered, Ranks
  <2>2. i \in 0..(j - 1) => r[w[i]] < r[w[j]]
    BY <1>1, <1>4
  <2>3. j \in 0..(i - 1) => r[w[j]] < r[w[i]]
    BY <1>1, <1>4
  <2>4. i \in 0..(j - 1) \/ j \in 0..(i - 1) \/ i = j
    BY <1>2
  <2>5. QED
    BY <1>5, <2>1, <2>2, <2>3, <2>4
<1>6. PICK f : f = [i \in 0..HeapEnd |-> w[i]]
  OBVIOUS
<1>7. f \in Injection(0..HeapEnd, Addresses)
  <2>1. f \in [0..HeapEnd -> Addresses]
    BY <1>4, <1>6
  <2>2. \A i, j \in 0..HeapEnd : f[i] = f[j] => i = j
    BY <1>5, <1>6
  <2>3. QED
    BY <2>1, <2>2 DEF Injection, IsInjective
<1>8. /\ IsFiniteSet(0..HeapEnd) /\ Cardinality(0..HeapEnd) = HeapEnd + 1
      /\ IsFiniteSet(Addresses)
      /\ Cardinality(Addresses) = IF HeapEnd = 0 THEN 0 ELSE HeapEnd - 1
  BY <1>2, FS_Interval DEF Addresses
<1>9. Cardinality(0..HeapEnd) <= Cardinality(Addresses)
  BY <1>7, <1>8, FS_Injection
<1>10. QED
  BY <1>2, <1>8, <1>9

\* The loop meets all of the list, and the first of some blocks first.
LEMMA WalkAll ==
  ASSUME NEW hdr, NEW S, S \subseteq Addresses, NEW head, NEW r,
         Ordered(hdr, S, head, r)
  PROVE  /\ List(hdr, head) = S
         /\ \A P \in SUBSET S : P # {} =>
              /\ FirstMet(hdr, head, P) \in P
              /\ \A y \in P : r[FirstMet(hdr, head, P)] <= r[y]
<1> PICK w : w = Walk(hdr, head)
  OBVIOUS
<1>1. /\ \A i \in 0..HeapEnd : w[i] \in S \cup {NULL}
      /\ \A j \in 0..HeapEnd : \A i \in 0..(j - 1) :
           w[j] \in S => w[i] \in S /\ r[w[i]] < r[w[j]]
  BY WalkOrdered
<1>2. HeapEnd \in Nat /\ NULL \notin S
  BY AddressFacts
<1>3. w[HeapEnd] = NULL
  BY WalkEnds
<1>4. w[0] = head /\ \A i \in 1..HeapEnd : w[i] = Onward(hdr, w[i - 1])
  <2>1. /\ Walk(hdr, head)[0] = head
        /\ \A i \in 1..HeapEnd :
              Walk(hdr, head)[i] = Onward(hdr, Walk(hdr, head)[i - 1])
    BY WalkUnfold
  <2>2. QED
    BY <2>1
<1>5. \A x \in S : \E i \in 0..HeapEnd : w[i] = x
  <2> DEFINE Missed == {x \in S : \A i \in 0..HeapEnd : w[i] # x}
             Bad == {r[x] : x \in Missed}
  <2>1. SUFFICES ASSUME Missed # {} PROVE FALSE
    OBVIOUS
  <2>2. PICK k \in Bad : \A l \in Bad : k <= l
    <3>1. Bad \subseteq Nat /\ Bad # {}
      BY <2>1 DEF Ordered, Ranks
    <3>2. QED
      BY <3>1, LeastNat
  <2>3. PICK x \in S : x \in Missed /\ r[x] = k
    BY <2>2
  <2>4. PICK p : p = hdr[x].prev
    OBVIOUS
  <2>5. /\ p \in S \cup {NULL}
        /\ p # NULL => r[p] < r[x] /\ hdr[p].next = x
        /\ p = NULL <=> x = head
    <3>1. LinksAgree(hdr, S, head, r, x)
      BY OrderedInverse
    <3>2. QED
      BY <2>4, <3>1 DEF LinksAgree
  <2>6. p # NULL
    BY <1>2, <1>4, <2>3, <2>5
  <2>7. p \in S /\ p \notin Missed
    <3>1. p \in S /\ r[p] < k /\ r[p] \in Nat /\ k \in Nat
      BY <2>3, <2>5, <2>6 DEF Ordered, Ranks
    <3>2. r[p] \notin Bad
      BY <2>2, <3>1
    <3>3. QED
      BY <3>1, <3>2
  <2>8. PICK i \in 0..HeapEnd : w[i] = p
    BY <2>7
  <2>9. i + 1 \in 1..HeapEnd /\ i + 1 \in 0..HeapEnd /\ i + 1 - 1 = i
    BY <1>2, <1>3, <2>6, <2>8
  <2>10. w[i + 1] = Onward(hdr, w[i])
    BY <1>4, <2>9
  <2>11. w[i + 1] = x
    BY <2>5, <2>6, <2>8, <2>10 DEF Onward
  <2>12. QED
    BY <2>3, <2>9, <2>11
<1>6. List(hdr, head) = S
  <2>1. List(hdr, head) = {w[i] : i \in 0..HeapEnd} \ {NULL}
    BY DEF List
  <2>2. QED
    BY <1>1, <1>2, <1>5, <2>1
<1>7. ASSUME NEW P \in SUBSET S, P # {}
      PROVE  /\ FirstMet(hdr, head, P) \in P
             /\ \A y \in P : r[FirstMet(hdr, head, P)] <= r[y]
  <2>1. PICK I : I = {i \in 0..HeapEnd : w[i] \in P}
    OBVIOUS
  <2>2. I # {} /\ I \subseteq Nat
    BY <1>2, <1>5, <1>7, <2>1
  <2>3. PICK l \in I : l = Least(I) /\ \A m \in I : l <= m
    BY <2>2, LeastIs
  <2>4. FirstMet(hdr, head, P) = w[l]
    BY <2>1, <2>3 DEF FirstMet
  <2>5. ASSUME NEW y \in P PROVE r[w[l]] <= r[y]
    <3>1. PICK j \in 0..HeapEnd : w[j] = y
      BY <1>5
    <3>2. l <= j /\ l \in 0..HeapEnd
      BY <2>1, <2>3, <3>1
    <3>3. r[y] \in Nat
      BY DEF Ordered, Ranks
    <3>4. l # j => l \in 0..(j - 1)
      BY <1>2, <3>2
    <3>5. l # j => r[w[l]] < r[w[j]] /\ r[w[l]] \in Nat
      <4>1. l # j => w[l] \in S /\ r[w[l]] < r[w[j]]
        BY <1>1, <3>1, <3>4
      <4>2. QED
        BY <4>1 DEF Ordered, Ranks
    <3>6. QED
      BY <3>1, <3>3, <3>5
  <2>6. QED
    BY <2>1, <2>3, <2>4, <2>5
<1>8. QED
  BY <1>6, <1>7

-----------------------------------------------------------------------------
(* Blocks that join and leave a list.                                      *)

\* The links of hdr2 are those of hdr, with n where p had a's.
LinksWithout(hdr, hdr2, S, a) ==
  \A x \in S \ {a} :
    /\ hdr2[x].next = IF x = hdr[a].prev THEN hdr[a].next ELSE hdr[x].next
    /\ hdr2[x].prev = IF x = hdr[a].next THEN hdr[a].prev ELSE hdr[x].prev

LinksWith(hdr, hdr2, S, a, p, n) ==
  /\ hdr2[a].next = n /\ hdr2[a].prev = p
  /\ \A x \in S : /\ hdr2[x].next = IF x = p THEN a ELSE hdr[x].next
                  /\ hdr2[x].prev = IF x = n THEN a ELSE hdr[x].prev

LEMMA OrderedWithout ==
  ASSUME NEW hdr, NEW S, S \subseteq Addresses, NEW head, NEW r,
         Ordered(hdr, S, head, r), NEW a \in S,
         NEW hdr2, LinksWithout(hdr, hdr2, S, a)
  PROVE  Ordered(hdr2, S \ {a}, HeadWithout(hdr, head, a), r)
<1> PICK n, p, T : n = hdr[a].next /\ p = hdr[a].prev /\ T = S \ {a}
  OBVIOUS
<1>1. /\ After(S, r, r[a], n) /\ Before(S, r, r[a], p)
      /\ Ranks(S, r) /\ IsFirst(S, r, head)
  BY DEF Ordered
<1>2. n \in S \cup {NULL} /\ p \in S \cup {NULL} /\ (p = NULL <=> a = head)
  BY OrderedInverse DEF LinksAgree
<1>3. Ranks(T, r)
  BY <1>1 DEF Ranks
<1>4. ASSUME NEW x \in T
      PROVE  /\ r[x] \in Nat /\ r[a] \in Nat /\ r[x] # r[a]
             /\ After(S, r, r[x], hdr[x].next) /\ Before(S, r, r[x], hdr[x].prev)
             /\ hdr2[x].next = IF x = p THEN n ELSE hdr[x].next
             /\ hdr2[x].prev = IF x = n THEN p ELSE hdr[x].prev
             /\ hdr[x].next = a => x = p
             /\ hdr[x].prev = a => x = n
             /\ x \in S /\ x # NULL
  <2>1. x \in S /\ x # a /\ x # NULL
    BY AddressFacts
  <2>2. /\ hdr[x].next = a => hdr[a].prev = x
        /\ hdr[x].prev = a => hdr[a].next = x
    <3>1. a # NULL
      BY AddressFacts
    <3>2. LinksAgree(hdr, S, head, r, x)
      BY <2>1, OrderedInverse
    <3>3. QED
      BY <3>1, <3>2 DEF LinksAgree
  <2>3. /\ hdr2[x].next = IF x = hdr[a].prev THEN hdr[a].next ELSE hdr[x].next
        /\ hdr2[x].prev = IF x = hdr[a].next THEN hdr[a].prev ELSE hdr[x].prev
    BY <2>1 DEF LinksWithout
  <2>4. After(S, r, r[x], hdr[x].next) /\ Before(S, r, r[x], hdr[x].prev)
    BY <2>1 DEF Ordered
  <2>5. r[x] \in Nat /\ r[a] \in Nat /\ r[x] # r[a]
    BY <1>1, <2>1 DEF Ranks
  <2>6. QED
    BY <2>1, <2>2, <2>3, <2>4, <2>5
<1>5. \A y \in T : r[y] \in Nat /\ y \in S
  BY <1>1 DEF Ranks
<1>6. ASSUME NEW x \in T PROVE After(T, r, r[x], hdr2[x].next)
  <2>1. CASE x = p
    <3>1. hdr2[x].next = n
      BY <1>4, <2>1
    <3>2. r[p] < r[a] /\ \A y \in T : r[y] <= r[p] \/ r[y] > r[a]
      <4>1. p \in S /\ r[p] < r[a] /\ \A y \in S : r[y] < r[a] => r[y] <= r[p]
        BY <1>1, <1>4, <2>1 DEF Before
      <4>2. QED
        BY <4>1, <1>4
    <3>3. n # a
      BY <1>1, <1>4, AddressFacts DEF After
    <3>4. r[p] \in Nat /\ r[a] \in Nat /\ (n # NULL => n \in T /\ r[n] \in Nat)
      BY <1>2, <1>4, <1>5, <2>1, <3>3
    <3>5. QED
      BY <1>1, <1>5, <2>1, <3>1, <3>2, <3>3, <3>4 DEF After
  <2>2. CASE x # p
    <3>1. hdr2[x].next = hdr[x].next /\ hdr[x].next # a
      BY <1>4, <2>2
    <3>2. After(S, r, r[x], hdr[x].next)
      BY <1>4
    <3>3. QED
      BY <1>5, <3>1, <3>2 DEF After
  <2>3. QED
    BY <2>1, <2>2
<1>7. ASSUME NEW x \in T PROVE Before(T, r, r[x], hdr2[x].prev)
  <2>1. CASE x = n
    <3>1. hdr2[x].prev = p
      BY <1>4, <2>1
    <3>2. r[a] < r[n] /\ \A y \in T : r[y] >= r[n] \/ r[y] < r[a]
      <4>1. n \in S /\ r[n] > r[a] /\ \A y \in S : r[y] > r[a] => r[n] <= r[y]
        BY <1>1, <1>4, <2>1 DEF After
      <4>2. QED
        BY <4>1, <1>4
    <3>3. p # a
      BY <1>1, <1>4, AddressFacts DEF Before
    <3>4. r[n] \in Nat /\ r[a] \in Nat /\ (p # NULL => p \in T /\ r[p] \in Nat)
      BY <1>2, <1>4, <1>5, <2>1, <3>3
    <3>5. QED
      BY <1>1, <1>5, <2>1, <3>1, <3>2, <3>3, <3>4 DEF Before
  <2>2. CASE x # n
    <3>1. hdr2[x].prev = hdr[x].prev /\ hdr[x].prev # a
      BY <1>4, <2>2
    <3>2. Before(S, r, r[x], hdr[x].prev)
      BY <1>4
    <3>3. QED
      BY <1>5, <3>1, <3>2 DEF Before
  <2>3. QED
    BY <2>1, <2>2
<1>8. IsFirst(T, r, HeadWithout(hdr, head, a))
  <2>1. CASE p = NULL
    <3>1. HeadWithout(hdr, head, a) = n
      BY <2>1 DEF HeadWithout
    <3>2. \A y \in T : r[y] > r[a]
      <4>1. \A y \in S : r[y] >= r[a]
        BY <1>1, <2>1, AddressFacts DEF Before
      <4>2. QED
        BY <4>1, <1>4
    <3>3. n = NULL => T = {}
      <4>1. n = NULL => \A y \in S : r[y] <= r[a]
        BY <1>1, AddressFacts DEF After
      <4>2. QED
        BY <1>4, <3>2, <4>1
    <3>4. n # NULL => n \in S /\ r[n] > r[a] /\ \A y \in S : r[y] > r[a] => r[n] <= r[y]
      BY <1>1 DEF After
    <3>5. n # NULL => n \in T
      BY <1>1, <3>4 DEF Ranks
    <3>6. QED
      BY <3>1, <3>2, <3>3, <3>4, <3>5, <1>5 DEF IsFirst
  <2>2. CASE p # NULL
    <3>1. HeadWithout(hdr, head, a) = head /\ a # head
      BY <1>2, <2>2 DEF HeadWithout
    <3>2. head \in S /\ \A y \in S : r[head] <= r[y]
      BY <1>1 DEF IsFirst
    <3>3. QED
      BY <3>1, <3>2 DEF IsFirst
  <2>3. QED
    BY <2>1, <2>2
<1>9. Ordered(hdr2, T, HeadWithout(hdr, head, a), r)
  BY <1>3, <1>6, <1>7, <1>8 DEF Ordered
<1>10. QED
  BY <1>9

LEMMA OrderedWith ==
  ASSUME NEW hdr, NEW S, S \subseteq Addresses, NEW head, NEW r,
         Ordered(hdr, S, head, r), NEW a \in Addresses, a \notin S,
         Ranks(S \cup {a}, r),
         NEW p, Before(S, r, r[a], p), NEW n, After(S, r, r[a], n),
         NEW hdr2, LinksWith(hdr, hdr2, S, a, p, n)
  PROVE  Ordered(hdr2, S \cup {a}, IF p = NULL THEN a ELSE head, r)
<1> PICK T : T = S \cup {a}
  OBVIOUS
<1>1. /\ Ranks(S, r) /\ IsFirst(S, r, head)
      /\ r[a] \in Nat /\ \A x \in S : r[x] \in Nat /\ r[x] # r[a]
      /\ NULL \notin T
  BY AddressFacts DEF Ordered, Ranks
<1>2. Ranks(T, r)
  OBVIOUS
<1>3. /\ n = NULL => \A y \in S : r[y] < r[a]
      /\ n # NULL => n \in S /\ r[n] > r[a] /\ \A y \in S : r[y] < r[a] \/ r[n] <= r[y]
  <2>1. \A y \in S : r[y] > r[a] \/ r[y] < r[a]
    BY <1>1
  <2>2. NULL \notin S
    BY <1>1
  <2>3. QED
    BY <1>1, <2>1, <2>2 DEF After
<1>4. /\ p = NULL => \A y \in S : r[y] > r[a]
      /\ p # NULL => p \in S /\ r[p] < r[a] /\ \A y \in S : r[y] > r[a] \/ r[y] <= r[p]
  <2>1. \A y \in S : r[y] > r[a] \/ r[y] < r[a]
    BY <1>1
  <2>2. NULL \notin S
    BY <1>1
  <2>3. QED
    BY <1>1, <2>1, <2>2 DEF Before
<1>5. ASSUME NEW x \in T PROVE After(T, r, r[x], hdr2[x].next)
  <2>1. CASE x = a
    <3>1. hdr2[x].next = n
      BY <2>1 DEF LinksWith
    <3>2. QED
      BY <1>1, <1>3, <2>1, <3>1 DEF After
  <2>2. CASE x # a /\ x = p
    <3>1. hdr2[x].next = a
      BY <2>2 DEF LinksWith
    <3>2. p # NULL /\ r[p] \in Nat
      BY <1>1, <2>2
    <3>3. r[p] < r[a] /\ \A y \in S : r[y] > r[a] \/ r[y] <= r[p]
      BY <1>4, <3>2
    <3>4. QED
      BY <1>1, <2>2, <3>1, <3>2, <3>3 DEF After
  <2>3. CASE x # a /\ x # p
    <3>1. x \in S /\ hdr2[x].next = hdr[x].next
      BY <2>3 DEF LinksWith
    <3>2. PICK q : q = hdr[x].next
      OBVIOUS
    <3>3. After(S, r, r[x], q)
      BY <3>1, <3>2 DEF Ordered
    <3>4. r[a] > r[x] => q \in S /\ r[q] < r[a]
      <4>1. SUFFICES ASSUME r[a] > r[x] PROVE q \in S /\ r[q] < r[a]
        OBVIOUS
      <4>2. p \in S /\ r[p] < r[a] /\ r[x] <= r[p]
        BY <1>1, <1>4, <3>1, <4>1
      <4>3. r[p] # r[x]
        BY <1>1, <2>3, <3>1, <4>2 DEF Ranks
      <4>4. r[p] \in Nat /\ r[x] \in Nat
        BY <1>1, <3>1, <4>2
      <4>5. r[p] > r[x]
        BY <4>2, <4>3, <4>4
      <4>6. q \in S /\ r[q] <= r[p]
        BY <3>3, <4>2, <4>4, <4>5 DEF After
      <4>7. QED
        BY <1>1, <4>2, <4>4, <4>6
    <3>5. QED
      <4>1. CASE q = NULL
        <5>1. \A y \in S : r[y] <= r[x]
          BY <1>1, <3>3, <4>1 DEF After
        <5>2. ~(r[a] > r[x])
          BY <1>1, <3>4, <4>1
        <5>3. QED
          BY <1>1, <3>1, <3>2, <4>1, <5>1, <5>2 DEF After
      <4>2. CASE q # NULL
        <5>1. q \in S /\ r[q] > r[x] /\ \A y \in S : r[y] > r[x] => r[q] <= r[y]
          BY <3>3, <4>2 DEF After
        <5>2. r[q] \in Nat /\ r[x] \in Nat
          BY <1>1, <3>1, <5>1
        <5>3. QED
          BY <1>1, <3>1, <3>2, <3>4, <5>1, <5>2 DEF After
      <4>3. QED
        BY <4>1, <4>2
  <2>4. QED
    BY <2>1, <2>2, <2>3
<1>6. ASSUME NEW x \in T PROVE Before(T, r, r[x], hdr2[x].prev)
  <2>1. CASE x = a
    <3>1. hdr2[x].prev = p
      BY <2>1 DEF LinksWith
    <3>2. QED
      BY <1>1, <1>4, <2>1, <3>1 DEF Before
  <2>2. CASE x # a /\ x = n
    <3>1. hdr2[x].prev = a
      BY <2>2 DEF LinksWith
    <3>2. n # NULL /\ r[n] \in Nat
      BY <1>1, <2>2
    <3>3. r[n] > r[a] /\ \A y \in S : r[y] < r[a] \/ r[n] <= r[y]
      BY <1>3, <3>2
    <3>4. QED
      BY <1>1, <2>2, <3>1, <3>2, <3>3 DEF Before
  <2>3. CASE x # a /\ x # n
    <3>1. x \in S /\ hdr2[x].prev = hdr[x].prev
      BY <2>3 DEF LinksWith
    <3>2. PICK q : q = hdr[x].prev
      OBVIOUS
    <3>3. Before(S, r, r[x], q)
      BY <3>1, <3>2 DEF Ordered
    <3>4. r[a] < r[x] => q \in S /\ r[q] > r[a]
      <4>1. SUFFICES ASSUME r[a] < r[x] PROVE q \in S /\ r[q] > r[a]
        OBVIOUS
      <4>2. n \in S /\ r[n] > r[a] /\ r[n] <= r[x]
        BY <1>1, <1>3, <3>1, <4>1
      <4>3. r[n] # r[x]
        BY <1>1, <2>3, <3>1, <4>2 DEF Ranks
      <4>4. r[n] \in Nat /\ r[x] \in Nat
        BY <1>1, <3>1, <4>2
      <4>5. r[n] < r[x]
        BY <4>2, <4>3, <4>4
      <4>6. q \in S /\ r[n] <= r[q]
        BY <3>3, <4>2, <4>4, <4>5 DEF Before
      <4>7. QED
        BY <1>1, <4>2, <4>4, <4>6
    <3>5. QED
      <4>1. CASE q = NULL
        <5>1. \A y \in S : r[y] >= r[x]
          BY <1>1, <3>3, <4>1 DEF Before
        <5>2. ~(r[a] < r[x])
          BY <1>1, <3>4, <4>1
        <5>3. QED
          BY <1>1, <3>1, <3>2, <4>1, <5>1, <5>2 DEF Before
      <4>2. CASE q # NULL
        <5>1. q \in S /\ r[q] < r[x] /\ \A y \in S : r[y] < r[x] => r[y] <= r[q]
          BY <3>3, <4>2 DEF Before
        <5>2. r[q] \in Nat /\ r[x] \in Nat
          BY <1>1, <3>1, <5>1
        <5>3. QED
          BY <1>1, <3>1, <3>2, <3>4, <5>1, <5>2 DEF Before
      <4>3. QED
        BY <4>1, <4>2
  <2>4. QED
    BY <2>1, <2>2, <2>3
<1>7. IsFirst(T, r, IF p = NULL THEN a ELSE head)
  <2>1. CASE p = NULL
    BY <1>1, <1>4, <2>1 DEF IsFirst
  <2>2. CASE p # NULL
    <3>1. p \in S /\ r[p] < r[a] /\ r[p] \in Nat
      BY <1>1, <1>4, <2>2
    <3>2. head \in S /\ r[head] <= r[p] /\ r[head] \in Nat /\ \A y \in S : r[head] <= r[y]
      BY <1>1, <3>1 DEF IsFirst
    <3>3. QED
      BY <1>1, <2>2, <3>1, <3>2 DEF IsFirst
  <2>3. QED
    BY <2>1, <2>2
<1>8. Ordered(hdr2, T, IF p = NULL THEN a ELSE head, r)
  BY <1>2, <1>5, <1>6, <1>7 DEF Ordered
<1>9. QED
  BY <1>8

\* What changes elsewhere leaves a list as it is.
LEMMA OrderedSame ==
  ASSUME NEW hdr, NEW S, NEW head, NEW r, Ordered(hdr, S, head, r), NEW hdr2,
         \A x \in S : hdr2[x].next = hdr[x].next /\ hdr2[x].prev = hdr[x].prev
  PROVE  Ordered(hdr2, S, head, r)
BY DEF Ordered

\* At the front of the list: the ranks go up by one.
LEMMA OrderedFront ==
  ASSUME NEW hdr, NEW S, S \subseteq Addresses, NEW head, NEW r,
         Ordered(hdr, S, head, r), NEW a \in Addresses, a \notin S,
         NEW hdr2, LinksWith(hdr, hdr2, S, a, NULL, head)
  PROVE  \E q : Ordered(hdr2, S \cup {a}, a, q)
<1> PICK q : q = [x \in Addresses |-> IF x = a THEN 0 ELSE r[x] + 1]
  OBVIOUS
<1>1. q[a] = 0 /\ \A x \in S : q[x] = r[x] + 1 /\ r[x] \in Nat
  BY DEF Ordered, Ranks
<1>2. Ranks(S, q) /\ Ranks(S \cup {a}, q)
  <2>1. \A x, y \in S : r[x] = r[y] => x = y
    BY DEF Ordered, Ranks
  <2>2. QED
    BY <1>1, <2>1 DEF Ranks
<1>3. IsFirst(S, q, head)
  BY <1>1 DEF Ordered, IsFirst
<1>4. ASSUME NEW x \in S
      PROVE  After(S, q, q[x], hdr[x].next) /\ Before(S, q, q[x], hdr[x].prev)
  <2>1. After(S, r, r[x], hdr[x].next) /\ Before(S, r, r[x], hdr[x].prev)
    BY DEF Ordered
  <2>2. PICK m, l : m = hdr[x].next /\ l = hdr[x].prev
    OBVIOUS
  <2>3. After(S, q, q[x], m)
    BY <1>1, <2>1, <2>2 DEF After
  <2>4. Before(S, q, q[x], l)
    <3>1. \A y \in S : /\ q[y] >= q[x] <=> r[y] >= r[x]
                       /\ q[y] < q[x] <=> r[y] < r[x]
      BY <1>1
    <3>2. \A y, z \in S : q[y] <= q[z] <=> r[y] <= r[z]
      BY <1>1
    <3>3. CASE l \in S /\ r[l] < r[x] /\ \A y \in S : r[y] < r[x] => r[y] <= r[l]
      BY <3>1, <3>2, <3>3 DEF Before
    <3>4. CASE l = NULL /\ \A y \in S : r[y] >= r[x]
      BY <3>1, <3>4 DEF Before
    <3>5. QED
      BY <2>1, <2>2, <3>3, <3>4 DEF Before
  <2>5. QED
    BY <2>2, <2>3, <2>4
<1>5. Ordered(hdr, S, head, q)
  BY <1>2, <1>3, <1>4 DEF Ordered
<1>6. Before(S, q, q[a], NULL)
  BY <1>1 DEF Before
<1>7. After(S, q, q[a], head)
  <2>1. \A y \in S : q[y] > 0 /\ q[y] \in Nat
    BY <1>1
  <2>2. QED
    BY <1>1, <1>3, <2>1 DEF After, IsFirst
<1>8. Ordered(hdr2, S \cup {a}, IF NULL = NULL THEN a ELSE head, q)
  BY <1>2, <1>5, <1>6, <1>7, OrderedWith
<1>9. QED
  BY <1>8

-----------------------------------------------------------------------------
(* Sums.                                                                   *)

\* The sums of the first elements.
LEMMA TotalUnfold ==
  ASSUME NEW f, NEW n \in Nat
  PROVE  \E t : /\ t[0] = 0 /\ Total(f, n) = t[n]
               /\ \A i \in 1..n : t[i] = t[i - 1] + f[i]
<1> DEFINE N == n
           IsSum(m, g) == /\ g = [i \in 0..N |-> g[i]]
                           /\ g[0] = 0
                           /\ \A i \in 1..m : g[i] = g[i - 1] + f[i]
           Bad == {m \in 0..N : \A g : ~IsSum(m, g)}
<1>1. N \in Nat
  OBVIOUS
<1>2. Bad = {}
  <2>1. SUFFICES ASSUME Bad # {} PROVE FALSE
    OBVIOUS
  <2>2. PICK m \in Bad : \A k \in Bad : m <= k
    <3>1. Bad \subseteq Nat
      BY <1>1
    <3>2. QED
      BY <2>1, <3>1, LeastNat
  <2>3. m # 0
    <3>1. IsSum(0, [i \in 0..N |-> 0])
      BY <1>1
    <3>2. QED
      BY <2>2, <3>1
  <2>4. m - 1 \in 0..N /\ m - 1 \notin Bad /\ m \in 1..N
    BY <1>1, <2>2, <2>3, SMTT(30)
  <2>5. PICK g : IsSum(m - 1, g)
    BY <2>4
  <2>6. PICK h : h = [i \in 0..N |-> IF i = m THEN g[m - 1] + f[m] ELSE g[i]]
    OBVIOUS
  <2>7. h = [i \in 0..N |-> h[i]]
    BY <2>6
  <2>8. h[0] = 0
    BY <1>1, <2>4, <2>5, <2>6
  <2>9. ASSUME NEW i \in 1..m
        PROVE  h[i] = h[i - 1] + f[i]
    <3>1. i \in 0..N /\ i - 1 \in 0..N /\ i - 1 # m
      BY <1>1, <2>4
    <3>2. h[i - 1] = g[i - 1] /\ h[i] = IF i = m THEN g[m - 1] + f[m] ELSE g[i]
      BY <2>6, <3>1
    <3>3. i # m => g[i] = g[i - 1] + f[i]
      <4>1. \A k \in 1..(m - 1) : g[k] = g[k - 1] + f[k]
        BY <2>5, Zenon
      <4>2. i # m => i \in 1..(m - 1)
        BY <2>4
      <4>3. QED
        BY <4>1, <4>2
    <3>4. QED
      BY <3>2, <3>3
  <2>10. IsSum(m, h)
    BY <2>7, <2>8, <2>9
  <2>11. QED
    BY <2>2, <2>10
<1>3. PICK g : IsSum(N, g)
  BY <1>1, <1>2
<1>4. \A i \in 0..N : g[i] = IF i = 0 THEN 0 ELSE g[i - 1] + f[i]
  <2>1. ASSUME NEW i \in 0..N, i # 0
        PROVE  g[i] = g[i - 1] + f[i]
    <3>1. i \in 1..N
      BY <1>1, <2>1
    <3>2. QED
      BY <1>3, <3>1
  <2>2. QED
    BY <1>3, <2>1
<1> DEFINE Solves(w) == w = [i \in 0..n |->
                               IF i = 0 THEN 0 ELSE w[i - 1] + f[i]]
<1>5. Solves(g)
  BY <1>3, <1>4
<1>6. PICK w : w = CHOOSE v : Solves(v)
  OBVIOUS
<1>7. Solves(w)
  <2>1. \E v : Solves(v)
    BY <1>5, Zenon
  <2> HIDE DEF Solves
  <2>2. QED
    BY <1>6, <2>1, Zenon
<1>8. Total(f, n) = w[n]
  BY <1>6 DEF Total
<1>9. \A i \in 0..n : w[i] = IF i = 0 THEN 0 ELSE w[i - 1] + f[i]
  BY <1>7, Zenon
<1>10. 0 \in 0..n /\ \A i \in 1..n : i # 0 /\ i \in 0..n
  BY <1>1
<1>11. QED
  BY <1>8, <1>9, <1>10, Zenon


LEMMA TotalNat ==
  ASSUME NEW f, NEW n \in Nat, \A i \in 1..n : f[i] \in Nat
  PROVE  Total(f, n) \in Nat
<1>1. PICK t : /\ t[0] = 0 /\ Total(f, n) = t[n]
               /\ \A i \in 1..n : t[i] = t[i - 1] + f[i]
  BY TotalUnfold
<1> DEFINE Bad == {i \in 0..n : t[i] \notin Nat}
<1>2. SUFFICES ASSUME Bad # {} PROVE FALSE
  BY <1>1
<1>3. PICK k \in Bad : \A l \in Bad : k <= l
  <2>1. Bad \subseteq Nat
    OBVIOUS
  <2>2. QED
    BY <1>2, <2>1, LeastNat
<1>4. k \in 1..n /\ k - 1 \in 0..n /\ k - 1 \notin Bad
  BY <1>1, <1>3
<1>5. QED
  BY <1>1, <1>3, <1>4

\* One number changes.
LEMMA TotalChange ==
  ASSUME NEW n \in Nat, NEW c \in 1..n,
         NEW f, \A i \in 1..n : f[i] \in Int,
         NEW g, \A i \in 1..n : g[i] \in Int /\ (i # c => g[i] = f[i])
  PROVE  Total(g, n) = Total(f, n) + (g[c] - f[c])
<1>1. PICK t : /\ t[0] = 0 /\ Total(f, n) = t[n]
               /\ \A i \in 1..n : t[i] = t[i - 1] + f[i]
  BY TotalUnfold
<1>2. PICK u : /\ u[0] = 0 /\ Total(g, n) = u[n]
               /\ \A i \in 1..n : u[i] = u[i - 1] + g[i]
  BY TotalUnfold
<1> DEFINE Good(i) == /\ t[i] \in Int
                      /\ u[i] = IF i < c THEN t[i] ELSE t[i] + (g[c] - f[c])
           Bad == {i \in 0..n : ~Good(i)}
<1>3. SUFFICES ASSUME Bad # {} PROVE FALSE
  BY <1>1, <1>2
<1>4. PICK k \in Bad : \A l \in Bad : k <= l
  <2>1. Bad \subseteq Nat
    OBVIOUS
  <2>2. QED
    BY <1>3, <2>1, LeastNat
<1>5. k \in 1..n /\ k - 1 \in 0..n /\ k - 1 \notin Bad
  BY <1>1, <1>2, <1>4
<1>6. Good(k - 1)
  BY <1>5
<1>7. /\ t[k] = t[k - 1] + f[k] /\ u[k] = u[k - 1] + g[k]
      /\ f[k] \in Int /\ g[k] \in Int /\ (k # c => g[k] = f[k])
      /\ f[c] \in Int /\ g[c] \in Int
  BY <1>1, <1>2, <1>5
<1>8. QED
  BY <1>4, <1>5, <1>6, <1>7

LEMMA TotalSame ==
  ASSUME NEW n \in Nat, NEW f, \A i \in 1..n : f[i] \in Int,
         NEW g, \A i \in 1..n : g[i] = f[i]
  PROVE  Total(g, n) = Total(f, n)
<1>1. CASE n = 0
  <2>1. PICK t : t[0] = 0 /\ Total(f, n) = t[n]
    BY TotalUnfold
  <2>2. PICK u : u[0] = 0 /\ Total(g, n) = u[n]
    BY TotalUnfold
  <2>3. QED
    BY <1>1, <2>1, <2>2
<1>2. CASE n # 0
  <2>1. n \in 1..n
    BY <1>2
  <2>2. Total(g, n) = Total(f, n) + (g[n] - f[n])
    BY <2>1, TotalChange
  <2>3. Total(f, n) \in Int
    <3>1. PICK t : /\ t[0] = 0 /\ Total(f, n) = t[n]
                   /\ \A i \in 1..n : t[i] = t[i - 1] + f[i]
      BY TotalUnfold
    <3> DEFINE Bad == {i \in 0..n : t[i] \notin Int}
    <3>2. SUFFICES ASSUME Bad # {} PROVE FALSE
      BY <3>1
    <3>3. PICK k \in Bad : \A l \in Bad : k <= l
      <4>1. Bad \subseteq Nat
        OBVIOUS
      <4>2. QED
        BY <3>2, <4>1, LeastNat
    <3>4. k \in 1..n /\ k - 1 \in 0..n /\ k - 1 \notin Bad
      BY <3>1, <3>3
    <3>5. QED
      BY <3>1, <3>3, <3>4
  <2>4. QED
    BY <2>1, <2>2, <2>3
<1>3. QED
  BY <1>1, <1>2

LEMMA TotalZero ==
  ASSUME NEW n \in Nat, NEW f, \A i \in 1..n : f[i] = 0
  PROVE  Total(f, n) = 0
<1>1. PICK t : /\ t[0] = 0 /\ Total(f, n) = t[n]
               /\ \A i \in 1..n : t[i] = t[i - 1] + f[i]
  BY TotalUnfold
<1> DEFINE Bad == {i \in 0..n : t[i] # 0}
<1>2. SUFFICES ASSUME Bad # {} PROVE FALSE
  BY <1>1
<1>3. PICK k \in Bad : \A l \in Bad : k <= l
  <2>1. Bad \subseteq Nat
    OBVIOUS
  <2>2. QED
    BY <1>2, <2>1, LeastNat
<1>4. k \in 1..n /\ k - 1 \in 0..n /\ k - 1 \notin Bad
  BY <1>1, <1>3
<1>5. QED
  BY <1>1, <1>3, <1>4

\* Division with remainder of each number.
LEMMA TotalDivided ==
  ASSUME NEW n \in Nat, NEW f, NEW q, NEW h, NEW H \in Nat,
         \A i \in 1..n : /\ q[i] \in Nat /\ h[i] \in Nat
                         /\ f[i] = H * q[i] + h[i]
  PROVE  Total(f, n) = H * Total(q, n) + Total(h, n)
<1>1. PICK t : /\ t[0] = 0 /\ Total(f, n) = t[n]
               /\ \A i \in 1..n : t[i] = t[i - 1] + f[i]
  BY TotalUnfold
<1>2. PICK u : /\ u[0] = 0 /\ Total(q, n) = u[n]
               /\ \A i \in 1..n : u[i] = u[i - 1] + q[i]
  BY TotalUnfold
<1>3. PICK v : /\ v[0] = 0 /\ Total(h, n) = v[n]
               /\ \A i \in 1..n : v[i] = v[i - 1] + h[i]
  BY TotalUnfold
<1> DEFINE Good(i) == /\ u[i] \in Nat /\ v[i] \in Nat
                      /\ t[i] = H * u[i] + v[i]
           Bad == {i \in 0..n : ~Good(i)}
<1>4. SUFFICES ASSUME Bad # {} PROVE FALSE
  BY <1>1, <1>2, <1>3
<1>5. PICK k \in Bad : \A l \in Bad : k <= l
  <2>1. Bad \subseteq Nat
    OBVIOUS
  <2>2. QED
    BY <1>4, <2>1, LeastNat
<1>6. k \in 1..n /\ k - 1 \in 0..n /\ k - 1 \notin Bad
  <2>1. H * 0 = 0
    OBVIOUS
  <2>2. Good(0)
    BY <1>1, <1>2, <1>3, <2>1
  <2>3. k # 0
    BY <1>5, <2>2
  <2>4. QED
    BY <1>5, <2>3
<1>7. Good(k - 1)
  BY <1>6
<1>8. PICK x \in Nat, y \in Nat : x = u[k - 1] /\ y = q[k]
  BY <1>6, <1>7
<1>9. /\ t[k] = t[k - 1] + f[k] /\ u[k] = x + y /\ v[k] = v[k - 1] + h[k]
      /\ h[k] \in Nat /\ f[k] = H * y + h[k]
      /\ t[k - 1] = H * x + v[k - 1] /\ v[k - 1] \in Nat
  BY <1>1, <1>2, <1>3, <1>6, <1>7, <1>8
<1>10. H * (x + y) = H * x + H * y /\ H * x \in Nat /\ H * y \in Nat
  OBVIOUS
<1>11. Good(k)
  BY <1>9, <1>10
<1>12. QED
  BY <1>5, <1>11

-----------------------------------------------------------------------------
\* The calls of Heap_Merge one after the other.
LEMMA MergeUnfold ==
  ASSUME NEW hi, NEW a
  PROVE  \E m : /\ m[0] = hi /\ Merge(hi, a) = m[HeapEnd]
               /\ \A i \in 1..HeapEnd : m[i] = Swallow(m[i - 1], a)
<1> DEFINE N == HeapEnd
           IsMerge(m, g) == /\ g = [i \in 0..N |-> g[i]]
                           /\ g[0] = hi
                           /\ \A i \in 1..m : g[i] = Swallow(g[i - 1], a)
           Bad == {m \in 0..N : \A g : ~IsMerge(m, g)}
<1>1. N \in Nat
  BY HeapAssumption
<1>2. Bad = {}
  <2>1. SUFFICES ASSUME Bad # {} PROVE FALSE
    OBVIOUS
  <2>2. PICK m \in Bad : \A k \in Bad : m <= k
    <3>1. Bad \subseteq Nat
      BY <1>1
    <3>2. QED
      BY <2>1, <3>1, LeastNat
  <2>3. m # 0
    <3>1. IsMerge(0, [i \in 0..N |-> hi])
      BY <1>1
    <3>2. QED
      BY <2>2, <3>1
  <2>4. m - 1 \in 0..N /\ m - 1 \notin Bad /\ m \in 1..N
    BY <1>1, <2>2, <2>3
  <2>5. PICK g : IsMerge(m - 1, g)
    BY <2>4
  <2>6. PICK h : h = [i \in 0..N |-> IF i = m THEN Swallow(g[m - 1], a) ELSE g[i]]
    OBVIOUS
  <2>7. h = [i \in 0..N |-> h[i]]
    BY <2>6
  <2>8. h[0] = hi
    BY <1>1, <2>4, <2>5, <2>6
  <2>9. ASSUME NEW i \in 1..m
        PROVE  h[i] = Swallow(h[i - 1], a)
    <3>1. i \in 0..N /\ i - 1 \in 0..N /\ i - 1 # m
      BY <1>1, <2>4
    <3>2. h[i - 1] = g[i - 1] /\ h[i] = IF i = m THEN Swallow(g[m - 1], a) ELSE g[i]
      BY <2>6, <3>1
    <3>3. i # m => g[i] = Swallow(g[i - 1], a)
      <4>1. \A k \in 1..(m - 1) : g[k] = Swallow(g[k - 1], a)
        BY <2>5, Zenon
      <4>2. i # m => i \in 1..(m - 1)
        BY <2>4
      <4>3. QED
        BY <4>1, <4>2
    <3>4. QED
      BY <3>2, <3>3
  <2>10. IsMerge(m, h)
    BY <2>7, <2>8, <2>9
  <2>11. QED
    BY <2>2, <2>10
<1>3. PICK g : IsMerge(N, g)
  BY <1>1, <1>2
<1>4. \A i \in 0..N : g[i] = IF i = 0 THEN hi ELSE Swallow(g[i - 1], a)
  <2>1. ASSUME NEW i \in 0..N, i # 0
        PROVE  g[i] = Swallow(g[i - 1], a)
    <3>1. i \in 1..N
      BY <1>1, <2>1
    <3>2. QED
      BY <1>3, <3>1
  <2>2. QED
    BY <1>3, <2>1
<1> DEFINE Solves(w) == w = [i \in 0..HeapEnd |->
                               IF i = 0 THEN hi ELSE Swallow(w[i - 1], a)]
<1>5. Solves(g)
  BY <1>3, <1>4
<1>6. PICK w : w = CHOOSE v : Solves(v)
  OBVIOUS
<1>7. Solves(w)
  <2>1. \E v : Solves(v)
    BY <1>5, Zenon
  <2> HIDE DEF Solves
  <2>2. QED
    BY <1>6, <2>1, Zenon
<1>8. Merge(hi, a) = w[HeapEnd]
  BY <1>6 DEF Merge
<1>9. \A i \in 0..HeapEnd : w[i] = IF i = 0 THEN hi ELSE Swallow(w[i - 1], a)
  BY <1>7, Zenon
<1>10. 0 \in 0..HeapEnd /\ \A i \in 1..HeapEnd : i # 0 /\ i \in 0..HeapEnd
  BY <1>1
<1>11. QED
  BY <1>8, <1>9, <1>10, Zenon

-----------------------------------------------------------------------------
(* What the writes to the links do.                                        *)

\* The blocks of h are those of hdr, with other links.
Relinked(hdr, h) ==
  /\ Headers(h) /\ DOMAIN h = DOMAIN hdr
  /\ \A x \in DOMAIN hdr : h[x].size = hdr[x].size

PrevSet(hdr, h, a, p) ==
  /\ Relinked(hdr, h)
  /\ \A x \in DOMAIN hdr : /\ h[x].prev = IF x = a THEN p ELSE hdr[x].prev
                           /\ h[x].next = hdr[x].next

NextSet(hdr, h, a, n) ==
  /\ Relinked(hdr, h)
  /\ \A x \in DOMAIN hdr : /\ h[x].next = IF x = a THEN n ELSE hdr[x].next
                           /\ h[x].prev = hdr[x].prev

Unlinked(hdr, h, a) ==
  /\ Relinked(hdr, h)
  /\ \A x \in DOMAIN hdr :
       /\ h[x].next = IF x = hdr[a].prev THEN hdr[a].next ELSE hdr[x].next
       /\ h[x].prev = IF x = hdr[a].next THEN hdr[a].prev ELSE hdr[x].prev

Linked(hdr, h, a, p, n) ==
  /\ Relinked(hdr, h)
  /\ \A x \in DOMAIN hdr :
       /\ h[x].next = IF x = a THEN n ELSE IF x = p THEN a ELSE hdr[x].next
       /\ h[x].prev = IF x = a THEN p ELSE IF x = n THEN a ELSE hdr[x].prev

LEMMA SetPrevIs ==
  ASSUME NEW hdr, Headers(hdr), NEW a \in DOMAIN hdr \cup {NULL}, NEW p \in 0..HeapEnd
  PROVE  PrevSet(hdr, SetPrev(hdr, a, p), a, p)
<1>1. CASE a = NULL
  <2>1. SetPrev(hdr, a, p) = hdr
    BY <1>1 DEF SetPrev
  <2>2. \A x \in DOMAIN hdr : x # a
    BY <1>1, AddressFacts DEF Headers
  <2>3. QED
    BY <2>1, <2>2 DEF PrevSet, Relinked
<1>2. CASE a # NULL
  <2>1. PICK h : h = SetPrev(hdr, a, p)
    OBVIOUS
  <2>2. PICK e : e = [hdr[a] EXCEPT !.prev = p]
    OBVIOUS
  <2>3. h = [hdr EXCEPT ![a] = e]
    BY <1>2, <2>1, <2>2 DEF SetPrev
  <2>4. hdr[a] \in Header
    BY <1>2 DEF Headers
  <2>5. e \in Header /\ e.prev = p /\ e.next = hdr[a].next /\ e.size = hdr[a].size
    BY <2>2, <2>4 DEF Header
  <2>6. DOMAIN h = DOMAIN hdr /\ \A x \in DOMAIN hdr : h[x] = IF x = a THEN e ELSE hdr[x]
    BY <2>3 DEF Headers
  <2>7. h = [x \in DOMAIN h |-> h[x]]
    BY <2>3 DEF Headers
  <2>8. Headers(h)
    BY <2>5, <2>6, <2>7 DEF Headers
  <2>9. QED
    BY <2>1, <2>5, <2>6, <2>8 DEF PrevSet, Relinked
<1>3. QED
  BY <1>1, <1>2

LEMMA SetNextIs ==
  ASSUME NEW hdr, Headers(hdr), NEW a \in DOMAIN hdr \cup {NULL}, NEW n \in 0..HeapEnd
  PROVE  NextSet(hdr, SetNext(hdr, a, n), a, n)
<1>1. CASE a = NULL
  <2>1. SetNext(hdr, a, n) = hdr
    BY <1>1 DEF SetNext
  <2>2. \A x \in DOMAIN hdr : x # a
    BY <1>1, AddressFacts DEF Headers
  <2>3. QED
    BY <2>1, <2>2 DEF NextSet, Relinked
<1>2. CASE a # NULL
  <2>1. PICK h : h = SetNext(hdr, a, n)
    OBVIOUS
  <2>2. PICK e : e = [hdr[a] EXCEPT !.next = n]
    OBVIOUS
  <2>3. h = [hdr EXCEPT ![a] = e]
    BY <1>2, <2>1, <2>2 DEF SetNext
  <2>4. hdr[a] \in Header
    BY <1>2 DEF Headers
  <2>5. e \in Header /\ e.next = n /\ e.prev = hdr[a].prev /\ e.size = hdr[a].size
    BY <2>2, <2>4 DEF Header
  <2>6. DOMAIN h = DOMAIN hdr /\ \A x \in DOMAIN hdr : h[x] = IF x = a THEN e ELSE hdr[x]
    BY <2>3 DEF Headers
  <2>7. h = [x \in DOMAIN h |-> h[x]]
    BY <2>3 DEF Headers
  <2>8. Headers(h)
    BY <2>5, <2>6, <2>7 DEF Headers
  <2>9. QED
    BY <2>1, <2>5, <2>6, <2>8 DEF NextSet, Relinked
<1>3. QED
  BY <1>1, <1>2

LEMMA UnlinkIs ==
  ASSUME NEW hdr, Headers(hdr), NEW a \in DOMAIN hdr,
         hdr[a].next \in DOMAIN hdr \cup {NULL}, hdr[a].prev \in DOMAIN hdr \cup {NULL}
  PROVE  Unlinked(hdr, Unlink(hdr, a), a)
<1> PICK n, p : n = hdr[a].next /\ p = hdr[a].prev
  OBVIOUS
<1>1. n \in DOMAIN hdr \cup {NULL} /\ p \in DOMAIN hdr \cup {NULL}
      /\ n \in 0..HeapEnd /\ p \in 0..HeapEnd
  BY DEF Headers, Header
<1>2. PICK m : m = SetPrev(hdr, n, p)
  OBVIOUS
<1>3. /\ Headers(m) /\ DOMAIN m = DOMAIN hdr
      /\ \A x \in DOMAIN hdr : /\ m[x].prev = IF x = n THEN p ELSE hdr[x].prev
                               /\ m[x].next = hdr[x].next
                               /\ m[x].size = hdr[x].size
  <2>1. PrevSet(hdr, m, n, p)
    BY <1>1, <1>2, SetPrevIs
  <2>2. QED
    BY <2>1 DEF PrevSet, Relinked
<1>4. PICK l : l = SetNext(m, p, n)
  OBVIOUS
<1>5. /\ Headers(l) /\ DOMAIN l = DOMAIN m
      /\ \A x \in DOMAIN m : /\ l[x].next = IF x = p THEN n ELSE m[x].next
                             /\ l[x].prev = m[x].prev
                             /\ l[x].size = m[x].size
  <2>1. NextSet(m, l, p, n)
    BY <1>1, <1>3, <1>4, SetNextIs
  <2>2. QED
    BY <2>1 DEF NextSet, Relinked
<1>6. Unlink(hdr, a) = l
  BY <1>2, <1>4 DEF Unlink
<1>7. /\ Relinked(hdr, l)
      /\ \A x \in DOMAIN hdr : /\ l[x].next = IF x = p THEN n ELSE hdr[x].next
                               /\ l[x].prev = IF x = n THEN p ELSE hdr[x].prev
  BY <1>3, <1>5 DEF Relinked
<1>8. QED
  BY <1>6, <1>7 DEF Unlinked

LEMMA LinkIs ==
  ASSUME NEW hdr, Headers(hdr), NEW a \in DOMAIN hdr,
         NEW p \in DOMAIN hdr \cup {NULL}, NEW n \in DOMAIN hdr \cup {NULL},
         p # a, n # a
  PROVE  Linked(hdr, Link(hdr, a, p, n), a, p, n)
<1>1. a \in 0..HeapEnd /\ p \in 0..HeapEnd /\ n \in 0..HeapEnd
  BY AddressFacts DEF Headers, NULL
<1>2. PICK m : m = SetPrev(hdr, n, a)
  OBVIOUS
<1>3. /\ Headers(m) /\ DOMAIN m = DOMAIN hdr
      /\ \A x \in DOMAIN hdr : /\ m[x].prev = IF x = n THEN a ELSE hdr[x].prev
                               /\ m[x].next = hdr[x].next
                               /\ m[x].size = hdr[x].size
  <2>1. PrevSet(hdr, m, n, a)
    BY <1>1, <1>2, SetPrevIs
  <2>2. QED
    BY <2>1 DEF PrevSet, Relinked
<1>4. PICK l : l = SetNext(m, p, a)
  OBVIOUS
<1>5. /\ Headers(l) /\ DOMAIN l = DOMAIN m
      /\ \A x \in DOMAIN m : /\ l[x].next = IF x = p THEN a ELSE m[x].next
                             /\ l[x].prev = m[x].prev
                             /\ l[x].size = m[x].size
  <2>1. NextSet(m, l, p, a)
    BY <1>1, <1>3, <1>4, SetNextIs
  <2>2. QED
    BY <2>1 DEF NextSet, Relinked
<1>6. PICK k, o : k = [l EXCEPT ![a].prev = p, ![a].next = n]
                  /\ o = [l[a] EXCEPT !.prev = p, !.next = n]
  OBVIOUS
<1>7. l[a] \in Header /\ l = [x \in DOMAIN l |-> l[x]]
  BY <1>3, <1>5 DEF Headers
<1>8. o \in Header /\ o.prev = p /\ o.next = n /\ o.size = l[a].size
  BY <1>1, <1>6, <1>7 DEF Header
<1>9. /\ DOMAIN k = DOMAIN l /\ k = [x \in DOMAIN k |-> k[x]]
      /\ \A x \in DOMAIN l : k[x] = IF x = a THEN o ELSE l[x]
  <2>1. PICK j : j = [l EXCEPT ![a].prev = p]
    OBVIOUS
  <2>2. k = [j EXCEPT ![a].next = n]
    BY <1>6, <2>1
  <2>3. DOMAIN j = DOMAIN l
        /\ \A x \in DOMAIN l : j[x] = IF x = a THEN [l[a] EXCEPT !.prev = p] ELSE l[x]
    BY <1>7, <2>1
  <2>4. DOMAIN k = DOMAIN l /\ k = [x \in DOMAIN k |-> k[x]]
        /\ \A x \in DOMAIN l : k[x] = IF x = a THEN [j[a] EXCEPT !.next = n] ELSE j[x]
    BY <1>7, <2>1, <2>2, <2>3
  <2>5. a \in DOMAIN l /\ [j[a] EXCEPT !.next = n] = o
    BY <1>3, <1>5, <1>6, <2>3
  <2>6. QED
    BY <2>3, <2>4, <2>5
<1>10. Headers(k)
  BY <1>5, <1>8, <1>9 DEF Headers
<1>11. Link(hdr, a, p, n) = k
  BY <1>2, <1>4, <1>6 DEF Link
<1>12. /\ Relinked(hdr, k)
       /\ \A x \in DOMAIN hdr :
            /\ k[x].next = IF x = a THEN n ELSE IF x = p THEN a ELSE hdr[x].next
            /\ k[x].prev = IF x = a THEN p ELSE IF x = n THEN a ELSE hdr[x].prev
  BY <1>3, <1>5, <1>8, <1>9, <1>10 DEF Relinked
<1>13. QED
  BY <1>11, <1>12 DEF Linked

-----------------------------------------------------------------------------
(* Heap_Merge.                                                             *)

\* The ranks of the free list.
Address == [x \in Addresses |-> x]

\* Each block ends before the next one and the end of the heap.
Spaced(hdr) ==
  /\ \A a \in DOMAIN hdr : a + hdr[a].size < HeapEnd
  /\ \A a, b \in DOMAIN hdr : a < b => a + hdr[a].size < b

UnitsOf(hdr, F) == [a \in 1..HeapEnd |-> IF a \in F THEN hdr[a].size ELSE 0]

LeftOver ==
  Total([i \in 1..SpaceCount |-> heap_spaces[i].heap_size % HEADER], SpaceCount)

Exact(hdr, F, bytes) ==
  bytes = HEADER * Total(UnitsOf(hdr, F), HeapEnd) + LeftOver

\* What holds of the free blocks F.
FreeOK(hdr, F, head, bytes) ==
  /\ Headers(hdr) /\ Spaced(hdr)
  /\ F \subseteq DOMAIN hdr
  /\ Ordered(hdr, F, head, Address)
  /\ Exact(hdr, F, bytes)

Touches(hdr, F, a) == a + hdr[a].size + 1 \in F

LEMMA HeaderFacts ==
  ASSUME NEW hdr, Headers(hdr), NEW a \in DOMAIN hdr
  PROVE  /\ a \in Addresses /\ a \in Nat /\ a # NULL /\ a \in 1..HeapEnd
         /\ Address[a] = a
         /\ hdr[a].size \in Nat /\ hdr[a].size \in 0..HeapEnd
         /\ hdr[a].next \in 0..HeapEnd /\ hdr[a].prev \in 0..HeapEnd
         /\ hdr[a] \in Header
<1>1. a \in Addresses /\ hdr[a] \in Header
  BY DEF Headers
<1>2. a \in Nat /\ a # NULL /\ a \in 1..HeapEnd
  BY <1>1, AddressFacts
<1>3. QED
  BY <1>1, <1>2, AddressFacts DEF Header, Address

LEMMA UnitsNat ==
  ASSUME NEW hdr, Headers(hdr), NEW F, F \subseteq DOMAIN hdr
  PROVE  \A i \in 1..HeapEnd : /\ UnitsOf(hdr, F)[i] \in Nat
                               /\ UnitsOf(hdr, F)[i] = IF i \in F THEN hdr[i].size ELSE 0
BY HeaderFacts DEF UnitsOf

\* A free block that starts where a ends is the one after a in the list.
LEMMA TouchesNext ==
  ASSUME NEW hdr, NEW F, NEW head, NEW bytes, FreeOK(hdr, F, head, bytes), NEW a \in F
  PROVE  Touches(hdr, F, a) <=> hdr[a].next # NULL /\ hdr[a].next = a + hdr[a].size + 1
<1> PICK n, e : n = hdr[a].next /\ e = a + hdr[a].size + 1
  OBVIOUS
<1>1. Headers(hdr) /\ Spaced(hdr) /\ F \subseteq DOMAIN hdr
      /\ After(F, Address, Address[a], n)
  BY DEF FreeOK, Ordered
<1>2. \A x \in F : Address[x] = x /\ x \in Nat /\ x # NULL /\ hdr[x].size \in Nat
  BY <1>1, HeaderFacts
<1>3. \/ n = NULL /\ (\A y \in F : y <= a)
      \/ n \in F /\ n > a /\ (\A y \in F : y > a => n <= y)
  BY <1>1, <1>2 DEF After
<1>4. ASSUME e \in F PROVE n # NULL /\ n = e
  <2>1. e > a
    BY <1>2
  <2>2. n \in F /\ n > a /\ n <= e
    BY <1>2, <1>3, <1>4, <2>1
  <2>3. a + hdr[a].size < n
    BY <1>1, <2>2 DEF Spaced
  <2>4. QED
    BY <1>2, <2>2, <2>3
<1>5. ASSUME n # NULL, n = e PROVE e \in F
  BY <1>3, <1>5
<1>6. QED
  BY <1>4, <1>5 DEF Touches

LEMMA SpaceFacts ==
  /\ SpaceCount \in Nat /\ HEADER \in Nat /\ HEADER > 0
  /\ \A i \in 1..SpaceCount : /\ heap_spaces[i].heap_base \in Nat
                              /\ heap_spaces[i].heap_size \in Nat
<1>1. PICK R : R = [heap_base : Nat, heap_size : Nat]
  OBVIOUS
<1>2. heap_spaces \in Seq(R)
  BY <1>1, HeapAssumption
<1>3. SpaceCount \in Nat /\ \A i \in 1..SpaceCount : heap_spaces[i] \in R
  BY <1>2 DEF SpaceCount
<1>4. HEADER \in Nat /\ HEADER > 0
  BY HeapAssumption
<1>5. QED
  BY <1>1, <1>3, <1>4

LEMMA LeftOverNat ==
  LeftOver \in Nat
<1>1. PICK f : f = [i \in 1..SpaceCount |-> heap_spaces[i].heap_size % HEADER]
  OBVIOUS
<1>2. \A i \in 1..SpaceCount : f[i] \in Nat
  BY <1>1, SpaceFacts
<1>3. Total(f, SpaceCount) \in Nat
  BY <1>2, SpaceFacts, TotalNat
<1>4. QED
  BY <1>1, <1>3 DEF LeftOver

\* What one swallow does when there is something to swallow.
Swallowed(hi, F, head, a, hj) ==
  LET h == hi.header
      k == hj.header
      b == a + h[a].size + 1
  IN /\ b \in F /\ b # a
     /\ FreeOK(k, F \ {b}, head, hj.free_size)
     /\ DOMAIN k = DOMAIN h \ {b}
     /\ k[a].size = h[a].size + h[b].size + 1
     /\ \A x \in DOMAIN k \ {a} : k[x].size = h[x].size
     /\ \A x \in DOMAIN h \ F : k[x].next = h[x].next /\ k[x].prev = h[x].prev

LEMMA SwallowIs ==
  ASSUME NEW hi, NEW F, NEW head, FreeOK(hi.header, F, head, hi.free_size),
         NEW a \in F, Touches(hi.header, F, a)
  PROVE  Swallowed(hi, F, head, a, Swallow(hi, a))
<1> PICK h, b, hj : h = hi.header /\ b = a + h[a].size + 1 /\ hj = Swallow(hi, a)
  OBVIOUS
<1>1. /\ Headers(h) /\ Spaced(h) /\ F \subseteq DOMAIN h
      /\ Ordered(h, F, head, Address) /\ Exact(h, F, hi.free_size)
  BY DEF FreeOK
<1>2. h[a].next = b /\ b # NULL
  BY TouchesNext
<1>3. b \in F
  BY DEF Touches
<1>4. /\ a \in DOMAIN h /\ b \in DOMAIN h /\ a \in Nat /\ b \in Nat
      /\ h[a].size \in Nat /\ h[b].size \in Nat /\ a # NULL
      /\ h[a] \in Header /\ h[b] \in Header /\ h[b].next \in 0..HeapEnd
      /\ a \in 0..HeapEnd /\ a \in 1..HeapEnd /\ b \in 1..HeapEnd
      /\ F \subseteq Addresses
  <2>1. a \in DOMAIN h /\ b \in DOMAIN h
    BY <1>1, <1>3
  <2>2. F \subseteq Addresses
    BY <1>1 DEF Headers
  <2>3. QED
    BY <1>1, <2>1, <2>2, HeaderFacts
<1>5. b > a /\ b + h[b].size < HeapEnd /\ HeapEnd \in Nat
  BY <1>1, <1>4, HeapAssumption DEF Spaced
<1>6. PICK n, s : n = h[b].next /\ s = h[a].size + h[b].size + 1
  OBVIOUS
<1>7. s \in Nat /\ s \in 0..HeapEnd /\ a + s = b + h[b].size /\ n \in 0..HeapEnd
  BY <1>4, <1>5, <1>6
<1>8. h[b].prev = a /\ n \in F \cup {NULL} /\ n # a /\ n # b
  <2>1. LinksAgree(h, F, head, Address, a) /\ LinksAgree(h, F, head, Address, b)
    BY <1>1, <1>3, <1>4, OrderedInverse
  <2>2. \A x \in F : Address[x] = x /\ x \in Nat /\ x # NULL
    BY <1>1, HeaderFacts
  <2>3. n \in F => n > b
    BY <1>3, <1>6, <2>1, <2>2 DEF LinksAgree
  <2>4. QED
    BY <1>2, <1>3, <1>4, <1>5, <1>6, <2>1, <2>2, <2>3, SMTT(30) DEF LinksAgree
<1>9. PICK g : g = [h EXCEPT ![a].size = @ + h[b].size + 1, ![a].next = h[b].next]
  OBVIOUS
<1>10. /\ Headers(g) /\ DOMAIN g = DOMAIN h
       /\ \A x \in DOMAIN h :
            /\ g[x].size = IF x = a THEN s ELSE h[x].size
            /\ g[x].next = IF x = a THEN n ELSE h[x].next
            /\ g[x].prev = h[x].prev
  <2>1. PICK m : m = [h EXCEPT ![a].size = @ + h[b].size + 1]
    OBVIOUS
  <2>2. g = [m EXCEPT ![a].next = h[b].next]
    BY <1>9, <2>1
  <2>3. h = [x \in DOMAIN h |-> h[x]] /\ \A x \in DOMAIN h : h[x] \in Header
    BY <1>1 DEF Headers
  <2>4. PICK e : e = [h[a] EXCEPT !.size = s]
    OBVIOUS
  <2>5. e \in Header /\ e.size = s /\ e.next = h[a].next /\ e.prev = h[a].prev
    BY <1>4, <1>7, <2>4 DEF Header
  <2>6. m = [h EXCEPT ![a] = e]
    BY <1>6, <2>1, <2>4
  <2>7. DOMAIN m = DOMAIN h /\ m = [x \in DOMAIN m |-> m[x]]
        /\ \A x \in DOMAIN h : m[x] = IF x = a THEN e ELSE h[x]
    BY <2>3, <2>6
  <2>8. PICK o : o = [e EXCEPT !.next = n]
    OBVIOUS
  <2>9. o \in Header /\ o.size = s /\ o.next = n /\ o.prev = h[a].prev
    BY <1>7, <2>5, <2>8 DEF Header
  <2>10. g = [m EXCEPT ![a] = o]
    BY <1>4, <1>6, <2>2, <2>7, <2>8
  <2>11. DOMAIN g = DOMAIN h /\ g = [x \in DOMAIN g |-> g[x]]
         /\ \A x \in DOMAIN h : g[x] = IF x = a THEN o ELSE h[x]
    BY <2>7, <2>10
  <2>12. DOMAIN h \subseteq Addresses
    BY <1>1 DEF Headers
  <2>13. Headers(g)
    BY <2>3, <2>9, <2>11, <2>12 DEF Headers
  <2>14. QED
    BY <2>9, <2>11, <2>13
<1>11. PICK l : l = SetPrev(g, n, a)
  OBVIOUS
<1>12. /\ Headers(l) /\ DOMAIN l = DOMAIN h
       /\ \A x \in DOMAIN h :
            /\ l[x].size = g[x].size
            /\ l[x].next = g[x].next
            /\ l[x].prev = IF x = n THEN a ELSE g[x].prev
  <2>1. PrevSet(g, l, n, a)
    BY <1>1, <1>4, <1>8, <1>10, <1>11, SetPrevIs
  <2>2. QED
    BY <1>10, <2>1 DEF PrevSet, Relinked
<1>13. PICK k : k = Without(l, b)
  OBVIOUS
<1>14. hj = [header |-> k, free_size |-> hi.free_size + HEADER]
  BY <1>2, <1>6, <1>9, <1>11, <1>13 DEF Swallow
<1>15. hj.header = k /\ hj.free_size = hi.free_size + HEADER
  BY <1>14
<1>16. /\ Headers(k) /\ DOMAIN k = DOMAIN h \ {b}
       /\ \A x \in DOMAIN h \ {b} :
            /\ k[x].size = IF x = a THEN s ELSE h[x].size
            /\ k[x].next = IF x = a THEN n ELSE h[x].next
            /\ k[x].prev = IF x = n THEN a ELSE h[x].prev
  <2>1. DOMAIN k = DOMAIN h \ {b} /\ \A x \in DOMAIN h \ {b} : k[x] = l[x]
    BY <1>12, <1>13 DEF Without
  <2>2. Headers(k)
    <3>1. DOMAIN h \subseteq Addresses
      BY <1>1 DEF Headers
    <3>2. \A x \in DOMAIN k : k[x] \in Header
      BY <1>12, <2>1 DEF Headers
    <3>3. DOMAIN k \subseteq Addresses
      BY <2>1, <3>1
    <3>4. k = [x \in DOMAIN k |-> k[x]]
      BY <1>13 DEF Without
    <3>5. QED
      BY <3>2, <3>3, <3>4 DEF Headers
  <2>3. QED
    BY <1>10, <1>12, <2>1, <2>2
<1>17. LinksWithout(h, k, F, b)
  BY <1>1, <1>6, <1>8, <1>16, SMTT(30) DEF LinksWithout
<1>18. Ordered(k, F \ {b}, head, Address)
  <2>1. HeadWithout(h, head, b) = head
    BY <1>4, <1>8 DEF HeadWithout
  <2>2. Ordered(k, F \ {b}, HeadWithout(h, head, b), Address)
    BY <1>1, <1>3, <1>4, <1>17, OrderedWithout
  <2>3. QED
    BY <2>1, <2>2
<1>19. Spaced(k)
  <2>1. \A x \in DOMAIN h : x \in Nat /\ h[x].size \in Nat
    BY <1>1, HeaderFacts
  <2>2. \A x \in DOMAIN k : x + k[x].size < HeapEnd
    BY <1>1, <1>5, <1>7, <1>16 DEF Spaced
  <2>3. ASSUME NEW x \in DOMAIN k, NEW y \in DOMAIN k, x < y
        PROVE  x + k[x].size < y
    <3>1. CASE x = a
      <4>1. a + h[a].size < y
        BY <1>1, <1>16, <2>3, <3>1 DEF Spaced
      <4>2. b < y
        BY <1>4, <1>16, <2>1, <4>1
      <4>3. b + h[b].size < y
        BY <1>1, <1>4, <1>16, <4>2 DEF Spaced
      <4>4. QED
        BY <1>4, <1>7, <1>16, <3>1, <4>3
    <3>2. CASE x # a
      BY <1>1, <1>16, <2>3, <3>2 DEF Spaced
    <3>3. QED
      BY <3>1, <3>2
  <2>4. QED
    BY <2>2, <2>3 DEF Spaced
<1>20. Exact(k, F \ {b}, hj.free_size)
  <2>1. PICK f0, f1, f2 : /\ f0 = UnitsOf(h, F) /\ f2 = UnitsOf(k, F \ {b})
                          /\ f1 = [f0 EXCEPT ![a] = s]
    OBVIOUS
  <2>2. \A i \in 1..HeapEnd : f0[i] \in Nat /\ f0[i] = IF i \in F THEN h[i].size ELSE 0
    BY <1>1, <2>1, UnitsNat
  <2>3. \A i \in 1..HeapEnd : f2[i] \in Nat /\ f2[i] = IF i \in F \ {b} THEN k[i].size ELSE 0
    <3>1. F \ {b} \subseteq DOMAIN k
      BY <1>1, <1>16
    <3>2. QED
      BY <1>16, <2>1, <3>1, UnitsNat
  <2>4. \A i \in 1..HeapEnd : f1[i] \in Nat /\ f1[i] = IF i = a THEN s ELSE f0[i]
    BY <1>4, <1>7, <2>1, <2>2 DEF UnitsOf
  <2>5. PICK t0, t1, t2 : /\ t0 = Total(f0, HeapEnd) /\ t1 = Total(f1, HeapEnd)
                          /\ t2 = Total(f2, HeapEnd)
    OBVIOUS
  <2>6. t1 = t0 + (f1[a] - f0[a])
    BY <1>4, <1>5, <2>2, <2>4, <2>5, TotalChange
  <2>7. \A i \in 1..HeapEnd : i # b => f2[i] = f1[i]
    <3>1. F \ {b} \subseteq DOMAIN h \ {b}
      BY <1>1
    <3>2. QED
      BY <1>16, <2>2, <2>3, <2>4, <3>1
  <2>8. t2 = t1 + (f2[b] - f1[b])
    <3>1. \A i \in 1..HeapEnd : f1[i] \in Int
      BY <2>4
    <3>2. \A i \in 1..HeapEnd : f2[i] \in Int /\ (i # b => f2[i] = f1[i])
      BY <2>3, <2>7
    <3>3. Total(f2, HeapEnd) = Total(f1, HeapEnd) + (f2[b] - f1[b])
      BY <1>4, <1>5, <3>1, <3>2, TotalChange, SMTT(30)
    <3>4. QED
      BY <2>5, <3>3
  <2>9. f0[a] = h[a].size /\ f1[a] = s /\ f1[b] = h[b].size /\ f2[b] = 0
    BY <1>3, <1>4, <1>5, <2>2, <2>3, <2>4
  <2>10. t0 \in Nat
    BY <1>5, <2>2, <2>5, TotalNat
  <2>11. t2 = t0 + 1
    BY <1>4, <1>6, <1>7, <2>6, <2>8, <2>9, <2>10, SMTT(30)
  <2>12. HEADER * t2 = HEADER * t0 + HEADER /\ HEADER * t0 \in Nat /\ HEADER \in Nat
    <3>1. HEADER \in Nat
      BY HeapAssumption
    <3>2. QED
      BY <2>10, <2>11, <3>1
  <2>13. LeftOver \in Nat
    BY LeftOverNat
  <2>14. hi.free_size = HEADER * t0 + LeftOver
    BY <1>1, <2>1, <2>5 DEF Exact
  <2>15. hj.free_size = HEADER * t2 + LeftOver
    BY <1>15, <2>12, <2>13, <2>14
  <2>16. QED
    BY <2>1, <2>5, <2>15 DEF Exact
<1>21. FreeOK(k, F \ {b}, head, hj.free_size)
  BY <1>1, <1>16, <1>18, <1>19, <1>20 DEF FreeOK
<1>22. \A x \in DOMAIN h \ F : k[x].next = h[x].next /\ k[x].prev = h[x].prev
  <2>1. \A x \in DOMAIN h \ F : x # a /\ x # b /\ x # n
    BY <1>1, <1>3, <1>8, HeaderFacts
  <2>2. QED
    BY <1>16, <2>1
<1>23. /\ k[a].size = h[a].size + h[b].size + 1
       /\ \A x \in DOMAIN k \ {a} : k[x].size = h[x].size
       /\ b # a
  BY <1>4, <1>5, <1>6, <1>16, SMTT(30)
<1>24. QED
  BY <1>3, <1>15, <1>16, <1>21, <1>22, <1>23 DEF Swallowed

\* The memory of the blocks F.
CoveredBy(hdr, F) == UNION {x..(x + hdr[x].size) : x \in F}

\* The free blocks that begin after a and up to its end are a part of it.
Beyond(hdr, F, a) == F \ ((a + 1)..(a + hdr[a].size))

Absorbed(hi, F, head, a, hj) ==
  LET h == hi.header
      k == hj.header
      G == Beyond(k, F, a)
  IN /\ FreeOK(k, G, head, hj.free_size)
     /\ DOMAIN k = DOMAIN h \ (F \ G)
     /\ \A x \in DOMAIN k \ {a} : k[x].size = h[x].size
     /\ \A x \in DOMAIN h \ F : k[x].next = h[x].next /\ k[x].prev = h[x].prev
     /\ k[a].size >= h[a].size
     /\ CoveredBy(k, G) = CoveredBy(h, F)

LEMMA CoveredIs ==
  ASSUME NEW hdr, Headers(hdr), NEW F, F \subseteq DOMAIN hdr
  PROVE  \A z : z \in CoveredBy(hdr, F) <=>
                  z \in Nat /\ \E x \in F : x <= z /\ z <= x + hdr[x].size
<1>1. \A x \in F : x \in Nat /\ hdr[x].size \in Nat
  BY HeaderFacts
<1>2. QED
  BY <1>1 DEF CoveredBy

\* The block a alone, before anything is swallowed.
LEMMA BeyondNone ==
  ASSUME NEW hdr, Headers(hdr), Spaced(hdr), NEW F, F \subseteq DOMAIN hdr, NEW a \in F
  PROVE  Beyond(hdr, F, a) = F
<1>1. \A x \in F : x \in Nat /\ hdr[x].size \in Nat
  BY HeaderFacts
<1>2. ASSUME NEW x \in F, x \in (a + 1)..(a + hdr[a].size) PROVE FALSE
  <2>1. a < x /\ x <= a + hdr[a].size
    BY <1>1, <1>2
  <2>2. a + hdr[a].size < x
    BY <2>1 DEF Spaced
  <2>3. QED
    BY <1>1, <2>1, <2>2
<1>3. QED
  BY <1>2 DEF Beyond

LEMMA AbsorbedNothing ==
  ASSUME NEW hi, NEW F, NEW head, FreeOK(hi.header, F, head, hi.free_size), NEW a \in F
  PROVE  Absorbed(hi, F, head, a, hi)
<1>1. Headers(hi.header) /\ Spaced(hi.header) /\ F \subseteq DOMAIN hi.header
  BY DEF FreeOK
<1>2. Beyond(hi.header, F, a) = F
  BY <1>1, BeyondNone
<1>3. hi.header[a].size \in Nat
  BY <1>1, HeaderFacts
<1>4. QED
  BY <1>2, <1>3 DEF Absorbed

LEMMA AbsorbedMore ==
  ASSUME NEW hi, NEW F, NEW head, FreeOK(hi.header, F, head, hi.free_size), NEW a \in F,
         NEW hj, Absorbed(hi, F, head, a, hj),
         Touches(hj.header, Beyond(hj.header, F, a), a)
  PROVE  /\ Absorbed(hi, F, head, a, Swallow(hj, a))
         /\ Swallow(hj, a).header[a].size > hj.header[a].size
         /\ hj.header[a].size \in Nat /\ Swallow(hj, a).header[a].size \in Nat
<1> PICK hk : hk = Swallow(hj, a)
  OBVIOUS
<1> PICK h, k, m : h = hi.header /\ k = hj.header /\ m = hk.header
  OBVIOUS
<1> PICK G, b : G = Beyond(k, F, a) /\ b = a + k[a].size + 1
  OBVIOUS
<1>1. Headers(h) /\ Spaced(h) /\ F \subseteq DOMAIN h
  BY DEF FreeOK
<1>2. /\ FreeOK(k, G, head, hj.free_size)
      /\ DOMAIN k = DOMAIN h \ (F \ G)
      /\ \A x \in DOMAIN k \ {a} : k[x].size = h[x].size
      /\ \A x \in DOMAIN h \ F : k[x].next = h[x].next /\ k[x].prev = h[x].prev
      /\ k[a].size >= h[a].size
      /\ CoveredBy(k, G) = CoveredBy(h, F)
  BY DEF Absorbed
<1>3. Headers(k) /\ Spaced(k) /\ G \subseteq DOMAIN k
  BY <1>2 DEF FreeOK
<1>4. \A x \in F : x \in Nat /\ h[x].size \in Nat
  BY <1>1, HeaderFacts
<1>5. a \in G /\ G \subseteq F
  BY <1>4 DEF Beyond
<1>6. \A x \in G : x \in Nat /\ k[x].size \in Nat
  BY <1>3, HeaderFacts
<1>7. Swallowed(hj, G, head, a, hk)
  BY <1>2, <1>5, SwallowIs
<1>8. /\ b \in G /\ b # a
      /\ FreeOK(m, G \ {b}, head, hk.free_size)
      /\ DOMAIN m = DOMAIN k \ {b}
      /\ m[a].size = k[a].size + k[b].size + 1
      /\ \A x \in DOMAIN m \ {a} : m[x].size = k[x].size
      /\ \A x \in DOMAIN k \ G : m[x].next = k[x].next /\ m[x].prev = k[x].prev
  BY <1>7 DEF Swallowed
<1>9. a \in Nat /\ b \in Nat /\ k[a].size \in Nat /\ k[b].size \in Nat /\ h[a].size \in Nat
      /\ m[a].size \in Nat /\ m[a].size > k[a].size /\ a + m[a].size = b + k[b].size
  BY <1>4, <1>5, <1>6, <1>8
<1>10. Beyond(m, F, a) = G \ {b}
  <2>1. ASSUME NEW x \in F PROVE x \in Beyond(m, F, a) <=> x \in G \ {b}
    <3>1. /\ x \in Beyond(m, F, a) <=> x <= a \/ x > a + m[a].size
          /\ x \in G <=> x <= a \/ x > a + k[a].size
      <4>1. /\ x \in Beyond(m, F, a) <=> x \notin (a + 1)..(a + m[a].size)
            /\ x \in G <=> x \notin (a + 1)..(a + k[a].size)
        BY DEF Beyond
      <4> PICK s, t : s = a + m[a].size /\ t = a + k[a].size
        OBVIOUS
      <4>2. s \in Nat /\ t \in Nat
        BY <1>9
      <4>3. /\ x \in Nat
            /\ x \notin (a + 1)..s <=> x <= a \/ x > s
            /\ x \notin (a + 1)..t <=> x <= a \/ x > t
        BY <1>4, <1>9, <4>2
      <4>4. QED
        BY <4>1, <4>3
    <3>2. x \in G /\ x > b => x > b + k[b].size
      <4>1. x \in G /\ x > b => b + k[b].size < x
        BY <1>3, <1>8 DEF Spaced
      <4>2. QED
        BY <1>4, <1>9, <4>1
    <3>3. QED
      BY <1>4, <1>9, <3>1, <3>2
  <2>2. Beyond(m, F, a) \subseteq F
    BY DEF Beyond
  <2>3. QED
    BY <1>5, <2>1, <2>2
<1>11. DOMAIN m = DOMAIN h \ (F \ (G \ {b}))
  BY <1>1, <1>2, <1>5, <1>8
<1>12. \A x \in DOMAIN m \ {a} : m[x].size = h[x].size
  BY <1>2, <1>8
<1>13. \A x \in DOMAIN h \ F : m[x].next = h[x].next /\ m[x].prev = h[x].prev
  <2>1. ASSUME NEW x \in DOMAIN h \ F PROVE x \in DOMAIN k \ G
    BY <1>2, <1>5
  <2>2. QED
    BY <1>2, <1>8, <2>1
<1>14. CoveredBy(m, G \ {b}) = CoveredBy(k, G)
  <2>1. Headers(m) /\ G \ {b} \subseteq DOMAIN m
    BY <1>8 DEF FreeOK
  <2>2. \A z : z \in CoveredBy(m, G \ {b}) <=>
                 z \in Nat /\ \E x \in G \ {b} : x <= z /\ z <= x + m[x].size
    BY <2>1, CoveredIs
  <2>3. \A z : z \in CoveredBy(k, G) <=>
                 z \in Nat /\ \E x \in G : x <= z /\ z <= x + k[x].size
    BY <1>3, CoveredIs
  <2>4. ASSUME NEW z \in CoveredBy(m, G \ {b}) PROVE z \in CoveredBy(k, G)
    <3>1. PICK x \in G \ {b} : z \in Nat /\ x <= z /\ z <= x + m[x].size
      BY <2>2
    <3>2. CASE x = a
      BY <1>5, <1>8, <1>9, <2>3, <3>1, <3>2
    <3>3. CASE x # a
      <4>1. m[x].size = k[x].size
        BY <1>8, <2>1, <3>3
      <4>2. QED
        BY <2>3, <3>1, <4>1
    <3>4. QED
      BY <3>2, <3>3
  <2>5. ASSUME NEW z \in CoveredBy(k, G) PROVE z \in CoveredBy(m, G \ {b})
    <3>1. PICK x \in G : z \in Nat /\ x <= z /\ z <= x + k[x].size
      BY <2>3
    <3>2. CASE x = a \/ x = b
      <4>1. a \in G \ {b} /\ a <= z /\ z <= a + m[a].size
        BY <1>5, <1>8, <1>9, <3>1, <3>2
      <4>2. QED
        BY <2>2, <3>1, <4>1
    <3>3. CASE x # a /\ x # b
      <4>1. m[x].size = k[x].size /\ x \in G \ {b}
        BY <1>8, <2>1, <3>3
      <4>2. QED
        BY <2>2, <3>1, <4>1
    <3>4. QED
      BY <3>2, <3>3
  <2>6. QED
    BY <2>4, <2>5
<1>15. Absorbed(hi, F, head, a, hk)
  <2>1. m[a].size >= h[a].size
    BY <1>2, <1>9
  <2>2. QED
    BY <1>2, <1>8, <1>10, <1>11, <1>12, <1>13, <1>14, <2>1 DEF Absorbed
<1>16. QED
  BY <1>9, <1>15

\* What Heap_Merge does: after it nothing touches the block.
MergedTo(hi, F, head, a, hj) ==
  /\ Absorbed(hi, F, head, a, hj)
  /\ ~Touches(hj.header, Beyond(hj.header, F, a), a)
  /\ Touches(hi.header, F, a) <=> hj # hi

LEMMA MergeIs ==
  ASSUME NEW hi, NEW F, NEW head, FreeOK(hi.header, F, head, hi.free_size), NEW a \in F
  PROVE  MergedTo(hi, F, head, a, Merge(hi, a))
<1>1. PICK m : /\ m[0] = hi /\ Merge(hi, a) = m[HeapEnd]
               /\ \A i \in 1..HeapEnd : m[i] = Swallow(m[i - 1], a)
  BY MergeUnfold
<1> DEFINE Stopped(hj) == ~Touches(hj.header, Beyond(hj.header, F, a), a)
<1>2. HeapEnd \in Nat
  BY HeapAssumption
<1>3. ASSUME NEW hj, Absorbed(hi, F, head, a, hj), Stopped(hj)
      PROVE  Swallow(hj, a) = hj
  <2>1. PICK k, G : k = hj.header /\ G = Beyond(k, F, a)
    OBVIOUS
  <2>2. FreeOK(k, G, head, hj.free_size) /\ a \in G
    <3>1. a \in Nat
      <4>1. Headers(hi.header) /\ a \in DOMAIN hi.header
        BY DEF FreeOK
      <4>2. QED
        BY <4>1, HeaderFacts
    <3>2. a \in G
      BY <2>1, <3>1 DEF Beyond
    <3>3. QED
      BY <1>3, <2>1, <3>2 DEF Absorbed
  <2>3. ~(k[a].next # NULL /\ k[a].next = a + k[a].size + 1)
    BY <1>3, <2>1, <2>2, TouchesNext
  <2>4. QED
    BY <2>1, <2>3 DEF Swallow
<1> DEFINE Good(i) == /\ Absorbed(hi, F, head, a, m[i])
                      /\ Stopped(m[i]) \/ m[i].header[a].size >= i
           Bad == {i \in 0..HeapEnd : ~Good(i)}
<1>4. Good(0)
  <2>1. Absorbed(hi, F, head, a, m[0])
    BY <1>1, AbsorbedNothing
  <2>2. m[0].header[a].size >= 0
    <3>1. Headers(hi.header) /\ a \in DOMAIN hi.header
      BY DEF FreeOK
    <3>2. hi.header[a].size \in Nat
      BY <3>1, HeaderFacts
    <3>3. QED
      BY <1>1, <3>2
  <2>3. QED
    BY <2>1, <2>2
<1>5. ASSUME NEW i \in 1..HeapEnd, Good(i - 1) PROVE Good(i)
  <2>1. PICK hj : hj = m[i - 1]
    OBVIOUS
  <2>2. m[i] = Swallow(hj, a)
    BY <1>1, <2>1
  <2>3. Absorbed(hi, F, head, a, hj) /\ (Stopped(hj) \/ hj.header[a].size >= i - 1)
    BY <1>5, <2>1
  <2>4. CASE Stopped(hj)
    <3>1. m[i] = hj
      BY <1>3, <2>2, <2>3, <2>4
    <3>2. QED
      BY <2>3, <2>4, <3>1
  <2>5. CASE ~Stopped(hj)
    <3>1. /\ Absorbed(hi, F, head, a, m[i])
          /\ m[i].header[a].size > hj.header[a].size
          /\ hj.header[a].size \in Nat /\ m[i].header[a].size \in Nat
      BY <2>2, <2>3, <2>5, AbsorbedMore
    <3>2. QED
      BY <1>2, <2>3, <2>5, <3>1
  <2>6. QED
    BY <2>4, <2>5
<1>6. Bad = {}
  <2>1. SUFFICES ASSUME Bad # {} PROVE FALSE
    OBVIOUS
  <2>2. PICK i \in Bad : \A l \in Bad : i <= l
    <3>1. Bad \subseteq Nat
      BY <1>2
    <3>2. QED
      BY <2>1, <3>1, LeastNat
  <2>3. i # 0
    BY <1>4, <2>2
  <2>4. i \in 1..HeapEnd /\ i - 1 \in 0..HeapEnd /\ i - 1 \notin Bad
    BY <1>2, <2>2, <2>3
  <2>5. Good(i - 1)
    BY <2>4
  <2>6. Good(i)
    BY <1>5, <2>4, <2>5
  <2>7. QED
    BY <2>2, <2>6
<1>7. PICK hj : hj = m[HeapEnd]
  OBVIOUS
<1>8. Absorbed(hi, F, head, a, hj) /\ (Stopped(hj) \/ hj.header[a].size >= HeapEnd)
  <2>1. HeapEnd \in 0..HeapEnd
    BY <1>2
  <2>2. QED
    BY <1>6, <1>7, <2>1
<1>9. Stopped(hj)
  <2>1. PICK k, G : k = hj.header /\ G = Beyond(k, F, a)
    OBVIOUS
  <2>2. Headers(hi.header) /\ a \in DOMAIN hi.header
    BY DEF FreeOK
  <2>3. a \in Nat /\ a > 0
    BY <2>2, AddressFacts DEF Headers
  <2>4. FreeOK(k, G, head, hj.free_size) /\ a \in G
    BY <1>8, <2>1, <2>3 DEF Absorbed, Beyond
  <2>5. Headers(k) /\ Spaced(k) /\ a \in DOMAIN k
    BY <2>4 DEF FreeOK
  <2>6. a + k[a].size < HeapEnd /\ k[a].size \in Nat
    BY <2>5, HeaderFacts DEF Spaced
  <2>7. QED
    BY <1>2, <1>8, <2>1, <2>3, <2>6
<1>10. Touches(hi.header, F, a) <=> hj # hi
  <2>1. Headers(hi.header) /\ Spaced(hi.header) /\ F \subseteq DOMAIN hi.header
    BY DEF FreeOK
  <2>2. Beyond(hi.header, F, a) = F
    BY <2>1, BeyondNone
  <2>3. Touches(hi.header, F, a) => hj # hi
    BY <1>9, <2>2
  <2>4. ASSUME ~Touches(hi.header, F, a) PROVE hj = hi
    <3>1. Swallow(hi, a) = hi
      <4>1. Absorbed(hi, F, head, a, hi)
        BY AbsorbedNothing
      <4>2. QED
        BY <1>3, <2>2, <2>4, <4>1
    <3> DEFINE Moved == {i \in 0..HeapEnd : m[i] # hi}
    <3>2. SUFFICES ASSUME Moved # {} PROVE FALSE
      BY <1>2, <1>7
    <3>3. PICK i \in Moved : \A l \in Moved : i <= l
      <4>1. Moved \subseteq Nat
        BY <1>2
      <4>2. QED
        BY <3>2, <4>1, LeastNat
    <3>4. i \in 1..HeapEnd /\ i - 1 \in 0..HeapEnd /\ i - 1 \notin Moved
      BY <1>1, <1>2, <3>3
    <3>5. m[i] = Swallow(m[i - 1], a)
      BY <1>1, <3>4
    <3>6. m[i - 1] = hi
      BY <3>4
    <3>7. QED
      BY <3>1, <3>3, <3>5, <3>6
  <2>5. QED
    BY <2>3, <2>4
<1>11. QED
  BY <1>1, <1>7, <1>8, <1>9, <1>10 DEF MergedTo

-----------------------------------------------------------------------------
(* The invariant.                                                          *)

Frees == DOMAIN header \ DOMAIN live

\* Two blocks of F touch only where two spaces do.
Gaps(hdr, F) ==
  \A a \in F : Touches(hdr, F, a) =>
    \E i \in 1..SpaceCount : Base(i) = a + hdr[a].size + 1

\* What the callers hold is the list of used blocks.
UsedOK(hdr, U, head) == U \subseteq DOMAIN hdr /\ \E r : Ordered(hdr, U, head, r)

ListsInv ==
  /\ FreeOK(header, Frees, free_blocks, free_size)
  /\ UsedOK(header, DOMAIN live, used_blocks)
  /\ live \in [DOMAIN live -> Requests]
  /\ Gaps(header, Frees)
  /\ BlocksLargeEnough

LEMMA ListsAre ==
  ASSUME ListsInv
  PROVE  /\ FreeList = Frees /\ UsedList = DOMAIN live
         /\ \A P \in SUBSET Frees : P # {} =>
              /\ FirstMet(header, free_blocks, P) \in P
              /\ \A y \in P : FirstMet(header, free_blocks, P) <= y
<1>1. /\ Headers(header) /\ Frees \subseteq DOMAIN header
      /\ Ordered(header, Frees, free_blocks, Address)
      /\ DOMAIN header \subseteq Addresses
  BY DEF ListsInv, FreeOK, Headers
<1>2. PICK r : Ordered(header, DOMAIN live, used_blocks, r) /\ DOMAIN live \subseteq DOMAIN header
  BY DEF ListsInv, UsedOK
<1>3. Frees \subseteq Addresses /\ DOMAIN live \subseteq Addresses
  BY <1>1, <1>2
<1>4. /\ List(header, free_blocks) = Frees
      /\ \A P \in SUBSET Frees : P # {} =>
           /\ FirstMet(header, free_blocks, P) \in P
           /\ \A y \in P : Address[FirstMet(header, free_blocks, P)] <= Address[y]
  BY <1>1, <1>3, WalkAll
<1>5. List(header, used_blocks) = DOMAIN live
  BY <1>2, <1>3, WalkAll
<1>6. \A x \in Frees : Address[x] = x
  BY <1>3 DEF Address
<1>7. ASSUME NEW P \in SUBSET Frees, P # {}
      PROVE  /\ FirstMet(header, free_blocks, P) \in P
             /\ \A y \in P : FirstMet(header, free_blocks, P) <= y
  BY <1>4, <1>6, <1>7
<1>8. QED
  BY <1>4, <1>5, <1>7 DEF FreeList, UsedList

LEMMA UnitsFacts ==
  ASSUME NEW bytes \in Requests
  PROVE  /\ bytes \in Nat /\ Units(bytes) \in Nat /\ Units(bytes) > 0
         /\ \A s \in Nat : s >= Units(bytes) => s * HEADER >= bytes
<1>1. bytes \in Nat /\ HEADER \in Nat /\ HEADER > 0
  BY HeapAssumption
<1>2. PICK q, h : q = bytes \div HEADER /\ h = bytes % HEADER
  OBVIOUS
<1>3. q \in Nat /\ h \in Nat /\ h < HEADER /\ bytes = HEADER * q + h
  BY <1>1, <1>2
<1>4. Units(bytes) = q + 1
  BY <1>2 DEF Units
<1>5. ASSUME NEW s \in Nat, s >= q + 1 PROVE s * HEADER >= bytes
  <2>1. PICK d \in Nat : s = q + 1 + d
    <3>1. s - (q + 1) \in Nat /\ s = q + 1 + (s - (q + 1))
      BY <1>3, <1>5
    <3>2. QED
      BY <3>1
  <2>2. s * HEADER = HEADER * q + HEADER + HEADER * d
    BY <1>1, <1>3, <2>1
  <2>3. HEADER * d \in Nat /\ HEADER * q \in Nat
    BY <1>1, <1>3
  <2>4. QED
    BY <1>1, <1>3, <2>2, <2>3
<1>6. QED
  BY <1>1, <1>3, <1>4, <1>5

\* The free units of the address c.
FreeUnits(hdr, F, c) == IF c \in F THEN hdr[c].size ELSE 0

SameBut(hdr, F, k, G, c) ==
  \A x \in (F \cup G) \ {c} : x \in F /\ x \in G /\ k[x].size = hdr[x].size

\* The total of the free units when those of one address change.
LEMMA ExactChange ==
  ASSUME NEW hdr, Headers(hdr), NEW F, F \subseteq DOMAIN hdr, NEW bytes,
         Exact(hdr, F, bytes),
         NEW k, Headers(k), NEW G, G \subseteq DOMAIN k,
         NEW c \in 1..HeapEnd, SameBut(hdr, F, k, G, c)
  PROVE  /\ Exact(k, G, bytes + (FreeUnits(k, G, c) - FreeUnits(hdr, F, c)) * HEADER)
         /\ bytes \in Nat
<1> PICK o, s : o = FreeUnits(hdr, F, c) /\ s = FreeUnits(k, G, c)
  OBVIOUS
<1>1. HEADER \in Nat /\ LeftOver \in Nat /\ HeapEnd \in Nat
  BY LeftOverNat, HeapAssumption
<1>2. PICK f, g : f = UnitsOf(hdr, F) /\ g = UnitsOf(k, G)
  OBVIOUS
<1>3. \A i \in 1..HeapEnd : f[i] \in Nat /\ f[i] = IF i \in F THEN hdr[i].size ELSE 0
  BY <1>2, UnitsNat
<1>4. \A i \in 1..HeapEnd : g[i] \in Nat /\ g[i] = IF i \in G THEN k[i].size ELSE 0
  BY <1>2, UnitsNat
<1>5. \A i \in 1..HeapEnd : f[i] \in Int /\ g[i] \in Int /\ (i # c => g[i] = f[i])
  BY <1>3, <1>4 DEF SameBut
<1>6. PICK t, u : t = Total(f, HeapEnd) /\ u = Total(g, HeapEnd)
  OBVIOUS
<1>7. u = t + (g[c] - f[c])
  BY <1>1, <1>5, <1>6, TotalChange
<1>8. f[c] = o /\ g[c] = s /\ t \in Nat /\ o \in Nat /\ s \in Nat
  <2>1. t \in Nat
    BY <1>1, <1>3, <1>6, TotalNat
  <2>2. QED
    BY <1>3, <1>4, <2>1 DEF FreeUnits
<1>9. u = t + (s - o)
  BY <1>7, <1>8
<1>10. HEADER * u = HEADER * t + (s - o) * HEADER
       /\ HEADER * t \in Nat /\ (s - o) * HEADER \in Int
  <2>1. PICK d \in Int : d = s - o
    BY <1>8
  <2>2. HEADER * (t + d) = HEADER * t + d * HEADER /\ d * HEADER \in Int /\ HEADER * t \in Nat
    BY <1>1, <1>8
  <2>3. QED
    BY <1>9, <2>1, <2>2
<1>11. bytes = HEADER * t + LeftOver
  BY <1>2, <1>6 DEF Exact
<1>12. bytes + (s - o) * HEADER = HEADER * u + LeftOver
  BY <1>1, <1>10, <1>11
<1>13. QED
  BY <1>1, <1>2, <1>6, <1>10, <1>11, <1>12 DEF Exact

-----------------------------------------------------------------------------
(* Heap_Alloc.                                                             *)

Handed(hdr, h, a, F, head, U) ==
  /\ Relinked(hdr, h)
  /\ Ordered(h, F, head, Address)
  /\ UsedOK(h, U \cup {a}, a)

\* A block a of hdr that is in neither list goes to the front of the used one.
LEMMA HandIs ==
  ASSUME NEW hdr, Headers(hdr), NEW a \in DOMAIN hdr,
         NEW F, F \subseteq DOMAIN hdr, NEW head, Ordered(hdr, F, head, Address),
         NEW U, UsedOK(hdr, U, used_blocks),
         a \notin F, a \notin U, F \cap U = {},
         NEW h, h = Link(hdr, a, NULL, used_blocks)
  PROVE  Handed(hdr, h, a, F, head, U)
<1>1. PICK r : Ordered(hdr, U, used_blocks, r) /\ U \subseteq DOMAIN hdr
  BY DEF UsedOK
<1>2. DOMAIN hdr \subseteq Addresses /\ U \subseteq Addresses /\ a \in Addresses /\ a # NULL
      /\ NULL \notin DOMAIN hdr
  BY <1>1, AddressFacts DEF Headers
<1>3. used_blocks \in U \cup {NULL}
  BY <1>1 DEF Ordered, IsFirst
<1>4. used_blocks \in DOMAIN hdr \cup {NULL} /\ used_blocks # a
  BY <1>1, <1>2, <1>3
<1>5. Linked(hdr, h, a, NULL, used_blocks)
  BY <1>2, <1>4, LinkIs
<1>6. /\ Relinked(hdr, h) /\ DOMAIN h = DOMAIN hdr
      /\ \A x \in DOMAIN hdr :
           /\ h[x].next = IF x = a THEN used_blocks ELSE IF x = NULL THEN a ELSE hdr[x].next
           /\ h[x].prev = IF x = a THEN NULL ELSE IF x = used_blocks THEN a ELSE hdr[x].prev
  BY <1>5 DEF Linked, Relinked
<1>7. \A x \in F : x # a /\ x # NULL /\ x # used_blocks
  BY <1>2, <1>3
<1>8. Ordered(h, F, head, Address)
  <2>1. \A x \in F : h[x].next = hdr[x].next /\ h[x].prev = hdr[x].prev
    BY <1>6, <1>7
  <2>2. QED
    BY <2>1, OrderedSame
<1>9. LinksWith(hdr, h, U, a, NULL, used_blocks)
  BY <1>1, <1>2, <1>6 DEF LinksWith
<1>10. \E q : Ordered(h, U \cup {a}, a, q)
  BY <1>1, <1>2, <1>9, OrderedFront
<1>11. QED
  BY <1>1, <1>6, <1>8, <1>10 DEF Handed, UsedOK

\* What the callers hold after the call.
LEMMA LiveWith ==
  ASSUME ListsInv, NEW bytes \in Requests, NEW a,
         live' = [x \in DOMAIN live \cup {a} |-> IF x = a THEN bytes ELSE live[x]]
  PROVE  /\ DOMAIN live' = DOMAIN live \cup {a}
         /\ live' \in [DOMAIN live' -> Requests]
         /\ \A x \in DOMAIN live' : live'[x] = IF x = a THEN bytes ELSE live[x]
<1>1. \A x \in DOMAIN live : live[x] \in Requests
  BY DEF ListsInv
<1>2. PICK l : l = live'
  OBVIOUS
<1>3. l = [x \in DOMAIN live \cup {a} |-> IF x = a THEN bytes ELSE live[x]]
  BY <1>2
<1>4. /\ DOMAIN l = DOMAIN live \cup {a}
      /\ \A x \in DOMAIN l : l[x] = IF x = a THEN bytes ELSE live[x]
  BY <1>3
<1>5. l \in [DOMAIN live \cup {a} -> Requests]
  BY <1>1, <1>3
<1>6. l \in [DOMAIN l -> Requests]
  BY <1>4, <1>5
<1>7. QED
  BY <1>2, <1>4, <1>6

\* The block that is chosen.
LEMMA AllocChoice ==
  ASSUME ListsInv, NEW bytes \in Requests, LargeEnough(bytes) # {}
  PROVE  LET a == FirstMet(header, free_blocks, LargeEnough(bytes))
         IN /\ a \in Frees /\ header[a].size >= Units(bytes)
            /\ \A c \in Frees : header[c].size >= Units(bytes) => a <= c
<1>1. List(header, free_blocks) = Frees
  BY ListsAre DEF FreeList
<1>2. PICK P : P = LargeEnough(bytes)
  OBVIOUS
<1>3. P = {a \in Frees : header[a].size >= Units(bytes)}
  BY <1>1, <1>2 DEF LargeEnough
<1>4. P \in SUBSET Frees /\ P # {}
  BY <1>2, <1>3
<1>5. /\ FirstMet(header, free_blocks, P) \in P
      /\ \A y \in P : FirstMet(header, free_blocks, P) <= y
  BY <1>4, ListsAre
<1>6. QED
  BY <1>2, <1>3, <1>5

LEMMA AllocWholeInv ==
  ASSUME ListsInv, NEW bytes \in Requests, NEW a \in Frees,
         header[a].size >= Units(bytes), AllocWhole(a, bytes)
  PROVE  /\ ListsInv'
         /\ Frees' = Frees \ {a} /\ DOMAIN live' = DOMAIN live \cup {a}
         /\ DOMAIN header' = DOMAIN header
         /\ \A x \in DOMAIN header : header'[x].size = header[x].size
<1> PICK h, k, F, U : /\ h = header /\ k = header'
                      /\ F = Frees /\ U = DOMAIN live
  OBVIOUS
<1>1. /\ Headers(h) /\ Spaced(h) /\ F \subseteq DOMAIN h /\ a \in F
      /\ Ordered(h, F, free_blocks, Address) /\ Exact(h, F, free_size)
  BY DEF ListsInv, FreeOK
<1>2. PICK r : Ordered(h, U, used_blocks, r) /\ U \subseteq DOMAIN h
  BY DEF ListsInv, UsedOK
<1>3. F \cap U = {} /\ F \cup U = DOMAIN h
  BY <1>2 DEF Frees
<1>4. PICK m : m = Unlink(h, a)
  OBVIOUS
<1>5. /\ F \subseteq Addresses /\ U \subseteq Addresses /\ NULL \notin DOMAIN h
      /\ h[a].next \in F \cup {NULL} /\ h[a].prev \in F \cup {NULL}
  <2>1. F \subseteq Addresses /\ U \subseteq Addresses /\ NULL \notin DOMAIN h
    BY <1>1, <1>2, AddressFacts DEF Headers
  <2>2. LinksAgree(h, F, free_blocks, Address, a)
    BY <1>1, <2>1, OrderedInverse
  <2>3. QED
    BY <2>1, <2>2 DEF LinksAgree
<1>6. Unlinked(h, m, a)
  BY <1>1, <1>4, <1>5, UnlinkIs
<1>7. /\ Headers(m) /\ DOMAIN m = DOMAIN h
      /\ \A x \in DOMAIN h :
           /\ m[x].size = h[x].size
           /\ m[x].next = IF x = h[a].prev THEN h[a].next ELSE h[x].next
           /\ m[x].prev = IF x = h[a].next THEN h[a].prev ELSE h[x].prev
  BY <1>6 DEF Unlinked, Relinked
<1>8. Ordered(m, F \ {a}, HeadWithout(h, free_blocks, a), Address)
  <2>1. LinksWithout(h, m, F, a)
    BY <1>1, <1>7 DEF LinksWithout
  <2>2. QED
    BY <1>1, <1>5, <2>1, OrderedWithout
<1>9. UsedOK(m, U, used_blocks)
  <2>1. \A x \in U : x # h[a].next /\ x # h[a].prev /\ x \in DOMAIN h
    BY <1>2, <1>3, <1>5
  <2>2. \A x \in U : m[x].next = h[x].next /\ m[x].prev = h[x].prev
    BY <1>7, <2>1
  <2>3. Ordered(m, U, used_blocks, r)
    BY <1>2, <2>2, OrderedSame
  <2>4. QED
    BY <1>2, <1>7, <2>3 DEF UsedOK
<1>10. /\ k = Link(m, a, NULL, used_blocks) /\ used_blocks' = a
       /\ live' = [x \in DOMAIN live \cup {a} |-> IF x = a THEN bytes ELSE live[x]]
       /\ free_blocks' = HeadWithout(h, free_blocks, a)
       /\ free_size' = free_size - h[a].size * HEADER
  BY <1>4 DEF AllocWhole, Hand
<1>11. /\ Relinked(m, k)
       /\ Ordered(k, F \ {a}, free_blocks', Address)
       /\ UsedOK(k, U \cup {a}, used_blocks')
  <2>1. a \in DOMAIN m /\ F \ {a} \subseteq DOMAIN m /\ a \notin F \ {a} /\ a \notin U
        /\ (F \ {a}) \cap U = {}
    BY <1>1, <1>3, <1>7
  <2>2. Handed(m, k, a, F \ {a}, HeadWithout(h, free_blocks, a), U)
    BY <1>7, <1>8, <1>9, <1>10, <2>1, HandIs
  <2>3. QED
    BY <1>10, <2>2 DEF Handed
<1>12. /\ Headers(k) /\ DOMAIN k = DOMAIN h
       /\ \A x \in DOMAIN h : k[x].size = h[x].size
  BY <1>7, <1>11 DEF Relinked
<1>13. /\ DOMAIN live' = U \cup {a} /\ live' \in [DOMAIN live' -> Requests]
       /\ \A x \in DOMAIN live' : live'[x] = IF x = a THEN bytes ELSE live[x]
  BY <1>10, LiveWith
<1>14. Frees' = F \ {a}
  BY <1>3, <1>12, <1>13 DEF Frees
<1>15. Spaced(k)
  BY <1>1, <1>12 DEF Spaced
<1>16. Exact(k, F \ {a}, free_size')
  <2>1. a \in 1..HeapEnd /\ h[a].size \in Nat
    BY <1>1, HeaderFacts
  <2>2. F \ {a} \subseteq DOMAIN k
    BY <1>1, <1>12
  <2>3. SameBut(h, F, k, F \ {a}, a)
    BY <1>1, <1>12 DEF SameBut
  <2>4. PICK o, s : o = FreeUnits(h, F, a) /\ s = FreeUnits(k, F \ {a}, a)
    OBVIOUS
  <2>5. o = h[a].size /\ s = 0
    BY <1>1, <2>4 DEF FreeUnits
  <2>6. Exact(k, F \ {a}, free_size + (s - o) * HEADER) /\ free_size \in Nat
    BY <1>1, <1>12, <2>1, <2>2, <2>3, <2>4, ExactChange
  <2>7. free_size + (s - o) * HEADER = free_size - o * HEADER
    <3>1. HEADER \in Nat
      BY HeapAssumption
    <3>2. (0 - o) * HEADER = 0 - o * HEADER /\ o * HEADER \in Nat
      BY <2>1, <2>5, <3>1
    <3>3. QED
      BY <2>5, <2>6, <3>1, <3>2
  <2>8. QED
    BY <1>10, <2>5, <2>6, <2>7
<1>17. FreeOK(k, F \ {a}, free_blocks', free_size')
  BY <1>1, <1>11, <1>12, <1>15, <1>16 DEF FreeOK
<1>18. Gaps(k, F \ {a})
  BY <1>1, <1>12 DEF Gaps, Touches, ListsInv
<1>19. \A x \in DOMAIN live' : k[x].size * HEADER >= live'[x]
  <2>1. k[a].size = h[a].size /\ h[a].size \in Nat
    BY <1>1, <1>12, HeaderFacts
  <2>2. k[a].size * HEADER >= bytes
    BY <2>1, UnitsFacts
  <2>3. \A x \in U : h[x].size * HEADER >= live[x] /\ k[x].size = h[x].size
    BY <1>2, <1>12 DEF ListsInv, BlocksLargeEnough
  <2>4. QED
    BY <1>13, <2>2, <2>3
<1>20. ListsInv'
  <2>1. FreeOK(header, Frees, free_blocks, free_size)'
    BY <1>14, <1>17
  <2>2. UsedOK(header, DOMAIN live, used_blocks)'
    BY <1>11, <1>13
  <2>3. Gaps(header, Frees)'
    BY <1>14, <1>18
  <2>4. BlocksLargeEnough'
    BY <1>19 DEF BlocksLargeEnough
  <2>5. QED
    BY <1>13, <2>1, <2>2, <2>3, <2>4 DEF ListsInv
<1>21. QED
  BY <1>12, <1>13, <1>14, <1>20

LEMMA AllocSplitInv ==
  ASSUME ListsInv, NEW bytes \in Requests, NEW a \in Frees,
         header[a].size >= Units(bytes), AllocSplit(a, bytes)
  PROVE  LET n == Units(bytes)
             new == a + header[a].size - n
         IN /\ ListsInv'
            /\ Frees' = Frees /\ DOMAIN live' = DOMAIN live \cup {new}
            /\ DOMAIN header' = DOMAIN header \cup {new}
            /\ new \notin DOMAIN header
            /\ header'[new].size = n
            /\ header'[a].size = header[a].size - n - 1
            /\ \A x \in DOMAIN header \ {a} : header'[x].size = header[x].size
<1> PICK h, k, F, U : /\ h = header /\ k = header'
                      /\ F = Frees /\ U = DOMAIN live
  OBVIOUS
<1>1. /\ Headers(h) /\ Spaced(h) /\ F \subseteq DOMAIN h /\ a \in F
      /\ Ordered(h, F, free_blocks, Address) /\ Exact(h, F, free_size)
  BY DEF ListsInv, FreeOK
<1>2. PICK r : Ordered(h, U, used_blocks, r) /\ U \subseteq DOMAIN h
  BY DEF ListsInv, UsedOK
<1>3. F \cap U = {} /\ F \cup U = DOMAIN h
  BY <1>2 DEF Frees
<1>4. PICK n, rest, new : /\ n = Units(bytes) /\ rest = h[a].size - (n + 1)
                          /\ new = a + rest + 1
  OBVIOUS
<1>5. /\ n \in Nat /\ n > 0 /\ h[a].size \in Nat /\ a \in Nat /\ a # NULL
      /\ a \in DOMAIN h /\ a \in Addresses /\ a > 0 /\ a \in 1..HeapEnd
      /\ h[a].size - n > 1 /\ HeapEnd \in Nat /\ a + h[a].size < HeapEnd
  <2>1. n \in Nat /\ n > 0
    BY <1>4, UnitsFacts
  <2>2. a \in DOMAIN h /\ a + h[a].size < HeapEnd
    BY <1>1 DEF Spaced
  <2>3. h[a].size \in Nat /\ a \in Nat /\ a # NULL /\ a \in Addresses /\ a \in 1..HeapEnd
    BY <1>1, <2>2, HeaderFacts
  <2>4. a > 0 /\ HeapEnd \in Nat
    BY <2>3, AddressFacts
  <2>5. h[a].size - n > 1
    BY <1>4 DEF AllocSplit
  <2>6. QED
    BY <2>1, <2>2, <2>3, <2>4, <2>5
<1>6. /\ rest \in Nat /\ new \in Nat /\ a + rest < new /\ new + n = a + h[a].size
      /\ new \in Addresses /\ rest \in 0..HeapEnd /\ n \in 0..HeapEnd
      /\ new > a /\ new = a + h[a].size - n /\ rest = h[a].size - n - 1
  BY <1>4, <1>5 DEF Addresses
<1>7. new \notin DOMAIN h
  <2>1. SUFFICES ASSUME new \in DOMAIN h PROVE FALSE
    OBVIOUS
  <2>2. a + h[a].size < new
    BY <1>1, <1>5, <1>6, <2>1 DEF Spaced
  <2>3. QED
    BY <1>5, <1>6, <2>2
<1>8. PICK m : m = Carved(h, a, rest, new, n)
  OBVIOUS
<1>9. /\ k = Link(m, new, NULL, used_blocks) /\ used_blocks' = new
      /\ live' = [x \in DOMAIN live \cup {new} |-> IF x = new THEN bytes ELSE live[x]]
      /\ free_blocks' = free_blocks
      /\ free_size' = free_size - (n + 1) * HEADER
  BY <1>4, <1>8 DEF AllocSplit, Hand
<1>10. /\ Headers(m) /\ DOMAIN m = DOMAIN h \cup {new}
       /\ m[a].size = rest /\ m[new].size = n
       /\ m[a].next = h[a].next /\ m[a].prev = h[a].prev
       /\ \A x \in DOMAIN h \ {a} : m[x] = h[x]
  <2>1. PICK e, o : /\ e = [h[a] EXCEPT !.size = rest]
                    /\ o = [prev |-> NULL, next |-> NULL, size |-> n]
    OBVIOUS
  <2>2. h[a] \in Header
    BY <1>1, <1>5, HeaderFacts
  <2>3. e \in Header /\ e.size = rest /\ e.next = h[a].next /\ e.prev = h[a].prev
    BY <1>6, <2>1, <2>2 DEF Header
  <2>4. o \in Header /\ o.size = n
    BY <1>5, <1>6, <2>1 DEF Header, NULL
  <2>5. DOMAIN m = DOMAIN h \cup {new}
    BY <1>8 DEF Carved
  <2>6. \A x \in DOMAIN h \cup {new} :
          m[x] = IF x = a THEN e ELSE IF x = new THEN o ELSE h[x]
    BY <1>5, <1>6, <1>8, <2>1 DEF Carved
  <2>7. \A x \in DOMAIN h : h[x] \in Header
    BY <1>1 DEF Headers
  <2>8. \A x \in DOMAIN m : m[x] \in Header
    BY <2>3, <2>4, <2>5, <2>6, <2>7
  <2>9. DOMAIN m \subseteq Addresses
    BY <1>1, <1>6, <2>5 DEF Headers
  <2>10. m = [x \in DOMAIN m |-> m[x]]
    BY <1>8 DEF Carved
  <2>11. Headers(m)
    BY <2>8, <2>9, <2>10 DEF Headers
  <2>12. QED
    BY <1>5, <1>6, <1>7, <2>3, <2>4, <2>5, <2>6, <2>11
<1>11. Ordered(m, F, free_blocks, Address)
  <2>1. \A x \in F : m[x].next = h[x].next /\ m[x].prev = h[x].prev
    BY <1>1, <1>10
  <2>2. QED
    BY <1>1, <2>1, OrderedSame
<1>12. UsedOK(m, U, used_blocks)
  <2>1. \A x \in U : m[x].next = h[x].next /\ m[x].prev = h[x].prev
    BY <1>2, <1>10
  <2>2. Ordered(m, U, used_blocks, r)
    BY <1>2, <2>1, OrderedSame
  <2>3. QED
    BY <1>2, <1>10, <2>2 DEF UsedOK
<1>13. Handed(m, k, new, F, free_blocks, U)
  <2>1. new \in DOMAIN m /\ F \subseteq DOMAIN m /\ new \notin F /\ new \notin U
    BY <1>1, <1>2, <1>7, <1>10
  <2>2. QED
    BY <1>3, <1>9, <1>10, <1>11, <1>12, <2>1, HandIs
<1>14. /\ Headers(k) /\ DOMAIN k = DOMAIN h \cup {new}
       /\ k[new].size = n /\ k[a].size = rest
       /\ \A x \in DOMAIN h \ {a} : k[x].size = h[x].size
       /\ Ordered(k, F, free_blocks', Address)
       /\ UsedOK(k, U \cup {new}, used_blocks')
  <2>1. Relinked(m, k) /\ Ordered(k, F, free_blocks', Address)
        /\ UsedOK(k, U \cup {new}, used_blocks')
    BY <1>9, <1>13 DEF Handed
  <2>2. QED
    BY <1>5, <1>10, <2>1 DEF Relinked
<1>15. /\ DOMAIN live' = U \cup {new} /\ live' \in [DOMAIN live' -> Requests]
       /\ \A x \in DOMAIN live' : live'[x] = IF x = new THEN bytes ELSE live[x]
  BY <1>9, LiveWith
<1>16. Frees' = F
  BY <1>3, <1>7, <1>14, <1>15 DEF Frees
<1>17. \A x \in DOMAIN h : x \in Nat /\ h[x].size \in Nat
  BY <1>1, HeaderFacts
<1>18. Spaced(k)
  <2>1. \A x \in DOMAIN k : x + k[x].size < HeapEnd
    BY <1>1, <1>5, <1>6, <1>14 DEF Spaced
  <2>2. ASSUME NEW x \in DOMAIN k, NEW y \in DOMAIN k, x < y
        PROVE  x + k[x].size < y
    <3>1. CASE x = a /\ y = new
      BY <1>6, <1>14, <3>1
    <3>2. CASE x = a /\ y # new
      <4>1. a + h[a].size < y /\ y \in Nat
        BY <1>1, <1>14, <1>17, <2>2, <3>2 DEF Spaced
      <4>2. QED
        BY <1>5, <1>6, <1>14, <3>2, <4>1
    <3>3. CASE x = new
      <4>1. y \in DOMAIN h /\ a < y /\ y \in Nat
        BY <1>5, <1>6, <1>14, <1>17, <2>2, <3>3
      <4>2. a + h[a].size < y
        BY <1>1, <1>5, <4>1 DEF Spaced
      <4>3. QED
        BY <1>6, <1>14, <3>3, <4>2
    <3>4. CASE x # a /\ x # new /\ y = new
      <4>1. x \in DOMAIN h /\ x \in Nat /\ h[x].size \in Nat
        BY <1>14, <1>17, <3>4
      <4>2. x < a
        <5>1. SUFFICES ASSUME x > a PROVE FALSE
          BY <1>5, <3>4, <4>1
        <5>2. a + h[a].size < x
          BY <1>1, <1>5, <4>1, <5>1 DEF Spaced
        <5>3. QED
          BY <1>5, <1>6, <2>2, <3>4, <4>1, <5>2
      <4>3. x + h[x].size < a
        BY <1>1, <1>5, <4>1, <4>2 DEF Spaced
      <4>4. k[x].size = h[x].size
        BY <1>14, <3>4, <4>1
      <4>5. QED
        BY <1>5, <1>6, <3>4, <4>1, <4>3, <4>4
    <3>5. CASE x # a /\ x # new /\ y # new
      <4>1. x \in DOMAIN h /\ y \in DOMAIN h /\ k[x].size = h[x].size
        BY <1>14, <3>5
      <4>2. QED
        BY <1>1, <2>2, <4>1 DEF Spaced
    <3>6. QED
      BY <3>1, <3>2, <3>3, <3>4, <3>5
  <2>3. QED
    BY <2>1, <2>2 DEF Spaced
<1>19. Exact(k, F, free_size')
  <2>1. SameBut(h, F, k, F, a) /\ F \subseteq DOMAIN k
    BY <1>1, <1>14 DEF SameBut
  <2>2. PICK o, s : o = FreeUnits(h, F, a) /\ s = FreeUnits(k, F, a)
    OBVIOUS
  <2>3. o = h[a].size /\ s = rest
    BY <1>1, <1>14, <2>2 DEF FreeUnits
  <2>4. Exact(k, F, free_size + (s - o) * HEADER) /\ free_size \in Nat
    BY <1>1, <1>5, <1>14, <2>1, <2>2, ExactChange
  <2>5. s - o = 0 - (n + 1)
    BY <1>4, <1>5, <2>3
  <2>6. free_size + (s - o) * HEADER = free_size - (n + 1) * HEADER
    <3>1. HEADER \in Nat
      BY HeapAssumption
    <3>2. PICK d \in Nat : d = n + 1
      BY <1>5
    <3>3. (0 - d) * HEADER = 0 - d * HEADER /\ d * HEADER \in Nat
      BY <3>1
    <3>4. QED
      BY <2>4, <2>5, <3>2, <3>3
  <2>7. QED
    BY <1>9, <2>4, <2>6
<1>20. FreeOK(k, F, free_blocks', free_size')
  <2>1. F \subseteq DOMAIN k
    BY <1>1, <1>14
  <2>2. QED
    BY <1>14, <1>18, <1>19, <2>1 DEF FreeOK
<1>21. Gaps(k, F)
  <2>1. ASSUME NEW x \in F, Touches(k, F, x)
        PROVE  \E i \in 1..SpaceCount : Base(i) = x + k[x].size + 1
    <3>1. x # a
      BY <1>1, <1>4, <1>5, <1>6, <1>7, <1>14, <2>1 DEF Touches
    <3>2. k[x].size = h[x].size
      BY <1>1, <1>14, <3>1
    <3>3. QED
      BY <2>1, <3>2 DEF ListsInv, Gaps, Touches
  <2>2. QED
    BY <2>1 DEF Gaps
<1>22. \A x \in DOMAIN live' : k[x].size * HEADER >= live'[x]
  <2>1. k[new].size * HEADER >= bytes
    BY <1>4, <1>5, <1>14, UnitsFacts
  <2>2. \A x \in U : h[x].size * HEADER >= live[x]
    BY DEF ListsInv, BlocksLargeEnough
  <2>3. \A x \in U : k[x].size = h[x].size /\ x # new
    BY <1>1, <1>2, <1>3, <1>7, <1>14
  <2>4. QED
    BY <1>15, <2>1, <2>2, <2>3
<1>23. ListsInv'
  <2>1. FreeOK(header, Frees, free_blocks, free_size)'
    BY <1>16, <1>20
  <2>2. UsedOK(header, DOMAIN live, used_blocks)'
    BY <1>14, <1>15
  <2>3. Gaps(header, Frees)'
    BY <1>16, <1>21
  <2>4. BlocksLargeEnough'
    BY <1>22 DEF BlocksLargeEnough
  <2>5. QED
    BY <1>15, <2>1, <2>2, <2>3, <2>4 DEF ListsInv
<1>24. /\ k[new].size = n /\ k[a].size = h[a].size - n - 1
       /\ new = a + h[a].size - n
  BY <1>6, <1>14
<1>25. QED
  BY <1>4, <1>7, <1>14, <1>15, <1>16, <1>23, <1>24

-----------------------------------------------------------------------------
(* Heap_Free.                                                              *)

LEMMA InsertIs ==
  ASSUME NEW hdr, Headers(hdr), NEW F, F \subseteq DOMAIN hdr, F # {},
         Ordered(hdr, F, free_blocks, Address), NEW a \in DOMAIN hdr, a \notin F
  PROVE  \E p, n : /\ Insert(hdr, a) = Link(hdr, a, p, n)
                   /\ Before(F, Address, a, p) /\ After(F, Address, a, n)
<1>1. /\ F \subseteq Addresses /\ a \in Nat /\ HeapEnd \in Nat
      /\ \A x \in F : Address[x] = x /\ x \in Nat /\ x # NULL /\ x < HeapEnd /\ x # a
  <2>1. F \subseteq Addresses
    BY DEF Headers
  <2>2. QED
    BY <2>1, HeaderFacts, AddressFacts
<1>2. ASSUME NEW x \in F
      PROVE  LET n == hdr[x].next
                 p == hdr[x].prev
             IN /\ \/ n = NULL /\ \A y \in F : y <= x
                   \/ n \in F /\ n > x /\ \A y \in F : y > x => n <= y
                /\ \/ p = NULL /\ \A y \in F : y >= x
                   \/ p \in F /\ p < x /\ \A y \in F : y < x => y <= p
  <2> PICK n, p : n = hdr[x].next /\ p = hdr[x].prev
    OBVIOUS
  <2>1. After(F, Address, Address[x], n) /\ Before(F, Address, Address[x], p)
    BY DEF Ordered
  <2>2. \/ n = NULL /\ \A y \in F : y <= x
        \/ n \in F /\ n > x /\ \A y \in F : y > x => n <= y
    BY <1>1, <2>1 DEF After
  <2>3. \/ p = NULL /\ \A y \in F : y >= x
        \/ p \in F /\ p < x /\ \A y \in F : y < x => y <= p
    BY <1>1, <2>1 DEF Before
  <2>4. QED
    BY <2>2, <2>3
<1>3. PICK P : P = {x \in F : x >= a \/ hdr[x].next = NULL}
  OBVIOUS
<1>4. P # {}
  <2>1. SUFFICES ASSUME P = {} PROVE FALSE
    OBVIOUS
  <2>2. PICK D : D = {HeapEnd - x : x \in F}
    OBVIOUS
  <2>3. D \subseteq Nat /\ D # {}
    BY <1>1, <2>2
  <2>4. PICK d \in D : \A e \in D : d <= e
    BY <2>3, LeastNat
  <2>5. PICK x \in F : d = HeapEnd - x
    BY <2>2, <2>4
  <2>6. \A y \in F : y <= x
    <3>1. ASSUME NEW y \in F PROVE y <= x
      <4>1. HeapEnd - y \in D
        BY <2>2
      <4>2. HeapEnd - x <= HeapEnd - y
        BY <2>4, <2>5, <4>1
      <4>3. QED
        BY <1>1, <4>2
    <3>2. QED
      BY <3>1
  <2>7. hdr[x].next = NULL
    <3>1. SUFFICES ASSUME hdr[x].next # NULL PROVE FALSE
      OBVIOUS
    <3>2. hdr[x].next \in F /\ hdr[x].next > x
      BY <1>2, <3>1
    <3>3. QED
      BY <1>1, <2>6, <3>2
  <2>8. QED
    BY <1>3, <2>1, <2>7
<1>5. PICK stop : stop = Stop(hdr, a)
  OBVIOUS
<1>6. stop \in P /\ \A y \in P : stop <= y
  <2>1. /\ List(hdr, free_blocks) = F
        /\ \A Q \in SUBSET F : Q # {} =>
             /\ FirstMet(hdr, free_blocks, Q) \in Q
             /\ \A y \in Q : Address[FirstMet(hdr, free_blocks, Q)] <= Address[y]
    BY <1>1, WalkAll
  <2>2. P \in SUBSET F
    BY <1>3
  <2>3. /\ FirstMet(hdr, free_blocks, P) \in P
        /\ \A y \in P : Address[FirstMet(hdr, free_blocks, P)] <= Address[y]
    BY <1>4, <2>1, <2>2
  <2>4. stop = FirstMet(hdr, free_blocks, P)
    BY <1>3, <1>5, <2>1 DEF Stop
  <2>5. QED
    BY <1>1, <2>2, <2>3, <2>4
<1>7. stop \in F /\ stop # a
  BY <1>1, <1>3, <1>6
<1>8. CASE stop >= a
  <2>1. PICK p : p = hdr[stop].prev
    OBVIOUS
  <2>2. Insert(hdr, a) = Link(hdr, a, p, stop)
    BY <1>5, <1>8, <2>1 DEF Insert
  <2>3. \A y \in F : y < stop <=> y < a
    <3>1. ASSUME NEW y \in F PROVE y < stop <=> y < a
      <4>1. y >= a => y >= stop
        BY <1>1, <1>3, <1>6, <1>7
      <4>2. QED
        BY <1>1, <1>7, <1>8, <4>1
    <3>2. QED
      BY <3>1
  <2>4. After(F, Address, a, stop)
    <3>1. stop > a
      BY <1>1, <1>7, <1>8
    <3>2. \A y \in F : y > a => stop <= y
      BY <1>1, <1>7, <2>3
    <3>3. QED
      BY <1>1, <1>7, <3>1, <3>2 DEF After
  <2>5. Before(F, Address, a, p)
    <3>1. \/ p = NULL /\ \A y \in F : y >= stop
          \/ p \in F /\ p < stop /\ \A y \in F : y < stop => y <= p
      BY <1>2, <1>7, <2>1
    <3>2. CASE p = NULL /\ \A y \in F : y >= stop
      BY <1>1, <1>7, <1>8, <3>2 DEF Before
    <3>3. CASE p \in F /\ p < stop /\ \A y \in F : y < stop => y <= p
      BY <1>1, <1>7, <2>3, <3>3 DEF Before
    <3>4. QED
      BY <3>1, <3>2, <3>3
  <2>6. QED
    BY <2>2, <2>4, <2>5
<1>9. CASE ~(stop >= a)
  <2>1. PICK n : n = hdr[stop].next
    OBVIOUS
  <2>2. Insert(hdr, a) = Link(hdr, a, stop, n)
    BY <1>5, <1>9, <2>1 DEF Insert
  <2>3. n = NULL
    BY <1>3, <1>6, <1>9, <2>1
  <2>4. \A y \in F : y <= stop
    BY <1>1, <1>2, <1>7, <2>1, <2>3
  <2>5. stop < a
    BY <1>1, <1>7, <1>9
  <2>6. After(F, Address, a, n)
    BY <1>1, <1>7, <2>3, <2>4, <2>5 DEF After
  <2>7. Before(F, Address, a, stop)
    BY <1>1, <1>7, <2>4, <2>5 DEF Before
  <2>8. QED
    BY <2>2, <2>6, <2>7
<1>10. QED
  BY <1>8, <1>9

\* The block a between its neighbours p and n in the free list.
Joined(hdr, h, a, p, n, F, U, head) ==
  /\ Linked(hdr, h, a, p, n)
  /\ Ordered(h, F \cup {a}, IF p = NULL THEN a ELSE head, Address)
  /\ U \subseteq DOMAIN h
  /\ \A x \in U : h[x].next = hdr[x].next /\ h[x].prev = hdr[x].prev

LEMMA JoinIs ==
  ASSUME NEW hdr, Headers(hdr), NEW F, F \subseteq DOMAIN hdr, NEW head,
         Ordered(hdr, F, head, Address), NEW a \in DOMAIN hdr, a \notin F,
         NEW p, Before(F, Address, a, p), NEW n, After(F, Address, a, n),
         NEW U, U \subseteq DOMAIN hdr, a \notin U, F \cap U = {}
  PROVE  Joined(hdr, Link(hdr, a, p, n), a, p, n, F, U, head)
<1> PICK h : h = Link(hdr, a, p, n)
  OBVIOUS
<1>1. /\ F \subseteq Addresses /\ a \in Addresses /\ Address[a] = a
      /\ NULL \notin DOMAIN hdr
      /\ \A x \in F : Address[x] = x /\ x \in Nat
  <2>1. DOMAIN hdr \subseteq Addresses /\ NULL \notin DOMAIN hdr
    BY AddressFacts DEF Headers
  <2>2. QED
    BY <2>1, AddressFacts DEF Address
<1>2. p \in F \cup {NULL} /\ n \in F \cup {NULL}
  BY DEF Before, After
<1>3. p \in DOMAIN hdr \cup {NULL} /\ n \in DOMAIN hdr \cup {NULL} /\ p # a /\ n # a
  BY <1>1, <1>2
<1>4. Linked(hdr, h, a, p, n)
  BY <1>3, LinkIs
<1>5. /\ DOMAIN h = DOMAIN hdr
      /\ \A x \in DOMAIN hdr :
           /\ h[x].next = IF x = a THEN n ELSE IF x = p THEN a ELSE hdr[x].next
           /\ h[x].prev = IF x = a THEN p ELSE IF x = n THEN a ELSE hdr[x].prev
  BY <1>4 DEF Linked, Relinked
<1>6. LinksWith(hdr, h, F, a, p, n)
  <2>1. \A x \in F : x \in DOMAIN hdr /\ x # a
    OBVIOUS
  <2>2. QED
    BY <1>5, <2>1 DEF LinksWith
<1>7. Ranks(F \cup {a}, Address)
  <2>1. \A x \in F \cup {a} : Address[x] = x /\ x \in Nat
    BY <1>1, AddressFacts
  <2>2. QED
    BY <2>1 DEF Ranks
<1>8. Ordered(h, F \cup {a}, IF p = NULL THEN a ELSE head, Address)
  BY <1>1, <1>6, <1>7, OrderedWith
<1>9. \A x \in U : h[x].next = hdr[x].next /\ h[x].prev = hdr[x].prev
  <2>1. \A x \in U : x \in DOMAIN hdr /\ x # a /\ x # p /\ x # n
    BY <1>1, <1>2
  <2>2. QED
    BY <1>5, <2>1
<1>10. QED
  BY <1>4, <1>5, <1>8, <1>9 DEF Joined

\* hi is the heap with a in the free list, and hj the heap when the block c,
\* a or the one that ends where a starts, has swallowed what touches it.
FreedInto(a, hi, head, c, hj) ==
  LET F == Frees \cup {a}
      h == hi.header
  IN /\ FreeOK(h, F, head, hi.free_size)
     /\ DOMAIN h = DOMAIN header
     /\ \A x \in DOMAIN header : h[x].size = header[x].size
     /\ Absorbed(hi, F, head, c, hj)
     /\ ~Touches(hj.header, Beyond(hj.header, F, c), c)
     /\ c \in F
     /\ c # a => c + header[c].size + 1 = a
     /\ c = a => \A x \in Frees : x + header[x].size + 1 # a

LEMMA FreeIs ==
  ASSUME ListsInv, NEW a \in DOMAIN live, Free(a)
  PROVE  \E hi, head, c, hj :
           /\ FreedInto(a, hi, head, c, hj)
           /\ UsedOK(hi.header, DOMAIN live \ {a}, used_blocks')
           /\ header' = hj.header /\ free_size' = hj.free_size
           /\ free_blocks' = head /\ live' = Without(live, a)
<1> PICK h, F, U : h = header /\ F = Frees /\ U = DOMAIN live \ {a}
  OBVIOUS
<1>1. /\ Headers(h) /\ Spaced(h) /\ F \subseteq DOMAIN h
      /\ Ordered(h, F, free_blocks, Address) /\ Exact(h, F, free_size)
  BY DEF ListsInv, FreeOK
<1>2. PICK r : Ordered(h, DOMAIN live, used_blocks, r) /\ DOMAIN live \subseteq DOMAIN h
  BY DEF ListsInv, UsedOK
<1>3. /\ F \cap DOMAIN live = {} /\ F \cup DOMAIN live = DOMAIN h /\ a \in DOMAIN h
      /\ a \notin F /\ a \notin U /\ U \subseteq DOMAIN h /\ F \cap U = {}
  BY <1>2 DEF Frees
<1>4. /\ DOMAIN h \subseteq Addresses /\ NULL \notin DOMAIN h
      /\ F \subseteq Addresses /\ DOMAIN live \subseteq Addresses
      /\ a \in Addresses /\ a \in Nat /\ a # NULL /\ a \in 1..HeapEnd /\ Address[a] = a
      /\ h[a].size \in Nat
      /\ \A x \in F : Address[x] = x /\ x \in Nat /\ x # NULL /\ x # a
      /\ \A x \in DOMAIN h : x \in Nat /\ h[x].size \in Nat
  <2>1. DOMAIN h \subseteq Addresses /\ NULL \notin DOMAIN h
    BY <1>1, AddressFacts DEF Headers
  <2>2. QED
    BY <1>1, <1>2, <1>3, <2>1, HeaderFacts
<1>5. PICK m : m = Unlink(h, a)
  OBVIOUS
<1>6. h[a].next \in DOMAIN live \cup {NULL} /\ h[a].prev \in DOMAIN live \cup {NULL}
  <2>1. LinksAgree(h, DOMAIN live, used_blocks, r, a)
    BY <1>2, <1>4, OrderedInverse
  <2>2. QED
    BY <2>1 DEF LinksAgree
<1>7. Unlinked(h, m, a)
  BY <1>1, <1>2, <1>3, <1>5, <1>6, UnlinkIs
<1>8. /\ Headers(m) /\ DOMAIN m = DOMAIN h
      /\ \A x \in DOMAIN h :
           /\ m[x].size = h[x].size
           /\ m[x].next = IF x = h[a].prev THEN h[a].next ELSE h[x].next
           /\ m[x].prev = IF x = h[a].next THEN h[a].prev ELSE h[x].prev
  BY <1>7 DEF Unlinked, Relinked
<1>9. Ordered(m, F, free_blocks, Address)
  <2>1. \A x \in F : x \in DOMAIN h /\ x # h[a].next /\ x # h[a].prev
    BY <1>1, <1>3, <1>4, <1>6
  <2>2. \A x \in F : m[x].next = h[x].next /\ m[x].prev = h[x].prev
    BY <1>8, <2>1
  <2>3. QED
    BY <1>1, <2>2, OrderedSame
<1>10. Ordered(m, U, HeadWithout(h, used_blocks, a), r)
  <2>1. LinksWithout(h, m, DOMAIN live, a)
    BY <1>2, <1>8 DEF LinksWithout
  <2>2. Ordered(m, DOMAIN live \ {a}, HeadWithout(h, used_blocks, a), r)
    BY <1>2, <1>4, <2>1, OrderedWithout
  <2>3. QED
    BY <2>2
<1>11. PICK back : back = free_size + h[a].size * HEADER
  OBVIOUS
<1>12. used_blocks' = HeadWithout(h, used_blocks, a) /\ live' = Without(live, a)
  BY DEF Free
<1> DEFINE InList(k, p) ==
             /\ FreeOK(k, F \cup {a}, IF p = NULL THEN a ELSE free_blocks, back)
             /\ DOMAIN k = DOMAIN h /\ \A x \in DOMAIN h : k[x].size = h[x].size
             /\ k[a].prev = p /\ (p # NULL => p \in F /\ p < a)
             /\ UsedOK(k, U, used_blocks')
<1>13. ASSUME NEW p, Before(F, Address, a, p), NEW n, After(F, Address, a, n),
              NEW k, k = Link(m, a, p, n)
       PROVE  InList(k, p)
  <2>1. Joined(m, k, a, p, n, F, U, free_blocks)
    BY <1>1, <1>3, <1>8, <1>9, <1>13, JoinIs
  <2>2. /\ Headers(k) /\ DOMAIN k = DOMAIN m
        /\ \A x \in DOMAIN m : k[x].size = m[x].size
        /\ k[a].prev = p
        /\ Ordered(k, F \cup {a}, IF p = NULL THEN a ELSE free_blocks, Address)
        /\ \A x \in U : k[x].next = m[x].next /\ k[x].prev = m[x].prev
    BY <1>3, <1>8, <2>1 DEF Joined, Linked, Relinked
  <2>3. DOMAIN k = DOMAIN h /\ \A x \in DOMAIN h : k[x].size = h[x].size
    BY <1>8, <2>2
  <2>4. UsedOK(k, U, used_blocks')
    <3>1. Ordered(k, U, HeadWithout(h, used_blocks, a), r)
      BY <1>10, <2>2, OrderedSame
    <3>2. U \subseteq DOMAIN k
      BY <1>3, <2>3
    <3>3. QED
      BY <1>12, <3>1, <3>2 DEF UsedOK
  <2>5. Spaced(k)
    BY <1>1, <2>3 DEF Spaced
  <2>6. F \cup {a} \subseteq DOMAIN k
    BY <1>1, <1>3, <2>3
  <2>7. Exact(k, F \cup {a}, back)
    <3>1. SameBut(h, F, k, F \cup {a}, a)
      BY <1>1, <2>3 DEF SameBut
    <3>2. PICK o, s : o = FreeUnits(h, F, a) /\ s = FreeUnits(k, F \cup {a}, a)
      OBVIOUS
    <3>3. o = 0 /\ s = h[a].size
      BY <1>3, <2>3, <3>2 DEF FreeUnits
    <3>4. Exact(k, F \cup {a}, free_size + (s - o) * HEADER)
      BY <1>1, <1>4, <2>2, <2>6, <3>1, <3>2, ExactChange
    <3>5. s - o = h[a].size
      BY <1>4, <3>3
    <3>6. QED
      BY <1>11, <3>4, <3>5
  <2>8. FreeOK(k, F \cup {a}, IF p = NULL THEN a ELSE free_blocks, back)
    BY <2>2, <2>5, <2>6, <2>7 DEF FreeOK
  <2>9. p # NULL => p \in F /\ p < a
    BY <1>4, <1>13 DEF Before
  <2>10. QED
    BY <2>2, <2>3, <2>4, <2>8, <2>9
<1>14. CASE free_blocks = NULL
  <2>1. F = {}
    BY <1>1, <1>4, <1>14 DEF Ordered, IsFirst
  <2>2. Before(F, Address, a, NULL) /\ After(F, Address, a, NULL)
    BY <2>1 DEF Before, After
  <2>3. PICK k : k = Link(m, a, NULL, NULL)
    OBVIOUS
  <2>4. /\ header' = k /\ free_blocks' = a /\ free_size' = back
    BY <1>5, <1>11, <1>14, <2>3 DEF Free
  <2>5. /\ FreeOK(k, F \cup {a}, IF NULL = NULL THEN a ELSE free_blocks, back)
        /\ DOMAIN k = DOMAIN h /\ \A x \in DOMAIN h : k[x].size = h[x].size
        /\ UsedOK(k, U, used_blocks')
    BY <1>13, <2>2, <2>3, SMTT(30)
  <2>6. PICK hi : hi = [header |-> k, free_size |-> back]
    OBVIOUS
  <2>7. hi.header = k /\ hi.free_size = back
    BY <2>6
  <2>8. FreeOK(hi.header, F \cup {a}, a, hi.free_size)
    BY <2>5, <2>7
  <2>9. Absorbed(hi, F \cup {a}, a, a, hi)
    BY <2>8, AbsorbedNothing
  <2>10. ~Touches(hi.header, Beyond(hi.header, F \cup {a}, a), a)
    <3>1. a + k[a].size + 1 # a
      BY <1>3, <1>4, <2>5
    <3>2. QED
      BY <2>1, <2>7, <3>1 DEF Touches, Beyond
  <2>11. FreedInto(a, hi, a, a, hi)
    BY <2>1, <2>5, <2>7, <2>8, <2>9, <2>10 DEF FreedInto
  <2>12. QED
    BY <1>12, <2>4, <2>5, <2>7, <2>11
<1>15. CASE free_blocks # NULL
  <2>1. F # {}
    BY <1>1, <1>15 DEF Ordered, IsFirst
  <2>2. PICK p, n : /\ Insert(m, a) = Link(m, a, p, n)
                    /\ Before(F, Address, a, p) /\ After(F, Address, a, n)
    BY <1>1, <1>3, <1>8, <1>9, <2>1, InsertIs
  <2>3. PICK k, head : k = Insert(m, a) /\ head = IF p = NULL THEN a ELSE free_blocks
    OBVIOUS
  <2>4. /\ FreeOK(k, F \cup {a}, head, back)
        /\ DOMAIN k = DOMAIN h /\ \A x \in DOMAIN h : k[x].size = h[x].size
        /\ k[a].prev = p /\ (p # NULL => p \in F /\ p < a)
        /\ UsedOK(k, U, used_blocks')
    <3>1. k = Link(m, a, p, n) /\ Before(F, Address, a, p) /\ After(F, Address, a, n)
      BY <2>2, <2>3
    <3> HIDE DEF InList
    <3>2. InList(k, p)
      BY <1>13, <3>1
    <3>3. QED
      BY <2>3, <3>2 DEF InList
  <2>5. PICK hi : hi = [header |-> k, free_size |-> back]
    OBVIOUS
  <2>6. hi.header = k /\ hi.free_size = back
    BY <2>5
  <2>7. PICK hj : hj = Coalesce(hi, a)
    OBVIOUS
  <2>8. header' = hj.header /\ free_size' = hj.free_size /\ free_blocks' = head
    BY <1>5, <1>11, <1>15, <2>3, <2>4, <2>5, <2>7 DEF Free
  <2>9. FreeOK(hi.header, F \cup {a}, head, hi.free_size)
    BY <2>4, <2>6
  <2>10. p # NULL => MergedTo(hi, F \cup {a}, head, p, Merge(hi, p))
    BY <2>4, <2>9, MergeIs
  <2>11. MergedTo(hi, F \cup {a}, head, a, Merge(hi, a))
    BY <2>9, MergeIs
  \* A block that ends where a starts is the one before it in the list.
  <2>12. ASSUME NEW x \in F, x + h[x].size + 1 = a
         PROVE  p # NULL /\ x = p /\ Touches(hi.header, F \cup {a}, x)
    <3>1. x \in DOMAIN h /\ k[x].size = h[x].size
      BY <1>1, <2>4
    <3>2. Touches(hi.header, F \cup {a}, x)
      BY <2>6, <2>12, <3>1 DEF Touches
    <3>3. k[x].next = x + k[x].size + 1 /\ k[x].next # NULL
      BY <2>6, <2>9, <3>2, TouchesNext
    <3>4. k[x].next = a
      BY <2>12, <3>1, <3>3
    <3>5. Ordered(k, F \cup {a}, head, Address) /\ F \cup {a} \subseteq Addresses
      BY <1>4, <2>4 DEF FreeOK
    <3>6. LinksAgree(k, F \cup {a}, head, Address, x)
      BY <3>5, OrderedInverse
    <3>7. k[a].prev = x
      BY <3>3, <3>4, <3>6 DEF LinksAgree
    <3>8. QED
      BY <1>4, <2>4, <3>2, <3>7
  <2>13. CASE p # NULL /\ Merge(hi, p) # hi
    <3>1. hj = Merge(hi, p)
      BY <2>4, <2>6, <2>7, <2>13 DEF Coalesce
    <3>2. /\ Absorbed(hi, F \cup {a}, head, p, hj)
          /\ ~Touches(hj.header, Beyond(hj.header, F \cup {a}, p), p)
          /\ Touches(hi.header, F \cup {a}, p)
      BY <2>10, <2>13, <3>1 DEF MergedTo
    <3>3. p \in F /\ p # a /\ p \in DOMAIN h /\ k[p].size = h[p].size
      BY <1>1, <1>3, <2>4, <2>13
    <3>4. p + h[p].size + 1 = a
      <4>1. PICK e : e = p + h[p].size + 1
        OBVIOUS
      <4>2. e \in F \cup {a}
        BY <2>6, <3>2, <3>3, <4>1 DEF Touches
      <4>3. p + h[p].size < a
        BY <1>1, <1>3, <2>4, <2>13, <3>3 DEF Spaced
      <4>4. p \in Nat /\ h[p].size \in Nat
        BY <1>4, <3>3
      <4>5. e \in F => (e > p /\ e < a) \/ e = a
        BY <1>4, <4>1, <4>3, <4>4
      <4>6. ~(e \in F /\ e < a)
        <5>1. \A y \in F : y < a => y <= p
          BY <1>4, <2>2, <2>13 DEF Before
        <5>2. QED
          BY <1>4, <4>1, <4>4, <5>1
      <4>7. QED
        BY <4>1, <4>2, <4>5, <4>6
    <3>5. FreedInto(a, hi, head, p, hj)
      BY <2>4, <2>6, <2>9, <3>2, <3>3, <3>4 DEF FreedInto
    <3>6. QED
      BY <1>12, <2>4, <2>6, <2>8, <3>5
  <2>14. CASE ~(p # NULL /\ Merge(hi, p) # hi)
    <3>1. hj = Merge(hi, a)
      BY <2>4, <2>6, <2>7, <2>14 DEF Coalesce
    <3>2. /\ Absorbed(hi, F \cup {a}, head, a, hj)
          /\ ~Touches(hj.header, Beyond(hj.header, F \cup {a}, a), a)
      BY <2>11, <3>1 DEF MergedTo
    <3>3. \A x \in F : x + h[x].size + 1 # a
      <4>1. SUFFICES ASSUME NEW x \in F, x + h[x].size + 1 = a PROVE FALSE
        OBVIOUS
      <4>2. p # NULL /\ Touches(hi.header, F \cup {a}, p)
        BY <2>12, <4>1
      <4>3. Merge(hi, p) # hi
        BY <2>10, <4>2 DEF MergedTo
      <4>4. QED
        BY <2>14, <4>2, <4>3
    <3>4. FreedInto(a, hi, head, a, hj)
      BY <2>4, <2>6, <2>9, <3>2, <3>3 DEF FreedInto
    <3>5. QED
      BY <1>12, <2>4, <2>6, <2>8, <3>4
  <2>15. QED
    BY <2>13, <2>14
<1>16. QED
  BY <1>14, <1>15

LEMMA FreedIs ==
  ASSUME ListsInv, NEW a \in DOMAIN live, NEW hi, NEW head, NEW c, NEW hj,
         FreedInto(a, hi, head, c, hj),
         UsedOK(hi.header, DOMAIN live \ {a}, used_blocks'),
         header' = hj.header, free_size' = hj.free_size,
         free_blocks' = head, live' = Without(live, a)
  PROVE  /\ ListsInv'
         /\ Frees' = Beyond(hj.header, Frees \cup {a}, c)
         /\ DOMAIN live' = DOMAIN live \ {a}
         /\ \A x \in DOMAIN header' \ {c} : header'[x].size = header[x].size
<1> PICK h, k, F, U, G : /\ h = hi.header /\ k = hj.header /\ U = DOMAIN live \ {a}
                         /\ F = Frees \cup {a} /\ G = Beyond(k, F, c)
  OBVIOUS
<1>1. /\ FreeOK(h, F, head, hi.free_size)
      /\ DOMAIN h = DOMAIN header
      /\ \A x \in DOMAIN header : h[x].size = header[x].size
      /\ Absorbed(hi, F, head, c, hj)
      /\ ~Touches(k, G, c)
      /\ c \in F
      /\ c # a => c + header[c].size + 1 = a
      /\ c = a => \A x \in Frees : x + header[x].size + 1 # a
  BY DEF FreedInto
<1>2. /\ FreeOK(k, G, head, hj.free_size)
      /\ DOMAIN k = DOMAIN h \ (F \ G)
      /\ \A x \in DOMAIN k \ {c} : k[x].size = h[x].size
      /\ \A x \in DOMAIN h \ F : k[x].next = h[x].next /\ k[x].prev = h[x].prev
      /\ k[c].size >= h[c].size
  BY <1>1 DEF Absorbed
<1>3. DOMAIN live \subseteq DOMAIN header /\ Frees \cap DOMAIN live = {}
      /\ Frees \cup DOMAIN live = DOMAIN header
  BY DEF ListsInv, UsedOK, Frees
<1>4. /\ F \cap U = {} /\ F \cup U = DOMAIN h /\ a \in F /\ a \notin Frees
      /\ G \subseteq F
  BY <1>1, <1>3 DEF Beyond
<1>5. DOMAIN k = G \cup U /\ G \cap U = {} /\ G \subseteq DOMAIN k
  BY <1>2, <1>4
<1>6. DOMAIN live' = U /\ live' \in [DOMAIN live' -> Requests]
      /\ \A x \in U : live'[x] = live[x]
  <2>1. PICK l : l = live'
    OBVIOUS
  <2>2. \A x \in DOMAIN live : live[x] \in Requests
    BY DEF ListsInv
  <2>3. l = [x \in U |-> live[x]]
    BY <2>1 DEF Without
  <2>4. DOMAIN l = U /\ \A x \in U : l[x] = live[x]
    BY <2>3
  <2>5. l \in [U -> Requests]
    BY <2>2, <2>3
  <2>6. QED
    BY <2>1, <2>4, <2>5
<1>7. Frees' = G
  BY <1>5, <1>6 DEF Frees
<1>8. UsedOK(k, U, used_blocks')
  <2>1. PICK q : Ordered(h, U, used_blocks', q)
    BY DEF UsedOK
  <2>2. \A x \in U : k[x].next = h[x].next /\ k[x].prev = h[x].prev
    BY <1>2, <1>4
  <2>3. Ordered(k, U, used_blocks', q)
    BY <2>1, <2>2, OrderedSame
  <2>4. QED
    BY <1>5, <2>3 DEF UsedOK
<1>9. \A x \in DOMAIN k \ {c} : k[x].size = header[x].size
  BY <1>1, <1>2
<1>10. /\ Headers(k) /\ Headers(h) /\ c \in Nat /\ a \in Nat
       /\ h[c].size \in Nat /\ k[c].size \in Nat /\ c \in G /\ c \in DOMAIN header
  <2>1. Headers(k) /\ Headers(h) /\ a \in DOMAIN h /\ c \in DOMAIN h
    BY <1>1, <1>2, <1>4 DEF FreeOK
  <2>2. c \in Nat /\ a \in Nat /\ h[c].size \in Nat
    BY <2>1, HeaderFacts
  <2>3. c \in G
    BY <1>1, <2>2 DEF Beyond
  <2>4. k[c].size \in Nat
    BY <1>5, <2>1, <2>3, HeaderFacts
  <2>5. QED
    BY <1>1, <2>1, <2>2, <2>3, <2>4
\* When the block before a swallows, it swallows a.
<1>11. c # a => a \notin G
  <2>1. SUFFICES ASSUME c # a, a \in G PROVE FALSE
    OBVIOUS
  <2>2. c + h[c].size + 1 = a
    BY <1>1, <1>10, <2>1
  <2>3. k[c].size # h[c].size
    BY <1>1, <2>1, <2>2 DEF Touches
  <2>4. a \in (c + 1)..(c + k[c].size)
    BY <1>2, <1>10, <2>2, <2>3
  <2>5. QED
    BY <2>1, <2>4 DEF Beyond
<1>12. Gaps(k, G)
  <2>1. ASSUME NEW x \in G, Touches(k, G, x)
        PROVE  \E i \in 1..SpaceCount : Base(i) = x + k[x].size + 1
    <3>1. x # c
      BY <1>1, <2>1
    <3>2. k[x].size = header[x].size
      BY <1>5, <1>9, <3>1
    <3>3. x # a
      BY <1>11, <3>1
    <3>4. x \in Frees
      BY <1>4, <3>3
    <3>5. PICK y : y = x + header[x].size + 1
      OBVIOUS
    <3>6. y \in G
      BY <2>1, <3>2, <3>5 DEF Touches
    <3>7. y # a
      BY <1>1, <1>11, <3>4, <3>5, <3>6
    <3>8. y \in Frees
      BY <1>4, <3>6, <3>7
    <3>9. Touches(header, Frees, x)
      BY <3>5, <3>8 DEF Touches
    <3>10. \E i \in 1..SpaceCount : Base(i) = x + header[x].size + 1
      BY <3>4, <3>9 DEF ListsInv, Gaps
    <3>11. QED
      BY <3>2, <3>10
  <2>2. QED
    BY <2>1 DEF Gaps
<1>13. \A x \in U : k[x].size * HEADER >= live[x]
  <2>1. \A x \in U : header[x].size * HEADER >= live[x]
    BY DEF ListsInv, BlocksLargeEnough
  <2>2. \A x \in U : k[x].size = header[x].size
    BY <1>1, <1>4, <1>5, <1>9
  <2>3. QED
    BY <2>1, <2>2
<1>14. ListsInv'
  <2>1. FreeOK(header, Frees, free_blocks, free_size)'
    BY <1>2, <1>7
  <2>2. UsedOK(header, DOMAIN live, used_blocks)'
    BY <1>6, <1>8
  <2>3. Gaps(header, Frees)'
    BY <1>7, <1>12
  <2>4. BlocksLargeEnough'
    BY <1>6, <1>13 DEF BlocksLargeEnough
  <2>5. QED
    BY <1>6, <2>1, <2>2, <2>3, <2>4 DEF ListsInv
<1>15. QED
  BY <1>6, <1>7, <1>9, <1>14

-----------------------------------------------------------------------------
(* Heap_Init.                                                              *)

LEMMA SpaceBlocks ==
  /\ \A i \in 1..SpaceCount :
       LET s == SpaceUnits(heap_spaces[i])
       IN /\ Base(i) = heap_spaces[i].heap_base
          /\ Base(i) \in Addresses /\ Base(i) \in Nat /\ Base(i) # NULL
          /\ s \in Nat /\ Base(i) + s < HeapEnd
          /\ [addr |-> Base(i), size |-> s] \in Spaces
  /\ \A i, j \in 1..SpaceCount : i < j => Base(i) < Base(j)
<1>1. ASSUME NEW i \in 1..SpaceCount
      PROVE  LET s == SpaceUnits(heap_spaces[i])
             IN /\ Base(i) = heap_spaces[i].heap_base
                /\ Base(i) \in Addresses /\ Base(i) \in Nat /\ Base(i) # NULL
                /\ s \in Nat /\ Base(i) + s < HeapEnd
                /\ [addr |-> Base(i), size |-> s] \in Spaces
  <2>1. PICK b, s, c : /\ b = heap_spaces[i].heap_base /\ s = SpaceUnits(heap_spaces[i])
                       /\ c = [addr |-> b, size |-> s]
    OBVIOUS
  <2>2. Base(i) = b
    BY <2>1 DEF Base
  <2>3. c \in Spaces
    BY <2>1 DEF Spaces
  <2>4. c \in Block /\ c.addr + c.size < HeapEnd
    BY <2>3, HeapAssumption
  <2>5. c.addr = b /\ c.size = s
    BY <2>1
  <2>6. b \in 1..HeapEnd /\ s \in 0..HeapEnd
    BY <2>4, <2>5 DEF Block
  <2>7. HeapEnd \in Nat
    BY HeapAssumption
  <2>8. b \in Addresses /\ b \in Nat /\ b # NULL /\ s \in Nat
    BY <2>4, <2>5, <2>6, <2>7 DEF Addresses, NULL
  <2>9. QED
    BY <2>1, <2>2, <2>3, <2>4, <2>5, <2>8
<1>2. ASSUME NEW i \in 1..SpaceCount, NEW j \in 1..SpaceCount, i < j
      PROVE  Base(i) < Base(j)
  <2>1. SpaceCount \in Nat
    BY SpaceFacts
  <2> DEFINE Bad == {l \in (i + 1)..SpaceCount : ~(Base(i) < Base(l))}
  <2>2. Bad = {}
    <3>1. SUFFICES ASSUME Bad # {} PROVE FALSE
      OBVIOUS
    <3>2. PICK l \in Bad : \A o \in Bad : l <= o
      <4>1. Bad \subseteq Nat
        BY <2>1
      <4>2. QED
        BY <3>1, <4>1, LeastNat
    <3>3. l \in 2..SpaceCount /\ l - 1 \in 1..SpaceCount /\ l \in 1..SpaceCount
          /\ l - 1 \notin Bad
      BY <2>1, <3>2
    <3>4. heap_spaces[l - 1].heap_base < heap_spaces[l].heap_base
      BY <3>3, HeapAssumption
    <3>5. Base(l - 1) < Base(l)
      BY <3>3, <3>4, <1>1
    <3>6. Base(i) \in Nat /\ Base(l - 1) \in Nat /\ Base(l) \in Nat
      BY <3>3, <1>1
    <3>7. l - 1 = i \/ Base(i) < Base(l - 1)
      BY <2>1, <3>2, <3>3
    <3>8. ~(Base(i) < Base(l))
      BY <3>2
    <3>9. QED
      BY <3>5, <3>6, <3>7, <3>8
  <2>3. j \in (i + 1)..SpaceCount
    BY <1>2, <2>1
  <2>4. QED
    BY <2>2, <2>3
<1>3. QED
  BY <1>1, <1>2

Bases(k) == {Base(i) : i \in 1..k}

\* The header of each space and its place in the list.
Laid(hdr, i) ==
  /\ Base(i) \in DOMAIN hdr
  /\ hdr[Base(i)].size = SpaceUnits(heap_spaces[i])
  /\ hdr[Base(i)].next = Base(i + 1)
  /\ hdr[Base(i)].prev = Base(i - 1)
  /\ hdr[Base(i)] \in Header

LEMMA InitHeaders ==
  ASSUME Init
  PROVE  /\ DOMAIN header = Bases(SpaceCount) /\ Frees = Bases(SpaceCount)
         /\ Headers(header)
         /\ \A i \in 1..SpaceCount : Laid(header, i)
<1> PICK N, h : N = SpaceCount /\ h = header
  OBVIOUS
<1>1. N \in Nat /\ HeapEnd \in Nat
  BY SpaceFacts, AddressFacts
<1>2. DOMAIN h = Bases(N)
  BY DEF Init, Bases
<1>3. Frees = Bases(N)
  <2>1. DOMAIN live = {}
    BY DEF Init
  <2>2. QED
    BY <1>2, <2>1 DEF Frees
<1>4. \A i \in 0..(N + 1) : Base(i) \in 0..HeapEnd
  <2>1. ASSUME NEW i \in 0..(N + 1)
        PROVE  Base(i) \in 0..HeapEnd
    <3>1. CASE i \in 1..N
      <4>1. Base(i) \in Addresses
        BY <3>1, SpaceBlocks
      <4>2. QED
        BY <4>1, AddressFacts
    <3>2. CASE i \notin 1..N
      <4>1. Base(i) = NULL
        BY <3>2 DEF Base
      <4>2. QED
        BY <1>1, <4>1 DEF NULL
    <3>3. QED
      BY <3>1, <3>2
  <2>2. QED
    BY <2>1
<1>5. ASSUME NEW i \in 1..N
      PROVE  Laid(h, i) /\ Base(i) \in Addresses
  <2>1. PICK a, j : /\ a = Base(i)
                    /\ j = CHOOSE o \in 1..SpaceCount : Base(o) = a
    OBVIOUS
  <2>2. j \in 1..N /\ Base(j) = a
    BY <2>1
  <2>3. j = i
    <3>1. Base(i) \in Nat /\ (i < j => Base(i) < Base(j)) /\ (j < i => Base(j) < Base(i))
      BY <2>2, SpaceBlocks
    <3>2. QED
      BY <1>1, <2>1, <2>2, <3>1
  <2>4. a \in DOMAIN h
    BY <1>2, <2>1 DEF Bases
  <2>5. h[a] = SpaceHeader(i)
    BY <2>1, <2>3, <2>4 DEF Init
  <2>6. PICK p, n, s : /\ p = Base(i - 1) /\ n = Base(i + 1)
                       /\ s = SpaceUnits(heap_spaces[i])
    OBVIOUS
  <2>7. p \in 0..HeapEnd /\ n \in 0..HeapEnd
    <3>1. i - 1 \in 0..(N + 1) /\ i + 1 \in 0..(N + 1)
      BY <1>1
    <3>2. QED
      BY <1>4, <2>6, <3>1
  <2>8. s \in 0..HeapEnd /\ a \in Addresses
    <3>1. s \in Nat /\ a \in Nat /\ a + s < HeapEnd /\ a \in Addresses
      BY <2>1, <2>6, SpaceBlocks
    <3>2. QED
      BY <1>1, <3>1
  <2>9. h[a] = [prev |-> p, next |-> n, size |-> s]
    BY <2>5, <2>6 DEF SpaceHeader
  <2>10. h[a] \in Header /\ h[a].prev = p /\ h[a].next = n /\ h[a].size = s
    BY <2>7, <2>8, <2>9 DEF Header
  <2>11. QED
    BY <2>1, <2>4, <2>6, <2>8, <2>10 DEF Laid
<1>6. Headers(h)
  <2>1. DOMAIN h \subseteq Addresses
    BY <1>2, <1>5 DEF Bases
  <2>2. \A a \in DOMAIN h : h[a] \in Header
    BY <1>2, <1>5 DEF Bases, Laid
  <2>3. h = [a \in DOMAIN h |-> h[a]]
    BY DEF Init
  <2>4. QED
    BY <2>1, <2>2, <2>3 DEF Headers
<1>7. QED
  BY <1>2, <1>3, <1>5, <1>6

\* The spaces do not overlap and come in the order of their addresses.
LEMMA InitOrdered ==
  ASSUME Init
  PROVE  Spaced(header) /\ Ordered(header, Frees, free_blocks, Address)
<1> PICK N, h, B : N = SpaceCount /\ h = header /\ B = Frees
  OBVIOUS
<1>1. /\ N \in Nat /\ HeapEnd \in Nat
      /\ DOMAIN h = B /\ \A x \in B : \E i \in 1..N : x = Base(i)
      /\ \A i \in 1..N : Base(i) \in B
      /\ \A i \in 1..N : Laid(h, i)
  BY SpaceFacts, AddressFacts, InitHeaders DEF Bases
<1>2. \A i \in 1..N : /\ Base(i) \in Addresses /\ Base(i) \in Nat /\ Base(i) # NULL
                      /\ Address[Base(i)] = Base(i)
  BY SpaceBlocks DEF Address
<1>3. \A i, j \in 1..N : i < j => Base(i) < Base(j)
  BY SpaceBlocks
<1>4. \A i, j \in 1..N : Base(i) < Base(j) => i < j
  <2>1. ASSUME NEW i \in 1..N, NEW j \in 1..N, Base(i) < Base(j), ~(i < j)
        PROVE  FALSE
    <3>1. i = j \/ j < i
      BY <1>1, <2>1
    <3>2. Base(i) = Base(j) \/ Base(j) < Base(i)
      BY <1>3, <3>1
    <3>3. QED
      BY <1>2, <2>1, <3>2
  <2>2. QED
    BY <2>1
<1>5. Spaced(h)
  <2>1. ASSUME NEW x \in DOMAIN h
        PROVE  x + h[x].size < HeapEnd
    <3>1. PICK i \in 1..N : x = Base(i)
      BY <1>1
    <3>2. h[x].size = SpaceUnits(heap_spaces[i])
      BY <1>1, <3>1 DEF Laid
    <3>3. QED
      BY <3>1, <3>2, SpaceBlocks
  <2>2. ASSUME NEW x \in DOMAIN h, NEW y \in DOMAIN h, x < y
        PROVE  x + h[x].size < y
    <3>1. PICK i \in 1..N : x = Base(i)
      BY <1>1
    <3>2. PICK j \in 1..N : y = Base(j)
      BY <1>1
    <3>3. PICK s, o : s = h[x].size /\ o = h[y].size
      OBVIOUS
    <3>4. s = SpaceUnits(heap_spaces[i]) /\ o = SpaceUnits(heap_spaces[j])
      BY <1>1, <3>1, <3>2, <3>3 DEF Laid
    <3>5. PICK b, c : b = [addr |-> x, size |-> s] /\ c = [addr |-> y, size |-> o]
      OBVIOUS
    <3>6. b \in Spaces /\ c \in Spaces
      BY <3>1, <3>2, <3>4, <3>5, SpaceBlocks
    <3>7. s \in Nat /\ o \in Nat /\ x \in Nat /\ y \in Nat
      BY <3>1, <3>2, <3>4, SpaceBlocks
    <3>8. b.addr = x /\ b.size = s /\ c.addr = y /\ c.size = o
      BY <3>5
    <3>9. b # c
      BY <2>2, <3>7, <3>8
    <3>10. Extent(b) \cap Extent(c) = {}
      BY <3>6, <3>9, HeapAssumption DEF Disjoint
    <3>11. (x..(x + s)) \cap (y..(y + o)) = {}
      BY <3>8, <3>10 DEF Extent
    <3>12. y \in y..(y + o)
      BY <3>7
    <3>13. y \notin x..(x + s)
      BY <3>11, <3>12
    <3>14. QED
      BY <2>2, <3>3, <3>7, <3>13
  <2>3. QED
    BY <2>1, <2>2 DEF Spaced
<1>6. Ranks(B, Address)
  BY <1>1, <1>2 DEF Ranks
<1>7. IsFirst(B, Address, free_blocks)
  <2>1. free_blocks = Base(1)
    BY DEF Init
  <2>2. CASE N = 0
    <3>1. Base(1) = NULL
      BY <2>2 DEF Base
    <3>2. B = {}
      BY <1>1, <2>2
    <3>3. QED
      BY <2>1, <3>1, <3>2 DEF IsFirst
  <2>3. CASE N # 0
    <3>1. 1 \in 1..N
      BY <1>1, <2>3
    <3>2. ASSUME NEW y \in B
          PROVE  Address[Base(1)] <= Address[y]
      <4>1. PICK j \in 1..N : y = Base(j)
        BY <1>1
      <4>2. j = 1 \/ 1 < j
        BY <1>1
      <4>3. Base(1) = Base(j) \/ Base(1) < Base(j)
        BY <1>3, <3>1, <4>2
      <4>4. QED
        BY <1>2, <3>1, <4>1, <4>3
    <3>3. QED
      BY <1>1, <2>1, <3>1, <3>2 DEF IsFirst
  <2>4. QED
    BY <2>2, <2>3
<1>8. ASSUME NEW x \in B
      PROVE  /\ After(B, Address, Address[x], h[x].next)
             /\ Before(B, Address, Address[x], h[x].prev)
  <2>1. PICK i \in 1..N : x = Base(i)
    BY <1>1
  <2>2. h[x].next = Base(i + 1) /\ h[x].prev = Base(i - 1)
    BY <1>1, <2>1 DEF Laid
  <2>3. Address[x] = x /\ x \in Nat
    BY <1>2, <2>1
  <2>4. After(B, Address, x, Base(i + 1))
    <3>1. CASE i = N
      <4>1. Base(i + 1) = NULL
        BY <1>1, <3>1 DEF Base
      <4>2. ASSUME NEW y \in B
            PROVE  Address[y] <= x
        <5>1. PICK j \in 1..N : y = Base(j)
          BY <1>1
        <5>2. ~(i < j)
          BY <1>1, <3>1
        <5>3. ~(Base(i) < Base(j))
          BY <1>4, <5>2
        <5>4. QED
          BY <1>2, <2>1, <5>1, <5>3
      <4>3. QED
        BY <4>1, <4>2 DEF After
    <3>2. CASE i # N
      <4>1. i + 1 \in 1..N /\ i < i + 1
        BY <1>1, <3>2
      <4>2. PICK n : n = Base(i + 1)
        OBVIOUS
      <4>3. n \in B /\ x < n /\ n \in Nat /\ Address[n] = n
        BY <1>1, <1>2, <1>3, <2>1, <4>1, <4>2
      <4>4. ASSUME NEW y \in B, Address[y] > x
            PROVE  n <= Address[y]
        <5>1. PICK j \in 1..N : y = Base(j)
          BY <1>1
        <5>2. Address[y] = y /\ y \in Nat
          BY <1>2, <5>1
        <5>3. i < j
          BY <1>4, <2>1, <2>3, <4>4, <5>1, <5>2
        <5>4. i + 1 = j \/ i + 1 < j
          BY <1>1, <5>3
        <5>5. Base(i + 1) = Base(j) \/ Base(i + 1) < Base(j)
          BY <1>3, <4>1, <5>4
        <5>6. QED
          BY <4>2, <4>3, <5>1, <5>2, <5>5
      <4>5. QED
        BY <4>2, <4>3, <4>4 DEF After
    <3>3. QED
      BY <3>1, <3>2
  <2>5. Before(B, Address, x, Base(i - 1))
    <3>1. CASE i = 1
      <4>1. Base(i - 1) = NULL
        BY <3>1 DEF Base
      <4>2. ASSUME NEW y \in B
            PROVE  Address[y] >= x
        <5>1. PICK j \in 1..N : y = Base(j)
          BY <1>1
        <5>2. ~(j < i)
          BY <1>1, <3>1
        <5>3. ~(Base(j) < Base(i))
          BY <1>4, <5>2
        <5>4. QED
          BY <1>2, <2>1, <5>1, <5>3
      <4>3. QED
        BY <4>1, <4>2 DEF Before
    <3>2. CASE i # 1
      <4>1. i - 1 \in 1..N /\ i - 1 < i
        BY <1>1, <3>2
      <4>2. PICK p : p = Base(i - 1)
        OBVIOUS
      <4>3. p \in B /\ p < x /\ p \in Nat /\ Address[p] = p
        BY <1>1, <1>2, <1>3, <2>1, <4>1, <4>2
      <4>4. ASSUME NEW y \in B, Address[y] < x
            PROVE  Address[y] <= p
        <5>1. PICK j \in 1..N : y = Base(j)
          BY <1>1
        <5>2. Address[y] = y /\ y \in Nat
          BY <1>2, <5>1
        <5>3. j < i
          BY <1>4, <2>1, <2>3, <4>4, <5>1, <5>2
        <5>4. j = i - 1 \/ j < i - 1
          BY <1>1, <5>3
        <5>5. Base(j) = Base(i - 1) \/ Base(j) < Base(i - 1)
          BY <1>3, <4>1, <5>4
        <5>6. QED
          BY <4>2, <4>3, <5>1, <5>2, <5>5
      <4>5. QED
        BY <4>2, <4>3, <4>4 DEF Before
    <3>3. QED
      BY <3>1, <3>2
  <2>6. QED
    BY <2>2, <2>3, <2>4, <2>5
<1>9. Ordered(h, B, free_blocks, Address)
  BY <1>6, <1>7, <1>8 DEF Ordered
<1>10. QED
  BY <1>5, <1>9

\* The units of the spaces add up to the units of the free blocks.
LEMMA InitExact ==
  ASSUME Init
  PROVE  Exact(header, Frees, free_size)
<1> PICK N, h : N = SpaceCount /\ h = header
  OBVIOUS
<1> DEFINE q == [i \in 1..SpaceCount |-> SpaceUnits(heap_spaces[i])]
           o == [i \in 1..SpaceCount |-> heap_spaces[i].heap_size % HEADER]
           f == [i \in 1..SpaceCount |-> heap_spaces[i].heap_size - HEADER]
           V(k) == UnitsOf(header, Bases(k))
<1>1. /\ N \in Nat /\ HeapEnd \in Nat /\ HEADER \in Nat /\ HEADER > 0
      /\ DOMAIN h = Bases(N) /\ Headers(h) /\ Frees = Bases(N)
      /\ \A i \in 1..N : Laid(h, i)
  BY SpaceFacts, AddressFacts, InitHeaders
<1>2. \A i \in 1..N : q[i] \in Nat /\ q[i] = SpaceUnits(heap_spaces[i])
  BY SpaceBlocks
<1>3. Total(f, N) = HEADER * Total(q, N) + Total(o, N)
  <2>1. ASSUME NEW i \in 1..N
        PROVE  q[i] \in Nat /\ o[i] \in Nat /\ f[i] = HEADER * q[i] + o[i]
    <3>1. PICK z : z = heap_spaces[i].heap_size
      OBVIOUS
    <3>2. z \in Nat
      BY <3>1, SpaceFacts
    <3>3. q[i] = z \div HEADER - 1 /\ o[i] = z % HEADER /\ f[i] = z - HEADER
      BY <3>1 DEF SpaceUnits
    <3>4. PICK d, m : d = z \div HEADER /\ m = z % HEADER
      OBVIOUS
    <3>5. d \in Nat /\ m \in Nat /\ z = HEADER * d + m
      BY <1>1, <3>2, <3>4
    <3>6. HEADER * (d - 1) = HEADER * d - HEADER
      BY <1>1, <3>5
    <3>7. q[i] = d - 1 /\ o[i] = m
      BY <3>3, <3>4
    <3>8. HEADER * q[i] = HEADER * d - HEADER
      BY <3>6, <3>7
    <3>9. PICK w \in Nat : w = HEADER * d
      BY <1>1, <3>5
    <3>10. f[i] = HEADER * q[i] + o[i]
      BY <1>1, <3>3, <3>5, <3>7, <3>8, <3>9
    <3>11. QED
      BY <1>2, <3>5, <3>7, <3>10
  <2> HIDE DEF q, o, f
  <2>2. QED
    BY <1>1, <2>1, TotalDivided
<1>4. Total(V(N), HeapEnd) = Total(q, N)
  <2>1. PICK t : /\ t[0] = 0 /\ Total(q, N) = t[N]
                 /\ \A i \in 1..N : t[i] = t[i - 1] + q[i]
    BY <1>1, TotalUnfold
  <2>2. ASSUME NEW k \in 0..N
        PROVE  Bases(k) \subseteq DOMAIN h
    <3>1. \A i \in 1..k : i \in 1..N
      BY <1>1
    <3>2. QED
      BY <1>1, <3>1 DEF Bases
  <2>3. \A k \in 0..N : \A i \in 1..HeapEnd :
          V(k)[i] \in Nat /\ V(k)[i] = IF i \in Bases(k) THEN h[i].size ELSE 0
    <3>1. ASSUME NEW k \in 0..N
          PROVE  \A i \in 1..HeapEnd :
                   V(k)[i] \in Nat /\ V(k)[i] = IF i \in Bases(k) THEN h[i].size ELSE 0
      BY <1>1, <2>2, UnitsNat
    <3>2. QED
      BY <3>1
  <2> DEFINE Bad == {k \in 0..N : Total(V(k), HeapEnd) # t[k]}
  <2>4. Bad = {}
    <3>1. SUFFICES ASSUME Bad # {} PROVE FALSE
      OBVIOUS
    <3>2. PICK k \in Bad : \A l \in Bad : k <= l
      <4>1. Bad \subseteq Nat
        BY <1>1
      <4>2. QED
        BY <3>1, <4>1, LeastNat
    <3>3. k \in 0..N /\ Total(V(k), HeapEnd) # t[k]
      BY <3>2
    <3>4. CASE k = 0
      <4>1. Bases(k) = {}
        BY <3>4 DEF Bases
      <4>2. \A i \in 1..HeapEnd : V(k)[i] = 0
        BY <2>3, <3>3, <4>1
      <4> HIDE DEF V
      <4>3. Total(V(k), HeapEnd) = 0
        BY <1>1, <4>2, TotalZero
      <4>4. QED
        BY <2>1, <3>3, <3>4, <4>3
    <3>5. CASE k # 0
      <4>1. k \in 1..N /\ k - 1 \in 0..N /\ k - 1 < k /\ k - 1 \notin Bad
        BY <1>1, <3>2, <3>3, <3>5
      <4>2. Total(V(k - 1), HeapEnd) = t[k - 1]
        BY <4>1
      <4>3. PICK b : b = Base(k)
        OBVIOUS
      <4>4. b \in 1..HeapEnd /\ b \in Bases(k) /\ Bases(k) = Bases(k - 1) \cup {b}
        <5>1. b \in Addresses
          BY <4>1, <4>3, SpaceBlocks
        <5>2. b \in 1..HeapEnd
          BY <1>1, <5>1 DEF Addresses
        <5>3. k \in 1..k /\ \A i \in 1..k : i \in 1..(k - 1) \/ i = k
          BY <4>1
        <5>4. \A i \in 1..(k - 1) : i \in 1..k
          BY <4>1
        <5>5. QED
          BY <4>3, <5>2, <5>3, <5>4 DEF Bases
      <4>5. b \notin Bases(k - 1)
        <5>1. ASSUME NEW i \in 1..(k - 1)
              PROVE  Base(i) # b
          <6>1. i \in 1..N /\ i < k
            BY <1>1, <4>1
          <6>2. Base(i) < b /\ b \in Nat
            BY <4>1, <4>3, <6>1, SpaceBlocks
          <6>3. QED
            BY <6>2
        <5>2. QED
          BY <5>1 DEF Bases
      <4>6. h[b].size = q[k]
        BY <1>1, <1>2, <4>1, <4>3 DEF Laid
      <4>7. PICK v, w : v = V(k - 1) /\ w = V(k)
        OBVIOUS
      <4>8. \A i \in 1..HeapEnd : v[i] \in Int
        BY <2>3, <4>1, <4>7
      <4>9. \A i \in 1..HeapEnd : w[i] \in Int /\ (i # b => w[i] = v[i])
        BY <2>3, <3>3, <4>1, <4>4, <4>7
      <4>10. Total(w, HeapEnd) = Total(v, HeapEnd) + (w[b] - v[b])
        BY <1>1, <4>4, <4>8, <4>9, TotalChange
      <4>11. w[b] = q[k] /\ v[b] = 0
        BY <2>3, <3>3, <4>1, <4>4, <4>5, <4>6, <4>7
      <4>12. q[k] \in Nat /\ t[k] = t[k - 1] + q[k]
        BY <1>2, <2>1, <4>1
      <4> HIDE DEF V
      <4>13. w[b] - v[b] = q[k]
        BY <4>11, <4>12
      <4>14. QED
        BY <3>3, <4>2, <4>7, <4>10, <4>12, <4>13
    <3>6. QED
      BY <3>4, <3>5
  <2>5. N \in 0..N
    BY <1>1
  <2>6. Total(V(N), HeapEnd) = t[N]
    BY <2>4, <2>5
  <2>7. QED
    BY <2>1, <2>6
<1>5. free_size = Total(f, N)
  BY DEF Init
<1>6. QED
  BY <1>1, <1>3, <1>4, <1>5 DEF Exact, LeftOver

LEMMA InitInv ==
  ASSUME Init
  PROVE  ListsInv
<1>1. DOMAIN live = {} /\ live = [a \in {} |-> 0] /\ used_blocks = NULL
  BY DEF Init
<1>2. FreeOK(header, Frees, free_blocks, free_size)
  BY InitHeaders, InitOrdered, InitExact DEF FreeOK
<1>3. UsedOK(header, DOMAIN live, used_blocks)
  <2>1. Ordered(header, {}, NULL, Address)
    BY DEF Ordered, Ranks, IsFirst
  <2>2. QED
    BY <1>1, <2>1 DEF UsedOK
<1>4. live \in [DOMAIN live -> Requests]
  BY <1>1
<1>5. Gaps(header, Frees)
  <2>1. ASSUME NEW a \in Frees, Touches(header, Frees, a)
        PROVE  \E i \in 1..SpaceCount : Base(i) = a + header[a].size + 1
    BY <2>1, InitHeaders DEF Touches, Bases
  <2>2. QED
    BY <2>1 DEF Gaps
<1>6. BlocksLargeEnough
  BY <1>1 DEF BlocksLargeEnough
<1>7. QED
  BY <1>2, <1>3, <1>4, <1>5, <1>6 DEF ListsInv

-----------------------------------------------------------------------------
(* The theorems.                                                           *)

LEMMA NextInv ==
  ASSUME ListsInv, [Next]_vars
  PROVE  ListsInv'
<1>1. ASSUME NEW bytes \in Requests, Alloc(bytes)
      PROVE  ListsInv'
  <2>1. PICK a : a = FirstMet(header, free_blocks, LargeEnough(bytes))
    OBVIOUS
  <2>2. AllocWhole(a, bytes) \/ AllocSplit(a, bytes)
    BY <1>1, <2>1 DEF Alloc
  <2>3. a \in Frees /\ header[a].size >= Units(bytes)
    BY <1>1, <2>1, AllocChoice DEF Alloc
  <2>4. QED
    BY <2>2, <2>3, AllocWholeInv, AllocSplitInv
<1>2. ASSUME NEW a \in DOMAIN live, Free(a)
      PROVE  ListsInv'
  BY <1>2, FreeIs, FreedIs
<1>3. ASSUME UNCHANGED vars
      PROVE  ListsInv'
  BY <1>3 DEF vars, ListsInv, BlocksLargeEnough, Frees
<1>4. QED
  BY <1>1, <1>2, <1>3 DEF Next

\* After any calls of Heap_Alloc and Heap_Free (heap.c:50-238) the free list
\* goes upwards by address, the used list holds what the callers hold, the
\* blocks do not overlap, free_size is exact and freed neighbours are one block.
THEOREM ListsHold ==
  Spec => []ListsInv
<1>1. Init => ListsInv
  BY InitInv
<1>2. ListsInv /\ [Next]_vars => ListsInv'
  BY NextInv
<1>3. QED
  BY <1>1, <1>2, PTL DEF Spec

\* Each block is in one of the two lists of heap.c (heap.c:50-238), the links
\* back are the inverse of the links forward, and the free list goes upwards.
THEOREM AlwaysWellFormed ==
  Spec => []ListsWellFormed
<1>1. ListsInv => ListsWellFormed
  <2> SUFFICES ASSUME ListsInv PROVE ListsWellFormed
    OBVIOUS
  <2> PICK F, U : F = Frees /\ U = DOMAIN live
    OBVIOUS
  <2>1. FreeList = F /\ UsedList = U
    BY ListsAre
  <2>2. /\ Headers(header) /\ Spaced(header) /\ F \subseteq DOMAIN header
        /\ Ordered(header, F, free_blocks, Address)
    BY DEF ListsInv, FreeOK
  <2>3. PICK r : Ordered(header, U, used_blocks, r) /\ U \subseteq DOMAIN header
    BY DEF ListsInv, UsedOK
  <2>4. F \cap U = {} /\ F \cup U = DOMAIN header
    BY <2>3 DEF Frees
  <2>5. F \subseteq Addresses /\ U \subseteq Addresses /\ NULL \notin Addresses
    BY <2>2, <2>3, AddressFacts DEF Headers
  <2>6. ASSUME NEW a \in DOMAIN header
        PROVE  /\ header[a].next # NULL => header[header[a].next].prev = a
               /\ header[a].prev # NULL => header[header[a].prev].next = a
               /\ header[a].prev = NULL => a \in {free_blocks, used_blocks}
    <3>1. CASE a \in F
      <4>1. LinksAgree(header, F, free_blocks, Address, a)
        BY <2>2, <2>5, <3>1, OrderedInverse
      <4>2. QED
        BY <4>1 DEF LinksAgree
    <3>2. CASE a \in U
      <4>1. LinksAgree(header, U, used_blocks, r, a)
        BY <2>3, <2>5, <3>2, OrderedInverse
      <4>2. QED
        BY <4>1 DEF LinksAgree
    <3>3. QED
      BY <2>4, <2>6, <3>1, <3>2
  <2>7. ASSUME NEW a \in F, header[a].next # NULL
        PROVE  /\ header[a].next # header[a].prev
               /\ header[a].next >= a + header[a].size + 1
    <3>1. PICK n, p : n = header[a].next /\ p = header[a].prev
      OBVIOUS
    <3>2. LinksAgree(header, F, free_blocks, Address, a)
      BY <2>2, <2>5, OrderedInverse
    <3>3. /\ n \in F /\ Address[a] < Address[n]
          /\ p = NULL \/ (p \in F /\ Address[p] < Address[a])
      BY <2>7, <3>1, <3>2 DEF LinksAgree
    <3>4. /\ a \in DOMAIN header /\ n \in DOMAIN header
          /\ a \in Nat /\ n \in Nat /\ header[a].size \in Nat
          /\ Address[a] = a /\ Address[n] = n /\ n # NULL
      BY <2>2, <3>3, HeaderFacts
    <3>5. a < n /\ a + header[a].size < n
      BY <2>2, <3>3, <3>4 DEF Spaced
    <3>6. p \in F => p \in Nat /\ Address[p] = p
      BY <2>2, HeaderFacts
    <3>7. n # p
      BY <3>3, <3>4, <3>5, <3>6
    <3>8. n >= a + header[a].size + 1
      BY <3>4, <3>5
    <3>9. QED
      BY <3>1, <3>7, <3>8
  <2>8. QED
    BY <2>1, <2>4, <2>6, <2>7 DEF ListsWellFormed
<1>2. QED
  BY <1>1, ListsHold, PTL

\* free_size is what could be handed out if every free block were handed out
\* whole, and the bytes that make no unit (heap.c:34, :81, :92, :126, :195).
THEOREM AlwaysExact ==
  Spec => []FreeSizeExact
<1>1. ListsInv => FreeSizeExact
  BY ListsAre DEF ListsInv, FreeOK, Exact, UnitsOf, LeftOver, FreeSizeExact
<1>2. QED
  BY <1>1, ListsHold, PTL

\* Two free blocks touch only where two spaces do (heap.c:121-140, :221-227).
THEOREM AlwaysCoalesced ==
  Spec => []Coalesced
<1>1. ListsInv => Coalesced
  BY ListsAre DEF ListsInv, Gaps, Touches, Coalesced
<1>2. QED
  BY <1>1, ListsHold, PTL

\* A block has room for what its caller asked for (heap.c:57-58, :115-119).
THEOREM AlwaysLargeEnough ==
  Spec => []BlocksLargeEnough
<1>1. ListsInv => BlocksLargeEnough
  BY DEF ListsInv
<1>2. QED
  BY <1>1, ListsHold, PTL

\* Headers, list heads, free_size and the sizes of the callers' blocks stay in
\* their ranges (heap.h).
THEOREM TypeCorrect ==
  Spec => []TypeOK
<1>1. ListsInv => TypeOK
  <2> SUFFICES ASSUME ListsInv PROVE TypeOK
    OBVIOUS
  <2> PICK F, U : F = Frees /\ U = DOMAIN live
    OBVIOUS
  <2>1. /\ Headers(header) /\ F \subseteq DOMAIN header
        /\ Ordered(header, F, free_blocks, Address) /\ Exact(header, F, free_size)
    BY DEF ListsInv, FreeOK
  <2>2. PICK r : Ordered(header, U, used_blocks, r) /\ U \subseteq DOMAIN header
    BY DEF ListsInv, UsedOK
  <2>3. {free_blocks, used_blocks} \subseteq DOMAIN header \cup {NULL}
    BY <2>1, <2>2 DEF Ordered, IsFirst
  <2>4. free_size \in Nat
    <3>1. PICK s, o : s = Total(UnitsOf(header, F), HeapEnd) /\ o = LeftOver
      OBVIOUS
    <3>2. s \in Nat
      <4>1. \A i \in 1..HeapEnd : UnitsOf(header, F)[i] \in Nat
        BY <2>1, UnitsNat
      <4>2. QED
        BY <3>1, <4>1, TotalNat, AddressFacts
    <3>3. o \in Nat /\ HEADER \in Nat
      BY <3>1, LeftOverNat, SpaceFacts
    <3>4. HEADER * s \in Nat
      BY <3>2, <3>3
    <3>5. QED
      BY <2>1, <3>1, <3>3, <3>4 DEF Exact
  <2>5. DOMAIN header \subseteq 1..(HeapEnd - 1) /\ \A a \in DOMAIN header : header[a] \in Header
    BY <2>1 DEF Headers, Addresses
  <2>6. live \in [DOMAIN live -> Requests]
    BY DEF ListsInv
  <2>7. QED
    BY <2>3, <2>4, <2>5, <2>6 DEF TypeOK, Header
<1>2. QED
  BY <1>1, ListsHold, PTL

-----------------------------------------------------------------------------
(* What the lists do to the blocks.                                        *)

At(a, s) == [addr |-> a, size |-> s]

BlocksIn(hdr, S) == {At(x, hdr[x].size) : x \in S}

LEMMA AtFacts ==
  /\ \A a, s : At(a, s).addr = a /\ At(a, s).size = s
  /\ \A a, s, b, t : At(a, s) = At(b, t) <=> a = b /\ s = t
<1>1. \A a, s : At(a, s).addr = a /\ At(a, s).size = s
  BY DEF At
<1>2. QED
  BY <1>1

LEMMA BlocksSame ==
  ASSUME NEW hdr, NEW k, NEW S, \A x \in S : k[x].size = hdr[x].size
  PROVE  BlocksIn(k, S) = BlocksIn(hdr, S)
BY DEF BlocksIn

LEMMA BlocksWith ==
  ASSUME NEW hdr, NEW S, NEW a
  PROVE  BlocksIn(hdr, S \cup {a}) = BlocksIn(hdr, S) \cup {At(a, hdr[a].size)}
BY DEF BlocksIn

LEMMA BlocksWithout ==
  ASSUME NEW hdr, NEW S, NEW a
  PROVE  BlocksIn(hdr, S \ {a}) = BlocksIn(hdr, S) \ {At(a, hdr[a].size)}
BY AtFacts DEF BlocksIn

\* Heap_Alloc takes the first block that is large enough.
LEMMA AllocBlocks ==
  ASSUME ListsInv, FreeList = Frees, UsedList = DOMAIN live,
         FreeList' = Frees', UsedList' = DOMAIN live',
         NEW bytes \in Requests, Alloc(bytes)
  PROVE  AsBlocks!Alloc(bytes)
<1> PICK h, k, F, U : /\ h = header /\ k = header'
                      /\ F = Frees /\ U = DOMAIN live
  OBVIOUS
<1>1. PICK f, u, g, v : /\ f = BlocksIn(h, F) /\ u = BlocksIn(h, U)
                        /\ g = BlocksIn(k, Frees') /\ v = BlocksIn(k, DOMAIN live')
  OBVIOUS
<1>2. /\ Blocks(FreeList) = f /\ Blocks(UsedList) = u
      /\ Blocks(FreeList)' = g /\ Blocks(UsedList)' = v
  BY <1>1 DEF Blocks, BlocksIn, At
<1>3. PICK n : n = Units(bytes) /\ n = AsBlocks!Units(bytes)
  BY DEF Units, AsBlocks!Units
<1>4. PICK a : a = FirstMet(header, free_blocks, LargeEnough(bytes))
  OBVIOUS
<1>5. /\ AllocWhole(a, bytes) \/ AllocSplit(a, bytes)
      /\ a \in F /\ h[a].size >= n
      /\ \A c \in F : h[c].size >= n => a <= c
  BY <1>3, <1>4, AllocChoice DEF Alloc
<1>6. /\ n \in Nat /\ h[a].size \in Nat /\ a \in Nat
      /\ F \subseteq DOMAIN h /\ U \subseteq DOMAIN h /\ F \cap U = {}
  <2>1. Headers(h) /\ F \subseteq DOMAIN h /\ U \subseteq DOMAIN h
    BY DEF ListsInv, FreeOK, UsedOK
  <2>2. h[a].size \in Nat /\ a \in Nat
    BY <1>5, <2>1, HeaderFacts
  <2>3. QED
    BY <1>3, <2>1, <2>2, UnitsFacts DEF Frees
<1>7. PICK b : b = At(a, h[a].size)
  OBVIOUS
<1>8. b.addr = a /\ b.size = h[a].size
  BY <1>7, AtFacts
<1>9. b \in f /\ b.size >= n /\ \A c \in f : c.size >= n => b.addr <= c.addr
  <2>1. b \in f
    BY <1>1, <1>5, <1>7 DEF BlocksIn
  <2>2. ASSUME NEW c \in f, c.size >= n
        PROVE  b.addr <= c.addr
    <3>1. PICK x \in F : c = At(x, h[x].size)
      BY <1>1 DEF BlocksIn
    <3>2. c.addr = x /\ c.size = h[x].size
      BY <3>1, AtFacts
    <3>3. QED
      BY <1>5, <1>8, <2>2, <3>2
  <2>3. QED
    BY <1>5, <1>8, <2>1, <2>2
<1>10. AsBlocks!FirstFit(b, n)
  BY <1>2, <1>9 DEF AsBlocks!FirstFit
<1>11. CASE AllocWhole(a, bytes)
  <2>1. /\ Frees' = F \ {a} /\ DOMAIN live' = U \cup {a}
        /\ \A x \in DOMAIN h : k[x].size = h[x].size
    BY <1>3, <1>5, <1>11, AllocWholeInv
  <2>2. g = f \ {b}
    <3>1. BlocksIn(k, F \ {a}) = BlocksIn(h, F \ {a})
      BY <1>6, <2>1, BlocksSame
    <3>2. BlocksIn(h, F \ {a}) = BlocksIn(h, F) \ {At(a, h[a].size)}
      BY BlocksWithout
    <3>3. QED
      BY <1>1, <1>7, <2>1, <3>1, <3>2
  <2>3. v = u \cup {b}
    <3>1. BlocksIn(k, U \cup {a}) = BlocksIn(h, U \cup {a})
      BY <1>5, <1>6, <2>1, BlocksSame
    <3>2. BlocksIn(h, U \cup {a}) = BlocksIn(h, U) \cup {At(a, h[a].size)}
      BY BlocksWith
    <3>3. QED
      BY <1>1, <1>7, <2>1, <3>1, <3>2
  <2>4. b.size - n <= 1
    BY <1>3, <1>8, <1>11 DEF AllocWhole
  <2>5. AsBlocks!AllocWhole(b, n)
    BY <1>2, <2>2, <2>3, <2>4 DEF AsBlocks!AllocWhole
  <2>6. QED
    BY <1>2, <1>3, <1>9, <1>10, <2>5 DEF AsBlocks!Alloc
<1>12. CASE AllocSplit(a, bytes)
  <2>1. PICK new : new = a + h[a].size - n
    OBVIOUS
  <2>2. /\ Frees' = F /\ DOMAIN live' = U \cup {new} /\ new \notin DOMAIN h
        /\ k[new].size = n /\ k[a].size = h[a].size - n - 1
        /\ \A x \in DOMAIN h \ {a} : k[x].size = h[x].size
    <3>1. a \in Frees /\ header[a].size >= Units(bytes)
      BY <1>3, <1>5
    <3>2. /\ Frees' = Frees /\ DOMAIN live' = DOMAIN live \cup {a + header[a].size - Units(bytes)}
          /\ a + header[a].size - Units(bytes) \notin DOMAIN header
          /\ header'[a + header[a].size - Units(bytes)].size = Units(bytes)
          /\ header'[a].size = header[a].size - Units(bytes) - 1
          /\ \A x \in DOMAIN header \ {a} : header'[x].size = header[x].size
      BY <1>12, <3>1, AllocSplitInv
    <3>3. QED
      BY <1>3, <2>1, <3>2
  <2>3. PICK low, high : low = At(a, b.size - n - 1) /\ high = At(b.addr + b.size - n, n)
    OBVIOUS
  <2>4. g = (f \ {b}) \cup {low}
    <3>1. BlocksIn(k, F \ {a}) = BlocksIn(h, F \ {a})
      BY <1>6, <2>2, BlocksSame
    <3>2. F = (F \ {a}) \cup {a}
      BY <1>5
    <3>3. BlocksIn(k, F) = BlocksIn(k, F \ {a}) \cup {At(a, k[a].size)}
      <4>1. BlocksIn(k, (F \ {a}) \cup {a}) = BlocksIn(k, F \ {a}) \cup {At(a, k[a].size)}
        BY BlocksWith
      <4>2. QED
        BY <3>2, <4>1
    <3>4. BlocksIn(h, F \ {a}) = f \ {b}
      <4>1. BlocksIn(h, F \ {a}) = BlocksIn(h, F) \ {At(a, h[a].size)}
        BY BlocksWithout
      <4>2. QED
        BY <1>1, <1>7, <4>1
    <3>5. At(a, k[a].size) = low
      BY <1>8, <2>2, <2>3
    <3>6. QED
      BY <1>1, <2>2, <3>1, <3>3, <3>4, <3>5
  <2>5. v = u \cup {high}
    <3>1. BlocksIn(k, U) = BlocksIn(h, U)
      BY <1>5, <1>6, <2>2, BlocksSame
    <3>2. BlocksIn(k, U \cup {new}) = BlocksIn(k, U) \cup {At(new, k[new].size)}
      BY BlocksWith
    <3>3. At(new, k[new].size) = high
      BY <1>8, <2>1, <2>2, <2>3
    <3>4. QED
      BY <1>1, <2>2, <3>1, <3>2, <3>3
  <2>6. b.size - n > 1
    BY <1>3, <1>8, <1>12 DEF AllocSplit
  <2>7. /\ low = [addr |-> b.addr, size |-> b.size - n - 1]
        /\ high = [addr |-> b.addr + b.size - n, size |-> n]
    BY <1>8, <2>3 DEF At
  <2>8. AsBlocks!AllocSplit(b, n)
    BY <1>2, <2>4, <2>5, <2>6, <2>7 DEF AsBlocks!AllocSplit
  <2>9. QED
    BY <1>2, <1>3, <1>9, <1>10, <2>8 DEF AsBlocks!Alloc
<1>13. QED
  BY <1>5, <1>11, <1>12

\* The blocks of F cover the same memory as lists and as blocks.
LEMMA CoveredBlocks ==
  ASSUME NEW hdr, NEW F
  PROVE  AsBlocks!Covered(BlocksIn(hdr, F)) = CoveredBy(hdr, F)
<1>1. \A a, s : AsBlocks!Extent(At(a, s)) = a..(a + s)
  BY AtFacts DEF AsBlocks!Extent
<1>2. ASSUME NEW z
      PROVE  z \in AsBlocks!Covered(BlocksIn(hdr, F)) <=> z \in CoveredBy(hdr, F)
  <2>1. z \in AsBlocks!Covered(BlocksIn(hdr, F)) <=>
          \E x \in F : z \in AsBlocks!Extent(At(x, hdr[x].size))
    BY DEF AsBlocks!Covered, BlocksIn
  <2>2. z \in CoveredBy(hdr, F) <=> \E x \in F : z \in x..(x + hdr[x].size)
    BY DEF CoveredBy
  <2>3. QED
    BY <1>1, <2>1, <2>2
<1>3. QED
  BY <1>2

\* What the block c has swallowed is what HeapBlocks calls a run.
LEMMA MergedBlocks ==
  ASSUME NEW hdr, Headers(hdr), NEW F, F \subseteq DOMAIN hdr, NEW c \in F,
         NEW k, Headers(k), Spaced(k), NEW G, G = Beyond(k, F, c),
         G \subseteq DOMAIN k, CoveredBy(k, G) = CoveredBy(hdr, F),
         ~Touches(k, G, c), \A x \in G \ {c} : k[x].size = hdr[x].size
  PROVE  BlocksIn(k, G) = AsBlocks!Merged(BlocksIn(hdr, F), c)
<1>1. \A x \in F : x \in Nat /\ hdr[x].size \in Nat
  BY HeaderFacts
<1>2. c \in G
  BY <1>1 DEF Beyond
<1>3. \A x \in G : x \in Nat /\ k[x].size \in Nat
  BY HeaderFacts
<1>4. PICK e, S, C : /\ e = c + k[c].size /\ S = BlocksIn(hdr, F)
                     /\ C = CoveredBy(k, G)
  OBVIOUS
<1>5. c \in Nat /\ e \in Nat /\ c <= e /\ e < HeapEnd /\ HeapEnd \in Nat /\ e \in c..HeapEnd
  BY <1>2, <1>3, <1>4, AddressFacts DEF Spaced
<1>6. \A z : z \in C <=> z \in Nat /\ \E x \in G : x <= z /\ z <= x + k[x].size
  BY <1>4, CoveredIs
<1>7. c..e \subseteq C
  <2>1. ASSUME NEW z \in c..e
        PROVE  z \in C
    BY <1>2, <1>4, <1>5, <1>6, <2>1
  <2>2. QED
    BY <2>1
<1>8. e + 1 \notin C
  <2>1. SUFFICES ASSUME e + 1 \in C PROVE FALSE
    OBVIOUS
  <2>2. PICK x \in G : x <= e + 1 /\ e + 1 <= x + k[x].size
    BY <1>6, <2>1
  <2>3. x \in Nat /\ k[x].size \in Nat /\ x \in DOMAIN k /\ c \in DOMAIN k
    BY <1>2, <1>3
  <2>4. CASE x = c
    BY <1>4, <1>5, <2>2, <2>4
  <2>5. CASE x < c
    <3>1. x + k[x].size < c
      BY <2>3, <2>5 DEF Spaced
    <3>2. QED
      BY <1>5, <2>2, <2>3, <3>1
  <2>6. CASE x > c
    <3>1. e < x
      BY <1>4, <1>5, <2>3, <2>6 DEF Spaced
    <3>2. x = e + 1
      BY <1>5, <2>2, <2>3, <3>1
    <3>3. Touches(k, G, c)
      BY <1>4, <3>2 DEF Touches
    <3>4. QED
      BY <3>3
  <2>7. QED
    BY <1>5, <2>3, <2>4, <2>5, <2>6
<1>9. AsBlocks!RunEnd(S, c) = e
  <2>1. AsBlocks!Covered(S) = C
    BY <1>4, CoveredBlocks
  <2> DEFINE Run(d) == c..d \subseteq C /\ d + 1 \notin C
  <2>2. Run(e)
    BY <1>7, <1>8
  <2>3. ASSUME NEW d \in c..HeapEnd, Run(d)
        PROVE  d = e
    <3>1. d \in Nat /\ d >= c
      BY <1>5
    <3>2. CASE d < e
      <4>1. d + 1 \in c..e
        BY <1>5, <3>1, <3>2
      <4>2. QED
        BY <1>7, <2>3, <4>1
    <3>3. CASE d > e
      <4>1. e + 1 \in c..d
        BY <1>5, <3>1, <3>3
      <4>2. QED
        BY <1>8, <2>3, <4>1
    <3>4. QED
      BY <1>5, <3>1, <3>2, <3>3
  <2>4. AsBlocks!RunEnd(S, c) = CHOOSE d \in c..HeapEnd : Run(d)
    BY <2>1 DEF AsBlocks!RunEnd
  <2> HIDE DEF Run
  <2>5. QED
    BY <1>5, <2>2, <2>3, <2>4
<1>10. AsBlocks!Merged(S, c) = {b \in S : b.addr \notin c..e} \cup {At(c, e - c)}
  BY <1>9 DEF AsBlocks!Merged, At
<1>11. At(c, e - c) = At(c, k[c].size)
  <2>1. e - c = k[c].size
    BY <1>2, <1>3, <1>4, <1>5
  <2>2. QED
    BY <2>1
<1>12. \A x \in F : x \notin c..e <=> x \in G \ {c}
  <2>1. ASSUME NEW x \in F
        PROVE  x \in c..e <=> x = c \/ x \in (c + 1)..e
    BY <1>1, <1>5
  <2>2. G = F \ ((c + 1)..e)
    BY <1>4 DEF Beyond
  <2>3. QED
    BY <2>1, <2>2
<1>13. {b \in S : b.addr \notin c..e} = BlocksIn(k, G \ {c})
  <2>1. G \subseteq F
    BY DEF Beyond
  <2>2. ASSUME NEW b \in S, b.addr \notin c..e
        PROVE  b \in BlocksIn(k, G \ {c})
    <3>1. PICK x \in F : b = At(x, hdr[x].size)
      BY <1>4 DEF BlocksIn
    <3>2. b.addr = x
      BY <3>1, AtFacts
    <3>3. x \in G \ {c}
      BY <1>12, <2>2, <3>2
    <3>4. b = At(x, k[x].size)
      BY <3>1, <3>3
    <3>5. QED
      BY <3>3, <3>4 DEF BlocksIn
  <2>3. ASSUME NEW b \in BlocksIn(k, G \ {c})
        PROVE  b \in S /\ b.addr \notin c..e
    <3>1. PICK x \in G \ {c} : b = At(x, k[x].size)
      BY <2>3 DEF BlocksIn
    <3>2. b.addr = x /\ x \in F
      BY <2>1, <3>1, AtFacts
    <3>3. b = At(x, hdr[x].size)
      BY <3>1
    <3>4. b \in S
      BY <1>4, <3>2, <3>3 DEF BlocksIn
    <3>5. QED
      BY <1>12, <3>1, <3>2, <3>4
  <2>4. QED
    BY <2>2, <2>3
<1>14. BlocksIn(k, G) = BlocksIn(k, G \ {c}) \cup {At(c, k[c].size)}
  <2>1. G = (G \ {c}) \cup {c}
    BY <1>2
  <2>2. BlocksIn(k, (G \ {c}) \cup {c}) = BlocksIn(k, G \ {c}) \cup {At(c, k[c].size)}
    BY BlocksWith
  <2>3. QED
    BY <2>1, <2>2
<1>15. QED
  BY <1>4, <1>10, <1>11, <1>13, <1>14

\* Heap_Free gives the block back and makes one block of what touches it.
LEMMA FreeBlocks ==
  ASSUME ListsInv, FreeList = Frees, UsedList = DOMAIN live,
         FreeList' = Frees', UsedList' = DOMAIN live',
         NEW a \in DOMAIN live, Free(a)
  PROVE  \E b \in Blocks(UsedList) : AsBlocks!Free(b)
<1> PICK h, k, F, U : /\ h = header /\ k = header'
                      /\ F = Frees /\ U = DOMAIN live
  OBVIOUS
<1>1. PICK f, u, g, v : /\ f = BlocksIn(h, F) /\ u = BlocksIn(h, U)
                        /\ g = BlocksIn(k, Frees') /\ v = BlocksIn(k, DOMAIN live')
  OBVIOUS
<1>2. /\ Blocks(FreeList) = f /\ Blocks(UsedList) = u
      /\ Blocks(FreeList)' = g /\ Blocks(UsedList)' = v
  BY <1>1 DEF Blocks, BlocksIn, At
<1>3. PICK hi, head, c, hj :
        /\ FreedInto(a, hi, head, c, hj)
        /\ UsedOK(hi.header, U \ {a}, used_blocks')
        /\ header' = hj.header /\ free_size' = hj.free_size
        /\ free_blocks' = head /\ live' = Without(live, a)
  BY FreeIs
<1>4. PICK G : G = Beyond(k, F \cup {a}, c)
  OBVIOUS
<1>5. /\ Frees' = G /\ DOMAIN live' = U \ {a}
      /\ \A x \in DOMAIN k \ {c} : k[x].size = h[x].size
  BY <1>3, <1>4, FreedIs
<1>6. /\ FreeOK(hi.header, F \cup {a}, head, hi.free_size)
      /\ DOMAIN hi.header = DOMAIN h
      /\ \A x \in DOMAIN h : hi.header[x].size = h[x].size
      /\ Absorbed(hi, F \cup {a}, head, c, hj)
      /\ ~Touches(k, G, c)
      /\ c \in F \cup {a}
      /\ c # a => c + h[c].size + 1 = a
      /\ c = a => \A x \in F : x + h[x].size + 1 # a
  BY <1>3, <1>4 DEF FreedInto
<1>7. /\ FreeOK(k, G, head, hj.free_size)
      /\ CoveredBy(k, G) = CoveredBy(hi.header, F \cup {a})
      /\ DOMAIN k = DOMAIN hi.header \ ((F \cup {a}) \ G)
  BY <1>3, <1>4, <1>6 DEF Absorbed
<1>8. /\ Headers(h) /\ F \subseteq DOMAIN h /\ U \subseteq DOMAIN h
      /\ F \cap U = {} /\ F \cup U = DOMAIN h /\ F \cup {a} \subseteq DOMAIN h
  BY DEF ListsInv, FreeOK, UsedOK, Frees
<1>9. Headers(k) /\ Spaced(k) /\ G \subseteq DOMAIN k
  BY <1>7 DEF FreeOK
<1>10. CoveredBy(k, G) = CoveredBy(h, F \cup {a})
  <2>1. \A x \in F \cup {a} : hi.header[x].size = h[x].size
    BY <1>6, <1>8
  <2>2. CoveredBy(hi.header, F \cup {a}) = CoveredBy(h, F \cup {a})
    BY <2>1 DEF CoveredBy
  <2>3. QED
    BY <1>7, <2>2
<1>11. g = AsBlocks!Merged(BlocksIn(h, F \cup {a}), c)
  <2>1. \A x \in G \ {c} : k[x].size = h[x].size
    BY <1>5, <1>9
  <2>2. BlocksIn(k, G) = AsBlocks!Merged(BlocksIn(h, F \cup {a}), c)
    <3>1. PICK S : S = F \cup {a}
      OBVIOUS
    <3>2. /\ S \subseteq DOMAIN h /\ c \in S /\ G = Beyond(k, S, c)
          /\ CoveredBy(k, G) = CoveredBy(h, S) /\ ~Touches(k, G, c)
      BY <1>4, <1>6, <1>8, <1>10, <3>1
    <3>3. BlocksIn(k, G) = AsBlocks!Merged(BlocksIn(h, S), c)
      BY <1>8, <1>9, <2>1, <3>2, MergedBlocks
    <3>4. QED
      BY <3>1, <3>3
  <2>3. QED
    BY <1>1, <1>5, <2>2
<1>12. PICK b : b = At(a, h[a].size)
  OBVIOUS
<1>13. b \in u /\ b.addr = a
  BY <1>1, <1>12, AtFacts DEF BlocksIn
<1>14. g = AsBlocks!Merged(f \cup {b}, c)
  <2>1. BlocksIn(h, F \cup {a}) = BlocksIn(h, F) \cup {At(a, h[a].size)}
    BY BlocksWith
  <2>2. QED
    BY <1>1, <1>11, <1>12, <2>1
<1>15. v = u \ {b}
  <2>1. c \notin U \ {a} /\ \A x \in U \ {a} : x \in DOMAIN k
    BY <1>6, <1>7, <1>8
  <2>2. \A x \in U \ {a} : k[x].size = h[x].size
    BY <1>5, <2>1
  <2>3. BlocksIn(k, U \ {a}) = BlocksIn(h, U \ {a})
    BY <2>2, BlocksSame
  <2>4. BlocksIn(h, U \ {a}) = BlocksIn(h, U) \ {At(a, h[a].size)}
    BY BlocksWithout
  <2>5. QED
    BY <1>1, <1>5, <1>12, <2>3, <2>4
<1>16. CASE c # a
  <2>1. PICK d : d = At(c, h[c].size)
    OBVIOUS
  <2>2. d \in f /\ d.addr = c /\ d.size = h[c].size
    BY <1>1, <1>6, <1>16, <2>1, AtFacts DEF BlocksIn
  <2>3. AsBlocks!EndsAt(d, b.addr)
    BY <1>6, <1>13, <1>16, <2>2 DEF AsBlocks!EndsAt
  <2>4. AsBlocks!Free(b)
    BY <1>2, <1>14, <1>15, <2>2, <2>3 DEF AsBlocks!Free
  <2>5. QED
    BY <1>2, <1>13, <2>4
<1>17. CASE c = a
  <2>1. ASSUME NEW d \in f
        PROVE  ~AsBlocks!EndsAt(d, b.addr)
    <3>1. PICK x \in F : d = At(x, h[x].size)
      BY <1>1 DEF BlocksIn
    <3>2. d.addr = x /\ d.size = h[x].size
      BY <3>1, AtFacts
    <3>3. QED
      BY <1>6, <1>13, <1>17, <3>2 DEF AsBlocks!EndsAt
  <2>2. AsBlocks!Free(b)
    BY <1>2, <1>13, <1>14, <1>15, <1>17, <2>1 DEF AsBlocks!Free
  <2>3. QED
    BY <1>2, <1>13, <2>2
<1>18. QED
  BY <1>16, <1>17

\* Heap_Alloc and Heap_Free with their lists (heap.c:50-238) do to the blocks
\* what HeapBlocks says.  That no memory is lost and no two blocks overlap is
\* shown of HeapBlocks, below.
THEOREM HeapBlocksImplemented ==
  Spec => ImplementsHeapBlocks
<1> DEFINE Agree == FreeList = Frees /\ UsedList = DOMAIN live
<1>1. ListsInv => Agree
  BY ListsAre
<1>2. Spec => []ListsInv
  BY ListsHold
<1>3. Init => AsBlocks!Init
  <2> SUFFICES ASSUME Init PROVE AsBlocks!Init
    OBVIOUS
  <2>1. FreeList = Frees /\ UsedList = {}
    BY InitInv, ListsAre DEF Init
  <2>2. Blocks(UsedList) = {}
    BY <2>1 DEF Blocks
  <2>3. Blocks(FreeList) = {At(x, header[x].size) : x \in Frees}
    BY <2>1 DEF Blocks, At
  <2>4. ASSUME NEW i \in 1..SpaceCount
        PROVE  /\ Base(i) \in Frees
               /\ At(Base(i), header[Base(i)].size) =
                    [addr |-> heap_spaces[i].heap_base,
                     size |-> AsBlocks!SpaceUnits(heap_spaces[i])]
    <3>1. Base(i) \in Frees
      BY InitHeaders DEF Bases
    <3>2. header[Base(i)].size = SpaceUnits(heap_spaces[i])
      BY InitHeaders DEF Laid
    <3>3. Base(i) = heap_spaces[i].heap_base
      BY SpaceBlocks
    <3>4. QED
      BY <3>1, <3>2, <3>3 DEF At, SpaceUnits, AsBlocks!SpaceUnits
  <2>5. \A x \in Frees : \E i \in 1..SpaceCount : x = Base(i)
    BY InitHeaders DEF Bases
  <2>6. AsBlocks!Spaces =
          {[addr |-> heap_spaces[i].heap_base,
            size |-> AsBlocks!SpaceUnits(heap_spaces[i])] : i \in 1..SpaceCount}
    BY DEF AsBlocks!Spaces, AsBlocks!SpaceCount, SpaceCount
  <2>7. {At(x, header[x].size) : x \in Frees} = AsBlocks!Spaces
    BY <2>4, <2>5, <2>6
  <2>8. QED
    BY <2>2, <2>3, <2>7 DEF AsBlocks!Init
<1>4. ListsInv /\ Agree /\ Agree' /\ [Next]_vars => [AsBlocks!Next]_(AsBlocks!vars)
  <2> SUFFICES ASSUME ListsInv, Agree, Agree', [Next]_vars
               PROVE  [AsBlocks!Next]_(AsBlocks!vars)
    OBVIOUS
  <2>1. ASSUME NEW bytes \in Requests, Alloc(bytes)
        PROVE  AsBlocks!Next
    <3>1. AsBlocks!Alloc(bytes)
      BY <2>1, AllocBlocks
    <3>2. QED
      BY <3>1 DEF AsBlocks!Next
  <2>2. ASSUME NEW a \in DOMAIN live, Free(a)
        PROVE  AsBlocks!Next
    <3>1. \E b \in Blocks(UsedList) : AsBlocks!Free(b)
      BY <2>2, FreeBlocks
    <3>2. QED
      BY <3>1 DEF AsBlocks!Next
  <2>3. CASE UNCHANGED vars
    <3>1. FreeList' = FreeList /\ UsedList' = UsedList /\ header' = header
      BY <2>3 DEF vars, FreeList, UsedList
    <3>2. UNCHANGED AsBlocks!vars
      BY <3>1 DEF AsBlocks!vars, Blocks
    <3>3. QED
      BY <3>2
  <2>4. QED
    BY <2>1, <2>2, <2>3 DEF Next
<1>5. QED
  BY <1>1, <1>2, <1>3, <1>4, PTL DEF Spec, ImplementsHeapBlocks, AsBlocks!Spec

-----------------------------------------------------------------------------
(* The blocks do not overlap, and they are all of the heap.                *)

\* A set of blocks of the heap that do not overlap.
Apart(S) ==
  /\ S \subseteq AsBlocks!Block
  /\ \A b \in S : b.addr + b.size < HeapEnd
  /\ AsBlocks!Disjoint(S)

\* Two such sets that together are the heap: NoOverlap and NoLeak in the form
\* that a step preserves.
Parts(f, u) ==
  /\ Apart(f)
  /\ Apart(u)
  /\ AsBlocks!Covered(f) \cap AsBlocks!Covered(u) = {}
  /\ AsBlocks!Covered(f) \cup AsBlocks!Covered(u) = AsBlocks!Covered(AsBlocks!Spaces)


LEMMA BlockFacts ==
  ASSUME NEW S, Apart(S), NEW b \in S
  PROVE  /\ b.addr \in Nat /\ b.size \in Nat /\ b.addr > 0
         /\ b.addr + b.size < HeapEnd
         /\ b.addr \in AsBlocks!Extent(b)
         /\ AsBlocks!Extent(b) \subseteq AsBlocks!Covered(S)
         /\ b = [addr |-> b.addr, size |-> b.size]
<1>1. b.addr \in 1..HeapEnd /\ b.size \in 0..HeapEnd
      /\ b = [addr |-> b.addr, size |-> b.size]
  BY DEF Apart, AsBlocks!Block
<1>2. b.addr + b.size < HeapEnd
  BY DEF Apart
<1>3. AsBlocks!Extent(b) \subseteq AsBlocks!Covered(S)
  BY DEF AsBlocks!Covered
<1>4. QED
  BY <1>1, <1>2, <1>3, HeapAssumption DEF AsBlocks!Extent

\* Taking blocks away.
LEMMA ApartSubset ==
  ASSUME NEW S, Apart(S), NEW T, T \subseteq S
  PROVE  Apart(T) /\ AsBlocks!Covered(T) \subseteq AsBlocks!Covered(S)
BY DEF Apart, AsBlocks!Disjoint, AsBlocks!Covered

LEMMA CoveredWithout ==
  ASSUME NEW S, Apart(S), NEW b \in S
  PROVE  /\ AsBlocks!Covered(S \ {b}) \cap AsBlocks!Extent(b) = {}
         /\ AsBlocks!Covered(S) = AsBlocks!Covered(S \ {b}) \cup AsBlocks!Extent(b)
BY DEF Apart, AsBlocks!Disjoint, AsBlocks!Covered

\* Putting a block in where nothing is.
LEMMA ApartAdd ==
  ASSUME NEW S, Apart(S), NEW b \in AsBlocks!Block, b.addr + b.size < HeapEnd,
         AsBlocks!Covered(S) \cap AsBlocks!Extent(b) = {}
  PROVE  /\ Apart(S \cup {b})
         /\ AsBlocks!Covered(S \cup {b}) = AsBlocks!Covered(S) \cup AsBlocks!Extent(b)
BY DEF Apart, AsBlocks!Disjoint, AsBlocks!Covered

\* The two parts of a block make up the block.
LEMMA SplitExtent ==
  ASSUME NEW S, Apart(S), NEW b \in S, NEW n \in Nat, b.size - n > 1
  PROVE  LET low == [addr |-> b.addr, size |-> b.size - n - 1]
             high == [addr |-> b.addr + b.size - n, size |-> n]
         IN /\ low \in AsBlocks!Block /\ low.addr + low.size < HeapEnd
            /\ high \in AsBlocks!Block /\ high.addr + high.size < HeapEnd
            /\ AsBlocks!Extent(low) \cap AsBlocks!Extent(high) = {}
            /\ AsBlocks!Extent(low) \cup AsBlocks!Extent(high) = AsBlocks!Extent(b)
<1> DEFINE low == [addr |-> b.addr, size |-> b.size - n - 1]
           high == [addr |-> b.addr + b.size - n, size |-> n]
<1>1. /\ b.addr \in Nat /\ b.size \in Nat /\ b.addr > 0
      /\ b.addr + b.size < HeapEnd
  BY BlockFacts
<1>2. /\ AsBlocks!Extent(b) = b.addr..(b.addr + b.size)
      /\ AsBlocks!Extent(low) = b.addr..(b.addr + (b.size - n - 1))
      /\ AsBlocks!Extent(high) = (b.addr + b.size - n)..(b.addr + b.size - n + n)
  BY DEF AsBlocks!Extent
<1>3. low \in AsBlocks!Block /\ low.addr + low.size < HeapEnd
  BY <1>1, HeapAssumption, SMTT(30) DEF AsBlocks!Block
<1>4. high \in AsBlocks!Block /\ high.addr + high.size < HeapEnd
  BY <1>1, HeapAssumption, SMTT(30) DEF AsBlocks!Block
<1> HIDE DEF low, high
<1>5. AsBlocks!Extent(low) \cap AsBlocks!Extent(high) = {}
  BY <1>1, <1>2, SMTT(30)
<1>6. AsBlocks!Extent(low) \cup AsBlocks!Extent(high) = AsBlocks!Extent(b)
  BY <1>1, <1>2, SMTT(30)
<1>7. QED
  BY <1>3, <1>4, <1>5, <1>6 DEF low, high

\* The run from a block has an end: no block reaches HeapEnd.
LEMMA RunEndExists ==
  ASSUME NEW S, Apart(S), NEW d \in S
  PROVE  /\ AsBlocks!RunEnd(S, d.addr) \in d.addr..HeapEnd
         /\ d.addr..AsBlocks!RunEnd(S, d.addr) \subseteq AsBlocks!Covered(S)
         /\ AsBlocks!RunEnd(S, d.addr) + 1 \notin AsBlocks!Covered(S)
<1> DEFINE a == d.addr
           Holes == {x \in a..HeapEnd : x \notin AsBlocks!Covered(S)}
<1>1. a \in Nat /\ a \in AsBlocks!Covered(S) /\ a < HeapEnd
  <2>1. /\ d.addr \in Nat /\ d.size \in Nat /\ d.addr + d.size < HeapEnd
        /\ d.addr \in AsBlocks!Extent(d) /\ AsBlocks!Extent(d) \subseteq AsBlocks!Covered(S)
    BY BlockFacts
  <2>2. QED
    BY <2>1, HeapAssumption
<1>2. HeapEnd \in Nat
  BY HeapAssumption
<1>3. HeapEnd \notin AsBlocks!Covered(S)
  <2>1. SUFFICES ASSUME NEW c \in S, HeapEnd \in AsBlocks!Extent(c) PROVE FALSE
    BY DEF AsBlocks!Covered
  <2>2. QED
    BY <2>1, BlockFacts DEF AsBlocks!Extent
<1> HIDE DEF a
<1>4. PICK x \in Holes : \A y \in Holes : x <= y
  <2>1. HeapEnd \in Holes /\ Holes \subseteq Nat
    BY <1>1, <1>2, <1>3
  <2>2. QED
    BY <2>1, LeastNat
<1>5. /\ x - 1 \in a..HeapEnd
      /\ a..(x - 1) \subseteq AsBlocks!Covered(S)
      /\ x - 1 + 1 \notin AsBlocks!Covered(S)
  BY <1>1, <1>2, <1>4
<1>6. /\ AsBlocks!RunEnd(S, a) \in a..HeapEnd
      /\ a..AsBlocks!RunEnd(S, a) \subseteq AsBlocks!Covered(S)
      /\ AsBlocks!RunEnd(S, a) + 1 \notin AsBlocks!Covered(S)
  BY <1>5 DEF AsBlocks!RunEnd
<1>7. QED
  BY <1>6 DEF a

\* Making a run of blocks into one changes no unit of memory.
LEMMA MergedFacts ==
  ASSUME NEW S, Apart(S), NEW d \in S
  PROVE  Apart(AsBlocks!Merged(S, d.addr)) /\ AsBlocks!Covered(AsBlocks!Merged(S, d.addr)) = AsBlocks!Covered(S)
<1> DEFINE a == d.addr
           e == AsBlocks!RunEnd(S, a)
           run == [addr |-> a, size |-> e - a]
           rest == {c \in S : c.addr \notin a..e}
<1>1. /\ a \in Nat /\ a > 0 /\ a \in AsBlocks!Extent(d)
      /\ HeapEnd \in Nat
  BY BlockFacts, HeapAssumption
<1>2. e \in a..HeapEnd /\ a..e \subseteq AsBlocks!Covered(S) /\ e + 1 \notin AsBlocks!Covered(S)
  BY RunEndExists
<1>3. e < HeapEnd
  <2>1. e \in AsBlocks!Covered(S)
    BY <1>1, <1>2
  <2>2. PICK c \in S : e \in AsBlocks!Extent(c)
    BY <2>1 DEF AsBlocks!Covered
  <2>3. QED
    BY <2>2, BlockFacts, <1>1 DEF AsBlocks!Extent
<1> HIDE DEF a, e
<1>4. ASSUME NEW c \in S, c.addr \in a..e
      PROVE  AsBlocks!Extent(c) \subseteq a..e
  <2>1. c.addr \in Nat /\ c.size \in Nat /\ AsBlocks!Extent(c) \subseteq AsBlocks!Covered(S)
    BY BlockFacts
  <2>2. e + 1 \notin AsBlocks!Extent(c)
    BY <1>2, <2>1
  <2>3. QED
    BY <1>1, <1>2, <1>4, <2>1, <2>2 DEF AsBlocks!Extent
<1>5. ASSUME NEW c \in rest
      PROVE  AsBlocks!Extent(c) \cap (a..e) = {}
  <2>1. c \in S /\ c.addr \in Nat /\ c.size \in Nat
    BY BlockFacts
  <2>2. CASE c.addr > e
    BY <1>1, <1>2, <2>1, <2>2 DEF AsBlocks!Extent
  <2>3. CASE c.addr < a
    <3>1. c # d
      BY <2>3, <1>1 DEF a
    <3>2. a \notin AsBlocks!Extent(c)
      BY <1>1, <2>1, <3>1 DEF Apart, AsBlocks!Disjoint
    <3>3. QED
      BY <1>1, <1>2, <2>1, <2>3, <3>2 DEF AsBlocks!Extent
  <2>4. QED
    BY <1>1, <1>2, <2>1, <2>2, <2>3
<1>6. run \in AsBlocks!Block /\ run.addr + run.size < HeapEnd /\ AsBlocks!Extent(run) = a..e
  <2>1. a + (e - a) = e
    BY <1>1, <1>2
  <2>2. QED
    BY <1>1, <1>2, <1>3, <2>1 DEF AsBlocks!Block, AsBlocks!Extent
<1> HIDE DEF run
<1>7. Apart(rest) /\ AsBlocks!Covered(rest) \subseteq AsBlocks!Covered(S)
  BY ApartSubset
<1>8. AsBlocks!Covered(rest) \cap AsBlocks!Extent(run) = {}
  BY <1>5, <1>6 DEF AsBlocks!Covered
<1>9. Apart(rest \cup {run}) /\ AsBlocks!Covered(rest \cup {run}) = AsBlocks!Covered(rest) \cup AsBlocks!Extent(run)
  BY <1>6, <1>7, <1>8, ApartAdd
<1>10. AsBlocks!Covered(rest) \cup AsBlocks!Extent(run) = AsBlocks!Covered(S)
  <2>1. AsBlocks!Covered(S) \subseteq AsBlocks!Covered(rest) \cup (a..e)
    BY <1>4 DEF AsBlocks!Covered
  <2>2. QED
    BY <1>2, <1>6, <1>7, <2>1
<1>11. AsBlocks!Merged(S, a) = rest \cup {run}
  BY DEF AsBlocks!Merged, run, e
<1>12. QED
  BY <1>9, <1>10, <1>11 DEF a

LEMMA WholeParts ==
  ASSUME NEW f, NEW u, Parts(f, u), NEW b \in f
  PROVE  Parts(f \ {b}, u \cup {b})
<1>1. /\ Apart(f \ {b})
      /\ AsBlocks!Covered(f \ {b}) \cap AsBlocks!Extent(b) = {}
      /\ AsBlocks!Covered(f) = AsBlocks!Covered(f \ {b}) \cup AsBlocks!Extent(b)
  BY ApartSubset, CoveredWithout DEF Parts
<1>2. b \in AsBlocks!Block /\ b.addr + b.size < HeapEnd
  BY DEF Parts, Apart
<1>3. AsBlocks!Covered(u) \cap AsBlocks!Extent(b) = {}
  BY <1>1 DEF Parts
<1>4. /\ Apart(u \cup {b})
      /\ AsBlocks!Covered(u \cup {b}) = AsBlocks!Covered(u) \cup AsBlocks!Extent(b)
  BY <1>2, <1>3, ApartAdd DEF Parts
<1>5. QED
  BY <1>1, <1>3, <1>4 DEF Parts

LEMMA SplitParts ==
  ASSUME NEW f, NEW u, Parts(f, u), NEW b \in f, NEW n \in Nat, b.size - n > 1
  PROVE  Parts((f \ {b}) \cup {[addr |-> b.addr, size |-> b.size - n - 1]},
               u \cup {[addr |-> b.addr + b.size - n, size |-> n]})
<1> DEFINE low == [addr |-> b.addr, size |-> b.size - n - 1]
           high == [addr |-> b.addr + b.size - n, size |-> n]
           rest == f \ {b}
<1>1. /\ Apart(rest)
      /\ AsBlocks!Covered(rest) \cap AsBlocks!Extent(b) = {}
      /\ AsBlocks!Covered(f) = AsBlocks!Covered(rest) \cup AsBlocks!Extent(b)
  BY ApartSubset, CoveredWithout DEF Parts
<1>2. /\ low \in AsBlocks!Block /\ low.addr + low.size < HeapEnd
      /\ high \in AsBlocks!Block /\ high.addr + high.size < HeapEnd
      /\ AsBlocks!Extent(low) \cap AsBlocks!Extent(high) = {}
      /\ AsBlocks!Extent(low) \cup AsBlocks!Extent(high) = AsBlocks!Extent(b)
  BY SplitExtent DEF Parts
<1> HIDE DEF low, high, rest
<1>3. AsBlocks!Covered(rest) \cap AsBlocks!Extent(low) = {}
      /\ AsBlocks!Covered(u) \cap AsBlocks!Extent(high) = {}
  BY <1>1, <1>2 DEF Parts
<1>4. /\ Apart(rest \cup {low})
      /\ AsBlocks!Covered(rest \cup {low}) = AsBlocks!Covered(rest) \cup AsBlocks!Extent(low)
  BY <1>1, <1>2, <1>3, ApartAdd
<1>5. /\ Apart(u \cup {high})
      /\ AsBlocks!Covered(u \cup {high}) = AsBlocks!Covered(u) \cup AsBlocks!Extent(high)
  BY <1>2, <1>3, ApartAdd DEF Parts
<1>6. Parts(rest \cup {low}, u \cup {high})
  BY <1>1, <1>2, <1>3, <1>4, <1>5 DEF Parts
<1>7. QED
  BY <1>6 DEF low, high, rest

LEMMA FreeParts ==
  ASSUME NEW f, NEW u, Parts(f, u), NEW b \in u, NEW d \in f \cup {b}
  PROVE  Parts(AsBlocks!Merged(f \cup {b}, d.addr), u \ {b})
<1>1. /\ Apart(u \ {b})
      /\ AsBlocks!Covered(u \ {b}) \cap AsBlocks!Extent(b) = {}
      /\ AsBlocks!Covered(u) = AsBlocks!Covered(u \ {b}) \cup AsBlocks!Extent(b)
  BY ApartSubset, CoveredWithout DEF Parts
<1>2. b \in AsBlocks!Block /\ b.addr + b.size < HeapEnd
      /\ AsBlocks!Covered(f) \cap AsBlocks!Extent(b) = {}
  BY <1>1 DEF Parts, Apart
<1>3. /\ Apart(f \cup {b})
      /\ AsBlocks!Covered(f \cup {b}) = AsBlocks!Covered(f) \cup AsBlocks!Extent(b)
  BY <1>2, ApartAdd DEF Parts
<1>4. /\ Apart(AsBlocks!Merged(f \cup {b}, d.addr))
      /\ AsBlocks!Covered(AsBlocks!Merged(f \cup {b}, d.addr)) = AsBlocks!Covered(f \cup {b})
  BY <1>3, MergedFacts
<1>5. QED
  BY <1>1, <1>2, <1>3, <1>4 DEF Parts

LEMMA PartsApart ==
  ASSUME NEW f, NEW u, Parts(f, u)
  PROVE  /\ f \cap u = {} /\ AsBlocks!Disjoint(f \cup u)
         /\ AsBlocks!Covered(f \cup u) = AsBlocks!Covered(AsBlocks!Spaces)
<1>1. ASSUME NEW b \in f, NEW c \in u
      PROVE  AsBlocks!Extent(b) \cap AsBlocks!Extent(c) = {} /\ b # c
  <2>1. AsBlocks!Extent(b) \subseteq AsBlocks!Covered(f)
        /\ AsBlocks!Extent(c) \subseteq AsBlocks!Covered(u)
        /\ b.addr \in AsBlocks!Extent(b)
    BY BlockFacts DEF Parts
  <2>2. QED
    BY <2>1 DEF Parts
<1>2. AsBlocks!Disjoint(f \cup u)
  BY <1>1 DEF Parts, Apart, AsBlocks!Disjoint
<1>3. AsBlocks!Covered(f \cup u) = AsBlocks!Covered(AsBlocks!Spaces)
  BY DEF Parts, AsBlocks!Covered
<1>4. QED
  BY <1>1, <1>2, <1>3

\* The blocks are the heap, and stay it.
BlocksInv == Parts(Blocks(FreeList), Blocks(UsedList))

LEMMA BlocksStart == AsBlocks!Init => BlocksInv
<1>1. /\ AsBlocks!Spaces \subseteq AsBlocks!Block
      /\ \A b \in AsBlocks!Spaces : b.addr + b.size < HeapEnd
      /\ AsBlocks!Disjoint(AsBlocks!Spaces)
  <2>1. AsBlocks!Spaces = Spaces
    BY DEF AsBlocks!Spaces, Spaces, AsBlocks!SpaceCount, SpaceCount, AsBlocks!SpaceUnits, SpaceUnits
  <2>2. AsBlocks!Block = Block
    BY DEF AsBlocks!Block, Block
  <2>3. AsBlocks!Disjoint(Spaces)
    BY HeapAssumption DEF AsBlocks!Disjoint, Disjoint, AsBlocks!Extent, Extent
  <2>4. QED
    BY <2>1, <2>2, <2>3, HeapAssumption
<1>2. Apart(AsBlocks!Spaces) /\ Apart({}) /\ AsBlocks!Covered({}) = {}
  BY <1>1 DEF Apart, AsBlocks!Disjoint, AsBlocks!Covered
<1>3. Parts(AsBlocks!Spaces, {})
  BY <1>2 DEF Parts
<1>4. QED
  BY <1>3 DEF AsBlocks!Init, BlocksInv

LEMMA BlocksStep == BlocksInv /\ [AsBlocks!Next]_(AsBlocks!vars) => BlocksInv'
<1> SUFFICES ASSUME BlocksInv, [AsBlocks!Next]_(AsBlocks!vars) PROVE BlocksInv'
  OBVIOUS
<1>1. PICK f, u, g, v : /\ f = Blocks(FreeList) /\ u = Blocks(UsedList)
                        /\ g = Blocks(FreeList)' /\ v = Blocks(UsedList)'
  OBVIOUS
<1>2. Parts(f, u)
  BY <1>1 DEF BlocksInv
<1>3. ASSUME NEW bytes \in Requests, AsBlocks!Alloc(bytes)
      PROVE  Parts(g, v)
  <2>1. AsBlocks!Units(bytes) \in Nat
    BY UnitsFacts DEF Units, AsBlocks!Units
  <2>2. PICK n \in Nat : n = AsBlocks!Units(bytes)
    BY <2>1
  <2>3. PICK b \in f : AsBlocks!AllocWhole(b, n) \/ AsBlocks!AllocSplit(b, n)
    BY <1>1, <1>3, <2>2 DEF AsBlocks!Alloc
  <2>4. CASE AsBlocks!AllocWhole(b, n)
    <3>1. g = f \ {b} /\ v = u \cup {b}
      BY <1>1, <2>4 DEF AsBlocks!AllocWhole
    <3>2. QED
      BY <1>2, <3>1, WholeParts
  <2>5. CASE AsBlocks!AllocSplit(b, n)
    <3>1. /\ b.size - n > 1
          /\ g = (f \ {b}) \cup {[addr |-> b.addr, size |-> b.size - n - 1]}
          /\ v = u \cup {[addr |-> b.addr + b.size - n, size |-> n]}
      BY <1>1, <2>5 DEF AsBlocks!AllocSplit
    <3>2. QED
      BY <1>2, <3>1, SplitParts
  <2>6. QED
    BY <2>3, <2>4, <2>5
<1>4. ASSUME NEW b \in Blocks(UsedList), AsBlocks!Free(b)
      PROVE  Parts(g, v)
  <2>1. PICK d \in f \cup {b} : g = AsBlocks!Merged(f \cup {b}, d.addr)
    BY <1>1, <1>4 DEF AsBlocks!Free
  <2>2. v = u \ {b} /\ b \in u
    BY <1>1, <1>4 DEF AsBlocks!Free
  <2>3. QED
    BY <1>2, <2>1, <2>2, FreeParts
<1>5. ASSUME UNCHANGED AsBlocks!vars
      PROVE  Parts(g, v)
  <2>1. g = f /\ v = u
    BY <1>1, <1>5 DEF AsBlocks!vars
  <2>2. QED
    BY <1>2, <2>1
<1>6. Parts(g, v)
  BY <1>3, <1>4, <1>5 DEF AsBlocks!Next
<1>7. QED
  BY <1>1, <1>6 DEF BlocksInv

LEMMA BlocksStay == Spec => []BlocksInv
<1>1. AsBlocks!Init => BlocksInv
  BY BlocksStart
<1>2. BlocksInv /\ [AsBlocks!Next]_(AsBlocks!vars) => BlocksInv'
  BY BlocksStep
<1>3. QED
  BY <1>1, <1>2, HeapBlocksImplemented, PTL DEF ImplementsHeapBlocks, AsBlocks!Spec

\* No caller is given memory that another caller holds or that is still on
\* the free list (heap.c:50-238).
THEOREM NeverOverlaps == Spec => []AsBlocks!NoOverlap
<1>1. BlocksInv => AsBlocks!NoOverlap
  BY PartsApart DEF BlocksInv, AsBlocks!NoOverlap
<1>2. QED
  BY <1>1, BlocksStay, PTL

\* Every unit of the heap is always in a block of one of the lists: splitting
\* and merging lose none (heap.c:83-93, :121-140).
THEOREM NeverLeaks == Spec => []AsBlocks!NoLeak
<1>1. BlocksInv => AsBlocks!NoLeak
  BY PartsApart DEF BlocksInv, AsBlocks!NoLeak
<1>2. QED
  BY <1>1, BlocksStay, PTL

=============================================================================
