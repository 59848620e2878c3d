--------------------------- MODULE EepromFSProofs ---------------------------
(***************************************************************************)
(* What holds of the EEPROM sections for EEPROMs of every number and size  *)
(* of pages, any names and sizes of sections, and any number of power      *)
(* losses.                                                                 *)
(*                                                                         *)
(* All of the state is found by walking from page 0, and a call changes    *)
(* where the walk goes.  The invariant therefore speaks of a set of pages  *)
(* that divides the EEPROM, up to some page, into areas; one lemma says    *)
(* that such a set is what the walk finds.  It is stated of the EEPROM as  *)
(* it will be when the header in "pending" is written: what holds before   *)
(* that page holds already, and that is what a power loss leaves.          *)
(***************************************************************************)
EXTENDS EepromFS, WellFoundedInduction, FiniteSetTheorems, TLAPS

-----------------------------------------------------------------------------
(* The invariant.                                                          *)

\* The pages that the header of page p says it covers, in the EEPROM e.
Extent(e, p) == psize(e[p].file_size)

\* The pages H divide the pages before "end" into areas.
Divides(H, e, end) ==
  /\ end > 0 => 0 \in H
  /\ \A p \in H : /\ p < end
                  /\ Extent(e, p) > 0
                  /\ p + Extent(e, p) \in H \cup {end}
                  /\ \A q \in H : p < q => p + Extent(e, p) <= q

\* Free areas say exactly how long they are, and no two of them touch.
Filled(H, e) ==
  \A p \in H :
    e[p].file_name = NoName =>
      /\ e[p] = FreeArea(Extent(e, p))
      /\ p + Extent(e, p) \in H => e[p + Extent(e, p)].file_name # NoName

\* The other areas are sections that callers made.
Owned(H, e, sections) ==
  \A p \in H :
    e[p].file_name # NoName =>
      \E n \in Names :
        /\ e[p].file_name = n
        /\ sections[n] = {[page_no |-> p, size |-> e[p].file_size]}

\* Sections that begin before "bound" are where they were made.
Kept(H, e, sections, bound) ==
  \A n \in Names : \A s \in sections[n] :
    s.page_no < bound =>
      /\ s.page_no \in H
      /\ e[s.page_no] = [file_size |-> s.size, file_name |-> n]

\* The page "next" is the first one of an area, or behind them all.
Good(e, sections, bound, next) ==
  \E H \in SUBSET Pages : \E end \in 0..EEPROM_PAGE_NUM :
    /\ bound <= end
    /\ Divides(H, e, end) /\ Filled(H, e) /\ Owned(H, e, sections)
    /\ Kept(H, e, sections, bound)
    /\ next \in H \/ next >= end

\* The EEPROM with the pending header, and how far it is sound then.
Completed ==
  IF Idle THEN eeprom ELSE [eeprom EXCEPT ![pending.page_no] = pending.hdr]
Sound == IF pending.page_no = 0 THEN EEPROM_PAGE_NUM ELSE torn

\* No header but what was never one, on whatever page it was left, speaks of
\* more pages than there are from there on.
Small(size) == size + HEADER <= EEPROM_PAGE_SIZE * EEPROM_PAGE_NUM
Fits(hdr, p) ==
  hdr.file_name # Other =>
    Small(hdr.file_size) /\ p + psize(hdr.file_size) <= EEPROM_PAGE_NUM

TypeInv ==
  /\ eeprom \in [Pages -> Headers]
  /\ \A p \in Pages : Fits(eeprom[p], p)
  /\ Idle \/ /\ pending \in [page_no : Pages, hdr : Headers]
             /\ Fits(pending.hdr, pending.page_no)
             /\ pending.hdr.file_name = NoName
  /\ live \in [Names -> SUBSET SectionRecords]
  /\ \A n \in Names : \A s, t \in live[n] : s = t
  /\ torn \in 0..EEPROM_PAGE_NUM

IInv == TypeInv /\ Good(Completed, live, Sound, pending.page_no)

-----------------------------------------------------------------------------
(* Arithmetic of sizes.                                                    *)

\* Every nonempty set of natural numbers has a least element: what takes the
\* place of induction here.
LEMMA LeastNat ==
  ASSUME NEW S, S \subseteq Nat, S # {}
  PROVE  \E n \in S : \A m \in S : n <= m
<1> DEFINE R == {p \in Nat \X Nat : p[1] < p[2]}
<1>1. IsWellFoundedOn(R, Nat)
  BY NatLessThanWellFounded, Zenon DEF OpToRel
<1>2. PICK x \in S : \A y \in S : ~(<<y, x>> \in R)
  BY <1>1, WFMin, Zenon
<1>3. ASSUME NEW m \in S  PROVE x <= m
  <2>1. m < x => <<m, x>> \in R
    OBVIOUS
  <2>2. QED
    BY <1>2, <2>1
<1>4. QED
  BY <1>3

LEMMA LeastIsLeast ==
  ASSUME NEW S, S \subseteq Nat, S # {}
  PROVE  Least(S) \in S /\ \A q \in S : Least(S) <= q
BY LeastNat DEF Least

LEMMA Constants ==
  /\ EEPROM_PAGE_NUM \in Nat /\ EEPROM_PAGE_NUM > 0
  /\ HEADER \in Nat /\ HEADER > 0
  /\ EEPROM_PAGE_SIZE \in Nat /\ EEPROM_PAGE_SIZE >= HEADER
  /\ UINT_MOD \in Nat
  /\ EEPROM_PAGE_SIZE * EEPROM_PAGE_NUM \in Nat
  /\ EEPROM_PAGE_SIZE <= EEPROM_PAGE_SIZE * EEPROM_PAGE_NUM
  /\ 2 * (EEPROM_PAGE_SIZE * EEPROM_PAGE_NUM) < UINT_MOD
<1>1. /\ EEPROM_PAGE_NUM \in Nat /\ EEPROM_PAGE_NUM > 0
      /\ HEADER \in Nat /\ HEADER > 0
      /\ EEPROM_PAGE_SIZE \in Nat /\ EEPROM_PAGE_SIZE >= HEADER
      /\ UINT_MOD \in Nat /\ UINT_MOD > 2 * EEPROM_PAGE_NUM * EEPROM_PAGE_SIZE
  BY EepromAssumption
<1>2. EEPROM_PAGE_SIZE * EEPROM_PAGE_NUM \in Nat
  BY <1>1
<1>3. PICK m \in Nat : EEPROM_PAGE_NUM = m + 1
  <2>1. EEPROM_PAGE_NUM - 1 \in Nat /\ EEPROM_PAGE_NUM = EEPROM_PAGE_NUM - 1 + 1
    BY <1>1
  <2>2. QED
    BY <2>1
<1>4. /\ EEPROM_PAGE_SIZE * EEPROM_PAGE_NUM = EEPROM_PAGE_SIZE * m + EEPROM_PAGE_SIZE
      /\ EEPROM_PAGE_SIZE * m \in Nat
  BY <1>1, <1>3
<1>5. 2 * EEPROM_PAGE_NUM * EEPROM_PAGE_SIZE = 2 * (EEPROM_PAGE_SIZE * EEPROM_PAGE_NUM)
  BY <1>1
<1>6. QED
  BY <1>1, <1>2, <1>4, <1>5

LEMMA PageMultiples ==
  ASSUME NEW a \in Int, NEW b \in Int
  PROVE  /\ EEPROM_PAGE_SIZE * a \in Int
         /\ EEPROM_PAGE_SIZE * (a - 1) = EEPROM_PAGE_SIZE * a - EEPROM_PAGE_SIZE
         /\ EEPROM_PAGE_SIZE * (a + b) = EEPROM_PAGE_SIZE * a + EEPROM_PAGE_SIZE * b
         /\ a < b => EEPROM_PAGE_SIZE * a + EEPROM_PAGE_SIZE <= EEPROM_PAGE_SIZE * b
<1>1. EEPROM_PAGE_SIZE \in Nat
  BY Constants
<1>2. /\ EEPROM_PAGE_SIZE * a \in Int
      /\ EEPROM_PAGE_SIZE * (a - 1) = EEPROM_PAGE_SIZE * a - EEPROM_PAGE_SIZE
      /\ EEPROM_PAGE_SIZE * (a + b) = EEPROM_PAGE_SIZE * a + EEPROM_PAGE_SIZE * b
  BY <1>1
<1>3. ASSUME a < b
      PROVE  EEPROM_PAGE_SIZE * a + EEPROM_PAGE_SIZE <= EEPROM_PAGE_SIZE * b
  <2>1. PICK d \in Nat : b = a + 1 + d
    <3>1. b - a - 1 \in Nat /\ b = a + 1 + (b - a - 1)
      BY <1>3
    <3>2. QED
      BY <3>1
  <2>2. /\ EEPROM_PAGE_SIZE * b =
             EEPROM_PAGE_SIZE * a + EEPROM_PAGE_SIZE + EEPROM_PAGE_SIZE * d
        /\ EEPROM_PAGE_SIZE * d \in Nat
    BY <1>1, <2>1
  <2>3. QED
    BY <1>1, <1>2, <2>2
<1>4. QED
  BY <1>2, <1>3

LEMMA PageOrder ==
  ASSUME NEW a \in Int, NEW b \in Int, a < b
  PROVE  EEPROM_PAGE_SIZE * a + EEPROM_PAGE_SIZE <= EEPROM_PAGE_SIZE * b
BY PageMultiples

\* psize rounds up.
LEMMA PsizeCeiling ==
  ASSUME NEW b \in Nat, b + HEADER < UINT_MOD
  PROVE  /\ psize(b) \in Nat /\ psize(b) > 0
         /\ b + HEADER <= EEPROM_PAGE_SIZE * psize(b)
         /\ EEPROM_PAGE_SIZE * psize(b) < b + HEADER + EEPROM_PAGE_SIZE
<1>1. PICK n \in Nat : n = b + HEADER
  BY Constants
<1>2. Bytes(b) = n
  BY Constants, <1>1 DEF Bytes
<1>3. PICK q \in Nat : q = n \div EEPROM_PAGE_SIZE
  BY Constants
<1>4. PICK r \in 0..(EEPROM_PAGE_SIZE - 1) : r = n % EEPROM_PAGE_SIZE
  BY Constants
<1>5. n = EEPROM_PAGE_SIZE * q + r
  BY Constants, <1>3, <1>4
<1>6. psize(b) = q + (IF r # 0 THEN 1 ELSE 0)
  BY <1>2, <1>3, <1>4 DEF psize
<1>7. /\ EEPROM_PAGE_SIZE * (q + 1) = EEPROM_PAGE_SIZE * q + EEPROM_PAGE_SIZE
      /\ EEPROM_PAGE_SIZE * q \in Nat
      /\ q = 0 => EEPROM_PAGE_SIZE * q = 0
  BY Constants
<1>8. CASE r = 0
  <2>1. psize(b) = q /\ n = EEPROM_PAGE_SIZE * q /\ n > 0
    BY Constants, <1>1, <1>5, <1>6, <1>7, <1>8
  <2>2. QED
    BY Constants, <1>1, <1>7, <2>1
<1>9. CASE r # 0
  <2>1. psize(b) = q + 1 /\ n > EEPROM_PAGE_SIZE * q
           /\ n < EEPROM_PAGE_SIZE * q + EEPROM_PAGE_SIZE
    BY Constants, <1>4, <1>5, <1>6, <1>7, <1>9
  <2>2. QED
    BY Constants, <1>1, <1>7, <2>1
<1>10. QED
  BY <1>8, <1>9

\* So k pages are enough if and only if they hold the bytes.
LEMMA PsizeLeast ==
  ASSUME NEW b \in Nat, b + HEADER < UINT_MOD, NEW k \in Int
  PROVE  psize(b) <= k <=> b + HEADER <= EEPROM_PAGE_SIZE * k
<1>1. PICK c \in Nat : c = psize(b)
  BY PsizeCeiling
<1>2. /\ b + HEADER <= EEPROM_PAGE_SIZE * c
      /\ EEPROM_PAGE_SIZE * c < b + HEADER + EEPROM_PAGE_SIZE
  BY <1>1, PsizeCeiling
<1>3. /\ EEPROM_PAGE_SIZE * k \in Int /\ EEPROM_PAGE_SIZE * c \in Int
      /\ k < c => EEPROM_PAGE_SIZE * k + EEPROM_PAGE_SIZE <= EEPROM_PAGE_SIZE * c
      /\ c < k => EEPROM_PAGE_SIZE * c + EEPROM_PAGE_SIZE <= EEPROM_PAGE_SIZE * k
  BY Constants, PageOrder
<1>4. QED
  BY Constants, <1>1, <1>2, <1>3

LEMMA SmallSizes ==
  ASSUME NEW b \in Nat, Small(b)
  PROVE  b + HEADER < UINT_MOD /\ b < UINT_MOD /\ psize(b) \in 1..EEPROM_PAGE_NUM
<1>1. b + HEADER < UINT_MOD /\ b < UINT_MOD
  BY Constants DEF Small
<1>2. psize(b) <= EEPROM_PAGE_NUM
  BY Constants, <1>1, PsizeLeast DEF Small
<1>3. QED
  BY Constants, <1>1, <1>2, PsizeCeiling

\* A free area says that it is as long as it is.
LEMMA FreeAreaExact ==
  ASSUME NEW k \in 1..EEPROM_PAGE_NUM
  PROVE  /\ FreeArea(k) \in Headers
         /\ FreeArea(k).file_name = NoName
         /\ FreeArea(k).file_size + HEADER = EEPROM_PAGE_SIZE * k
         /\ Small(FreeArea(k).file_size)
         /\ psize(FreeArea(k).file_size) = k
<1>1. PICK m \in Int : m = EEPROM_PAGE_SIZE * k
  BY PageMultiples
<1>2. k * EEPROM_PAGE_SIZE = m
  BY Constants, <1>1
<1>3. EEPROM_PAGE_SIZE <= m /\ m <= EEPROM_PAGE_SIZE * EEPROM_PAGE_NUM
  <2>1. 0 < k => EEPROM_PAGE_SIZE * 0 + EEPROM_PAGE_SIZE <= EEPROM_PAGE_SIZE * k
    BY PageMultiples
  <2>2. k < EEPROM_PAGE_NUM => EEPROM_PAGE_SIZE * k + EEPROM_PAGE_SIZE
                                 <= EEPROM_PAGE_SIZE * EEPROM_PAGE_NUM
    BY Constants, PageMultiples
  <2>3. EEPROM_PAGE_SIZE * 0 = 0
    BY Constants
  <2>4. QED
    BY Constants, <1>1, <2>1, <2>2, <2>3
<1>4. PICK b \in Nat : b = m - HEADER /\ b + HEADER = m
  BY Constants, <1>3
<1>5. FreeArea(k) = [file_size |-> b, file_name |-> NoName]
  BY <1>2, <1>4 DEF FreeArea
<1>6. Small(b)
  BY <1>3, <1>4 DEF Small
<1>7. b + HEADER < UINT_MOD /\ b \in 0..(UINT_MOD - 1)
  BY Constants, <1>6, SmallSizes
<1>8. psize(b) = k
  <2>1. psize(b) <= k
    BY <1>1, <1>4, <1>7, PsizeLeast
  <2>2. ~(psize(b) <= k - 1)
    <3>1. EEPROM_PAGE_SIZE * (k - 1) = m - EEPROM_PAGE_SIZE
      BY <1>1, PageMultiples
    <3>2. k - 1 \in Int /\ ~(b + HEADER <= EEPROM_PAGE_SIZE * (k - 1))
      BY Constants, <1>4, <3>1
    <3>3. QED
      BY <1>7, <3>2, PsizeLeast
  <2>3. QED
    BY <1>7, <2>1, <2>2, PsizeCeiling
<1>9. QED
  BY <1>1, <1>4, <1>5, <1>6, <1>7, <1>8 DEF Headers

\* Two areas become one: at most as many pages as they had, and exactly as
\* many if one of them was full.
LEMMA MergedSize ==
  ASSUME NEW a \in Nat, NEW b \in Nat, Small(a), Small(b)
  PROVE  /\ a + b + HEADER \in Nat /\ a + b + HEADER + HEADER < UINT_MOD
         /\ psize(a + b + HEADER) <= psize(a) + psize(b)
         /\ psize(a + b + HEADER) >= psize(a)
         /\ psize(a + b + HEADER) >= psize(b)
         /\ \A k \in Nat :
              /\ a + HEADER = EEPROM_PAGE_SIZE * k => psize(a + b + HEADER) = k + psize(b)
              /\ b + HEADER = EEPROM_PAGE_SIZE * k => psize(a + b + HEADER) = k + psize(a)
<1>1. PICK c \in Nat : c = a + b + HEADER
  BY Constants
<1>2. c + HEADER = (a + HEADER) + (b + HEADER) /\ c + HEADER < UINT_MOD
  BY Constants, <1>1 DEF Small
<1>3. PICK x \in Nat : x = psize(a) /\ x > 0
  BY SmallSizes
<1>4. PICK y \in Nat : y = psize(b) /\ y > 0
  BY SmallSizes
<1>5. PICK z \in Nat : z = psize(c) /\ z > 0
  BY <1>2, PsizeCeiling
<1>6. /\ a + HEADER <= EEPROM_PAGE_SIZE * x
      /\ EEPROM_PAGE_SIZE * x < a + HEADER + EEPROM_PAGE_SIZE
  BY <1>3, SmallSizes, PsizeCeiling
<1>7. /\ b + HEADER <= EEPROM_PAGE_SIZE * y
      /\ EEPROM_PAGE_SIZE * y < b + HEADER + EEPROM_PAGE_SIZE
  BY <1>4, SmallSizes, PsizeCeiling
<1>8. /\ c + HEADER <= EEPROM_PAGE_SIZE * z
      /\ EEPROM_PAGE_SIZE * z < c + HEADER + EEPROM_PAGE_SIZE
  BY <1>2, <1>5, PsizeCeiling
<1>9. z <= x + y
  <2>1. EEPROM_PAGE_SIZE * (x + y) = EEPROM_PAGE_SIZE * x + EEPROM_PAGE_SIZE * y
    BY PageMultiples
  <2>2. c + HEADER <= EEPROM_PAGE_SIZE * (x + y)
    BY Constants, <1>2, <1>6, <1>7, <2>1, PageMultiples
  <2>3. QED
    BY <1>2, <1>5, <2>2, PsizeLeast
<1>10. z >= x /\ z >= y
  <2>1. /\ EEPROM_PAGE_SIZE * z \in Int /\ EEPROM_PAGE_SIZE * x \in Int
        /\ EEPROM_PAGE_SIZE * y \in Int
        /\ z < x => EEPROM_PAGE_SIZE * z + EEPROM_PAGE_SIZE <= EEPROM_PAGE_SIZE * x
        /\ z < y => EEPROM_PAGE_SIZE * z + EEPROM_PAGE_SIZE <= EEPROM_PAGE_SIZE * y
    BY Constants, PageOrder
  <2>2. QED
    BY Constants, <1>2, <1>6, <1>7, <1>8, <2>1
<1>11. ASSUME NEW k \in Nat, NEW u \in Nat, NEW v \in Nat, NEW w \in Nat,
              u + HEADER = EEPROM_PAGE_SIZE * k, c + HEADER = (u + HEADER) + (v + HEADER),
              v + HEADER <= EEPROM_PAGE_SIZE * w,
              EEPROM_PAGE_SIZE * w < v + HEADER + EEPROM_PAGE_SIZE
       PROVE  z = k + w
  <2>1. PICK h \in Nat : h = k + w
    OBVIOUS
  <2>2. /\ EEPROM_PAGE_SIZE * h = EEPROM_PAGE_SIZE * k + EEPROM_PAGE_SIZE * w
        /\ EEPROM_PAGE_SIZE * k \in Int /\ EEPROM_PAGE_SIZE * w \in Int
        /\ EEPROM_PAGE_SIZE * z \in Int /\ EEPROM_PAGE_SIZE * h \in Int
        /\ z < h => EEPROM_PAGE_SIZE * z + EEPROM_PAGE_SIZE <= EEPROM_PAGE_SIZE * h
        /\ h < z => EEPROM_PAGE_SIZE * h + EEPROM_PAGE_SIZE <= EEPROM_PAGE_SIZE * z
    BY Constants, PageOrder, <2>1
  <2>3. QED
    BY Constants, <1>8, <1>11, <2>1, <2>2
<1>12. ASSUME NEW k \in Nat
       PROVE  /\ a + HEADER = EEPROM_PAGE_SIZE * k => z = k + y
              /\ b + HEADER = EEPROM_PAGE_SIZE * k => z = k + x
  <2>1. c + HEADER = (b + HEADER) + (a + HEADER)
    BY Constants, <1>2
  <2>2. QED
    BY <1>2, <1>6, <1>7, <1>11, <2>1
<1>13. QED
  BY <1>1, <1>2, <1>3, <1>4, <1>5, <1>9, <1>10, <1>12

-----------------------------------------------------------------------------
(* The walk.                                                               *)

\* The walk through any EEPROM, and a step of it.
Onward(e, p) == IF p \in Pages THEN p + psize(e[p].file_size) ELSE p

WalkOf(e) ==
  LET w[i \in 0..EEPROM_PAGE_NUM] == IF i = 0 THEN 0 ELSE Onward(e, w[i - 1])
  IN w

AreasOf(e) == {WalkOf(e)[i] : i \in 0..EEPROM_PAGE_NUM} \cap Pages

LEMMA WalkNow ==
  /\ Walk = WalkOf(eeprom) /\ Areas = AreasOf(eeprom)
  /\ Areas' = AreasOf(eeprom')
BY DEF Walk, WalkOf, Areas, AreasOf, Onward, PagesAt

LEMMA WalkUnfold ==
  ASSUME NEW e
  PROVE  /\ WalkOf(e)[0] = 0
         /\ \A i \in 1..EEPROM_PAGE_NUM : WalkOf(e)[i] = Onward(e, WalkOf(e)[i - 1])
<1> DEFINE N == EEPROM_PAGE_NUM
           IsWalk(m, g) == /\ g = [i \in 0..N |-> g[i]]
                           /\ g[0] = 0
                           /\ \A i \in 1..m : g[i] = Onward(e, g[i - 1])
           Bad == {m \in 0..N : \A g : ~IsWalk(m, g)}
<1>1. N \in Nat
  BY Constants
<1>2. Bad = {}
  <2>1. SUFFICES ASSUME Bad # {} PROVE FALSE
    OBVIOUS
  <2>2. PICK m \in Bad : \A k \in Bad : m <= k
    <3>1. Bad \subseteq Nat
      BY <1>1
    <3>2. QED
      BY <2>1, <3>1, LeastNat
  <2>3. m # 0
    <3>1. IsWalk(0, [i \in 0..N |-> 0])
      BY <1>1
    <3>2. QED
      BY <2>2, <3>1
  <2>4. m - 1 \in 0..N /\ m - 1 \notin Bad /\ m \in 1..N
    BY <1>1, <2>2, <2>3
  <2>5. PICK g : IsWalk(m - 1, g)
    BY <2>4
  <2>6. PICK h : h = [i \in 0..N |-> IF i = m THEN Onward(e, g[m - 1]) ELSE g[i]]
    OBVIOUS
  <2>7. h = [i \in 0..N |-> h[i]]
    BY <2>6
  <2>8. h[0] = 0
    BY <1>1, <2>4, <2>5, <2>6
  <2>9. ASSUME NEW i \in 1..m
        PROVE  h[i] = Onward(e, h[i - 1])
    <3>1. i \in 0..N /\ i - 1 \in 0..N /\ i - 1 # m
      BY <1>1, <2>4
    <3>2. h[i - 1] = g[i - 1] /\ h[i] = IF i = m THEN Onward(e, g[m - 1]) ELSE g[i]
      BY <2>6, <3>1
    <3>3. i # m => g[i] = Onward(e, g[i - 1])
      <4>1. \A k \in 1..(m - 1) : g[k] = Onward(e, g[k - 1])
        BY <2>5, Zenon
      <4>2. i # m => i \in 1..(m - 1)
        BY <2>4
      <4>3. QED
        BY <4>1, <4>2
    <3>4. QED
      BY <3>2, <3>3
  <2>10. IsWalk(m, h)
    BY <2>7, <2>8, <2>9
  <2>11. QED
    BY <2>2, <2>10
<1>3. PICK g : IsWalk(N, g)
  BY <1>1, <1>2
<1>4. \A i \in 0..N : g[i] = IF i = 0 THEN 0 ELSE Onward(e, g[i - 1])
  <2>1. ASSUME NEW i \in 0..N, i # 0
        PROVE  g[i] = Onward(e, g[i - 1])
    <3>1. i \in 1..N
      BY <1>1, <2>1
    <3>2. QED
      BY <1>3, <3>1
  <2>2. QED
    BY <1>3, <2>1
<1> DEFINE Solves(w) == w = [i \in 0..EEPROM_PAGE_NUM |->
                               IF i = 0 THEN 0 ELSE Onward(e, w[i - 1])]
<1>5. Solves(g)
  BY <1>3, <1>4
<1>6. PICK w : w = WalkOf(e)
  OBVIOUS
<1>7. Solves(w)
  <2>1. WalkOf(e) = CHOOSE v : Solves(v)
    BY DEF WalkOf
  <2>2. \E v : Solves(v)
    BY <1>5, Zenon
  <2> HIDE DEF Solves
  <2>3. Solves(CHOOSE v : Solves(v))
    BY <2>2, Zenon
  <2>4. QED
    BY <1>6, <2>1, <2>3, Zenon
<1>8. \A i \in 0..EEPROM_PAGE_NUM : w[i] = IF i = 0 THEN 0 ELSE Onward(e, w[i - 1])
  BY <1>7, Zenon
<1>9. 0 \in 0..EEPROM_PAGE_NUM
      /\ \A i \in 1..EEPROM_PAGE_NUM : i # 0 /\ i \in 0..EEPROM_PAGE_NUM
  BY <1>1
<1>10. QED
  BY <1>6, <1>8, <1>9, Zenon

LEMMA ExtentType ==
  ASSUME NEW e \in [Pages -> Headers], NEW p \in Pages
  PROVE  Extent(e, p) \in Nat /\ p \in Nat
<1>1. PICK b \in Nat : b = e[p].file_size
  BY Constants DEF Headers
<1>2. b + HEADER \in Nat /\ UINT_MOD > 0
  BY Constants
<1>3. Bytes(b) \in Nat
  BY Constants, <1>2 DEF Bytes
<1>4. psize(b) \in Nat
  BY Constants, <1>3 DEF psize
<1>5. QED
  BY <1>1, <1>4 DEF Extent, Pages

\* A set that divides the EEPROM is what the walk finds.
LEMMA WalkDivides ==
  ASSUME NEW e \in [Pages -> Headers], NEW H \in SUBSET Pages,
         NEW end \in 0..EEPROM_PAGE_NUM, Divides(H, e, end)
  PROVE  /\ H \subseteq AreasOf(e)
         /\ \A p \in AreasOf(e) : p \in H \/ p >= end
         /\ end = EEPROM_PAGE_NUM => WalkOf(e)[EEPROM_PAGE_NUM] = end
<1> DEFINE N == EEPROM_PAGE_NUM
<1>1. PICK w : w = WalkOf(e)
  OBVIOUS
<1>2. /\ w[0] = 0
      /\ \A i \in 1..N : w[i] = IF w[i - 1] \in Pages THEN w[i - 1] + Extent(e, w[i - 1])
                                ELSE w[i - 1]
  BY <1>1, WalkUnfold DEF Onward, Extent
<1>3. N \in Nat /\ \A p \in Pages : p \in Nat /\ p < N /\ Extent(e, p) \in Nat
  BY Constants, ExtentType DEF Pages
<1> DEFINE Reached(i) == /\ w[i] \in Nat
                         /\ (w[i] \in H /\ w[i] >= i) \/ w[i] >= end
                         /\ end = N => w[i] \in H \cup {end}
           Bad == {i \in 0..N : ~Reached(i)}
<1>4. Bad = {}
  <2>1. SUFFICES ASSUME Bad # {} PROVE FALSE
    OBVIOUS
  <2>2. PICK i \in Bad : \A k \in Bad : i <= k
    <3>1. Bad \subseteq Nat
      BY <1>3
    <3>2. QED
      BY <2>1, <3>1, LeastNat
  <2>3. i # 0
    BY <1>2, <1>3, <2>2 DEF Divides
  <2>4. PICK j \in 0..N : j = i - 1
    BY <1>3, <2>2, <2>3
  <2>5. Reached(j) /\ i = j + 1
    BY <1>3, <2>2, <2>4
  <2>6. w[i] = IF w[j] \in Pages THEN w[j] + Extent(e, w[j]) ELSE w[j]
    <3>1. i \in 1..N
      BY <1>3, <2>2, <2>3
    <3>2. QED
      BY <1>2, <2>4, <3>1
  <2>7. CASE w[j] \in H
    <3>1. /\ w[j] \in Pages /\ Extent(e, w[j]) > 0
          /\ w[j] + Extent(e, w[j]) \in H \cup {end}
      BY <2>7 DEF Divides
    <3>2. PICK x \in Nat : x = Extent(e, w[j])
      BY <1>3, <3>1
    <3>3. w[j] < end
      BY <2>7 DEF Divides
    <3>4. w[j] >= j
      BY <2>5, <3>3
    <3>5. w[i] \in H \cup {end} /\ w[i] \in Nat /\ w[i] >= i
      BY <2>5, <2>6, <3>1, <3>2, <3>4
    <3>6. Reached(i)
      BY <3>5
    <3>7. QED
      BY <2>2, <3>6
  <2>8. CASE w[j] \notin H
    <3>1. w[j] >= end /\ w[j] \in Nat /\ end = N => w[j] = end
      BY <2>5, <2>8
    <3>2. w[i] \in Nat /\ w[i] >= end
      BY <1>3, <2>5, <2>6, <2>8
    <3>3. end = N => w[i] = end
      <4>1. end = N => N \notin Pages
        BY <1>3
      <4>2. QED
        BY <2>5, <2>6, <2>8, <4>1
    <3>4. Reached(i)
      BY <3>2, <3>3
    <3>5. QED
      BY <2>2, <3>4
  <2>9. QED
    BY <2>7, <2>8
<1>5. \A i \in 0..N : Reached(i)
  BY <1>4
<1> DEFINE Missed == {h \in H : \A i \in 0..h : w[i] # h}
<1>6. Missed = {}
  <2>1. SUFFICES ASSUME Missed # {} PROVE FALSE
    OBVIOUS
  <2>2. PICK h \in Missed : \A k \in Missed : h <= k
    <3>1. Missed \subseteq Nat
      BY <1>3
    <3>2. QED
      BY <2>1, <3>1, LeastNat
  <2>3. h \in H /\ h \in Nat /\ h < N /\ h < end
    BY <1>3, <2>2 DEF Divides
  <2>4. h # 0
    BY <1>2, <2>2
  <2> DEFINE Gaps == {d \in 1..h : h - d \in H}
  <2>5. PICK d \in Gaps : \A c \in Gaps : d <= c
    <3>1. h \in Gaps
      BY <2>3, <2>4 DEF Divides
    <3>2. Gaps \subseteq Nat
      OBVIOUS
    <3>3. QED
      BY <3>1, <3>2, LeastNat
  <2>6. PICK p \in H : p = h - d
    BY <2>5
  <2>7. p \in Nat /\ p < h
    BY <2>3, <2>5, <2>6
  <2>8. PICK x \in Nat : x = Extent(e, p)
    BY <1>3
  <2>9. x > 0 /\ p + x \in H \cup {end} /\ p + x <= h
    BY <2>3, <2>7, <2>8 DEF Divides
  <2>10. p + x \in H
    BY <2>3, <2>7, <2>9
  <2>11. p + x = h
    <3>1. SUFFICES ASSUME p + x < h PROVE FALSE
      BY <2>3, <2>7, <2>9
    <3>2. PICK c \in 1..h : c = h - (p + x)
      BY <2>3, <2>7, <3>1
    <3>3. h - c \in H /\ c < d
      BY <2>3, <2>5, <2>6, <2>7, <2>9, <2>10, <3>2
    <3>4. QED
      BY <2>5, <3>3
  <2>12. p \notin Missed
    BY <2>2, <2>3, <2>7
  <2>13. PICK i \in 0..p : w[i] = p
    BY <2>12
  <2>14. i + 1 \in 1..N /\ i + 1 \in 0..h /\ i + 1 - 1 = i
    BY <1>3, <2>3, <2>7
  <2>15. w[i + 1] = h
    <3>1. w[i + 1] = IF w[i] \in Pages THEN w[i] + Extent(e, w[i]) ELSE w[i]
      BY <1>2, <2>14
    <3>2. QED
      BY <2>8, <2>11, <2>13, <3>1
  <2>16. QED
    BY <2>2, <2>14, <2>15
<1>7. H \subseteq AreasOf(e)
  <2>1. SUFFICES ASSUME NEW h \in H PROVE h \in AreasOf(e)
    OBVIOUS
  <2>2. PICK i \in 0..h : w[i] = h
    BY <1>6
  <2>3. i \in 0..N /\ h \in Pages
    BY <1>3
  <2>4. QED
    BY <1>1, <2>2, <2>3 DEF AreasOf
<1>8. ASSUME NEW p \in AreasOf(e) PROVE p \in H \/ p >= end
  <2>1. PICK i \in 0..N : p = w[i]
    BY <1>1 DEF AreasOf
  <2>2. Reached(i)
    BY <1>5
  <2>3. QED
    BY <2>1, <2>2
<1>9. ASSUME end = N PROVE w[N] = end
  <2>1. Reached(N)
    BY <1>3, <1>5
  <2>2. w[N] \in H => w[N] < end
    BY DEF Divides
  <2>3. QED
    BY <1>3, <1>9, <2>1, <2>2
<1>10. QED
  BY <1>1, <1>7, <1>8, <1>9

-----------------------------------------------------------------------------
(* What leaves the areas as they are.                                      *)

LEMMA NamesAreNames ==
  /\ NoName # Other
  /\ \A n \in Names : n # NoName /\ n # Other
<1>1. NoName # Other
  BY DEF NoName, Other
<1>2. QED
  BY <1>1, EepromAssumption

\* The areas keep their headers, and the sections of their names.
SameHeaders(H, e, e2) == \A h \in H : e2[h] = e[h]

SameSections(H, e, sections, sections2, bound) ==
  \A n \in Names :
    \/ sections2[n] = sections[n]
    \/ /\ \A h \in H : e[h].file_name # n
       /\ \A s \in sections2[n] : ~(s.page_no < bound)

LEMMA SameAreas ==
  ASSUME NEW e, NEW e2, NEW H, NEW end, NEW bound, NEW sections, NEW sections2,
         Divides(H, e, end), Filled(H, e), Owned(H, e, sections),
         Kept(H, e, sections, bound),
         SameHeaders(H, e, e2), SameSections(H, e, sections, sections2, bound)
  PROVE  /\ Divides(H, e2, end) /\ Filled(H, e2) /\ Owned(H, e2, sections2)
         /\ Kept(H, e2, sections2, bound)
<1> USE DEF SameHeaders, SameSections
<1>1. \A h \in H : Extent(e2, h) = Extent(e, h)
  BY DEF Extent
<1>2. Divides(H, e2, end)
  BY <1>1 DEF Divides
<1>3. Filled(H, e2)
  <2>1. SUFFICES ASSUME NEW p \in H, e2[p].file_name = NoName
                 PROVE  /\ e2[p] = FreeArea(Extent(e2, p))
                        /\ p + Extent(e2, p) \in H =>
                             e2[p + Extent(e2, p)].file_name # NoName
    BY DEF Filled
  <2>2. /\ e[p] = FreeArea(Extent(e, p))
        /\ p + Extent(e, p) \in H => e[p + Extent(e, p)].file_name # NoName
    BY <2>1 DEF Filled
  <2>3. QED
    BY <1>1, <2>2
<1>4. Owned(H, e2, sections2)
  <2>1. SUFFICES ASSUME NEW p \in H, e[p].file_name # NoName
                 PROVE  \E n \in Names :
                          /\ e[p].file_name = n
                          /\ sections2[n] = {[page_no |-> p, size |-> e[p].file_size]}
    BY DEF Owned
  <2>2. PICK n \in Names : /\ e[p].file_name = n
                           /\ sections[n] = {[page_no |-> p, size |-> e[p].file_size]}
    BY <2>1 DEF Owned
  <2>3. sections2[n] = sections[n]
    BY <2>2
  <2>4. QED
    BY <2>2, <2>3
<1>5. Kept(H, e2, sections2, bound)
  <2>1. SUFFICES ASSUME NEW n \in Names, NEW s \in sections2[n], s.page_no < bound
                 PROVE  /\ s.page_no \in H
                        /\ e2[s.page_no] = [file_size |-> s.size, file_name |-> n]
    BY DEF Kept
  <2>2. s \in sections[n]
    BY <2>1
  <2>3. /\ s.page_no \in H
        /\ e[s.page_no] = [file_size |-> s.size, file_name |-> n]
    BY <2>1, <2>2 DEF Kept
  <2>4. QED
    BY <2>3
<1>6. QED
  BY <1>2, <1>3, <1>4, <1>5

\* What is sound up to a page is sound up to any page before it, whatever is
\* written from there on.
LEMMA Restricted ==
  ASSUME NEW e \in [Pages -> Headers], NEW e2,
         NEW sections \in [Names -> SUBSET SectionRecords], NEW next,
         NEW bound \in 0..EEPROM_PAGE_NUM, Good(e, sections, bound, next),
         NEW x \in 0..bound, \A p \in Pages : p < x => e2[p] = e[p]
  PROVE  Good(e2, sections, x, EEPROM_PAGE_NUM)
<1>1. PICK H \in SUBSET Pages, end \in 0..EEPROM_PAGE_NUM :
        /\ bound <= end
        /\ Divides(H, e, end) /\ Filled(H, e) /\ Owned(H, e, sections)
        /\ Kept(H, e, sections, bound)
  BY DEF Good
<1>2. /\ EEPROM_PAGE_NUM \in Nat /\ x \in Nat /\ bound \in Nat /\ end \in Nat
      /\ x <= bound /\ \A p \in H : p \in Nat /\ Extent(e, p) \in Nat
  BY Constants, ExtentType
<1> DEFINE Later == {q \in H \cup {end} : q >= x}
<1>3. PICK end2 \in Later : \A q \in Later : end2 <= q
  <2>1. end \in Later /\ Later \subseteq Nat
    BY <1>1, <1>2
  <2>2. QED
    BY <2>1, LeastNat
<1>4. end2 \in 0..EEPROM_PAGE_NUM /\ x <= end2
  BY <1>1, <1>2, <1>3 DEF Divides
<1>5. PICK H2 \in SUBSET Pages : H2 = {h \in H : h < x}
  OBVIOUS
<1>6. \A h \in H2 : h \in H /\ h < x /\ e2[h] = e[h] /\ Extent(e2, h) = Extent(e, h)
  BY <1>5 DEF Extent
<1>7. Divides(H2, e2, end2)
  <2>1. end2 > 0 => 0 \in H2
    <3>1. SUFFICES ASSUME end2 > 0 PROVE 0 \in H2
      OBVIOUS
    <3>2. 0 \notin Later
      BY <1>2, <1>3, <3>1
    <3>3. end > 0
      BY <1>1, <1>2, <1>3, <3>1, <3>2
    <3>4. 0 \in H
      BY <1>1, <3>3 DEF Divides
    <3>5. QED
      BY <1>2, <1>5, <3>2, <3>4
  <2>2. ASSUME NEW p \in H2
        PROVE  /\ p < end2 /\ Extent(e, p) > 0
               /\ p + Extent(e, p) \in H2 \cup {end2}
               /\ \A q \in H2 : p < q => p + Extent(e, p) <= q
    <3>1. p \in H /\ p < x /\ p \in Nat
      BY <1>2, <1>6
    <3>2. PICK k \in Nat : k = Extent(e, p)
      BY <1>2, <3>1
    <3>3. /\ k > 0 /\ p + k \in H \cup {end}
          /\ \A q \in H : p < q => p + k <= q
      BY <1>1, <3>1, <3>2 DEF Divides
    <3>4. p < end2
      BY <1>2, <1>4, <3>1
    <3>5. p + k \in H2 \cup {end2}
      <4>1. CASE p + k < x
        BY <1>1, <1>2, <1>5, <3>3, <4>1
      <4>2. CASE ~(p + k < x)
        <5>1. p + k \in Later
          BY <1>2, <3>1, <3>3, <4>2
        <5>2. end2 <= p + k /\ end2 \in Nat
          BY <1>3, <1>4, <5>1
        <5>3. end2 \in H => p + k <= end2
          BY <3>3, <3>4
        <5>4. end2 = end => p + k <= end2
          BY <1>1, <1>2, <3>3 DEF Divides
        <5>5. QED
          BY <1>3, <3>1, <5>2, <5>3, <5>4
      <4>3. QED
        BY <4>1, <4>2
    <3>6. QED
      BY <1>6, <3>2, <3>3, <3>4, <3>5
  <2>3. QED
    BY <1>6, <2>1, <2>2 DEF Divides
<1>8. Filled(H2, e2)
  <2>1. SUFFICES ASSUME NEW p \in H2, e2[p].file_name = NoName
                 PROVE  /\ e2[p] = FreeArea(Extent(e2, p))
                        /\ p + Extent(e2, p) \in H2 =>
                             e2[p + Extent(e2, p)].file_name # NoName
    BY DEF Filled
  <2>2. /\ e[p] = FreeArea(Extent(e, p))
        /\ p + Extent(e, p) \in H => e[p + Extent(e, p)].file_name # NoName
    BY <1>1, <1>6, <2>1 DEF Filled
  <2>3. QED
    BY <1>6, <2>2
<1>9. Owned(H2, e2, sections)
  BY <1>1, <1>6 DEF Owned
<1>10. Kept(H2, e2, sections, x)
  <2>1. SUFFICES ASSUME NEW n \in Names, NEW s \in sections[n], s.page_no < x
                 PROVE  /\ s.page_no \in H2
                        /\ e2[s.page_no] = [file_size |-> s.size, file_name |-> n]
    BY DEF Kept
  <2>2. s.page_no \in Nat
    BY Constants DEF SectionRecords, Pages
  <2>3. s.page_no < bound
    BY <1>2, <2>1, <2>2
  <2>4. /\ s.page_no \in H
        /\ e[s.page_no] = [file_size |-> s.size, file_name |-> n]
    BY <1>1, <2>3 DEF Kept
  <2>5. QED
    BY <1>5, <1>6, <2>1, <2>4
<1>11. EEPROM_PAGE_NUM >= end2
  BY <1>2, <1>4
<1>12. QED
  BY <1>4, <1>7, <1>8, <1>9, <1>10, <1>11 DEF Good

-----------------------------------------------------------------------------
(* EEPROM_CreateSection.                                                   *)

LEMMA AreaTypes ==
  ASSUME TypeInv, NEW p \in Areas
  PROVE  /\ p \in Pages /\ p \in Nat /\ p < EEPROM_PAGE_NUM
         /\ PagesAt(p) = Extent(eeprom, p)
         /\ Extent(eeprom, p) \in Nat
         /\ eeprom[p].file_size \in Nat
<1>1. p \in Pages /\ p \in Nat /\ p < EEPROM_PAGE_NUM
  BY Constants DEF Areas, Pages
<1>2. eeprom \in [Pages -> Headers]
  BY DEF TypeInv
<1>3. eeprom[p].file_size \in Nat
  BY Constants, <1>1, <1>2 DEF Headers
<1>4. QED
  BY <1>1, <1>2, <1>3, ExtentType DEF PagesAt, Extent

\* The area that is taken, how long it is, and the pages that are needed.
LEMMA CreateTakes ==
  ASSUME TypeInv, NEW n \in Names, NEW size \in SectionSizes, Create(n, size)
  PROVE  \E p \in Areas : \E m, k \in 1..EEPROM_PAGE_NUM :
           /\ p = Least(LargeEnough(size))
           /\ eeprom[p].file_name = NoName
           /\ m = Extent(eeprom, p) /\ k = psize(size) /\ k <= m
           /\ p + m <= EEPROM_PAGE_NUM /\ Small(size) /\ size \in Nat
<1>1. LargeEnough(size) # {} /\ LargeEnough(size) \subseteq Nat
  BY AreaTypes DEF Create, LargeEnough
<1>2. PICK p \in LargeEnough(size) : p = Least(LargeEnough(size))
  BY <1>1, LeastIsLeast
<1>3. p \in Areas /\ eeprom[p].file_name = NoName /\ Extent(eeprom, p) >= psize(size)
  BY <1>2, AreaTypes DEF LargeEnough, IsFree
<1>4. PICK b \in Nat : b = eeprom[p].file_size
  BY <1>3, AreaTypes
<1>5. Small(b) /\ p + psize(b) <= EEPROM_PAGE_NUM
  BY <1>3, <1>4, AreaTypes, NamesAreNames DEF TypeInv, Fits
<1>6. PICK m \in 1..EEPROM_PAGE_NUM : m = psize(b)
  BY <1>5, SmallSizes
<1>7. m = Extent(eeprom, p)
  BY <1>4, <1>6 DEF Extent
<1>8. size \in Nat /\ size + HEADER < UINT_MOD
  <2>1. size \in 1..(EEPROM_PAGE_SIZE * EEPROM_PAGE_NUM)
    <3>1. EEPROM_PAGE_NUM * EEPROM_PAGE_SIZE = EEPROM_PAGE_SIZE * EEPROM_PAGE_NUM
      BY Constants
    <3>2. QED
      BY EepromAssumption, <3>1
  <2>2. QED
    BY Constants, <2>1
<1>9. PICK k \in Nat : k = psize(size) /\ k > 0
  BY <1>8, PsizeCeiling
<1>10. k <= m /\ k \in 1..EEPROM_PAGE_NUM
  BY <1>3, <1>7, <1>9, Constants
<1>11. Small(size)
  BY <1>8, <1>9, <1>10, Constants, PsizeLeast DEF Small
<1>12. QED
  BY <1>2, <1>3, <1>5, <1>6, <1>7, <1>8, <1>9, <1>10, <1>11

\* A free area of m pages is taken, and what k pages leave of it is one.
SplitAt(e, e2, p, m, k) ==
  /\ m = Extent(e, p) /\ 0 < k /\ k <= m
  /\ e[p].file_name = NoName
  /\ Extent(e2, p) = k /\ e2[p].file_name # NoName
  /\ k < m => /\ p + k \in Pages /\ e2[p + k] = FreeArea(m - k)
              /\ Extent(e2, p + k) = m - k
  /\ \A q \in Pages \ {p} : q # p + k \/ k = m => e2[q] = e[q]

SplitPages(H, p, m, k) == IF k < m THEN H \cup {p + k} ELSE H

LEMMA SplitArea ==
  ASSUME NEW e \in [Pages -> Headers], NEW H \in SUBSET Pages, NEW end \in Nat,
         Divides(H, e, end), Filled(H, e),
         NEW p \in H, NEW m \in Nat, NEW k \in Nat, NEW e2, SplitAt(e, e2, p, m, k)
  PROVE  /\ Divides(SplitPages(H, p, m, k), e2, end)
         /\ Filled(SplitPages(H, p, m, k), e2)
         /\ \A h \in H \ {p} : e2[h] = e[h]
<1> USE DEF SplitAt
<1>0. PICK H2 : H2 = SplitPages(H, p, m, k)
  OBVIOUS
<1> USE <1>0 DEF SplitPages
<1>1. /\ \A h \in H : h \in Nat /\ Extent(e, h) \in Nat
      /\ p \in Nat /\ p < end
  BY ExtentType DEF Divides
<1>2. /\ p + m \in H \cup {end} /\ p + m <= end
      /\ \A q \in H : p < q => p + m <= q
  BY <1>1 DEF Divides
<1>3. ASSUME NEW h \in H \ {p}
      PROVE  /\ e2[h] = e[h] /\ Extent(e2, h) = Extent(e, h)
             /\ ~(p < h /\ h < p + m)
  <2>1. ~(p < h /\ h < p + m)
    BY <1>1, <1>2
  <2>2. h # p + k \/ k = m
    BY <1>1, <2>1
  <2>3. QED
    BY <2>1, <2>2 DEF Extent
<1>4. Divides(H2, e2, end)
  <2>1. end > 0 => 0 \in H2
    BY DEF Divides
  <2>2. ASSUME NEW x \in H2
        PROVE  /\ x < end /\ Extent(e2, x) > 0
               /\ x + Extent(e2, x) \in H2 \cup {end}
               /\ \A q \in H2 : x < q => x + Extent(e2, x) <= q
    <3>1. CASE x = p
      BY <1>1, <1>2, <3>1
    <3>2. CASE k < m /\ x = p + k
      <4>1. x + (m - k) = p + m
        BY <1>1, <3>2
      <4>2. x < end /\ \A q \in H2 : x < q => p + m <= q
        BY <1>1, <1>2, <3>2
      <4>3. QED
        BY <1>2, <3>2, <4>1, <4>2
    <3>3. CASE x \in H \ {p}
      <4>1. PICK y \in Nat : y = Extent(e, x)
        BY <1>1, <3>3
      <4>2. /\ x < end /\ y > 0 /\ x + y \in H \cup {end}
            /\ \A q \in H : x < q => x + y <= q
        BY <3>3, <4>1 DEF Divides
      <4>3. k < m /\ x < p + k => x + y <= p + k
        BY <1>1, <1>3, <3>3, <4>1, <4>2
      <4>4. QED
        BY <1>3, <3>3, <4>1, <4>2, <4>3
    <3>4. QED
      BY <3>1, <3>2, <3>3
  <2>3. QED
    BY <2>1, <2>2 DEF Divides
<1>5. Filled(H2, e2)
  <2>1. SUFFICES ASSUME NEW x \in H2, e2[x].file_name = NoName
                 PROVE  /\ e2[x] = FreeArea(Extent(e2, x))
                        /\ x + Extent(e2, x) \in H2 =>
                             e2[x + Extent(e2, x)].file_name # NoName
    BY DEF Filled
  <2>2. CASE k < m /\ x = p + k
    <3>1. x + (m - k) = p + m /\ p + m # p + k /\ p + m # p
      BY <1>1, <2>2
    <3>2. p + m \in H2 => p + m \in H \ {p}
      BY <3>1
    <3>3. p + m \in H => e[p + m].file_name # NoName
      BY DEF Filled
    <3>4. QED
      BY <1>3, <2>2, <3>1, <3>2, <3>3
  <2>3. CASE x \in H \ {p}
    <3>1. PICK y \in Nat : y = Extent(e, x)
      BY <1>1, <2>3
    <3>2. e[x].file_name = NoName /\ e2[x] = e[x] /\ Extent(e2, x) = y
      BY <1>3, <2>1, <2>3, <3>1
    <3>3. /\ e[x] = FreeArea(y)
          /\ x + y \in H => e[x + y].file_name # NoName
      BY <2>3, <3>1, <3>2 DEF Filled
    <3>4. k < m => x + y # p + k
      <4>1. y > 0 /\ \A q \in H : x < q => x + y <= q
        BY <2>3, <3>1 DEF Divides
      <4>2. QED
        BY <1>1, <1>3, <2>3, <4>1
    <3>5. x + y \in H2 => x + y \in H
      BY <3>4
    <3>6. QED
      BY <1>3, <3>2, <3>3, <3>5
  <2>4. QED
    BY <2>1, <2>2, <2>3
<1>6. QED
  BY <1>3, <1>4, <1>5

LEMMA CreateKeeps ==
  ASSUME IInv, NEW n \in Names, NEW size \in SectionSizes, Create(n, size)
  PROVE  IInv'
<1>1. PICK p \in Areas : \E m, k \in 1..EEPROM_PAGE_NUM :
        /\ p = Least(LargeEnough(size))
        /\ eeprom[p].file_name = NoName
        /\ m = Extent(eeprom, p) /\ k = psize(size) /\ k <= m
        /\ p + m <= EEPROM_PAGE_NUM /\ Small(size) /\ size \in Nat
  BY CreateTakes DEF IInv
<1>2. PICK m \in 1..EEPROM_PAGE_NUM, k \in 1..EEPROM_PAGE_NUM :
        /\ p = Least(LargeEnough(size))
        /\ eeprom[p].file_name = NoName
        /\ m = Extent(eeprom, p) /\ k = psize(size) /\ k <= m
        /\ p + m <= EEPROM_PAGE_NUM /\ Small(size) /\ size \in Nat
  BY <1>1
<1>3. /\ EEPROM_PAGE_NUM \in Nat /\ EEPROM_PAGE_NUM \notin Pages
      /\ p \in Pages /\ p \in Nat /\ p < EEPROM_PAGE_NUM /\ m \in Nat /\ k \in Nat
  BY Constants, AreaTypes DEF IInv, Pages
<1>4. PICK hdr : hdr = [file_size |-> size, file_name |-> n]
  OBVIOUS
<1>5. hdr \in Headers /\ hdr.file_name = n /\ psize(hdr.file_size) = k
  BY <1>2, <1>4, Constants, SmallSizes DEF Headers
<1>6. /\ eeprom' = [eeprom EXCEPT ![p] = hdr]
      /\ pending' = Remainder(p, k)
      /\ live' = [live EXCEPT ![n] = {[page_no |-> p, size |-> size]}]
      /\ torn' = torn /\ Idle /\ ~Found(n)
  BY <1>2, <1>4 DEF Create
<1>7. Remainder(p, k) = IF k < m THEN [page_no |-> p + k, hdr |-> FreeArea(m - k)]
                        ELSE Nothing
  BY <1>2, <1>3, AreaTypes DEF Remainder, IInv
<1>8. k < m => /\ p + k \in Pages /\ p + k \in Nat /\ p + k > 0 /\ p + k # p
               /\ m - k \in 1..EEPROM_PAGE_NUM
  BY <1>2, <1>3 DEF Pages
<1>9. /\ eeprom \in [Pages -> Headers] /\ live \in [Names -> SUBSET SectionRecords]
      /\ \A q \in Pages : Fits(eeprom[q], q)
      /\ \A c \in Names : \A s, t \in live[c] : s = t
      /\ torn \in 0..EEPROM_PAGE_NUM
  BY DEF IInv, TypeInv
<1>10. Nothing.page_no = EEPROM_PAGE_NUM
  BY DEF Nothing
<1>11. Idle' <=> k = m
  <2>1. k < m => pending'.page_no = p + k /\ p + k # EEPROM_PAGE_NUM
    BY <1>3, <1>6, <1>7, <1>8
  <2>2. k = m => pending' = Nothing
    BY <1>3, <1>6, <1>7
  <2>3. QED
    BY <1>2, <1>3, <1>10, <2>1, <2>2 DEF Idle
<1>12. TypeInv'
  <2>1. eeprom' \in [Pages -> Headers]
    BY <1>5, <1>6, <1>9
  <2>2. \A q \in Pages : Fits(eeprom'[q], q)
    <3>1. Fits(hdr, p)
      BY <1>2, <1>3, <1>4, <1>5 DEF Fits
    <3>2. QED
      BY <1>3, <1>6, <1>9, <3>1
  <2>3. ASSUME k < m
        PROVE  /\ pending' \in [page_no : Pages, hdr : Headers]
               /\ Fits(pending'.hdr, pending'.page_no)
               /\ pending'.hdr.file_name = NoName
    <3>1. pending' = [page_no |-> p + k, hdr |-> FreeArea(m - k)]
      BY <1>6, <1>7, <2>3
    <3>2. /\ FreeArea(m - k) \in Headers /\ Small(FreeArea(m - k).file_size)
          /\ psize(FreeArea(m - k).file_size) = m - k
          /\ FreeArea(m - k).file_name = NoName
      BY <1>8, <2>3, FreeAreaExact
    <3>3. p + k + (m - k) <= EEPROM_PAGE_NUM
      BY <1>2, <1>3
    <3>4. QED
      BY <1>8, <2>3, <3>1, <3>2, <3>3 DEF Fits
  <2>4. live' \in [Names -> SUBSET SectionRecords]
    <3>1. [page_no |-> p, size |-> size] \in SectionRecords
      BY <1>3 DEF SectionRecords
    <3>2. QED
      BY <1>6, <1>9, <3>1
  <2>5. \A c \in Names : \A s, t \in live'[c] : s = t
    BY <1>6, <1>9
  <2>6. Idle' \/ k < m
    BY <1>2, <1>3, <1>11
  <2>7. QED
    BY <1>6, <1>9, <2>1, <2>2, <2>3, <2>4, <2>5, <2>6 DEF TypeInv
<1>13. PICK e2 : e2 = Completed'
  OBVIOUS
<1>14. /\ e2[p] = hdr
       /\ k < m => e2[p + k] = FreeArea(m - k)
       /\ \A q \in Pages \ {p} : q # p + k \/ k = m => e2[q] = eeprom[q]
  <2>1. CASE k = m
    <3>1. e2 = eeprom'
      BY <1>11, <1>13, <2>1 DEF Completed
    <3>2. QED
      BY <1>3, <1>6, <1>9, <2>1, <3>1
  <2>2. CASE k < m
    <3>1. pending'.page_no = p + k /\ pending'.hdr = FreeArea(m - k)
      BY <1>6, <1>7, <2>2
    <3>2. e2 = [eeprom' EXCEPT ![p + k] = FreeArea(m - k)]
      <4>1. ~Idle'
        BY <1>3, <1>11, <2>2
      <4>2. QED
        BY <1>13, <3>1, <4>1 DEF Completed
    <3>3. PICK mid \in [Pages -> Headers] : mid = eeprom'
      BY <1>5, <1>6, <1>9
    <3>4. mid[p] = hdr /\ \A q \in Pages \ {p} : mid[q] = eeprom[q]
      BY <1>3, <1>6, <1>9, <3>3
    <3>5. e2 = [mid EXCEPT ![p + k] = FreeArea(m - k)]
      BY <3>2, <3>3
    <3>6. QED
      BY <1>3, <1>8, <2>2, <3>3, <3>4, <3>5
  <2>3. QED
    BY <1>2, <1>3, <2>1, <2>2
<1>15. Completed = eeprom /\ Sound = torn
  BY <1>3, <1>6, <1>10, Constants DEF Completed, Sound, Idle
<1>16. Sound' = torn
  BY <1>2, <1>3, <1>6, <1>7, <1>8, <1>10, Constants DEF Sound
<1>17. PICK H \in SUBSET Pages, end \in 0..EEPROM_PAGE_NUM :
         /\ torn <= end
         /\ Divides(H, eeprom, end) /\ Filled(H, eeprom) /\ Owned(H, eeprom, live)
         /\ Kept(H, eeprom, live, torn)
  BY <1>15 DEF IInv, Good
<1>18. H \subseteq Areas /\ (p \in H \/ p >= end)
  <2>1. /\ H \subseteq AreasOf(eeprom)
        /\ \A q \in AreasOf(eeprom) : q \in H \/ q >= end
    BY <1>9, <1>17, WalkDivides
  <2>2. QED
    BY <2>1, WalkNow
<1>19. \A h \in H : eeprom[h].file_name # n
  BY <1>6, <1>18 DEF Found
<1>20. live'[n] = {[page_no |-> p, size |-> size]}
       /\ \A c \in Names \ {n} : live'[c] = live[c]
  BY <1>6, <1>9
<1>21. CASE p \in H
  <2>1. PICK H2 \in SUBSET Pages : H2 = IF k < m THEN H \cup {p + k} ELSE H
    BY <1>8
  <2>2. Extent(e2, p) = k /\ (k < m => Extent(e2, p + k) = m - k)
    BY <1>5, <1>8, <1>14, FreeAreaExact DEF Extent
  <2>3. n # NoName
    BY NamesAreNames
  <2>4. /\ Divides(H2, e2, end) /\ Filled(H2, e2)
        /\ \A h \in H \ {p} : e2[h] = eeprom[h]
    <3>1. e2[p].file_name # NoName /\ 0 < k /\ end \in Nat
      BY <1>3, <1>5, <1>14, <2>3
    <3>2. SplitAt(eeprom, e2, p, m, k)
      BY <1>2, <1>8, <1>14, <2>2, <3>1 DEF SplitAt
    <3>3. /\ Divides(SplitPages(H, p, m, k), e2, end)
          /\ Filled(SplitPages(H, p, m, k), e2)
          /\ \A h \in H \ {p} : e2[h] = eeprom[h]
      BY <1>3, <1>9, <1>17, <1>21, <3>1, <3>2, SplitArea
    <3>4. SplitPages(H, p, m, k) = H2
      BY <2>1 DEF SplitPages
    <3>5. QED
      BY <3>3, <3>4
  <2>5. Owned(H2, e2, live')
    <3>1. SUFFICES ASSUME NEW x \in H2, e2[x].file_name # NoName
                   PROVE  \E c \in Names :
                            /\ e2[x].file_name = c
                            /\ live'[c] = {[page_no |-> x, size |-> e2[x].file_size]}
      BY DEF Owned
    <3>2. CASE x = p
      BY <1>4, <1>14, <1>20, <3>2
    <3>3. CASE x \in H \ {p}
      <4>1. e2[x] = eeprom[x]
        BY <2>4, <3>3
      <4>2. PICK c \in Names :
              /\ eeprom[x].file_name = c
              /\ live[c] = {[page_no |-> x, size |-> eeprom[x].file_size]}
        BY <1>17, <3>1, <3>3, <4>1 DEF Owned
      <4>3. c # n
        BY <1>19, <3>3, <4>2
      <4>4. QED
        BY <1>20, <4>1, <4>2, <4>3
    <3>4. x # p + k \/ k = m
      BY <1>2, <1>3, <1>8, <1>14, <3>1, FreeAreaExact
    <3>5. QED
      BY <1>3, <2>1, <3>2, <3>3, <3>4
  <2>6. Kept(H2, e2, live', torn)
    <3>1. SUFFICES ASSUME NEW c \in Names, NEW s \in live'[c], s.page_no < torn
                   PROVE  /\ s.page_no \in H2
                          /\ e2[s.page_no] = [file_size |-> s.size, file_name |-> c]
      BY DEF Kept
    <3>2. CASE c = n
      <4>1. s = [page_no |-> p, size |-> size]
        BY <1>20, <3>2
      <4>2. s.page_no = p /\ s.size = size
        BY <4>1
      <4>3. QED
        BY <1>4, <1>14, <1>21, <2>1, <3>2, <4>2
    <3>3. CASE c # n
      <4>1. s \in live[c]
        BY <1>20, <3>3
      <4>2. /\ s.page_no \in H
            /\ eeprom[s.page_no] = [file_size |-> s.size, file_name |-> c]
        BY <1>17, <3>1, <4>1 DEF Kept
      <4>3. s.page_no # p
        BY <1>2, <4>2, NamesAreNames
      <4>4. QED
        BY <2>1, <2>4, <4>2, <4>3
    <3>4. QED
      BY <3>2, <3>3
  <2>7. pending'.page_no \in H2 \/ pending'.page_no >= end
    BY <1>2, <1>3, <1>6, <1>7, <1>10, <2>1
  <2>8. Good(e2, live', torn, pending'.page_no)
    BY <1>17, <2>4, <2>5, <2>6, <2>7 DEF Good
  <2>9. QED
    BY <1>12, <1>13, <1>16, <2>8 DEF IInv
<1>22. CASE p \notin H
  <2>1. p >= end /\ \A h \in H : h < end /\ h \in Nat /\ h \in Pages
    BY <1>17, <1>18, <1>22 DEF Divides, Pages
  <2>2. SameHeaders(H, eeprom, e2)
    BY <1>2, <1>3, <1>14, <2>1 DEF SameHeaders
  <2>3. SameSections(H, eeprom, live, live', torn)
    <3>1. \A s \in live'[n] : s.page_no = p
      BY <1>20
    <3>2. ~(p < torn)
      BY <1>3, <1>9, <1>17, <2>1
    <3>3. QED
      BY <1>19, <1>20, <3>1, <3>2 DEF SameSections
  <2>4. /\ Divides(H, e2, end) /\ Filled(H, e2) /\ Owned(H, e2, live')
        /\ Kept(H, e2, live', torn)
    BY <1>17, <2>2, <2>3, SameAreas
  <2>5. pending'.page_no >= end
    BY <1>2, <1>3, <1>6, <1>7, <1>10, <1>17, <2>1
  <2>6. Good(e2, live', torn, pending'.page_no)
    BY <1>17, <2>4, <2>5 DEF Good
  <2>7. QED
    BY <1>12, <1>13, <1>16, <2>6 DEF IInv
<1>23. QED
  BY <1>21, <1>22

-----------------------------------------------------------------------------
(* EEPROM_DeleteSection.                                                   *)

LEMMA FoundFirst ==
  ASSUME TypeInv, NEW n \in Names, Found(n)
  PROVE  /\ FindSection(n).page_no \in Areas
         /\ eeprom[FindSection(n).page_no].file_name = n
         /\ \A q \in Areas : eeprom[q].file_name = n => FindSection(n).page_no <= q
<1> DEFINE S == {q \in Areas : eeprom[q].file_name = n}
<1>1. S # {} /\ S \subseteq Nat
  BY AreaTypes DEF Found
<1>2. FindSection(n).page_no = Least(S)
  BY DEF FindSection
<1> HIDE DEF S
<1>3. Least(S) \in S /\ \A q \in S : Least(S) <= q
  BY <1>1, LeastIsLeast
<1>4. QED
  BY <1>2, <1>3 DEF S

\* The area before p is a free one, or p itself when there is none.
IsBefore(p, q) == q \in Areas /\ IsFree(q) /\ q + PagesAt(q) = p

LEMMA MergedBeforeIs ==
  ASSUME TypeInv, NEW n \in Names, NEW p \in Areas, eeprom[p].file_name = n
  PROVE  \E a \in Areas : \E b \in Nat :
           /\ MergedBefore(p) = [page_no |-> a, bytes |-> b]
           /\ a <= p /\ Small(b) /\ a + psize(b) <= EEPROM_PAGE_NUM
           /\ \/ a = p /\ b = eeprom[p].file_size /\ \A q \in Areas : ~IsBefore(p, q)
              \/ /\ a < p /\ IsBefore(p, a)
                 /\ b = eeprom[p].file_size + eeprom[a].file_size + HEADER
<1>1. PICK x \in Nat : x = eeprom[p].file_size
  BY AreaTypes
<1>2. Small(x) /\ p + psize(x) <= EEPROM_PAGE_NUM /\ p \in Nat
  BY <1>1, AreaTypes, NamesAreNames DEF TypeInv, Fits
<1>3. PICK before : before = FreeBefore(p)
  OBVIOUS
<1>4. \A q : q \in before <=> IsBefore(p, q)
  BY <1>3 DEF FreeBefore, IsBefore
<1>5. CASE before = {}
  <2>1. MergedBefore(p) = [page_no |-> p, bytes |-> x]
    BY <1>1, <1>3, <1>5 DEF MergedBefore
  <2>2. QED
    BY <1>1, <1>2, <1>4, <1>5, <2>1
<1>6. CASE before # {}
  <2>1. PICK q : q = CHOOSE d \in FreeBefore(p) : TRUE
    OBVIOUS
  <2>2. IsBefore(p, q)
    BY <1>3, <1>4, <1>6, <2>1
  <2>3. q \in Areas /\ eeprom[q].file_name = NoName /\ q + Extent(eeprom, q) = p
    BY <2>2, AreaTypes DEF IsBefore, IsFree
  <2>4. PICK y \in Nat : y = eeprom[q].file_size
    BY <2>3, AreaTypes
  <2>5. Small(y) /\ q \in Nat /\ q + psize(y) = p
    BY <2>3, <2>4, AreaTypes, NamesAreNames DEF TypeInv, Fits, Extent
  <2>6. PICK j \in 1..EEPROM_PAGE_NUM : j = psize(x)
    BY <1>2, SmallSizes
  <2>7. PICK k \in 1..EEPROM_PAGE_NUM : k = psize(y)
    BY <2>5, SmallSizes
  <2>8. PICK b \in Nat : b = x + y + HEADER
    BY Constants
  <2>9. b + HEADER < UINT_MOD /\ psize(b) <= j + k
    BY <1>2, <2>5, <2>6, <2>7, <2>8, MergedSize
  <2>10. psize(b) \in Nat
    BY <2>9, PsizeCeiling
  <2>11. q + psize(b) <= EEPROM_PAGE_NUM /\ q < p
    BY <1>2, <2>5, <2>6, <2>7, <2>9, <2>10, Constants
  <2>12. Small(b)
    <3>1. psize(b) <= EEPROM_PAGE_NUM
      BY <2>5, <2>10, <2>11, Constants
    <3>2. QED
      BY <2>9, <3>1, Constants, PsizeLeast DEF Small
  <2>13. MergedBefore(p) = [page_no |-> q, bytes |-> b]
    <3>1. MergedBefore(p) = [page_no |-> q,
                             bytes |-> eeprom[p].file_size + eeprom[q].file_size + HEADER]
      BY <1>3, <1>6, <2>1 DEF MergedBefore
    <3>2. QED
      BY <1>1, <2>4, <2>8, <3>1
  <2>14. q <= p
    BY <1>2, <2>5, <2>11
  <2>15. QED
    BY <1>1, <2>2, <2>3, <2>4, <2>8, <2>11, <2>12, <2>13, <2>14
<1>7. QED
  BY <1>5, <1>6

\* The area after it is swallowed if it is free.
LEMMA MergedAfterIs ==
  ASSUME TypeInv, NEW a \in Nat, NEW b \in Nat, Small(b), a + psize(b) <= EEPROM_PAGE_NUM
  PROVE  \E b2 \in Nat : \E next \in Nat :
           /\ MergedAfter([page_no |-> a, bytes |-> b]) = [page_no |-> a, bytes |-> b2]
           /\ next = a + psize(b)
           /\ Small(b2) /\ a + psize(b2) <= EEPROM_PAGE_NUM
           /\ \/ b2 = b /\ ~(next \in Pages /\ IsFree(next))
              \/ /\ next \in Pages /\ IsFree(next)
                 /\ b2 = b + eeprom[next].file_size + HEADER
                 /\ next <= a + psize(b2)
<1>1. PICK j \in 1..EEPROM_PAGE_NUM : j = psize(b)
  BY SmallSizes
<1>2. PICK next \in Nat : next = a + psize(b)
  BY <1>1
<1>3. PICK area : area = [page_no |-> a, bytes |-> b]
  OBVIOUS
<1>4. MergedAfter(area) =
        IF next \in Pages /\ IsFree(next)
        THEN [area EXCEPT !.bytes = @ + eeprom[next].file_size + HEADER]
        ELSE area
  BY <1>2, <1>3 DEF MergedAfter
<1>5. CASE ~(next \in Pages /\ IsFree(next))
  BY <1>2, <1>3, <1>4, <1>5
<1>6. CASE next \in Pages /\ IsFree(next)
  <2>1. PICK y \in Nat : y = eeprom[next].file_size
    BY <1>6, Constants DEF TypeInv, Headers
  <2>2. Small(y) /\ next + psize(y) <= EEPROM_PAGE_NUM
    BY <1>6, <2>1, NamesAreNames DEF TypeInv, Fits, IsFree
  <2>3. PICK k \in 1..EEPROM_PAGE_NUM : k = psize(y)
    BY <2>2, SmallSizes
  <2>4. PICK b2 \in Nat : b2 = b + y + HEADER
    BY Constants
  <2>5. b2 + HEADER < UINT_MOD /\ psize(b2) <= j + k /\ psize(b2) >= j
    BY <1>1, <2>2, <2>3, <2>4, MergedSize
  <2>6. psize(b2) \in Nat
    BY <2>5, PsizeCeiling
  <2>7. a + psize(b2) <= EEPROM_PAGE_NUM /\ next <= a + psize(b2)
    BY <1>1, <1>2, <2>2, <2>3, <2>5, <2>6, Constants
  <2>8. Small(b2)
    <3>1. psize(b2) <= EEPROM_PAGE_NUM
      BY <2>6, <2>7, Constants
    <3>2. QED
      BY <2>5, <3>1, Constants, PsizeLeast DEF Small
  <2>9. MergedAfter(area) = [page_no |-> a, bytes |-> b2]
    BY <1>3, <1>4, <1>6, <2>1, <2>4
  <2>10. QED
    BY <1>2, <1>3, <1>6, <2>1, <2>4, <2>7, <2>8, <2>9
<1>7. QED
  BY <1>5, <1>6

\* All that is known of what is made one area, from page a up to page d: it
\* is the section on page p with what is free before and after it.
Merged(p, a, d) ==
  /\ a <= p
  /\ IF a = p THEN \A q \in Areas : ~IsBefore(p, q) ELSE IsBefore(p, a)
  /\ a = p \/ eeprom[a] = FreeArea(Extent(eeprom, a)) =>
       LET next == p + Extent(eeprom, p)
       IN \/ d = next /\ ~(next \in Pages /\ IsFree(next))
          \/ /\ next \in Pages /\ IsFree(next) /\ next <= d
             /\ eeprom[next] = FreeArea(Extent(eeprom, next)) =>
                  d = next + Extent(eeprom, next)

LEMMA DeleteMerges ==
  ASSUME TypeInv, NEW n \in Names, Delete(n)
  PROVE  \E p, a \in Areas : \E k \in 1..EEPROM_PAGE_NUM :
           /\ p = FindSection(n).page_no
           /\ a + k <= EEPROM_PAGE_NUM
           /\ eeprom' = [eeprom EXCEPT ![a] = FreeArea(k)]
           /\ Merged(p, a, a + k)
<1>1. PICK p \in Areas : p = FindSection(n).page_no /\ eeprom[p].file_name = n
  BY FoundFirst DEF Delete
<1>2. PICK a \in Areas :
        \E b \in Nat :
           /\ MergedBefore(p) = [page_no |-> a, bytes |-> b]
           /\ a <= p /\ Small(b) /\ a + psize(b) <= EEPROM_PAGE_NUM
           /\ \/ a = p /\ b = eeprom[p].file_size /\ \A q \in Areas : ~IsBefore(p, q)
              \/ /\ a < p /\ IsBefore(p, a)
                 /\ b = eeprom[p].file_size + eeprom[a].file_size + HEADER
  BY <1>1, MergedBeforeIs
<1>3. PICK b \in Nat :
           /\ MergedBefore(p) = [page_no |-> a, bytes |-> b]
           /\ a <= p /\ Small(b) /\ a + psize(b) <= EEPROM_PAGE_NUM
           /\ \/ a = p /\ b = eeprom[p].file_size /\ \A q \in Areas : ~IsBefore(p, q)
              \/ /\ a < p /\ IsBefore(p, a)
                 /\ b = eeprom[p].file_size + eeprom[a].file_size + HEADER
  BY <1>2
<1>4. a \in Nat /\ p \in Nat /\ Extent(eeprom, p) \in Nat
  BY AreaTypes
<1>5. PICK c \in Nat :
        \E next \in Nat :
           /\ MergedAfter([page_no |-> a, bytes |-> b]) = [page_no |-> a, bytes |-> c]
           /\ next = a + psize(b)
           /\ Small(c) /\ a + psize(c) <= EEPROM_PAGE_NUM
           /\ \/ c = b /\ ~(next \in Pages /\ IsFree(next))
              \/ /\ next \in Pages /\ IsFree(next)
                 /\ c = b + eeprom[next].file_size + HEADER
                 /\ next <= a + psize(c)
  BY <1>3, <1>4, MergedAfterIs
<1>6. PICK next \in Nat :
           /\ MergedAfter([page_no |-> a, bytes |-> b]) = [page_no |-> a, bytes |-> c]
           /\ next = a + psize(b)
           /\ Small(c) /\ a + psize(c) <= EEPROM_PAGE_NUM
           /\ \/ c = b /\ ~(next \in Pages /\ IsFree(next))
              \/ /\ next \in Pages /\ IsFree(next)
                 /\ c = b + eeprom[next].file_size + HEADER
                 /\ next <= a + psize(c)
  BY <1>5
<1>7. PICK k \in 1..EEPROM_PAGE_NUM : k = psize(c)
  BY <1>6, SmallSizes
<1>8. eeprom' = [eeprom EXCEPT ![a] = FreeArea(k)]
  <2>1. MergedAfter(MergedBefore(FindSection(n).page_no)) = [page_no |-> a, bytes |-> c]
    BY <1>1, <1>3, <1>6
  <2>2. QED
    BY <1>7, <2>1 DEF Delete
<1>9. IF a = p THEN \A q \in Areas : ~IsBefore(p, q) ELSE IsBefore(p, a)
  BY <1>3, <1>4
<1>10. ASSUME a = p \/ eeprom[a] = FreeArea(Extent(eeprom, a))
       PROVE  next = p + Extent(eeprom, p)
  <2>1. PICK x \in Nat : x = eeprom[p].file_size
    BY AreaTypes
  <2>2. PICK y \in Nat : y = eeprom[a].file_size
    BY AreaTypes
  <2>3. psize(x) = Extent(eeprom, p)
    BY <2>1 DEF Extent
  <2>4. CASE a = p
    BY <1>3, <1>4, <1>6, <2>1, <2>3, <2>4
  <2>5. CASE a # p
    <3>1. IsBefore(p, a) /\ b = x + y + HEADER
      BY <1>3, <2>1, <2>2, <2>5
    <3>2. a + Extent(eeprom, a) = p /\ eeprom[a].file_name = NoName
      BY <3>1, AreaTypes DEF IsBefore, IsFree
    <3>3. Small(x) /\ Small(y)
      BY <1>1, <2>1, <2>2, <3>2, AreaTypes, NamesAreNames DEF TypeInv, Fits
    <3>4. PICK j \in 1..EEPROM_PAGE_NUM : j = Extent(eeprom, a)
      BY <2>2, <3>3, SmallSizes DEF Extent
    <3>5. y + HEADER = EEPROM_PAGE_SIZE * j
      BY <1>10, <2>2, <2>5, <3>4, FreeAreaExact
    <3>6. psize(b) = j + psize(x)
      BY <3>1, <3>3, <3>4, <3>5, MergedSize
    <3>7. QED
      BY <1>4, <1>6, <2>3, <3>2, <3>4, <3>6
  <2>6. QED
    BY <2>4, <2>5
<1>11. ASSUME next \in Pages, IsFree(next), c = b + eeprom[next].file_size + HEADER,
              eeprom[next] = FreeArea(Extent(eeprom, next))
       PROVE  a + k = next + Extent(eeprom, next)
  <2>1. PICK y \in Nat : y = eeprom[next].file_size
    BY <1>11, Constants DEF TypeInv, Headers
  <2>2. Small(y)
    BY <1>11, <2>1, NamesAreNames DEF TypeInv, Fits, IsFree
  <2>3. PICK j \in 1..EEPROM_PAGE_NUM : j = Extent(eeprom, next)
    BY <2>1, <2>2, SmallSizes DEF Extent
  <2>4. y + HEADER = EEPROM_PAGE_SIZE * j
    BY <1>11, <2>1, <2>3, FreeAreaExact
  <2>5. psize(c) = j + psize(b)
    BY <1>3, <1>11, <2>1, <2>2, <2>3, <2>4, MergedSize
  <2>6. psize(b) \in Nat
    BY <1>3, SmallSizes
  <2>7. QED
    BY <1>4, <1>6, <1>7, <2>3, <2>5, <2>6
<1>12. Merged(p, a, a + k)
  <2>1. c = b => a + k = next
    BY <1>6, <1>7
  <2>2. QED
    BY <1>3, <1>6, <1>7, <1>9, <1>10, <1>11, <2>1 DEF Merged
<1>13. QED
  BY <1>1, <1>6, <1>7, <1>8, <1>12

\* The areas from page a up to page d become one.
LEMMA JoinAreas ==
  ASSUME TypeInv, NEW n \in Names, Found(n),
         NEW p \in Areas, p = FindSection(n).page_no,
         NEW H \in SUBSET Pages, NEW end \in 0..EEPROM_PAGE_NUM,
         Divides(H, eeprom, end), Filled(H, eeprom), Owned(H, eeprom, live),
         NEW bound \in 0..end, Kept(H, eeprom, live, bound),
         NEW a \in H, NEW k \in 1..EEPROM_PAGE_NUM, a + k <= EEPROM_PAGE_NUM,
         Merged(p, a, a + k),
         NEW e2, e2 = [eeprom EXCEPT ![a] = FreeArea(k)],
         NEW sections2, sections2 = [live EXCEPT ![n] = {}]
  PROVE  Good(e2, sections2, bound, EEPROM_PAGE_NUM)
<1>1. /\ eeprom \in [Pages -> Headers] /\ live \in [Names -> SUBSET SectionRecords]
      /\ EEPROM_PAGE_NUM \in Nat /\ k \in Nat /\ end \in Nat /\ bound \in Nat
      /\ \A h \in H : /\ h \in Nat /\ h < end /\ h \in Pages
                      /\ Extent(eeprom, h) \in Nat /\ Extent(eeprom, h) > 0
                      /\ h + Extent(eeprom, h) \in H \cup {end}
                      /\ \A q \in H : h < q => h + Extent(eeprom, h) <= q
  BY Constants, ExtentType DEF TypeInv, Divides
<1>2. H \subseteq Areas /\ \A q \in Areas : q \in H \/ q >= end
  <2>1. H \subseteq AreasOf(eeprom) /\ \A q \in AreasOf(eeprom) : q \in H \/ q >= end
    BY <1>1, WalkDivides
  <2>2. QED
    BY <2>1, WalkNow
<1>3. /\ eeprom[p].file_name = n /\ n # NoName
      /\ \A q \in Areas : eeprom[q].file_name = n => p <= q
  BY FoundFirst, NamesAreNames
<1>4. p \in Nat /\ p \in Pages /\ Extent(eeprom, p) \in Nat
  BY AreaTypes
<1>5. PICK d \in Nat : d = a + k /\ a < d /\ d <= EEPROM_PAGE_NUM
  BY <1>1
<1>6. PICK c \in Nat : c = p + Extent(eeprom, p)
  BY <1>4
<1>7. a # p => IsFree(a) /\ a + Extent(eeprom, a) = p /\ a < p
  <2>1. a # p => IsBefore(p, a) /\ a <= p
    BY DEF Merged
  <2>2. QED
    BY <1>1, <1>2, <1>4, <2>1, AreaTypes DEF IsBefore
<1>8. \/ d = c /\ ~(c \in Pages /\ IsFree(c))
      \/ /\ c \in Pages /\ IsFree(c) /\ c <= d
         /\ eeprom[c] = FreeArea(Extent(eeprom, c)) => d = c + Extent(eeprom, c)
  <2>1. a = p \/ eeprom[a] = FreeArea(Extent(eeprom, a))
    BY <1>7 DEF Filled, IsFree
  <2>2. QED
    BY <1>5, <1>6, <2>1 DEF Merged
<1>9. p \in H \/ p = end
  BY <1>1, <1>7
<1>10. p \in H => c \in H \cup {end} /\ p < c
  BY <1>1, <1>6
<1>11. c <= d /\ p <= c
  BY <1>1, <1>4, <1>6, <1>8
<1>12. d \in H \/ d >= end
  <2>1. CASE p = end
    BY <1>1, <1>11, <1>4, <2>1
  <2>2. CASE p \in H /\ c \in H /\ d # c
    <3>1. eeprom[c] = FreeArea(Extent(eeprom, c))
      BY <1>8, <2>2 DEF Filled, IsFree
    <3>2. d = c + Extent(eeprom, c)
      BY <1>8, <2>2, <3>1
    <3>3. QED
      BY <1>1, <2>2, <3>2
  <2>3. CASE p \in H /\ c \in H /\ d = c
    BY <2>3
  <2>4. CASE p \in H /\ c = end
    BY <1>1, <1>11, <2>4
  <2>5. QED
    BY <1>9, <1>10, <2>1, <2>2, <2>3, <2>4
\* Between a and d there are no headers but the one of the section and that
\* of a free area.
<1>13. ASSUME NEW y \in H, a < y, y < d
       PROVE  y = p \/ eeprom[y].file_name = NoName
  <2>1. y \in Nat /\ y < end
    BY <1>1
  <2>2. p <= y
    BY <1>1, <1>7, <1>13
  <2>3. p \in H
    BY <1>4, <1>9, <2>1, <2>2
  <2>4. SUFFICES ASSUME y # p PROVE eeprom[y].file_name = NoName
    OBVIOUS
  <2>5. c <= y
    BY <1>1, <1>4, <1>6, <2>1, <2>2, <2>3, <2>4
  <2>6. d # c /\ c \in Pages /\ IsFree(c)
    BY <1>8, <1>13, <2>1, <2>5
  <2>7. c \in H
    BY <1>1, <1>10, <2>1, <2>3, <2>5
  <2>8. d = c + Extent(eeprom, c)
    BY <1>8, <2>6, <2>7 DEF Filled, IsFree
  <2>9. y = c
    BY <1>1, <1>13, <2>1, <2>5, <2>7, <2>8
  <2>10. QED
    BY <2>6, <2>9 DEF IsFree
<1>14. PICK H2 \in SUBSET Pages : H2 = {h \in H : h <= a \/ h >= d}
  BY <1>1
<1>15. PICK end2 \in 0..EEPROM_PAGE_NUM : end2 = IF d \in H THEN end ELSE d
  BY <1>5
<1>16. end <= end2 /\ d <= end2
  BY <1>1, <1>12, <1>15
<1>17. /\ e2[a] = FreeArea(k) /\ Extent(e2, a) = k /\ e2[a].file_name = NoName
       /\ \A q \in Pages \ {a} : e2[q] = eeprom[q] /\ Extent(e2, q) = Extent(eeprom, q)
  BY <1>1, FreeAreaExact DEF Extent
<1>18. Divides(H2, e2, end2)
  <2>1. 0 \in H2
    BY <1>1, <1>14 DEF Divides
  <2>2. ASSUME NEW x \in H2
        PROVE  /\ x < end2 /\ Extent(e2, x) > 0
               /\ x + Extent(e2, x) \in H2 \cup {end2}
               /\ \A q \in H2 : x < q => x + Extent(e2, x) <= q
    <3>1. CASE x = a
      <4>1. d \in H2 \cup {end2}
        BY <1>1, <1>5, <1>14, <1>15
      <4>2. \A q \in H2 : a < q => d <= q
        BY <1>1, <1>14
      <4>3. a < end2 /\ k > 0
        BY <1>1, <1>15, <1>16
      <4>4. Extent(e2, x) = k /\ x + k = d
        BY <1>5, <1>17, <3>1
      <4>5. QED
        BY <3>1, <4>1, <4>2, <4>3, <4>4
    <3>2. CASE x # a
      <4>1. x \in H /\ x \in Nat /\ x < end2
        BY <1>1, <1>14, <1>16
      <4>2. PICK y \in Nat : y = Extent(eeprom, x)
        BY <1>1, <4>1
      <4>3. /\ y > 0 /\ x + y \in H \cup {end}
            /\ \A q \in H : x < q => x + y <= q
            /\ Extent(e2, x) = y
        BY <1>1, <1>17, <3>2, <4>1, <4>2
      <4>4. x + y \in H2 \cup {end2}
        <5>1. CASE x < a
          <6>1. x + y <= a
            BY <4>3, <5>1
          <6>2. QED
            BY <1>1, <1>14, <4>1, <4>3, <6>1
        <5>2. CASE ~(x < a)
          <6>1. x >= d
            BY <1>1, <1>14, <3>2, <4>1, <5>2
          <6>2. d \in H /\ end2 = end
            BY <1>1, <1>12, <1>15, <4>1, <6>1
          <6>3. QED
            BY <1>14, <4>1, <4>3, <6>1, <6>2
        <5>3. QED
          BY <5>1, <5>2
      <4>5. QED
        BY <1>14, <4>1, <4>3, <4>4
    <3>3. QED
      BY <3>1, <3>2
  <2>3. QED
    BY <2>1, <2>2 DEF Divides
<1>19. Filled(H2, e2)
  <2>1. SUFFICES ASSUME NEW x \in H2, e2[x].file_name = NoName
                 PROVE  /\ e2[x] = FreeArea(Extent(e2, x))
                        /\ x + Extent(e2, x) \in H2 =>
                             e2[x + Extent(e2, x)].file_name # NoName
    BY DEF Filled
  <2>2. CASE x = a
    <3>1. ASSUME d \in H PROVE eeprom[d].file_name # NoName
      <4>1. CASE d = c
        BY <1>1, <1>8, <3>1, <4>1 DEF IsFree, Filled
      <4>2. CASE d # c
        <5>1. c \in H
          BY <1>1, <1>4, <1>9, <1>10, <1>11, <3>1
        <5>2. eeprom[c].file_name = NoName
          BY <1>8, <4>2 DEF IsFree
        <5>3. d = c + Extent(eeprom, c)
          BY <1>8, <4>2, <5>1, <5>2 DEF Filled
        <5>4. QED
          BY <3>1, <5>1, <5>2, <5>3 DEF Filled
      <4>3. QED
        BY <4>1, <4>2
    <3>2. d \in H2 => d \in H /\ e2[d] = eeprom[d]
      BY <1>1, <1>5, <1>14, <1>17
    <3>3. QED
      BY <1>5, <1>17, <2>2, <3>1, <3>2
  <2>3. CASE x # a
    <3>1. x \in H /\ e2[x] = eeprom[x] /\ Extent(e2, x) = Extent(eeprom, x)
      BY <1>1, <1>14, <1>17, <2>3
    <3>2. PICK y \in Nat : y = Extent(eeprom, x)
      BY <1>1, <3>1
    <3>3. /\ eeprom[x] = FreeArea(y) /\ eeprom[x].file_name = NoName
          /\ x + y \in H => eeprom[x + y].file_name # NoName
      BY <2>1, <3>1, <3>2 DEF Filled
    <3>4. x + y # a
      <4>1. SUFFICES ASSUME x + y = a PROVE FALSE
        OBVIOUS
      <4>2. eeprom[a].file_name # NoName
        BY <3>3, <4>1
      <4>3. a = p
        BY <1>7, <4>2 DEF IsFree
      <4>4. ~IsBefore(p, x)
        BY <1>2, <3>1, <4>3 DEF Merged
      <4>5. QED
        BY <1>2, <3>1, <3>2, <3>3, <4>1, <4>3, <4>4, AreaTypes DEF IsBefore, IsFree
    <3>5. x + y \in H2 => x + y \in H /\ e2[x + y] = eeprom[x + y]
      BY <1>1, <1>14, <1>17, <3>4
    <3>6. QED
      BY <3>1, <3>2, <3>3, <3>5
  <2>4. QED
    BY <2>2, <2>3
<1>20. Owned(H2, e2, sections2)
  <2>1. SUFFICES ASSUME NEW x \in H2, e2[x].file_name # NoName
                 PROVE  \E m \in Names :
                          /\ e2[x].file_name = m
                          /\ sections2[m] = {[page_no |-> x, size |-> e2[x].file_size]}
    BY DEF Owned
  <2>2. x \in H /\ x # a /\ e2[x] = eeprom[x]
    BY <1>1, <1>14, <1>17, <2>1
  <2>3. PICK m \in Names :
          /\ eeprom[x].file_name = m
          /\ live[m] = {[page_no |-> x, size |-> eeprom[x].file_size]}
    BY <2>1, <2>2 DEF Owned
  <2>4. m # n
    <3>1. SUFFICES ASSUME m = n PROVE FALSE
      OBVIOUS
    <3>2. p <= x
      BY <1>2, <1>3, <2>2, <2>3, <3>1
    <3>3. p \in H
      BY <1>1, <1>4, <1>9, <2>2, <3>2
    <3>4. live[n] = {[page_no |-> p, size |-> eeprom[p].file_size]}
      BY <1>3, <3>3 DEF Owned
    <3>5. x = p
      <4>1. PICK r : r = [page_no |-> x, size |-> eeprom[x].file_size]
        OBVIOUS
      <4>2. r = [page_no |-> p, size |-> eeprom[p].file_size]
        BY <2>3, <3>1, <3>4, <4>1
      <4>3. r.page_no = x
        BY <4>1
      <4>4. QED
        BY <4>2, <4>3
    <3>6. p < d
      BY <1>4, <1>6, <1>10, <1>11, <3>3
    <3>7. a < p
      BY <1>7, <2>2, <3>5
    <3>8. QED
      BY <1>1, <1>4, <1>14, <3>5, <3>6, <3>7
  <2>5. sections2[m] = live[m]
    BY <1>1, <2>4
  <2>6. QED
    BY <2>2, <2>3, <2>5
<1>21. Kept(H2, e2, sections2, bound)
  <2>1. SUFFICES ASSUME NEW m \in Names, NEW s \in sections2[m], s.page_no < bound
                 PROVE  /\ s.page_no \in H2
                        /\ e2[s.page_no] = [file_size |-> s.size, file_name |-> m]
    BY DEF Kept
  <2>2. m # n /\ s \in live[m]
    BY <1>1, <2>1
  <2>3. PICK y \in H : y = s.page_no /\ eeprom[y] = [file_size |-> s.size, file_name |-> m]
    BY <2>1, <2>2 DEF Kept
  <2>4. eeprom[y].file_name = m /\ m # NoName
    BY <2>3, NamesAreNames
  <2>5. y # p /\ y # a
    BY <1>3, <1>7, <2>2, <2>4 DEF IsFree
  <2>6. ~(a < y /\ y < d)
    BY <1>13, <2>4, <2>5
  <2>7. y \in H2
    BY <1>1, <1>14, <2>6
  <2>8. QED
    BY <1>1, <1>17, <2>3, <2>5, <2>7
<1>22. bound <= end2 /\ EEPROM_PAGE_NUM >= end2
  BY <1>1, <1>15, <1>16
<1>23. QED
  BY <1>18, <1>19, <1>20, <1>21, <1>22 DEF Good

LEMMA DeleteKeeps ==
  ASSUME IInv, NEW n \in Names, Delete(n)
  PROVE  IInv'
<1>1. PICK p \in Areas, a \in Areas : \E k \in 1..EEPROM_PAGE_NUM :
           /\ p = FindSection(n).page_no
           /\ a + k <= EEPROM_PAGE_NUM
           /\ eeprom' = [eeprom EXCEPT ![a] = FreeArea(k)]
           /\ Merged(p, a, a + k)
  BY DeleteMerges DEF IInv
<1>2. PICK k \in 1..EEPROM_PAGE_NUM :
           /\ p = FindSection(n).page_no
           /\ a + k <= EEPROM_PAGE_NUM
           /\ eeprom' = [eeprom EXCEPT ![a] = FreeArea(k)]
           /\ Merged(p, a, a + k)
  BY <1>1
<1>3. /\ Idle /\ Idle' /\ Found(n) /\ pending' = pending /\ torn' = torn
      /\ live' = [live EXCEPT ![n] = {}]
  BY DEF Delete, Idle
<1>4. /\ eeprom \in [Pages -> Headers] /\ live \in [Names -> SUBSET SectionRecords]
      /\ \A q \in Pages : Fits(eeprom[q], q)
      /\ \A c \in Names : \A s, t \in live[c] : s = t
      /\ torn \in 0..EEPROM_PAGE_NUM /\ TypeInv
  BY DEF IInv, TypeInv
<1>5. /\ Completed = eeprom /\ Completed' = eeprom' /\ Sound = torn /\ Sound' = torn
      /\ pending.page_no = EEPROM_PAGE_NUM /\ pending'.page_no = EEPROM_PAGE_NUM
  <2>1. Nothing.page_no = EEPROM_PAGE_NUM /\ EEPROM_PAGE_NUM # 0
    BY Constants DEF Nothing
  <2>2. QED
    BY <1>3, <2>1 DEF Completed, Sound, Idle
<1>6. /\ FreeArea(k) \in Headers /\ Small(FreeArea(k).file_size)
      /\ psize(FreeArea(k).file_size) = k /\ FreeArea(k).file_name = NoName
  BY FreeAreaExact
<1>7. a \in Pages /\ a \in Nat /\ p \in Nat
  BY <1>4, AreaTypes
<1>8. TypeInv'
  <2>1. eeprom' \in [Pages -> Headers]
    BY <1>2, <1>4, <1>6
  <2>2. \A q \in Pages : Fits(eeprom'[q], q)
    <3>1. Fits(FreeArea(k), a)
      BY <1>2, <1>6 DEF Fits
    <3>2. QED
      BY <1>2, <1>4, <1>7, <3>1
  <2>3. live' \in [Names -> SUBSET SectionRecords]
    BY <1>3, <1>4
  <2>4. \A c \in Names : \A s, t \in live'[c] : s = t
    BY <1>3, <1>4
  <2>5. QED
    BY <1>3, <1>4, <2>1, <2>2, <2>3, <2>4 DEF TypeInv
<1>9. PICK H \in SUBSET Pages, end \in 0..EEPROM_PAGE_NUM :
         /\ torn <= end
         /\ Divides(H, eeprom, end) /\ Filled(H, eeprom) /\ Owned(H, eeprom, live)
         /\ Kept(H, eeprom, live, torn)
  BY <1>5 DEF IInv, Good
<1>10. H \subseteq Areas /\ \A q \in Areas : q \in H \/ q >= end
  <2>1. H \subseteq AreasOf(eeprom) /\ \A q \in AreasOf(eeprom) : q \in H \/ q >= end
    BY <1>4, <1>9, WalkDivides
  <2>2. QED
    BY <2>1, WalkNow
<1>11. PICK e2 : e2 = eeprom'
  OBVIOUS
<1>12. PICK sections2 : sections2 = live'
  OBVIOUS
<1>13. CASE a \in H
  <2>1. torn \in 0..end
    BY <1>4, <1>9
  <2>2. Good(e2, sections2, torn, EEPROM_PAGE_NUM)
    BY <1>2, <1>3, <1>4, <1>9, <1>11, <1>12, <1>13, <2>1, JoinAreas
  <2>3. QED
    BY <1>5, <1>8, <1>11, <1>12, <2>2 DEF IInv
<1>14. CASE a \notin H
  <2>1. \A h \in H : h \in Pages /\ h \in Nat /\ h < end /\ h # a
    BY <1>9, <1>14 DEF Divides, Pages
  <2>2. SameHeaders(H, eeprom, e2)
    BY <1>2, <1>4, <1>11, <2>1 DEF SameHeaders
  <2>3. ASSUME NEW h \in H PROVE eeprom[h].file_name # n
    <3>1. SUFFICES ASSUME eeprom[h].file_name = n PROVE FALSE
      OBVIOUS
    <3>2. p <= h
      BY <1>2, <1>3, <1>4, <1>10, <3>1, FoundFirst
    <3>3. a <= p
      BY <1>2 DEF Merged
    <3>4. QED
      BY <1>7, <1>9, <1>10, <1>14, <2>1, <3>2, <3>3
  <2>4. SameSections(H, eeprom, live, sections2, torn)
    BY <1>3, <1>4, <1>12, <2>3 DEF SameSections
  <2>5. /\ Divides(H, e2, end) /\ Filled(H, e2) /\ Owned(H, e2, sections2)
        /\ Kept(H, e2, sections2, torn)
    BY <1>9, <2>2, <2>4, SameAreas
  <2>6. Good(e2, sections2, torn, EEPROM_PAGE_NUM)
    BY <1>9, <2>5, Constants DEF Good
  <2>7. QED
    BY <1>5, <1>8, <1>11, <1>12, <2>6 DEF IInv
<1>15. QED
  BY <1>13, <1>14

-----------------------------------------------------------------------------
(* The other steps.                                                        *)

LEMMA LeastOfTwo ==
  ASSUME NEW a \in Nat, NEW b \in Nat
  PROVE  /\ Least({a, b}) \in {a, b} /\ Least({a, b}) \in Nat
         /\ Least({a, b}) <= a /\ Least({a, b}) <= b
<1> DEFINE S == {a, b}
<1>1. S \subseteq Nat /\ S # {} /\ a \in S /\ b \in S
  OBVIOUS
<1> HIDE DEF S
<1>2. Least(S) \in S /\ \A q \in S : Least(S) <= q
  BY <1>1, LeastIsLeast
<1>3. QED
  BY <1>1, <1>2 DEF S

\* A section is on as many pages as its header covers.
LEMMA SectionExtent ==
  ASSUME NEW s \in SectionRecords
  PROVE  /\ s.page_no \in Nat /\ psize(s.size) \in Nat /\ psize(s.size) > 0
         /\ SectionPages(s) = s.page_no..(s.page_no + psize(s.size) - 1)
<1>1. s.page_no \in Nat
  BY Constants DEF SectionRecords, Pages
<1>2. s.size \in 1..(EEPROM_PAGE_SIZE * EEPROM_PAGE_NUM)
  <2>1. EEPROM_PAGE_NUM * EEPROM_PAGE_SIZE = EEPROM_PAGE_SIZE * EEPROM_PAGE_NUM
    BY Constants
  <2>2. QED
    BY EepromAssumption, <2>1 DEF SectionRecords
<1>3. PICK b \in Nat : b = s.size
  BY <1>2, Constants
<1>4. b + HEADER < UINT_MOD /\ b > 0
  BY <1>2, <1>3, Constants
<1>5. PICK c \in Nat : c = HEADER + b - 1
  BY <1>4, Constants
<1>6. PICK t \in Nat : t = c \div EEPROM_PAGE_SIZE
  BY Constants
<1>7. PICK r \in 0..(EEPROM_PAGE_SIZE - 1) : r = c % EEPROM_PAGE_SIZE
  BY Constants
<1>8. c = EEPROM_PAGE_SIZE * t + r
  BY Constants, <1>6, <1>7
<1>9. /\ EEPROM_PAGE_SIZE * (t + 1) = EEPROM_PAGE_SIZE * t + EEPROM_PAGE_SIZE
      /\ EEPROM_PAGE_SIZE * t \in Nat
  BY Constants
<1>10. b + HEADER <= EEPROM_PAGE_SIZE * (t + 1) /\ ~(b + HEADER <= EEPROM_PAGE_SIZE * t)
  BY Constants, <1>5, <1>7, <1>8, <1>9
<1>11. psize(b) <= t + 1 /\ ~(psize(b) <= t)
  BY <1>4, <1>10, PsizeLeast
<1>12. psize(b) = t + 1
  BY <1>4, <1>11, PsizeCeiling
<1>13. QED
  BY <1>1, <1>3, <1>5, <1>6, <1>12 DEF SectionPages

LEMMA NothingPending ==
  ASSUME Idle
  PROVE  /\ pending.page_no = EEPROM_PAGE_NUM
         /\ Completed = eeprom /\ Sound = torn
BY Constants DEF Idle, Nothing, Completed, Sound

LEMMA NothingPendingNext ==
  ASSUME pending' = Nothing
  PROVE  /\ pending'.page_no = EEPROM_PAGE_NUM /\ Idle'
         /\ Completed' = eeprom' /\ Sound' = torn'
BY Constants DEF Idle, Nothing, Completed, Sound

\* What is there now is sound up to the header that is missing.
LEMMA SoundNow ==
  ASSUME IInv
  PROVE  /\ Least({torn, pending.page_no}) \in 0..EEPROM_PAGE_NUM
         /\ Good(eeprom, live, Least({torn, pending.page_no}), EEPROM_PAGE_NUM)
<1>1. /\ torn \in Nat /\ torn <= EEPROM_PAGE_NUM
      /\ EEPROM_PAGE_NUM \in Nat /\ eeprom \in [Pages -> Headers]
      /\ live \in [Names -> SUBSET SectionRecords]
  BY Constants DEF IInv, TypeInv
<1>2. /\ pending.page_no \in Nat /\ Completed \in [Pages -> Headers]
      /\ \A p \in Pages : p # pending.page_no => eeprom[p] = Completed[p]
  <2>1. CASE Idle
    BY <1>1, <2>1, NothingPending
  <2>2. CASE ~Idle
    <3>1. pending \in [page_no : Pages, hdr : Headers]
      BY <2>2 DEF IInv, TypeInv
    <3>2. Completed = [eeprom EXCEPT ![pending.page_no] = pending.hdr]
      BY <2>2 DEF Completed
    <3>3. QED
      BY <1>1, <3>1, <3>2 DEF Pages
  <2>3. QED
    BY <2>1, <2>2
<1>3. PICK x \in Nat : /\ x = Least({torn, pending.page_no})
                       /\ x <= torn /\ x <= pending.page_no
  BY <1>1, <1>2, LeastOfTwo
<1>4. Sound \in 0..EEPROM_PAGE_NUM /\ x \in 0..Sound
  BY <1>1, <1>2, <1>3 DEF Sound
<1>5. \A p \in Pages : p < x => eeprom[p] = Completed[p]
  BY <1>2, <1>3 DEF Pages
<1>6. Good(Completed, live, Sound, pending.page_no)
  BY DEF IInv
<1>7. Good(eeprom, live, x, EEPROM_PAGE_NUM)
  BY <1>1, <1>2, <1>4, <1>5, <1>6, Restricted
<1>8. QED
  BY <1>1, <1>3, <1>7

LEMMA InitHolds == Init => IInv
<1>1. SUFFICES ASSUME Init PROVE IInv
  OBVIOUS
<1>2. ErasedPage \in Headers /\ ErasedPage.file_name = Other
  BY Constants DEF ErasedPage, Headers
<1>3. pending.page_no = EEPROM_PAGE_NUM /\ Completed = eeprom /\ Sound = 0 /\ Idle
  BY <1>1, NothingPending DEF Init, Idle
<1>4. TypeInv
  BY <1>1, <1>2, <1>3, Constants DEF Init, TypeInv, Fits
<1>5. /\ Divides({}, eeprom, 0) /\ Filled({}, eeprom) /\ Owned({}, eeprom, live)
      /\ Kept({}, eeprom, live, 0)
  BY <1>1 DEF Init, Divides, Filled, Owned, Kept
<1>6. {} \in SUBSET Pages /\ 0 \in 0..EEPROM_PAGE_NUM /\ 0 <= 0 /\ EEPROM_PAGE_NUM >= 0
  BY Constants
<1>7. Good(eeprom, live, 0, EEPROM_PAGE_NUM)
  BY <1>5, <1>6 DEF Good
<1>8. QED
  BY <1>3, <1>4, <1>7 DEF IInv

LEMMA FormatKeeps ==
  ASSUME IInv, Format
  PROVE  IInv'
<1>1. PICK k \in 1..EEPROM_PAGE_NUM : k = EEPROM_PAGE_NUM
  BY Constants
<1>2. /\ FreeArea(k) \in Headers /\ Small(FreeArea(k).file_size)
      /\ psize(FreeArea(k).file_size) = k /\ FreeArea(k).file_name = NoName
  BY FreeAreaExact
<1>3. /\ eeprom' = [p \in Pages |-> ErasedPage]
      /\ pending' = [page_no |-> 0, hdr |-> FreeArea(k)]
      /\ live' = [n \in Names |-> {}] /\ torn' = 0
  BY <1>1 DEF Format
<1>4. pending'.page_no = 0 /\ pending'.hdr = FreeArea(k)
  BY <1>3
<1>5. ErasedPage \in Headers /\ ErasedPage.file_name = Other
  BY Constants DEF ErasedPage, Headers
<1>6. 0 \in Pages /\ 0 \in 0..EEPROM_PAGE_NUM /\ k \in Nat /\ k > 0
  BY <1>1, Constants DEF Pages
<1>7. TypeInv'
  <2>1. eeprom' \in [Pages -> Headers] /\ \A p \in Pages : Fits(eeprom'[p], p)
    BY <1>3, <1>5 DEF Fits
  <2>2. Fits(pending'.hdr, pending'.page_no)
    BY <1>1, <1>2, <1>4, <1>6 DEF Fits
  <2>3. pending' \in [page_no : Pages, hdr : Headers]
    BY <1>2, <1>3, <1>6
  <2>4. QED
    BY <1>2, <1>3, <1>4, <1>6, <2>1, <2>2, <2>3 DEF TypeInv
<1>8. Sound' = EEPROM_PAGE_NUM
  BY <1>4 DEF Sound
<1>9. PICK e : e = Completed'
  OBVIOUS
<1>10. e[0] = FreeArea(k)
  <2>1. ~Idle'
    BY <1>4, Constants DEF Idle, Nothing
  <2>2. e = [eeprom' EXCEPT ![0] = FreeArea(k)]
    BY <1>4, <1>9, <2>1 DEF Completed
  <2>3. QED
    BY <1>3, <1>6, <2>2
<1>11. Extent(e, 0) = k /\ e[0].file_name = NoName
  BY <1>2, <1>10 DEF Extent
<1>12. PICK H \in SUBSET Pages : H = {0}
  BY <1>6
<1>13. Divides(H, e, k)
  BY <1>6, <1>11, <1>12 DEF Divides
<1>14. Filled(H, e)
  BY <1>6, <1>10, <1>11, <1>12 DEF Filled
<1>15. Owned(H, e, live')
  BY <1>11, <1>12 DEF Owned
<1>16. Kept(H, e, live', k)
  BY <1>3 DEF Kept
<1>17. k \in 0..EEPROM_PAGE_NUM /\ k <= k /\ pending'.page_no \in H
  BY <1>4, <1>6, <1>12
<1>18. Good(e, live', k, pending'.page_no)
  BY <1>13, <1>14, <1>15, <1>16, <1>17 DEF Good
<1>19. QED
  BY <1>1, <1>7, <1>8, <1>9, <1>18 DEF IInv

LEMMA WriteHeaderKeeps ==
  ASSUME IInv, WriteHeader
  PROVE  IInv'
<1>1. /\ ~Idle /\ pending' = Nothing /\ live' = live
      /\ eeprom' = [eeprom EXCEPT ![pending.page_no] = pending.hdr]
      /\ torn' = Sound
  BY DEF WriteHeader, Sound
<1>2. /\ eeprom \in [Pages -> Headers] /\ \A q \in Pages : Fits(eeprom[q], q)
      /\ pending \in [page_no : Pages, hdr : Headers]
      /\ Fits(pending.hdr, pending.page_no)
      /\ torn \in 0..EEPROM_PAGE_NUM
  BY <1>1 DEF IInv, TypeInv
<1>3. /\ pending'.page_no = EEPROM_PAGE_NUM /\ Idle'
      /\ Completed' = eeprom' /\ Sound' = torn'
  BY <1>1, NothingPendingNext
<1>4. Completed = eeprom'
  BY <1>1 DEF Completed
<1>5. TypeInv'
  <2>1. eeprom' \in [Pages -> Headers] /\ \A q \in Pages : Fits(eeprom'[q], q)
    BY <1>1, <1>2
  <2>2. torn' \in 0..EEPROM_PAGE_NUM
    BY <1>1, <1>2, Constants DEF Sound
  <2>3. QED
    BY <1>1, <1>3, <2>1, <2>2 DEF IInv, TypeInv
<1>6. PICK H \in SUBSET Pages, end \in 0..EEPROM_PAGE_NUM :
        /\ Sound <= end
        /\ Divides(H, Completed, end) /\ Filled(H, Completed)
        /\ Owned(H, Completed, live) /\ Kept(H, Completed, live, Sound)
  BY DEF IInv, Good
<1>7. EEPROM_PAGE_NUM >= end
  BY Constants
<1>8. Good(Completed, live, Sound, EEPROM_PAGE_NUM)
  BY <1>6, <1>7 DEF Good
<1>9. QED
  BY <1>1, <1>3, <1>4, <1>5, <1>8 DEF IInv

LEMMA PowerLossKeeps ==
  ASSUME IInv, PowerLoss
  PROVE  IInv'
<1>1. /\ pending' = Nothing /\ live' = live /\ eeprom' = eeprom
      /\ torn' = Least({torn, pending.page_no})
  BY DEF PowerLoss
<1>2. /\ pending'.page_no = EEPROM_PAGE_NUM /\ Idle'
      /\ Completed' = eeprom' /\ Sound' = torn'
  BY <1>1, NothingPendingNext
<1>3. torn' \in 0..EEPROM_PAGE_NUM /\ Good(eeprom, live, torn', EEPROM_PAGE_NUM)
  BY <1>1, SoundNow
<1>4. TypeInv'
  BY <1>1, <1>2, <1>3 DEF IInv, TypeInv
<1>5. QED
  BY <1>1, <1>2, <1>3, <1>4 DEF IInv

\* What a section's owner writes is not taken for a header, unless the
\* section lies behind a header that was lost.
LEMMA WriteDataKeeps ==
  ASSUME IInv, NEW n \in Names, WriteData(n)
  PROVE  IInv'
<1>1. PICK s \in live[n], data \in {Zeros, Text} :
        \E q \in SectionPages(s) \ {s.page_no} : eeprom' = [eeprom EXCEPT ![q] = data]
  BY DEF WriteData
<1>2. PICK q \in SectionPages(s) \ {s.page_no} : eeprom' = [eeprom EXCEPT ![q] = data]
  BY <1>1
<1>3. /\ Idle /\ Idle' /\ pending' = pending /\ live' = live /\ torn' = torn
  BY DEF WriteData, Idle
<1>4. /\ eeprom \in [Pages -> Headers] /\ \A p \in Pages : Fits(eeprom[p], p)
      /\ live \in [Names -> SUBSET SectionRecords]
      /\ torn \in 0..EEPROM_PAGE_NUM /\ torn \in Nat
  BY Constants DEF IInv, TypeInv
<1>5. s \in SectionRecords
  BY <1>4
<1>6. /\ s.page_no \in Nat /\ q \in Int /\ psize(s.size) \in Nat
      /\ s.page_no < q /\ q < s.page_no + psize(s.size)
  BY <1>2, <1>5, SectionExtent
<1>7. /\ pending.page_no = EEPROM_PAGE_NUM
      /\ Completed = eeprom /\ Sound = torn /\ Completed' = eeprom' /\ Sound' = torn
  BY <1>3, NothingPending, NothingPendingNext DEF Idle
<1>8. TypeInv'
  <2>1. data \in Headers
    <3>1. Zeros \in Headers
      BY Constants DEF Zeros, Headers
    <3>2. Text \in Headers
      <4>1. EEPROM_PAGE_NUM * EEPROM_PAGE_SIZE = EEPROM_PAGE_SIZE * EEPROM_PAGE_NUM
        BY Constants
      <4>2. QED
        BY <4>1, Constants DEF Text, Headers
    <3>3. QED
      BY <3>1, <3>2
  <2>2. ASSUME NEW p \in Pages PROVE Fits(data, p)
    <3>1. Fits(Text, p)
      BY DEF Text, Fits
    <3>2. Fits(Zeros, p)
      <4>1. Zeros.file_size = 0 /\ p \in Nat /\ p < EEPROM_PAGE_NUM
        BY Constants DEF Zeros, Pages
      <4>2. 0 + HEADER < UINT_MOD /\ 0 + HEADER <= EEPROM_PAGE_SIZE * 1 /\ Small(0)
        BY Constants DEF Small
      <4>3. psize(0) <= 1 /\ psize(0) \in Nat
        BY <4>2, PsizeLeast, PsizeCeiling
      <4>4. p + psize(0) <= EEPROM_PAGE_NUM
        BY <4>1, <4>3, Constants
      <4>5. QED
        BY <4>1, <4>2, <4>4 DEF Fits
    <3>3. QED
      BY <3>1, <3>2
  <2>3. eeprom' \in [Pages -> Headers] /\ \A p \in Pages : Fits(eeprom'[p], p)
    BY <1>2, <1>4, <2>1, <2>2
  <2>4. QED
    BY <1>3, <2>3 DEF IInv, TypeInv
<1>9. PICK e2 : e2 = eeprom'
  OBVIOUS
<1>10. \A p \in Pages : p # q => e2[p] = eeprom[p]
  BY <1>2, <1>4, <1>9
<1>11. Good(e2, live, torn, EEPROM_PAGE_NUM)
  <2>1. Good(eeprom, live, torn, EEPROM_PAGE_NUM)
    BY <1>7 DEF IInv
  <2>2. CASE s.page_no < torn
    <3>1. PICK H \in SUBSET Pages, end \in 0..EEPROM_PAGE_NUM :
            /\ torn <= end
            /\ Divides(H, eeprom, end) /\ Filled(H, eeprom) /\ Owned(H, eeprom, live)
            /\ Kept(H, eeprom, live, torn)
      BY <2>1 DEF Good
    <3>2. /\ s.page_no \in H
          /\ eeprom[s.page_no] = [file_size |-> s.size, file_name |-> n]
      BY <2>2, <3>1 DEF Kept
    <3>3. Extent(eeprom, s.page_no) = psize(s.size)
      BY <3>2 DEF Extent
    <3>4. q \notin H
      BY <1>6, <3>1, <3>2, <3>3 DEF Divides
    <3>5. SameHeaders(H, eeprom, e2)
      BY <1>10, <3>4 DEF SameHeaders
    <3>6. SameSections(H, eeprom, live, live, torn)
      BY DEF SameSections
    <3>7. /\ Divides(H, e2, end) /\ Filled(H, e2) /\ Owned(H, e2, live)
          /\ Kept(H, e2, live, torn)
      BY <3>1, <3>5, <3>6, SameAreas
    <3>8. EEPROM_PAGE_NUM >= end
      BY Constants
    <3>9. QED
      BY <3>1, <3>7, <3>8 DEF Good
  <2>3. CASE ~(s.page_no < torn)
    <3>1. \A p \in Pages : p < torn => e2[p] = eeprom[p]
      BY <1>4, <1>6, <1>10, <2>3 DEF Pages
    <3>2. torn \in 0..torn
      BY <1>4
    <3>3. QED
      BY <1>4, <2>1, <3>1, <3>2, Restricted
  <2>4. QED
    BY <2>2, <2>3
<1>12. QED
  BY <1>3, <1>7, <1>8, <1>9, <1>11 DEF IInv

-----------------------------------------------------------------------------
(* The theorems.                                                           *)

\* The invariant: every area is where the headers before it say, as the EEPROM
\* is now or will be when the pending header is written (eeprom_fs.c:38-143).
THEOREM AreasHold == Spec => []IInv
<1>1. Init => IInv
  BY InitHolds
<1>2. IInv /\ [Next]_vars => IInv'
  <2>1. SUFFICES ASSUME IInv, [Next]_vars PROVE IInv'
    OBVIOUS
  <2>2. CASE \E n \in Names : \E size \in SectionSizes : Create(n, size)
    BY <2>1, <2>2, CreateKeeps
  <2>3. CASE \E n \in Names : Delete(n)
    BY <2>1, <2>3, DeleteKeeps
  <2>4. CASE \E n \in Names : WriteData(n)
    BY <2>1, <2>4, WriteDataKeeps
  <2>5. CASE WriteHeader
    BY <2>1, <2>5, WriteHeaderKeeps
  <2>6. CASE Format
    BY <2>1, <2>6, FormatKeeps
  <2>7. CASE PowerLoss
    BY <2>1, <2>7, PowerLossKeeps
  <2>8. CASE UNCHANGED vars
    <3>1. eeprom' = eeprom /\ pending' = pending /\ live' = live /\ torn' = torn
      BY <2>8 DEF vars
    <3>2. Idle' = Idle
      BY <3>1 DEF Idle
    <3>3. Completed' = Completed /\ Sound' = Sound
      BY <3>1, <3>2 DEF Completed, Sound
    <3>4. TypeInv'
      BY <2>1, <3>1, <3>2 DEF IInv, TypeInv
    <3>5. QED
      BY <2>1, <3>1, <3>3, <3>4 DEF IInv
  <2>9. QED
    BY <2>1, <2>2, <2>3, <2>4, <2>5, <2>6, <2>7, <2>8 DEF Next
<1>3. QED
  BY <1>1, <1>2, PTL DEF Spec

\* Every header is one, and a name has one section at most
\* (eeprom_fs.c:15-36).
THEOREM TypeCorrect == Spec => []TypeOK
<1>1. ASSUME TypeInv PROVE TypeOK
  <2>1. ASSUME NEW n \in Names PROVE Cardinality(live[n]) <= 1
    <3>1. CASE live[n] = {}
      <4>1. Cardinality({}) = 0
        BY FS_EmptySet
      <4>2. QED
        BY <3>1, <4>1
    <3>2. CASE live[n] # {}
      <4>1. PICK s \in live[n] : TRUE
        BY <3>2
      <4>2. live[n] = {s}
        BY <1>1, <4>1 DEF TypeInv
      <4>3. Cardinality({s}) = 1
        BY FS_Singleton
      <4>4. QED
        BY <4>2, <4>3
    <3>3. QED
      BY <3>1, <3>2
  <2>2. pending \in {Nothing} \cup [page_no : Pages, hdr : Headers]
    BY <1>1 DEF TypeInv, Idle
  <2>3. QED
    BY <1>1, <2>1, <2>2 DEF TypeInv, TypeOK
<1>2. QED
  BY <1>1, AreasHold, PTL DEF IInv

\* What the walk finds, between calls and while no header was lost, is what
\* the invariant speaks of.
LEMMA WholeAreas ==
  ASSUME IInv, Whole
  PROVE  /\ Divides(Areas, eeprom, EEPROM_PAGE_NUM)
         /\ Filled(Areas, eeprom) /\ Owned(Areas, eeprom, live)
         /\ WalkEnd = EEPROM_PAGE_NUM
<1>1. Completed = eeprom /\ Sound = torn /\ torn = EEPROM_PAGE_NUM
  BY NothingPending DEF Whole
<1>2. PICK H \in SUBSET Pages, end \in 0..EEPROM_PAGE_NUM :
        /\ EEPROM_PAGE_NUM <= end
        /\ Divides(H, eeprom, end) /\ Filled(H, eeprom) /\ Owned(H, eeprom, live)
  BY <1>1 DEF IInv, Good
<1>3. end = EEPROM_PAGE_NUM
  BY <1>2, Constants
<1>4. eeprom \in [Pages -> Headers]
  BY DEF IInv, TypeInv
<1>5. /\ H \subseteq AreasOf(eeprom)
      /\ \A p \in AreasOf(eeprom) : p \in H \/ p >= end
      /\ WalkOf(eeprom)[EEPROM_PAGE_NUM] = end
  BY <1>2, <1>3, <1>4, WalkDivides
<1>6. \A p \in AreasOf(eeprom) : ~(p >= end)
  BY <1>3, Constants DEF AreasOf, Pages
<1>7. Areas = H
  BY <1>5, <1>6, WalkNow
<1>8. QED
  BY <1>2, <1>3, <1>5, <1>7, WalkNow DEF WalkEnd

\* The walk ends at the last page's end, and every section on it was made by a
\* caller and not deleted since (eeprom_fs.c:15-143).
THEOREM AlwaysTiled == Spec => []Tiled
<1>1. ASSUME IInv PROVE Tiled
  <2>1. SUFFICES ASSUME Whole
                 PROVE  /\ WalkEnd = EEPROM_PAGE_NUM
                        /\ \A p \in Areas :
                             ~IsFree(p) => \E n \in Names : \E s \in live[n] :
                                             s.page_no = p /\ eeprom[p].file_name = n
    BY DEF Tiled
  <2>2. Owned(Areas, eeprom, live) /\ WalkEnd = EEPROM_PAGE_NUM
    BY <1>1, <2>1, WholeAreas
  <2>3. ASSUME NEW p \in Areas, ~IsFree(p)
        PROVE  \E n \in Names : \E s \in live[n] :
                 s.page_no = p /\ eeprom[p].file_name = n
    <3>1. PICK n \in Names :
            /\ eeprom[p].file_name = n
            /\ live[n] = {[page_no |-> p, size |-> eeprom[p].file_size]}
      BY <2>2, <2>3 DEF Owned, IsFree
    <3>2. PICK s : s = [page_no |-> p, size |-> eeprom[p].file_size]
      OBVIOUS
    <3>3. s \in live[n] /\ s.page_no = p
      BY <3>1, <3>2
    <3>4. QED
      BY <3>1, <3>3
  <2>4. QED
    BY <2>2, <2>3
<1>2. QED
  BY <1>1, AreasHold, PTL

\* Free areas never touch (eeprom_fs.c:115-132).
THEOREM AlwaysCoalesced == Spec => []Coalesced
<1>1. ASSUME IInv PROVE Coalesced
  <2>1. SUFFICES ASSUME Whole, NEW p \in Areas, IsFree(p),
                        p + PagesAt(p) \in Areas, IsFree(p + PagesAt(p))
                 PROVE  FALSE
    BY DEF Coalesced
  <2>2. Filled(Areas, eeprom)
    BY <1>1, <2>1, WholeAreas
  <2>3. PagesAt(p) = Extent(eeprom, p)
    BY DEF PagesAt, Extent
  <2>4. QED
    BY <2>1, <2>2, <2>3 DEF Filled, IsFree
<1>2. QED
  BY <1>1, AreasHold, PTL

\* A section before the headers that power losses took is found, where and as
\* large as it was made (eeprom_fs.c:58-65, :76-99).
THEOREM AlwaysFound == Spec => []FoundWhereCreated
<1>1. ASSUME IInv, NEW n \in Names, NEW s \in live[n],
             s.page_no + psize(s.size) <= Least({torn, pending.page_no})
      PROVE  Found(n) /\ FindSection(n) = s
  <2>1. PICK x \in 0..EEPROM_PAGE_NUM : /\ x = Least({torn, pending.page_no})
                                        /\ Good(eeprom, live, x, EEPROM_PAGE_NUM)
    BY <1>1, SoundNow
  <2>2. PICK H \in SUBSET Pages, end \in 0..EEPROM_PAGE_NUM :
          /\ x <= end
          /\ Divides(H, eeprom, end) /\ Owned(H, eeprom, live)
          /\ Kept(H, eeprom, live, x)
    BY <2>1 DEF Good
  <2>3. TypeInv /\ eeprom \in [Pages -> Headers] /\ s \in SectionRecords
    BY <1>1 DEF IInv, TypeInv
  <2>4. s.page_no \in Nat /\ s.page_no < x
    BY <1>1, <2>1, <2>3, SectionExtent
  <2>5. /\ s.page_no \in H
        /\ eeprom[s.page_no] = [file_size |-> s.size, file_name |-> n]
    BY <1>1, <2>2, <2>4 DEF Kept
  <2>6. eeprom[s.page_no].file_name = n
    BY <2>5
  <2>7. H \subseteq Areas /\ \A q \in Areas : q \in H \/ q >= end
    <3>1. H \subseteq AreasOf(eeprom) /\ \A q \in AreasOf(eeprom) : q \in H \/ q >= end
      BY <2>2, <2>3, WalkDivides
    <3>2. QED
      BY <3>1, WalkNow
  <2>8. Found(n)
    BY <2>5, <2>6, <2>7 DEF Found
  <2>9. PICK p : p = FindSection(n).page_no
    OBVIOUS
  <2>10. p \in Areas /\ eeprom[p].file_name = n /\ p <= s.page_no
    BY <2>3, <2>5, <2>6, <2>7, <2>8, <2>9, FoundFirst
  <2>11. p \in Nat
    BY <2>3, <2>10, AreaTypes
  <2>12. p \in H
    BY <2>1, <2>2, <2>4, <2>7, <2>10, <2>11
  <2>13. live[n] = {[page_no |-> p, size |-> eeprom[p].file_size]}
    <3>1. n # NoName
      BY NamesAreNames
    <3>2. QED
      BY <2>2, <2>10, <2>12, <3>1 DEF Owned
  <2>14. s = [page_no |-> p, size |-> eeprom[p].file_size]
    BY <1>1, <2>13
  <2>15. FindSection(n) = [page_no |-> p, size |-> eeprom[p].file_size]
    BY <2>9 DEF FindSection
  <2>16. QED
    BY <2>8, <2>14, <2>15
<1>2. IInv => FoundWhereCreated
  BY <1>1 DEF FoundWhereCreated
<1>3. QED
  BY <1>2, AreasHold, PTL

\* A header is not written inside a section, nor over its own header.
LEMMA HeaderElsewhere ==
  ASSUME NEW H \in SUBSET Pages, NEW e, NEW end, NEW sections, NEW bound \in Nat,
         Divides(H, e, end), Kept(H, e, sections, bound),
         NEW n \in Names, NEW s \in sections[n], s \in SectionRecords,
         s.page_no + psize(s.size) <= bound,
         NEW w \in Nat, w \in H \/ w >= bound, e[w].file_name # n
  PROVE  w \notin SectionPages(s)
<1>1. /\ s.page_no \in Nat /\ psize(s.size) \in Nat /\ psize(s.size) > 0
      /\ SectionPages(s) = s.page_no..(s.page_no + psize(s.size) - 1)
  BY SectionExtent
<1>2. /\ s.page_no \in H
      /\ e[s.page_no] = [file_size |-> s.size, file_name |-> n]
  BY <1>1 DEF Kept
<1>3. e[s.page_no].file_name = n /\ Extent(e, s.page_no) = psize(s.size)
  BY <1>2 DEF Extent
<1>4. w # s.page_no
  BY <1>3
<1>5. w \in H /\ s.page_no < w => s.page_no + psize(s.size) <= w
  BY <1>2, <1>3 DEF Divides
<1>6. QED
  BY <1>1, <1>4, <1>5

\* The header that a creation or a deletion writes at once is that of a free
\* area, or of the section that goes.
LEMMA CallUndisturbed ==
  ASSUME IInv, Idle, torn' = torn, NEW n \in Names,
         NEW w \in Areas, NEW hdr, eeprom' = [eeprom EXCEPT ![w] = hdr],
         eeprom[w].file_name # n,
         NEW s \in live[n], s.page_no + psize(s.size) <= torn',
         NEW q \in SectionPages(s)
  PROVE  eeprom'[q] = eeprom[q]
<1>1. PICK H \in SUBSET Pages, end \in 0..EEPROM_PAGE_NUM :
        /\ torn <= end /\ Divides(H, eeprom, end) /\ Kept(H, eeprom, live, torn)
  BY NothingPending DEF IInv, Good
<1>2. /\ TypeInv /\ eeprom \in [Pages -> Headers] /\ s \in SectionRecords
      /\ torn \in Nat
  BY Constants DEF IInv, TypeInv
<1>3. w \in Nat /\ w \in Pages
  BY <1>2, AreaTypes
<1>4. w \in H \/ w >= end
  <2>1. \A p \in AreasOf(eeprom) : p \in H \/ p >= end
    BY <1>1, <1>2, WalkDivides
  <2>2. QED
    BY <2>1, WalkNow
<1>5. w \in H \/ w >= torn
  BY <1>1, <1>2, <1>3, <1>4
<1>6. w \notin SectionPages(s)
  BY <1>1, <1>2, <1>3, <1>5, HeaderElsewhere
<1>7. QED
  BY <1>2, <1>6

LEMMA CreateUndisturbed ==
  ASSUME IInv, NEW m \in Names, NEW size \in SectionSizes, Create(m, size)
  PROVE  Undisturbed
<1>1. PICK p \in Areas : p = Least(LargeEnough(size)) /\ eeprom[p].file_name = NoName
  BY CreateTakes DEF IInv
<1>2. PICK hdr : hdr = [file_size |-> size, file_name |-> m]
  OBVIOUS
<1>3. Idle /\ torn' = torn /\ eeprom' = [eeprom EXCEPT ![p] = hdr]
  BY <1>1, <1>2 DEF Create
<1>4. ASSUME NEW n \in Names, NEW s \in live[n] \cap live'[n],
             s.page_no + psize(s.size) <= torn', NEW q \in SectionPages(s)
      PROVE  eeprom'[q] = eeprom[q]
  <2>1. s \in live[n] /\ eeprom[p].file_name # n
    BY <1>1, NamesAreNames
  <2>2. QED
    BY <1>3, <1>4, <2>1, CallUndisturbed
<1>5. QED
  BY <1>4 DEF Undisturbed

LEMMA DeleteUndisturbed ==
  ASSUME IInv, NEW m \in Names, Delete(m)
  PROVE  Undisturbed
<1>1. PICK p \in Areas, a \in Areas :
        \E k \in 1..EEPROM_PAGE_NUM :
          /\ p = FindSection(m).page_no
          /\ eeprom' = [eeprom EXCEPT ![a] = FreeArea(k)]
          /\ Merged(p, a, a + k)
  BY DeleteMerges DEF IInv
<1>2. PICK k \in 1..EEPROM_PAGE_NUM :
        /\ p = FindSection(m).page_no
        /\ eeprom' = [eeprom EXCEPT ![a] = FreeArea(k)]
        /\ Merged(p, a, a + k)
  BY <1>1
<1>3. Idle /\ torn' = torn /\ live' = [live EXCEPT ![m] = {}] /\ Found(m)
  BY DEF Delete
<1>4. eeprom[p].file_name = m
  BY <1>2, <1>3, FoundFirst DEF IInv
<1>5. eeprom[a].file_name = m \/ eeprom[a].file_name = NoName
  BY <1>2, <1>4 DEF Merged, IsBefore, IsFree
<1>6. ASSUME NEW n \in Names, NEW s \in live[n] \cap live'[n],
             s.page_no + psize(s.size) <= torn', NEW q \in SectionPages(s)
      PROVE  eeprom'[q] = eeprom[q]
  <2>1. n # m
    BY <1>3, <1>6 DEF IInv, TypeInv
  <2>2. s \in live[n] /\ eeprom[a].file_name # n
    BY <1>5, <2>1, NamesAreNames
  <2>3. PICK hdr : hdr = FreeArea(k)
    OBVIOUS
  <2>4. eeprom' = [eeprom EXCEPT ![a] = hdr]
    BY <1>2, <2>3
  <2>5. QED
    BY <1>3, <1>6, <2>2, <2>4, CallUndisturbed
<1>7. QED
  BY <1>6 DEF Undisturbed

LEMMA WriteHeaderUndisturbed ==
  ASSUME IInv, WriteHeader
  PROVE  Undisturbed
<1>1. /\ ~Idle /\ live' = live /\ torn' = Sound
      /\ eeprom' = [eeprom EXCEPT ![pending.page_no] = pending.hdr]
  BY DEF WriteHeader, Sound
<1>2. /\ eeprom \in [Pages -> Headers] /\ live \in [Names -> SUBSET SectionRecords]
      /\ pending \in [page_no : Pages, hdr : Headers]
      /\ pending.hdr.file_name = NoName
      /\ torn \in 0..EEPROM_PAGE_NUM
  BY <1>1 DEF IInv, TypeInv
<1>3. /\ pending.page_no \in Pages /\ pending.page_no \in Nat
      /\ Sound \in Nat
  BY <1>2, Constants DEF Sound, Pages
<1>4. PICK e : e = Completed
  OBVIOUS
<1>5. e[pending.page_no] = pending.hdr
  BY <1>1, <1>2, <1>3, <1>4 DEF Completed
<1>6. PICK H \in SUBSET Pages, end \in 0..EEPROM_PAGE_NUM :
        /\ Sound <= end
        /\ Divides(H, e, end) /\ Kept(H, e, live, Sound)
        /\ pending.page_no \in H \/ pending.page_no >= end
  BY <1>4 DEF IInv, Good
<1>7. pending.page_no \in H \/ pending.page_no >= Sound
  BY <1>3, <1>6
<1>8. ASSUME NEW n \in Names, NEW s \in live[n] \cap live'[n],
             s.page_no + psize(s.size) <= torn', NEW q \in SectionPages(s)
      PROVE  eeprom'[q] = eeprom[q]
  <2>1. s \in live[n] /\ s \in SectionRecords
    BY <1>2, <1>8
  <2>2. e[pending.page_no].file_name # n
    BY <1>2, <1>5, NamesAreNames
  <2>3. s.page_no + psize(s.size) <= Sound
    BY <1>1, <1>8
  <2>4. PICK w \in Nat : w = pending.page_no
    BY <1>3
  <2>5. PICK bound \in Nat : bound = Sound
    BY <1>3
  <2>6. /\ Divides(H, e, end) /\ Kept(H, e, live, bound)
        /\ s.page_no + psize(s.size) <= bound
        /\ w \in H \/ w >= bound
        /\ e[w].file_name # n
    BY <1>6, <1>7, <2>2, <2>3, <2>4, <2>5
  <2>7. w \notin SectionPages(s)
    BY <2>1, <2>6, HeaderElsewhere, SMTT(30)
  <2>8. QED
    BY <1>1, <1>2, <1>8, <2>4, <2>7
<1>9. QED
  BY <1>8 DEF Undisturbed

\* No call writes into a section that stays (eeprom_fs.c:58, :64, :135).
THEOREM AlwaysDataSafe == Spec => DataSafe
<1>1. IInv /\ [Next]_vars => [(\E n \in Names : WriteData(n)) \/ Undisturbed]_vars
  <2>1. SUFFICES ASSUME IInv, Next, ~(\E n \in Names : WriteData(n))
                 PROVE  Undisturbed
    OBVIOUS
  <2>2. CASE \E n \in Names : \E size \in SectionSizes : Create(n, size)
    BY <2>1, <2>2, CreateUndisturbed
  <2>3. CASE \E n \in Names : Delete(n)
    BY <2>1, <2>3, DeleteUndisturbed
  <2>4. CASE WriteHeader
    BY <2>1, <2>4, WriteHeaderUndisturbed
  <2>5. CASE Format
    BY <2>5 DEF Format, Undisturbed
  <2>6. CASE PowerLoss
    BY <2>6 DEF PowerLoss, Undisturbed
  <2>7. QED
    BY <2>1, <2>2, <2>3, <2>4, <2>5, <2>6 DEF Next
<1>2. QED
  BY <1>1, AreasHold, PTL DEF Spec, DataSafe

=============================================================================
