------------------------------ MODULE EepromFS ------------------------------
(***************************************************************************)
(* The sections of an EEPROM (fs/eeprom_fs.c).  There is no table: every   *)
(* section and every free area begins with a header, and the next header   *)
(* is found by skipping the pages that this one says it covers.  All of    *)
(* the state is in the EEPROM, and the walk from page 0 is its meaning.    *)
(*                                                                         *)
(* EEPROM_CreateSection may write two headers and EEPROM_Format erases     *)
(* before it writes one: the power may go in between.  The board's         *)
(* EEPROM_WritePage, EEPROM_ReadPage and EEPROM_Erase are external; each   *)
(* of them is taken to happen as a whole or not at all.                    *)
(***************************************************************************)
EXTENDS Integers, FiniteSets

CONSTANTS
  EEPROM_PAGE_NUM,
  EEPROM_PAGE_SIZE,  \* bytes
  HEADER,            \* sizeof(eeprom_header), bytes
  UINT_MOD,          \* 2^32, the unsigned int of a size
  Names,             \* section names, not empty and shorter than the field
  SectionSizes       \* sizes in bytes that callers ask for

NoName == "no name"  \* file_name[0] = 0: a free area
Other == "other"     \* bytes that are no section's name

ASSUME EepromAssumption ==
  /\ EEPROM_PAGE_NUM \in Nat \ {0}
  /\ HEADER \in Nat \ {0}
  /\ EEPROM_PAGE_SIZE \in Nat /\ EEPROM_PAGE_SIZE >= HEADER
  /\ UINT_MOD \in Nat /\ UINT_MOD > 2 * EEPROM_PAGE_NUM * EEPROM_PAGE_SIZE
  /\ {NoName, Other} \cap Names = {}
  /\ SectionSizes \subseteq 1..(EEPROM_PAGE_NUM * EEPROM_PAGE_SIZE)

VARIABLES
  eeprom,   \* what each page reads as when its first bytes are a header
  pending,  \* the header still to be written by the call in progress
  live,     \* history: the page and size of the sections callers made
  torn      \* history: the first page whose header a power loss took away

vars == <<eeprom, pending, live, torn>>

Pages == 0..(EEPROM_PAGE_NUM - 1)
Headers == [file_size : 0..(UINT_MOD - 1), file_name : Names \cup {NoName, Other}]
SectionRecords == [page_no : Pages, size : SectionSizes]

Nothing == [page_no |-> EEPROM_PAGE_NUM]
Idle == pending = Nothing

-----------------------------------------------------------------------------
(* Sizes.                                                                  *)

Bytes(size) == (size + HEADER) % UINT_MOD

\* Mutant: the last page, not filled to its end, is forgotten.
PsizeRoundedDown(size) == Bytes(size) \div EEPROM_PAGE_SIZE

\* EEPROM_get_psize
psize(size) ==
  Bytes(size) \div EEPROM_PAGE_SIZE
    + (IF Bytes(size) % EEPROM_PAGE_SIZE # 0 THEN 1 ELSE 0)

\* Mutant: the header's own bytes are counted as payload.
FreeAreaWithHeader(pages) ==
  [file_size |-> pages * EEPROM_PAGE_SIZE, file_name |-> NoName]

FreeArea(pages) ==
  [file_size |-> pages * EEPROM_PAGE_SIZE - HEADER, file_name |-> NoName]

\* An erased page, and pages where a section's owner keeps zeros or text.
ErasedPage == [file_size |-> UINT_MOD - 1, file_name |-> Other]
Zeros == [file_size |-> 0, file_name |-> NoName]
Text == [file_size |-> EEPROM_PAGE_NUM * EEPROM_PAGE_SIZE, file_name |-> Other]

-----------------------------------------------------------------------------
(* The walk: "page_no += EEPROM_get_psize(hdr.file_size)" from page 0.     *)

PagesAt(p) == psize(eeprom[p].file_size)
IsFree(p) == eeprom[p].file_name = NoName

Walk ==
  LET w[i \in 0..EEPROM_PAGE_NUM] ==
        IF i = 0 THEN 0
        ELSE IF w[i - 1] \in Pages THEN w[i - 1] + PagesAt(w[i - 1])
        ELSE w[i - 1]
  IN w

\* The pages where it finds headers, and where it ends.
Areas == {Walk[i] : i \in 0..EEPROM_PAGE_NUM} \cap Pages
WalkEnd == Walk[EEPROM_PAGE_NUM]

Least(S) == CHOOSE p \in S : \A q \in S : p <= q

\* EEPROM_FindSection
Found(n) == \E p \in Areas : eeprom[p].file_name = n
FindSection(n) ==
  LET p == Least({q \in Areas : eeprom[q].file_name = n})
  IN [page_no |-> p, size |-> eeprom[p].file_size]

-----------------------------------------------------------------------------
(* EEPROM_CreateSection: the first free area that is large enough gets the *)
(* section's header at once, and its remainder a header after that.        *)

LargeEnough(size) == {p \in Areas : IsFree(p) /\ PagesAt(p) >= psize(size)}

\* Mutant: an area used up to its end has a remainder of no pages.
RemainderAlways(p, pages) ==
  IF PagesAt(p) >= pages
  THEN [page_no |-> p + pages, hdr |-> FreeArea(PagesAt(p) - pages)]
  ELSE Nothing

Remainder(p, pages) ==
  IF PagesAt(p) > pages
  THEN [page_no |-> p + pages, hdr |-> FreeArea(PagesAt(p) - pages)]
  ELSE Nothing

Create(n, size) ==
  LET p == Least(LargeEnough(size))
  IN /\ Idle
     /\ ~Found(n)
     /\ LargeEnough(size) # {}
     /\ eeprom' = [eeprom EXCEPT ![p] = [file_size |-> size, file_name |-> n]]
     /\ pending' = Remainder(p, psize(size))
     /\ live' = [live EXCEPT ![n] = {[page_no |-> p, size |-> size]}]
     /\ UNCHANGED torn

\* The second header of a creation, or the only one of a format.
WriteHeader ==
  /\ ~Idle
  /\ eeprom' = [eeprom EXCEPT ![pending.page_no] = pending.hdr]
  /\ pending' = Nothing
  /\ torn' = IF pending.page_no = 0 THEN EEPROM_PAGE_NUM ELSE torn
  /\ UNCHANGED live

-----------------------------------------------------------------------------
(* EEPROM_DeleteSection: one header for the section and the free areas on  *)
(* both sides of it.                                                       *)

\* prev_page: the area before p in the walk, if it is free.
FreeBefore(p) == {q \in Areas : q + PagesAt(q) = p /\ IsFree(q)}

\* Mutant: the area before p is not looked at.
MergedForwards(p) == [page_no |-> p, bytes |-> eeprom[p].file_size]

MergedBefore(p) ==
  IF FreeBefore(p) = {} THEN [page_no |-> p, bytes |-> eeprom[p].file_size]
  ELSE LET q == CHOOSE q \in FreeBefore(p) : TRUE
       IN [page_no |-> q,
           bytes |-> eeprom[p].file_size + eeprom[q].file_size + HEADER]

\* Mutant: the area after it is not asked whether it is free.
MergedWithAny(area) ==
  LET next == area.page_no + psize(area.bytes)
  IN IF next \in Pages
     THEN [area EXCEPT !.bytes = @ + eeprom[next].file_size + HEADER]
     ELSE area

MergedAfter(area) ==
  LET next == area.page_no + psize(area.bytes)
  IN IF next \in Pages /\ IsFree(next)
     THEN [area EXCEPT !.bytes = @ + eeprom[next].file_size + HEADER]
     ELSE area

Delete(n) ==
  LET area == MergedAfter(MergedBefore(FindSection(n).page_no))
  IN /\ Idle
     /\ Found(n)
     /\ eeprom' = [eeprom EXCEPT ![area.page_no] = FreeArea(psize(area.bytes))]
     /\ live' = [live EXCEPT ![n] = {}]
     /\ UNCHANGED <<pending, torn>>

-----------------------------------------------------------------------------
\* EEPROM_Format, up to its EEPROM_WritePage.
Format ==
  /\ Idle
  /\ eeprom' = [p \in Pages |-> ErasedPage]
  /\ pending' = [page_no |-> 0, hdr |-> FreeArea(EEPROM_PAGE_NUM)]
  /\ live' = [n \in Names |-> {}]
  /\ torn' = 0

\* The pages that a section's header and bytes are on.
SectionPages(s) ==
  s.page_no..(s.page_no + (HEADER + s.size - 1) \div EEPROM_PAGE_SIZE)

\* The owner of a section writes a page of it, other than the first, where
\* the header stays.
WriteData(n) ==
  /\ Idle
  /\ \E s \in live[n] : \E data \in {Zeros, Text} :
       \E q \in SectionPages(s) \ {s.page_no} :
         eeprom' = [eeprom EXCEPT ![q] = data]
  /\ UNCHANGED <<pending, live, torn>>

\* The power goes before the pending header is written.
PowerLoss ==
  /\ ~Idle
  /\ pending' = Nothing
  /\ torn' = Least({torn, pending.page_no})
  /\ UNCHANGED <<eeprom, live>>

-----------------------------------------------------------------------------
\* A new chip: erased, and of no use before a format.
Init ==
  /\ eeprom = [p \in Pages |-> ErasedPage]
  /\ pending = Nothing
  /\ live = [n \in Names |-> {}]
  /\ torn = 0

Next ==
  \/ \E n \in Names :
       \/ \E size \in SectionSizes : Create(n, size)
       \/ Delete(n)
       \/ WriteData(n)
  \/ WriteHeader \/ Format \/ PowerLoss

Spec == Init /\ [][Next]_vars

-----------------------------------------------------------------------------
TypeOK ==
  /\ eeprom \in [Pages -> Headers]
  /\ pending \in {Nothing} \cup [page_no : Pages, hdr : Headers]
  /\ live \in [Names -> SUBSET SectionRecords]
  /\ \A n \in Names : Cardinality(live[n]) <= 1
  /\ torn \in 0..EEPROM_PAGE_NUM

\* Between calls, while no header was lost, the areas cover the EEPROM to its
\* very end, and the sections on the walk are those that callers made
\* (eeprom_fs.c:15-143): what was deleted never shows up again.
Whole == Idle /\ torn = EEPROM_PAGE_NUM

Tiled ==
  Whole =>
    /\ WalkEnd = EEPROM_PAGE_NUM
    /\ \A p \in Areas :
         ~IsFree(p) => \E n \in Names : \E s \in live[n] :
                         s.page_no = p /\ eeprom[p].file_name = n

\* A section is found, where and as large as it was made, until it is deleted,
\* after any number of power losses as long as it lies before the headers
\* these took away, or the one that is just missing
\* (eeprom_fs.c:58-65, :76-99).
FoundWhereCreated ==
  \A n \in Names : \A s \in live[n] :
    s.page_no + psize(s.size) <= Least({torn, pending.page_no})
      => Found(n) /\ FindSection(n) = s

\* Two free areas never touch: the space of deleted sections is there for
\* larger ones (eeprom_fs.c:115-132).
Coalesced ==
  Whole => \A p \in Areas : ~(IsFree(p) /\ p + PagesAt(p) \in Areas
                                        /\ IsFree(p + PagesAt(p)))

\* No call writes into a section that stays (eeprom_fs.c:58, :64, :135): but
\* for their owners' writes, the pages of a section before the spoilt ones
\* never change.
Undisturbed ==
  \A n \in Names : \A s \in live[n] \cap live'[n] :
    s.page_no + psize(s.size) <= torn' =>
      \A q \in SectionPages(s) : eeprom'[q] = eeprom[q]

DataSafe == [][(\E n \in Names : WriteData(n)) \/ Undisturbed]_vars

=============================================================================
