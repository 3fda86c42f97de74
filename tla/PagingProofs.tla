---------------------------- MODULE PagingProofs ----------------------------
(***************************************************************************)
(* Every frame has one use and the allocator's count is right; the tables  *)
(* form a tree and implement a map from pages to frames: for every size of *)
(* memory, of its words and of its tables.  Minesweeper opens the cells it *)
(* should, on every board.                                                 *)
(***************************************************************************)
EXTENDS Paging, Minesweeper, WellFoundedInduction, FiniteSetTheorems, TLAPS

\* A nonempty set of naturals has a least element.
LEMMA LeastNat ==
  ASSUME NEW S \in SUBSET Nat, S # {}
  PROVE  \E m \in S : \A k \in S : m <= k
<1>1. IsWellFoundedOn({ss \in Nat \X Nat : ss[1] < ss[2]}, Nat)
  BY NatLessThanWellFounded, Zenon DEF OpToRel
<1>2. PICK m \in S : \A k \in S : <<k, m>> \notin {ss \in Nat \X Nat : ss[1] < ss[2]}
  BY <1>1, WFMin, Zenon
<1>3. \A k \in S : k \in Nat /\ m \in Nat /\ ~ (k < m)
  BY <1>2, Zenon
<1>4. QED
  BY <1>3

(***************************************************************************)
(* The bitmap.                                                             *)
(***************************************************************************)

\* The words of the bitmap, rounded up, have a bit for every frame.
LEMMA BitsCoverMemory == 0 .. TOTAL_PAGES - 1 \subseteq Bit
<1> DEFINE q == (TOTAL_PAGES + WORD_BITS - 1) \div WORD_BITS
<1>1. TOTAL_PAGES \in Nat /\ WORD_BITS \in Nat \ {0}
  BY PagingAssumption
<1>2. q \in Int /\ TOTAL_PAGES <= WORD_BITS * q
  BY <1>1
<1>3. QED
  BY <1>1, <1>2 DEF Bit

\* What pmm_alloc_page, vmm_map_page and the loop of mm_init rely on: U are
\* the frames in use as something else than tables.
MemOK(m, U) ==
  /\ m = [bitmap |-> m.bitmap, free_pages |-> m.free_pages, tables |-> m.tables]
  /\ m.tables \in [DOMAIN m.tables -> [Index -> Entry]]
  /\ m.free_pages \in Nat
  /\ m.bitmap \subseteq 0 .. TOTAL_PAGES - 1
  /\ m.free_pages = TOTAL_PAGES - Cardinality(m.bitmap)
  /\ m.bitmap = (0 .. RESERVED - 1) \cup DOMAIN m.tables \cup U
  /\ DOMAIN m.tables \cap U = {}
  /\ (0 .. RESERVED - 1) \cap (DOMAIN m.tables \cup U) = {}

\* When free_pages is exact, a frame that the bitmap shows free and that comes
\* first is one that exists: the bits behind the end of memory are not reached.
LEMMA NewFrameExists ==
  ASSUME NEW m, NEW U, MemOK(m, U), CanAlloc(m)
  PROVE  NewFrame(m) \in 0 .. TOTAL_PAGES - 1 /\ NewFrame(m) \notin m.bitmap
<1> DEFINE all == 0 .. TOTAL_PAGES - 1
<1>1. IsFiniteSet(all) /\ Cardinality(all) = TOTAL_PAGES
  BY FS_Interval, PagingAssumption
<1>2. m.bitmap # all
  <2>1. Cardinality(m.bitmap) # TOTAL_PAGES
    BY PagingAssumption DEF MemOK, CanAlloc
  <2>2. QED
    BY <1>1, <2>1
<1>3. PICK g \in all : g \notin m.bitmap
  BY <1>2 DEF MemOK
<1>4. g \in ClearBits(m)
  BY <1>3, BitsCoverMemory DEF ClearBits
<1>5. ClearBits(m) \in SUBSET Nat
  BY DEF ClearBits, Bit
<1>6. \E f \in ClearBits(m) : \A h \in ClearBits(m) : f <= h
  BY <1>4, <1>5, LeastNat
<1>7. NewFrame(m) \in ClearBits(m) /\ NewFrame(m) <= g
  BY <1>4, <1>6 DEF NewFrame
<1>8. QED
  BY <1>3, <1>5, <1>7, PagingAssumption DEF ClearBits

\* pmm_alloc_page takes a free frame and counts it.
LEMMA TakenKeeps ==
  ASSUME NEW m, NEW U, MemOK(m, U), CanAlloc(m)
  PROVE  /\ MemOK(Taken(m), U \cup {NewFrame(m)})
         /\ Taken(m).tables = m.tables
         /\ NewFrame(m) \in 0 .. TOTAL_PAGES - 1 /\ NewFrame(m) \notin m.bitmap
<1> DEFINE f == NewFrame(m)
           n == Taken(m)
<1>1. f \in 0 .. TOTAL_PAGES - 1 /\ f \notin m.bitmap
  BY NewFrameExists
<1>2. n = [bitmap |-> m.bitmap \cup {f}, free_pages |-> m.free_pages - 1, tables |-> m.tables]
  <2>1. PICK b, p, t : m = [bitmap |-> b, free_pages |-> p, tables |-> t]
    BY DEF MemOK
  <2>2. n = [m EXCEPT !.bitmap = m.bitmap \cup {f}, !.free_pages = m.free_pages - 1]
    BY DEF Taken
  <2> HIDE DEF f, n
  <2>3. QED
    BY <2>1, <2>2
<1> HIDE DEF f, n
<1>3. n.bitmap = m.bitmap \cup {f} /\ n.free_pages = m.free_pages - 1 /\ n.tables = m.tables
  BY <1>2
<1>4. IsFiniteSet(m.bitmap)
  <2>1. IsFiniteSet(0 .. TOTAL_PAGES - 1)
    BY FS_Interval, PagingAssumption
  <2>2. m.bitmap \in SUBSET (0 .. TOTAL_PAGES - 1)
    BY DEF MemOK
  <2>3. QED
    BY <2>1, <2>2, FS_Subset
<1>5. Cardinality(m.bitmap \cup {f}) = Cardinality(m.bitmap) + 1 /\ Cardinality(m.bitmap) \in Nat
  BY <1>1, <1>4, FS_AddElement, FS_CardinalityType
<1>6. n.free_pages \in Nat /\ n.free_pages = TOTAL_PAGES - Cardinality(n.bitmap)
  <2>1. /\ m.free_pages \in Nat \ {0}
        /\ m.free_pages = TOTAL_PAGES - Cardinality(m.bitmap)
        /\ TOTAL_PAGES \in Nat
    BY PagingAssumption DEF MemOK, CanAlloc
  <2>2. Cardinality(n.bitmap) = Cardinality(m.bitmap) + 1
    BY <1>3, <1>5
  <2>3. QED
    BY <1>3, <1>5, <2>1, <2>2
<1>7. MemOK(n, U \cup {f})
  BY <1>1, <1>2, <1>3, <1>6 DEF MemOK
<1>8. QED
  BY <1>1, <1>3, <1>7 DEF f, n

(***************************************************************************)
(* The tables.                                                             *)
(***************************************************************************)

LEMMA IndexInTable ==
  ASSUME NEW v \in Nat, NEW level \in 0 .. 3
  PROVE  IndexAt(v, level) \in Index
<1>1. Size(level) \in Nat \ {0}
  BY PagingAssumption DEF Size
<1>2. v \div Size(level) \in Int
  BY <1>1
<1>3. QED
  BY <1>2, PagingAssumption DEF IndexAt, Index

\* A step down the tables uses a frame only as the table that it makes.
LEMMA DescendKeeps ==
  ASSUME NEW m, NEW U, MemOK(m, U), NEW t, NEW i \in Index
  PROVE  MemOK(Descend(m, t, i).mem, U)
<1> DEFINE f == NewFrame(m)
           n == Taken(m)
           tables == [u \in DOMAIN n.tables \cup {f} |->
                        IF u = f THEN NoEntries
                        ELSE IF u = t THEN [n.tables[t] EXCEPT ![i] = f] ELSE n.tables[u]]
           d == [n EXCEPT !.tables = tables]
<1>1. CASE m.tables[t][i] # None \/ ~ CanAlloc(m)
  <2>1. Descend(m, t, i).mem = m
    BY <1>1 DEF Descend
  <2>2. QED
    BY <2>1
<1>2. CASE m.tables[t][i] = None /\ CanAlloc(m)
  <2> Descend(m, t, i) = [ok |-> TRUE, table |-> f, mem |-> d]
    BY <1>2, Zenon DEF Descend
  <2>1. /\ MemOK(n, U \cup {f})
        /\ n.tables = m.tables
        /\ f \in Nat /\ f \notin m.bitmap
    BY <1>2, TakenKeeps
  <2> HIDE DEF f, n
  <2>2. tables \in [DOMAIN m.tables \cup {f} -> [Index -> Entry]]
    <3>1. NoEntries \in [Index -> Entry]
      BY DEF NoEntries, Entry
    <3>2. \A u \in DOMAIN m.tables : m.tables[u] \in [Index -> Entry]
      BY DEF MemOK
    <3>3. f \in Entry
      BY <2>1 DEF Entry
    <3>4. ASSUME NEW u \in DOMAIN m.tables \cup {f}
          PROVE  tables[u] \in [Index -> Entry]
      <4>1. tables[u] = IF u = f THEN NoEntries
                        ELSE IF u = t THEN [m.tables[t] EXCEPT ![i] = f] ELSE m.tables[u]
        BY <2>1
      <4> HIDE DEF tables
      <4>2. CASE u = f
        BY <3>1, <4>1, <4>2
      <4>3. CASE u # f /\ u = t
        <5>1. m.tables[t] \in [Index -> Entry]
          BY <3>2, <4>3
        <5>2. [m.tables[t] EXCEPT ![i] = f] \in [Index -> Entry]
          BY <3>3, <5>1
        <5>3. QED
          BY <4>1, <4>3, <5>2
      <4>4. CASE u # f /\ u # t
        BY <3>2, <4>1, <4>4
      <4>5. QED
        BY <4>2, <4>3, <4>4
    <3>5. QED
      BY <2>1, <3>4
  <2> HIDE DEF tables
  <2>3. d = [bitmap |-> n.bitmap, free_pages |-> n.free_pages, tables |-> tables]
    <3>1. PICK b, p, s : n = [bitmap |-> b, free_pages |-> p, tables |-> s]
      BY <2>1 DEF MemOK
    <3>2. QED
      BY <3>1
  <2> HIDE DEF d
  <2>4. /\ d.bitmap = n.bitmap /\ d.free_pages = n.free_pages
        /\ d.tables = tables /\ DOMAIN d.tables = DOMAIN m.tables \cup {f}
        /\ d.tables \in [DOMAIN d.tables -> [Index -> Entry]]
        /\ d = [bitmap |-> d.bitmap, free_pages |-> d.free_pages, tables |-> d.tables]
    BY <2>2, <2>3
  <2>5. DOMAIN m.tables \cap U = {} /\ U \subseteq m.bitmap
    BY DEF MemOK
  <2>6. MemOK(d, U)
    BY <2>1, <2>4, <2>5 DEF MemOK
  <2>7. QED
    BY <2>6
<1>3. QED
  BY <1>1, <1>2

\* vmm_map_page, whether it succeeds or runs out of frames on the way.
LEMMA MappedKeeps ==
  ASSUME NEW m, NEW U, MemOK(m, U), NEW v \in Nat, NEW f \in Nat
  PROVE  MemOK(Mapped(m, v, f).mem, U)
<1> DEFINE pdp == Descend(m, kernel_pml4, IndexAt(v, 3))
           pd  == IF pdp.ok THEN Descend(pdp.mem, pdp.table, IndexAt(v, 2)) ELSE pdp
           pt  == IF pd.ok THEN Descend(pd.mem, pd.table, IndexAt(v, 1)) ELSE pd
           n   == pt.mem
           tables == [n.tables EXCEPT ![pt.table][IndexAt(v, 0)] = f]
           d   == [n EXCEPT !.tables[pt.table][IndexAt(v, 0)] = f]
<1>1. \A level \in 0 .. 3 : IndexAt(v, level) \in Index
  BY IndexInTable
<1>2. MemOK(pdp.mem, U)
  BY <1>1, DescendKeeps
<1>3. MemOK(pd.mem, U)
  BY <1>1, <1>2, DescendKeeps
<1>4. MemOK(pt.mem, U)
  BY <1>1, <1>3, DescendKeeps
<1>5. Mapped(m, v, f).mem = d \/ Mapped(m, v, f).mem = pt.mem
  BY DEF Mapped
<1> HIDE DEF pdp, pd, pt
<1>6. MemOK(d, U)
  <2>2. MemOK(n, U)
    BY <1>4
  <2> HIDE DEF n
  <2>3. tables \in [DOMAIN n.tables -> [Index -> Entry]]
    BY <1>1, <2>2 DEF MemOK, Entry
  <2> HIDE DEF tables
  <2>4. d = [bitmap |-> n.bitmap, free_pages |-> n.free_pages, tables |-> tables]
    <3>1. PICK b, p, s : n = [bitmap |-> b, free_pages |-> p, tables |-> s]
      BY <2>2 DEF MemOK
    <3>2. n.bitmap = b /\ n.free_pages = p /\ n.tables = s
      BY <3>1
    <3>3. QED
      BY <3>1, <3>2 DEF tables
  <2> HIDE DEF d
  <2>5. /\ d.bitmap = n.bitmap /\ d.free_pages = n.free_pages
        /\ d.tables = tables /\ DOMAIN d.tables = DOMAIN n.tables
        /\ d.tables \in [DOMAIN d.tables -> [Index -> Entry]]
        /\ d = [bitmap |-> d.bitmap, free_pages |-> d.free_pages, tables |-> d.tables]
    BY <2>3, <2>4
  <2>6. QED
    BY <2>2, <2>5 DEF MemOK
<1>7. QED
  BY <1>4, <1>5, <1>6

(***************************************************************************)
(* The inductive invariant.                                                *)
(***************************************************************************)

PagingInv ==
  /\ MemOK(mem, held \cup faulted \cup lost)
  /\ held \cap faulted = {} /\ held \cap lost = {} /\ faulted \cap lost = {}
  /\ addr \in Nat /\ halted \in BOOLEAN

\* mm_init marks the first 1MB and takes the frame after it as a table.
LEMMA PagingInvInit == Init => PagingInv
<1> SUFFICES ASSUME Init PROVE PagingInv
  OBVIOUS
<1>1. Cardinality(0 .. RESERVED) = RESERVED + 1
  BY FS_Interval, PagingAssumption
<1>2. [t \in {kernel_pml4} |-> NoEntries] \in [{kernel_pml4} -> [Index -> Entry]]
  BY DEF NoEntries, Entry
<1>3. MemOK(mem, {})
  BY <1>1, <1>2, PagingAssumption DEF Init, MemOK, kernel_pml4
<1>4. QED
  BY <1>3 DEF Init, PagingInv

\* pmm_free_page gives back one frame and counts it.
LEMMA FreePageKeeps ==
  ASSUME PagingInv, NEW f \in Bit, FreePage(f)
  PROVE  PagingInv'
<1> DEFINE U == held \cup faulted \cup lost
<1>1. MemOK(mem, U) /\ f \in held /\ f \in mem.bitmap
  BY DEF PagingInv, FreePage, MemOK
<1>2. mem' = [bitmap |-> mem.bitmap \ {f}, free_pages |-> mem.free_pages + 1, tables |-> mem.tables]
  <2>1. PICK b, p, t : mem = [bitmap |-> b, free_pages |-> p, tables |-> t]
    BY <1>1 DEF MemOK
  <2>2. mem' = [mem EXCEPT !.bitmap = mem.bitmap \ {f}, !.free_pages = mem.free_pages + 1]
    BY DEF FreePage
  <2>3. QED
    BY <2>1, <2>2
<1>3. /\ mem'.bitmap = mem.bitmap \ {f} /\ mem'.free_pages = mem.free_pages + 1
      /\ mem'.tables = mem.tables
      /\ mem' = [bitmap |-> mem'.bitmap, free_pages |-> mem'.free_pages, tables |-> mem'.tables]
  BY <1>2
<1>4. mem'.free_pages \in Nat /\ mem'.free_pages = TOTAL_PAGES - Cardinality(mem'.bitmap)
  <2>1. IsFiniteSet(0 .. TOTAL_PAGES - 1)
    BY FS_Interval, PagingAssumption
  <2>2. IsFiniteSet(mem.bitmap)
    BY <1>1, <2>1, FS_Subset DEF MemOK
  <2>3. Cardinality(mem.bitmap \ {f}) = Cardinality(mem.bitmap) - 1 /\ Cardinality(mem.bitmap) \in Nat
    BY <1>1, <2>2, FS_RemoveElement, FS_CardinalityType
  <2>4. mem.free_pages \in Nat /\ mem.free_pages = TOTAL_PAGES - Cardinality(mem.bitmap)
    BY <1>1 DEF MemOK
  <2>5. QED
    BY <1>3, <2>3, <2>4, PagingAssumption
<1>5. held' = held \ {f} /\ UNCHANGED <<addr, halted, faulted, lost>>
  BY DEF FreePage
<1>6. U' = U \ {f}
  BY <1>1, <1>5 DEF PagingInv
<1>7. MemOK(mem', U')
  BY <1>1, <1>3, <1>4, <1>6 DEF MemOK
<1>8. QED
  BY <1>5, <1>7 DEF PagingInv

LEMMA PagingInvNext == PagingInv /\ [Next]_vars => PagingInv'
<1> SUFFICES ASSUME PagingInv, [Next]_vars PROVE PagingInv'
  OBVIOUS
<1> DEFINE U == held \cup faulted \cup lost
           f == NewFrame(mem)
<1>1. MemOK(mem, U) /\ U \subseteq mem.bitmap
  BY DEF PagingInv, MemOK
<1>2. CASE InitMap
  <2>1. MemOK(mem', U)
    BY <1>1, <1>2, MappedKeeps DEF InitMap, PagingInv
  <2>2. QED
    BY <1>2, <2>1, PagingAssumption DEF InitMap, PagingInv
<1>3. CASE AllocPage
  <2>1. MemOK(mem', U \cup {f}) /\ f \notin mem.bitmap
    BY <1>1, <1>3, TakenKeeps DEF AllocPage
  <2>2. held' = held \cup {f} /\ UNCHANGED <<addr, halted, faulted, lost>>
    BY <1>3 DEF AllocPage
  <2>3. U' = U \cup {f}
    BY <2>2
  <2>4. MemOK(mem', U')
    BY <2>1, <2>3
  <2> HIDE DEF f
  <2>5. QED
    BY <1>1, <2>1, <2>2, <2>4 DEF PagingInv
<1>4. CASE \E g \in Bit : FreePage(g)
  BY <1>4, FreePageKeeps
<1>5. ASSUME NEW v \in Page, PageFault(v)
      PROVE  PagingInv'
  <2>1. v \in Nat
    BY DEF Page
  <2>2. MemOK(Taken(mem), U \cup {f}) /\ f \in Nat /\ f \notin mem.bitmap
    BY <1>1, <1>5, TakenKeeps DEF PageFault
  <2>3. MemOK(mem', U \cup {f})
    BY <1>5, <2>1, <2>2, MappedKeeps DEF PageFault
  <2>4. /\ \/ faulted' = faulted \cup {f} /\ lost' = lost
           \/ faulted' = faulted /\ lost' = lost \cup {f}
        /\ UNCHANGED <<addr, halted, held>>
    BY <1>5 DEF PageFault
  <2> HIDE DEF f
  <2>5. U' = U \cup {f}
    BY <2>4
  <2>6. MemOK(mem', U')
    BY <2>3, <2>5
  <2>7. QED
    BY <1>1, <2>2, <2>4, <2>6 DEF PagingInv
<1>6. ASSUME NEW v \in Page, Panic(v)
      PROVE  PagingInv'
  BY <1>6 DEF Panic, PagingInv
<1>7. CASE UNCHANGED vars
  BY <1>7 DEF vars, PagingInv
<1>8. QED
  BY <1>2, <1>3, <1>4, <1>5, <1>6, <1>7 DEF Next

LEMMA PagingInvAlways == Spec => []PagingInv
BY PagingInvInit, PagingInvNext, PTL DEF Spec

(***************************************************************************)
(* The theorems.                                                           *)
(***************************************************************************)

\* Bitmap, count, tables and the frames in use have their types.
THEOREM PagingTypeOK == Spec => []TypeOK
<1>1. PagingInv => TypeOK
  <2> SUFFICES ASSUME PagingInv PROVE TypeOK
    OBVIOUS
  <2>1. /\ mem = [bitmap |-> mem.bitmap, free_pages |-> mem.free_pages, tables |-> mem.tables]
        /\ mem.bitmap \subseteq Bit
        /\ DOMAIN mem.tables \subseteq mem.bitmap
        /\ held \cup faulted \cup lost \subseteq mem.bitmap
    BY BitsCoverMemory DEF PagingInv, MemOK
  <2>2. DOMAIN mem = {"bitmap", "free_pages", "tables"}
    BY <2>1
  <2>3. mem.free_pages \in Nat /\ \A t \in DOMAIN mem.tables : mem.tables[t] \in [Index -> Entry]
    BY DEF PagingInv, MemOK
  <2>4. QED
    BY <2>1, <2>2, <2>3 DEF PagingInv, TypeOK
<1>2. QED
  BY <1>1, PagingInvAlways, PTL

\* free_pages counts the free frames, and no bit behind the end of memory is
\* ever set.
THEOREM PagingFreeIsExact == Spec => []FreeIsExact
<1>1. PagingInv => FreeIsExact
  BY DEF PagingInv, MemOK, FreeIsExact
<1>2. QED
  BY <1>1, PagingInvAlways, PTL

\* Every frame has one use: no frame is at once a table and data, or handed
\* out twice, whatever fails on the way.
THEOREM PagingAccounted == Spec => []Accounted
<1>1. PagingInv => Accounted
  <2> SUFFICES ASSUME PagingInv PROVE Accounted
    OBVIOUS
  <2> DEFINE uses == <<0 .. RESERVED - 1, DOMAIN mem.tables, held, faulted, lost>>
  <2>1. DOMAIN uses = 1 .. 5
    OBVIOUS
  <2>2. mem.bitmap = uses[1] \cup uses[2] \cup uses[3] \cup uses[4] \cup uses[5]
    BY DEF PagingInv, MemOK
  <2>3. /\ uses[1] \cap (uses[2] \cup uses[3] \cup uses[4] \cup uses[5]) = {}
        /\ uses[2] \cap (uses[3] \cup uses[4] \cup uses[5]) = {}
        /\ uses[3] \cap (uses[4] \cup uses[5]) = {} /\ uses[4] \cap uses[5] = {}
    BY DEF PagingInv, MemOK
  <2> HIDE DEF uses
  <2>4. mem.bitmap = UNION Range(uses)
    BY <2>1, <2>2 DEF Range
  <2>5. \A i, j \in DOMAIN uses : i # j => uses[i] \cap uses[j] = {}
    BY <2>1, <2>3
  <2>6. QED
    BY <2>4, <2>5 DEF Accounted, uses
<1>2. QED
  BY <1>1, PagingInvAlways, PTL

(***************************************************************************)
(* Indices.  A page is told by its four indices, the digits of its number. *)
(***************************************************************************)

\* Division by a positive number, by quotient and remainder.
LEMMA Divided ==
  ASSUME NEW a \in Nat, NEW b \in Nat \ {0}
  PROVE  /\ a \div b \in Nat /\ a % b \in Nat /\ a % b < b
         /\ a = b * (a \div b) + (a % b)
OBVIOUS

LEMMA TimesGrows ==
  ASSUME NEW d \in Nat, NEW x \in Nat, NEW y \in Nat, x <= y
  PROVE  d * x \in Nat /\ d * y \in Nat /\ d * x <= d * y
<1>1. PICK k \in Nat : y = x + k
  <2>1. y - x \in Nat /\ y = x + (y - x)
    OBVIOUS
  <2>2. QED
    BY <2>1
<1>2. d * y = d * x + d * k /\ d * x \in Nat /\ d * k \in Nat
  BY <1>1
<1>3. QED
  BY <1>2

LEMMA QuotientIs ==
  ASSUME NEW a \in Nat, NEW d \in Nat \ {0}, NEW x \in Nat, NEW r \in Nat, r < d, a = d * x + r
  PROVE  a \div d = x
<1> DEFINE q == a \div d
           s == a % d
<1>1. q \in Nat /\ s \in Nat /\ s < d /\ a = d * q + s
  BY Divided
<1> HIDE DEF q, s
<1>2. d * (x + 1) = d * x + d /\ d * (q + 1) = d * q + d /\ d * x \in Nat /\ d * q \in Nat
  BY <1>1
<1>3. ~ (q + 1 <= x)
  <2>1. SUFFICES ASSUME q + 1 <= x PROVE FALSE
    OBVIOUS
  <2>2. d * (q + 1) <= d * x
    BY <1>1, <2>1, TimesGrows
  <2>3. QED
    BY <1>1, <1>2, <2>2
<1>4. ~ (x + 1 <= q)
  <2>1. SUFFICES ASSUME x + 1 <= q PROVE FALSE
    OBVIOUS
  <2>2. d * (x + 1) <= d * q
    BY <1>1, <2>1, TimesGrows
  <2>3. QED
    BY <1>1, <1>2, <2>2
<1>5. QED
  BY <1>1, <1>3, <1>4 DEF q

LEMMA DividedTwice ==
  ASSUME NEW a \in Nat, NEW b \in Nat \ {0}, NEW c \in Nat \ {0}
  PROVE  a \div (b * c) = (a \div b) \div c
<1> DEFINE q == a \div b
           r == a % b
           p == q \div c
           s == q % c
<1>1. q \in Nat /\ r \in Nat /\ r < b /\ a = b * q + r
  BY Divided
<1> HIDE DEF q, r
<1>2. p \in Nat /\ s \in Nat /\ s < c /\ q = c * p + s
  BY <1>1, Divided
<1> HIDE DEF p, s
<1>3. a = (b * c) * p + (b * s + r)
  <2>1. b * (c * p + s) = (b * c) * p + b * s
    BY <1>2
  <2>2. (b * c) * p \in Nat /\ b * s \in Nat
    BY <1>2
  <2>3. QED
    BY <1>1, <1>2, <2>1, <2>2
<1>4. b * s + r \in Nat /\ b * s + r < b * c /\ b * c \in Nat \ {0}
  <2>1. b * (s + 1) <= b * c /\ b * c \in Nat
    BY <1>2, TimesGrows
  <2>2. b * (s + 1) = b * s + b /\ b * s \in Nat
    BY <1>2
  <2>3. QED
    BY <1>1, <2>1, <2>2
<1>5. a \div (b * c) = p
  BY <1>2, <1>3, <1>4, QuotientIs
<1>6. QED
  BY <1>5 DEF p, q

\* Two pages with the same four indices are one.
LEMMA IndicesTellPages ==
  ASSUME NEW v \in Page, NEW w \in Page,
         \A level \in 0 .. 3 : IndexAt(v, level) = IndexAt(w, level)
  PROVE  v = w
<1> DEFINE E == ENTRIES
<1>1. E \in Nat \ {0} /\ E * E \in Nat \ {0} /\ E * E * E \in Nat \ {0}
      /\ E * E * E = (E * E) * E /\ E * E * E * E = (E * E * E) * E
  BY PagingAssumption
<1>2. v \in Nat /\ w \in Nat /\ v < E * E * E * E /\ w < E * E * E * E
  BY <1>1 DEF Page
<1>3. /\ Size(0) = 1 /\ Size(1) = E /\ Size(2) = E * E /\ Size(3) = E * E * E
  BY DEF Size
<1> HIDE DEF E
<1>4. ASSUME NEW u \in Nat, u < E * E * E * E
      PROVE  /\ u \div Size(0) = u
             /\ u \div Size(1) = u \div E
             /\ u \div Size(2) = (u \div E) \div E
             /\ u \div Size(3) = ((u \div E) \div E) \div E
             /\ (((u \div E) \div E) \div E) < E
  <2>1. u \div 1 = u
    OBVIOUS
  <2>2. u \div (E * E) = (u \div E) \div E
    BY <1>1, DividedTwice
  <2>3. u \div (E * E * E) = ((u \div E) \div E) \div E
    <3> DEFINE F == E * E
    <3>1. F \in Nat \ {0} /\ F = E * E /\ E * E * E = F * E
      BY <1>1
    <3> HIDE DEF F
    <3>2. u \div (F * E) = (u \div F) \div E
      BY <1>1, <3>1, DividedTwice
    <3>3. QED
      BY <2>2, <3>1, <3>2
  <2>4. u \div (E * E * E) < E
    <3> DEFINE G == E * E * E
               q == u \div G
               r == u % G
    <3>1. G \in Nat \ {0} /\ G = E * E * E /\ u < G * E
      BY <1>1, <1>4
    <3> HIDE DEF G
    <3>2. q \in Nat /\ r \in Nat /\ u = G * q + r
      BY <3>1, Divided
    <3> HIDE DEF q, r
    <3>3. ~ (E <= q)
      <4>1. SUFFICES ASSUME E <= q PROVE FALSE
        OBVIOUS
      <4>2. G * E <= G * q /\ G * E \in Nat /\ G * q \in Nat
        BY <1>1, <3>1, <3>2, <4>1, TimesGrows
      <4>3. QED
        BY <3>1, <3>2, <4>2
    <3>4. QED
      BY <1>1, <3>1, <3>2, <3>3 DEF q
  <2>5. QED
    BY <1>3, <2>1, <2>2, <2>3, <2>4
<1> DEFINE v1 == v \div E
           v2 == v1 \div E
           v3 == v2 \div E
           w1 == w \div E
           w2 == w1 \div E
           w3 == w2 \div E
<1>5. /\ v % E = w % E /\ v1 % E = w1 % E /\ v2 % E = w2 % E /\ v3 % E = w3 % E
  BY <1>2, <1>3, <1>4 DEF IndexAt, E
<1>6. v3 < E /\ w3 < E
  BY <1>2, <1>4
<1>7. /\ v = E * v1 + (v % E) /\ w = E * w1 + (w % E) /\ v1 \in Nat /\ w1 \in Nat
  BY <1>1, <1>2, Divided
<1> HIDE DEF v1, w1
<1>8. /\ v1 = E * v2 + (v1 % E) /\ w1 = E * w2 + (w1 % E) /\ v2 \in Nat /\ w2 \in Nat
  BY <1>1, <1>7, Divided
<1> HIDE DEF v2, w2
<1>9. /\ v2 = E * v3 + (v2 % E) /\ w2 = E * w3 + (w2 % E) /\ v3 \in Nat /\ w3 \in Nat
  BY <1>1, <1>8, Divided
<1> HIDE DEF v3, w3
<1>10. v3 = w3
  <2>1. v3 % E = v3 /\ w3 % E = w3
    BY <1>1, <1>6, <1>9
  <2>2. QED
    BY <1>5, <2>1
<1>11. v2 = w2
  BY <1>5, <1>9, <1>10
<1>12. v1 = w1
  BY <1>5, <1>8, <1>11
<1>13. QED
  BY <1>5, <1>7, <1>12

(***************************************************************************)
(* The tree of the tables, and the walk down it to a page.                 *)
(***************************************************************************)
\* Tables, each with its level, 3 for the kernel's top-level table: an entry
\* above level 0 refers to a table one level down, no two to the same, and every
\* table but the top is referred to.
Tree(tables, level) ==
  /\ level \in [DOMAIN tables -> 0 .. 3]
  /\ DOMAIN tables \subseteq Nat
  /\ kernel_pml4 \in DOMAIN tables /\ level[kernel_pml4] = 3
  /\ \A t \in DOMAIN tables : tables[t] \in [Index -> Entry]
  /\ \A t \in DOMAIN tables, i \in Index : level[t] # 0 /\ tables[t][i] # None =>
       tables[t][i] \in DOMAIN tables /\ level[tables[t][i]] = level[t] - 1
  /\ \A t, u \in DOMAIN tables, i, j \in Index :
       level[t] # 0 /\ level[u] # 0 /\ tables[t][i] = tables[u][j] /\ tables[t][i] # None
         => t = u /\ i = j
  /\ \A t \in DOMAIN tables \ {kernel_pml4} :
       \E u \in DOMAIN tables, i \in Index : level[u] # 0 /\ tables[u][i] = t

\* The way of the processor to a page: the tables at levels 2, 1 and 0, and
\* the frame.
Below(tables, t, i) == IF t = None THEN None ELSE tables[t][i]

Pdp(tables, v)  == Below(tables, kernel_pml4, IndexAt(v, 3))
Pd(tables, v)   == Below(tables, Pdp(tables, v), IndexAt(v, 2))
Pt(tables, v)   == Below(tables, Pd(tables, v), IndexAt(v, 1))
Leaf(tables, v) == Below(tables, Pt(tables, v), IndexAt(v, 0))

\* The walk of the processor is Translate.
LEMMA TranslateIsLeaf ==
  ASSUME NEW m, NEW v
  PROVE  Translate(m, v) = Leaf(m.tables, v)
BY Zenon DEF Translate, Leaf, Pt, Pd, Pdp, Below

\* A table of the level, or none.
AtLevel(tables, level, t, n) == t = None \/ (t \in DOMAIN tables /\ level[t] = n)

\* It goes down one level at a time, or ends.
LEMMA WalkStaysInTree ==
  ASSUME NEW tables, NEW level, Tree(tables, level), NEW v \in Nat
  PROVE  /\ AtLevel(tables, level, Pdp(tables, v), 2)
         /\ AtLevel(tables, level, Pd(tables, v), 1)
         /\ AtLevel(tables, level, Pt(tables, v), 0)
<1>1. \A n \in 0 .. 3 : IndexAt(v, n) \in Index
  BY IndexInTable
<1>2. ASSUME NEW t, NEW n \in 1 .. 3, AtLevel(tables, level, t, n), NEW i \in Index
      PROVE  AtLevel(tables, level, Below(tables, t, i), n - 1)
  BY <1>2 DEF Tree, AtLevel, Below
<1>3. AtLevel(tables, level, kernel_pml4, 3)
  BY DEF Tree, AtLevel
<1>4. AtLevel(tables, level, Pdp(tables, v), 2)
  BY <1>1, <1>2, <1>3 DEF Pdp
<1>5. AtLevel(tables, level, Pd(tables, v), 1)
  BY <1>1, <1>2, <1>4 DEF Pd
<1>6. AtLevel(tables, level, Pt(tables, v), 0)
  BY <1>1, <1>2, <1>5 DEF Pt
<1>7. QED
  BY <1>4, <1>5, <1>6

\* A tree that has grown: nothing of it has gone, and no page has moved.
Grows(tables, level, g, l) ==
  /\ Tree(g, l)
  /\ DOMAIN tables \subseteq DOMAIN g
  /\ \A t \in DOMAIN tables : l[t] = level[t]
  /\ \A t \in DOMAIN tables, i \in Index : tables[t][i] # None => g[t][i] = tables[t][i]
  /\ \A v \in Page : Leaf(g, v) = Leaf(tables, v)

\* Growing twice is growing.
LEMMA GrowsTwice ==
  ASSUME NEW a, NEW k, NEW b, NEW l, NEW c, NEW n, Grows(a, k, b, l), Grows(b, l, c, n)
  PROVE  Grows(a, k, c, n)
<1>1. \A t \in DOMAIN a, i \in Index : a[t][i] # None => c[t][i] = a[t][i]
  BY DEF Grows
<1>2. QED
  BY <1>1 DEF Grows

\* The new table of Descend.
WithTable(tables, t, i, f) ==
  [u \in DOMAIN tables \cup {f} |->
     IF u = f THEN NoEntries
     ELSE IF u = t THEN [tables[t] EXCEPT ![i] = f] ELSE tables[u]]

\* It is empty, and what referred to nothing refers to it; nothing else changes.
OneTableMore(g, tables, t, i, f) ==
  /\ DOMAIN g = DOMAIN tables \cup {f}
  /\ \A u \in DOMAIN g : g[u] \in [Index -> Entry]
  /\ \A j \in Index : g[f][j] = None
  /\ g[t][i] = f
  /\ \A u \in DOMAIN tables, j \in Index : ~ (u = t /\ j = i) => g[u][j] = tables[u][j]

LEMMA WithTableIs ==
  ASSUME NEW tables, NEW level, Tree(tables, level),
         NEW t \in DOMAIN tables, NEW i \in Index, NEW f \in Nat, f \notin DOMAIN tables
  PROVE  OneTableMore(WithTable(tables, t, i, f), tables, t, i, f)
<1> DEFINE g == WithTable(tables, t, i, f)
<1>1. DOMAIN g = DOMAIN tables \cup {f}
  BY DEF WithTable
<1>2. /\ g[f] = NoEntries
      /\ g[t] = [tables[t] EXCEPT ![i] = f]
      /\ \A u \in DOMAIN tables \ {t} : g[u] = tables[u]
  BY DEF WithTable
<1>3. NoEntries \in [Index -> Entry] /\ f \in Entry /\ \A j \in Index : NoEntries[j] = None
  BY DEF NoEntries, Entry
<1> HIDE DEF g
<1>4. /\ g[t] \in [Index -> Entry] /\ g[t][i] = f
      /\ \A j \in Index \ {i} : g[t][j] = tables[t][j]
  BY <1>2, <1>3 DEF Tree
<1>5. OneTableMore(g, tables, t, i, f)
  BY <1>1, <1>2, <1>3, <1>4 DEF Tree, OneTableMore
<1>6. QED
  BY <1>5 DEF g

\* The tree with it is a tree, and the walks to all pages end as before.
LEMMA NewTableGrows ==
  ASSUME NEW tables, NEW level, Tree(tables, level),
         NEW t \in DOMAIN tables, level[t] # 0, NEW i \in Index, tables[t][i] = None,
         NEW f \in Nat, f \notin DOMAIN tables
  PROVE  LET g == WithTable(tables, t, i, f)
         IN  \E l : Grows(tables, level, g, l) /\ g[t][i] = f /\ l[f] = level[t] - 1
<1> DEFINE g == WithTable(tables, t, i, f)
           l == [u \in DOMAIN tables \cup {f} |-> IF u = f THEN level[t] - 1 ELSE level[u]]
<1>1. /\ DOMAIN g = DOMAIN tables \cup {f}
      /\ \A u \in DOMAIN g : g[u] \in [Index -> Entry]
      /\ \A j \in Index : g[f][j] = None
      /\ g[t][i] = f
      /\ \A u \in DOMAIN tables, j \in Index : ~ (u = t /\ j = i) => g[u][j] = tables[u][j]
  <2>1. OneTableMore(g, tables, t, i, f)
    BY WithTableIs
  <2>2. QED
    BY <2>1 DEF OneTableMore
<1> HIDE DEF g
<1>2. /\ level[t] \in 1 .. 3 /\ l \in [DOMAIN g -> 0 .. 3]
      /\ l[f] = level[t] - 1 /\ \A u \in DOMAIN tables : l[u] = level[u] /\ u # f
  BY <1>1 DEF Tree
<1> HIDE DEF l
<1>3. kernel_pml4 \in DOMAIN tables /\ level[kernel_pml4] = 3 /\ DOMAIN g \subseteq Nat /\ f # None
  BY <1>1 DEF Tree, None
<1>4. \A u \in DOMAIN tables, j \in Index : level[u] # 0 /\ tables[u][j] # None =>
        tables[u][j] \in DOMAIN tables /\ tables[u][j] # f /\ level[tables[u][j]] = level[u] - 1
  BY DEF Tree
<1>5. \A u \in DOMAIN g, j \in Index : l[u] # 0 /\ g[u][j] # None =>
        g[u][j] \in DOMAIN g /\ l[g[u][j]] = l[u] - 1
  <2>1. SUFFICES ASSUME NEW u \in DOMAIN g, NEW j \in Index, l[u] # 0, g[u][j] # None
                 PROVE  g[u][j] \in DOMAIN g /\ l[g[u][j]] = l[u] - 1
    OBVIOUS
  <2>2. u \in DOMAIN tables
    BY <1>1, <2>1
  <2>3. CASE u = t /\ j = i
    BY <1>1, <1>2, <2>3
  <2>4. CASE ~ (u = t /\ j = i)
    BY <1>1, <1>2, <1>4, <2>1, <2>2, <2>4
  <2>5. QED
    BY <2>3, <2>4
<1>6. \A u, w \in DOMAIN g, j, k \in Index :
        l[u] # 0 /\ l[w] # 0 /\ g[u][j] = g[w][k] /\ g[u][j] # None => u = w /\ j = k
  <2>1. SUFFICES ASSUME NEW u \in DOMAIN g, NEW w \in DOMAIN g, NEW j \in Index, NEW k \in Index,
                        l[u] # 0, l[w] # 0, g[u][j] = g[w][k], g[u][j] # None
                 PROVE  u = w /\ j = k
    OBVIOUS
  <2>2. u \in DOMAIN tables /\ w \in DOMAIN tables /\ level[u] # 0 /\ level[w] # 0
    BY <1>1, <1>2, <2>1
  <2>3. \A a \in DOMAIN tables, b \in Index :
          level[a] # 0 /\ g[a][b] = f => a = t /\ b = i
    BY <1>1, <1>3, <1>4
  <2>4. CASE g[u][j] = f
    BY <2>1, <2>2, <2>3, <2>4
  <2>5. CASE g[u][j] # f
    <3>1. g[u][j] = tables[u][j] /\ g[w][k] = tables[w][k]
      BY <1>1, <2>1, <2>2, <2>5
    <3>2. tables[u][j] = tables[w][k] /\ tables[u][j] # None
      BY <2>1, <3>1
    <3>3. \A a, b \in DOMAIN tables, x, y \in Index :
            level[a] # 0 /\ level[b] # 0 /\ tables[a][x] = tables[b][y] /\ tables[a][x] # None
              => a = b /\ x = y
      BY DEF Tree
    <3>4. QED
      BY <2>2, <3>2, <3>3
  <2>6. QED
    BY <2>4, <2>5
<1>7. \A u \in DOMAIN g \ {kernel_pml4} : \E w \in DOMAIN g, j \in Index : l[w] # 0 /\ g[w][j] = u
  <2>1. SUFFICES ASSUME NEW u \in DOMAIN g \ {kernel_pml4}
                 PROVE  \E w \in DOMAIN g, j \in Index : l[w] # 0 /\ g[w][j] = u
    OBVIOUS
  <2>2. CASE u = f
    BY <1>1, <1>2, <2>2
  <2>3. CASE u # f
    <3>1. PICK w \in DOMAIN tables, j \in Index : level[w] # 0 /\ tables[w][j] = u
      BY <1>1, <2>3 DEF Tree
    <3>2. u # None
      BY <1>3 DEF None
    <3>3. g[w][j] = u
      BY <1>1, <3>1, <3>2
    <3>4. QED
      BY <1>1, <1>2, <3>1, <3>3
  <2>4. QED
    BY <2>2, <2>3
<1>8. Tree(g, l)
  BY <1>1, <1>2, <1>3, <1>5, <1>6, <1>7 DEF Tree
<1>9. \A u \in DOMAIN tables, j \in Index : tables[u][j] # None => g[u][j] = tables[u][j]
  BY <1>1
<1>10. ASSUME NEW v \in Page
       PROVE  Leaf(g, v) = Leaf(tables, v)
  \* Where the walk through g leaves the old tables it is in the new, empty one.
  <2> DEFINE Same(x, y) == y = x \/ (x = None /\ y = f)
  <2>1. v \in Nat /\ \A n \in 0 .. 3 : IndexAt(v, n) \in Index
    BY IndexInTable DEF Page
  <2>2. ASSUME NEW x, NEW y, Same(x, y), x = None \/ x \in DOMAIN tables, NEW j \in Index
        PROVE  Same(Below(tables, x, j), Below(g, y, j))
    BY <1>1, <1>3, <2>2 DEF Below
  <2>3. ASSUME NEW x, NEW y, Same(x, y), AtLevel(tables, level, x, 0), NEW j \in Index
        PROVE  Below(tables, x, j) = Below(g, y, j)
    BY <1>1, <1>3, <2>3 DEF Below, AtLevel
  <2>4. /\ AtLevel(tables, level, Pdp(tables, v), 2)
        /\ AtLevel(tables, level, Pd(tables, v), 1)
        /\ AtLevel(tables, level, Pt(tables, v), 0)
    BY <2>1, WalkStaysInTree
  <2>5. Same(Pdp(tables, v), Pdp(g, v))
    BY <1>3, <2>1, <2>2 DEF Pdp
  <2>6. Same(Pd(tables, v), Pd(g, v))
    BY <2>1, <2>2, <2>4, <2>5 DEF Pd, AtLevel
  <2>7. Same(Pt(tables, v), Pt(g, v))
    BY <2>1, <2>2, <2>4, <2>6 DEF Pt, AtLevel
  <2>8. QED
    BY <2>1, <2>3, <2>4, <2>7 DEF Leaf
<1>11. Grows(tables, level, g, l)
  BY <1>1, <1>2, <1>8, <1>9, <1>10 DEF Grows
<1>12. QED
  BY <1>1, <1>2, <1>11 DEF g

\* The walk to a page of the address space.
LEMMA PagesInTree ==
  ASSUME NEW tables, NEW level, Tree(tables, level), NEW v \in Page
  PROVE  /\ AtLevel(tables, level, kernel_pml4, 3)
         /\ AtLevel(tables, level, Pdp(tables, v), 2)
         /\ AtLevel(tables, level, Pd(tables, v), 1)
         /\ AtLevel(tables, level, Pt(tables, v), 0)
<1>1. v \in Nat
  BY DEF Page
<1>2. AtLevel(tables, level, kernel_pml4, 3)
  BY DEF Tree, AtLevel
<1>3. QED
  BY <1>1, <1>2, WalkStaysInTree

\* A step down: the tables have grown by at most one, and when there was a
\* frame for it the entry refers to the table below.
LEMMA DescendGrows ==
  ASSUME NEW m, NEW U, MemOK(m, U), NEW level, Tree(m.tables, level),
         NEW t \in DOMAIN m.tables, level[t] # 0, NEW i \in Index,
         NEW d, d = Descend(m, t, i)
  PROVE  /\ d.ok \in BOOLEAN
         /\ \E l : /\ Grows(m.tables, level, d.mem.tables, l)
                   /\ d.ok => /\ d.table \in DOMAIN d.mem.tables
                              /\ l[d.table] = level[t] - 1
                              /\ d.mem.tables[t][i] = d.table
<1>1. CASE m.tables[t][i] # None
  <2>1. d = [ok |-> TRUE, mem |-> m, table |-> m.tables[t][i]]
    BY <1>1 DEF Descend
  <2>2. m.tables[t][i] \in DOMAIN m.tables /\ level[m.tables[t][i]] = level[t] - 1
    BY <1>1 DEF Tree
  <2>3. Grows(m.tables, level, m.tables, level)
    BY DEF Grows
  <2>4. QED
    BY <2>1, <2>2, <2>3
<1>2. CASE m.tables[t][i] = None /\ ~ CanAlloc(m)
  <2>1. d = [ok |-> FALSE, mem |-> m, table |-> t]
    BY <1>2 DEF Descend
  <2>2. Grows(m.tables, level, m.tables, level)
    BY DEF Grows
  <2>3. QED
    BY <2>1, <2>2
<1>3. CASE m.tables[t][i] = None /\ CanAlloc(m)
  <2> DEFINE f == NewFrame(m)
             n == Taken(m)
             g == WithTable(m.tables, t, i, f)
             h == [u \in DOMAIN n.tables \cup {f} |->
                     IF u = f THEN NoEntries
                     ELSE IF u = t THEN [n.tables[t] EXCEPT ![i] = f] ELSE n.tables[u]]
             e == [n EXCEPT !.tables = h]
  <2>1. d = [ok |-> TRUE, table |-> f, mem |-> e]
    BY <1>3, Zenon DEF Descend
  <2>2. /\ MemOK(n, U \cup {f}) /\ n.tables = m.tables
        /\ f \in Nat /\ f \notin m.bitmap
    BY <1>3, TakenKeeps
  <2>3. DOMAIN m.tables \subseteq m.bitmap
    BY DEF MemOK
  <2>4. h = g
    BY <2>2 DEF WithTable
  <2> HIDE DEF f, n, g, h
  <2>5. e.tables = g
    <3>1. PICK b, p, s : n = [bitmap |-> b, free_pages |-> p, tables |-> s]
      BY <2>2 DEF MemOK
    <3>2. QED
      BY <2>4, <3>1
  <2> HIDE DEF e
  <2>6. d.ok = TRUE /\ d.table = f /\ d.mem.tables = g
    BY <2>1, <2>5
  <2>7. PICK l : Grows(m.tables, level, g, l) /\ g[t][i] = f /\ l[f] = level[t] - 1
    <3>1. f \notin DOMAIN m.tables
      BY <2>2, <2>3
    <3>2. QED
      BY <1>3, <2>2, <3>1, NewTableGrows DEF g
  <2>8. f \in DOMAIN g
    BY DEF g, WithTable
  <2>9. QED
    BY <2>6, <2>7, <2>8
<1>4. QED
  BY <1>1, <1>2, <1>3

\* An entry of the last table made to refer to a frame.
LEMMA EntryWritten ==
  ASSUME NEW tables, NEW level, Tree(tables, level), NEW v \in Page, NEW f \in Nat,
         NEW p \in DOMAIN tables, p = Pt(tables, v), level[p] = 0,
         NEW g, g = [tables EXCEPT ![p][IndexAt(v, 0)] = f]
  PROVE  /\ Tree(g, level)
         /\ \A w \in Page : Leaf(g, w) = IF w = v THEN f ELSE Leaf(tables, w)
<1> DEFINE i == IndexAt(v, 0)
<1>1. \A w \in Page, n \in 0 .. 3 : IndexAt(w, n) \in Index
  BY IndexInTable DEF Page
<1>2. /\ DOMAIN g = DOMAIN tables
      /\ \A t \in DOMAIN tables : t # p => g[t] = tables[t]
      /\ \A t \in DOMAIN g : g[t] \in [Index -> Entry]
      /\ g[p][i] = f
      /\ \A j \in Index : j # i => g[p][j] = tables[p][j]
  <2>1. tables[p] \in [Index -> Entry] /\ i \in Index /\ f \in Entry
    BY <1>1 DEF Tree, Entry
  <2>2. DOMAIN g = DOMAIN tables /\ g[p] = [tables[p] EXCEPT ![i] = f]
        /\ \A t \in DOMAIN tables : t # p => g[t] = tables[t]
    OBVIOUS
  <2> HIDE DEF i
  <2>3. /\ [tables[p] EXCEPT ![i] = f] \in [Index -> Entry]
        /\ [tables[p] EXCEPT ![i] = f][i] = f
        /\ \A j \in Index : j # i => [tables[p] EXCEPT ![i] = f][j] = tables[p][j]
    BY <2>1
  <2>4. \A t \in DOMAIN tables : tables[t] \in [Index -> Entry]
    BY DEF Tree
  <2>5. QED
    BY <2>1, <2>2, <2>3, <2>4
<1> HIDE DEF i
<1>3. \A t \in DOMAIN tables : level[t] # 0 => g[t] = tables[t]
  BY <1>2
<1>4. Tree(g, level)
  BY <1>2, <1>3 DEF Tree
<1>5. ASSUME NEW w \in Page
      PROVE  /\ Pdp(g, w) = Pdp(tables, w)
             /\ Pd(g, w) = Pd(tables, w)
             /\ Pt(g, w) = Pt(tables, w)
             /\ \/ Pt(tables, w) = None
                \/ Pt(tables, w) \in DOMAIN tables /\ level[Pt(tables, w)] = 0
  <2>1. /\ AtLevel(tables, level, kernel_pml4, 3)
        /\ AtLevel(tables, level, Pdp(tables, w), 2)
        /\ AtLevel(tables, level, Pd(tables, w), 1)
        /\ AtLevel(tables, level, Pt(tables, w), 0)
    BY PagesInTree
  <2>2. ASSUME NEW t, NEW j,
               \/ AtLevel(tables, level, t, 1)
               \/ AtLevel(tables, level, t, 2)
               \/ AtLevel(tables, level, t, 3)
        PROVE  Below(g, t, j) = Below(tables, t, j)
    BY <1>3, <2>2 DEF Below, AtLevel
  <2>3. Pdp(g, w) = Pdp(tables, w)
    BY <2>1, <2>2 DEF Pdp
  <2>4. Pd(g, w) = Pd(tables, w)
    <3>1. \A j : Below(g, Pdp(tables, w), j) = Below(tables, Pdp(tables, w), j)
      BY <2>1, <2>2
    <3>2. QED
      BY <2>3, <3>1, Zenon DEF Pd
  <2>5. Pt(g, w) = Pt(tables, w)
    <3>1. \A j : Below(g, Pd(tables, w), j) = Below(tables, Pd(tables, w), j)
      BY <2>1, <2>2
    <3>2. QED
      BY <2>4, <3>1, Zenon DEF Pt
  <2>6. QED
    BY <2>1, <2>3, <2>4, <2>5 DEF AtLevel
<1>6. p # None
  BY DEF Tree, None
<1>7. Leaf(g, v) = f
  BY <1>2, <1>5, <1>6 DEF Leaf, Below, i
<1>8. ASSUME NEW w \in Page, w # v
      PROVE  Leaf(g, w) = Leaf(tables, w)
  <2>1. CASE Pt(tables, w) # p
    BY <1>2, <1>5, <2>1 DEF Leaf, Below
  <2>2. CASE Pt(tables, w) = p /\ IndexAt(w, 0) # i
    <3>1. IndexAt(w, 0) \in Index
      BY <1>1
    <3>2. g[p][IndexAt(w, 0)] = tables[p][IndexAt(w, 0)]
      BY <1>2, <2>2, <3>1
    <3>3. Pt(g, w) = p
      BY <1>5, <2>2
    <3>4. QED
      BY <1>6, <2>2, <3>2, <3>3 DEF Leaf, Below
  <2>3. CASE Pt(tables, w) = p /\ IndexAt(w, 0) = i
    \* The walks meet in one entry: they are one walk, since no two entries share a table.
    <3>1. \A a, b \in DOMAIN tables, x, y \in Index :
            level[a] # 0 /\ level[b] # 0 /\ tables[a][x] = tables[b][y] /\ tables[a][x] # None
              => a = b /\ x = y
      BY DEF Tree
    <3>2. ASSUME NEW a, NEW b, NEW n \in 1 .. 3,
                 AtLevel(tables, level, a, n), AtLevel(tables, level, b, n),
                 NEW x \in Index, NEW y \in Index,
                 Below(tables, a, x) = Below(tables, b, y), Below(tables, a, x) # None
          PROVE  a = b /\ x = y /\ a # None
      BY <3>1, <3>2 DEF AtLevel, Below
    <3>3. \A u \in {v, w} : /\ AtLevel(tables, level, kernel_pml4, 3)
                            /\ AtLevel(tables, level, Pdp(tables, u), 2)
                            /\ AtLevel(tables, level, Pd(tables, u), 1)
      BY PagesInTree
    <3>4. Pd(tables, v) = Pd(tables, w) /\ IndexAt(v, 1) = IndexAt(w, 1) /\ Pd(tables, v) # None
      BY <1>1, <1>6, <2>3, <3>2, <3>3 DEF Pt
    <3>5. Pdp(tables, v) = Pdp(tables, w) /\ IndexAt(v, 2) = IndexAt(w, 2) /\ Pdp(tables, v) # None
      BY <1>1, <3>2, <3>3, <3>4 DEF Pd
    <3>6. IndexAt(v, 3) = IndexAt(w, 3)
      BY <1>1, <3>2, <3>3, <3>5 DEF Pdp
    <3>7. \A n \in 0 .. 3 : IndexAt(v, n) = IndexAt(w, n)
      BY <2>3, <3>4, <3>5, <3>6 DEF i
    <3>8. QED
      BY <1>8, <3>7, IndicesTellPages
  <2>4. QED
    BY <2>1, <2>2, <2>3
<1>9. QED
  BY <1>4, <1>7, <1>8

\* A page that was not mapped was mapped and no other page moved, or none moved.
OneMapped(tables, g) ==
  \/ \A w \in Page : Leaf(g, w) = Leaf(tables, w)
  \/ \E v \in Page, f \in Nat :
       Leaf(tables, v) = None /\ \A w \in Page : Leaf(g, w) = IF w = v THEN f ELSE Leaf(tables, w)

\* vmm_map_page maps its page when there were frames for the tables, and in any
\* case no other.
LEMMA MappedTells ==
  ASSUME NEW m, NEW U, MemOK(m, U), NEW level, Tree(m.tables, level), NEW v \in Page, NEW f \in Nat,
         NEW r, r = Mapped(m, v, f)
  PROVE  \E l : /\ Tree(r.mem.tables, l)
                /\ \A w \in Page :
                     Leaf(r.mem.tables, w) = IF r.ok /\ w = v THEN f ELSE Leaf(m.tables, w)
<1> DEFINE pdp == Descend(m, kernel_pml4, IndexAt(v, 3))
           pd  == IF pdp.ok THEN Descend(pdp.mem, pdp.table, IndexAt(v, 2)) ELSE pdp
           pt  == IF pd.ok THEN Descend(pd.mem, pd.table, IndexAt(v, 1)) ELSE pd
           n   == pt.mem
           e   == [n EXCEPT !.tables[pt.table][IndexAt(v, 0)] = f]
<1>1. v \in Nat /\ \A k \in 0 .. 3 : IndexAt(v, k) \in Index
  BY IndexInTable DEF Page
<1>2. r = IF pt.ok THEN [ok |-> TRUE, mem |-> e] ELSE [ok |-> FALSE, mem |-> n]
  BY Zenon DEF Mapped
<1>3. /\ MemOK(pdp.mem, U)
      /\ pdp.ok \in BOOLEAN
      /\ \E l : /\ Grows(m.tables, level, pdp.mem.tables, l)
                /\ pdp.ok => /\ pdp.table \in DOMAIN pdp.mem.tables
                             /\ l[pdp.table] = 2
                             /\ pdp.mem.tables[kernel_pml4][IndexAt(v, 3)] = pdp.table
  <2>1. kernel_pml4 \in DOMAIN m.tables /\ level[kernel_pml4] = 3 /\ IndexAt(v, 3) \in Index
    BY <1>1 DEF Tree
  <2>2. MemOK(pdp.mem, U)
    BY <1>1, DescendKeeps
  <2>3. QED
    BY <2>1, <2>2, DescendGrows
<1> HIDE DEF pdp
<1>4. PICK k : /\ Grows(m.tables, level, pdp.mem.tables, k)
               /\ pdp.ok => /\ pdp.table \in DOMAIN pdp.mem.tables
                            /\ k[pdp.table] = 2
                            /\ pdp.mem.tables[kernel_pml4][IndexAt(v, 3)] = pdp.table
  BY <1>3
<1>5. /\ MemOK(pd.mem, U)
      /\ pd.ok \in BOOLEAN /\ (pd.ok => pdp.ok)
      /\ \E l : /\ Grows(pdp.mem.tables, k, pd.mem.tables, l)
                /\ pd.ok => /\ pd.table \in DOMAIN pd.mem.tables
                            /\ l[pd.table] = 1
                            /\ pd.mem.tables[pdp.table][IndexAt(v, 2)] = pd.table
  <2>1. CASE pdp.ok
    <3> DEFINE d == Descend(pdp.mem, pdp.table, IndexAt(v, 2))
    <3>1. pdp.table \in DOMAIN pdp.mem.tables /\ k[pdp.table] = 2 /\ IndexAt(v, 2) \in Index
      BY <1>1, <1>4, <2>1
    <3>2. MemOK(d.mem, U) /\ Tree(pdp.mem.tables, k)
      BY <1>1, <1>3, <1>4, DescendKeeps DEF Grows
    <3>3. /\ d.ok \in BOOLEAN
          /\ \E l : /\ Grows(pdp.mem.tables, k, d.mem.tables, l)
                    /\ d.ok => /\ d.table \in DOMAIN d.mem.tables
                               /\ l[d.table] = 1
                               /\ d.mem.tables[pdp.table][IndexAt(v, 2)] = d.table
      BY <1>3, <3>1, <3>2, DescendGrows
    <3>4. pd = d
      BY <2>1
    <3> HIDE DEF d, pd
    <3>5. QED
      BY <2>1, <3>2, <3>3, <3>4
  <2>2. CASE ~ pdp.ok
    <3>1. pd = pdp /\ Grows(pdp.mem.tables, k, pdp.mem.tables, k)
      BY <1>4, <2>2 DEF Grows
    <3> HIDE DEF pd
    <3>2. QED
      BY <1>3, <2>2, <3>1
  <2>3. QED
    BY <2>1, <2>2
<1> HIDE DEF pd
<1>6. PICK j : /\ Grows(pdp.mem.tables, k, pd.mem.tables, j)
               /\ pd.ok => /\ pd.table \in DOMAIN pd.mem.tables
                           /\ j[pd.table] = 1
                           /\ pd.mem.tables[pdp.table][IndexAt(v, 2)] = pd.table
  BY <1>5
<1>7. /\ MemOK(pt.mem, U)
      /\ pt.ok \in BOOLEAN /\ (pt.ok => pd.ok)
      /\ \E l : /\ Grows(pd.mem.tables, j, pt.mem.tables, l)
                /\ pt.ok => /\ pt.table \in DOMAIN pt.mem.tables
                            /\ l[pt.table] = 0
                            /\ pt.mem.tables[pd.table][IndexAt(v, 1)] = pt.table
  <2>1. CASE pd.ok
    <3> DEFINE d == Descend(pd.mem, pd.table, IndexAt(v, 1))
    <3>1. pd.table \in DOMAIN pd.mem.tables /\ j[pd.table] = 1 /\ IndexAt(v, 1) \in Index
      BY <1>1, <1>6, <2>1
    <3>2. MemOK(d.mem, U) /\ Tree(pd.mem.tables, j)
      BY <1>1, <1>5, <1>6, DescendKeeps DEF Grows
    <3>3. /\ d.ok \in BOOLEAN
          /\ \E l : /\ Grows(pd.mem.tables, j, d.mem.tables, l)
                    /\ d.ok => /\ d.table \in DOMAIN d.mem.tables
                               /\ l[d.table] = 0
                               /\ d.mem.tables[pd.table][IndexAt(v, 1)] = d.table
      BY <1>5, <3>1, <3>2, DescendGrows
    <3>4. pt = d
      BY <2>1
    <3> HIDE DEF d, pt
    <3>5. QED
      BY <2>1, <3>2, <3>3, <3>4
  <2>2. CASE ~ pd.ok
    <3>1. pt = pd /\ Grows(pd.mem.tables, j, pd.mem.tables, j)
      BY <1>6, <2>2 DEF Grows
    <3> HIDE DEF pt
    <3>2. QED
      BY <1>5, <2>2, <3>1
  <2>3. QED
    BY <2>1, <2>2
<1> HIDE DEF pt
<1>8. PICK l : /\ Grows(pd.mem.tables, j, n.tables, l)
               /\ pt.ok => /\ pt.table \in DOMAIN n.tables
                           /\ l[pt.table] = 0
                           /\ n.tables[pd.table][IndexAt(v, 1)] = pt.table
  BY <1>7
<1>9. Grows(pdp.mem.tables, k, n.tables, l) /\ Grows(m.tables, level, n.tables, l)
  BY <1>4, <1>6, <1>8, GrowsTwice
<1>10. CASE ~ pt.ok
  BY <1>2, <1>9, <1>10 DEF Grows
<1>11. CASE pt.ok
  \* The tables on the way are those of v.
  <2>1. /\ pdp.ok /\ pd.ok
        /\ pdp.table \in DOMAIN pdp.mem.tables /\ pd.table \in DOMAIN pd.mem.tables
        /\ pdp.mem.tables[kernel_pml4][IndexAt(v, 3)] = pdp.table
        /\ pd.mem.tables[pdp.table][IndexAt(v, 2)] = pd.table
        /\ pt.table \in DOMAIN n.tables
        /\ l[pt.table] = 0
        /\ n.tables[pd.table][IndexAt(v, 1)] = pt.table
    BY <1>4, <1>5, <1>6, <1>7, <1>8, <1>11
  <2>2. Tree(pdp.mem.tables, k) /\ Tree(pd.mem.tables, j) /\ Tree(n.tables, l)
    BY <1>4, <1>6, <1>8 DEF Grows
  <2>3. \A a, b : Tree(a, b) =>
          kernel_pml4 \in DOMAIN a /\ kernel_pml4 # None /\ \A t \in DOMAIN a : t # None
    BY DEF Tree, None
  <2>4. n.tables[kernel_pml4][IndexAt(v, 3)] = pdp.table /\ pdp.table # None /\ kernel_pml4 # None
    BY <1>1, <1>9, <2>1, <2>2, <2>3 DEF Grows
  <2>5. n.tables[pdp.table][IndexAt(v, 2)] = pd.table /\ pd.table # None
    <3>1. pdp.table \in DOMAIN pd.mem.tables
      BY <1>6, <2>1 DEF Grows
    <3>2. QED
      BY <1>1, <1>8, <2>1, <2>2, <2>3, <3>1 DEF Grows
  <2>6. pt.table = Pt(n.tables, v)
    BY <2>1, <2>4, <2>5 DEF Pt, Pd, Pdp, Below
  <2> DEFINE p == pt.table
             g == [n.tables EXCEPT ![p][IndexAt(v, 0)] = f]
  <2>7. /\ Tree(g, l)
        /\ \A w \in Page : Leaf(g, w) = IF w = v THEN f ELSE Leaf(n.tables, w)
    BY <2>1, <2>2, <2>6, EntryWritten
  <2>8. e.tables = g
    <3>1. PICK b, c, s : n = [bitmap |-> b, free_pages |-> c, tables |-> s]
      BY <1>7 DEF MemOK
    <3> HIDE DEF n
    <3>2. n.tables = s
      BY <3>1
    <3>3. QED
      BY <3>1, <3>2
  <2> HIDE DEF e, g, n
  <2>9. r.ok = TRUE /\ r.mem.tables = g
    BY <1>2, <1>11, <2>8
  <2>10. \A w \in Page : Leaf(n.tables, w) = Leaf(m.tables, w)
    BY <1>9 DEF Grows
  <2>11. QED
    BY <2>7, <2>9, <2>10
<1>12. QED
  BY <1>7, <1>10, <1>11

(***************************************************************************)
(* The tree is kept, and while mm_init maps, nothing ahead of it is.       *)
(***************************************************************************)
TreeInv ==
  /\ PagingInv
  /\ \E level : Tree(mem.tables, level)
  /\ addr < IDENTITY_PAGES => \A v \in Page : v >= addr => Leaf(mem.tables, v) = None

\* The one table of mm_init is empty.
LEMMA TreeInvInit == Init => TreeInv
<1> SUFFICES ASSUME Init PROVE TreeInv
  OBVIOUS
<1>1. mem.tables = [t \in {kernel_pml4} |-> NoEntries]
  BY DEF Init
<1>2. DOMAIN mem.tables = {kernel_pml4} /\ mem.tables[kernel_pml4] = NoEntries
  BY <1>1
<1>3. \A i \in Index : NoEntries[i] = None
  BY DEF NoEntries
<1>4. NoEntries \in [Index -> Entry] /\ kernel_pml4 \in Nat
  BY PagingAssumption DEF NoEntries, Entry, kernel_pml4
<1> DEFINE l == [t \in {kernel_pml4} |-> 3]
<1>5. l \in [DOMAIN mem.tables -> 0 .. 3] /\ l[kernel_pml4] = 3
  BY <1>2
<1> HIDE DEF l
<1>6. Tree(mem.tables, l)
  BY <1>2, <1>3, <1>4, <1>5 DEF Tree
<1>7. ASSUME NEW v \in Page
      PROVE  Leaf(mem.tables, v) = None
  <2>1. IndexAt(v, 3) \in Index
    BY IndexInTable DEF Page
  <2>2. QED
    BY <1>2, <1>3, <2>1 DEF Leaf, Pt, Pd, Pdp, Below
<1>8. QED
  BY <1>6, <1>7, PagingInvInit DEF TreeInv

\* Every step keeps the tree and maps at most one page.
LEMMA TreeInvStep ==
  ASSUME TreeInv, [Next]_vars
  PROVE  TreeInv' /\ OneMapped(mem.tables, mem'.tables)
<1> DEFINE U == held \cup faulted \cup lost
<1>1. PagingInv' /\ MemOK(mem, U) /\ addr \in Nat
  BY PagingInvNext DEF TreeInv, PagingInv
<1>2. PICK level : Tree(mem.tables, level)
  BY DEF TreeInv
<1>3. ASSUME mem'.tables = mem.tables, addr' = addr
      PROVE  TreeInv' /\ OneMapped(mem.tables, mem'.tables)
  BY <1>1, <1>3 DEF TreeInv, OneMapped
<1>4. CASE InitMap
  <2> DEFINE r == Mapped(mem, addr, addr)
  <2>1. addr < IDENTITY_PAGES /\ mem' = r.mem /\ addr' = addr + ENTRIES
    BY <1>4 DEF InitMap
  <2>2. addr \in Page
    BY <1>1, <2>1, PagingAssumption DEF Page
  <2>3. Leaf(mem.tables, addr) = None /\ \A v \in Page : v >= addr => Leaf(mem.tables, v) = None
    BY <1>1, <2>1, <2>2 DEF TreeInv
  <2>4. \E l : /\ Tree(r.mem.tables, l)
               /\ \A w \in Page :
                    Leaf(r.mem.tables, w) = IF r.ok /\ w = addr THEN addr ELSE Leaf(mem.tables, w)
    BY <1>1, <1>2, <2>2, MappedTells
  <2> HIDE DEF r
  <2>5. OneMapped(mem.tables, mem'.tables)
    BY <1>1, <2>1, <2>2, <2>3, <2>4 DEF OneMapped
  <2>6. \A v \in Page : v >= addr' => Leaf(mem'.tables, v) = None
    <3>1. SUFFICES ASSUME NEW v \in Page, v >= addr'
                   PROVE  Leaf(mem'.tables, v) = None
      OBVIOUS
    <3>2. v > addr
      BY <1>1, <2>1, <3>1, PagingAssumption DEF Page
    <3>3. v >= addr /\ v # addr
      BY <1>1, <3>2 DEF Page
    <3>4. QED
      BY <2>1, <2>3, <2>4, <3>3
  <2>7. QED
    BY <1>1, <2>1, <2>4, <2>5, <2>6 DEF TreeInv
<1>5. CASE AllocPage
  <2>1. mem'.tables = mem.tables /\ addr' = addr
    BY <1>1, <1>5, TakenKeeps DEF AllocPage
  <2>2. QED
    BY <1>3, <2>1
<1>6. ASSUME NEW f \in Bit, FreePage(f)
      PROVE  mem'.tables = mem.tables /\ addr' = addr
  <2>1. PICK b, c, s : mem = [bitmap |-> b, free_pages |-> c, tables |-> s]
    BY <1>1 DEF MemOK
  <2>2. mem' = [mem EXCEPT !.bitmap = @ \ {f}, !.free_pages = @ + 1] /\ addr' = addr
    BY <1>6 DEF FreePage
  <2>3. QED
    BY <2>1, <2>2
<1>7. ASSUME NEW v \in Page, PageFault(v)
      PROVE  TreeInv' /\ OneMapped(mem.tables, mem'.tables)
  <2> DEFINE f == NewFrame(mem)
             n == Taken(mem)
             r == Mapped(n, v, f)
  <2>1. /\ Leaf(mem.tables, v) = None /\ CanAlloc(mem)
        /\ mem' = r.mem /\ addr' = addr /\ addr >= IDENTITY_PAGES
    BY <1>7, TranslateIsLeaf DEF PageFault, Running
  <2>2. MemOK(n, U \cup {f}) /\ n.tables = mem.tables /\ f \in Nat
    <3>1. /\ MemOK(n, U \cup {f}) /\ n.tables = mem.tables
          /\ f \in 0 .. TOTAL_PAGES - 1 /\ f \notin mem.bitmap
      BY <1>1, <2>1, TakenKeeps
    <3> HIDE DEF f, n
    <3>2. QED
      BY <3>1
  <2>3. Tree(n.tables, level)
    BY <1>2, <2>2
  <2> HIDE DEF f, n
  <2>4. \E l : /\ Tree(r.mem.tables, l)
               /\ \A w \in Page :
                    Leaf(r.mem.tables, w) = IF r.ok /\ w = v THEN f ELSE Leaf(n.tables, w)
    BY <2>2, <2>3, MappedTells
  <2> HIDE DEF r
  <2>5. OneMapped(mem.tables, mem'.tables)
    BY <2>1, <2>2, <2>4 DEF OneMapped
  <2>6. ~ (addr' < IDENTITY_PAGES)
    BY <1>1, <2>1, PagingAssumption
  <2>7. QED
    BY <1>1, <2>1, <2>4, <2>5, <2>6 DEF TreeInv
<1>8. ASSUME NEW v \in Page, Panic(v)
      PROVE  mem'.tables = mem.tables /\ addr' = addr
  BY <1>8 DEF Panic
<1>9. CASE UNCHANGED vars
  BY <1>3, <1>9 DEF vars
<1>10. QED
  BY <1>3, <1>4, <1>5, <1>6, <1>7, <1>8, <1>9 DEF Next

LEMMA TreeInvAlways == Spec => []TreeInv
<1>1. TreeInv /\ [Next]_vars => TreeInv'
  BY TreeInvStep
<1>2. QED
  BY <1>1, TreeInvInit, PTL DEF Spec

\* vmm_map_page, through tables that are made on the way or that cannot be made
\* for want of frames, and the page fault handler with it, implement a map from
\* pages to frames that changes at one page, not mapped before, at a time.
THEOREM PagingRefinesPageMap == Spec => RefinesPageMap
<1> DEFINE map == [v \in Page |-> Translate(mem, v)]
<1>1. Init => Space!Init
  <2> SUFFICES ASSUME Init PROVE Space!Init
    OBVIOUS
  <2>1. TreeInv /\ addr = 0
    BY TreeInvInit DEF Init
  <2>2. ASSUME NEW v \in Page
        PROVE  Translate(mem, v) = None
    <3>1. mem.tables = [t \in {kernel_pml4} |-> NoEntries] /\ IndexAt(v, 3) \in Index
      BY IndexInTable DEF Init, Page
    <3>2. Leaf(mem.tables, v) = None
      BY <3>1 DEF Leaf, Pt, Pd, Pdp, Below, NoEntries
    <3>3. QED
      BY <3>2, TranslateIsLeaf
  <2>3. QED
    BY <2>2 DEF Space!Init
<1>2. TreeInv /\ [Next]_vars => [Space!Next]_map
  <2> SUFFICES ASSUME TreeInv, [Next]_vars PROVE Space!Next \/ UNCHANGED map
    BY DEF map
  <2>1. /\ map = [v \in Page |-> Leaf(mem.tables, v)]
        /\ map' = [v \in Page |-> Leaf(mem'.tables, v)]
    BY TranslateIsLeaf
  <2>2. OneMapped(mem.tables, mem'.tables)
    BY TreeInvStep
  <2>3. CASE \A w \in Page : Leaf(mem'.tables, w) = Leaf(mem.tables, w)
    BY <2>1, <2>3
  <2>4. ASSUME NEW v \in Page, NEW f \in Nat, Leaf(mem.tables, v) = None,
               \A w \in Page : Leaf(mem'.tables, w) = IF w = v THEN f ELSE Leaf(mem.tables, w)
        PROVE  Space!Next
    <3>1. map[v] = None /\ map'[v] = f
      BY <2>1, <2>4
    <3>2. map' = [map EXCEPT ![v] = f]
      BY <2>1, <2>4
    <3>3. map' = [map EXCEPT ![v] = map'[v]]
      BY <3>1, <3>2
    <3>4. Space!Map(v)
      BY <3>1, <3>3 DEF Space!Map
    <3>5. QED
      BY <3>4 DEF Space!Next
  <2>5. QED
    BY <2>2, <2>3, <2>4 DEF OneMapped
<1>3. QED
  BY <1>1, <1>2, TreeInvAlways, PTL DEF Spec, RefinesPageMap, Space!Spec

\* The tables are reached from the kernel's top-level table, level by level, and
\* no two entries share one, also after mappings that failed half-way.
THEOREM PagingTablesFormTree == Spec => []TablesFormTree
<1>1. TreeInv => TablesFormTree
  <2> SUFFICES ASSUME TreeInv PROVE TablesFormTree
    OBVIOUS
  <2> DEFINE tables == mem.tables
             Refs(T) == UNION {Range(tables[t]) \ {None} : t \in T}
             Level[n \in 0 .. 3] == IF n = 0 THEN {kernel_pml4} ELSE Refs(Level[n - 1])
             Inner == {t \in DOMAIN tables : \E n \in 0 .. 2 : t \in Level[n]}
  <2>1. PICK level : Tree(tables, level)
    BY DEF TreeInv
  <2>2. /\ Level[0] = {kernel_pml4} /\ Level[1] = Refs(Level[0])
        /\ Level[2] = Refs(Level[1]) /\ Level[3] = Refs(Level[2])
    <3> DEFINE L == [n \in 0 .. 3 |-> IF n = 0 THEN {kernel_pml4}
                                      ELSE IF n = 1 THEN Refs({kernel_pml4})
                                      ELSE IF n = 2 THEN Refs(Refs({kernel_pml4}))
                                      ELSE Refs(Refs(Refs({kernel_pml4})))]
               Defines(g) == g = [n \in 0 .. 3 |-> IF n = 0 THEN {kernel_pml4} ELSE Refs(g[n - 1])]
    <3> HIDE DEF Refs
    <3>1. \A n \in 0 .. 3 : n = 0 \/ n = 1 \/ n = 2 \/ n = 3
      OBVIOUS
    <3>2. Defines(L)
      BY <3>1
    <3>3. Defines(Level)
      <4>1. Level = CHOOSE g : Defines(g)
        BY DEF Level
      <4> HIDE DEF L, Level, Defines
      <4>2. QED
        BY <3>2, <4>1
    <3> HIDE DEF Level, L
    <3>4. QED
      BY <3>3
  <2> HIDE DEF Level
  <2>3. ASSUME NEW T, NEW k \in 1 .. 3, T = {t \in DOMAIN tables : level[t] = k}
        PROVE  Refs(T) = {t \in DOMAIN tables : level[t] = k - 1}
    <3>1. ASSUME NEW t \in T, NEW x \in Range(tables[t]) \ {None}
          PROVE  x \in DOMAIN tables /\ level[x] = k - 1
      <4>1. tables[t] \in [Index -> Entry] /\ level[t] = k
        BY <2>1, <2>3 DEF Tree
      <4>2. PICK i \in Index : x = tables[t][i]
        BY <4>1 DEF Range
      <4>3. QED
        BY <2>1, <2>3, <4>1, <4>2 DEF Tree
    <3>2. ASSUME NEW x \in DOMAIN tables, level[x] = k - 1
          PROVE  \E t \in T : x \in Range(tables[t]) \ {None}
      <4>1. x # kernel_pml4 /\ x # None
        BY <2>1, <3>2 DEF Tree, None
      <4>2. PICK u \in DOMAIN tables, i \in Index : level[u] # 0 /\ tables[u][i] = x
        BY <2>1, <4>1 DEF Tree
      <4>3. level[x] = level[u] - 1 /\ level[u] \in 0 .. 3 /\ level[x] \in 0 .. 3
            /\ tables[u] \in [Index -> Entry]
        BY <2>1, <4>1, <4>2 DEF Tree
      <4>4. u \in T
        BY <2>3, <3>2, <4>3
      <4>5. x \in Range(tables[u])
        BY <4>2, <4>3 DEF Range
      <4>6. QED
        BY <4>1, <4>4, <4>5
    <3> HIDE DEF tables
    <3>3. QED
      BY <3>1, <3>2
  <2> HIDE DEF Refs
  <2>4. Level[0] = {t \in DOMAIN tables : level[t] = 3}
    <3>1. ASSUME NEW t \in DOMAIN tables, level[t] = 3
          PROVE  t = kernel_pml4
      <4>1. SUFFICES ASSUME t # kernel_pml4 PROVE FALSE
        OBVIOUS
      <4>2. PICK u \in DOMAIN tables, i \in Index : level[u] # 0 /\ tables[u][i] = t
        BY <2>1, <4>1 DEF Tree
      <4>3. t # None
        BY <2>1 DEF Tree, None
      <4>4. level[t] = level[u] - 1 /\ level[u] \in 0 .. 3
        BY <2>1, <4>2, <4>3 DEF Tree
      <4>5. QED
        BY <3>1, <4>4
    <3>2. kernel_pml4 \in DOMAIN tables /\ level[kernel_pml4] = 3
      BY <2>1 DEF Tree
    <3>3. QED
      BY <2>2, <3>1, <3>2
  <2>5. Level[1] = {t \in DOMAIN tables : level[t] = 2}
    BY <2>2, <2>3, <2>4
  <2>6. Level[2] = {t \in DOMAIN tables : level[t] = 1}
    BY <2>2, <2>3, <2>5
  <2>7. Level[3] = {t \in DOMAIN tables : level[t] = 0}
    BY <2>2, <2>3, <2>6
  <2>8. UNION {Level[n] : n \in 0 .. 3} = DOMAIN tables
    <3>1. \A t \in DOMAIN tables : level[t] = 0 \/ level[t] = 1 \/ level[t] = 2 \/ level[t] = 3
      BY <2>1 DEF Tree
    <3>2. UNION {Level[n] : n \in 0 .. 3} = Level[0] \cup Level[1] \cup Level[2] \cup Level[3]
      <4>1. \A n \in 0 .. 3 : n = 0 \/ n = 1 \/ n = 2 \/ n = 3
        OBVIOUS
      <4>2. 0 \in 0 .. 3 /\ 1 \in 0 .. 3 /\ 2 \in 0 .. 3 /\ 3 \in 0 .. 3
        OBVIOUS
      <4>3. QED
        BY <4>1, <4>2
    <3>3. QED
      BY <2>4, <2>5, <2>6, <2>7, <3>1, <3>2
  <2>9. \A t \in Inner : t \in DOMAIN tables /\ level[t] # 0
    <3>1. \A n \in 0 .. 2 : n = 0 \/ n = 1 \/ n = 2
      OBVIOUS
    <3>2. QED
      BY <2>4, <2>5, <2>6, <3>1
  <2>10. \A t, u \in Inner : \A i, j \in Index :
           tables[t][i] = tables[u][j] /\ tables[t][i] # None => t = u /\ i = j
    <3>1. \A t, u \in DOMAIN tables, i, j \in Index :
            level[t] # 0 /\ level[u] # 0 /\ tables[t][i] = tables[u][j] /\ tables[t][i] # None
              => t = u /\ i = j
      BY <2>1 DEF Tree
    <3> HIDE DEF Inner, tables
    <3>2. QED
      BY <2>9, <3>1
  <2>11. QED
    BY <2>8, <2>10, Zenon DEF TablesFormTree, Level, Refs
<1>2. QED
  BY <1>1, TreeInvAlways, PTL

(***************************************************************************)
(* Recursion that ends in a call of itself has a solution, whether it ends *)
(* or not: the ends of a state are those of the next.                      *)
(***************************************************************************)
Member(X) == CHOOSE t : t \in X

LeadsOn(S, done, next, Q) ==
  /\ \A s \in S : s \in done => <<s, s>> \in Q
  /\ \A s \in S, t \in S : s \notin done /\ <<next[s], t>> \in Q => <<s, t>> \in Q

EndsOf(S, done, next, s) ==
  {t \in S : \A Q \in SUBSET (S \X S) : LeadsOn(S, done, next, Q) => <<s, t>> \in Q}

\* A state that is done is its only end.
LEMMA EndIsItself ==
  ASSUME NEW S, NEW done, NEW next \in [S -> S], NEW s \in S, s \in done
  PROVE  EndsOf(S, done, next, s) = {s}
<1>1. s \in EndsOf(S, done, next, s)
  BY DEF EndsOf, LeadsOn
<1>2. ASSUME NEW t \in EndsOf(S, done, next, s), t # s
      PROVE  FALSE
  <2> DEFINE Q == (S \X S) \ {<<s, t>>}
  <2>1. LeadsOn(S, done, next, Q)
    BY <1>2 DEF LeadsOn
  <2>2. Q \in SUBSET (S \X S)
    OBVIOUS
  <2>3. <<s, t>> \in Q
    BY <2>1, <2>2 DEF EndsOf
  <2>4. QED
    BY <2>3
<1>3. QED
  BY <1>1, <1>2

\* A state that is not has the ends of the next.
LEMMA EndIsOfNext ==
  ASSUME NEW S, NEW done, NEW next \in [S -> S], NEW s \in S, s \notin done
  PROVE  EndsOf(S, done, next, s) = EndsOf(S, done, next, next[s])
<1>1. next[s] \in S
  OBVIOUS
<1>2. ASSUME NEW t \in EndsOf(S, done, next, next[s])
      PROVE  t \in EndsOf(S, done, next, s)
  <2>1. SUFFICES ASSUME NEW Q \in SUBSET (S \X S), LeadsOn(S, done, next, Q)
                 PROVE  <<s, t>> \in Q
    BY DEF EndsOf
  <2>2. t \in S /\ <<next[s], t>> \in Q
    BY <2>1 DEF EndsOf
  <2>3. QED
    BY <2>1, <2>2 DEF LeadsOn
<1>3. ASSUME NEW t \in EndsOf(S, done, next, s)
      PROVE  t \in EndsOf(S, done, next, next[s])
  <2>1. t \in S
    BY DEF EndsOf
  <2>2. SUFFICES ASSUME NEW R \in SUBSET (S \X S), LeadsOn(S, done, next, R), <<next[s], t>> \notin R
                 PROVE  FALSE
    BY <2>1 DEF EndsOf
  <2> DEFINE Q == R \ {<<s, t>>}
  <2>3. LeadsOn(S, done, next, Q)
    <3>1. \A r \in S : r \in done => <<r, r>> \in Q
      BY <2>2 DEF LeadsOn
    <3>2. ASSUME NEW r \in S, NEW u \in S, r \notin done, <<next[r], u>> \in Q
          PROVE  <<r, u>> \in Q
      <4>1. <<r, u>> \in R
        BY <2>2, <3>2 DEF LeadsOn
      <4>2. <<r, u>> # <<s, t>>
        BY <2>2, <3>2
      <4>3. QED
        BY <4>1, <4>2
    <3>3. QED
      BY <3>1, <3>2 DEF LeadsOn
  <2>4. Q \in SUBSET (S \X S)
    OBVIOUS
  <2>5. <<s, t>> \in Q
    BY <2>3, <2>4 DEF EndsOf
  <2>6. QED
    BY <2>5
<1>4. QED
  BY <1>2, <1>3

Solves(S, done, next, G) == G = [s \in S |-> IF s \in done THEN s ELSE G[next[s]]]

\* So a function that takes each state to one of its ends solves the equation.
LEMMA TailRecursion ==
  ASSUME NEW S, NEW done, NEW next \in [S -> S]
  PROVE  \E G : Solves(S, done, next, G)
<1> DEFINE G == [s \in S |-> Member(EndsOf(S, done, next, s))]
<1>1. ASSUME NEW s \in S
      PROVE  G[s] = IF s \in done THEN s ELSE G[next[s]]
  <2>1. CASE s \in done
    <3>1. EndsOf(S, done, next, s) = {s}
      BY <2>1, EndIsItself
    <3>2. Member({s}) = s
      BY DEF Member
    <3>3. QED
      BY <2>1, <3>1, <3>2
  <2>2. CASE s \notin done
    <3>1. EndsOf(S, done, next, s) = EndsOf(S, done, next, next[s]) /\ next[s] \in S
      BY <2>2, EndIsOfNext
    <3>2. QED
      BY <2>2, <3>1
  <2>3. QED
    BY <2>1, <2>2
<1>2. Solves(S, done, next, G)
  BY <1>1 DEF Solves
<1>3. QED
  BY <1>2

(***************************************************************************)
(* Minesweeper: the board.                                                 *)
(***************************************************************************)

\* The loops over the neighbours go one step at most.
LEMMA OffsetsAre ==
  ASSUME NEW i \in 1 .. 9
  PROVE  Offsets[i][1] \in -1 .. 1 /\ Offsets[i][2] \in -1 .. 1
  BY DEF Offsets

\* The row of mine k is on the board.
LEMMA RowOnBoard ==
  ASSUME NEW w \in Nat, NEW h \in Nat, NEW k \in Nat, k < w * h
  PROVE  w > 0 /\ k \div w \in 0 .. h - 1 /\ (k * 3 + w) % w \in 0 .. w - 1
<1>1. w # 0
  OBVIOUS
<1>2. k \div w \in Int /\ w * (k \div w) <= k /\ k < w * (k \div w) + w
  BY <1>1
<1>3. k \div w >= 0
  BY <1>1, <1>2
<1> DEFINE d == k \div w
<1> HIDE DEF d
<1>4. d \in Nat /\ w * d <= k
  BY <1>2, <1>3 DEF d
<1>5. ASSUME d >= h PROVE FALSE
  <2>1. PICK e \in Nat : d = h + e
    BY <1>4, <1>5
  <2>2. w * d = w * h + w * e /\ w * e >= 0
    BY <2>1
  <2>3. QED
    BY <1>4, <2>2
<1>6. k \div w \in 0 .. h - 1
  BY <1>4, <1>5 DEF d
<1>7. (k * 3 + w) % w \in 0 .. w - 1
  BY <1>1
<1>8. QED
  BY <1>1, <1>6, <1>7

\* A board has width times height cells.
LEMMA CellsAreFinite ==
  ASSUME NEW w \in Nat, NEW h \in Nat
  PROVE  IsFiniteSet(Cells(w, h)) /\ Cardinality(Cells(w, h)) = w * h
<1>1. IsFiniteSet(0 .. w - 1) /\ Cardinality(0 .. w - 1) = w
  BY FS_Interval
<1>2. IsFiniteSet(0 .. h - 1) /\ Cardinality(0 .. h - 1) = h
  BY FS_Interval
<1> DEFINE A == 0 .. w - 1
           B == 0 .. h - 1
<1>3. Cells(w, h) = A \X B
  BY DEF Cells
<1>4. IsFiniteSet(A) /\ Cardinality(A) = w /\ IsFiniteSet(B) /\ Cardinality(B) = h
  BY <1>1, <1>2
<1> HIDE DEF A, B
<1>5. IsFiniteSet(A \X B) /\ Cardinality(A \X B) = Cardinality(A) * Cardinality(B)
  BY <1>4, FS_Product, Zenon
<1>6. QED
  BY <1>3, <1>4, <1>5, Zenon

\* Mines lie on the board.
LEMMA MinesOnBoard ==
  ASSUME NEW w \in Nat, NEW h \in Nat, NEW n \in Nat, n < w * h
  PROVE  Mines(w, n) \subseteq Cells(w, h)
<1>1. ASSUME NEW k \in 0 .. n - 1
      PROVE  MinePlace(w, k) \in Cells(w, h)
  <2>1. k \in Nat /\ w * h \in Int /\ k < w * h
    OBVIOUS
  <2>2. k \div w \in 0 .. h - 1 /\ (k * 3 + w) % w \in 0 .. w - 1
    BY <2>1, RowOnBoard
  <2>3. QED
    BY <2>2 DEF MinePlace, Cells
<1>2. QED
  BY <1>1 DEF Mines

\* No more than nine cells lie around one, itself among them.
LEMMA AroundIsSmall ==
  ASSUME NEW w \in Nat, NEW h \in Nat, NEW c \in Cells(w, h), NEW M, c \notin M
  PROVE  Cardinality(Around(w, h, c) \cap M) \in 0 .. 8 /\ IsFiniteSet(Around(w, h, c) \cap M)
<1> DEFINE E == {Beside(c, i) : i \in (1 .. 4) \cup (6 .. 9)}
           A == Around(w, h, c) \cap M
           f == [i \in 1 .. 8 |-> IF i < 5 THEN Beside(c, i) ELSE Beside(c, i + 1)]
<1>1. c[1] \in Int /\ c[2] \in Int /\ c = <<c[1], c[2]>>
  BY DEF Cells
<1>2. Beside(c, 5) = c
  BY <1>1 DEF Beside, Offsets
<1>3. A \subseteq E
  <2>1. ASSUME NEW d \in A PROVE d \in E
    <3>1. PICK i \in 1 .. 9 : d = Beside(c, i)
      BY DEF Around
    <3>2. i # 5
      BY <1>2, <3>1
    <3>3. i \in (1 .. 4) \cup (6 .. 9)
      BY <3>2
    <3>4. QED
      BY <3>1, <3>3
  <2>2. QED
    BY <2>1
<1>4. f \in Surjection(1 .. 8, E)
  <2>1. \A i \in 1 .. 8 : f[i] \in E
    OBVIOUS
  <2>2. ASSUME NEW d \in E PROVE \E i \in 1 .. 8 : f[i] = d
    <3>1. PICK i \in (1 .. 4) \cup (6 .. 9) : d = Beside(c, i)
      OBVIOUS
    <3>2. CASE i < 5
      BY <3>1, <3>2
    <3>3. CASE ~ i < 5
      <4>1. i - 1 \in 1 .. 8 /\ ~ i - 1 < 5 /\ (i - 1) + 1 = i
        BY <3>1, <3>3
      <4>2. QED
        BY <3>1, <4>1
    <3>4. QED
      BY <3>2, <3>3
  <2>3. QED
    BY <2>1, <2>2 DEF Surjection
<1>5. IsFiniteSet(E) /\ Cardinality(E) <= 8
  <2>1. IsFiniteSet(1 .. 8) /\ Cardinality(1 .. 8) = 8
    <3>1. \A n \in Nat : IsFiniteSet(1 .. n) /\ Cardinality(1 .. n) = n
      BY FS_Interval
    <3>2. 8 \in Nat
      OBVIOUS
    <3>3. QED
      BY <3>1, <3>2, Zenon
  <2> HIDE DEF E, f
  <2>2. QED
    BY <1>4, <2>1, FS_Surjection
<1> HIDE DEF E, A
<1>6. IsFiniteSet(A) /\ Cardinality(A) <= Cardinality(E)
  BY <1>3, <1>5, FS_Subset
<1>7. Cardinality(A) \in Nat /\ Cardinality(E) \in Nat
  BY <1>5, <1>6, FS_CardinalityType
<1>8. QED
  BY <1>5, <1>6, <1>7 DEF A

Mined(g) == {c \in DOMAIN g.field : g.field[c] = Mine}

\* The cells to open
Sound(g) == DOMAIN g.field \ Mined(g)

Whole(g) ==
  g = [width |-> g.width, height |-> g.height, mine_count |-> g.mine_count,
       revealed_count |-> g.revealed_count, flags_remaining |-> g.flags_remaining,
       game_over |-> g.game_over, game_won |-> g.game_won, field |-> g.field,
       revealed |-> g.revealed, flagged |-> g.flagged]

Board(g) ==
  /\ g.width \in Nat /\ g.height \in Nat /\ g.mine_count \in Nat
  /\ g.mine_count < g.width * g.height
  /\ DOMAIN g.field = Cells(g.width, g.height)
  /\ Cardinality(Mined(g)) = g.mine_count
  /\ \A c \in Cells(g.width, g.height) :
       g.field[c] = 0 => Around(g.width, g.height, c) \cap Mined(g) = {}

Decided(over, won, revealed, mined, sound) ==
  /\ won <=> revealed = sound
  /\ over /\ ~won <=> revealed \cap mined # {}
  /\ Cardinality(revealed \cap mined) <= 1
  /\ won => over

Played(g) ==
  /\ g.game_over \in BOOLEAN /\ g.game_won \in BOOLEAN
  /\ g.revealed \subseteq DOMAIN g.field /\ g.revealed_count = Cardinality(g.revealed)
  /\ Decided(g.game_over, g.game_won, g.revealed, Mined(g), Sound(g))

Marked(g, ever) ==
  /\ g.flagged \subseteq DOMAIN g.field \cap ever
  /\ g.flags_remaining \in Int
  /\ Cardinality(g.flagged) + g.flags_remaining = Cardinality(Mined(g))
  /\ g.flagged \cap g.revealed = {}

\* The cells around an open 0 are open or in a given set.
Closed(g, but) ==
  \A c \in g.revealed :
    g.field[c] = 0 => Around(g.width, g.height, c) \subseteq g.revealed \cup but

\* The field tells the mines, and a 0 that there are none around.
LEMMA FieldIs ==
  ASSUME NEW w \in Nat, NEW h \in Nat, NEW n \in Nat, n < w * h
  PROVE  /\ DOMAIN Field(w, h, n) = Cells(w, h)
         /\ {c \in Cells(w, h) : Field(w, h, n)[c] = Mine} = Mines(w, n)
         /\ \A c \in Cells(w, h) : Field(w, h, n)[c] = 0 => Around(w, h, c) \cap Mines(w, n) = {}
<1>1. DOMAIN Field(w, h, n) = Cells(w, h)
  BY DEF Field
<1>2. ASSUME NEW c \in Cells(w, h), c \in Mines(w, n)
      PROVE  Field(w, h, n)[c] = 9
  BY <1>2 DEF Field, Mine
<1>3. ASSUME NEW c \in Cells(w, h), c \notin Mines(w, n)
      PROVE  Field(w, h, n)[c] # 9
             /\ (Field(w, h, n)[c] = 0 => Around(w, h, c) \cap Mines(w, n) = {})
  <2>1. Field(w, h, n)[c] = Cardinality(Around(w, h, c) \cap Mines(w, n))
    BY <1>3, Zenon DEF Field
  <2> DEFINE A == Around(w, h, c) \cap Mines(w, n)
  <2>2. Cardinality(A) \in 0 .. 8 /\ IsFiniteSet(A)
    BY <1>3, AroundIsSmall, Zenon
  <2> HIDE DEF A
  <2>3. Cardinality(A) = 0 => A = {}
    BY <2>2, FS_EmptySet, Zenon
  <2>4. Field(w, h, n)[c] = Cardinality(A)
    BY <2>1 DEF A
  <2>5. QED
    BY <2>2, <2>3, <2>4 DEF A
<1>4. Mines(w, n) \subseteq Cells(w, h)
  BY MinesOnBoard
<1>5. {c \in Cells(w, h) : Field(w, h, n)[c] = Mine} = Mines(w, n)
  BY <1>2, <1>3, <1>4, Zenon DEF Mine
<1>6. \A c \in Cells(w, h) : Field(w, h, n)[c] = 0 => Around(w, h, c) \cap Mines(w, n) = {}
  <2>1. 9 # 0
    OBVIOUS
  <2>2. QED
    BY <1>2, <1>3, <2>1, Zenon
<1>7. QED
  BY <1>1, <1>5, <1>6, Zenon

\* The cells to open are those the code counts, and there are some.
LEMMA SoundCells ==
  ASSUME NEW g, Board(g)
  PROVE  /\ IsFiniteSet(DOMAIN g.field) /\ IsFiniteSet(Mined(g)) /\ IsFiniteSet(Sound(g))
         /\ Cardinality(Sound(g)) = g.width * g.height - g.mine_count
         /\ Sound(g) # {}
<1> DEFINE D == DOMAIN g.field
           w == g.width
           h == g.height
           n == g.mine_count
           size == w * h
<1>1. IsFiniteSet(D) /\ Cardinality(D) = size
  BY CellsAreFinite DEF Board
<1>2. Mined(g) \subseteq D /\ Sound(g) \subseteq D /\ Sound(g) = D \ Mined(g)
  BY DEF Mined, Sound
<1>3. n \in Nat /\ size \in Int /\ n < size /\ Cardinality(Mined(g)) = n
  BY DEF Board
<1>a. size = g.width * g.height /\ n = g.mine_count
  OBVIOUS
<1> HIDE DEF D, n, size
<1>4. IsFiniteSet(Mined(g)) /\ IsFiniteSet(Sound(g))
  BY <1>1, <1>2, FS_Subset, Zenon
<1>5. Cardinality(D \ Mined(g)) = Cardinality(D) - Cardinality(D \cap Mined(g))
  BY <1>1, <1>4, FS_Difference, Zenon
<1>6. D \cap Mined(g) = Mined(g)
  BY <1>2
<1>7. Cardinality(Sound(g)) = size - n
  BY <1>1, <1>2, <1>3, <1>5, <1>6
<1>8. Cardinality({}) = 0
  BY FS_EmptySet
<1>9. Sound(g) # {}
  BY <1>3, <1>7, <1>8
<1>10. QED
  BY <1>1, <1>4, <1>7, <1>9, <1>a DEF D

\* A new game is as it should be.
LEMMA NewIsBoard ==
  ASSUME NEW w \in Nat, NEW h \in Nat, NEW n \in Nat, n < w * h, Placed(w, n)
  PROVE  LET g == NewGame(w, h, n)
         IN Whole(g) /\ Board(g) /\ Played(g) /\ Marked(g, {}) /\ Closed(g, {})
<1> DEFINE g == NewGame(w, h, n)
<1>1. /\ Whole(g) /\ g.width = w /\ g.height = h /\ g.mine_count = n
      /\ g.revealed_count = 0 /\ g.flags_remaining = n /\ g.game_over = FALSE
      /\ g.game_won = FALSE /\ g.field = Field(w, h, n) /\ g.revealed = {} /\ g.flagged = {}
  BY DEF NewGame, Whole
<1> HIDE DEF g
<1> DEFINE F == Field(w, h, n)
<1>a. /\ DOMAIN F = Cells(w, h)
      /\ {c \in Cells(w, h) : F[c] = Mine} = Mines(w, n)
      /\ \A c \in Cells(w, h) : F[c] = 0 => Around(w, h, c) \cap Mines(w, n) = {}
  BY FieldIs
<1>b. g.field = F
  BY <1>1, Zenon
<1> HIDE DEF F
<1>2. Mined(g) = Mines(w, n) /\ DOMAIN g.field = Cells(w, h)
  <2>1. Mined(g) = {c \in Cells(w, h) : F[c] = Mine}
    BY <1>a, <1>b DEF Mined
  <2>2. QED
    BY <1>a, <1>b, <2>1, Zenon
<1>3. Board(g)
  <2>1. Cardinality(Mined(g)) = g.mine_count
    BY <1>1, <1>2, Zenon DEF Placed
  <2>2. \A c \in Cells(g.width, g.height) :
          g.field[c] = 0 => Around(g.width, g.height, c) \cap Mined(g) = {}
    BY <1>1, <1>2, <1>a, <1>b
  <2>3. g.mine_count < g.width * g.height
    BY <1>1
  <2>4. g.width \in Nat /\ g.height \in Nat /\ g.mine_count \in Nat
    BY <1>1, Zenon
  <2>5. DOMAIN g.field = Cells(g.width, g.height)
    BY <1>1, <1>2, Zenon
  <2>6. QED
    BY <2>1, <2>2, <2>3, <2>4, <2>5, Zenon DEF Board
<1>4. Cardinality({}) = 0
  BY FS_EmptySet
<1>5. Played(g)
  <2>1. Sound(g) # {}
    BY <1>3, SoundCells
  <2>2. {} \cap Mined(g) = {}
    OBVIOUS
  <2>3. Decided(FALSE, FALSE, {}, Mined(g), Sound(g))
    BY <1>4, <2>1, <2>2 DEF Decided
  <2>4. QED
    BY <1>1, <1>4, <2>3 DEF Played
<1>6. Marked(g, {})
  <2>1. n + 0 = n /\ 0 + n = n /\ n \in Int
    OBVIOUS
  <2>2. Cardinality(Mined(g)) = n
    BY <1>2 DEF Placed
  <2>3. QED
    BY <1>1, <1>4, <2>1, <2>2 DEF Marked
<1>7. Closed(g, {})
  BY <1>1 DEF Closed
<1>8. QED
  BY <1>1, <1>3, <1>5, <1>6, <1>7 DEF g

(***************************************************************************)
(* Minesweeper: opening one cell.                                          *)
(***************************************************************************)

\* o is g but for what is open and the outcome.
Continues(o, g) ==
  /\ o.width = g.width /\ o.height = g.height /\ o.mine_count = g.mine_count
  /\ o.flags_remaining = g.flags_remaining /\ o.field = g.field /\ o.flagged = g.flagged

MayOpen(g, c) == ~Refused(g, c)

Opens(o, g, c) ==
  /\ Whole(o) /\ Continues(o, g)
  /\ o.revealed = g.revealed \cup {c} /\ o.revealed_count = g.revealed_count + 1
  /\ g.field[c] = Mine => o.game_over = TRUE /\ o.game_won = g.game_won
  /\ g.field[c] # Mine =>
       IF g.revealed_count + 1 = g.width * g.height - g.mine_count
       THEN o.game_over = TRUE /\ o.game_won = TRUE
       ELSE o.game_over = g.game_over /\ o.game_won = g.game_won

GameOf(w, h, n, count, flags, over, won, field, open, flagged) ==
  [width |-> w, height |-> h, mine_count |-> n, revealed_count |-> count,
   flags_remaining |-> flags, game_over |-> over, game_won |-> won, field |-> field,
   revealed |-> open, flagged |-> flagged]

\* A record of the fields of a game is whole.
LEMMA WholeIs ==
  ASSUME NEW w, NEW h, NEW n, NEW count, NEW flags, NEW over, NEW won, NEW field, NEW open,
         NEW flagged, NEW g, g = GameOf(w, h, n, count, flags, over, won, field, open, flagged)
  PROVE  Whole(g)
<1>1. /\ g.width = w /\ g.height = h /\ g.mine_count = n /\ g.revealed_count = count
      /\ g.flags_remaining = flags /\ g.game_over = over /\ g.game_won = won
      /\ g.field = field /\ g.revealed = open /\ g.flagged = flagged
  BY DEF GameOf
<1>2. QED
  BY <1>1, Zenon DEF Whole, GameOf

\* What opening a cell assigns.
LEMMA OpenedOpens ==
  ASSUME NEW g, NEW c, Whole(g)
  PROVE  Opens(Opened(g, c), g, c)
<1> DEFINE yes == TRUE
           a == g.revealed \cup {c}
           b == g.revealed_count + 1
           p == [g EXCEPT !.revealed = a, !.revealed_count = b]
           l == [p EXCEPT !.game_over = yes]
           v == [p EXCEPT !.game_won = yes, !.game_over = yes]
           w == g.width
           h == g.height
           n == g.mine_count
           count == g.revealed_count
           flags == g.flags_remaining
           over == g.game_over
           won == g.game_won
           field == g.field
           open == g.revealed
           flagged == g.flagged
<1>a. g = GameOf(w, h, n, count, flags, over, won, field, open, flagged)
  BY Zenon DEF Whole, GameOf
<1>b. a = g.revealed \cup {c} /\ b = g.revealed_count + 1
  OBVIOUS
<1>4. Opened(g, c) = IF g.field[c] = Mine THEN l ELSE IF Complete(p) THEN v ELSE p
  BY Zenon DEF Opened
<1>d. yes = TRUE
  OBVIOUS
<1> HIDE DEF yes, a, b, w, h, n, count, flags, over, won, field, open, flagged
<1>c. p = GameOf(w, h, n, b, flags, over, won, field, a, flagged)
  <2> DEFINE k == [g EXCEPT !.revealed = a]
  <2>1. k = GameOf(w, h, n, count, flags, over, won, field, a, flagged)
    BY <1>a DEF GameOf
  <2>2. p = [k EXCEPT !.revealed_count = b]
    OBVIOUS
  <2> HIDE DEF k, p
  <2>3. QED
    BY <2>1, <2>2 DEF GameOf
<1>1. /\ Whole(p) /\ Continues(p, g)
      /\ p.revealed = a /\ p.revealed_count = b
      /\ p.game_over = g.game_over /\ p.game_won = g.game_won
  <2> HIDE DEF p
  <2>1. Whole(p)
    BY <1>c, WholeIs, Zenon
  <2>2. /\ p.width = w /\ p.height = h /\ p.mine_count = n /\ p.revealed_count = b
        /\ p.flags_remaining = flags /\ p.game_over = over /\ p.game_won = won
        /\ p.field = field /\ p.revealed = a /\ p.flagged = flagged
    BY <1>c DEF GameOf
  <2>3. QED
    BY <2>1, <2>2, Zenon DEF w, h, n, flags, over, won, field, flagged, Continues
<1>2. Whole(l) /\ Continues(l, p) /\ l.revealed = p.revealed /\ l.revealed_count = p.revealed_count
      /\ l.game_over = yes /\ l.game_won = p.game_won
  <2> HIDE DEF p
  <2>1. l = GameOf(w, h, n, b, flags, yes, won, field, a, flagged)
    BY <1>c DEF GameOf
  <2> HIDE DEF l
  <2>2. Whole(l)
    BY <2>1, WholeIs, Zenon
  <2>3. /\ l.width = w /\ l.height = h /\ l.mine_count = n /\ l.revealed_count = b
        /\ l.flags_remaining = flags /\ l.game_over = yes /\ l.game_won = won
        /\ l.field = field /\ l.revealed = a /\ l.flagged = flagged
    BY <2>1 DEF GameOf
  <2>4. QED
    BY <1>1, <2>2, <2>3, Zenon DEF Continues, w, h, n, flags, won, field, flagged
<1>3. Whole(v) /\ Continues(v, p) /\ v.revealed = p.revealed /\ v.revealed_count = p.revealed_count
      /\ v.game_over = yes /\ v.game_won = yes
  <2> HIDE DEF p
  <2>1. v = GameOf(w, h, n, b, flags, yes, yes, field, a, flagged)
    <3> DEFINE k == [p EXCEPT !.game_won = yes]
    <3>1. k = GameOf(w, h, n, b, flags, over, yes, field, a, flagged)
      BY <1>c DEF GameOf
    <3>2. v = [k EXCEPT !.game_over = yes]
      OBVIOUS
    <3> HIDE DEF k, v
    <3>3. QED
      BY <3>1, <3>2 DEF GameOf
  <2> HIDE DEF v
  <2>2. Whole(v)
    BY <2>1, WholeIs, Zenon
  <2>3. /\ v.width = w /\ v.height = h /\ v.mine_count = n /\ v.revealed_count = b
        /\ v.flags_remaining = flags /\ v.game_over = yes /\ v.game_won = yes
        /\ v.field = field /\ v.revealed = a /\ v.flagged = flagged
    BY <2>1 DEF GameOf
  <2>4. QED
    BY <1>1, <2>2, <2>3, Zenon DEF Continues, w, h, n, flags, won, field, flagged
<1>5. Complete(p) <=> b = g.width * g.height - g.mine_count
  BY <1>1 DEF Complete, Continues
<1> HIDE DEF p, l, v
<1>6. CASE g.field[c] = Mine
  <2>1. Opened(g, c) = l
    BY <1>4, <1>6, Zenon
  <2>2. Opens(l, g, c)
    BY <1>1, <1>2, <1>6, <1>b, <1>d, Zenon DEF Opens, Continues
  <2>3. QED
    BY <2>1, <2>2, Zenon
<1>7. CASE g.field[c] # Mine /\ Complete(p)
  <2>1. Opened(g, c) = v
    BY <1>4, <1>7, Zenon
  <2>2. Opens(v, g, c)
    BY <1>1, <1>3, <1>5, <1>7, <1>b, <1>d, Zenon DEF Opens, Continues
  <2>3. QED
    BY <2>1, <2>2, Zenon
<1>8. CASE g.field[c] # Mine /\ ~Complete(p)
  <2>1. Opened(g, c) = p
    BY <1>4, <1>8, Zenon
  <2>2. Opens(p, g, c)
    BY <1>1, <1>5, <1>8, <1>b, Zenon DEF Opens
  <2>3. QED
    BY <2>1, <2>2, Zenon
<1>9. QED
  BY <1>6, <1>7, <1>8, Zenon

\* The board stays as it was made.
LEMMA BoardStays ==
  ASSUME NEW o, NEW g, Continues(o, g), Board(g)
  PROVE  Board(o) /\ Mined(o) = Mined(g) /\ Sound(o) = Sound(g)
<1>1. Mined(o) = Mined(g)
  BY Zenon DEF Continues, Mined
<1>2. Sound(o) = Sound(g)
  BY <1>1, Zenon DEF Continues, Sound
<1>3. Board(o)
  BY <1>1 DEF Continues, Board
<1>4. QED
  BY <1>1, <1>2, <1>3

\* A cell that may be opened is on the board, hidden, and the game is on.
LEMMA OpenCellMay ==
  ASSUME NEW g, NEW c, Board(g), Played(g), MayOpen(g, c)
  PROVE  /\ c \in DOMAIN g.field /\ c \notin g.revealed /\ c \notin g.flagged
         /\ g.game_over = FALSE /\ g.game_won = FALSE /\ g.revealed \cap Mined(g) = {}
  BY DEF MayOpen, Refused, Board, Played, Decided

\* The outcome stays what the open cells say.
LEMMA OpenedPlayed ==
  ASSUME NEW g, NEW o, NEW c, Board(g), Played(g), MayOpen(g, c), Opens(o, g, c)
  PROVE  Played(o)
<1> DEFINE D == DOMAIN g.field
           M == Mined(g)
           S == Sound(g)
           r == g.revealed
           q == r \cup {c}
           size == g.width * g.height - g.mine_count
<1>1. c \in D /\ c \notin r /\ g.game_over = FALSE /\ g.game_won = FALSE /\ r \cap M = {}
  BY OpenCellMay
<1>2. IsFiniteSet(D) /\ IsFiniteSet(M) /\ IsFiniteSet(S) /\ Cardinality(S) = size /\ S # {}
  BY SoundCells
<1>3. S = D \ M /\ M \subseteq D /\ r \subseteq D /\ g.revealed_count = Cardinality(r)
  BY DEF Sound, Mined, Played
<1>4. Mined(o) = M /\ Sound(o) = S /\ DOMAIN o.field = D
  BY BoardStays, Zenon DEF Opens, Continues
<1>5. o.revealed = q /\ o.revealed_count = g.revealed_count + 1
  BY Zenon DEF Opens
<1>6. c \in M <=> g.field[c] = Mine
  BY <1>1 DEF Mined
<1>7. /\ g.field[c] = Mine => o.game_over = TRUE /\ o.game_won = g.game_won
      /\ g.field[c] # Mine => IF g.revealed_count + 1 = size
                              THEN o.game_over = TRUE /\ o.game_won = TRUE
                              ELSE o.game_over = g.game_over /\ o.game_won = g.game_won
  BY Zenon DEF Opens
<1> HIDE DEF D, M, S, r, q, size
<1>8. q = r \cup {c}
  BY DEF q
<1>9. IsFiniteSet(r) /\ Cardinality(q) = Cardinality(r) + 1
  <2>1. IsFiniteSet(r)
    BY <1>2, <1>3, FS_Subset
  <2>2. QED
    BY <1>1, <1>8, <2>1, FS_AddElement
<1>10. q \subseteq D /\ o.revealed_count = Cardinality(q)
  BY <1>1, <1>3, <1>5, <1>8, <1>9
<1>11. CASE c \in M
  <2>1. q # S /\ q \cap M = {c}
    BY <1>1, <1>3, <1>8, <1>11
  <2>2. Cardinality({c}) = 1
    BY FS_Singleton, Zenon
  <2>3. Cardinality(q \cap M) <= 1
    BY <2>1, <2>2
  <2>4. o.game_over = TRUE /\ o.game_won = FALSE
    BY <1>1, <1>6, <1>7, <1>11, Zenon
  <2>5. Decided(TRUE, FALSE, q, M, S)
    BY <2>1, <2>3 DEF Decided
  <2>6. QED
    BY <1>4, <1>5, <1>10, <2>4, <2>5 DEF Played
<1>12. CASE c \notin M
  <2>1. q \cap M = {} /\ q \subseteq S
    BY <1>1, <1>3, <1>8, <1>10, <1>12
  <2>2. Cardinality(q \cap M) <= 1
    <3>1. Cardinality({}) = 0
      BY FS_EmptySet
    <3>2. QED
      BY <2>1, <3>1
  <2>3. g.revealed_count + 1 = Cardinality(q)
    BY <1>3, <1>9
  <2>4. Cardinality(q) = size => q = S
    BY <1>2, <2>1, FS_Subset
  <2>5. CASE q = S
    <3>1. g.revealed_count + 1 = size
      BY <1>2, <2>3, <2>5, Zenon
    <3>2. o.game_over = TRUE /\ o.game_won = TRUE
      BY <1>6, <1>7, <1>12, <3>1, Zenon
    <3>3. Decided(TRUE, TRUE, q, M, S)
      BY <2>1, <2>2, <2>5 DEF Decided
    <3>4. QED
      BY <1>4, <1>5, <1>10, <3>2, <3>3 DEF Played
  <2>6. CASE q # S
    <3>1. g.revealed_count + 1 # size
      BY <2>3, <2>4, <2>6, Zenon
    <3>2. o.game_over = FALSE /\ o.game_won = FALSE
      BY <1>1, <1>6, <1>7, <1>12, <3>1, Zenon
    <3>3. Decided(FALSE, FALSE, q, M, S)
      BY <2>1, <2>2, <2>6 DEF Decided
    <3>4. QED
      BY <1>4, <1>5, <1>10, <3>2, <3>3 DEF Played
  <2>7. QED
    BY <2>5, <2>6
<1>13. QED
  BY <1>11, <1>12

\* No flag stands on an open cell.
LEMMA OpenedMarked ==
  ASSUME NEW g, NEW o, NEW c, NEW ever, Board(g), Played(g), MayOpen(g, c), Opens(o, g, c), Marked(g, ever)
  PROVE  Marked(o, ever)
<1>1. c \notin g.flagged
  BY OpenCellMay
<1>2. Mined(o) = Mined(g) /\ Continues(o, g) /\ o.revealed = g.revealed \cup {c}
  BY BoardStays, Zenon DEF Opens
<1>3. QED
  BY <1>1, <1>2 DEF Marked, Continues

(***************************************************************************)
(* Minesweeper: the calls.                                                 *)
(***************************************************************************)

Waiting(calls) == {calls[i] : i \in DOMAIN calls}

\* The calls that wait are the first and those after it.
LEMMA WaitingSplits ==
  ASSUME NEW S, NEW q \in Seq(S), q # <<>>
  PROVE  /\ Head(q) \in S /\ Tail(q) \in Seq(S) /\ Len(q) \in Nat /\ Len(Tail(q)) = Len(q) - 1
         /\ Waiting(q) = {Head(q)} \cup Waiting(Tail(q))
<1>1. /\ Head(q) = q[1] /\ Head(q) \in S /\ Tail(q) \in Seq(S) /\ Len(q) \in Nat
      /\ Len(q) >= 1 /\ Len(Tail(q)) = Len(q) - 1 /\ DOMAIN q = 1 .. Len(q)
      /\ \A i \in 1 .. Len(q) - 1 : Tail(q)[i] = q[i + 1]
  OBVIOUS
<1>2. DOMAIN Tail(q) = 1 .. Len(q) - 1
  BY <1>1
<1> DEFINE n == Len(q)
           t == Tail(q)
<1>3. n \in Nat /\ n >= 1 /\ DOMAIN q = 1 .. n /\ DOMAIN t = 1 .. n - 1 /\ Head(q) = q[1]
      /\ \A i \in 1 .. n - 1 : t[i] = q[i + 1]
  BY <1>1, <1>2
<1> HIDE DEF n, t
<1>4. ASSUME NEW i \in 1 .. n PROVE q[i] \in {Head(q)} \cup Waiting(t)
  <2>1. CASE i = 1
    BY <1>3, <2>1
  <2>2. CASE i # 1
    <3>1. i - 1 \in 1 .. n - 1 /\ (i - 1) + 1 = i
      BY <1>3, <2>2
    <3>2. t[i - 1] = q[i]
      BY <1>3, <3>1
    <3>3. QED
      BY <1>3, <3>1, <3>2 DEF Waiting
  <2>3. QED
    BY <2>1, <2>2
<1>5. ASSUME NEW i \in 1 .. n - 1 PROVE t[i] \in Waiting(q)
  <2>1. i + 1 \in 1 .. n
    BY <1>3
  <2>2. QED
    BY <1>3, <2>1 DEF Waiting
<1>6. Head(q) \in Waiting(q)
  <2>1. 1 \in 1 .. n
    BY <1>3
  <2>2. QED
    BY <1>3, <2>1 DEF Waiting
<1>7. Waiting(q) = {Head(q)} \cup Waiting(t)
  BY <1>3, <1>4, <1>5, <1>6 DEF Waiting
<1>8. QED
  BY <1>1, <1>7 DEF t

\* Calls made before those that wait
LEMMA WaitingJoins ==
  ASSUME NEW S, NEW p \in Seq(S), NEW q \in Seq(S)
  PROVE  /\ p \o q \in Seq(S) /\ Len(p \o q) = Len(p) + Len(q) /\ Len(p) \in Nat /\ Len(q) \in Nat
         /\ Waiting(p \o q) = Waiting(p) \cup Waiting(q)
<1> DEFINE m == Len(p)
           n == Len(q)
           r == p \o q
<1>1. /\ r \in Seq(S) /\ Len(r) = m + n /\ m \in Nat /\ n \in Nat
      /\ DOMAIN p = 1 .. m /\ DOMAIN q = 1 .. n
      /\ \A i \in 1 .. m : r[i] = p[i]
      /\ \A i \in m + 1 .. m + n : r[i] = q[i - m]
  OBVIOUS
<1>2. DOMAIN r = 1 .. m + n
  BY <1>1
<1>9. m = Len(p) /\ n = Len(q) /\ r = p \o q
  OBVIOUS
<1> HIDE DEF m, n, r
<1>3. ASSUME NEW i \in 1 .. m + n PROVE r[i] \in Waiting(p) \cup Waiting(q)
  <2>1. CASE i <= m
    <3>1. i \in 1 .. m
      BY <1>1, <2>1
    <3>2. QED
      BY <1>1, <3>1 DEF Waiting
  <2>2. CASE ~ i <= m
    <3>1. i \in m + 1 .. m + n /\ i - m \in 1 .. n
      BY <1>1, <2>2
    <3>2. QED
      BY <1>1, <3>1 DEF Waiting
  <2>3. QED
    BY <2>1, <2>2
<1>4. ASSUME NEW i \in 1 .. m PROVE p[i] \in Waiting(r)
  <2>1. i \in 1 .. m + n
    BY <1>1
  <2>2. QED
    BY <1>1, <1>2, <2>1 DEF Waiting
<1>5. ASSUME NEW i \in 1 .. n PROVE q[i] \in Waiting(r)
  <2>1. i + m \in 1 .. m + n /\ i + m \in m + 1 .. m + n /\ (i + m) - m = i
    BY <1>1
  <2>2. r[i + m] = q[i]
    BY <1>1, <2>1
  <2>3. QED
    BY <1>2, <2>1, <2>2 DEF Waiting
<1>6. Waiting(r) = Waiting(p) \cup Waiting(q)
  BY <1>1, <1>2, <1>3, <1>4, <1>5 DEF Waiting
<1>7. QED
  BY <1>1, <1>6, <1>9

\* No calls, none waiting.
LEMMA NoneWaits ==
  ASSUME NEW S, NEW q \in Seq(S), Len(q) = 0
  PROVE  Waiting(q) = {}
<1>1. DOMAIN q = 1 .. 0
  OBVIOUS
<1>2. QED
  BY <1>1 DEF Waiting

\* What is reached from g
Reached(s, g) ==
  /\ s = [game |-> s.game, calls |-> s.calls]
  /\ Whole(s.game) /\ Continues(s.game, g)
  /\ s.game.revealed \in SUBSET DOMAIN g.field /\ s.game.revealed_count \in Nat
  /\ s.game.game_over \in BOOLEAN /\ s.game.game_won \in BOOLEAN
  /\ s.calls \in Seq(Int \X Int)

\* Openings is the set of what may be reached.
LEMMA OpeningReached ==
  ASSUME NEW g, NEW s \in Openings(g)
  PROVE  Reached(s, g)
<1> DEFINE G == [width : {g.width}, height : {g.height}, mine_count : {g.mine_count},
                 flags_remaining : {g.flags_remaining}, field : {g.field}, flagged : {g.flagged},
                 revealed : SUBSET DOMAIN g.field, revealed_count : Nat,
                 game_over : BOOLEAN, game_won : BOOLEAN]
           C == Seq(Int \X Int)
           p == s.game
           w == p.width
           h == p.height
           n == p.mine_count
           count == p.revealed_count
           flags == p.flags_remaining
           over == p.game_over
           won == p.game_won
           field == p.field
           open == p.revealed
           flagged == p.flagged
<1>1. s \in [game : G, calls : C]
  BY Zenon DEF Openings
<1> HIDE DEF G, C
<1>2. s = [game |-> s.game, calls |-> s.calls] /\ s.game \in G /\ s.calls \in C
  BY <1>1
<1>3. p \in G
  BY <1>2
<1> HIDE DEF p
<1>4. Continues(p, g) /\ open \in SUBSET DOMAIN g.field /\ count \in Nat
      /\ over \in BOOLEAN /\ won \in BOOLEAN
  BY <1>3 DEF G, Continues
<1>5. p = GameOf(w, h, n, count, flags, over, won, field, open, flagged)
  BY <1>3 DEF G, GameOf
<1>6. Whole(p)
  BY <1>5, Zenon DEF Whole, GameOf
<1>7. QED
  BY <1>2, <1>4, <1>6, Zenon DEF Reached, C, p

\* What may be reached is in Openings.
LEMMA ReachedOpening ==
  ASSUME NEW g, NEW s, Reached(s, g)
  PROVE  s \in Openings(g)
<1> DEFINE p == s.game
           w == p.width
           h == p.height
           n == p.mine_count
           count == p.revealed_count
           flags == p.flags_remaining
           over == p.game_over
           won == p.game_won
           field == p.field
           open == p.revealed
           flagged == p.flagged
           G == [width : {g.width}, height : {g.height}, mine_count : {g.mine_count},
                 flags_remaining : {g.flags_remaining}, field : {g.field}, flagged : {g.flagged},
                 revealed : SUBSET DOMAIN g.field, revealed_count : Nat,
                 game_over : BOOLEAN, game_won : BOOLEAN]
           C == Seq(Int \X Int)
<1>1. /\ s = [game |-> p, calls |-> s.calls] /\ s.calls \in C
      /\ w = g.width /\ h = g.height /\ n = g.mine_count /\ flags = g.flags_remaining
      /\ field = g.field /\ flagged = g.flagged /\ open \in SUBSET DOMAIN g.field
      /\ count \in Nat /\ over \in BOOLEAN /\ won \in BOOLEAN
  BY Zenon DEF Reached, Continues
<1>2. p = GameOf(w, h, n, count, flags, over, won, field, open, flagged)
  BY Zenon DEF Reached, Whole, GameOf
<1> HIDE DEF w, h, n, count, flags, over, won, field, open, flagged
<1>3. p \in G
  <2> HIDE DEF p
  <2>1. QED
    BY <1>1, <1>2 DEF GameOf
<1> HIDE DEF G, C, p
<1>4. s \in [game : G, calls : C]
  BY <1>1, <1>3
<1>5. QED
  BY <1>4, Zenon DEF Openings, G, C

\* A function over the first numbers is a sequence.
LEMMA ListIsSeq ==
  ASSUME NEW S, NEW n \in Nat, NEW p \in [1 .. n -> S]
  PROVE  p \in Seq(S) /\ Len(p) = n
  OBVIOUS

\* An open 0 calls for the nine cells around it, any other for none.
LEMMA CallsAre ==
  ASSUME NEW g, NEW w \in Nat, NEW h \in Nat, NEW c \in Cells(w, h)
  PROVE  /\ Calls(g, c) \in Seq(Int \X Int) /\ Len(Calls(g, c)) <= 9
         /\ g.field[c] # 0 => Waiting(Calls(g, c)) = {}
         /\ g.field[c] = 0 => Waiting(Calls(g, c)) = {Beside(c, i) : i \in 1 .. 9}
<1>1. c[1] \in Int /\ c[2] \in Int
  BY DEF Cells
<1>2. ASSUME NEW i \in 1 .. 9 PROVE Beside(c, i) \in Int \X Int
  <2>1. Offsets[i][1] \in Int /\ Offsets[i][2] \in Int
    <3>1. Offsets[i][1] \in -1 .. 1 /\ Offsets[i][2] \in -1 .. 1
      BY OffsetsAre
    <3>2. QED
      BY <3>1
  <2>2. QED
    BY <1>1, <2>1 DEF Beside
<1>3. CASE g.field[c] = 0
  <2> DEFINE p == [i \in 1 .. 9 |-> Beside(c, i)]
  <2>1. Calls(g, c) = p
    BY <1>3, Zenon DEF Calls
  <2>2. p \in [1 .. 9 -> Int \X Int] /\ DOMAIN p = 1 .. 9 /\ \A i \in 1 .. 9 : p[i] = Beside(c, i)
    BY <1>2
  <2> HIDE DEF p
  <2>3. p \in Seq(Int \X Int) /\ Len(p) = 9
    <3>1. 9 \in Nat
      OBVIOUS
    <3>2. QED
      BY <2>2, <3>1, ListIsSeq, Zenon
  <2>4. Waiting(p) = {Beside(c, i) : i \in 1 .. 9}
    BY <2>2 DEF Waiting
  <2>5. QED
    BY <1>3, <2>1, <2>3, <2>4
<1>4. CASE g.field[c] # 0
  <2>1. Calls(g, c) = <<>>
    BY <1>4, Zenon DEF Calls
  <2>2. <<>> \in Seq(Int \X Int) /\ Len(<<>>) = 0 /\ Waiting(<<>>) = {}
    BY DEF Waiting
  <2>3. QED
    BY <1>4, <2>1, <2>2
<1>5. QED
  BY <1>3, <1>4, Zenon

\* What the next call leaves of s: nothing but its own end, or one more open cell.
Passes(s, t) ==
  /\ t = [game |-> s.game, calls |-> Tail(s.calls)]
  /\ Refused(s.game, Head(s.calls))

Makes(s, t) ==
  LET c == Head(s.calls)
  IN /\ t = [game |-> t.game, calls |-> Calls(s.game, c) \o Tail(s.calls)]
     /\ MayOpen(s.game, c) /\ Opens(t.game, s.game, c)

\* A call returns at once or opens its cell.
LEMMA NextCallIs ==
  ASSUME NEW g, NEW s, Reached(s, g), s.calls # <<>>
  PROVE  Passes(s, NextCall(s)) \/ Makes(s, NextCall(s))
<1> DEFINE c == Head(s.calls)
           p == s.game
           q == s.calls
           t == NextCall(s)
<1>1. t = IF Refused(p, c) THEN [s EXCEPT !.calls = Tail(q)]
          ELSE [game |-> Opened(p, c), calls |-> Calls(p, c) \o Tail(q)]
  BY Zenon DEF NextCall
<1>2. s = [game |-> p, calls |-> q] /\ Whole(p)
  BY Zenon DEF Reached
<1>3. Opens(Opened(p, c), p, c)
  BY <1>2, OpenedOpens, Zenon
<1> DEFINE tail == Tail(q)
           more == Calls(p, c) \o Tail(q)
           o == Opened(p, c)
<1>4. t = IF Refused(p, c) THEN [s EXCEPT !.calls = tail] ELSE [game |-> o, calls |-> more]
  BY <1>1
<1>5. CASE Refused(p, c)
  <2>1. t = [s EXCEPT !.calls = tail]
    BY <1>4, <1>5, Zenon
  <2>2. t = [game |-> p, calls |-> tail]
    <3> HIDE DEF p, q, t, tail
    <3>1. QED
      BY <1>2, <2>1
  <2>3. QED
    BY <1>5, <2>2, Zenon DEF Passes
<1>6. CASE ~Refused(p, c)
  <2>1. t = [game |-> o, calls |-> more]
    BY <1>4, <1>6, Zenon
  <2>2. t.game = o
    <3> HIDE DEF t, o, more
    <3>1. QED
      BY <2>1
  <2>3. QED
    BY <1>3, <1>6, <2>1, <2>2, Zenon DEF Makes, MayOpen
<1>7. QED
  BY <1>5, <1>6

\* Openings is closed under calls: the recursion stays in its domain.
LEMMA NextCallReached ==
  ASSUME NEW g, Board(g), NEW s, Reached(s, g), s.calls # <<>>
  PROVE  Reached(NextCall(s), g)
<1> DEFINE c == Head(s.calls)
           p == s.game
           q == s.calls
           t == NextCall(s)
           o == t.game
<1>1. /\ s = [game |-> p, calls |-> q] /\ Whole(p) /\ Continues(p, g)
      /\ p.revealed \in SUBSET DOMAIN g.field /\ p.revealed_count \in Nat
      /\ p.game_over \in BOOLEAN /\ p.game_won \in BOOLEAN /\ q \in Seq(Int \X Int)
  BY Zenon DEF Reached
<1>2. Tail(q) \in Seq(Int \X Int)
  BY <1>1, WaitingSplits, Zenon
<1>3. ASSUME Passes(s, t) PROVE Reached(t, g)
  <2> HIDE DEF t
  <2>1. t = [game |-> p, calls |-> Tail(q)]
    BY <1>3, Zenon DEF Passes
  <2> DEFINE tail == Tail(q)
  <2> HIDE DEF tail, p, q
  <2>2. t = [game |-> p, calls |-> tail]
    BY <2>1 DEF tail
  <2>3. t.game = p /\ t.calls = tail
    BY <2>2
  <2>4. QED
    BY <1>1, <1>2, <2>2, <2>3, Zenon DEF Reached, tail
<1>4. ASSUME Makes(s, t) PROVE Reached(t, g)
  <2> HIDE DEF t
  <2>1. /\ t = [game |-> o, calls |-> Calls(p, c) \o Tail(q)]
        /\ MayOpen(p, c) /\ Opens(o, p, c)
    BY <1>4, Zenon DEF Makes
  <2> DEFINE more == Calls(p, c) \o Tail(q)
  <2>2. t = [game |-> o, calls |-> more]
    BY <2>1
  <2>3. c \in Cells(g.width, g.height) /\ g.width \in Nat /\ g.height \in Nat
        /\ DOMAIN g.field = Cells(g.width, g.height)
    BY <1>1, <2>1, Zenon DEF MayOpen, Refused, Continues, Board
  <2>4. more \in Seq(Int \X Int)
    <3>1. Calls(p, c) \in Seq(Int \X Int)
      BY <2>3, CallsAre, Zenon
    <3>2. QED
      BY <1>2, <3>1, WaitingJoins, Zenon
  <2> HIDE DEF p, q, c, more, o
  <2>5. t.calls = more
    BY <2>2
  <2>6. /\ Whole(o) /\ Continues(o, p) /\ o.revealed = p.revealed \cup {c}
        /\ o.revealed_count = p.revealed_count + 1
        /\ o.game_over \in {TRUE, p.game_over} /\ o.game_won \in {TRUE, p.game_won}
    BY <2>1 DEF Opens
  <2>7. o.game_over \in BOOLEAN /\ o.game_won \in BOOLEAN
    BY <1>1, <2>6, Zenon
  <2>8. o.revealed \in SUBSET DOMAIN g.field
    BY <1>1, <2>3, <2>6
  <2>9. o.revealed_count \in Nat
    BY <1>1, <2>6
  <2>10. Continues(o, g)
    BY <1>1, <2>6, Zenon DEF Continues
  <2>11. QED
    BY <2>2, <2>4, <2>5, <2>6, <2>7, <2>8, <2>9, <2>10, Zenon DEF Reached, o
<1>5. QED
  BY <1>3, <1>4, NextCallIs, Zenon

Pending(s) == IF s.game.game_over THEN {} ELSE Waiting(s.calls)

\* Only the player opens a mine: the first call, with nothing waiting behind it.
Going(s, ever) ==
  /\ Board(s.game) /\ Played(s.game) /\ Marked(s.game, ever)
  /\ Closed(s.game, ever \cup Pending(s))
  /\ s.game.game_over = FALSE => Waiting(s.calls) \cap Mined(s.game) = {} \/ Len(s.calls) = 1

\* A call that returns at once leaves no hidden cell around a 0 but under a flag.
LEMMA PassedCloses ==
  ASSUME NEW g, NEW c, NEW ever, NEW more, Board(g), Marked(g, ever), g.game_over = FALSE,
         Refused(g, c), Closed(g, ever \cup ({c} \cup more))
  PROVE  Closed(g, ever \cup more)
<1>1. c \notin Cells(g.width, g.height) \/ c \in g.revealed \/ c \in ever
  BY DEF Refused, Marked
<1>2. SUFFICES ASSUME NEW x \in g.revealed, g.field[x] = 0,
                      NEW a \in Around(g.width, g.height, x)
               PROVE  a \in g.revealed \cup (ever \cup more)
  BY DEF Closed
<1>3. a \in g.revealed \cup (ever \cup ({c} \cup more))
  BY <1>2 DEF Closed
<1>4. a \in Cells(g.width, g.height)
  BY <1>2 DEF Around
<1>5. QED
  BY <1>1, <1>3, <1>4

\* The mine that ends the game closes nothing more.
LEMMA MineCloses ==
  ASSUME NEW g, NEW o, NEW c, NEW but, Opens(o, g, c), g.field[c] = Mine, Closed(g, but)
  PROVE  Closed(o, but)
<1>1. o.revealed = g.revealed \cup {c} /\ o.field = g.field /\ o.width = g.width /\ o.height = g.height
  BY DEF Opens, Continues
<1>2. g.field[c] # 0
  BY DEF Mine
<1>3. QED
  BY <1>1, <1>2 DEF Closed

\* A game that is won has nothing left to open.
LEMMA WonCloses ==
  ASSUME NEW o, NEW but, Board(o), Played(o), o.game_won = TRUE
  PROVE  Closed(o, but)
<1>1. o.revealed = Sound(o)
  BY DEF Played, Decided
<1>2. ASSUME NEW x \in o.revealed, o.field[x] = 0
      PROVE  Around(o.width, o.height, x) \subseteq o.revealed
  <2>1. x \in Cells(o.width, o.height)
    BY <1>1, <1>2 DEF Sound, Board
  <2>2. Around(o.width, o.height, x) \cap Mined(o) = {}
    BY <1>2, <2>1 DEF Board
  <2>3. Around(o.width, o.height, x) \subseteq DOMAIN o.field
    BY DEF Around, Board
  <2>4. QED
    BY <1>1, <2>2, <2>3 DEF Sound
<1>3. QED
  BY <1>2 DEF Closed

\* The cells around a new 0 are called for.
LEMMA OpenedCloses ==
  ASSUME NEW g, NEW o, NEW c, NEW ever, NEW more, Board(g), MayOpen(g, c), Opens(o, g, c),
         Closed(g, ever \cup ({c} \cup more))
  PROVE  Closed(o, ever \cup (Waiting(Calls(g, c)) \cup more))
<1> DEFINE W == Waiting(Calls(g, c))
<1>1. o.revealed = g.revealed \cup {c} /\ o.field = g.field /\ o.width = g.width /\ o.height = g.height
  BY DEF Opens, Continues
<1>2. g.width \in Nat /\ g.height \in Nat /\ c \in Cells(g.width, g.height)
  BY DEF Board, MayOpen, Refused
<1>3. g.field[c] = 0 => W = {Beside(c, i) : i \in 1 .. 9}
  BY <1>2, CallsAre, Zenon
<1>4. g.field[c] = 0 => Around(g.width, g.height, c) \subseteq W
  BY <1>3 DEF Around
<1> HIDE DEF W
<1>5. ASSUME NEW x \in g.revealed, g.field[x] = 0
      PROVE  Around(g.width, g.height, x) \subseteq o.revealed \cup (ever \cup (W \cup more))
  BY <1>1, <1>5 DEF Closed
<1>6. Closed(o, ever \cup (W \cup more))
  BY <1>1, <1>4, <1>5 DEF Closed
<1>7. QED
  BY <1>6 DEF W

\* What the calls around a 0 open is no mine.
LEMMA CallsAreSound ==
  ASSUME NEW g, NEW c, Board(g), MayOpen(g, c)
  PROVE  Waiting(Calls(g, c)) \cap Mined(g) = {}
<1>2. g.width \in Nat /\ g.height \in Nat /\ c \in Cells(g.width, g.height)
      /\ Mined(g) \subseteq Cells(g.width, g.height)
  BY DEF Board, MayOpen, Refused, Mined
<1>3. CASE g.field[c] = 0
  <2>1. Waiting(Calls(g, c)) = {Beside(c, i) : i \in 1 .. 9}
    BY <1>2, <1>3, CallsAre, Zenon
  <2>2. Around(g.width, g.height, c) \cap Mined(g) = {}
    BY <1>2, <1>3 DEF Board
  <2>3. QED
    BY <1>2, <2>1, <2>2 DEF Around
<1>4. CASE g.field[c] # 0
  <2>1. Waiting(Calls(g, c)) = {}
    BY <1>2, <1>4, CallsAre, Zenon
  <2>2. QED
    BY <2>1
<1>5. QED
  BY <1>3, <1>4

\* The invariant of the recursion is kept by a call that returns at once,
LEMMA PassingGoes ==
  ASSUME NEW g, NEW ever, NEW s, NEW t, Reached(s, g), s.calls # <<>>, Going(s, ever), Passes(s, t)
  PROVE  Going(t, ever)
<1> DEFINE c == Head(s.calls)
           p == s.game
           q == s.calls
           tail == Tail(s.calls)
           more == Waiting(tail)
<1>1. t = [game |-> p, calls |-> tail] /\ Refused(p, c)
  BY Zenon DEF Passes
<1>2. /\ tail \in Seq(Int \X Int) /\ Len(q) \in Nat /\ Len(tail) = Len(q) - 1
      /\ Waiting(q) = {c} \cup more
  BY WaitingSplits DEF Reached
<1>3. /\ Board(p) /\ Played(p) /\ Marked(p, ever) /\ Closed(p, ever \cup Pending(s))
      /\ p.game_over = FALSE => Waiting(q) \cap Mined(p) = {} \/ Len(q) = 1
  BY Zenon DEF Going
<1>4. Pending(s) = IF p.game_over THEN {} ELSE Waiting(q)
  BY Zenon DEF Pending
<1>5. p.game_over \in BOOLEAN
  BY <1>3, Zenon DEF Played
<1>6. Pending(t) = (IF t.game.game_over THEN {} ELSE Waiting(t.calls))
  BY Zenon DEF Pending
<1> HIDE DEF c, p, q, tail
<1>7. t.game = p /\ t.calls = tail
  BY <1>1
<1>8. Closed(p, ever \cup Pending(t))
  <2>1. CASE p.game_over = TRUE
    <3>1. Pending(s) = {} /\ Pending(t) = {}
      BY <1>4, <1>6, <1>7, <2>1, Zenon
    <3>2. QED
      BY <1>3, <3>1, Zenon
  <2>2. CASE p.game_over = FALSE
    <3>1. Pending(s) = {c} \cup more /\ Pending(t) = more
      BY <1>2, <1>4, <1>6, <1>7, <2>2, Zenon
    <3>2. Closed(p, ever \cup ({c} \cup more))
      BY <1>3, <3>1, Zenon
    <3> HIDE DEF more
    <3>3. Closed(p, ever \cup more)
      BY <1>1, <1>3, <2>2, <3>2, PassedCloses, Zenon
    <3>4. QED
      BY <3>1, <3>3, Zenon
  <2>3. QED
    BY <1>5, <2>1, <2>2, Zenon
<1>9. ASSUME p.game_over = FALSE PROVE more \cap Mined(p) = {} \/ Len(tail) = 1
  <2>1. CASE Waiting(q) \cap Mined(p) = {}
    BY <1>2, <2>1
  <2>2. CASE Len(q) = 1
    <3>1. Len(tail) = 0
      BY <1>2, <2>2
    <3>2. Waiting(tail) = {}
      BY <1>2, <3>1, NoneWaits, Zenon
    <3>3. QED
      BY <3>2
  <2>3. QED
    BY <1>3, <1>9, <2>1, <2>2, Zenon
<1>10. QED
  BY <1>3, <1>7, <1>8, <1>9, Zenon DEF Going

\* and by one that opens its cell.
LEMMA MakingGoes ==
  ASSUME NEW g, NEW ever, NEW s, NEW t, Reached(s, g), s.calls # <<>>, Going(s, ever), Makes(s, t)
  PROVE  Going(t, ever)
<1> DEFINE c == Head(s.calls)
           p == s.game
           o == t.game
           q == s.calls
           tail == Tail(s.calls)
           new == Calls(s.game, c)
           all == new \o tail
<1>1. t = [game |-> o, calls |-> all] /\ MayOpen(p, c) /\ Opens(o, p, c)
  BY Zenon DEF Makes
<1>2. /\ tail \in Seq(Int \X Int) /\ Len(q) \in Nat /\ Len(tail) = Len(q) - 1
      /\ Waiting(q) = {c} \cup Waiting(tail)
  BY WaitingSplits DEF Reached
<1>3. /\ Board(p) /\ Played(p) /\ Marked(p, ever) /\ Closed(p, ever \cup Pending(s))
      /\ p.game_over = FALSE => Waiting(q) \cap Mined(p) = {} \/ Len(q) = 1
  BY Zenon DEF Going
<1>4. /\ c \in DOMAIN p.field /\ p.game_over = FALSE
      /\ p.width \in Nat /\ p.height \in Nat /\ c \in Cells(p.width, p.height)
  BY <1>1, <1>3, OpenCellMay, Zenon DEF Board
<1>5. /\ new \in Seq(Int \X Int)
      /\ p.field[c] # 0 => Waiting(new) = {}
  BY <1>4, CallsAre, Zenon
<1>6. Pending(s) = Waiting(q)
  BY <1>4, Zenon DEF Pending
<1>7. Pending(t) = (IF o.game_over THEN {} ELSE Waiting(t.calls))
  BY Zenon DEF Pending
<1>8. Waiting(all) = Waiting(new) \cup Waiting(tail)
  <2>1. new \in Seq(Int \X Int) /\ tail \in Seq(Int \X Int)
    BY <1>2, <1>5
  <2> HIDE DEF new, tail
  <2>2. QED
    BY <2>1, WaitingJoins
<1>9. Closed(p, ever \cup ({c} \cup Waiting(tail)))
  BY <1>2, <1>3, <1>6, Zenon
<1>10. /\ p.field[c] = Mine => o.game_over = TRUE
       /\ p.field[c] # Mine => o.game_over = p.game_over \/ o.game_won = TRUE
       /\ Continues(o, p)
  BY <1>1 DEF Opens
<1>11. Board(o) /\ Mined(o) = Mined(p)
  BY <1>3, <1>10, BoardStays, Zenon
<1>12. Played(o)
  BY <1>1, <1>3, OpenedPlayed, Zenon
<1>13. Marked(o, ever)
  BY <1>1, <1>3, OpenedMarked, Zenon
<1>14. o.game_over \in BOOLEAN /\ o.game_won \in BOOLEAN
  BY <1>12, Zenon DEF Played
<1>15. Waiting(new) \cap Mined(p) = {}
  BY <1>1, <1>3, CallsAreSound, Zenon
<1>16. Waiting(tail) \cap Mined(p) = {}
  <2>1. CASE Waiting(q) \cap Mined(p) = {}
    BY <1>2, <2>1
  <2>2. CASE Len(q) = 1
    <3>1. Len(tail) = 0
      BY <1>2, <2>2
    <3>2. Waiting(tail) = {}
      BY <1>2, <3>1, NoneWaits, Zenon
    <3>3. QED
      BY <3>2
  <2>3. QED
    BY <1>3, <1>4, <2>1, <2>2, Zenon
<1>17. c \in Mined(p) <=> p.field[c] = Mine
  BY <1>4 DEF Mined
<1>a. p.field[c] = Mine => Waiting(tail) = {}
  <2>1. SUFFICES ASSUME p.field[c] = Mine PROVE Waiting(tail) = {}
    OBVIOUS
  <2>2. Len(q) = 1
    BY <1>2, <1>3, <1>4, <1>17, <2>1
  <2>3. Len(tail) = 0
    BY <1>2, <2>2
  <2>4. QED
    BY <1>2, <2>3, NoneWaits, Zenon
<1> HIDE DEF o, all
<1>18. t.calls = all
  BY <1>1
<1> HIDE DEF c, p, q, tail, new
<1>19. Closed(o, ever \cup Pending(t))
  <2>1. CASE o.game_over = FALSE
    <3>1. Pending(t) = Waiting(new) \cup Waiting(tail)
      BY <1>7, <1>8, <1>18, <2>1, Zenon
    <3>2. Closed(o, ever \cup (Waiting(Calls(p, c)) \cup Waiting(tail)))
      BY <1>1, <1>3, <1>9, OpenedCloses, Zenon
    <3>3. QED
      BY <3>1, <3>2, Zenon DEF new, p
  <2>2. CASE o.game_won = TRUE
    BY <1>11, <1>12, <2>2, WonCloses, Zenon
  <2>3. CASE o.game_over = TRUE /\ p.field[c] = Mine
    <3>1. Closed(o, ever \cup ({c} \cup Waiting(tail)))
      BY <1>1, <1>9, <2>3, MineCloses, Zenon
    <3>2. Pending(t) = {}
      BY <1>7, <2>3, Zenon
    <3>3. o.width = p.width /\ o.height = p.height /\ DOMAIN p.field = Cells(p.width, p.height)
      BY <1>3, <1>10, Zenon DEF Continues, Board
    <3>4. Closed(o, ever)
      <4>1. o.revealed = p.revealed \cup {c}
        BY <1>1 DEF Opens
      <4>2. Closed(o, ever \cup {c})
        BY <1>a, <2>3, <3>1
      <4>3. QED
        BY <4>1, <4>2 DEF Closed
    <3>5. QED
      BY <3>2, <3>4
  <2>4. QED
    BY <1>4, <1>10, <1>14, <2>1, <2>2, <2>3, Zenon
<1>20. (Waiting(new) \cup Waiting(tail)) \cap Mined(o) = {}
  BY <1>11, <1>15, <1>16
<1>21. QED
  BY <1>8, <1>11, <1>12, <1>13, <1>18, <1>19, <1>20, Zenon DEF Going, o

(***************************************************************************)
(* The recursion ends: each call opens a cell for good or waits no longer. *)
(***************************************************************************)

Left(s) == 10 * Cardinality(DOMAIN s.game.field \ s.game.revealed) + Len(s.calls)

\* Each call leaves less to do, ten for a hidden cell, one for a call that waits.
LEMMA LeftFalls ==
  ASSUME NEW g, NEW ever, NEW s, NEW t, Reached(s, g), s.calls # <<>>, Going(s, ever),
         Passes(s, t) \/ Makes(s, t)
  PROVE  Left(s) \in Nat /\ Left(t) \in Nat /\ Left(t) < Left(s)
<1> DEFINE c == Head(s.calls)
           p == s.game
           o == t.game
           q == s.calls
           tail == Tail(s.calls)
           new == Calls(s.game, c)
           D == DOMAIN s.game.field
           r == D \ p.revealed
           m == Cardinality(r)
           l == Len(q)
<1>1. tail \in Seq(Int \X Int) /\ l \in Nat /\ Len(tail) = l - 1 /\ Len(tail) \in Nat
  <2>1. tail \in Seq(Int \X Int) /\ l \in Nat /\ Len(tail) = l - 1
    BY WaitingSplits DEF Reached
  <2>2. Len(tail) \in Nat
    BY <2>1
  <2>3. QED
    BY <2>1, <2>2
<1>2. Board(p) /\ Played(p)
  BY Zenon DEF Going
<1>3. IsFiniteSet(r) /\ m \in Nat
  <2>1. IsFiniteSet(D)
    BY <1>2, SoundCells, Zenon
  <2> HIDE DEF D
  <2>2. IsFiniteSet(r)
    BY <2>1, FS_Subset
  <2>3. QED
    BY <2>2, FS_CardinalityType, Zenon
<1>4. Left(s) = 10 * m + l
  BY DEF Left
<1>5. Left(s) \in Nat
  <2> HIDE DEF m, l
  <2>1. QED
    BY <1>1, <1>3, <1>4
<1>6. ASSUME Passes(s, t) PROVE Left(t) \in Nat /\ Left(t) < Left(s)
  <2>1. t = [game |-> p, calls |-> tail]
    BY <1>6, Zenon DEF Passes
  <2>2. t.game = p /\ t.calls = tail
    <3> HIDE DEF p, tail
    <3>1. QED
      BY <2>1
  <2>3. Left(t) = 10 * m + Len(tail)
    BY <2>2, Zenon DEF Left
  <2> HIDE DEF m, l, tail
  <2>4. QED
    BY <1>1, <1>3, <1>4, <2>3
<1>7. ASSUME Makes(s, t) PROVE Left(t) \in Nat /\ Left(t) < Left(s)
  <2> DEFINE all == new \o tail
             k == Len(all)
             j == Cardinality(r \ {c})
  <2>1. t = [game |-> o, calls |-> all] /\ MayOpen(p, c) /\ Opens(o, p, c)
    BY <1>7, Zenon DEF Makes
  <2>2. /\ c \in D /\ c \notin p.revealed
        /\ p.width \in Nat /\ p.height \in Nat /\ c \in Cells(p.width, p.height)
    BY <1>2, <2>1, OpenCellMay, Zenon DEF Board
  <2>3. new \in Seq(Int \X Int) /\ Len(new) <= 9
    BY <2>2, CallsAre, Zenon
  <2>4. Len(all) = Len(new) + Len(tail) /\ Len(new) \in Nat
    <3>1. new \in Seq(Int \X Int) /\ tail \in Seq(Int \X Int)
      BY <1>1, <2>3
    <3> HIDE DEF new, tail
    <3>2. QED
      BY <3>1, WaitingJoins
  <2>5. t.calls = all
    <3> HIDE DEF o, all
    <3>1. QED
      BY <2>1
  <2>6. DOMAIN o.field \ o.revealed = r \ {c}
    BY <2>1 DEF Opens, Continues
  <2>7. j = m - 1 /\ j \in Nat
    <3>1. c \in r
      BY <2>2
    <3> HIDE DEF r, c
    <3>2. IsFiniteSet(r \ {c}) /\ Cardinality(r \ {c}) = Cardinality(r) - 1
      BY <1>3, <3>1, FS_RemoveElement
    <3>3. QED
      BY <3>2, FS_CardinalityType, Zenon
  <2>8. Left(t) = 10 * j + k
    BY <2>5, <2>6, Zenon DEF Left
  <2>9. k \in Nat /\ k <= l + 8
    <3> HIDE DEF all, new, tail, l
    <3>1. QED
      BY <1>1, <2>3, <2>4
  <2> HIDE DEF j, k, m, l
  <2>10. QED
    BY <1>1, <1>3, <1>4, <2>7, <2>8, <2>9
<1>8. QED
  BY <1>5, <1>6, <1>7

\* The recursion has the value its equation says.
LEMMA RecursionIs ==
  ASSUME NEW g, Board(g)
  PROVE  \A s \in Openings(g) :
           Recursion(g)[s] = IF s.calls = <<>> THEN s ELSE Recursion(g)[NextCall(s)]
<1> DEFINE S == Openings(g)
           done == {s \in S : s.calls = <<>>}
           next == [s \in S |-> IF s.calls = <<>> THEN s ELSE NextCall(s)]
           Is(f) == f = [s \in S |-> IF s.calls = <<>> THEN s ELSE f[NextCall(s)]]
<1>1. ASSUME NEW s \in S, s.calls # <<>> PROVE NextCall(s) \in S
  <2>1. Reached(s, g)
    BY OpeningReached
  <2>2. Reached(NextCall(s), g)
    BY <1>1, <2>1, NextCallReached, Zenon
  <2>3. QED
    BY <2>2, ReachedOpening, Zenon
<1>2. next \in [S -> S]
  <2> HIDE DEF S
  <2>1. QED
    BY <1>1
<1>3. /\ \A s \in S : s \in done <=> s.calls = <<>>
      /\ \A s \in S : s.calls # <<>> => next[s] = NextCall(s)
  <2> HIDE DEF S
  <2>1. QED
    OBVIOUS
<1> HIDE DEF S, done, next
<1>4. PICK f : Solves(S, done, next, f)
  BY <1>2, TailRecursion
<1>5. f = [s \in S |-> IF s \in done THEN s ELSE f[next[s]]]
  BY <1>4 DEF Solves
<1>6. Is(f)
  <2>1. \A s \in S : (IF s \in done THEN s ELSE f[next[s]]) = IF s.calls = <<>> THEN s ELSE f[NextCall(s)]
    BY <1>3, Zenon
  <2>2. [s \in S |-> IF s \in done THEN s ELSE f[next[s]]]
          = [s \in S |-> IF s.calls = <<>> THEN s ELSE f[NextCall(s)]]
    BY <2>1
  <2>3. QED
    BY <1>5, <2>2, Zenon
<1>7. Recursion(g) = CHOOSE h : Is(h)
  BY Zenon DEF Recursion, S
<1> DEFINE R == Recursion(g)
<1>8. Is(R)
  <2> HIDE DEF Is, R
  <2>1. R = CHOOSE h : Is(h)
    BY <1>7 DEF R
  <2>2. QED
    BY <1>6, <2>1, Zenon
<1> HIDE DEF R
<1>9. \A s \in S : R[s] = IF s.calls = <<>> THEN s ELSE R[NextCall(s)]
  BY <1>8
<1>10. QED
  BY <1>9, Zenon DEF S, R

Ended(t, g, ever) == Reached(t, g) /\ Going(t, ever) /\ t.calls = <<>>

\* No calls are left in the end: otherwise one state of least Left would not end.
LEMMA RecursionEnds ==
  ASSUME NEW g, NEW ever, Board(g), NEW s, Reached(s, g), Going(s, ever)
  PROVE  Ended(Recursion(g)[s], g, ever)
<1> DEFINE R == Recursion(g)
           Bad == {x \in Openings(g) : Going(x, ever) /\ ~Ended(R[x], g, ever)}
           B == {Left(x) : x \in {y \in Bad : Left(y) \in Nat}}
<1>1. ASSUME NEW x \in Bad
      PROVE  Left(x) \in Nat /\ \E y \in Bad : Left(y) \in Nat /\ Left(y) < Left(x)
  <2>1. x \in Openings(g) /\ Going(x, ever) /\ ~Ended(R[x], g, ever) /\ Reached(x, g)
    BY OpeningReached
  <2>2. R[x] = IF x.calls = <<>> THEN x ELSE R[NextCall(x)]
    BY <2>1, RecursionIs, Zenon
  <2>3. x.calls # <<>>
    BY <2>1, <2>2, Zenon DEF Ended
  <2> DEFINE y == NextCall(x)
  <2>4. Passes(x, y) \/ Makes(x, y)
    BY <2>1, <2>3, NextCallIs, Zenon
  <2>5. Reached(y, g) /\ y \in Openings(g)
    BY <2>1, <2>3, NextCallReached, ReachedOpening, Zenon
  <2>6. R[x] = R[y]
    BY <2>2, <2>3, Zenon
  <2> HIDE DEF R, y
  <2>7. Going(y, ever)
    BY <2>1, <2>3, <2>4, PassingGoes, MakingGoes, Zenon
  <2>8. y \in Bad
    BY <2>1, <2>5, <2>6, <2>7
  <2>9. Left(x) \in Nat /\ Left(y) \in Nat /\ Left(y) < Left(x)
    BY <2>1, <2>3, <2>4, LeftFalls, Zenon
  <2>10. QED
    BY <2>8, <2>9
<1> HIDE DEF Bad
<1>2. SUFFICES ASSUME ~Ended(R[s], g, ever) PROVE FALSE
  OBVIOUS
<1>3. s \in Bad
  BY <1>2, ReachedOpening DEF Bad
<1>4. B \in SUBSET Nat /\ B # {}
  BY <1>1, <1>3
<1>5. PICK m \in B : \A k \in B : m <= k
  <2> HIDE DEF B
  <2>1. QED
    BY <1>4, LeastNat
<1>6. PICK x \in Bad : Left(x) = m /\ Left(x) \in Nat
  BY <1>5
<1>7. PICK y \in Bad : Left(y) \in Nat /\ Left(y) < Left(x)
  BY <1>1, <1>6
<1>8. Left(y) \in B
  BY <1>7
<1>9. m <= Left(y)
  BY <1>5, <1>8
<1>10. QED
  BY <1>6, <1>7, <1>9

(***************************************************************************)
(* Minesweeper: the moves.                                                 *)
(***************************************************************************)

Sane(g, ever) ==
  Whole(g) /\ Board(g) /\ Played(g) /\ Marked(g, ever) /\ Closed(g, ever)

\* A click, with all it opens, keeps the game sane.
LEMMA RevealCellKeeps ==
  ASSUME NEW g, NEW ever, Sane(g, ever), NEW x \in Int, NEW y \in Int
  PROVE  Sane(RevealCell(g, x, y), ever)
<1> DEFINE q == <<<<x, y>>>>
           s == [game |-> g, calls |-> q]
           t == Recursion(g)[s]
<1>1. Whole(g) /\ Board(g) /\ Played(g) /\ Marked(g, ever) /\ Closed(g, ever)
  BY DEF Sane
<1>2. s.game = g /\ s.calls = q /\ s = [game |-> s.game, calls |-> s.calls]
  OBVIOUS
<1>3. q \in Seq(Int \X Int) /\ Len(q) = 1
  OBVIOUS
<1>4. g.revealed_count \in Nat
  <2>1. IsFiniteSet(DOMAIN g.field) /\ g.revealed \subseteq DOMAIN g.field
        /\ g.revealed_count = Cardinality(g.revealed)
    BY <1>1, SoundCells DEF Played
  <2>2. IsFiniteSet(g.revealed)
    BY <2>1, FS_Subset
  <2>3. QED
    BY <2>1, <2>2, FS_CardinalityType, Zenon
<1>5. RevealCell(g, x, y) = t.game
  BY Zenon DEF RevealCell
<1> HIDE DEF s, q
<1>6. g.revealed \in SUBSET DOMAIN g.field /\ g.game_over \in BOOLEAN /\ g.game_won \in BOOLEAN
  BY <1>1 DEF Played
<1>7. Continues(g, g)
  BY DEF Continues
<1>8. Reached(s, g)
  BY <1>1, <1>2, <1>3, <1>4, <1>6, <1>7, Zenon DEF Reached
<1>9. Closed(g, ever \cup Pending(s))
  BY <1>1 DEF Closed
<1>10. Going(s, ever)
  BY <1>1, <1>2, <1>3, <1>9, Zenon DEF Going
<1>11. Ended(t, g, ever)
  BY <1>1, <1>8, <1>10, RecursionEnds, Zenon
<1> HIDE DEF t
<1>12. Reached(t, g) /\ Going(t, ever) /\ t.calls = <<>>
  BY <1>11, Zenon DEF Ended
<1>13. Pending(t) = {}
  <2>1. Waiting(<<>>) = {}
    BY DEF Waiting
  <2>2. QED
    BY <1>12, <2>1, Zenon DEF Pending
<1>14. Closed(t.game, ever)
  <2>1. Closed(t.game, ever \cup {})
    BY <1>12, <1>13, Zenon DEF Going
  <2>2. ever \cup {} = ever
    OBVIOUS
  <2>3. QED
    BY <2>1, <2>2, Zenon
<1>15. Sane(t.game, ever)
  BY <1>12, <1>14, Zenon DEF Sane, Reached, Going
<1>16. QED
  BY <1>5, <1>15, Zenon

\* o is g but for its flags.
FlagsPut(o, g, flagged, flags) ==
  /\ Whole(o)
  /\ o.width = g.width /\ o.height = g.height /\ o.mine_count = g.mine_count
  /\ o.field = g.field /\ o.revealed = g.revealed
  /\ o.revealed_count = g.revealed_count /\ o.game_over = g.game_over
  /\ o.game_won = g.game_won /\ o.flagged = flagged /\ o.flags_remaining = flags

\* What setting or taking a flag assigns.
LEMMA FlagPut ==
  ASSUME NEW g, NEW flagged, NEW flags, Whole(g)
  PROVE  FlagsPut([g EXCEPT !.flagged = flagged, !.flags_remaining = flags], g, flagged, flags)
<1> DEFINE w == g.width
           h == g.height
           n == g.mine_count
           count == g.revealed_count
           rest == g.flags_remaining
           over == g.game_over
           won == g.game_won
           field == g.field
           open == g.revealed
           old == g.flagged
           k == [g EXCEPT !.flagged = flagged]
           o == [k EXCEPT !.flags_remaining = flags]
<1>1. g = GameOf(w, h, n, count, rest, over, won, field, open, old)
  BY Zenon DEF Whole, GameOf
<1> HIDE DEF w, h, n, count, rest, over, won, field, open, old
<1>2. k = GameOf(w, h, n, count, rest, over, won, field, open, flagged)
  BY <1>1 DEF GameOf
<1> HIDE DEF k
<1>3. o = GameOf(w, h, n, count, flags, over, won, field, open, flagged)
  BY <1>2 DEF GameOf
<1> HIDE DEF o
<1>4. Whole(o)
  BY <1>3, WholeIs, Zenon
<1>5. /\ o.width = w /\ o.height = h /\ o.mine_count = n /\ o.revealed_count = count
      /\ o.flags_remaining = flags /\ o.game_over = over /\ o.game_won = won
      /\ o.field = field /\ o.revealed = open /\ o.flagged = flagged
  BY <1>3 DEF GameOf
<1>6. QED
  BY <1>4, <1>5, Zenon DEF FlagsPut, w, h, n, count, over, won, field, open, o, k

\* Flags keep the game sane; those that were set are remembered.
LEMMA FlagCellKeeps ==
  ASSUME NEW g, NEW ever, Sane(g, ever), NEW x, NEW y
  PROVE  Sane(FlagCell(g, x, y), ever \cup FlagCell(g, x, y).flagged)
<1> DEFINE c == <<x, y>>
           o == FlagCell(g, x, y)
           D == DOMAIN g.field
           off == [g EXCEPT !.flagged = @ \ {c}, !.flags_remaining = @ + 1]
           on == [g EXCEPT !.flagged = @ \cup {c}, !.flags_remaining = @ - 1]
           no == c \notin Cells(g.width, g.height) \/ g.game_over \/ c \in g.revealed
<1>1. Whole(g) /\ Board(g) /\ Played(g) /\ Marked(g, ever) /\ Closed(g, ever)
  BY DEF Sane
<1>2. o = IF no THEN g ELSE IF c \in g.flagged THEN off ELSE on
  BY Zenon DEF FlagCell
<1>3. /\ IsFiniteSet(D) /\ g.flagged \subseteq D /\ g.flagged \subseteq ever
      /\ g.flags_remaining \in Int /\ g.flagged \cap g.revealed = {}
      /\ Cardinality(g.flagged) + g.flags_remaining = Cardinality(Mined(g))
      /\ D = Cells(g.width, g.height)
  BY <1>1, SoundCells DEF Marked, Board
<1>4. IsFiniteSet(g.flagged) /\ Cardinality(g.flagged) \in Nat
  <2> HIDE DEF D
  <2>1. IsFiniteSet(g.flagged)
    BY <1>3, FS_Subset
  <2>2. QED
    BY <2>1, FS_CardinalityType, Zenon
<1> HIDE DEF D
<1>5. CASE no
  <2>1. o = g
    BY <1>2, <1>5, Zenon
  <2>2. ever \cup g.flagged = ever
    BY <1>3
  <2>3. QED
    BY <2>1, <2>2
<1>6. ASSUME NEW F, NEW n, NEW p, p = [g EXCEPT !.flagged = F, !.flags_remaining = n],
             F \subseteq D, n \in Int, F \cap g.revealed = {},
             Cardinality(F) + n = Cardinality(Mined(g))
      PROVE  Sane(p, ever \cup p.flagged)
  <2>1. /\ Whole(p)
        /\ p.width = g.width /\ p.height = g.height /\ p.mine_count = g.mine_count
        /\ p.field = g.field /\ p.revealed = g.revealed
        /\ p.revealed_count = g.revealed_count /\ p.game_over = g.game_over
        /\ p.game_won = g.game_won /\ p.flagged = F /\ p.flags_remaining = n
    <3>1. FlagsPut(p, g, F, n)
      BY <1>1, <1>6, FlagPut, Zenon
    <3>2. QED
      BY <3>1, Zenon DEF FlagsPut
  <2>2. Mined(p) = Mined(g)
    BY <2>1, Zenon DEF Mined
  <2>3. Board(p)
    BY <1>1, <2>1, <2>2 DEF Board
  <2>4. Played(p)
    BY <1>1, <2>1, <2>2, Zenon DEF Played, Sound
  <2>5. Marked(p, ever \cup F)
    BY <1>6, <2>1, <2>2 DEF Marked, D
  <2>6. Closed(p, ever \cup F)
    BY <1>1, <2>1 DEF Closed
  <2>7. QED
    BY <2>1, <2>3, <2>4, <2>5, <2>6, Zenon DEF Sane
<1>7. CASE ~no /\ c \in g.flagged
  <2> DEFINE F == g.flagged \ {c}
             n == g.flags_remaining + 1
  <2>1. o = [g EXCEPT !.flagged = F, !.flags_remaining = n]
    BY <1>2, <1>7, Zenon
  <2>2. Cardinality(F) = Cardinality(g.flagged) - 1
    BY <1>4, <1>7, FS_RemoveElement
  <2>3. F \subseteq D /\ n \in Int /\ F \cap g.revealed = {}
    BY <1>3
  <2>4. n = g.flags_remaining + 1
    OBVIOUS
  <2> HIDE DEF F, n, o
  <2>5. Cardinality(F) + n = Cardinality(Mined(g))
    BY <1>3, <1>4, <2>2, <2>4
  <2>6. QED
    BY <1>6, <2>1, <2>3, <2>5, Zenon DEF o
<1>8. CASE ~no /\ c \notin g.flagged
  <2> DEFINE F == g.flagged \cup {c}
             n == g.flags_remaining - 1
  <2>1. o = [g EXCEPT !.flagged = F, !.flags_remaining = n]
    BY <1>2, <1>8, Zenon
  <2>2. Cardinality(F) = Cardinality(g.flagged) + 1
    BY <1>4, <1>8, FS_AddElement
  <2>3. F \subseteq D /\ n \in Int /\ F \cap g.revealed = {}
    BY <1>3, <1>8
  <2>4. n = g.flags_remaining - 1
    OBVIOUS
  <2> HIDE DEF F, n, o
  <2>5. Cardinality(F) + n = Cardinality(Mined(g))
    BY <1>3, <1>4, <2>2, <2>4
  <2>6. QED
    BY <1>6, <2>1, <2>3, <2>5, Zenon DEF o
<1>9. QED
  BY <1>5, <1>7, <1>8

MinesweeperInv == Sane(game, everFlagged)

\* A new game is sane, with no flags to remember.
LEMMA NewIsSane ==
  ASSUME NEW w \in Nat, NEW h \in Nat, NEW n \in Nat, n < w * h, Placed(w, n)
  PROVE  Sane(NewGame(w, h, n), {})
  BY NewIsBoard, Zenon DEF Sane

\* The invariant holds at first,
LEMMA MinesweeperStarts == MinesweeperInit => MinesweeperInv
<1> SUFFICES ASSUME MinesweeperInit PROVE MinesweeperInv
  OBVIOUS
<1> DEFINE w == First[1]
           h == First[2]
           n == First[3]
<1>1. w \in Nat /\ h \in Nat /\ n \in Nat /\ n < w * h /\ Placed(w, n)
  BY GameAssumption
<1>2. game = NewGame(w, h, n) /\ everFlagged = {}
  BY DEF MinesweeperInit
<1> HIDE DEF w, h, n
<1>3. QED
  BY <1>1, <1>2, NewIsSane, Zenon DEF MinesweeperInv

\* and every move keeps it.
LEMMA MinesweeperStep == MinesweeperInv /\ [MinesweeperNext]_minesweeper => MinesweeperInv'
<1> SUFFICES ASSUME MinesweeperInv, [MinesweeperNext]_minesweeper PROVE MinesweeperInv'
  OBVIOUS
<1>1. Sane(game, everFlagged)
  BY DEF MinesweeperInv
<1>2. ASSUME NEW a \in Game, StartGame(a[1], a[2], a[3]) PROVE MinesweeperInv'
  <2> DEFINE w == a[1]
             h == a[2]
             n == a[3]
  <2>1. w \in Nat /\ h \in Nat /\ n \in Nat /\ n < w * h
    BY GameAssumption
  <2>2. Placed(w, n) /\ game' = NewGame(w, h, n) /\ everFlagged' = {}
    BY <1>2 DEF StartGame
  <2> HIDE DEF w, h, n
  <2>3. Sane(game', everFlagged')
    BY <2>1, <2>2, NewIsSane, Zenon
  <2>4. QED
    BY <2>3, Zenon DEF MinesweeperInv
<1>3. ASSUME NEW x \in Int, NEW y \in Int, Reveal(x, y) PROVE MinesweeperInv'
  <2>1. game' = RevealCell(game, x, y) /\ everFlagged' = everFlagged
    BY <1>3, Zenon DEF Reveal
  <2>2. Sane(game', everFlagged')
    BY <1>1, <2>1, RevealCellKeeps, Zenon
  <2>3. QED
    BY <2>2, Zenon DEF MinesweeperInv
<1>4. ASSUME NEW x \in Int, NEW y \in Int, Flag(x, y) PROVE MinesweeperInv'
  <2>1. game' = FlagCell(game, x, y) /\ everFlagged' = everFlagged \cup game'.flagged
    BY <1>4, Zenon DEF Flag
  <2>2. Sane(FlagCell(game, x, y), everFlagged \cup FlagCell(game, x, y).flagged)
    BY <1>1, FlagCellKeeps, Zenon
  <2>3. Sane(game', everFlagged')
    BY <2>1, <2>2, Zenon
  <2>4. QED
    BY <2>3, Zenon DEF MinesweeperInv
<1>5. ASSUME UNCHANGED minesweeper PROVE MinesweeperInv'
  <2>1. game' = game /\ everFlagged' = everFlagged
    BY <1>5, Zenon DEF minesweeper
  <2>2. Sane(game', everFlagged')
    BY <1>1, <2>1, Zenon
  <2>3. QED
    BY <2>2, Zenon DEF MinesweeperInv
<1>6. game.width \in Int /\ game.height \in Int
  BY <1>1 DEF Sane, Board
<1>7. \A x \in -1 .. game.width, y \in -1 .. game.height : x \in Int /\ y \in Int
  BY <1>6
<1>8. QED
  BY <1>2, <1>3, <1>4, <1>5, <1>7, Zenon DEF MinesweeperNext

\* The open cells, the flags and the outcome of a game agree after any moves:
\* opening a cell, however far it runs, ends with the cells it should have
\* opened, never runs over a mine and is stopped only by flags.
THEOREM MinesweeperCellsOpen == MinesweeperSpec => []CellsOpen
<1>1. MinesweeperInit => MinesweeperInv
  BY MinesweeperStarts
<1>2. MinesweeperInv /\ [MinesweeperNext]_minesweeper => MinesweeperInv'
  BY MinesweeperStep
<1>3. MinesweeperInv => CellsOpen
  <2> SUFFICES ASSUME MinesweeperInv PROVE CellsOpen
    OBVIOUS
  <2>1. Played(game) /\ Marked(game, everFlagged) /\ Closed(game, everFlagged)
    BY Zenon DEF MinesweeperInv, Sane
  <2>2. /\ game.game_won <=> game.revealed = Sound(game)
        /\ game.game_over /\ ~game.game_won <=> game.revealed \cap Mined(game) # {}
        /\ Cardinality(game.revealed \cap Mined(game)) <= 1
    BY <2>1, Zenon DEF Played, Decided
  <2>3. /\ Cardinality(game.flagged) + game.flags_remaining = Cardinality(Mined(game))
        /\ game.flagged \cap game.revealed = {}
    BY <2>1, Zenon DEF Marked
  <2>4. QED
    BY <2>1, <2>2, <2>3, Zenon DEF CellsOpen, Closed, Mined, Sound
<1>4. QED
  BY <1>1, <1>2, <1>3, PTL DEF MinesweeperSpec
=============================================================================
