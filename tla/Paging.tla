------------------------------- MODULE Paging -------------------------------
(***************************************************************************)
(* Frames and page tables of kernel/mm/mm.c: the bitmap allocator, the     *)
(* four-level vmm_map_page, mm_init and the page fault handler.            *)
(*                                                                         *)
(* Frames and virtual pages are numbers.  The bitmap is the set of its set *)
(* bits, a table the function from its indices to frames; flags are left   *)
(* out, since every caller sets PAGE_PRESENT.  Memory that the functions   *)
(* themselves touch is taken to be mapped.  Of the frames handed out by    *)
(* pmm_alloc_page to code outside the file, only those are freed.          *)
(*                                                                         *)
(* A definition marked "slip" is a wrong version of a definition after it, *)
(* used only to confirm that a property would notice the mistake.          *)
(***************************************************************************)
EXTENDS Integers, FiniteSets, Functions

CONSTANTS
  TOTAL_PAGES,     \* mem_size / PAGE_SIZE
  RESERVED,        \* the frames of the first 1MB (256)
  WORD_BITS,       \* bits of a word of the bitmap (64)
  ENTRIES,         \* entries of a table, of any level (512)
  IDENTITY_PAGES   \* the pages of the first 4GB (2^20)

ASSUME PagingAssumption ==
  /\ RESERVED \in Nat \ {0}
  /\ TOTAL_PAGES \in Nat /\ TOTAL_PAGES > RESERVED
  /\ WORD_BITS \in Nat \ {0}
  /\ ENTRIES \in Nat \ {0, 1}
  /\ IDENTITY_PAGES \in 0 .. ENTRIES * ENTRIES * ENTRIES * ENTRIES

None == -1

\* The bits of the bitmap's (total_pages + 63) / 64 words.
Bit == 0 .. WORD_BITS * ((TOTAL_PAGES + WORD_BITS - 1) \div WORD_BITS) - 1

Index == 0 .. ENTRIES - 1
Page  == 0 .. ENTRIES * ENTRIES * ENTRIES * ENTRIES - 1

VARIABLES
  mem,        \* [bitmap, free_pages, tables]: the tables by their frames
  addr,       \* the page mm_init's loop maps next
  halted,     \* after the "cli; hlt" of an unhandled fault
  held,       \* auxiliary: the frames callers of pmm_alloc_page have
  faulted,    \* auxiliary: the frames that page faults have mapped
  lost        \* auxiliary: the frames page faults got and could not map

vars == <<mem, addr, halted, held, faulted, lost>>

NoEntries == [i \in Index |-> None]

(***************************************************************************)
(* Frames.                                                                 *)
(***************************************************************************)

ClearBits(m) == Bit \ m.bitmap

CanAlloc(m) == m.free_pages # 0 /\ ClearBits(m) # {}

\* The frame pmm_alloc_page returns: the first one that is free.
NewFrame(m) == CHOOSE f \in ClearBits(m) : \A g \in ClearBits(m) : f <= g

Taken_noBit(m) == [m EXCEPT !.free_pages = @ - 1]   \* slip: the bit is not set

\* pmm_alloc_page, when it succeeds.
Taken(m) == [m EXCEPT !.bitmap = @ \cup {NewFrame(m)}, !.free_pages = @ - 1]

(***************************************************************************)
(* Tables.                                                                 *)
(***************************************************************************)

Size(level) == CASE level = 0 -> 1
                 [] level = 1 -> ENTRIES
                 [] level = 2 -> ENTRIES * ENTRIES
                 [] level = 3 -> ENTRIES * ENTRIES * ENTRIES

IndexAt_wrongShift(v, level) ==                     \* slip: pdp_idx shifted like pml4_idx
  (v \div Size(IF level = 2 THEN 3 ELSE level)) % ENTRIES

\* pml4_idx, pdp_idx, pd_idx and pt_idx: the index at levels 3, 2, 1 and 0.
IndexAt(v, level) == (v \div Size(level)) % ENTRIES

Descend_unlinked(m, t, i) ==                        \* slip: the new table is not entered
  IF m.tables[t][i] # None THEN [ok |-> TRUE, mem |-> m, table |-> m.tables[t][i]]
  ELSE IF ~ CanAlloc(m) THEN [ok |-> FALSE, mem |-> m, table |-> t]
  ELSE   LET f == NewFrame(m)
             n == Taken(m)
         IN  [ok |-> TRUE, table |-> f,
              mem |-> [n EXCEPT !.tables = [u \in DOMAIN n.tables \cup {f} |->
                         IF u = f THEN NoEntries ELSE n.tables[u]]]]

\* From entry i of table t to the table below, which is made if there is none.
Descend(m, t, i) ==
  IF m.tables[t][i] # None THEN [ok |-> TRUE, mem |-> m, table |-> m.tables[t][i]]
  ELSE IF ~ CanAlloc(m) THEN [ok |-> FALSE, mem |-> m, table |-> t]
  ELSE   LET f == NewFrame(m)
             n == Taken(m)
         IN  [ok |-> TRUE, table |-> f,
              mem |-> [n EXCEPT !.tables = [u \in DOMAIN n.tables \cup {f} |->
                         IF u = f THEN NoEntries
                         ELSE IF u = t THEN [n.tables[t] EXCEPT ![i] = f] ELSE n.tables[u]]]]

kernel_pml4 == RESERVED

\* vmm_map_page for the kernel's address space.  The tables made before it
\* runs out of frames stay.
Mapped(m, v, f) ==
  LET pdp == Descend(m, kernel_pml4, IndexAt(v, 3))
      pd  == IF pdp.ok THEN Descend(pdp.mem, pdp.table, IndexAt(v, 2)) ELSE pdp
      pt  == IF pd.ok THEN Descend(pd.mem, pd.table, IndexAt(v, 1)) ELSE pd
  IN  IF pt.ok
      THEN [ok |-> TRUE,
            mem |-> [pt.mem EXCEPT !.tables[pt.table][IndexAt(v, 0)] = f]]
      ELSE [ok |-> FALSE, mem |-> pt.mem]

\* The frame the processor finds for page v, or None.
Translate(m, v) ==
  LET Below(t, level) == IF t = None THEN None ELSE m.tables[t][IndexAt(v, level)]
  IN  Below(Below(Below(Below(kernel_pml4, 3), 2), 1), 0)

(***************************************************************************)
(* The specification.                                                      *)
(***************************************************************************)

\* mm_init up to the loop: the bitmap with the first 1MB marked, and the
\* kernel's top-level table in the first frame after it.
Init ==
  /\ mem = [bitmap |-> 0 .. RESERVED, free_pages |-> TOTAL_PAGES - RESERVED - 1,
            tables |-> [t \in {kernel_pml4} |-> NoEntries]]
  /\ addr = 0
  /\ halted = FALSE
  /\ held = {} /\ faulted = {} /\ lost = {}

\* One turn of the loop of mm_init, in steps of 2MB, the pages of one table.
InitMap ==
  /\ addr < IDENTITY_PAGES
  /\ mem' = Mapped(mem, addr, addr).mem
  /\ addr' = addr + ENTRIES
  /\ UNCHANGED <<halted, held, faulted, lost>>

Running == addr >= IDENTITY_PAGES /\ ~ halted

\* pmm_alloc_page called by other parts of the kernel.
AllocPage ==
  /\ Running
  /\ CanAlloc(mem)
  /\ mem' = Taken(mem)
  /\ held' = held \cup {NewFrame(mem)}
  /\ UNCHANGED <<addr, halted, faulted, lost>>

FreePage_noCount(f) ==                              \* slip: free_pages not raised
  /\ Running
  /\ f \in held
  /\ mem' = [mem EXCEPT !.bitmap = @ \ {f}]
  /\ held' = held \ {f}
  /\ UNCHANGED <<addr, halted, faulted, lost>>

\* pmm_free_page of a frame that was allocated so.
FreePage(f) ==
  /\ Running
  /\ f \in held
  /\ mem' = [mem EXCEPT !.bitmap = @ \ {f}, !.free_pages = @ + 1]
  /\ held' = held \ {f}
  /\ UNCHANGED <<addr, halted, faulted, lost>>

\* page_fault_handler for a page that is not present.  That the frame could
\* not be mapped, for want of tables, goes unnoticed.
PageFault(v) ==
  /\ Running
  /\ Translate(mem, v) = None
  /\ CanAlloc(mem)
  /\ LET f == NewFrame(mem)
         m == Mapped(Taken(mem), v, f)
     IN  /\ mem' = m.mem
         /\ faulted' = IF m.ok THEN faulted \cup {f} ELSE faulted
         /\ lost' = IF m.ok THEN lost ELSE lost \cup {f}
  /\ UNCHANGED <<addr, halted, held>>

\* page_fault_handler without a free frame, or for a page that is present.
Panic(v) ==
  /\ Running
  /\ Translate(mem, v) # None \/ ~ CanAlloc(mem)
  /\ halted' = TRUE
  /\ UNCHANGED <<mem, addr, held, faulted, lost>>

Next ==
  \/ InitMap
  \/ AllocPage
  \/ \E f \in Bit : FreePage(f)
  \/ \E v \in Page : PageFault(v) \/ Panic(v)

Spec == Init /\ [][Next]_vars

(***************************************************************************)
(* Properties.                                                             *)
(***************************************************************************)
Entry == Nat \cup {None}

TypeOK ==
  /\ DOMAIN mem = {"bitmap", "free_pages", "tables"}
  /\ mem.bitmap \subseteq Bit
  /\ mem.free_pages \in Nat
  /\ DOMAIN mem.tables \subseteq Bit
  /\ \A t \in DOMAIN mem.tables : mem.tables[t] \in [Index -> Entry]
  /\ addr \in Nat /\ halted \in BOOLEAN
  /\ held \subseteq Bit /\ faulted \subseteq Bit /\ lost \subseteq Bit

\* free_pages, on which pmm_alloc_page relies to know that there is a frame,
\* is the number of frames that are free, and what is handed out is memory that
\* exists, although the last word of the bitmap has bits, never set, for frames
\* behind its end.
FreeIsExact ==
  /\ mem.bitmap \subseteq 0 .. TOTAL_PAGES - 1
  /\ mem.free_pages = TOTAL_PAGES - Cardinality(mem.bitmap)

\* Every frame in use has one use: it is reserved, a table, a caller's, under
\* a page that faulted, or was lost by a fault that found no frame for a
\* table.  In particular no frame that is written to as data is a table.
Accounted ==
  LET uses == <<0 .. RESERVED - 1, DOMAIN mem.tables, held, faulted, lost>>
  IN  /\ mem.bitmap = UNION Range(uses)
      /\ \A i, j \in DOMAIN uses : i # j => uses[i] \cap uses[j] = {}

\* Level by level, the tables hang together in a tree: the table an entry
\* refers to is one, and no two entries share it.
TablesFormTree ==
  LET Level[n \in 0 .. 3] ==
        IF n = 0 THEN {kernel_pml4}
        ELSE UNION {Range(mem.tables[t]) \ {None} : t \in Level[n - 1]}
      Inner == {t \in DOMAIN mem.tables : \E n \in 0 .. 2 : t \in Level[n]}
  IN  /\ UNION {Level[n] : n \in 0 .. 3} = DOMAIN mem.tables
      /\ \A t, u \in Inner : \A i, j \in Index :
           mem.tables[t][i] = mem.tables[u][j] /\ mem.tables[t][i] # None
             => t = u /\ i = j

\* Through the tables, mapping a page maps this page and no other, whether
\* the tables on the way to it were there or not; a mapping that fails
\* changes no translation.
Space == INSTANCE PageMap WITH Frame <- Nat, map <- [v \in Page |-> Translate(mem, v)]

RefinesPageMap == Space!Spec
=============================================================================
