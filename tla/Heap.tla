-------------------------------- MODULE Heap --------------------------------
(***************************************************************************)
(* The kernel heap of lib/memory.c: kmalloc (best fit, splitting), kfree   *)
(* (coalescing with both neighbours) and the memory_used / memory_peak     *)
(* accounting.                                                             *)
(*                                                                         *)
(* The heap is the linked list of memory_block_t headers that starts at    *)
(* HEAP_START.  It is represented by the function `block' from the address *)
(* of each header on the list to the header's fields; that the domain is   *)
(* exactly the list, in address order, is the invariant WellLinked.        *)
(*                                                                         *)
(* A definition marked "slip" is a wrong version of the definition after   *)
(* it, used only to confirm that a property would notice the mistake.      *)
(***************************************************************************)
EXTENDS Integers, FiniteSets, FiniteSetsExt

CONSTANTS
  HEAP_START,   \* address of the first header (0x100000 in the source)
  HEAP_SIZE,    \* bytes of heap, headers included (0x100000)
  HDR,          \* sizeof(memory_block_t): 12 on the 32-bit build
  WORD,         \* size_t arithmetic is modulo WORD (2^32)
  Requests      \* the sizes that callers of kmalloc ask for

ASSUME HeapAssumption ==
  /\ HEAP_START \in Nat \ {0}
  /\ HDR \in Nat \ {0}
  /\ HEAP_SIZE \in Nat /\ HEAP_SIZE >= HDR
  /\ WORD \in Nat /\ WORD > HEAP_START + HEAP_SIZE + HDR + 4 /\ WORD % 4 = 0
  /\ Requests \subseteq Nat
  \* No caller asks for the last three values of a size_t, for which
  \* (size + 3) & ~3 would wrap to 0.
  /\ \A n \in Requests : n + 3 < WORD

NULL == 0

HeapEnd == HEAP_START + HEAP_SIZE

Address == HEAP_START .. HeapEnd

VARIABLES
  block,        \* header address -> [size, free, next], for the headers on the list
  memory_used,
  memory_peak,
  held          \* auxiliary: pointer the callers hold -> the bytes they asked for

vars == <<block, memory_used, memory_peak, held>>

Header == [size : Nat, free : BOOLEAN, next : Address \cup {NULL}]

(***************************************************************************)
(* The functions of lib/memory.c as operators on a heap h.                 *)
(***************************************************************************)

\* (size + 3) & ~3, in size_t arithmetic.
RoundUp(n) == ((((n + 3) % WORD) \div 4) * 4)

InitialHeap ==
  [b \in {HEAP_START} |-> [size |-> HEAP_SIZE - HDR, free |-> TRUE, next |-> NULL]]

Fitting_anySize(h, s) == {b \in DOMAIN h : h[b].free}           \* slip: size not compared
Fitting_used(h, s)    == {b \in DOMAIN h : h[b].size >= s}      \* slip: free not tested

\* The free blocks that hold s bytes.
Fitting(h, s) == {b \in DOMAIN h : h[b].free /\ h[b].size >= s}

\* The block the search loop of kmalloc stops with: the smallest that fits,
\* and of those the first on the list.
IsBestFit(h, s, b) ==
  /\ b \in Fitting(h, s)
  /\ \A c \in Fitting(h, s) :
       \/ h[b].size < h[c].size
       \/ h[b].size = h[c].size /\ b <= c

BestFit(h, s) == CHOOSE b \in DOMAIN h : IsBestFit(h, s, b)

\* The heap h with the free flag of block b set to f.
SetFree(h, b, f) == [h EXCEPT ![b] = [size |-> @.size, free |-> f, next |-> @.next]]

\* Block b is worth splitting when s bytes are taken from it.
Splits(h, b, s) == h[b].size >= s + HDR + 4

\* The heap after block b was taken for s bytes.
Take(h, b, s) ==
  IF Splits(h, b, s)
  THEN LET rest == b + HDR + s
       IN  [x \in DOMAIN h \cup {rest} |->
              CASE x = b    -> [size |-> s, free |-> FALSE, next |-> rest]
                [] x = rest -> [size |-> h[b].size - s - HDR, free |-> TRUE,
                                next |-> h[b].next]
                [] OTHER    -> h[x]]
  ELSE SetFree(h, b, FALSE)

\* Block b has swallowed the header of the next block on the list.
Absorb(h, b) ==
  LET n == h[b].next
  IN  [x \in DOMAIN h \ {n} |->
         IF x = b
         THEN [size |-> h[b].size + HDR + h[n].size, free |-> h[b].free,
               next |-> h[n].next]
         ELSE h[x]]

NextIsFree(h, b) == h[b].next # NULL /\ h[h[b].next].free

ReleaseForward_only(h, b) == SetFree(h, b, TRUE)   \* slip: next never merged

\* kfree's first half: mark block b free and merge the next block into it.
ReleaseForward(h, b) ==
  LET freed == SetFree(h, b, TRUE)
  IN  IF NextIsFree(freed, b) THEN Absorb(freed, b) ELSE freed

\* The free blocks whose next is b (at most one, and it precedes b).
FreePrevious(h, b) == {c \in DOMAIN h : h[c].next = b /\ h[c].free}

\* kfree's second half: merge b into the block before it.
MergeBack(h, b) ==
  IF FreePrevious(h, b) = {} THEN h
  ELSE Absorb(h, CHOOSE c \in FreePrevious(h, b) : TRUE)

Release(h, b) == MergeBack(ReleaseForward(h, b), b)

(***************************************************************************)
(* The specification.                                                      *)
(***************************************************************************)

IsHeap(h) == h \in [DOMAIN h -> Header] /\ DOMAIN h \subseteq Address

TypeOK ==
  /\ IsHeap(block)
  /\ memory_used \in Nat
  /\ memory_peak \in Nat
  /\ held \in [DOMAIN held -> Nat]
  /\ DOMAIN held \subseteq Address

\* memory_init
Init ==
  /\ block = InitialHeap
  /\ memory_used = 0
  /\ memory_peak = 0
  /\ held = [p \in {} |-> 0]

\* kmalloc(n) returns NULL when nothing fits, and changes nothing.
KmallocFails(n) ==
  /\ Fitting(block, RoundUp(n)) = {}
  /\ UNCHANGED vars

Kmalloc_countsRequest(n) ==                     \* slip: adds size, not best_fit->size
  LET s == RoundUp(n)
      b == BestFit(block, s)
  IN  /\ Fitting(block, s) # {}
      /\ block' = Take(block, b, s)
      /\ memory_used' = memory_used + s
      /\ memory_peak' = IF memory_used' > memory_peak THEN memory_used' ELSE memory_peak
      /\ held' = [p \in DOMAIN held \cup {b + HDR} |->
                    IF p = b + HDR THEN n ELSE held[p]]

\* kmalloc(n) succeeds and the caller keeps the pointer past the header.
Kmalloc(n) ==
  LET s    == RoundUp(n)
      b    == BestFit(block, s)
      size == IF Splits(block, b, s) THEN s ELSE block[b].size
  IN  /\ Fitting(block, s) # {}
      /\ block' = Take(block, b, s)
      /\ memory_used' = memory_used + size
      /\ memory_peak' = IF memory_used' > memory_peak THEN memory_used' ELSE memory_peak
      /\ held' = [p \in DOMAIN held \cup {b + HDR} |->
                    IF p = b + HDR THEN n ELSE held[p]]

\* kfree(p) of a pointer the caller holds.
Kfree(p) ==
  LET b == p - HDR
  IN  /\ p \in DOMAIN held
      /\ memory_used' = IF ~block[b].free /\ memory_used >= block[b].size
                        THEN memory_used - block[b].size ELSE memory_used
      /\ block' = Release(block, b)
      /\ held' = [q \in DOMAIN held \ {p} |-> held[q]]
      /\ UNCHANGED memory_peak

Next ==
  \/ \E n \in Requests : Kmalloc(n) \/ KmallocFails(n)
  \/ \E p \in DOMAIN held : Kfree(p)

Spec == Init /\ [][Next]_vars

(***************************************************************************)
(* Properties.  The shape of the list is stated of any heap h, so that the *)
(* lemmas about Take and Absorb can speak of the heaps in between.         *)
(***************************************************************************)

Linked(h) ==
  /\ HEAP_START \in DOMAIN h
  /\ \A b \in DOMAIN h : h[b].next \in DOMAIN h \cup {NULL}
  /\ \A b \in DOMAIN h \ {HEAP_START} : \E c \in DOMAIN h : h[c].next = b

Tiled(h) ==
  /\ \A b \in DOMAIN h :
       b + HDR + h[b].size = IF h[b].next = NULL THEN HeapEnd ELSE h[b].next
  /\ \A b, c \in DOMAIN h : c <= b \/ c >= b + HDR + h[b].size

\* The list starts at HEAP_START and every other header is the next of a
\* header: kmalloc's split and kfree's merges leave no block off the list.
WellLinked == Linked(block)

\* Headers and their payloads tile the heap from its first byte to its last:
\* no byte is lost between blocks and no header lies inside another block,
\* whatever kmalloc has split and kfree has merged before.
Tiling == Tiled(block)

\* kfree leaves no two neighbours that are both free: its two one-step merges
\* are enough to keep the list fully coalesced.
Coalesced == \A b \in DOMAIN block : block[b].free => ~ NextIsFree(block, b)

\* The blocks that are not free are exactly those that some caller of kmalloc
\* holds, and each is at least as large as what its caller asked for.
HeldIsAllocated ==
  /\ \A p \in DOMAIN held :
       /\ p - HDR \in DOMAIN block
       /\ ~ block[p - HDR].free
       /\ block[p - HDR].size >= held[p]
  /\ \A b \in DOMAIN block : ~ block[b].free => b + HDR \in DOMAIN held

\* The bytes a caller of kmalloc asked for end inside the heap and are clear
\* of every header and of the bytes of every other caller.
PayloadsDisjoint ==
  \A p \in DOMAIN held :
    /\ p + held[p] <= HeapEnd
    /\ \A b \in DOMAIN block : b + HDR <= p \/ p + held[p] <= b
    /\ \A q \in DOMAIN held \ {p} : p + held[p] <= q \/ q + held[q] <= p

\* memory_used is the sum of the sizes of the allocated blocks: what kmalloc
\* adds for a block is what kfree takes off again, the slack of blocks that
\* were not split included, so the guard memory_used >= block->size in kfree
\* never hides a loss.
UsedIsExact ==
  memory_used = MapThenSumSet(LAMBDA b : block[b].size,
                              {b \in DOMAIN block : ~ block[b].free})

\* When every pointer was given back to kfree, the heap is the single block
\* that memory_init made: no sequence of calls leaks or fragments it for good.
AllFreeIsPristine == DOMAIN held = {} => block = InitialHeap

\* kfree of the pointer kmalloc has just returned puts the heap back exactly
\* as it was, in every reachable heap and for every request.
FreeUndoesMalloc ==
  \A n \in Requests :
    LET s == RoundUp(n)
        b == BestFit(block, s)
    IN  Fitting(block, s) # {} => Release(Take(block, b, s), b) = block

\* A caller's block stays where it is and keeps its size until that caller
\* frees it, whatever the others allocate and free meanwhile.
HeldIsStable ==
  [][\A p \in DOMAIN held \cap DOMAIN held' :
       p - HDR \in DOMAIN block' /\ block'[p - HDR].size = block[p - HDR].size]_vars
=============================================================================
