------------------------------ MODULE UserHeap ------------------------------
(***************************************************************************)
(* The allocator of the C library (lib/libc/libc.c): a list of blocks in   *)
(* the order of their addresses, each linked to the next, first fit, split *)
(* on malloc, both neighbours merged on free.  Sizes and addresses are     *)
(* bytes from the start of the heap; size_t wraps at Word.  kmalloc gives  *)
(* the heap its memory on the first call.  What callers keep in their      *)
(* blocks is left out; clearing and copying it goes past the end of a      *)
(* block whose size wrapped, over the headers behind it.  From then on     *)
(* the list is whatever the bytes say: the heap is Overwritten, and        *)
(* nothing after that is modelled.                                         *)
(***************************************************************************)
EXTENDS Integers, Sequences, SequencesExt

CONSTANTS
  HEAP_SIZE,     \* 16 MB
  HEADER,        \* sizeof(heap_block_t)
  Word,          \* 2^64
  Request,       \* sizes asked for
  Count          \* first arguments of calloc

ASSUME LibcAssumption ==
  /\ HEADER \in Nat \ {0} /\ HEAP_SIZE \in Nat /\ HEAP_SIZE >= HEADER
  /\ Word \in Nat \ {0}
  /\ Request \subseteq Nat /\ Count \subseteq Nat

NULL == -1

VARIABLES
  heap,          \* the blocks from heap_start: sequence of [addr, size, free]
  held           \* history: pointer that a caller holds -> bytes it asked for

libc == <<heap, held>>

\* Headers overwritten by calloc or realloc
Overwritten == <<[addr |-> NULL, size |-> 0, free |-> FALSE]>>

LibcInit == heap = <<>> /\ held = [p \in {} |-> 0]

Align(size) == (((size + 7) % Word) \div 8) * 8

\* The list that malloc searches, made on the first call
Blocks ==
  IF heap = <<>> THEN <<[addr |-> 0, size |-> HEAP_SIZE - HEADER, free |-> TRUE]>> ELSE heap

FirstFit(size) == SelectInSeq(Blocks, LAMBDA b : b.free /\ b.size >= size)

\* The block taken for size bytes, with what is left of it
Split(b, size) ==
  IF b.size >= size + HEADER + 8
  THEN <<[b EXCEPT !.size = size, !.free = FALSE],
         [addr |-> b.addr + HEADER + size, size |-> b.size - size - HEADER, free |-> TRUE]>>
  ELSE <<[b EXCEPT !.free = FALSE]>>

\* What malloc(size) returns, and the list it leaves
MallocPtr(size) ==
  IF size = 0 \/ FirstFit(Align(size)) = 0 THEN NULL
  ELSE Blocks[FirstFit(Align(size))].addr + HEADER

MallocList(size) ==
  LET i == FirstFit(Align(size))
  IN  IF size = 0 THEN heap
      ELSE IF i = 0 THEN Blocks
      ELSE SubSeq(Blocks, 1, i - 1) \o Split(Blocks[i], Align(size))
             \o SubSeq(Blocks, i + 1, Len(Blocks))

Merge(b, c) == [b EXCEPT !.size = @ + HEADER + c.size]

BlockOf(bs, p) == SelectInSeq(bs, LAMBDA b : b.addr = p - HEADER)

FreeList_nextOnly(bs, p) ==                                              \* slip
  LET i == BlockOf(bs, p)
      b == [bs[i] EXCEPT !.free = TRUE]
  IN  IF i < Len(bs) /\ bs[i + 1].free
      THEN RemoveAt([bs EXCEPT ![i] = Merge(b, bs[i + 1])], i + 1)
      ELSE [bs EXCEPT ![i] = b]

\* The list bs after free(p): the next block is merged, then the block into the
\* one before it
FreeList(bs, p) ==
  LET i == BlockOf(bs, p)
      b == [bs[i] EXCEPT !.free = TRUE]
      one == IF i < Len(bs) /\ bs[i + 1].free
             THEN RemoveAt([bs EXCEPT ![i] = Merge(b, bs[i + 1])], i + 1)
             ELSE [bs EXCEPT ![i] = b]
  IN  IF i > 1 /\ one[i - 1].free
      THEN RemoveAt([one EXCEPT ![i - 1] = Merge(@, one[i])], i)
      ELSE one

Hold(p, need) ==
  IF p = NULL THEN held
  ELSE [q \in DOMAIN held \union {p} |-> IF q = p THEN need ELSE held[q]]

Malloc(size) ==
  /\ heap' = MallocList(size)
  /\ held' = Hold(MallocPtr(size), size)

\* Do so many bytes from p on reach past the block of p
Beyond(bs, p, bytes) == bytes > bs[BlockOf(bs, p)].size

\* The product wraps, the caller does not know; memset clears the product, which
\* the rounding in malloc may have wrapped once more
Calloc(nmemb, size) ==
  LET total == (nmemb * size) % Word
      p     == MallocPtr(total)
      bs    == MallocList(total)
  IN  /\ heap' = IF p # NULL /\ Beyond(bs, p, total) THEN Overwritten ELSE bs
      /\ held' = Hold(p, nmemb * size)

Free(p) ==
  /\ heap' = FreeList(heap, p)
  /\ held' = [q \in DOMAIN held \ {p} |-> held[q]]

\* realloc(p, size) of a block that is large enough keeps it as it is; else all
\* of the old block is copied to a new one, and if there is no room nothing
\* changes
Realloc(p, size) ==
  IF size = 0 THEN Free(p)
  ELSE IF heap[BlockOf(heap, p)].size >= size
  THEN heap' = heap /\ held' = [held EXCEPT ![p] = size]
  ELSE LET new == MallocPtr(size)
       IN  IF new = NULL THEN UNCHANGED libc
           ELSE /\ heap' = IF Beyond(MallocList(size), new, heap[BlockOf(heap, p)].size)
                           THEN Overwritten ELSE FreeList(MallocList(size), p)
                /\ held' = [q \in (DOMAIN held \ {p}) \union {new} |->
                              IF q = new THEN size ELSE held[q]]

LibcNext ==
  /\ heap # Overwritten
  /\ \/ \E size \in Request : Malloc(size) \/ \E n \in Count : Calloc(n, size)
     \/ \E p \in DOMAIN held : Free(p) \/ \E size \in Request : Realloc(p, size)

LibcSpec == LibcInit /\ [][LibcNext]_libc

(***************************************************************************)
(* Whatever was taken, resized and given back before: the blocks fill the  *)
(* heap without gap or overlap, those in use are the ones that callers     *)
(* hold, and each is as large as was asked, unless the rounding up or      *)
(* calloc's product does not fit a size_t.  What is free is never split    *)
(* up: no two free blocks follow each other, so that a request fails only  *)
(* if no stretch of free memory is as large.  This ends when headers are   *)
(* overwritten, which the allocator does itself only for a request that    *)
(* does not fit a size_t.                                                  *)
(***************************************************************************)
HeldFits ==
  /\ heap = Overwritten => \E p \in DOMAIN held : held[p] + 7 >= Word
  /\ heap \notin {<<>>, Overwritten} =>
    /\ heap[1].addr = 0
    /\ \A i \in DOMAIN heap :
         LET end == heap[i].addr + HEADER + heap[i].size
         IN  end = IF i = Len(heap) THEN HEAP_SIZE ELSE heap[i + 1].addr
    /\ {heap[i].addr + HEADER : i \in {j \in DOMAIN heap : ~heap[j].free}} = DOMAIN held
    /\ \A p \in DOMAIN held : held[p] + 7 < Word => heap[BlockOf(heap, p)].size >= held[p]
    /\ \A i \in 1 .. Len(heap) - 1 : ~(heap[i].free /\ heap[i + 1].free)
=============================================================================
