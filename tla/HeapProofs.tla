----------------------------- MODULE HeapProofs -----------------------------
(***************************************************************************)
(* The list of lib/memory.c stays well linked, tiled and coalesced for     *)
(* every heap size, header size and choice of requests.                    *)
(***************************************************************************)
EXTENDS Heap, FiniteSetTheorems, TLAPS

\* A nonempty set of naturals has a least element.
LEMMA LeastNat ==
  ASSUME NEW S \in SUBSET Nat, S # {}
  PROVE  \E m \in S : \A k \in S : m <= k
<1>1. IsWellFoundedOn({ss \in Nat \X Nat : ss[1] < ss[2]}, Nat)
  BY NatLessThanWellFounded, Zenon DEF OpToRel
<1>2. PICK m \in S : \A k \in S : <<k, m>> \notin {ss \in Nat \X Nat : ss[1] < ss[2]}
  BY <1>1, WFMin, Zenon
<1>3. \A k \in S : k \in Nat /\ m \in Nat /\ ~ (k < m)
  BY <1>2, Zenon
<1>4. QED
  BY <1>3

WellFormed(h) == IsHeap(h) /\ Linked(h) /\ Tiled(h)

\* Rounding keeps a request a natural number that is not smaller.
LEMMA RoundUpFits ==
  ASSUME NEW n \in Requests
  PROVE  RoundUp(n) \in Nat /\ RoundUp(n) >= n
<1>1. n \in Nat /\ n + 3 < WORD /\ WORD \in Nat
  BY HeapAssumption
<1>2. (n + 3) % WORD = n + 3
  BY <1>1
<1>3. QED
  BY <1>1, <1>2 DEF RoundUp

\* The fields of a header on a heap, and the order of neighbours.
LEMMA HeaderFields ==
  ASSUME NEW h, WellFormed(h), NEW b \in DOMAIN h
  PROVE  /\ b \in Nat /\ b >= HEAP_START
         /\ h[b] \in Header
         /\ h[b].size \in Nat /\ h[b].free \in BOOLEAN
         /\ h[b].next \in DOMAIN h \cup {NULL}
         /\ h[b].next # NULL => h[b].next = b + HDR + h[b].size
         /\ h[b].next = NULL => HeapEnd = b + HDR + h[b].size
         /\ b + HDR + h[b].size <= HeapEnd
         /\ HEAP_START \in Nat \ {0} /\ HDR \in Nat \ {0} /\ HeapEnd \in Nat
         /\ NULL \notin DOMAIN h
  BY HeapAssumption DEF WellFormed, IsHeap, Linked, Tiled, Header, Address, HeapEnd, NULL

\* What kmalloc's commit does to every header, field by field.
LEMMA TakeSplit ==
  ASSUME NEW h, WellFormed(h), NEW b \in DOMAIN h, NEW s \in Nat, Splits(h, b, s)
  PROVE  LET rest == b + HDR + s
             t == Take(h, b, s)
         IN  /\ rest \notin DOMAIN h /\ rest \in Address /\ rest # NULL
             /\ DOMAIN t = DOMAIN h \cup {rest}
             /\ t = [x \in DOMAIN t |-> t[x]]
             /\ t[b] = [size |-> s, free |-> FALSE, next |-> rest]
             /\ t[rest] = [size |-> h[b].size - s - HDR, free |-> TRUE, next |-> h[b].next]
             /\ h[b].size - s - HDR \in Nat
             /\ \A x \in DOMAIN h \ {b} : t[x] = h[x]
<1> DEFINE rest == b + HDR + s
           t == Take(h, b, s)
<1>1. h[b].size >= s + HDR + 4
  BY DEF Splits
<1>2. rest \notin DOMAIN h /\ rest \in Address /\ rest # NULL
  BY <1>1, HeaderFields DEF WellFormed, Tiled, Address, NULL, HeapEnd
<1>3. t = [x \in DOMAIN h \cup {rest} |->
             CASE x = b    -> [size |-> s, free |-> FALSE, next |-> rest]
               [] x = rest -> [size |-> h[b].size - s - HDR, free |-> TRUE,
                               next |-> h[b].next]
               [] OTHER    -> h[x]]
  BY DEF Take
<1> HIDE DEF t
<1>4. /\ DOMAIN t = DOMAIN h \cup {rest}
      /\ t = [x \in DOMAIN t |-> t[x]]
      /\ t[b] = [size |-> s, free |-> FALSE, next |-> rest]
      /\ t[rest] = [size |-> h[b].size - s - HDR, free |-> TRUE, next |-> h[b].next]
      /\ \A x \in DOMAIN h \ {b} : t[x] = h[x]
  BY <1>2, <1>3
<1>5. h[b].size - s - HDR \in Nat
  BY <1>1, HeaderFields
<1>6. QED
  BY <1>2, <1>4, <1>5 DEF t

\* Setting a free flag touches nothing but that flag.
LEMMA SetFreeFields ==
  ASSUME NEW h, WellFormed(h), NEW b \in DOMAIN h, NEW f \in BOOLEAN
  PROVE  LET t == SetFree(h, b, f)
         IN  /\ DOMAIN t = DOMAIN h
             /\ t = [x \in DOMAIN t |-> t[x]]
             /\ t[b] = [size |-> h[b].size, free |-> f, next |-> h[b].next]
             /\ \A x \in DOMAIN h \ {b} : t[x] = h[x]
             /\ WellFormed(t)
<1> DEFINE t == SetFree(h, b, f)
<1>1. /\ DOMAIN t = DOMAIN h
      /\ t = [x \in DOMAIN t |-> t[x]]
      /\ t[b] = [size |-> h[b].size, free |-> f, next |-> h[b].next]
      /\ \A x \in DOMAIN h \ {b} : t[x] = h[x]
  BY DEF SetFree, WellFormed, IsHeap
<1> HIDE DEF t
<1>2. t[b] \in Header
  BY <1>1, HeaderFields DEF Header, WellFormed, IsHeap
<1>3. \A x \in DOMAIN h : t[x].size = h[x].size /\ t[x].next = h[x].next
  BY <1>1
<1>4. IsHeap(t)
  BY <1>1, <1>2 DEF WellFormed, IsHeap
<1>5. Linked(t)
  BY <1>1, <1>3 DEF WellFormed, Linked
<1>6. Tiled(t)
  BY <1>1, <1>3 DEF WellFormed, Tiled
<1>7. QED
  BY <1>1, <1>4, <1>5, <1>6 DEF WellFormed, t

\* kmalloc's split keeps the list well formed.
LEMMA TakeWellFormed ==
  ASSUME NEW h, WellFormed(h), NEW b \in DOMAIN h, NEW s \in Nat, s <= h[b].size
  PROVE  WellFormed(Take(h, b, s))
<1> DEFINE t == Take(h, b, s)
<1>1. CASE ~ Splits(h, b, s)
  BY <1>1, SetFreeFields DEF Take
<1>2. CASE Splits(h, b, s)
  <2> DEFINE rest == b + HDR + s
  <2>1. /\ rest \notin DOMAIN h /\ rest \in Address /\ rest # NULL
        /\ DOMAIN t = DOMAIN h \cup {rest}
        /\ t = [x \in DOMAIN t |-> t[x]]
        /\ t[b] = [size |-> s, free |-> FALSE, next |-> rest]
        /\ t[rest] = [size |-> h[b].size - s - HDR, free |-> TRUE, next |-> h[b].next]
        /\ h[b].size - s - HDR \in Nat
        /\ \A x \in DOMAIN h \ {b} : t[x] = h[x]
    BY <1>2, TakeSplit
  <2> HIDE DEF t
  <2>2. /\ t[b].size = s /\ t[b].next = rest
        /\ t[rest].size = h[b].size - s - HDR /\ t[rest].next = h[b].next
        /\ \A x \in DOMAIN h \ {b} : t[x].size = h[x].size /\ t[x].next = h[x].next
    BY <2>1
  <2>3. IsHeap(t)
    <3>1. t[b] \in Header /\ t[rest] \in Header
      BY <2>1, HeaderFields DEF Header, WellFormed, IsHeap
    <3>2. QED
      BY <2>1, <3>1 DEF WellFormed, IsHeap
  <2>4. Linked(t)
    <3>1. \A x \in DOMAIN t : t[x].next \in DOMAIN t \cup {NULL}
      BY <2>1, <2>2 DEF WellFormed, Linked
    <3>2. ASSUME NEW x \in DOMAIN t \ {HEAP_START}
          PROVE  \E c \in DOMAIN t : t[c].next = x
      <4>1. CASE x = rest
        BY <4>1, <2>1, <2>2
      <4>2. CASE x # rest
        <5>1. PICK c \in DOMAIN h : h[c].next = x
          BY <4>2, <2>1 DEF WellFormed, Linked
        <5>2. CASE c = b
          BY <5>1, <5>2, <2>1, <2>2
        <5>3. CASE c # b
          BY <5>1, <5>3, <2>1, <2>2
        <5>4. QED
          BY <5>2, <5>3
      <4>3. QED
        BY <4>1, <4>2
    <3>3. QED
      BY <2>1, <3>1, <3>2 DEF WellFormed, Linked
  <2>5. Tiled(t)
    <3>1. \A x \in DOMAIN t :
            x + HDR + t[x].size = IF t[x].next = NULL THEN HeapEnd ELSE t[x].next
      BY <2>1, <2>2, HeaderFields
    <3>2. ASSUME NEW x \in DOMAIN t, NEW c \in DOMAIN t
          PROVE  c <= x \/ c >= x + HDR + t[x].size
      <4>1. \A y, z \in DOMAIN h : z <= y \/ z >= y + HDR + h[y].size
        BY DEF WellFormed, Tiled
      <4>2. \A y \in DOMAIN h : y \in Nat /\ h[y].size \in Nat /\ HDR \in Nat \ {0}
        BY HeaderFields
      <4>3. QED
        BY <2>1, <2>2, <4>1, <4>2
    <3>3. QED
      BY <3>1, <3>2 DEF Tiled
  <2>6. QED
    BY <2>3, <2>4, <2>5 DEF WellFormed, t
<1>3. QED
  BY <1>1, <1>2

\* What merging the next block does to every header, field by field.
LEMMA AbsorbFields ==
  ASSUME NEW h, WellFormed(h), NEW b \in DOMAIN h, h[b].next # NULL
  PROVE  LET n == h[b].next
             t == Absorb(h, b)
         IN  /\ n \in DOMAIN h /\ n # b /\ n # HEAP_START
             /\ DOMAIN t = DOMAIN h \ {n}
             /\ t[b] = [size |-> h[b].size + HDR + h[n].size, free |-> h[b].free,
                        next |-> h[n].next]
             /\ \A x \in DOMAIN t \ {b} : t[x] = h[x]
<1> DEFINE n == h[b].next
           t == Absorb(h, b)
<1>1. n \in DOMAIN h /\ n # b /\ n # HEAP_START
  BY HeaderFields
<1>2. t = [x \in DOMAIN h \ {n} |->
             IF x = b
             THEN [size |-> h[b].size + HDR + h[n].size, free |-> h[b].free,
                   next |-> h[n].next]
             ELSE h[x]]
  BY DEF Absorb
<1> HIDE DEF t
<1>3. /\ DOMAIN t = DOMAIN h \ {n}
      /\ t[b] = [size |-> h[b].size + HDR + h[n].size, free |-> h[b].free,
                 next |-> h[n].next]
      /\ \A x \in DOMAIN t \ {b} : t[x] = h[x]
  BY <1>1, <1>2
<1>4. QED
  BY <1>1, <1>3 DEF t

\* kfree's merge keeps the list well formed.
LEMMA AbsorbWellFormed ==
  ASSUME NEW h, WellFormed(h), NEW b \in DOMAIN h, h[b].next # NULL
  PROVE  WellFormed(Absorb(h, b))
<1> DEFINE n == h[b].next
           t == Absorb(h, b)
<1>1. /\ n \in DOMAIN h /\ n # b /\ n # HEAP_START
      /\ DOMAIN t = DOMAIN h \ {n}
      /\ t[b] = [size |-> h[b].size + HDR + h[n].size, free |-> h[b].free,
                 next |-> h[n].next]
      /\ \A x \in DOMAIN t \ {b} : t[x] = h[x]
  BY AbsorbFields
<1>0. t = [x \in DOMAIN t |-> t[x]]
  BY DEF Absorb
<1> HIDE DEF t
<1>2. /\ t[b].size = h[b].size + HDR + h[n].size /\ t[b].next = h[n].next
      /\ \A x \in DOMAIN t \ {b} : t[x].size = h[x].size /\ t[x].next = h[x].next
  BY <1>1
<1>3. \A y \in DOMAIN h : y \in Nat /\ h[y].size \in Nat /\ HDR \in Nat \ {0}
  BY HeaderFields
<1>4. n = b + HDR + h[b].size
  BY HeaderFields
<1>5. \A y, z \in DOMAIN h : z <= y \/ z >= y + HDR + h[y].size
  BY DEF WellFormed, Tiled
\* Only b points at n: two headers with the same next are the same header.
<1>6. \A x \in DOMAIN h : h[x].next = n => x = b
  <2> SUFFICES ASSUME NEW x \in DOMAIN h, h[x].next = n PROVE x = b
    OBVIOUS
  <2>1. n = x + HDR + h[x].size
    BY HeaderFields
  <2>2. QED
    BY <2>1, <1>3, <1>4, <1>5
<1>7. IsHeap(t)
  <2>1. t[b] \in Header
    BY <1>1, <1>3, HeaderFields DEF Header, WellFormed, IsHeap
  <2>2. QED
    BY <2>1, <1>0, <1>1 DEF WellFormed, IsHeap
<1>8. Linked(t)
  <2>1. HEAP_START \in DOMAIN t
    BY <1>1 DEF WellFormed, Linked
  <2>2. \A x \in DOMAIN t : t[x].next \in DOMAIN t \cup {NULL}
    <3>1. h[n].next # n
      BY <1>1, HeaderFields
    <3>2. QED
      BY <1>1, <1>2, <1>6, <3>1, HeaderFields
  <2>3. ASSUME NEW x \in DOMAIN t \ {HEAP_START}
        PROVE  \E c \in DOMAIN t : t[c].next = x
    <3>1. PICK c \in DOMAIN h : h[c].next = x
      BY <1>1 DEF WellFormed, Linked
    <3>2. CASE c = n
      BY <3>1, <3>2, <1>1, <1>2
    <3>3. CASE c # n
      <4>1. c # b
        BY <3>1, <1>1
      <4>2. QED
        BY <3>1, <3>3, <4>1, <1>1, <1>2
    <3>4. QED
      BY <3>2, <3>3
  <2>4. QED
    BY <2>1, <2>2, <2>3 DEF Linked
<1>9. Tiled(t)
  <2>1. ASSUME NEW x \in DOMAIN t
        PROVE  x + HDR + t[x].size = IF t[x].next = NULL THEN HeapEnd ELSE t[x].next
    <3>1. CASE x = b
      BY <3>1, <1>1, <1>2, <1>3, <1>4, HeaderFields
    <3>2. CASE x # b
      BY <3>2, <1>1, <1>2, HeaderFields
    <3>3. QED
      BY <3>1, <3>2
  <2>2. ASSUME NEW x \in DOMAIN t, NEW c \in DOMAIN t
        PROVE  c <= x \/ c >= x + HDR + t[x].size
    BY <1>1, <1>2, <1>3, <1>4, <1>5
  <2>3. QED
    BY <2>1, <2>2 DEF Tiled
<1>10. QED
  BY <1>7, <1>8, <1>9 DEF WellFormed, t

\* No free block is followed by a free block.
FullyCoalesced(h) == \A x \in DOMAIN h : h[x].free => ~ NextIsFree(h, x)

\* The blocks in use on r are those in use on h, without b, at the same size.
SameInUse(h, b, r) ==
  /\ \A x \in DOMAIN h \ {b} :
       ~ h[x].free => x \in DOMAIN r /\ ~ r[x].free /\ r[x].size = h[x].size
  /\ \A x \in DOMAIN r : ~ r[x].free => x \in DOMAIN h \ {b} /\ ~ h[x].free

\* After kfree's first half only the block before b can be free next to a
\* free block, and that block is b.
LEMMA ReleaseForwardFacts ==
  ASSUME NEW h, WellFormed(h), FullyCoalesced(h), NEW b \in DOMAIN h
  PROVE  LET g == ReleaseForward(h, b)
         IN  /\ WellFormed(g)
             /\ b \in DOMAIN g /\ g[b].free /\ ~ NextIsFree(g, b)
             /\ \A x \in DOMAIN g : g[x].free /\ NextIsFree(g, x) => g[x].next = b
             /\ SameInUse(h, b, g)
<1> DEFINE f == SetFree(h, b, TRUE)
           g == ReleaseForward(h, b)
           n == f[b].next
<1>1. /\ WellFormed(f) /\ DOMAIN f = DOMAIN h
      /\ f[b] = [size |-> h[b].size, free |-> TRUE, next |-> h[b].next]
      /\ \A x \in DOMAIN h \ {b} : f[x] = h[x]
  BY SetFreeFields
<1> HIDE DEF f
<1>2. \A x \in DOMAIN f : f[x].next # x
  BY <1>1, HeaderFields
<1>3. \A x \in DOMAIN f : f[x].next # NULL => f[x].next \in DOMAIN f
  BY <1>1, HeaderFields
<1>4. f[b].free /\ n = h[b].next
  BY <1>1
<1>5. \A x \in DOMAIN f \ {b} : f[x].free /\ NextIsFree(f, x) => f[x].next = b
  BY <1>1, <1>3 DEF FullyCoalesced, NextIsFree
<1>6. CASE ~ NextIsFree(f, b)
  <2>1. g = f
    BY <1>6 DEF ReleaseForward, f
  <2>2. \A x \in DOMAIN f : f[x].free /\ NextIsFree(f, x) => f[x].next = b
    BY <1>5, <1>6
  <2>3. SameInUse(h, b, f)
    BY <1>1 DEF SameInUse
  <2> HIDE DEF g
  <2>4. QED
    BY <1>1, <1>4, <1>6, <2>1, <2>2, <2>3 DEF g
<1>7. CASE NextIsFree(f, b)
  <2>1. g = Absorb(f, b)
    BY <1>7 DEF ReleaseForward, f
  <2>2. n # NULL /\ f[n].free
    BY <1>7 DEF NextIsFree
  <2>3. /\ WellFormed(g)
        /\ n \in DOMAIN f /\ n # b
        /\ DOMAIN g = DOMAIN f \ {n}
        /\ g[b] = [size |-> f[b].size + HDR + f[n].size, free |-> f[b].free,
                   next |-> f[n].next]
        /\ \A x \in DOMAIN g \ {b} : g[x] = f[x]
    <3>1. WellFormed(f) /\ b \in DOMAIN f /\ f[b].next # NULL
      BY <1>1, <2>2
    <3>2. WellFormed(Absorb(f, b))
      BY <3>1, AbsorbWellFormed
    <3> HIDE DEF g
    <3>3. n = f[b].next
      OBVIOUS
    <3> HIDE DEF n
    <3>4. n \in DOMAIN f /\ n # b /\ DOMAIN g = DOMAIN f \ {n}
      BY <2>1, <3>1, <3>3, AbsorbFields
    <3>5. g = [x \in DOMAIN f \ {n} |->
                 IF x = b
                 THEN [size |-> f[b].size + HDR + f[n].size, free |-> f[b].free,
                       next |-> f[n].next]
                 ELSE f[x]]
      BY <2>1, <3>3 DEF Absorb
    <3>6. QED
      BY <2>1, <3>1, <3>2, <3>4, <3>5
  <2> HIDE DEF g, n
  <2>4. b \in DOMAIN g /\ g[b].free /\ g[b].next = f[n].next
    BY <1>1, <1>4, <2>3
  <2>5. ~ NextIsFree(g, b)
    <3> SUFFICES ASSUME f[n].next # NULL PROVE ~ g[f[n].next].free
      BY <2>4 DEF NextIsFree
    <3>1. f[n].next # b
      BY <1>1, <2>2, <2>3, HeaderFields DEF n
    <3>2. f[n].next \in DOMAIN g
      BY <1>2, <1>3, <2>3
    <3>3. g[f[n].next] = f[f[n].next] /\ f[n] = h[n] /\ f[f[n].next] = h[h[n].next]
      BY <1>1, <2>3, <3>1, <3>2
    <3>4. QED
      BY <1>1, <2>2, <2>3, <3>3 DEF FullyCoalesced, NextIsFree
  <2>6. ASSUME NEW x \in DOMAIN g, g[x].free, NextIsFree(g, x)
        PROVE  g[x].next = b
    <3>1. x # b /\ g[x] = f[x]
      BY <2>3, <2>5, <2>6
    <3>2. g[x].next \in DOMAIN g
      BY <2>3, <2>6, HeaderFields DEF NextIsFree
    <3>3. CASE g[x].next # b
      <4>1. NextIsFree(f, x)
        BY <2>3, <2>6, <3>1, <3>2, <3>3 DEF NextIsFree
      <4>2. QED
        BY <1>5, <2>3, <2>6, <3>1, <3>3, <4>1
    <3>4. QED
      BY <3>3
  <2>7. SameInUse(h, b, g)
    BY <1>1, <2>2, <2>3, <2>4 DEF SameInUse
  <2>8. QED
    BY <2>3, <2>4, <2>5, <2>6, <2>7 DEF g
<1>8. QED
  BY <1>6, <1>7

\* kfree keeps the list well formed and fully coalesced, and frees b alone.
LEMMA ReleaseFacts ==
  ASSUME NEW h, WellFormed(h), FullyCoalesced(h), NEW b \in DOMAIN h
  PROVE  LET r == Release(h, b)
         IN  WellFormed(r) /\ FullyCoalesced(r) /\ SameInUse(h, b, r)
<1> DEFINE g == ReleaseForward(h, b)
           r == MergeBack(g, b)
<1>1. /\ WellFormed(g)
      /\ b \in DOMAIN g /\ g[b].free /\ ~ NextIsFree(g, b)
      /\ \A x \in DOMAIN g : g[x].free /\ NextIsFree(g, x) => g[x].next = b
      /\ SameInUse(h, b, g)
  BY ReleaseForwardFacts
<1> HIDE DEF g
<1>2. CASE FreePrevious(g, b) = {}
  <2>1. r = g
    BY <1>2 DEF MergeBack
  <2>2. FullyCoalesced(g)
    BY <1>1, <1>2 DEF FullyCoalesced, FreePrevious
  <2>3. QED
    BY <1>1, <2>1, <2>2 DEF Release, g
<1>3. CASE FreePrevious(g, b) # {}
  <2>1. PICK c : r = Absorb(g, c) /\ c \in DOMAIN g /\ g[c].next = b /\ g[c].free
    BY <1>3 DEF MergeBack, FreePrevious
  <2>2. g[c].next # NULL
    BY <1>1, <2>1, HeaderFields
  <2>3. /\ WellFormed(r) /\ b # c
        /\ DOMAIN r = DOMAIN g \ {b}
        /\ r[c] = [size |-> g[c].size + HDR + g[b].size, free |-> g[c].free,
                   next |-> g[b].next]
        /\ \A x \in DOMAIN r \ {c} : r[x] = g[x]
    <3>1. WellFormed(Absorb(g, c))
      BY <1>1, <2>1, <2>2, AbsorbWellFormed
    <3>2. WellFormed(g) /\ c \in DOMAIN g /\ g[c].next # NULL /\ g[c].next = b
      BY <1>1, <2>1, <2>2
    <3> HIDE DEF r
    <3>3. r = Absorb(g, c)
      BY <2>1
    <3>4. QED
      BY <3>1, <3>2, <3>3, AbsorbFields
  <2> HIDE DEF r
  <2>4. c \in DOMAIN r /\ r[c].free /\ r[c].next = g[b].next
    BY <2>1, <2>3
  <2>5. ASSUME NEW x \in DOMAIN r, r[x].free, NextIsFree(r, x)
        PROVE  FALSE
    <3>1. r[x].next \in DOMAIN r /\ r[x].next # x
      BY <2>3, <2>5, HeaderFields DEF NextIsFree
    <3>2. CASE x = c
      BY <1>1, <2>3, <2>4, <2>5, <3>1, <3>2 DEF NextIsFree
    <3>3. CASE x # c
      <4>1. g[x] = r[x] /\ x \in DOMAIN g /\ r[x].next \in DOMAIN g
        BY <2>3, <3>1, <3>3
      <4>2. g[g[x].next].free
        BY <2>1, <2>3, <2>5, <3>1, <4>1 DEF NextIsFree
      <4>3. g[x].next = b
        BY <1>1, <2>5, <4>1, <4>2 DEF NextIsFree
      <4>4. QED
        BY <2>3, <3>1, <4>1, <4>3
    <3>4. QED
      BY <3>2, <3>3
  <2>6. FullyCoalesced(r)
    BY <2>5 DEF FullyCoalesced
  <2>7. SameInUse(h, b, r)
    BY <1>1, <2>1, <2>3, <2>4 DEF SameInUse
  <2>8. QED
    BY <2>3, <2>6, <2>7 DEF Release, g, r
<1>4. QED
  BY <1>2, <1>3

\* The search loop of kmalloc finds a block whenever one fits.
LEMMA BestFitExists ==
  ASSUME NEW h, WellFormed(h), NEW s \in Nat, Fitting(h, s) # {}
  PROVE  LET b == BestFit(h, s)
         IN  b \in DOMAIN h /\ h[b].free /\ s <= h[b].size
<1> DEFINE F == Fitting(h, s)
           sizes == {h[c].size : c \in F}
<1>1. \A c \in F : c \in DOMAIN h /\ c \in Nat /\ h[c].size \in Nat
  BY HeaderFields DEF Fitting
<1>2. PICK m \in sizes : \A k \in sizes : m <= k
  BY <1>1, LeastNat
<1> DEFINE A == {c \in F : h[c].size = m}
<1>3. PICK b \in A : \A c \in A : b <= c
  BY <1>1, <1>2, LeastNat
<1>4. IsBestFit(h, s, b)
  <2>1. ASSUME NEW c \in F
        PROVE  h[b].size < h[c].size \/ (h[b].size = h[c].size /\ b <= c)
    <3>1. h[b].size = m /\ m <= h[c].size /\ b \in Nat /\ c \in Nat /\ h[c].size \in Nat
      BY <1>1, <1>2, <1>3
    <3>2. CASE h[c].size = m
      BY <3>1, <3>2, <1>3
    <3>3. CASE h[c].size # m
      <4>1. m \in Nat
        BY <1>1, <1>2
      <4>2. QED
        BY <3>1, <3>3, <4>1
    <3>4. QED
      BY <3>2, <3>3
  <2>2. QED
    BY <1>3, <2>1 DEF IsBestFit
<1>5. b \in DOMAIN h
  BY <1>1, <1>3
<1>6. IsBestFit(h, s, BestFit(h, s)) /\ BestFit(h, s) \in DOMAIN h
  BY <1>4, <1>5 DEF BestFit
<1>7. BestFit(h, s) \in Fitting(h, s)
  BY <1>6 DEF IsBestFit
<1>8. s \in Nat /\ h[BestFit(h, s)].size \in Nat
  BY <1>6, HeaderFields
<1>9. QED
  BY <1>6, <1>7, <1>8 DEF Fitting

(***************************************************************************)
(* The inductive invariant: the shape of the list, full coalescing, and    *)
(* the match between the blocks in use and the pointers callers hold.      *)
(***************************************************************************)
HeapInv == TypeOK /\ WellLinked /\ Tiling /\ Coalesced /\ HeldIsAllocated

LEMMA HeapInvFacts ==
  ASSUME HeapInv
  PROVE  WellFormed(block) /\ FullyCoalesced(block)
  BY DEF HeapInv, TypeOK, WellLinked, Tiling, Coalesced, WellFormed, FullyCoalesced

\* memory_init establishes the invariant.
LEMMA InitHeapInv == Init => HeapInv
<1> SUFFICES ASSUME Init PROVE HeapInv
  OBVIOUS
<1>1. /\ DOMAIN block = {HEAP_START}
      /\ block[HEAP_START] = [size |-> HEAP_SIZE - HDR, free |-> TRUE, next |-> NULL]
      /\ block = [b \in DOMAIN block |-> block[b]]
  BY DEF Init, InitialHeap
<1>2. /\ block[HEAP_START].size = HEAP_SIZE - HDR
      /\ block[HEAP_START].free
      /\ block[HEAP_START].next = NULL
  BY <1>1
<1>3. HEAP_START \in Address /\ HEAP_SIZE - HDR \in Nat
  BY HeapAssumption DEF Address, HeapEnd
<1>4. TypeOK
  <2>1. block[HEAP_START] \in Header
    BY <1>1, <1>3 DEF Header
  <2>2. held \in [DOMAIN held -> Nat] /\ DOMAIN held \subseteq Address
    BY DEF Init
  <2>3. QED
    BY <1>1, <1>3, <2>1, <2>2 DEF TypeOK, IsHeap, Init
<1>5. WellLinked
  BY <1>1, <1>2 DEF WellLinked, Linked
<1>6. Tiling
  BY <1>1, <1>2, HeapAssumption DEF Tiling, Tiled, HeapEnd
<1>7. Coalesced
  BY <1>1, <1>2 DEF Coalesced, NextIsFree
<1>8. HeldIsAllocated
  BY <1>1, <1>2 DEF HeldIsAllocated, Init
<1>9. QED
  BY <1>4, <1>5, <1>6, <1>7, <1>8 DEF HeapInv

\* kmalloc keeps the list coalesced and puts block b, and no other, in use.
LEMMA TakeFacts ==
  ASSUME NEW h, WellFormed(h), FullyCoalesced(h),
         NEW b \in DOMAIN h, h[b].free, NEW s \in Nat, s <= h[b].size
  PROVE  LET t == Take(h, b, s)
         IN  /\ WellFormed(t) /\ FullyCoalesced(t)
             /\ b \in DOMAIN t /\ ~ t[b].free /\ t[b].size \in Nat /\ t[b].size >= s
             /\ t[b].size = IF Splits(h, b, s) THEN s ELSE h[b].size
             /\ \A x \in DOMAIN h \ {b} : x \in DOMAIN t /\ t[x] = h[x]
             /\ \A x \in DOMAIN t \ {b} : ~ t[x].free => x \in DOMAIN h
<1> DEFINE t == Take(h, b, s)
<1>1. WellFormed(t)
  BY TakeWellFormed
<1>2. \A x \in DOMAIN h : h[x].next # NULL => h[x].next \in DOMAIN h \ {x}
  BY HeaderFields
<1>3. CASE ~ Splits(h, b, s)
  <2>1. /\ DOMAIN t = DOMAIN h
        /\ t[b] = [size |-> h[b].size, free |-> FALSE, next |-> h[b].next]
        /\ \A x \in DOMAIN h \ {b} : t[x] = h[x]
    BY <1>3, SetFreeFields DEF Take
  <2> HIDE DEF t
  <2>2. t[b].size = h[b].size /\ ~ t[b].free
    BY <2>1
  <2>3. FullyCoalesced(t)
    BY <1>2, <2>1, <2>2 DEF FullyCoalesced, NextIsFree
  <2>4. h[b].size \in Nat
    BY HeaderFields
  <2>5. QED
    BY <1>1, <1>3, <2>1, <2>2, <2>3, <2>4 DEF t
<1>4. CASE Splits(h, b, s)
  <2> DEFINE rest == b + HDR + s
  <2>1. /\ rest \notin DOMAIN h /\ rest # NULL
        /\ DOMAIN t = DOMAIN h \cup {rest}
        /\ t[b] = [size |-> s, free |-> FALSE, next |-> rest]
        /\ t[rest] = [size |-> h[b].size - s - HDR, free |-> TRUE, next |-> h[b].next]
        /\ \A x \in DOMAIN h \ {b} : t[x] = h[x]
    BY <1>4, TakeSplit
  <2> HIDE DEF t, rest
  <2>2. t[b].size = s /\ ~ t[b].free /\ t[rest].free /\ t[rest].next = h[b].next
    BY <2>1
  <2>3. FullyCoalesced(t)
    <3> SUFFICES ASSUME NEW x \in DOMAIN t, t[x].free PROVE ~ NextIsFree(t, x)
      BY DEF FullyCoalesced
    <3>1. CASE x = rest
      BY <3>1, <1>2, <2>1, <2>2 DEF FullyCoalesced, NextIsFree
    <3>2. CASE x # rest
      BY <3>2, <1>2, <2>1, <2>2 DEF FullyCoalesced, NextIsFree
    <3>3. QED
      BY <3>1, <3>2
  <2>4. QED
    BY <1>1, <1>4, <2>1, <2>2, <2>3 DEF t
<1>5. QED
  BY <1>3, <1>4

\* kmalloc preserves the invariant.
LEMMA KmallocHeapInv ==
  ASSUME HeapInv, NEW n \in Requests, Kmalloc(n)
  PROVE  HeapInv'
<1> DEFINE s == RoundUp(n)
           b == BestFit(block, s)
<1>1. s \in Nat /\ s >= n /\ n \in Nat
  BY RoundUpFits, HeapAssumption
<1>2. WellFormed(block) /\ FullyCoalesced(block) /\ Fitting(block, s) # {}
  BY HeapInvFacts DEF Kmalloc
<1>3. b \in DOMAIN block /\ block[b].free /\ s <= block[b].size
  BY <1>1, <1>2, BestFitExists
<1>4. block' = Take(block, b, s)
  BY DEF Kmalloc
<1>5. /\ held' = [p \in DOMAIN held \cup {b + HDR} |-> IF p = b + HDR THEN n ELSE held[p]]
      /\ memory_used' = memory_used + (IF Splits(block, b, s) THEN s ELSE block[b].size)
      /\ memory_peak' = IF memory_used' > memory_peak THEN memory_used' ELSE memory_peak
  BY DEF Kmalloc
<1> HIDE DEF b, s
<1>6. /\ WellFormed(block') /\ FullyCoalesced(block')
      /\ b \in DOMAIN block' /\ ~ block'[b].free
      /\ block'[b].size \in Nat /\ block'[b].size >= s
      /\ \A x \in DOMAIN block \ {b} : x \in DOMAIN block' /\ block'[x] = block[x]
      /\ \A x \in DOMAIN block' \ {b} : ~ block'[x].free => x \in DOMAIN block
  BY <1>1, <1>2, <1>3, <1>4, TakeFacts
<1>7. /\ DOMAIN held' = DOMAIN held \cup {b + HDR}
      /\ held'[b + HDR] = n
      /\ \A p \in DOMAIN held \ {b + HDR} : held'[p] = held[p]
  BY <1>5
<1>8. /\ b \in Nat /\ HDR \in Nat \ {0} /\ block[b].size \in Nat
      /\ b + HDR \in Address
  BY <1>2, <1>3, HeaderFields DEF Address, HeapEnd
<1>9. TypeOK'
  <2>1. held' \in [DOMAIN held' -> Nat] /\ DOMAIN held' \subseteq Address
    BY <1>1, <1>5, <1>7, <1>8 DEF HeapInv, TypeOK
  <2>2. memory_used' \in Nat /\ memory_peak' \in Nat
    BY <1>1, <1>5, <1>8 DEF HeapInv, TypeOK
  <2>3. QED
    BY <1>6, <2>1, <2>2 DEF TypeOK, WellFormed
<1>10. WellLinked' /\ Tiling' /\ Coalesced'
  BY <1>6 DEF WellLinked, Tiling, Coalesced, WellFormed, FullyCoalesced
<1>11. HeldIsAllocated'
  <2>1. ASSUME NEW p \in DOMAIN held'
        PROVE  /\ p - HDR \in DOMAIN block'
               /\ ~ block'[p - HDR].free
               /\ block'[p - HDR].size >= held'[p]
    <3>1. CASE p = b + HDR
      <4>1. p - HDR = b
        BY <3>1, <1>8
      <4>2. QED
        BY <3>1, <4>1, <1>1, <1>6, <1>7
    <3>2. CASE p # b + HDR
      <4>1. /\ p \in DOMAIN held /\ held'[p] = held[p]
            /\ p - HDR \in DOMAIN block /\ ~ block[p - HDR].free
            /\ block[p - HDR].size >= held[p]
        BY <3>2, <1>7 DEF HeapInv, HeldIsAllocated
      <4>2. p - HDR # b
        BY <4>1, <1>3
      <4>3. QED
        BY <4>1, <4>2, <1>6
    <3>3. QED
      BY <3>1, <3>2
  <2>2. ASSUME NEW x \in DOMAIN block', ~ block'[x].free
        PROVE  x + HDR \in DOMAIN held'
    <3>1. CASE x = b
      BY <3>1, <1>7
    <3>2. CASE x # b
      BY <3>2, <2>2, <1>6, <1>7 DEF HeapInv, HeldIsAllocated
    <3>3. QED
      BY <3>1, <3>2
  <2>3. QED
    BY <2>1, <2>2 DEF HeldIsAllocated
<1>12. QED
  BY <1>9, <1>10, <1>11 DEF HeapInv

\* kfree preserves the invariant.
LEMMA KfreeHeapInv ==
  ASSUME HeapInv, NEW p \in DOMAIN held, Kfree(p)
  PROVE  HeapInv'
<1> DEFINE b == p - HDR
<1>1. WellFormed(block) /\ FullyCoalesced(block)
  BY HeapInvFacts
<1>2. b \in DOMAIN block /\ ~ block[b].free /\ p \in Int /\ HDR \in Int
  BY HeapAssumption DEF HeapInv, TypeOK, HeldIsAllocated, Address, HeapEnd
<1>3. /\ block' = Release(block, b)
      /\ memory_used' = IF ~block[b].free /\ memory_used >= block[b].size
                        THEN memory_used - block[b].size ELSE memory_used
      /\ held' = [q \in DOMAIN held \ {p} |-> held[q]]
      /\ memory_peak' = memory_peak
  BY DEF Kfree
<1> HIDE DEF b
<1>4. WellFormed(block') /\ FullyCoalesced(block') /\ SameInUse(block, b, block')
  BY <1>1, <1>2, <1>3, ReleaseFacts
<1>5. /\ DOMAIN held' = DOMAIN held \ {p}
      /\ \A q \in DOMAIN held' : held'[q] = held[q]
  BY <1>3
<1>6. TypeOK'
  <2>1. held' \in [DOMAIN held' -> Nat] /\ DOMAIN held' \subseteq Address
    BY <1>3, <1>5 DEF HeapInv, TypeOK
  <2>2. block[b].size \in Nat
    BY <1>1, <1>2, HeaderFields
  <2>3. memory_used' \in Nat /\ memory_peak' \in Nat
    BY <1>3, <2>2 DEF HeapInv, TypeOK
  <2>4. QED
    BY <1>4, <2>1, <2>3 DEF TypeOK, WellFormed
<1>7. WellLinked' /\ Tiling' /\ Coalesced'
  BY <1>4 DEF WellLinked, Tiling, Coalesced, WellFormed, FullyCoalesced
<1>8. HeldIsAllocated'
  <2>1. ASSUME NEW q \in DOMAIN held'
        PROVE  /\ q - HDR \in DOMAIN block'
               /\ ~ block'[q - HDR].free
               /\ block'[q - HDR].size >= held'[q]
    <3>1. /\ q \in DOMAIN held /\ q # p /\ held'[q] = held[q]
          /\ q - HDR \in DOMAIN block /\ ~ block[q - HDR].free
          /\ block[q - HDR].size >= held[q]
      BY <1>5 DEF HeapInv, HeldIsAllocated
    <3>2. q - HDR # b
      BY <3>1, <1>2, HeapAssumption DEF b, HeapInv, TypeOK, Address, HeapEnd
    <3>3. QED
      BY <3>1, <3>2, <1>4 DEF SameInUse
  <2>2. ASSUME NEW x \in DOMAIN block', ~ block'[x].free
        PROVE  x + HDR \in DOMAIN held'
    <3>1. x \in DOMAIN block /\ x # b /\ ~ block[x].free
      BY <2>2, <1>4 DEF SameInUse
    <3>2. x + HDR \in DOMAIN held
      BY <3>1 DEF HeapInv, HeldIsAllocated
    <3>3. x \in Int
      BY <1>1, <3>1, HeaderFields
    <3>4. x + HDR # p
      BY <3>1, <3>3, <1>2 DEF b
    <3>5. QED
      BY <3>2, <3>4, <1>5
  <2>3. QED
    BY <2>1, <2>2 DEF HeldIsAllocated
<1>9. QED
  BY <1>6, <1>7, <1>8 DEF HeapInv

\* A step that changes nothing preserves the invariant.
LEMMA StutterHeapInv == HeapInv /\ UNCHANGED vars => HeapInv'
  BY DEF HeapInv, vars, TypeOK, WellLinked, Tiling, Coalesced, HeldIsAllocated,
         IsHeap, Linked, Tiled, NextIsFree

\* The heap of lib/memory.c is at all times a well-linked, fully coalesced
\* tiling whose blocks in use are those callers hold, whatever they ask for.
THEOREM HeapInvariant == Spec => []HeapInv
<1>1. Init => HeapInv
  BY InitHeapInv
<1>2. HeapInv /\ [Next]_vars => HeapInv'
  <2> SUFFICES ASSUME HeapInv, [Next]_vars PROVE HeapInv'
    OBVIOUS
  <2>1. CASE \E n \in Requests : Kmalloc(n)
    BY <2>1, KmallocHeapInv
  <2>2. CASE \E n \in Requests : KmallocFails(n)
    BY <2>2, StutterHeapInv DEF KmallocFails
  <2>3. CASE \E p \in DOMAIN held : Kfree(p)
    BY <2>3, KfreeHeapInv
  <2>4. CASE UNCHANGED vars
    BY <2>4, StutterHeapInv
  <2>5. QED
    BY <2>1, <2>2, <2>3, <2>4 DEF Next
<1>3. QED
  BY <1>1, <1>2, PTL DEF Spec

\* Type correctness of the heap's variables.
THEOREM HeapTypeOK == Spec => []TypeOK
<1>1. HeapInv => TypeOK
  BY DEF HeapInv
<1>2. QED
  BY <1>1, HeapInvariant, PTL

\* What callers of kmalloc hold never overlaps, nor any header.
THEOREM HeapPayloadsDisjoint == Spec => []PayloadsDisjoint
<1>1. HeapInv => PayloadsDisjoint
  <2> SUFFICES ASSUME HeapInv, NEW p \in DOMAIN held
               PROVE  /\ p + held[p] <= HeapEnd
                      /\ \A b \in DOMAIN block : b + HDR <= p \/ p + held[p] <= b
                      /\ \A q \in DOMAIN held \ {p} :
                           p + held[p] <= q \/ q + held[q] <= p
    BY DEF PayloadsDisjoint
  <2>1. WellFormed(block)
    BY HeapInvFacts
  <2>2. HDR \in Nat \ {0} /\ HeapEnd \in Nat
    BY HeapAssumption DEF HeapEnd
  <2>3. \A q \in DOMAIN held :
          /\ q \in Int /\ held[q] \in Nat
          /\ q - HDR \in DOMAIN block /\ block[q - HDR].size >= held[q]
    BY <2>2 DEF HeapInv, TypeOK, HeldIsAllocated, Address
  <2>4. \A x \in DOMAIN block :
          x \in Nat /\ block[x].size \in Nat /\ x + HDR + block[x].size <= HeapEnd
    BY <2>1, HeaderFields
  <2>5. \A x, y \in DOMAIN block : y <= x \/ y >= x + HDR + block[x].size
    BY <2>1 DEF WellFormed, Tiled
  <2>6. p + held[p] <= HeapEnd
    BY <2>2, <2>3, <2>4
  <2>7. \A b \in DOMAIN block : b + HDR <= p \/ p + held[p] <= b
    BY <2>2, <2>3, <2>4, <2>5
  <2>8. ASSUME NEW q \in DOMAIN held, q # p
        PROVE  p + held[p] <= q \/ q + held[q] <= p
    <3>1. CASE p < q
      BY <3>1, <2>2, <2>3, <2>4, <2>5
    <3>2. CASE q < p
      BY <3>2, <2>2, <2>3, <2>4, <2>5
    <3>3. QED
      BY <3>1, <3>2, <2>3, <2>8
  <2>9. QED
    BY <2>6, <2>7, <2>8
<1>2. QED
  BY <1>1, HeapInvariant, PTL

\* With nothing held the heap is the block that memory_init made.
THEOREM HeapAllFreeIsPristine == Spec => []AllFreeIsPristine
<1>1. HeapInv => AllFreeIsPristine
  <2> SUFFICES ASSUME HeapInv, DOMAIN held = {} PROVE block = InitialHeap
    BY DEF AllFreeIsPristine
  <2>1. WellFormed(block) /\ FullyCoalesced(block)
    BY HeapInvFacts
  <2>2. \A b \in DOMAIN block : block[b].free
    BY DEF HeapInv, HeldIsAllocated
  <2>3. \A b \in DOMAIN block : block[b].next = NULL
    BY <2>1, <2>2, HeaderFields DEF FullyCoalesced, NextIsFree
  <2>4. DOMAIN block = {HEAP_START}
    <3>1. ASSUME NEW b \in DOMAIN block, b # HEAP_START PROVE FALSE
      BY <2>1, <2>3, <3>1, HeaderFields DEF WellFormed, Linked
    <3>2. QED
      BY <2>1, <3>1 DEF WellFormed, Linked
  <2>5. block[HEAP_START].size = HEAP_SIZE - HDR
    <3>1. HEAP_START \in DOMAIN block /\ block[HEAP_START].next = NULL
      BY <2>3, <2>4
    <3>2. HeapEnd = HEAP_START + HDR + block[HEAP_START].size /\ block[HEAP_START].size \in Nat
      BY <2>1, <3>1, HeaderFields
    <3>3. QED
      BY <3>2, HeapAssumption DEF HeapEnd
  <2>6. block[HEAP_START] \in Header
    BY <2>1, <2>4, HeaderFields
  <2>7. block[HEAP_START] = [size |-> HEAP_SIZE - HDR, free |-> TRUE, next |-> NULL]
    BY <2>2, <2>3, <2>4, <2>5, <2>6 DEF Header
  <2>8. QED
    BY <2>1, <2>4, <2>7 DEF InitialHeap, WellFormed, IsHeap
<1>2. QED
  BY <1>1, HeapInvariant, PTL

\* In a well-formed, coalesced heap, giving back the block that kmalloc has
\* just taken restores every header.
LEMMA ReleaseAfterTake ==
  ASSUME NEW h, WellFormed(h), FullyCoalesced(h),
         NEW b \in DOMAIN h, h[b].free, NEW s \in Nat, s <= h[b].size
  PROVE  Release(Take(h, b, s), b) = h
<1> DEFINE t == Take(h, b, s)
           f == SetFree(t, b, TRUE)
<1>1. WellFormed(t) /\ b \in DOMAIN t
  BY TakeFacts
<1>2. h = [x \in DOMAIN h |-> h[x]] /\ h[b] \in Header /\ h[b].size \in Nat
  BY HeaderFields DEF WellFormed, IsHeap
<1>3. h[b] = [size |-> h[b].size, free |-> TRUE, next |-> h[b].next]
  BY <1>2 DEF Header
<1>4. /\ DOMAIN f = DOMAIN t /\ f = [x \in DOMAIN f |-> f[x]]
      /\ f[b] = [size |-> t[b].size, free |-> TRUE, next |-> t[b].next]
      /\ \A x \in DOMAIN t \ {b} : f[x] = t[x]
  BY <1>1, SetFreeFields
\* b was free and has no free neighbour before it.
<1>5. MergeBack(h, b) = h
  <2>1. FreePrevious(h, b) = {}
    BY HeaderFields DEF FreePrevious, FullyCoalesced, NextIsFree
  <2>2. QED
    BY <2>1 DEF MergeBack
<1>6. ReleaseForward(t, b) = IF NextIsFree(f, b) THEN Absorb(f, b) ELSE f
  BY DEF ReleaseForward
<1>7. ReleaseForward(t, b) = h
  <2>1. CASE ~ Splits(h, b, s)
    <3>1. /\ DOMAIN t = DOMAIN h
          /\ t[b] = [size |-> h[b].size, free |-> FALSE, next |-> h[b].next]
          /\ \A x \in DOMAIN h \ {b} : t[x] = h[x]
      BY <2>1, SetFreeFields DEF Take
    <3> HIDE DEF t, f
    <3>2. f[b] = h[b]
      BY <1>3, <1>4, <3>1
    <3>3. f = h
      BY <1>2, <1>4, <3>1, <3>2
    <3>4. ~ NextIsFree(h, b)
      BY DEF FullyCoalesced
    <3>5. QED
      BY <1>6, <3>3, <3>4
  <2>2. CASE Splits(h, b, s)
    <3> DEFINE rest == b + HDR + s
    <3>1. /\ rest \notin DOMAIN h /\ rest # NULL
          /\ DOMAIN t = DOMAIN h \cup {rest}
          /\ t[b] = [size |-> s, free |-> FALSE, next |-> rest]
          /\ t[rest] = [size |-> h[b].size - s - HDR, free |-> TRUE, next |-> h[b].next]
          /\ \A x \in DOMAIN h \ {b} : t[x] = h[x]
      BY <2>2, TakeSplit
    <3>2. HDR \in Nat
      BY HeapAssumption
    <3> HIDE DEF t, f, rest
    <3>3. f[b].next = rest /\ f[b].size = s /\ f[b].free
      BY <1>4, <3>1
    <3>4. f[rest].free /\ f[rest].size = h[b].size - s - HDR /\ f[rest].next = h[b].next
      BY <1>4, <3>1
    <3>5. NextIsFree(f, b)
      BY <3>1, <3>3, <3>4 DEF NextIsFree
    <3>6. Absorb(f, b) = [x \in DOMAIN f \ {rest} |->
                            IF x = b
                            THEN [size |-> s + HDR + (h[b].size - s - HDR), free |-> TRUE,
                                  next |-> h[b].next]
                            ELSE f[x]]
      BY <1>4, <3>1, <3>3, <3>4 DEF Absorb
    <3>7. s + HDR + (h[b].size - s - HDR) = h[b].size
      BY <1>2, <3>2
    <3>8. Absorb(f, b) = h
      <4>1. DOMAIN f \ {rest} = DOMAIN h
        BY <1>4, <3>1
      <4>2. \A x \in DOMAIN h \ {b} : f[x] = h[x]
        BY <1>4, <3>1
      <4>3. QED
        BY <1>2, <1>3, <3>6, <3>7, <4>1, <4>2
    <3>9. QED
      BY <1>6, <3>5, <3>8
  <2>3. QED
    BY <2>1, <2>2
<1>8. QED
  BY <1>5, <1>7 DEF Release

\* kfree undoes kmalloc in every reachable heap, for every request.
THEOREM HeapFreeUndoesMalloc == Spec => []FreeUndoesMalloc
<1>1. HeapInv => FreeUndoesMalloc
  <2> SUFFICES ASSUME HeapInv, NEW n \in Requests, Fitting(block, RoundUp(n)) # {}
               PROVE  Release(Take(block, BestFit(block, RoundUp(n)), RoundUp(n)),
                              BestFit(block, RoundUp(n))) = block
    BY DEF FreeUndoesMalloc
  <2> DEFINE s == RoundUp(n)
             b == BestFit(block, s)
  <2>1. WellFormed(block) /\ FullyCoalesced(block) /\ s \in Nat
    BY HeapInvFacts, RoundUpFits
  <2> HIDE DEF s
  <2>2. b \in DOMAIN block /\ block[b].free /\ s <= block[b].size
    BY <2>1, BestFitExists DEF s
  <2> HIDE DEF b
  <2>3. Release(Take(block, b, s), b) = block
    BY <2>1, <2>2, ReleaseAfterTake
  <2>4. QED
    BY <2>3 DEF b, s
<1>2. QED
  BY <1>1, HeapInvariant, PTL

\* Allocating and freeing by others leaves a caller's block where it is.
THEOREM HeapHeldIsStable == Spec => HeldIsStable
<1> DEFINE Stable ==
      \A p \in DOMAIN held \cap DOMAIN held' :
        p - HDR \in DOMAIN block' /\ block'[p - HDR].size = block[p - HDR].size
<1>1. HeapInv /\ [Next]_vars => [Stable]_vars
  <2> SUFFICES ASSUME HeapInv, Next, NEW p \in DOMAIN held \cap DOMAIN held'
               PROVE  p - HDR \in DOMAIN block' /\ block'[p - HDR].size = block[p - HDR].size
    OBVIOUS
  <2>1. /\ WellFormed(block) /\ FullyCoalesced(block)
        /\ p - HDR \in DOMAIN block /\ ~ block[p - HDR].free
    BY HeapInvFacts DEF HeapInv, HeldIsAllocated
  <2>2. CASE \E n \in Requests : Kmalloc(n)
    <3>1. PICK n \in Requests : Kmalloc(n)
      BY <2>2
    <3> DEFINE s == RoundUp(n)
               b == BestFit(block, s)
    <3>2. s \in Nat /\ Fitting(block, s) # {} /\ block' = Take(block, b, s)
      BY <3>1, RoundUpFits DEF Kmalloc
    <3>3. b \in DOMAIN block /\ block[b].free /\ s <= block[b].size
      BY <2>1, <3>2, BestFitExists
    <3> HIDE DEF b, s
    <3>4. \A x \in DOMAIN block \ {b} : x \in DOMAIN block' /\ block'[x] = block[x]
      BY <2>1, <3>2, <3>3, TakeFacts
    <3>5. QED
      BY <2>1, <3>3, <3>4
  <2>3. CASE \E n \in Requests : KmallocFails(n)
    BY <2>1, <2>3 DEF KmallocFails, vars
  <2>4. CASE \E q \in DOMAIN held : Kfree(q)
    <3>1. PICK q \in DOMAIN held : Kfree(q)
      BY <2>4
    <3>2. q # p /\ block' = Release(block, q - HDR)
      BY <3>1 DEF Kfree
    <3>3. q - HDR \in DOMAIN block
      BY <3>1 DEF HeapInv, HeldIsAllocated
    <3>4. SameInUse(block, q - HDR, block')
      BY <2>1, <3>2, <3>3, ReleaseFacts
    <3>5. p - HDR # q - HDR
      BY <3>1, <3>2, HeapAssumption DEF HeapInv, TypeOK, Address, HeapEnd
    <3>6. QED
      BY <2>1, <3>4, <3>5 DEF SameInUse
  <2>5. QED
    BY <2>2, <2>3, <2>4 DEF Next
<1>2. Spec => [][Stable]_vars
  BY <1>1, HeapInvariant, PTL DEF Spec
<1>3. QED
  BY <1>2 DEF HeldIsStable

(***************************************************************************)
(* The sum of the sizes of the blocks in use.  The fold that adds them up  *)
(* takes them in an order of its own; the lemmas show that it is a sum.    *)
(***************************************************************************)
First(s) == CHOOSE x \in s : TRUE

\* The sum over s, given the sums g over sets with one element less.
SumStep(g, h, s) == IF s = {} THEN 0 ELSE h[First(s)].size + g[s \ {First(s)}]

\* g adds up, for the subsets of S, the sizes that the heap h gives its blocks.
AddsUp(g, h, S) == g = [s \in SUBSET S |-> SumStep(g, h, s)]

SizesAreNat(h, S) == \A x \in S : h[x].size \in Nat

SumOf(h, S) == MapThenSumSet(LAMBDA b : h[b].size, S)

LEMMA SumIs ==
  ASSUME NEW h, NEW S
  PROVE  SumOf(h, S) = (CHOOSE g : AddsUp(g, h, S))[S]
BY Zenon DEF SumOf, MapThenSumSet, MapThenFoldSet, AddsUp, SumStep, First

LEMMA OneLess ==
  ASSUME NEW S, IsFiniteSet(S), NEW s \in SUBSET S, s # {}
  PROVE  /\ First(s) \in s /\ s \ {First(s)} \in SUBSET S
         /\ Cardinality(s) \in Nat \ {0} /\ Cardinality(s \ {First(s)}) = Cardinality(s) - 1
<1>1. First(s) \in s
  BY DEF First
<1>2. IsFiniteSet(s) /\ Cardinality(s) \in Nat
  BY FS_Subset, FS_CardinalityType
<1>3. Cardinality(s) # 0
  BY <1>2, FS_EmptySet
<1>4. Cardinality(s \ {First(s)}) = Cardinality(s) - 1
  BY <1>1, <1>2, FS_RemoveElement
<1>5. QED
  BY <1>1, <1>2, <1>3, <1>4

\* The recursion of the fold has a solution: the sums over sets of at most m
\* blocks give those over sets of at most m + 1.
LEMMA AddsUpExists ==
  ASSUME NEW h, NEW S, IsFiniteSet(S)
  PROVE  \E g : AddsUp(g, h, S)
<1> DEFINE Small(n) == {s \in SUBSET S : Cardinality(s) <= n}
           UpTo(n, g) == g = [s \in Small(n) |-> SumStep(g, h, s)]
           Bad == {n \in Nat : ~ \E g : UpTo(n, g)}
<1>1. ASSUME Bad # {}
      PROVE  FALSE
  <2>1. Bad \in SUBSET Nat
    OBVIOUS
  <2>2. PICK m \in Bad : \A k \in Bad : m <= k
    <3> HIDE DEF Bad
    <3>1. QED
      BY <1>1, <2>1, LeastNat
  <2>3. m \in Nat /\ ~ \E g : UpTo(m, g)
    BY <2>2
  <2>4. CASE m = 0
    <3> DEFINE g == [s \in Small(0) |-> 0]
    <3>1. \A s \in Small(0) : s = {}
      <4>1. ASSUME NEW s \in Small(0), s # {}
            PROVE  FALSE
        <5>1. s \in SUBSET S /\ Cardinality(s) <= 0
          OBVIOUS
        <5>2. Cardinality(s) \in Nat \ {0}
          BY <4>1, <5>1, OneLess
        <5>3. QED
          BY <5>1, <5>2
      <4>2. QED
        BY <4>1
    <3> HIDE DEF Small
    <3>2. UpTo(0, g)
      BY <3>1 DEF SumStep
    <3>3. QED
      BY <2>3, <2>4, <3>2
  <2>5. CASE m # 0
    <3>1. m - 1 \in Nat /\ ~ (m <= m - 1)
      BY <2>3, <2>5
    <3>2. m - 1 \notin Bad
      BY <2>2, <3>1
    <3>3. PICK f : UpTo(m - 1, f)
      BY <3>1, <3>2
    <3> DEFINE g == [s \in Small(m) |-> SumStep(f, h, s)]
    <3>4. ASSUME NEW s \in Small(m), s # {}
          PROVE  s \ {First(s)} \in Small(m - 1) /\ s \ {First(s)} \in Small(m)
      <4>1. s \in SUBSET S /\ Cardinality(s) <= m
        OBVIOUS
      <4>2. /\ s \ {First(s)} \in SUBSET S /\ Cardinality(s) \in Nat
            /\ Cardinality(s \ {First(s)}) = Cardinality(s) - 1
        BY <3>4, <4>1, OneLess
      <4>3. Cardinality(s \ {First(s)}) <= m - 1 /\ Cardinality(s \ {First(s)}) <= m
        BY <2>3, <4>1, <4>2
      <4>4. QED
        BY <4>2, <4>3
    <3> HIDE DEF Small, Bad
    <3>5. ASSUME NEW t \in Small(m), t \in Small(m - 1)
          PROVE  g[t] = f[t]
      BY <3>3, <3>5
    <3>6. ASSUME NEW s \in Small(m)
          PROVE  g[s] = SumStep(g, h, s)
      <4>1. CASE s = {}
        BY <4>1 DEF SumStep
      <4>2. CASE s # {}
        <5>1. g[s \ {First(s)}] = f[s \ {First(s)}]
          BY <3>4, <3>5, <4>2
        <5>2. g[s] = SumStep(f, h, s)
          OBVIOUS
        <5> HIDE DEF g
        <5>3. QED
          BY <4>2, <5>1, <5>2 DEF SumStep
      <4>3. QED
        BY <4>1, <4>2
    <3>7. g = [s \in Small(m) |-> g[s]]
      OBVIOUS
    <3> HIDE DEF g
    <3>8. UpTo(m, g)
      BY <3>6, <3>7
    <3>9. QED
      BY <2>3, <3>8
  <2>6. QED
    BY <2>4, <2>5
<1>2. Cardinality(S) \in Nat
  BY FS_CardinalityType
<1>3. \E g : UpTo(Cardinality(S), g)
  BY <1>1, <1>2
<1>4. Small(Cardinality(S)) = SUBSET S
  BY FS_Subset
<1> HIDE DEF Small
<1>5. QED
  BY <1>3, <1>4 DEF AddsUp

\* Sums agree where the sizes do, whatever the sets they were folded over.
LEMMA SumsAgree ==
  ASSUME NEW A, IsFiniteSet(A), NEW B, NEW h, NEW i, NEW f, NEW g,
         AddsUp(f, h, A), AddsUp(g, i, B),
         NEW S \in SUBSET A, S \in SUBSET B, \A x \in S : h[x].size = i[x].size
  PROVE  f[S] = g[S]
<1> DEFINE Bad == {n \in Nat : \E s \in SUBSET S : Cardinality(s) = n /\ f[s] # g[s]}
<1>1. ASSUME Bad # {}
      PROVE  FALSE
  <2>1. Bad \in SUBSET Nat
    OBVIOUS
  <2>2. PICK m \in Bad : \A k \in Bad : m <= k
    <3> HIDE DEF Bad
    <3>1. QED
      BY <1>1, <2>1, LeastNat
  <2>3. PICK s \in SUBSET S : Cardinality(s) = m /\ f[s] # g[s] /\ m \in Nat
    BY <2>2
  <2>4. f[s] = SumStep(f, h, s) /\ g[s] = SumStep(g, i, s)
    BY <2>3 DEF AddsUp
  <2>5. s # {}
    BY <2>3, <2>4 DEF SumStep
  <2> DEFINE t == s \ {First(s)}
  <2>6. First(s) \in S /\ t \in SUBSET S /\ Cardinality(t) = m - 1 /\ m - 1 \in Nat
    <3>1. IsFiniteSet(S)
      BY FS_Subset
    <3>2. QED
      BY <2>3, <2>5, <3>1, OneLess
  <2> HIDE DEF t
  <2>7. m - 1 \notin Bad
    <3> HIDE DEF Bad
    <3>1. ~ (m <= m - 1)
      BY <2>3
    <3>2. QED
      BY <2>2, <3>1
  <2>8. f[t] = g[t]
    BY <2>6, <2>7
  <2>9. QED
    BY <2>3, <2>4, <2>5, <2>6, <2>8 DEF SumStep, t
<1>2. IsFiniteSet(S) /\ Cardinality(S) \in Nat
  BY FS_Subset, FS_CardinalityType
<1>3. QED
  BY <1>1, <1>2

LEMMA SumOfIs ==
  ASSUME NEW A, IsFiniteSet(A), NEW h, NEW g, AddsUp(g, h, A), NEW S \in SUBSET A
  PROVE  SumOf(h, S) = g[S]
<1> DEFINE f == CHOOSE f : AddsUp(f, h, S)
<1>1. IsFiniteSet(S)
  BY FS_Subset
<1>2. AddsUp(f, h, S)
  BY <1>1, AddsUpExists
<1>3. SumOf(h, S) = f[S]
  BY SumIs
<1> HIDE DEF f
<1>4. f[S] = g[S]
  BY <1>1, <1>2, SumsAgree
<1>5. QED
  BY <1>3, <1>4

\* A sum of natural numbers is one.
LEMMA SumIsNat ==
  ASSUME NEW S, IsFiniteSet(S), NEW h, NEW g, AddsUp(g, h, S), SizesAreNat(h, S),
         NEW s \in SUBSET S
  PROVE  g[s] \in Nat
<1> DEFINE Bad == {n \in Nat : \E r \in SUBSET S : Cardinality(r) = n /\ g[r] \notin Nat}
<1>1. ASSUME Bad # {}
      PROVE  FALSE
  <2>1. Bad \in SUBSET Nat
    OBVIOUS
  <2>2. PICK m \in Bad : \A k \in Bad : m <= k
    <3> HIDE DEF Bad
    <3>1. QED
      BY <1>1, <2>1, LeastNat
  <2>3. PICK r \in SUBSET S : Cardinality(r) = m /\ g[r] \notin Nat /\ m \in Nat
    BY <2>2
  <2>4. g[r] = SumStep(g, h, r)
    BY <2>3 DEF AddsUp
  <2>5. r # {}
    BY <2>3, <2>4 DEF SumStep
  <2> DEFINE t == r \ {First(r)}
  <2>6. First(r) \in S /\ t \in SUBSET S /\ Cardinality(t) = m - 1 /\ m - 1 \in Nat
    BY <2>3, <2>5, OneLess
  <2> HIDE DEF t
  <2>7. m - 1 \notin Bad
    <3> HIDE DEF Bad
    <3>1. ~ (m <= m - 1)
      BY <2>3
    <3>2. QED
      BY <2>2, <3>1
  <2>8. g[t] \in Nat /\ h[First(r)].size \in Nat
    BY <2>6, <2>7 DEF SizesAreNat
  <2>9. QED
    BY <2>3, <2>4, <2>5, <2>8 DEF SumStep, t
<1>2. IsFiniteSet(s) /\ Cardinality(s) \in Nat
  BY FS_Subset, FS_CardinalityType
<1>3. QED
  BY <1>1, <1>2

\* One more block adds its size, whichever block the fold takes first.
LEMMA SumGrows ==
  ASSUME NEW S, IsFiniteSet(S), NEW h, NEW g, AddsUp(g, h, S), SizesAreNat(h, S),
         NEW s \in SUBSET S, NEW x \in S, x \notin s
  PROVE  g[s \cup {x}] = h[x].size + g[s]
<1> DEFINE Grows(r, y) == g[r \cup {y}] = h[y].size + g[r]
           Bad == {n \in Nat : \E r \in SUBSET S, y \in S :
                                 Cardinality(r) = n /\ y \notin r /\ ~ Grows(r, y)}
<1>1. ASSUME Bad # {}
      PROVE  FALSE
  <2>1. Bad \in SUBSET Nat
    OBVIOUS
  <2>2. PICK m \in Bad : \A k \in Bad : m <= k
    <3> HIDE DEF Bad
    <3>1. QED
      BY <1>1, <2>1, LeastNat
  <2>3. PICK r \in SUBSET S, y \in S : Cardinality(r) = m /\ y \notin r /\ ~ Grows(r, y) /\ m \in Nat
    BY <2>2
  <2> DEFINE all == r \cup {y}
             c == First(all)
             t == r \ {c}
  <2>4. all \in SUBSET S /\ all # {} /\ c \in all
    BY DEF First
  <2>5. g[all] = h[c].size + g[all \ {c}]
    <3>1. g[all] = SumStep(g, h, all)
      BY <2>4 DEF AddsUp
    <3>2. QED
      BY <2>4, <3>1 DEF SumStep
  <2> HIDE DEF c
  <2>6. CASE c = y
    <3>1. all \ {c} = r
      BY <2>3, <2>6
    <3>2. QED
      BY <2>3, <2>5, <2>6, <3>1
  <2>7. CASE c # y
    <3>1. /\ c \in r /\ all \ {c} = t \cup {y} /\ r = t \cup {c} /\ t \in SUBSET S
          /\ c \notin t /\ y \notin t /\ c \in S
      BY <2>3, <2>4, <2>7
    <3>2. IsFiniteSet(r)
      BY FS_Subset
    <3>3. Cardinality(t) = m - 1 /\ m - 1 \in Nat
      <4>1. Cardinality(t) = m - 1
        BY <2>3, <3>1, <3>2, FS_RemoveElement
      <4>2. Cardinality(t) \in Nat
        BY <3>2, FS_RemoveElement, FS_CardinalityType
      <4>3. QED
        BY <4>1, <4>2
    <3>4. m - 1 \notin Bad
      <4> HIDE DEF Bad
      <4>1. ~ (m <= m - 1)
        BY <2>3
      <4>2. QED
        BY <2>2, <4>1
    <3> HIDE DEF t, all
    <3>5. g[t \cup {y}] = h[y].size + g[t] /\ g[t \cup {c}] = h[c].size + g[t]
      BY <3>1, <3>3, <3>4
    <3>6. g[t] \in Nat /\ h[y].size \in Nat /\ h[c].size \in Nat
      BY <3>1, SumIsNat DEF SizesAreNat
    <3>7. g[all] = h[y].size + g[r]
      <4>1. g[all] = h[c].size + g[t \cup {y}] /\ g[r] = h[c].size + g[t]
        BY <2>5, <3>1, <3>5
      <4>2. QED
        BY <3>5, <3>6, <4>1
    <3>8. QED
      BY <2>3, <3>7 DEF all
  <2>8. QED
    BY <2>6, <2>7
<1>2. IsFiniteSet(s) /\ Cardinality(s) \in Nat
  BY FS_Subset, FS_CardinalityType
<1>3. QED
  BY <1>1, <1>2

\* What the fold over a set of blocks of the heap computes.
LEMMA SumOfEmpty ==
  ASSUME NEW h
  PROVE  SumOf(h, {}) = 0
<1>1. PICK g : AddsUp(g, h, {})
  BY AddsUpExists, FS_EmptySet
<1>2. g[{}] = SumStep(g, h, {})
  BY <1>1 DEF AddsUp
<1>3. SumOf(h, {}) = g[{}]
  BY <1>1, SumOfIs, FS_EmptySet
<1>4. QED
  BY <1>2, <1>3 DEF SumStep

LEMMA SumOfMore ==
  ASSUME NEW S, IsFiniteSet(S), NEW h, NEW x, x \notin S, \A y \in S \cup {x} : h[y].size \in Nat
  PROVE  SumOf(h, S \cup {x}) = h[x].size + SumOf(h, S) /\ SumOf(h, S) \in Nat
<1> DEFINE A == S \cup {x}
<1>1. IsFiniteSet(A) /\ S \in SUBSET A /\ x \in A /\ A \in SUBSET A
  BY FS_AddElement
<1>2. SizesAreNat(h, A)
  BY DEF SizesAreNat
<1>3. PICK g : AddsUp(g, h, A)
  BY <1>1, AddsUpExists
<1> HIDE DEF A
<1>4. SumOf(h, A) = g[A] /\ SumOf(h, S) = g[S]
  BY <1>1, <1>3, SumOfIs
<1>5. g[S \cup {x}] = h[x].size + g[S]
  BY <1>1, <1>2, <1>3, SumGrows
<1>6. g[S] \in Nat
  BY <1>1, <1>2, <1>3, SumIsNat
<1>7. QED
  BY <1>4, <1>5, <1>6 DEF A

LEMMA SumOfSame ==
  ASSUME NEW S, IsFiniteSet(S), NEW h, NEW i, \A x \in S : h[x].size = i[x].size
  PROVE  SumOf(h, S) = SumOf(i, S)
<1>1. PICK f : AddsUp(f, h, S)
  BY AddsUpExists
<1>2. PICK g : AddsUp(g, i, S)
  BY AddsUpExists
<1>3. S \in SUBSET S
  OBVIOUS
<1>4. f[S] = g[S]
  BY <1>1, <1>2, <1>3, SumsAgree
<1>5. QED
  BY <1>1, <1>2, <1>3, <1>4, SumOfIs

(***************************************************************************)
(* What kmalloc adds to memory_used kfree takes off again.                 *)
(***************************************************************************)
InUse(h) == {b \in DOMAIN h : ~ h[b].free}

LEMMA UsedIsSum ==
  UsedIsExact <=> memory_used = SumOf(block, InUse(block))
BY Zenon DEF UsedIsExact, SumOf, InUse

LEMMA InUseFacts ==
  ASSUME NEW h, IsHeap(h)
  PROVE  IsFiniteSet(InUse(h)) /\ SizesAreNat(h, InUse(h))
<1>1. IsFiniteSet(Address)
  BY HeapAssumption, FS_Interval DEF Address, HeapEnd
<1>2. InUse(h) \in SUBSET Address
  BY DEF InUse, IsHeap
<1>3. SizesAreNat(h, InUse(h))
  BY DEF InUse, SizesAreNat, IsHeap, Header
<1>4. QED
  BY <1>1, <1>2, <1>3, FS_Subset

LEMMA InitUsed ==
  ASSUME Init
  PROVE  UsedIsExact
<1>1. InUse(block) = {}
  BY DEF Init, InitialHeap, InUse
<1>2. QED
  BY <1>1, UsedIsSum, SumOfEmpty DEF Init

\* A heap in which block b, and nothing else, has been put in use.
LEMMA OneMoreInUse ==
  ASSUME NEW h, NEW g, IsHeap(h), IsHeap(g), NEW b \in InUse(g), b \notin InUse(h),
         InUse(g) = InUse(h) \cup {b}, \A x \in InUse(h) : h[x].size = g[x].size
  PROVE  /\ SumOf(g, InUse(g)) = g[b].size + SumOf(h, InUse(h))
         /\ g[b].size \in Nat /\ SumOf(h, InUse(h)) \in Nat
<1>1. IsFiniteSet(InUse(h)) /\ SizesAreNat(g, InUse(g))
  BY InUseFacts
<1>2. \A x \in InUse(h) \cup {b} : g[x].size \in Nat
  BY <1>1 DEF SizesAreNat
<1>3. SumOf(g, InUse(h) \cup {b}) = g[b].size + SumOf(g, InUse(h)) /\ SumOf(g, InUse(h)) \in Nat
  BY <1>1, <1>2, SumOfMore
<1>4. SumOf(h, InUse(h)) = SumOf(g, InUse(h))
  BY <1>1, SumOfSame
<1>5. QED
  BY <1>2, <1>3, <1>4

LEMMA KmallocUsed ==
  ASSUME HeapInv, HeapInv', UsedIsExact, NEW n \in Requests, Kmalloc(n)
  PROVE  UsedIsExact'
<1> DEFINE s == RoundUp(n)
           b == BestFit(block, s)
<1>1. s \in Nat
  BY RoundUpFits
<1>2. WellFormed(block) /\ FullyCoalesced(block) /\ Fitting(block, s) # {}
  BY HeapInvFacts DEF Kmalloc
<1>3. b \in DOMAIN block /\ block[b].free /\ s <= block[b].size
  BY <1>1, <1>2, BestFitExists
<1>4. /\ block' = Take(block, b, s)
      /\ memory_used' = memory_used + (IF Splits(block, b, s) THEN s ELSE block[b].size)
  BY DEF Kmalloc
<1> HIDE DEF b, s
<1>5. /\ b \in DOMAIN block' /\ ~ block'[b].free
      /\ block'[b].size = IF Splits(block, b, s) THEN s ELSE block[b].size
      /\ \A x \in DOMAIN block \ {b} : x \in DOMAIN block' /\ block'[x] = block[x]
      /\ \A x \in DOMAIN block' \ {b} : ~ block'[x].free => x \in DOMAIN block
  BY <1>1, <1>2, <1>3, <1>4, TakeFacts
<1>6. /\ b \in InUse(block') /\ b \notin InUse(block)
      /\ InUse(block') = InUse(block) \cup {b}
      /\ \A x \in InUse(block) : block[x].size = block'[x].size
  BY <1>3, <1>5 DEF InUse
<1>7. IsHeap(block) /\ IsHeap(block')
  BY DEF HeapInv, TypeOK
<1>8. /\ SumOf(block', InUse(block')) = block'[b].size + SumOf(block, InUse(block))
      /\ block'[b].size \in Nat /\ SumOf(block, InUse(block)) \in Nat
  BY <1>6, <1>7, OneMoreInUse
<1>9. memory_used = SumOf(block, InUse(block))
  BY UsedIsSum
<1>10. memory_used' = SumOf(block', InUse(block'))
  BY <1>4, <1>5, <1>8, <1>9
<1>11. QED
  BY <1>10, Zenon DEF UsedIsExact, SumOf, InUse, MapThenSumSet, MapThenFoldSet

LEMMA KfreeUsed ==
  ASSUME HeapInv, HeapInv', UsedIsExact, NEW p \in DOMAIN held, Kfree(p)
  PROVE  UsedIsExact'
<1> DEFINE b == p - HDR
<1>1. WellFormed(block) /\ FullyCoalesced(block)
  BY HeapInvFacts
<1>2. b \in DOMAIN block /\ ~ block[b].free
  BY DEF HeapInv, HeldIsAllocated
<1>3. /\ block' = Release(block, b)
      /\ memory_used' = IF ~block[b].free /\ memory_used >= block[b].size
                        THEN memory_used - block[b].size ELSE memory_used
  BY DEF Kfree
<1> HIDE DEF b
<1>4. SameInUse(block, b, block')
  BY <1>1, <1>2, <1>3, ReleaseFacts
<1>5. /\ b \in InUse(block) /\ b \notin InUse(block')
      /\ InUse(block) = InUse(block') \cup {b}
      /\ \A x \in InUse(block') : block'[x].size = block[x].size
  BY <1>2, <1>4 DEF InUse, SameInUse
<1>6. IsHeap(block) /\ IsHeap(block')
  BY DEF HeapInv, TypeOK
<1>7. /\ SumOf(block, InUse(block)) = block[b].size + SumOf(block', InUse(block'))
      /\ block[b].size \in Nat /\ SumOf(block', InUse(block')) \in Nat
  BY <1>5, <1>6, OneMoreInUse
<1>8. memory_used = SumOf(block, InUse(block))
  BY UsedIsSum
<1>9. memory_used' = SumOf(block', InUse(block'))
  BY <1>2, <1>3, <1>7, <1>8
<1>10. QED
  BY <1>9, Zenon DEF UsedIsExact, SumOf, InUse, MapThenSumSet, MapThenFoldSet

\* memory_used is at all times the bytes of the blocks in use: kfree's guard
\* against a count that would go below zero never finds one.
THEOREM HeapUsedIsExact == Spec => []UsedIsExact
<1>1. Init => HeapInv /\ UsedIsExact
  BY InitHeapInv, InitUsed
<1>2. HeapInv /\ UsedIsExact /\ HeapInv' /\ [Next]_vars => UsedIsExact'
  <2> SUFFICES ASSUME HeapInv, UsedIsExact, HeapInv', [Next]_vars
               PROVE  UsedIsExact'
    OBVIOUS
  <2>1. CASE \E n \in Requests : Kmalloc(n)
    BY <2>1, KmallocUsed
  <2>2. CASE \E p \in DOMAIN held : Kfree(p)
    BY <2>2, KfreeUsed
  <2>3. CASE UNCHANGED vars
    <3>1. memory_used = SumOf(block, InUse(block))
      BY UsedIsSum
    <3>2. memory_used' = SumOf(block', InUse(block'))
      BY <2>3, <3>1 DEF vars
    <3>3. QED
      BY <3>2, Zenon DEF UsedIsExact, SumOf, InUse, MapThenSumSet, MapThenFoldSet
  <2>4. QED
    BY <2>1, <2>2, <2>3 DEF Next, KmallocFails
<1>3. QED
  BY <1>1, <1>2, HeapInvariant, PTL DEF Spec
=============================================================================
