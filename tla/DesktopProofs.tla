--------------------------- MODULE DesktopProofs ---------------------------
(***************************************************************************)
(* The list of windows is a stack whose top has the focus, every window    *)
(* belongs to one application, and a click reaches what is seen: for every *)
(* size of the screen, any number of windows and any movement of the mouse *)
(* between the steps of the main loop.  Then the screen in text mode       *)
(* (drivers/vga.c): it shows what was written, for every size of it and of *)
(* the history, and whatever interrupts come while it is being copied.     *)
(***************************************************************************)
EXTENDS Desktop, Screen, FiniteSetTheorems, SequenceTheorems, TLAPS

\* A nonempty set of naturals has a least element.
LEMMA LeastNat ==
  ASSUME NEW S \in SUBSET Nat, S # {}
  PROVE  \E m \in S : \A k \in S : m <= k
<1>1. IsWellFoundedOn({ss \in Nat \X Nat : ss[1] < ss[2]}, Nat)
  BY NatLessThanWellFounded, Zenon DEF OpToRel
<1>2. PICK m \in S : \A k \in S : <<k, m>> \notin {ss \in Nat \X Nat : ss[1] < ss[2]}
  BY <1>1, WFMin, Zenon
<1>3. \A k \in S : k \in Nat /\ m \in Nat /\ ~ (k < m)
  BY <1>2, Zenon
<1>4. QED
  BY <1>3

(***************************************************************************)
(* Following the links.                                                    *)
(***************************************************************************)
Link  == Addr \cup {NULL}
Limit == Cardinality(Addr) + 1

\* The element of s at i, and NULL behind the last one.
At(s, i) == IF i \in 1 .. Len(s) THEN s[i] ELSE NULL

\* s is the list that begins at head and goes on along next.
Linked(head, next, s) ==
  /\ s \in Seq(Addr)
  /\ \A i, j \in 1 .. Len(s) : s[i] = s[j] => i = j
  /\ head = At(s, 1)
  /\ \A i \in 1 .. Len(s) : next[s[i]] = At(s, i + 1)

\* One round of Chain's recursion, and a function that solves it up to m.
Round(f, next, n) ==
  [w \in Link |-> IF n = 0 \/ w = NULL THEN << >> ELSE <<w>> \o f[n - 1][next[w]]]

Follows(f, next, m) == f = [n \in 0 .. m |-> Round(f, next, n)]

LEMMA ChainFollows ==
  ASSUME NEW d
  PROVE  Chain(d) = (CHOOSE f : Follows(f, d.next, Limit))[Limit][d.windows]
BY Zenon DEF Chain, Follows, Round, Link, Limit

LEMMA LimitIsNat == Limit \in Nat /\ Cardinality(Addr) \in Nat
BY AddrAssumption, FS_CardinalityType DEF Limit

LEMMA FollowsExists ==
  ASSUME NEW next \in [Addr -> Link], NEW m \in Nat
  PROVE  \E f : Follows(f, next, m)
<1> DEFINE Bad == {n \in Nat : ~ \E f : Follows(f, next, n)}
<1>1. ASSUME Bad # {}
      PROVE  FALSE
  <2>1. PICK n \in Bad : \A k \in Bad : n <= k
    <3>1. Bad \in SUBSET Nat
      OBVIOUS
    <3> HIDE DEF Bad
    <3>2. QED
      BY <1>1, <3>1, LeastNat
  <2>2. n \in Nat /\ ~ \E f : Follows(f, next, n)
    BY <2>1
  <2>3. CASE n = 0
    <3> DEFINE f == [k \in 0 .. 0 |-> [w \in Link |-> << >>]]
    <3>1. \A k \in 0 .. 0 : f[k] = Round(f, next, k)
      BY DEF Round
    <3>2. Follows(f, next, 0)
      BY <3>1 DEF Follows
    <3>3. QED
      BY <2>2, <2>3, <3>2
  <2>4. CASE n # 0
    <3>1. n - 1 \in Nat /\ ~ (n <= n - 1)
      BY <2>2, <2>4
    <3>2. n - 1 \notin Bad
      BY <2>1, <3>1
    <3>3. PICK g : Follows(g, next, n - 1)
      BY <3>1, <3>2
    <3> DEFINE f == [k \in 0 .. n |-> Round(g, next, k)]
    <3> HIDE DEF Bad
    <3>4. \A k \in 0 .. n - 1 : f[k] = g[k]
      BY <2>2, <3>1, <3>3 DEF Follows
    <3>5. ASSUME NEW k \in 0 .. n
          PROVE  Round(g, next, k) = Round(f, next, k)
      <4>1. k # 0 => k - 1 \in 0 .. n - 1
        BY <2>2
      <4>2. k # 0 => f[k - 1] = g[k - 1]
        BY <3>4, <4>1
      <4> HIDE DEF f
      <4>3. QED
        BY <4>2 DEF Round
    <3>6. Follows(f, next, n)
      <4>1. f = [k \in 0 .. n |-> Round(f, next, k)]
        BY <3>5, Zenon
      <4> HIDE DEF f
      <4>2. QED
        BY <4>1 DEF Follows
    <3>7. QED
      BY <2>2, <3>6
  <2>5. QED
    BY <2>3, <2>4
<1>2. m \notin Bad
  BY <1>1
<1>3. QED
  BY <1>2

\* A list without repetition is not longer than there are addresses.
LEMMA LinkedFits ==
  ASSUME NEW head, NEW next, NEW s, Linked(head, next, s)
  PROVE  Len(s) \in Nat /\ Len(s) <= Cardinality(Addr)
<1>1. s \in [1 .. Len(s) -> Addr] /\ Len(s) \in Nat
  BY DEF Linked
<1>2. IsFiniteSet(1 .. Len(s)) /\ Cardinality(1 .. Len(s)) = Len(s)
  <2>1. 1 \in Int /\ Len(s) \in Int
    BY <1>1
  <2>2. /\ IsFiniteSet(1 .. Len(s))
        /\ Cardinality(1 .. Len(s)) = IF 1 > Len(s) THEN 0 ELSE Len(s) - 1 + 1
    BY <2>1, FS_Interval, Zenon
  <2>3. QED
    BY <1>1, <2>2
<1>3. ~ (Cardinality(Addr) < Len(s))
  <2>1. SUFFICES ASSUME Cardinality(Addr) < Len(s)
                 PROVE  FALSE
    OBVIOUS
  <2>2. PICK i, j \in 1 .. Len(s) : i # j /\ s[i] = s[j]
    BY <1>1, <1>2, <2>1, AddrAssumption, FS_PigeonHole
  <2>3. QED
    BY <2>2 DEF Linked
<1>4. QED
  BY <1>1, <1>3, LimitIsNat

LEMMA RestIndex ==
  ASSUME NEW l \in Nat, NEW m \in Nat, NEW k \in Nat, k <= l, k # 0, NEW n \in k .. m
  PROVE  /\ l + 1 - k \in 1 .. l /\ k - 1 \in Nat /\ ~ (k <= k - 1) /\ k - 1 <= l
         /\ n - 1 \in (k - 1) .. m /\ n # 0 /\ (l + 1 - k) + 1 = l + 1 - (k - 1)
OBVIOUS

\* From its i-th element on, the recursion gives the rest of the list.
LEMMA FollowsRest ==
  ASSUME NEW head, NEW next \in [Addr -> Link], NEW s, Linked(head, next, s),
         NEW f, Follows(f, next, Limit)
  PROVE  \A k \in 0 .. Len(s) : \A n \in k .. Limit :
           f[n][At(s, Len(s) + 1 - k)] = SubSeq(s, Len(s) + 1 - k, Len(s))
<1> DEFINE Rest(k) == \A n \in k .. Limit :
                        f[n][At(s, Len(s) + 1 - k)] = SubSeq(s, Len(s) + 1 - k, Len(s))
           Bad == {k \in Nat : k <= Len(s) /\ ~ Rest(k)}
<1>1. /\ Len(s) \in Nat /\ s \in Seq(Addr) /\ Limit \in Nat
      /\ \A i \in 1 .. Len(s) : next[s[i]] = At(s, i + 1)
  BY LinkedFits, LimitIsNat DEF Linked
<1>2. \A n \in 0 .. Limit, w \in Link :
        f[n][w] = IF n = 0 \/ w = NULL THEN << >> ELSE <<w>> \o f[n - 1][next[w]]
  <2>1. \A n \in 0 .. Limit : f[n] = Round(f, next, n)
    BY Zenon DEF Follows
  <2>2. QED
    BY <2>1, Zenon DEF Round
<1>3. NULL \in Link /\ NULL \notin Addr
  BY AddrAssumption DEF Link
<1>4. ASSUME Bad # {}
      PROVE  FALSE
  <2>1. PICK k \in Bad : \A j \in Bad : k <= j
    <3>1. Bad \in SUBSET Nat
      OBVIOUS
    <3> HIDE DEF Bad
    <3>2. QED
      BY <1>4, <3>1, LeastNat
  <2>2. k \in Nat /\ k <= Len(s)
    BY <2>1
  <2>3. PICK n \in k .. Limit :
          f[n][At(s, Len(s) + 1 - k)] # SubSeq(s, Len(s) + 1 - k, Len(s))
    BY <2>1
  <2>4. n \in 0 .. Limit
    BY <1>1, <2>2
  <2>5. CASE k = 0
    <3>1. At(s, Len(s) + 1 - k) = NULL
      BY <1>1, <2>5 DEF At
    <3>2. SubSeq(s, Len(s) + 1 - k, Len(s)) = << >>
      BY <1>1, <2>5, SubSeqEmpty
    <3>3. QED
      BY <1>2, <1>3, <2>3, <2>4, <3>1, <3>2
  <2>6. CASE k # 0
    <3> DEFINE i == Len(s) + 1 - k
    <3>1. /\ i \in 1 .. Len(s) /\ k - 1 \in Nat /\ ~ (k <= k - 1) /\ k - 1 <= Len(s)
          /\ n - 1 \in (k - 1) .. Limit /\ n # 0 /\ i + 1 = Len(s) + 1 - (k - 1)
      <4> HIDE DEF Bad, Rest
      <4>1. Len(s) \in Nat /\ Limit \in Nat /\ n \in k .. Limit
        BY <1>1, <2>3
      <4>2. QED
        BY <4>1, <2>2, <2>6, RestIndex
    <3>2. Rest(k - 1)
      <4>1. k - 1 \notin Bad
        <5> HIDE DEF Bad
        <5>1. QED
          BY <2>1, <3>1
      <4> HIDE DEF Rest
      <4>2. QED
        BY <3>1, <4>1, Zenon
    <3>3. f[n - 1][At(s, i + 1)] = SubSeq(s, i + 1, Len(s))
      BY <3>1, <3>2
    <3>4. At(s, i) = s[i] /\ s[i] \in Addr /\ s[i] \in Link
      BY <1>1, <3>1 DEF At, Link
    <3>5. SubSeq(s, i, Len(s)) = <<s[i]>> \o SubSeq(s, i + 1, Len(s))
      BY <1>1, <3>1, SubSeqRecursiveFirst
    <3>6. f[n][s[i]] = <<s[i]>> \o f[n - 1][next[s[i]]]
      BY <1>2, <1>3, <2>4, <3>1, <3>4
    <3>7. next[s[i]] = At(s, i + 1)
      BY <1>1, <3>1
    <3>8. QED
      BY <2>3, <3>3, <3>4, <3>5, <3>6, <3>7
  <2>7. QED
    BY <2>5, <2>6
<1>5. ASSUME NEW k \in 0 .. Len(s)
      PROVE  Rest(k)
  <2>1. k \notin Bad
    BY <1>4
  <2> HIDE DEF Rest
  <2>2. QED
    BY <1>1, <2>1
<1>6. QED
  BY <1>5

\* What gui_get_window_at and gui_render walk is the list.
LEMMA ChainIs ==
  ASSUME NEW d, d.next \in [Addr -> Link], NEW s, Linked(d.windows, d.next, s)
  PROVE  Chain(d) = s
<1>1. Limit \in Nat /\ Len(s) \in Nat /\ Len(s) \in 0 .. Len(s) /\ Limit \in Len(s) .. Limit
  BY LimitIsNat, LinkedFits DEF Limit
<1>2. PICK f : Follows(f, d.next, Limit) /\ Chain(d) = f[Limit][d.windows]
  <2>1. \E f : Follows(f, d.next, Limit)
    BY <1>1, FollowsExists
  <2>2. Follows(CHOOSE f : Follows(f, d.next, Limit), d.next, Limit)
    BY <2>1, Zenon
  <2>3. QED
    BY <2>2, ChainFollows
<1>3. f[Limit][At(s, Len(s) + 1 - Len(s))] = SubSeq(s, Len(s) + 1 - Len(s), Len(s))
  BY <1>1, <1>2, FollowsRest
<1>4. Len(s) + 1 - Len(s) = 1 /\ d.windows = At(s, 1) /\ SubSeq(s, 1, Len(s)) = s
  BY <1>1, SubSeqFull DEF Linked
<1>5. QED
  BY <1>2, <1>3, <1>4

(***************************************************************************)
(* Taking a window out of the list and putting one before it.              *)
(***************************************************************************)
LEMMA RemoveAtIs ==
  ASSUME NEW s \in Seq(Addr), NEW i \in 1 .. Len(s)
  PROVE  /\ RemoveAt(s, i) \in Seq(Addr)
         /\ Len(RemoveAt(s, i)) = Len(s) - 1
         /\ \A j \in 1 .. Len(s) - 1 : RemoveAt(s, i)[j] = IF j < i THEN s[j] ELSE s[j + 1]
<1> DEFINE a == SubSeq(s, 1, i - 1)
           b == SubSeq(s, i + 1, Len(s))
<1>1. Len(s) \in Nat
  OBVIOUS
<1>2. a \in Seq(Addr) /\ Len(a) = i - 1 /\ \A j \in 1 .. i - 1 : a[j] = s[j]
  OBVIOUS
<1>3. b \in Seq(Addr) /\ Len(b) = Len(s) - i /\ \A j \in 1 .. Len(s) - i : b[j] = s[i + j]
  OBVIOUS
<1>4. RemoveAt(s, i) = a \o b
  BY DEF RemoveAt
<1> HIDE DEF a, b
<1>5. /\ a \o b \in Seq(Addr) /\ Len(a \o b) = Len(s) - 1
      /\ \A j \in 1 .. Len(s) - 1 : (a \o b)[j] = IF j <= Len(a) THEN a[j] ELSE b[j - Len(a)]
  <2>1. Len(a) + Len(b) = Len(s) - 1
    BY <1>1, <1>2, <1>3
  <2>2. /\ a \o b \in Seq(Addr) /\ Len(a \o b) = Len(a) + Len(b)
        /\ \A j \in 1 .. Len(a) + Len(b) :
             (a \o b)[j] = IF j <= Len(a) THEN a[j] ELSE b[j - Len(a)]
    BY <1>2, <1>3, ConcatProperties, Zenon
  <2>3. QED
    BY <2>1, <2>2
<1>6. ASSUME NEW j \in 1 .. Len(s) - 1
      PROVE  (a \o b)[j] = IF j < i THEN s[j] ELSE s[j + 1]
  <2>1. CASE j < i
    BY <1>1, <1>2, <1>5, <2>1
  <2>2. CASE ~ (j < i)
    <3>1. j - Len(a) \in 1 .. Len(s) - i /\ i + (j - Len(a)) = j + 1 /\ ~ (j <= Len(a))
      BY <1>1, <1>2, <2>2
    <3>2. b[j - Len(a)] = s[j + 1]
      BY <1>3, <3>1
    <3>3. QED
      BY <1>5, <2>2, <3>1, <3>2
  <2>3. QED
    BY <2>1, <2>2
<1>7. QED
  BY <1>4, <1>5, <1>6

\* A window of the list is not the rest of it.
LEMMA RemovedIsOut ==
  ASSUME NEW head, NEW next, NEW s, Linked(head, next, s), NEW i \in 1 .. Len(s)
  PROVE  /\ s[i] \notin Range(RemoveAt(s, i))
         /\ Range(RemoveAt(s, i)) = Range(s) \ {s[i]}
<1>1. s \in Seq(Addr) /\ Len(s) \in Nat /\ \A j, k \in 1 .. Len(s) : s[j] = s[k] => j = k
  BY DEF Linked
<1> DEFINE t == RemoveAt(s, i)
<1>2. /\ t \in Seq(Addr) /\ Len(t) = Len(s) - 1
      /\ \A j \in 1 .. Len(s) - 1 : t[j] = IF j < i THEN s[j] ELSE s[j + 1]
  BY <1>1, RemoveAtIs
<1> HIDE DEF t
<1>3. Range(s) = {s[j] : j \in 1 .. Len(s)} /\ Range(t) = {t[j] : j \in 1 .. Len(s) - 1}
  <2>1. DOMAIN s = 1 .. Len(s)
    BY <1>1
  <2>2. DOMAIN t = 1 .. Len(s) - 1
    BY <1>2
  <2>3. QED
    BY <2>1, <2>2, Zenon DEF Range
<1>4. ASSUME NEW j \in 1 .. Len(s) - 1
      PROVE  t[j] \in Range(s) /\ t[j] # s[i]
  <2>1. j \in 1 .. Len(s) /\ j + 1 \in 1 .. Len(s)
    BY <1>1
  <2>2. t[j] = IF j < i THEN s[j] ELSE s[j + 1]
    BY <1>2
  <2>3. QED
    BY <1>1, <1>3, <2>1, <2>2
<1>5. ASSUME NEW j \in 1 .. Len(s), j # i
      PROVE  s[j] \in Range(t)
  <2>1. CASE j < i
    <3>1. j \in 1 .. Len(s) - 1 /\ t[j] = s[j]
      BY <1>1, <1>2, <2>1
    <3>2. QED
      BY <1>3, <3>1
  <2>2. CASE j > i
    <3>1. j - 1 \in 1 .. Len(s) - 1 /\ ~ (j - 1 < i) /\ j - 1 + 1 = j
      BY <1>1, <2>2
    <3>2. t[j - 1] = s[j]
      BY <1>2, <3>1
    <3>3. QED
      BY <1>3, <3>1, <3>2
  <2>3. QED
    BY <1>1, <1>5, <2>1, <2>2
<1>6. QED
  BY <1>3, <1>4, <1>5 DEF t

\* The first window is taken out: the list begins at the next one.
LEMMA UnlinkFirst ==
  ASSUME NEW head, NEW next, NEW s, Linked(head, next, s), 1 \in 1 .. Len(s)
  PROVE  head = s[1] /\ Linked(next[head], next, RemoveAt(s, 1))
<1> DEFINE t == RemoveAt(s, 1)
<1>1. /\ s \in Seq(Addr) /\ Len(s) \in Nat /\ head = At(s, 1)
      /\ \A j, k \in 1 .. Len(s) : s[j] = s[k] => j = k
      /\ \A j \in 1 .. Len(s) : next[s[j]] = At(s, j + 1)
  BY DEF Linked
<1>2. t \in Seq(Addr) /\ Len(t) = Len(s) - 1 /\ \A j \in 1 .. Len(s) - 1 : t[j] = s[j + 1]
  BY <1>1, RemoveAtIs
<1> HIDE DEF t
<1>3. head = s[1]
  BY <1>1 DEF At
<1>4. \A j \in 1 .. Len(s) : At(t, j) = At(s, j + 1)
  BY <1>1, <1>2 DEF At
<1>5. next[head] = At(t, 1)
  BY <1>1, <1>3, <1>4
<1>6. ASSUME NEW j \in 1 .. Len(t)
      PROVE  next[t[j]] = At(t, j + 1)
  <2>1. j + 1 \in 1 .. Len(s) /\ t[j] = s[j + 1]
    BY <1>1, <1>2
  <2>2. next[s[j + 1]] = At(s, j + 1 + 1)
    BY <1>1, <2>1
  <2>3. QED
    BY <1>4, <2>1, <2>2
<1>7. ASSUME NEW j \in 1 .. Len(t), NEW k \in 1 .. Len(t), t[j] = t[k]
      PROVE  j = k
  BY <1>1, <1>2, <1>7
<1>8. QED
  BY <1>2, <1>3, <1>5, <1>6, <1>7 DEF Linked, t

\* Another one is taken out: the one before it leads past it.
LEMMA UnlinkLater ==
  ASSUME NEW head, NEW next \in [Addr -> Link], NEW s, Linked(head, next, s),
         NEW i \in 2 .. Len(s)
  PROVE  Linked(head, [next EXCEPT ![s[i - 1]] = next[s[i]]], RemoveAt(s, i))
<1> DEFINE t == RemoveAt(s, i)
           new == [next EXCEPT ![s[i - 1]] = next[s[i]]]
<1>1. /\ s \in Seq(Addr) /\ Len(s) \in Nat /\ head = At(s, 1)
      /\ \A j, k \in 1 .. Len(s) : s[j] = s[k] => j = k
      /\ \A j \in 1 .. Len(s) : next[s[j]] = At(s, j + 1) /\ s[j] \in Addr
  BY DEF Linked
<1>2. /\ t \in Seq(Addr) /\ Len(t) = Len(s) - 1
      /\ \A j \in 1 .. Len(s) - 1 : t[j] = IF j < i THEN s[j] ELSE s[j + 1]
  BY <1>1, RemoveAtIs
<1>3. /\ i - 1 \in 1 .. Len(s)
      /\ \A w \in Addr : new[w] = IF w = s[i - 1] THEN next[s[i]] ELSE next[w]
  BY <1>1
<1> HIDE DEF t, new
<1>4. /\ \A j \in 1 .. i - 1 : At(t, j) = At(s, j)
      /\ \A j \in i .. Len(s) : At(t, j) = At(s, j + 1)
  BY <1>1, <1>2 DEF At
<1>5. head = At(t, 1)
  BY <1>1, <1>4
<1>6. ASSUME NEW j \in 1 .. Len(t)
      PROVE  new[t[j]] = At(t, j + 1)
  <2>1. CASE j = i - 1
    <3>1. t[j] = s[i - 1] /\ s[i - 1] \in Addr /\ j + 1 = i /\ i \in 1 .. Len(s)
      BY <1>1, <1>2, <1>3, <2>1
    <3>2. new[t[j]] = next[s[i]] /\ next[s[i]] = At(s, i + 1) /\ At(t, i) = At(s, i + 1)
      BY <1>1, <1>3, <1>4, <3>1
    <3>3. QED
      BY <3>1, <3>2
  <2>2. CASE j < i - 1
    <3>1. t[j] = s[j] /\ j \in 1 .. Len(s) /\ j # i - 1 /\ j + 1 \in 1 .. i - 1
      BY <1>1, <1>2, <2>2
    <3>2. s[j] # s[i - 1] /\ s[j] \in Addr /\ next[s[j]] = At(s, j + 1)
      BY <1>1, <1>3, <3>1
    <3>3. QED
      BY <1>3, <1>4, <3>1, <3>2
  <2>3. CASE j > i - 1
    <3>1. t[j] = s[j + 1] /\ j + 1 \in 1 .. Len(s) /\ j + 1 # i - 1 /\ j + 1 \in i .. Len(s)
      BY <1>1, <1>2, <2>3
    <3>2. s[j + 1] # s[i - 1] /\ s[j + 1] \in Addr /\ next[s[j + 1]] = At(s, j + 1 + 1)
      BY <1>1, <1>3, <3>1
    <3>3. QED
      BY <1>3, <1>4, <3>1, <3>2
  <2>4. QED
    BY <1>1, <1>2, <2>1, <2>2, <2>3
<1>7. ASSUME NEW j \in 1 .. Len(t), NEW k \in 1 .. Len(t), t[j] = t[k]
      PROVE  j = k
  <2> DEFINE old(n) == IF n < i THEN n ELSE n + 1
  <2>1. ASSUME NEW n \in 1 .. Len(t)
        PROVE  old(n) \in 1 .. Len(s) /\ t[n] = s[old(n)]
    BY <1>1, <1>2
  <2>2. old(j) = old(k)
    <3>1. t[j] = s[old(j)] /\ old(j) \in 1 .. Len(s)
      BY <2>1
    <3>2. t[k] = s[old(k)] /\ old(k) \in 1 .. Len(s)
      BY <2>1
    <3> HIDE DEF old
    <3>3. QED
      BY <1>1, <1>7, <3>1, <3>2
  <2>3. QED
    BY <1>1, <1>2, <2>2
<1>8. QED
  BY <1>2, <1>5, <1>6, <1>7 DEF Linked, t, new

LEMMA PushIs ==
  ASSUME NEW s \in Seq(Addr), NEW w \in Addr
  PROVE  /\ <<w>> \o s \in Seq(Addr) /\ Len(<<w>> \o s) = Len(s) + 1
         /\ \A j \in 1 .. Len(s) + 1 : (<<w>> \o s)[j] = IF j = 1 THEN w ELSE s[j - 1]
         /\ Range(<<w>> \o s) = {w} \cup Range(s)
<1> DEFINE t == <<w>> \o s
<1>1. Len(s) \in Nat /\ t \in Seq(Addr) /\ Len(t) = Len(s) + 1
  OBVIOUS
<1>2. \A j \in 1 .. Len(s) + 1 : t[j] = IF j = 1 THEN w ELSE s[j - 1]
  OBVIOUS
<1> HIDE DEF t
<1>3. Range(s) = {s[j] : j \in 1 .. Len(s)} /\ Range(t) = {t[j] : j \in 1 .. Len(s) + 1}
  BY <1>1 DEF Range
<1>4. \A j \in 1 .. Len(s) : j + 1 \in 1 .. Len(s) + 1 /\ t[j + 1] = s[j]
  BY <1>1, <1>2
<1>5. 1 \in 1 .. Len(s) + 1 /\ t[1] = w
  BY <1>1, <1>2
<1>6. \A j \in 1 .. Len(s) + 1 : j # 1 => j - 1 \in 1 .. Len(s)
  BY <1>1
<1>7. ASSUME NEW x \in Range(t)
      PROVE  x \in {w} \cup Range(s)
  <2>1. PICK j \in 1 .. Len(s) + 1 : x = t[j]
    BY <1>3, <1>7
  <2>2. j # 1 => t[j] = s[j - 1] /\ j - 1 \in 1 .. Len(s)
    BY <1>2, <1>6
  <2>3. QED
    BY <1>3, <1>5, <2>1, <2>2, Zenon
<1>8. ASSUME NEW x \in {w} \cup Range(s)
      PROVE  x \in Range(t)
  <2>1. CASE x = w
    BY <1>3, <1>5, <2>1, Zenon
  <2>2. CASE x \in Range(s)
    <3>1. PICK j \in 1 .. Len(s) : x = s[j]
      BY <1>3, <2>2, Zenon
    <3>2. j + 1 \in 1 .. Len(s) + 1 /\ x = t[j + 1]
      BY <1>4, <3>1
    <3>3. QED
      BY <1>3, <3>2, Zenon
  <2>3. QED
    BY <1>8, <2>1, <2>2
<1>9. Range(t) = {w} \cup Range(s)
  BY <1>7, <1>8
<1>10. QED
  BY <1>1, <1>2, <1>9 DEF t

\* A window that is not in the list is put before it.
LEMMA Push ==
  ASSUME NEW head, NEW next \in [Addr -> Link], NEW s, Linked(head, next, s),
         NEW w \in Addr, w \notin Range(s)
  PROVE  Linked(w, [next EXCEPT ![w] = head], <<w>> \o s)
<1> DEFINE t == <<w>> \o s
           new == [next EXCEPT ![w] = head]
<1>1. /\ s \in Seq(Addr) /\ Len(s) \in Nat /\ head = At(s, 1)
      /\ \A j, k \in 1 .. Len(s) : s[j] = s[k] => j = k
      /\ \A j \in 1 .. Len(s) : next[s[j]] = At(s, j + 1) /\ s[j] \in Addr /\ s[j] # w
  BY DEF Linked, Range
<1>2. /\ t \in Seq(Addr) /\ Len(t) = Len(s) + 1
      /\ \A j \in 1 .. Len(s) + 1 : t[j] = IF j = 1 THEN w ELSE s[j - 1]
  BY <1>1, PushIs
<1>3. \A v \in Addr : new[v] = IF v = w THEN head ELSE next[v]
  OBVIOUS
<1> HIDE DEF t, new
<1>4. \A j \in 2 .. Len(s) + 2 : At(t, j) = At(s, j - 1)
  BY <1>1, <1>2 DEF At
<1>5. At(t, 1) = w
  BY <1>1, <1>2 DEF At
<1>6. ASSUME NEW j \in 1 .. Len(t)
      PROVE  new[t[j]] = At(t, j + 1)
  <2>1. CASE j = 1
    <3>1. t[j] = w /\ new[w] = head /\ At(t, 2) = At(s, 1)
      BY <1>1, <1>2, <1>3, <1>4, <2>1
    <3>2. QED
      BY <1>1, <2>1, <3>1
  <2>2. CASE j # 1
    <3>1. j - 1 \in 1 .. Len(s) /\ t[j] = s[j - 1] /\ j + 1 \in 2 .. Len(s) + 2 /\ j + 1 - 1 = j - 1 + 1
      BY <1>1, <1>2, <2>2
    <3>2. new[s[j - 1]] = next[s[j - 1]] /\ next[s[j - 1]] = At(s, j - 1 + 1)
      BY <1>1, <1>3, <3>1
    <3>3. At(t, j + 1) = At(s, j - 1 + 1)
      BY <1>4, <3>1
    <3>4. QED
      BY <3>1, <3>2, <3>3
  <2>3. QED
    BY <2>1, <2>2
<1>7. ASSUME NEW j \in 1 .. Len(t), NEW k \in 1 .. Len(t), t[j] = t[k]
      PROVE  j = k
  <2>1. CASE j = 1 \/ k = 1
    BY <1>1, <1>2, <1>7, <2>1
  <2>2. CASE j # 1 /\ k # 1
    <3>1. j - 1 \in 1 .. Len(s) /\ k - 1 \in 1 .. Len(s) /\ t[j] = s[j - 1] /\ t[k] = s[k - 1]
      BY <1>1, <1>2, <2>2
    <3>2. j - 1 = k - 1
      BY <1>1, <1>7, <3>1
    <3>3. QED
      BY <1>1, <1>2, <3>2
  <2>3. QED
    BY <2>1, <2>2
<1>8. QED
  BY <1>2, <1>5, <1>6, <1>7 DEF Linked, t, new

(***************************************************************************)
(* A sound desktop with the windows s from the top; those for which K      *)
(* gives bounds have these, the others are on the screen.                  *)
(***************************************************************************)
Rects   == [x : Int, y : Int, width : Nat, height : Nat]
Offsets == [x : Int, y : Int]
AppRecs == [type : AppType, window : Link, data : BOOLEAN, scroll_offset : Int]

Desks ==
  [windows : Link, focused : Link, dragged : Link, offset : Offsets, left_was_pressed : BOOLEAN,
   live : SUBSET Addr, next : [Addr -> Link], bounds : [Addr -> Rects],
   user_data : [Addr -> Nat], apps : Seq(AppRecs)]

OnScreen(r) ==
  /\ r.x >= 0 /\ r.x + r.width <= SCREEN_WIDTH
  /\ r.y >= 0 /\ r.y + r.height <= SCREEN_HEIGHT - TASKBAR_HEIGHT

Settled(K, w, r) == IF w \in DOMAIN K THEN r = K[w] ELSE OnScreen(r)

\* WindowsBelong, of any desktop.
Belong(d) ==
  \A w \in d.live :
    /\ d.user_data[w] \in DOMAIN d.apps
    /\ d.apps[d.user_data[w]].window = w
    /\ \A v \in d.live \ {w} : d.user_data[v] # d.user_data[w]

Sound(d, s, K) ==
  /\ d \in Desks
  /\ Linked(d.windows, d.next, s) /\ Range(s) = d.live
  /\ d.focused = d.windows
  /\ Belong(d)
  /\ \A w \in d.live : Settled(K, w, d.bounds[w])

\* What a step may do to the stack of windows.
Moves(s, t) ==
  \/ t = s
  \/ \E w \in Addr : \/ w \notin Range(s) /\ t = <<w>> \o s
                     \/ \E i \in DOMAIN s : s[i] = w /\ t = <<w>> \o RemoveAt(s, i)
                     \/ \E i \in DOMAIN s : s[i] = w /\ t = RemoveAt(s, i)

LEMMA AddrFacts ==
  /\ NULL \notin Addr /\ NULL \in Link /\ NULL \in Nat /\ NULL \in Int
  /\ \A w \in Addr : w \in Link /\ w \in Nat
BY AddrAssumption DEF Link, NULL

(***************************************************************************)
(* Launching.                                                              *)
(***************************************************************************)
\* e is d with a new window w before the others.
Opened(e, d, w, b) ==
  /\ e \in Desks
  /\ e.windows = w /\ e.focused = w /\ e.live = d.live \cup {w}
  /\ e.next = [d.next EXCEPT ![w] = d.windows]
  /\ e.bounds = [d.bounds EXCEPT ![w] = b]
  /\ e.user_data = [d.user_data EXCEPT ![w] = NULL]
  /\ e.apps = d.apps /\ e.dragged = d.dragged
  /\ e.left_was_pressed = d.left_was_pressed

LEMMA CreateOpens ==
  ASSUME NEW d \in Desks, NEW w \in Addr, NEW b \in Rects
  PROVE  Opened(Create(d, w, b), d, w, b)
<1> DEFINE n == [d.next EXCEPT ![w] = d.windows]
           r == [d.bounds EXCEPT ![w] = b]
           u == [d.user_data EXCEPT ![w] = NULL]
           l == d.live \cup {w}
<1>1. n \in [Addr -> Link] /\ r \in [Addr -> Rects] /\ u \in [Addr -> Nat] /\ l \in SUBSET Addr
  BY AddrFacts DEF Desks
<1>2. w \in Link
  BY AddrFacts
<1>3. Create(d, w, b) = [d EXCEPT !.live = l, !.bounds = r, !.user_data = u, !.next = n,
                                  !.windows = w, !.focused = w]
  BY DEF Create, Desks
<1> HIDE DEF n, r, u, l
<1>4. QED
  BY <1>1, <1>2, <1>3 DEF Opened, Desks, n, r, u, l

\* apps_create adds a record that no window points to.
LEMMA AppsCreateSound ==
  ASSUME NEW d, NEW s, NEW K, Sound(d, s, K), NEW type \in AppType
  PROVE  LET e == AppsCreate(d, type)
         IN  /\ Sound(e, s, K)
             /\ e.dragged = d.dragged /\ e.left_was_pressed = d.left_was_pressed
             /\ Len(e.apps) \in DOMAIN e.apps /\ e.apps[Len(e.apps)].type = type
             /\ e.live = d.live
             /\ \A w \in e.live : e.user_data[w] # Len(e.apps)
<1> DEFINE new == [type |-> type, window |-> NULL, data |-> FALSE, scroll_offset |-> 0]
           a == Append(d.apps, new)
           e == AppsCreate(d, type)
<1>1. d \in Desks /\ d.apps \in Seq(AppRecs) /\ Len(d.apps) \in Nat
  BY DEF Sound, Desks
<1>2. new \in AppRecs
  BY AddrFacts DEF AppRecs
<1> HIDE DEF new
<1>3. /\ a \in Seq(AppRecs) /\ Len(a) = Len(d.apps) + 1 /\ a[Len(d.apps) + 1] = new
      /\ \A i \in 1 .. Len(d.apps) : a[i] = d.apps[i]
      /\ DOMAIN a = 1 .. Len(d.apps) + 1 /\ DOMAIN d.apps = 1 .. Len(d.apps)
  BY <1>1, <1>2
<1>4. e = [d EXCEPT !.apps = a]
  BY DEF AppsCreate, new
<1> HIDE DEF a, e
<1>5. /\ e \in Desks /\ e.apps = a /\ e.windows = d.windows /\ e.next = d.next
      /\ e.live = d.live /\ e.focused = d.focused /\ e.bounds = d.bounds
      /\ e.user_data = d.user_data /\ e.dragged = d.dragged
      /\ e.left_was_pressed = d.left_was_pressed
  BY <1>1, <1>3, <1>4 DEF Desks
<1>6. \A w \in d.live : /\ d.user_data[w] \in 1 .. Len(d.apps)
                        /\ d.apps[d.user_data[w]].window = w
                        /\ \A v \in d.live \ {w} : d.user_data[v] # d.user_data[w]
  BY <1>3 DEF Sound, Belong
<1>7. Belong(e)
  BY <1>1, <1>3, <1>5, <1>6 DEF Belong
<1>8. Sound(e, s, K)
  BY <1>5, <1>7 DEF Sound
<1>9. /\ Len(e.apps) = Len(d.apps) + 1 /\ Len(e.apps) \in DOMAIN e.apps
      /\ e.apps[Len(e.apps)].type = type
  BY <1>1, <1>3, <1>5 DEF new
<1>10. \A w \in e.live : e.user_data[w] # Len(e.apps)
  BY <1>1, <1>5, <1>6, <1>9
<1>11. QED
  BY <1>5, <1>8, <1>9, <1>10 DEF e

\* The new window of an application that had none.
LEMMA ShownSound ==
  ASSUME NEW d, NEW s, NEW K, Sound(d, s, K), NEW i \in DOMAIN d.apps,
         \A v \in d.live : d.user_data[v] # i,
         NEW w \in Addr, w \notin d.live, DOMAIN K \subseteq d.live
  PROVE  LET e == Shown(d, i, w)
         IN  /\ Sound(e, <<w>> \o s, K)
             /\ e.dragged = d.dragged /\ e.left_was_pressed = d.left_was_pressed
             /\ DOMAIN e.apps = DOMAIN d.apps
<1> DEFINE b == Frame[d.apps[i].type]
           c == Create(d, w, b)
           a == [d.apps EXCEPT ![i] = [d.apps[i] EXCEPT !.window = w]]
           u == [d.user_data EXCEPT ![w] = i]
           e == Shown(d, i, w)
<1>1. d \in Desks /\ d.apps \in Seq(AppRecs) /\ i \in 1 .. Len(d.apps) /\ d.apps[i] \in AppRecs
  BY DEF Sound, Desks
<1>2. b \in Rects /\ OnScreen(b)
  BY <1>1, FrameAssumption DEF AppRecs, Rects, OnScreen
<1> HIDE DEF b
<1>3. Opened(c, d, w, b)
  BY <1>1, <1>2, CreateOpens
<1>4. /\ a \in Seq(AppRecs) /\ DOMAIN a = DOMAIN d.apps /\ a[i].window = w
      /\ \A j \in DOMAIN d.apps : j # i => a[j] = d.apps[j]
  <2>1. [d.apps[i] EXCEPT !.window = w] \in AppRecs /\ [d.apps[i] EXCEPT !.window = w].window = w
    BY <1>1, AddrFacts DEF AppRecs
  <2>2. QED
    BY <1>1, <2>1
<1>5. u \in [Addr -> Nat] /\ u[w] = i /\ \A v \in Addr : v # w => u[v] = d.user_data[v]
  BY <1>1 DEF Desks
<1>6. e = [c EXCEPT !.apps = a, !.user_data = u]
  <2>1. e = [c EXCEPT !.apps[i].window = w, !.user_data[w] = i]
    BY DEF Shown, b
  <2> HIDE DEF c, e
  <2>2. [c.apps EXCEPT ![i].window = w] = a
    BY <1>3 DEF Opened
  <2>3. [c.user_data EXCEPT ![w] = i] = u
    BY <1>1, <1>3 DEF Opened, Desks
  <2>4. QED
    BY <2>1, <2>2, <2>3, <1>3 DEF Opened, Desks
<1> HIDE DEF a, c, e, u
<1>7. /\ e \in Desks /\ e.apps = a /\ e.user_data = u
      /\ e.windows = w /\ e.focused = w /\ e.live = d.live \cup {w}
      /\ e.next = [d.next EXCEPT ![w] = d.windows]
      /\ e.bounds = [d.bounds EXCEPT ![w] = b]
      /\ e.dragged = d.dragged /\ e.left_was_pressed = d.left_was_pressed
  BY <1>3, <1>4, <1>5, <1>6 DEF Opened, Desks
<1>8. Linked(e.windows, e.next, <<w>> \o s) /\ Range(<<w>> \o s) = e.live
  <2>1. d.next \in [Addr -> Link] /\ Linked(d.windows, d.next, s) /\ w \notin Range(s)
          /\ Range(s) = d.live /\ s \in Seq(Addr)
    BY DEF Sound, Desks, Linked
  <2>2. QED
    BY <1>7, <2>1, Push, PushIs
<1>9. Belong(e)
  <2>1. \A v \in d.live : /\ v \in Addr /\ v # w /\ d.user_data[v] \in DOMAIN d.apps
                          /\ d.user_data[v] # i
                          /\ d.apps[d.user_data[v]].window = v
                          /\ \A x \in d.live \ {v} : d.user_data[x] # d.user_data[v]
    BY <1>1 DEF Sound, Belong, Desks
  <2>2. ASSUME NEW v \in e.live
        PROVE  /\ e.user_data[v] \in DOMAIN e.apps
               /\ e.apps[e.user_data[v]].window = v
               /\ \A x \in e.live \ {v} : e.user_data[x] # e.user_data[v]
    <3>1. CASE v = w
      BY <1>4, <1>5, <1>7, <2>1, <3>1
    <3>2. CASE v # w
      <4>1. v \in d.live /\ v \in Addr /\ e.user_data[v] = d.user_data[v]
        BY <1>5, <1>7, <2>1, <3>2
      <4>2. e.apps[d.user_data[v]] = d.apps[d.user_data[v]] /\ DOMAIN e.apps = DOMAIN d.apps
        BY <1>4, <1>7, <2>1, <4>1
      <4>3. ASSUME NEW x \in e.live \ {v}
            PROVE  e.user_data[x] # e.user_data[v]
        <5>1. CASE x = w
          BY <1>5, <1>7, <2>1, <4>1, <5>1
        <5>2. CASE x # w
          <6>1. x \in d.live \ {v} /\ e.user_data[x] = d.user_data[x]
            BY <1>5, <1>7, <2>1, <4>1, <5>2
          <6>2. QED
            BY <2>1, <4>1, <6>1
        <5>3. QED
          BY <5>1, <5>2
      <4>4. QED
        BY <2>1, <4>1, <4>2, <4>3
    <3>3. QED
      BY <3>1, <3>2
  <2>3. QED
    BY <2>2 DEF Belong
<1>10. \A v \in e.live : Settled(K, v, e.bounds[v])
  <2>1. \A v \in d.live : v \in Addr /\ Settled(K, v, d.bounds[v])
    BY <1>1 DEF Sound, Desks
  <2>2. \A v \in Addr : e.bounds[v] = IF v = w THEN b ELSE d.bounds[v]
    BY <1>1, <1>7 DEF Desks
  <2>3. Settled(K, w, b)
    BY <1>2 DEF Settled
  <2>4. QED
    BY <1>7, <2>1, <2>2, <2>3
<1>11. QED
  BY <1>4, <1>7, <1>8, <1>9, <1>10 DEF Sound, e

\* e has the stack t instead of s and whatever d keeps of a drag and the button.
Launched(e, t, d, s, K) ==
  /\ Sound(e, t, K) /\ Moves(s, t)
  /\ e.dragged = d.dragged /\ e.left_was_pressed = d.left_was_pressed

\* Another record of an application, with the same window.
WithApp(d, i, r) == [d EXCEPT !.apps = [d.apps EXCEPT ![i] = r]]

LEMMA WithAppSound ==
  ASSUME NEW d, NEW s, NEW K, Sound(d, s, K), NEW i \in DOMAIN d.apps,
         NEW r \in AppRecs, r.window = d.apps[i].window
  PROVE  Launched(WithApp(d, i, r), s, d, s, K)
<1> DEFINE a == [d.apps EXCEPT ![i] = r]
           e == [d EXCEPT !.apps = a]
<1>1. d \in Desks /\ d.apps \in Seq(AppRecs) /\ i \in 1 .. Len(d.apps)
  BY DEF Sound, Desks
<1>2. /\ a \in Seq(AppRecs) /\ DOMAIN a = DOMAIN d.apps
      /\ \A j \in DOMAIN d.apps : a[j].window = d.apps[j].window
  BY <1>1
<1> HIDE DEF a
<1>3. /\ e \in Desks /\ e.apps = a /\ e.windows = d.windows /\ e.next = d.next
      /\ e.live = d.live /\ e.focused = d.focused /\ e.bounds = d.bounds
      /\ e.user_data = d.user_data /\ e.dragged = d.dragged
      /\ e.left_was_pressed = d.left_was_pressed
  BY <1>1, <1>2 DEF Desks
<1> HIDE DEF e
<1>4. Belong(e)
  <2>1. \A w \in d.live : d.user_data[w] \in DOMAIN d.apps
    BY DEF Sound, Belong
  <2>2. QED
    BY <1>2, <1>3, <2>1 DEF Sound, Belong
<1>5. Sound(e, s, K)
  BY <1>3, <1>4 DEF Sound
<1>6. Launched(e, s, d, s, K)
  BY <1>3, <1>5 DEF Launched, Moves
<1>7. QED
  BY <1>6 DEF WithApp, a, e

LEMMA InitWindowFirstSound ==
  ASSUME NEW d, NEW s, NEW K, Sound(d, s, K), NEW i \in DOMAIN d.apps,
         \A v \in d.live : d.user_data[v] # i,
         NEW a, a.data \in BOOLEAN, a.window \in {NULL} \cup (Addr \ d.live),
         DOMAIN K \subseteq d.live
  PROVE  \E t : Launched(InitWindowFirst(d, i, a), t, d, s, K)
<1> DEFINE c == IF a.window = NULL THEN d ELSE Shown(d, i, a.window)
<1>1. \E t : /\ Sound(c, t, K) /\ Moves(s, t) /\ i \in DOMAIN c.apps
             /\ c.dragged = d.dragged /\ c.left_was_pressed = d.left_was_pressed
  <2>1. CASE a.window = NULL
    BY <2>1 DEF Moves
  <2>2. CASE a.window # NULL
    <3>1. a.window \in Addr /\ a.window \notin d.live /\ c = Shown(d, i, a.window)
      BY <2>2
    <3>2. a.window \notin Range(s)
      BY <3>1 DEF Sound
    <3>3. Moves(s, <<a.window>> \o s)
      BY <3>1, <3>2 DEF Moves
    <3> HIDE DEF c
    <3>4. /\ Sound(c, <<a.window>> \o s, K) /\ DOMAIN c.apps = DOMAIN d.apps
          /\ c.dragged = d.dragged /\ c.left_was_pressed = d.left_was_pressed
      BY <3>1, ShownSound
    <3>5. QED
      BY <3>3, <3>4
  <2>3. QED
    BY <2>1, <2>2
<1> HIDE DEF c
<1>2. PICK t : /\ Sound(c, t, K) /\ Moves(s, t) /\ i \in DOMAIN c.apps
               /\ c.dragged = d.dragged /\ c.left_was_pressed = d.left_was_pressed
  BY <1>1
<1> DEFINE r == [c.apps[i] EXCEPT !.data = a.data]
<1>3. c.apps \in Seq(AppRecs) /\ c.apps[i] \in AppRecs /\ c \in Desks
  BY <1>2 DEF Sound, Desks
<1>4. r \in AppRecs /\ r.window = c.apps[i].window
  BY <1>3 DEF AppRecs
<1>5. InitWindowFirst(d, i, a) = WithApp(c, i, r)
  <2>1. InitWindowFirst(d, i, a) = [c EXCEPT !.apps[i].data = a.data]
    BY DEF InitWindowFirst, c
  <2>2. QED
    BY <2>1 DEF WithApp
<1> HIDE DEF r
<1>6. Launched(WithApp(c, i, r), t, c, t, K)
  BY <1>2, <1>4, WithAppSound
<1>7. QED
  BY <1>2, <1>5, <1>6 DEF Launched

\* apps_launch, whatever allocations fail.
LEMMA LaunchSound ==
  ASSUME NEW d, NEW s, NEW K, Sound(d, s, K), NEW type \in AppType,
         NEW a, a.data \in BOOLEAN, a.window \in {NULL} \cup (Addr \ d.live),
         DOMAIN K \subseteq d.live
  PROVE  \E t : Launched(Launch(d, type, a), t, d, s, K)
<1> DEFINE e == AppsCreate(d, type)
           i == Len(e.apps)
<1>1. /\ Sound(e, s, K) /\ e.dragged = d.dragged /\ e.left_was_pressed = d.left_was_pressed
      /\ i \in DOMAIN e.apps /\ e.live = d.live /\ \A w \in e.live : e.user_data[w] # i
  BY AppsCreateSound
<1>2. Launched(d, s, d, s, K) /\ Launched(e, s, d, s, K)
  BY <1>1 DEF Launched, Moves
<1>3. Launch(d, type, a) \in {d, InitDataFirst(e, i, a), InitWindowFirst(e, i, a)}
  BY Zenon DEF Launch
<1>4. InitDataFirst(e, i, a) \in {e, InitWindowFirst(e, i, a)}
  BY DEF InitDataFirst
<1> HIDE DEF e, i
<1>5. PICK t : Launched(InitWindowFirst(e, i, a), t, e, s, K)
  <2>1. a.window \in {NULL} \cup (Addr \ e.live)
    BY <1>1
  <2>2. QED
    BY <1>1, <2>1, InitWindowFirstSound
<1>6. Launched(InitWindowFirst(e, i, a), t, d, s, K)
  BY <1>1, <1>5 DEF Launched
<1>7. QED
  BY <1>2, <1>3, <1>4, <1>6

(***************************************************************************)
(* Focusing and destroying.                                                *)
(***************************************************************************)
\* u is d with its i-th window taken out of the list, the rest of it as it was.
Cut(u, d, s, i) ==
  /\ u \in Desks /\ Linked(u.windows, u.next, RemoveAt(s, i))
  /\ u.focused = d.focused /\ u.dragged = d.dragged /\ u.offset = d.offset
  /\ u.left_was_pressed = d.left_was_pressed /\ u.live = d.live
  /\ u.bounds = d.bounds /\ u.user_data = d.user_data /\ u.apps = d.apps

LEMMA UnlinkedCuts ==
  ASSUME NEW d \in Desks, NEW s, Linked(d.windows, d.next, s), NEW i \in 1 .. Len(s)
  PROVE  Cut(Unlinked(d, s[i]), d, s, i)
<1>1. /\ d.next \in [Addr -> Link] /\ s \in Seq(Addr) /\ Len(s) \in Nat /\ d.windows = At(s, 1)
      /\ \A j, k \in 1 .. Len(s) : s[j] = s[k] => j = k
      /\ \A j \in 1 .. Len(s) : d.next[s[j]] = At(s, j + 1) /\ s[j] \in Addr
  BY DEF Linked, Desks
<1>2. Chain(d) = s /\ Range(s) = {s[j] : j \in 1 .. Len(s)}
  <2>1. Chain(d) = s
    BY <1>1, ChainIs
  <2>2. QED
    BY <1>1, <2>1 DEF Range
<1>3. 1 \in 1 .. Len(s) /\ d.windows = s[1]
  BY <1>1 DEF At
<1> DEFINE w == s[i]
           before == {p \in Range(Chain(d)) : d.next[p] = w}
<1>4. CASE i = 1
  <2>1. Unlinked(d, w) = [d EXCEPT !.windows = d.next[w]]
    BY <1>3, <1>4 DEF Unlinked
  <2>2. d.next[w] \in Link
    BY <1>1
  <2>3. Linked(d.next[w], d.next, RemoveAt(s, 1))
    BY <1>3, <1>4, UnlinkFirst
  <2>4. QED
    BY <1>4, <2>1, <2>2, <2>3 DEF Cut, Desks
<1>5. CASE i # 1
  <2>1. i - 1 \in 1 .. Len(s) /\ i \in 2 .. Len(s) /\ (i - 1) + 1 = i
    BY <1>1, <1>5
  <2>2. d.next[s[i - 1]] = w
    BY <1>1, <2>1 DEF At
  <2>3. d.windows # w
    BY <1>1, <1>3, <1>5
  <2>4. \A p \in Range(s) : d.next[p] = w => p = s[i - 1]
    <3>1. SUFFICES ASSUME NEW j \in 1 .. Len(s), d.next[s[j]] = w
                   PROVE  j = i - 1
      BY <1>2
    <3>2. At(s, j + 1) = s[i] /\ s[i] \in Addr
      BY <1>1, <3>1
    <3>3. j + 1 \in 1 .. Len(s) /\ s[j + 1] = s[i]
      BY <3>2, AddrFacts DEF At
    <3>4. j + 1 = i
      BY <1>1, <3>3
    <3>5. QED
      BY <1>1, <3>4
  <2>5. before = {s[i - 1]}
    BY <1>2, <2>1, <2>2, <2>4
  <2>6. before # {} /\ (CHOOSE p \in before : TRUE) = s[i - 1]
    BY <2>5
  <2>7. Unlinked(d, w) = [d EXCEPT !.next[s[i - 1]] = d.next[w]]
    <3>1. Unlinked(d, w) = [d EXCEPT !.next[CHOOSE p \in before : TRUE] = d.next[w]]
      BY <2>3, <2>6, Zenon DEF Unlinked
    <3> HIDE DEF before
    <3>2. QED
      BY <2>6, <3>1
  <2> DEFINE n == [d.next EXCEPT ![s[i - 1]] = d.next[w]]
  <2>8. n \in [Addr -> Link]
    BY <1>1
  <2>9. Linked(d.windows, n, RemoveAt(s, i))
    BY <1>1, <2>1, UnlinkLater
  <2>10. Unlinked(d, w) = [d EXCEPT !.next = n]
    BY <2>7
  <2> HIDE DEF n
  <2>11. QED
    BY <2>8, <2>9, <2>10 DEF Cut, Desks
<1>6. QED
  BY <1>4, <1>5

\* The window put before the rest is the first of what comes out.
LEMMA RemovePushed ==
  ASSUME NEW r \in Seq(Addr), NEW w \in Addr
  PROVE  RemoveAt(<<w>> \o r, 1) = r
<1> DEFINE t == <<w>> \o r
           x == RemoveAt(t, 1)
<1>1. t \in Seq(Addr) /\ Len(t) = Len(r) + 1 /\ Len(r) \in Nat /\ 1 \in 1 .. Len(t)
  BY PushIs
<1>2. \A j \in 1 .. Len(r) + 1 : t[j] = IF j = 1 THEN w ELSE r[j - 1]
  BY PushIs
<1> HIDE DEF t
<1>3. /\ x \in Seq(Addr) /\ Len(x) = Len(t) - 1
      /\ \A j \in 1 .. Len(t) - 1 : x[j] = IF j < 1 THEN t[j] ELSE t[j + 1]
  BY <1>1, RemoveAtIs
<1> HIDE DEF x
<1>4. Len(x) = Len(r) /\ \A j \in 1 .. Len(r) : x[j] = r[j]
  BY <1>1, <1>2, <1>3
<1>5. x = r
  BY <1>3, <1>4, SeqEqual
<1>6. QED
  BY <1>5 DEF t, x

\* gui_focus_window brings the window to the top and changes nothing else.
Focused(f, t, d, s, i, K) ==
  /\ Sound(f, t, K) /\ Moves(s, t)
  /\ 1 \in 1 .. Len(t) /\ t[1] = s[i] /\ RemoveAt(t, 1) = RemoveAt(s, i)
  /\ f.focused = s[i] /\ f.dragged = d.dragged /\ f.left_was_pressed = d.left_was_pressed
  /\ f.live = d.live /\ f.bounds = d.bounds /\ f.user_data = d.user_data /\ f.apps = d.apps

LEMMA FocusSound ==
  ASSUME NEW d, NEW s, NEW K, Sound(d, s, K), NEW i \in 1 .. Len(s)
  PROVE  \E t : Focused(Focus(d, s[i]), t, d, s, i, K)
<1> DEFINE w == s[i]
           r == RemoveAt(s, i)
           f == Focus(d, w)
<1>1. /\ d \in Desks /\ Linked(d.windows, d.next, s) /\ s \in Seq(Addr) /\ Len(s) \in Nat
      /\ w \in Addr /\ d.focused = d.windows /\ d.windows = At(s, 1) /\ 1 \in 1 .. Len(s)
      /\ \A j, k \in 1 .. Len(s) : s[j] = s[k] => j = k
  BY DEF Sound, Linked
<1>2. d.windows = s[1]
  BY <1>1 DEF At
<1>3. w \in Link
  BY <1>1, AddrFacts
<1>4. CASE d.windows = w
  <2>1. i = 1
    BY <1>1, <1>2, <1>4
  <2>2. f = [d EXCEPT !.focused = w]
    BY <1>4 DEF Focus
  <2>3. f = d
    BY <1>1, <1>4, <2>2 DEF Desks
  <2>4. QED
    BY <1>1, <1>2, <1>4, <2>1, <2>3 DEF Focused, Moves
<1>5. CASE d.windows # w
  <2> DEFINE u == Unlinked(d, w)
             n == [u.next EXCEPT ![w] = u.windows]
             t == <<w>> \o r
  <2>1. Cut(u, d, s, i)
    BY <1>1, UnlinkedCuts
  <2>2. f = [u EXCEPT !.next[w] = u.windows, !.windows = w, !.focused = w]
    BY <1>1, <1>5 DEF Focus
  <2> HIDE DEF u, f
  <2>3. u \in Desks /\ u.next \in [Addr -> Link] /\ u.windows \in Link
          /\ Linked(u.windows, u.next, r) /\ r \in Seq(Addr)
    BY <2>1 DEF Cut, Desks, Linked
  <2>4. w \notin Range(r) /\ Range(r) = Range(s) \ {w}
    BY <1>1, RemovedIsOut
  <2>5. Linked(w, n, t) /\ Range(t) = {w} \cup Range(r)
    BY <1>1, <2>3, <2>4, Push, PushIs
  <2>6. n \in [Addr -> Link] /\ f = [u EXCEPT !.next = n, !.windows = w, !.focused = w]
    BY <2>2, <2>3
  <2>7. w \in Range(s)
    BY <1>1 DEF Range
  <2>8. 1 \in 1 .. Len(t) /\ t[1] = w /\ RemoveAt(t, 1) = r
    <3>1. Len(t) = Len(r) + 1 /\ Len(r) \in Nat
            /\ \A j \in 1 .. Len(r) + 1 : t[j] = IF j = 1 THEN w ELSE r[j - 1]
      BY <1>1, <2>3, PushIs
    <3>2. RemoveAt(t, 1) = r
      BY <1>1, <2>3, RemovePushed
    <3> HIDE DEF t
    <3>3. QED
      BY <3>1, <3>2
  <2>9. Moves(s, t)
    BY <1>1 DEF Moves
  <2> HIDE DEF n, t, r, w
  <2>10. /\ f \in Desks /\ f.windows = w /\ f.next = n /\ f.focused = w
         /\ f.dragged = d.dragged /\ f.left_was_pressed = d.left_was_pressed /\ f.live = d.live
         /\ f.bounds = d.bounds /\ f.user_data = d.user_data /\ f.apps = d.apps
    BY <1>3, <2>1, <2>3, <2>6 DEF Cut, Desks
  <2>11. Range(t) = f.live
    BY <2>4, <2>5, <2>7, <2>10 DEF Sound
  <2>12. Belong(f) /\ \A v \in f.live : Settled(K, v, f.bounds[v])
    BY <2>10 DEF Sound, Belong
  <2>13. Sound(f, t, K)
    BY <2>5, <2>10, <2>11, <2>12 DEF Sound
  <2>14. QED
    BY <2>8, <2>9, <2>10, <2>13 DEF Focused, w, r, f
<1>6. QED
  BY <1>4, <1>5

\* The links of windows that are not in the list do not matter.
LEMMA LinkedElsewhere ==
  ASSUME NEW head, NEW next \in [Addr -> Link], NEW r, Linked(head, next, r),
         NEW w \in Addr, w \notin Range(r), NEW x
  PROVE  Linked(head, [next EXCEPT ![w] = x], r)
<1>1. /\ r \in Seq(Addr) /\ Len(r) \in Nat
      /\ \A j \in 1 .. Len(r) : next[r[j]] = At(r, j + 1) /\ r[j] \in Addr /\ r[j] # w
  BY DEF Linked, Range
<1>2. \A j \in 1 .. Len(r) : [next EXCEPT ![w] = x][r[j]] = next[r[j]]
  BY <1>1
<1>3. QED
  BY <1>1, <1>2 DEF Linked

\* gui_destroy_window of the window at the top.
LEMMA DestroySound ==
  ASSUME NEW d, NEW s, NEW K, Sound(d, s, K), 1 \in 1 .. Len(s)
  PROVE  LET e == Destroy(d, s[1])
         IN  /\ Sound(e, RemoveAt(s, 1), K)
             /\ e.dragged = IF d.dragged = s[1] THEN NULL ELSE d.dragged
             /\ e.left_was_pressed = d.left_was_pressed
<1> DEFINE w == s[1]
           r == RemoveAt(s, 1)
           v == Unlinked(d, w)
           o == IF v.dragged = w THEN NoOffset ELSE v.offset
           g == IF v.dragged = w THEN NULL ELSE v.dragged
           u == Dropped(v, w)
           n == [u.next EXCEPT ![w] = NULL]
           b == [u.bounds EXCEPT ![w] = Rect(0, 0, 1, 1)]
           a == [u.user_data EXCEPT ![w] = NULL]
           l == u.live \ {w}
           e == Destroy(d, w)
<1>1. /\ d \in Desks /\ Linked(d.windows, d.next, s) /\ s \in Seq(Addr) /\ Range(s) = d.live
      /\ w \in Addr /\ d.focused = d.windows /\ d.windows = w
  BY DEF Sound, Linked, At
<1>2. Cut(v, d, s, 1)
  BY <1>1, UnlinkedCuts
<1>3. u = [v EXCEPT !.offset = o, !.dragged = g]
  BY DEF Dropped
<1>4. o \in Offsets /\ g \in Link
  BY <1>2, AddrFacts DEF Cut, Desks, NoOffset, Offsets
<1> HIDE DEF v, o, g, u
<1>5. /\ u \in Desks /\ Linked(u.windows, u.next, r) /\ u.focused = w /\ u.dragged = g
      /\ u.left_was_pressed = d.left_was_pressed /\ u.live = d.live
      /\ u.bounds = d.bounds /\ u.user_data = d.user_data /\ u.apps = d.apps
  BY <1>1, <1>2, <1>3, <1>4 DEF Cut, Desks
<1>6. /\ n \in [Addr -> Link] /\ b \in [Addr -> Rects] /\ a \in [Addr -> Nat] /\ l \in SUBSET Addr
      /\ u.windows \in Link
  <2>1. Rect(0, 0, 1, 1) \in Rects
    BY DEF Rect, Rects
  <2>2. /\ u.next \in [Addr -> Link] /\ u.bounds \in [Addr -> Rects] /\ u.windows \in Link
        /\ u.user_data \in [Addr -> Nat] /\ u.live \in SUBSET Addr
    BY <1>5 DEF Desks
  <2>3. QED
    BY <2>1, <2>2, AddrFacts
<1>7. e = [u EXCEPT !.focused = u.windows, !.live = l, !.next = n, !.bounds = b, !.user_data = a]
  <2>1. e = [u EXCEPT !.focused = IF u.focused = w THEN u.windows ELSE u.focused,
                      !.live = l, !.next[w] = NULL, !.bounds[w] = Rect(0, 0, 1, 1),
                      !.user_data[w] = NULL]
    BY DEF Destroy, u, v
  <2>2. QED
    BY <1>5, <2>1 DEF Desks
<1>8. w \notin Range(r) /\ Range(r) = Range(s) \ {w}
  BY <1>1, RemovedIsOut
<1>9. Linked(u.windows, n, r)
  BY <1>1, <1>5, <1>8, LinkedElsewhere DEF Desks
<1> HIDE DEF w, r, n, e, l
<1>10. /\ e \in Desks /\ e.windows = u.windows /\ e.next = n /\ e.focused = u.windows
       /\ e.dragged = g /\ e.left_was_pressed = d.left_was_pressed /\ e.live = l
       /\ e.bounds = b /\ e.user_data = a /\ e.apps = d.apps
  <2> HIDE DEF a, b
  <2>1. QED
    BY <1>5, <1>6, <1>7 DEF Desks
<1>11. l = d.live \ {w}
  BY <1>5 DEF l
<1>12. \A x \in l : x \in Addr /\ a[x] = d.user_data[x] /\ b[x] = d.bounds[x]
  BY <1>1, <1>5, <1>11 DEF Desks
<1> HIDE DEF a, b
<1>13. Belong(e) /\ \A x \in e.live : Settled(K, x, e.bounds[x])
  BY <1>10, <1>11, <1>12 DEF Sound, Belong
<1>14. Sound(e, r, K)
  BY <1>1, <1>8, <1>9, <1>10, <1>11, <1>13 DEF Sound
<1>15. g = IF d.dragged = w THEN NULL ELSE d.dragged
  BY <1>2 DEF g, Cut
<1>16. QED
  BY <1>10, <1>14, <1>15 DEF e, r, w

(***************************************************************************)
(* Mouse events.                                                           *)
(***************************************************************************)
\* The windows of the list under a point, by their places.
Under(d, s, p) == {i \in 1 .. Len(s) : Inside(p, d.bounds[s[i]])}

\* gui_get_window_at finds the first window of the list under the point.
LEMMA WindowAtIs ==
  ASSUME NEW d, NEW s, NEW K, Sound(d, s, K), NEW p
  PROVE  \/ Under(d, s, p) = {} /\ WindowAt(d, p) = NULL
         \/ \E i \in Under(d, s, p) : WindowAt(d, p) = s[i] /\ \A j \in Under(d, s, p) : i <= j
<1>1. /\ d.next \in [Addr -> Link] /\ Linked(d.windows, d.next, s)
      /\ Len(s) \in Nat /\ DOMAIN s = 1 .. Len(s)
  BY DEF Sound, Desks, Linked
<1>2. Chain(d) = s
  BY <1>1, ChainIs
<1> DEFINE U == Under(d, s, p)
           least == CHOOSE i \in U : \A j \in U : i <= j
<1>3. WindowAt(d, p) = IF U = {} THEN NULL ELSE s[least]
  <2> DEFINE V == {i \in DOMAIN Chain(d) : Inside(p, d.bounds[Chain(d)[i]])}
  <2>1. V = U
    BY <1>1, <1>2 DEF Under
  <2>2. WindowAt(d, p) = IF V = {} THEN NULL ELSE Chain(d)[CHOOSE i \in V : \A j \in V : i <= j]
    BY Zenon DEF WindowAt
  <2> HIDE DEF V, U
  <2>3. QED
    BY <1>2, <2>1, <2>2
<1>4. U \in SUBSET Nat
  BY <1>1 DEF Under
<1> HIDE DEF U
<1>5. CASE U = {}
  BY <1>3, <1>5 DEF U
<1>6. CASE U # {}
  <2>1. \E i \in U : \A j \in U : i <= j
    BY <1>4, <1>6, LeastNat
  <2>2. least \in U /\ \A j \in U : least <= j
    BY <2>1
  <2>3. QED
    BY <1>3, <1>6, <2>2 DEF U
<1>7. QED
  BY <1>5, <1>6

\* The scroll buttons change one record.
LEMMA ScrollSound ==
  ASSUME NEW d, NEW s, NEW K, Sound(d, s, K), NEW i \in DOMAIN d.apps, NEW r, NEW p
  PROVE  Launched(Scroll(d, i, r, p), s, d, s, K)
<1>1. d.apps \in Seq(AppRecs) /\ d.apps[i] \in AppRecs
  BY DEF Sound, Desks
<1> DEFINE app  == d.apps[i]
           up   == [app EXCEPT !.scroll_offset = @ - 1]
           down == [app EXCEPT !.scroll_offset = @ + 1]
<1>2. up \in AppRecs /\ down \in AppRecs /\ up.window = app.window /\ down.window = app.window
  <2>1. app \in AppRecs
    BY <1>1
  <2> HIDE DEF app
  <2>2. QED
    BY <2>1 DEF AppRecs
<1>3. /\ [d EXCEPT !.apps[i].scroll_offset = @ - 1] = WithApp(d, i, up)
      /\ [d EXCEPT !.apps[i].scroll_offset = @ + 1] = WithApp(d, i, down)
  BY DEF WithApp
<1>4. Scroll(d, i, r, p) \in {d, [d EXCEPT !.apps[i].scroll_offset = @ - 1],
                                 [d EXCEPT !.apps[i].scroll_offset = @ + 1]}
  BY Zenon DEF Scroll
<1>5. Launched(d, s, d, s, K)
  BY DEF Launched, Moves
<1>6. Launched(WithApp(d, i, up), s, d, s, K) /\ Launched(WithApp(d, i, down), s, d, s, K)
  <2> HIDE DEF up, down
  <2>1. QED
    BY <1>2, WithAppSound
<1>7. QED
  BY <1>3, <1>4, <1>5, <1>6

\* After a click that began without a drag, only the top window may be dragged.
Clicked(e, t, d, s, K) ==
  /\ Sound(e, t, K) /\ Moves(s, t)
  /\ e.dragged \in {NULL, e.focused} /\ e.left_was_pressed = d.left_was_pressed

WithDrag(d, w, o) == [d EXCEPT !.dragged = w, !.offset = o]

Drags(e, s, d, w, K) ==
  /\ Sound(e, s, K) /\ e.dragged = w /\ e.focused = d.focused
  /\ e.left_was_pressed = d.left_was_pressed

LEMMA DragSound ==
  ASSUME NEW d, NEW s, NEW K, Sound(d, s, K), NEW w \in Link, NEW o \in Offsets
  PROVE  Drags(WithDrag(d, w, o), s, d, w, K)
<1> DEFINE e == WithDrag(d, w, o)
<1>1. d \in Desks
  BY DEF Sound
<1>2. /\ e \in Desks /\ e.apps = d.apps /\ e.windows = d.windows /\ e.next = d.next
      /\ e.live = d.live /\ e.focused = d.focused /\ e.bounds = d.bounds
      /\ e.user_data = d.user_data /\ e.dragged = w
      /\ e.left_was_pressed = d.left_was_pressed
  BY <1>1 DEF WithDrag, Desks
<1> HIDE DEF e
<1>3. Belong(e)
  BY <1>2 DEF Sound, Belong
<1>4. QED
  BY <1>2, <1>3 DEF Drags, Sound, e

LEMMA ClickWindowSound ==
  ASSUME NEW d, NEW s, NEW K, Sound(d, s, K), d.dragged = NULL, NEW i \in 1 .. Len(s),
         NEW p, p.x \in Int, p.y \in Int
  PROVE  \E t : Clicked(ClickWindow(d, s[i], p), t, d, s, K)
<1> DEFINE w == s[i]
           f == Focus(d, w)
           r == f.bounds[w]
           o == [x |-> p.x - r.x, y |-> p.y - r.y]
           g == [f EXCEPT !.dragged = w, !.offset = o]
           c == ClickWindow(d, w, p)
<1>1. PICK t : Focused(f, t, d, s, i, K)
  BY FocusSound
<1>2. c \in {Destroy(f, w), g, f, Scroll(f, f.user_data[w], r, p)}
        /\ (f.user_data[w] = NULL => c \in {Destroy(f, w), g, f})
  BY Zenon DEF ClickWindow
<1> HIDE DEF f, c
<1>3. /\ Sound(f, t, K) /\ Moves(s, t) /\ f \in Desks /\ f.focused = w
      /\ f.dragged = NULL /\ f.left_was_pressed = d.left_was_pressed
      /\ t \in Seq(Addr) /\ 1 \in 1 .. Len(t) /\ t[1] = w /\ RemoveAt(t, 1) = RemoveAt(s, i)
  BY <1>1 DEF Focused, Sound, Linked
<1>4. w \in Addr /\ w \in Link /\ w \in f.live
  BY <1>3, AddrFacts DEF Sound, Range
<1>5. Clicked(f, t, d, s, K)
  BY <1>3 DEF Clicked
<1>6. Clicked(g, t, d, s, K)
  <2>1. r \in Rects
    BY <1>3, <1>4 DEF Desks
  <2>2. o \in Offsets
    <3>1. r.x \in Int /\ r.y \in Int
      BY <2>1 DEF Rects
    <3>2. p.x \in Int /\ p.y \in Int
      OBVIOUS
    <3> HIDE DEF r
    <3>3. p.x - r.x \in Int /\ p.y - r.y \in Int
      BY <3>1, <3>2
    <3>4. QED
      BY <3>3, Zenon DEF Offsets
  <2> HIDE DEF o
  <2>3. Drags(WithDrag(f, w, o), t, f, w, K)
    BY <1>3, <1>4, <2>2, DragSound
  <2>4. g = WithDrag(f, w, o)
    BY DEF WithDrag
  <2> HIDE DEF g
  <2>5. QED
    BY <1>3, <2>3, <2>4 DEF Drags, Clicked
<1>7. Clicked(Destroy(f, w), RemoveAt(t, 1), d, s, K)
  <2>1. /\ Sound(Destroy(f, w), RemoveAt(t, 1), K)
        /\ Destroy(f, w).dragged = IF f.dragged = w THEN NULL ELSE f.dragged
        /\ Destroy(f, w).left_was_pressed = f.left_was_pressed
    BY <1>3, DestroySound
  <2>2. Moves(s, RemoveAt(s, i))
    <3>1. s \in Seq(Addr) /\ DOMAIN s = 1 .. Len(s)
      BY DEF Sound, Linked
    <3>2. QED
      BY <1>4, <3>1 DEF Moves
  <2>3. QED
    BY <1>3, <2>1, <2>2 DEF Clicked
<1>8. f.user_data[w] # NULL => Clicked(Scroll(f, f.user_data[w], r, p), t, d, s, K)
  <2>1. f.user_data[w] \in DOMAIN f.apps
    BY <1>3, <1>4 DEF Sound, Belong
  <2>2. Launched(Scroll(f, f.user_data[w], r, p), t, f, t, K)
    BY <1>3, <2>1, ScrollSound
  <2>3. QED
    BY <1>3, <2>2 DEF Launched, Clicked
<1>9. \E x : Clicked(c, x, d, s, K)
  BY <1>2, <1>5, <1>6, <1>7, <1>8
<1>10. QED
  BY <1>9 DEF c

\* What an allocation may give.
Granted(a, d) == a.data \in BOOLEAN /\ a.window \in {NULL} \cup (Addr \ d.live)

LEMMA PressSound ==
  ASSUME NEW d, NEW s, NEW K, Sound(d, s, K), d.dragged = NULL, NEW p, p.x \in Int, p.y \in Int,
         NEW a, Granted(a, d), DOMAIN K \subseteq d.live
  PROVE  \E t : Clicked(Press(d, p, a), t, d, s, K)
<1> DEFINE w == WindowAt(d, p)
<1>1. CASE w # NULL
  <2>1. PICK i \in 1 .. Len(s) : w = s[i]
    BY <1>1, WindowAtIs DEF Under
  <2>2. Press(d, p, a) = ClickWindow(d, s[i], p)
    BY <1>1, <2>1 DEF Press
  <2>3. QED
    BY <2>2, ClickWindowSound
<1>2. CASE w = NULL
  <2>1. Press(d, p, a) = ClickDesktop(d, p, a)
    BY <1>2 DEF Press
  <2>2. Clicked(d, s, d, s, K)
    BY DEF Clicked, Moves
  <2>3. CASE IconAt(p) = {}
    BY <2>1, <2>2, <2>3 DEF ClickDesktop
  <2>4. CASE IconAt(p) # {}
    <3> DEFINE type == CHOOSE t \in IconAt(p) : TRUE
    <3>1. type \in AppType
      BY <2>4 DEF IconAt
    <3>2. ClickDesktop(d, p, a) = Launch(d, type, a)
      BY <2>4 DEF ClickDesktop
    <3> HIDE DEF type
    <3>3. PICK t : Launched(Launch(d, type, a), t, d, s, K)
      BY <3>1, LaunchSound DEF Granted
    <3>4. Clicked(Launch(d, type, a), t, d, s, K)
      BY <3>3 DEF Launched, Clicked
    <3>5. QED
      BY <2>1, <3>2, <3>4
  <2>5. QED
    BY <2>3, <2>4
<1>3. QED
  BY <1>1, <1>2

\* While there is a drag, its window has the focus and the button is down.
Holds(d) == d.dragged # NULL => d.dragged = d.focused /\ d.left_was_pressed

LEMMA HandleMouseEventSound ==
  ASSUME NEW d, NEW s, NEW K, Sound(d, s, K), Holds(d), NEW m, m.x \in Int, m.y \in Int,
         NEW a, Granted(a, d), DOMAIN K \subseteq d.live
  PROVE  LET e == HandleMouseEvent(d, m, a)
         IN  /\ \E t : Sound(e, t, K) /\ Moves(s, t)
             /\ Holds(e) /\ e.left_was_pressed = ("left" \in m.buttons)
<1> DEFINE left == "left" \in m.buttons
           c == IF left /\ ~d.left_was_pressed THEN Press(d, m, a) ELSE d
           f == IF left THEN c ELSE Dropped(c, c.dragged)
           e == [f EXCEPT !.left_was_pressed = left]
<1>1. HandleMouseEvent(d, m, a) = e
  BY DEF HandleMouseEvent
<1>2. \E t : Clicked(c, t, d, s, K)
  <2>1. CASE left /\ ~d.left_was_pressed
    BY <2>1, PressSound DEF Holds
  <2>2. CASE ~ (left /\ ~d.left_was_pressed)
    BY <2>2 DEF Clicked, Moves, Holds
  <2>3. QED
    BY <2>1, <2>2
<1> HIDE DEF c
<1>3. PICK t : Clicked(c, t, d, s, K)
  BY <1>2
<1>4. Sound(f, t, K) /\ f.dragged \in {NULL, f.focused} /\ (~left => f.dragged = NULL)
  <2>1. CASE left
    BY <1>3, <2>1 DEF Clicked
  <2>2. CASE ~left
    <3>1. f = WithDrag(c, NULL, NoOffset)
      <4>1. f = [c EXCEPT !.offset = NoOffset, !.dragged = NULL]
        BY <2>2 DEF Dropped
      <4>2. c \in Desks
        BY <1>3 DEF Clicked, Sound
      <4>3. QED
        BY <4>1, <4>2 DEF WithDrag, Desks
    <3>2. NULL \in Link /\ NoOffset \in Offsets
      BY AddrFacts DEF NoOffset, Offsets
    <3>3. Sound(c, t, K)
      BY <1>3 DEF Clicked
    <3>4. Drags(WithDrag(c, NULL, NoOffset), t, c, NULL, K)
      BY <3>2, <3>3, DragSound
    <3> HIDE DEF f
    <3>5. QED
      BY <3>1, <3>4 DEF Drags
  <2>3. QED
    BY <2>1, <2>2
<1> HIDE DEF f
<1>5. left \in BOOLEAN /\ f \in Desks
  BY <1>4 DEF Sound
<1>6. /\ e \in Desks /\ e.apps = f.apps /\ e.windows = f.windows /\ e.next = f.next
      /\ e.live = f.live /\ e.focused = f.focused /\ e.bounds = f.bounds
      /\ e.user_data = f.user_data /\ e.dragged = f.dragged /\ e.left_was_pressed = left
  <2> HIDE DEF left
  <2>1. QED
    BY <1>5 DEF Desks
<1> HIDE DEF e
<1>7. Sound(e, t, K)
  <2>1. Belong(e)
    BY <1>4, <1>6 DEF Sound, Belong
  <2>2. QED
    BY <1>4, <1>6, <2>1 DEF Sound
<1>8. Holds(e)
  BY <1>4, <1>6 DEF Holds
<1>9. QED
  BY <1>1, <1>3, <1>6, <1>7, <1>8 DEF Clicked

(***************************************************************************)
(* The main loop.                                                          *)
(***************************************************************************)
\* Only the bounds of w are other than in d.
Placed(e, d) ==
  /\ \A s, K : Sound(d, s, K) => \A L : (\A v \in e.live : Settled(L, v, e.bounds[v])) => Sound(e, s, L)
  /\ e.dragged = d.dragged /\ e.focused = d.focused /\ e.left_was_pressed = d.left_was_pressed
  /\ e.live = d.live

WithBounds(d, w, b) == [d EXCEPT !.bounds[w] = b]

\* In memory where no window lies, nothing of the desktop is written.
Stored(e, d, w, b) == e = IF w \in d.live THEN WithBounds(d, w, b) ELSE d

LEMMA BoundsPlaced ==
  ASSUME NEW d \in Desks, NEW w \in Addr, NEW b \in Rects, NEW e, Stored(e, d, w, b)
  PROVE  /\ Placed(e, d)
         /\ e.bounds = IF w \in d.live THEN [d.bounds EXCEPT ![w] = b] ELSE d.bounds
<1> DEFINE r == IF w \in d.live THEN [d.bounds EXCEPT ![w] = b] ELSE d.bounds
<1>1. r \in [Addr -> Rects]
  BY DEF Desks
<1>2. e = [d EXCEPT !.bounds = r]
  BY DEF Stored, WithBounds, Desks
<1> HIDE DEF r
<1>3. /\ e \in Desks /\ e.apps = d.apps /\ e.windows = d.windows /\ e.next = d.next
      /\ e.live = d.live /\ e.focused = d.focused /\ e.bounds = r
      /\ e.user_data = d.user_data /\ e.dragged = d.dragged
      /\ e.left_was_pressed = d.left_was_pressed
  BY <1>1, <1>2 DEF Desks
<1>4. ASSUME NEW s, NEW K, Sound(d, s, K), NEW L, \A v \in e.live : Settled(L, v, e.bounds[v])
      PROVE  Sound(e, s, L)
  <2>1. Belong(e)
    BY <1>3, <1>4 DEF Sound, Belong
  <2>2. QED
    BY <1>3, <1>4, <2>1 DEF Sound
<1>5. Placed(e, d)
  BY <1>3, <1>4, Zenon DEF Placed
<1>6. QED
  BY <1>3, <1>5 DEF r

\* Where gui_move_window stores a coordinate that it computed from the size,
\* the window is on the screen, above the taskbar.
FitsX(x, r) == x >= 0 /\ x + r.width <= SCREEN_WIDTH
FitsY(y, r) == y >= 0 /\ y + r.height <= SCREEN_HEIGHT - TASKBAR_HEIGHT

LEMMA ClampedXFits ==
  ASSUME NEW x \in Int, NEW width \in Int
  PROVE  /\ ClampedX(x, width) \in Int
         /\ width <= SCREEN_WIDTH => ClampedX(x, width) >= 0 /\ ClampedX(x, width) + width <= SCREEN_WIDTH
<1>1. SCREEN_WIDTH \in Nat
  BY ScreenAssumption
<1>2. QED
  BY <1>1 DEF ClampedX

LEMMA ClampedYFits ==
  ASSUME NEW y \in Int, NEW height \in Int
  PROVE  LET bottom == SCREEN_HEIGHT - TASKBAR_HEIGHT
         IN  /\ ClampedY(y, height) \in Int
             /\ height <= bottom => ClampedY(y, height) >= 0 /\ ClampedY(y, height) + height <= bottom
<1>1. SCREEN_HEIGHT \in Nat /\ TASKBAR_HEIGHT \in Nat
  BY ScreenAssumption
<1>2. QED
  BY <1>1 DEF ClampedY

(***************************************************************************)
(* The invariant.                                                          *)
(***************************************************************************)
\* Nothing is known of where the windows are that went astray.
Loose == [w \in astray |-> desk.bounds[w]]

MoveStages == {"none", "clampX", "clampY", "storeX", "storeY"}

\* The size of a window, wherever it is.
Small(r) == r.width <= SCREEN_WIDTH /\ r.height <= SCREEN_HEIGHT - TASKBAR_HEIGHT

\* What a move that has not lost its window computed is where the window may
\* be: for x after the first step of gui_move_window, stored after the third,
\* for y after the second.
MoveOK ==
  /\ moving \in [window : Link, x : Int, y : Int, lost : BOOLEAN, next : MoveStages]
  /\ moving.next = "none" <=> moving = NoMove
  /\ moving # NoMove /\ ~moving.lost =>
       /\ moving.window \in desk.live
       /\ LET r == desk.bounds[moving.window]
          IN  /\ moving.next \in {"clampY", "storeX"} => FitsX(moving.x, r)
              /\ moving.next = "storeY" => FitsX(r.x, r)
              /\ moving.next \in {"storeX", "storeY"} => FitsY(moving.y, r)

\* The windows are a stack, a drag has the top one and the button, and what
\* the desktop remembers of the button is what the mouse says.
DesktopInv ==
  /\ \E s : Sound(desk, s, Loose)
  /\ astray \subseteq desk.live
  /\ \A w \in desk.live : Small(desk.bounds[w])
  /\ Holds(desk)
  /\ mouse.x \in Int /\ mouse.y \in Int
  /\ desk.left_was_pressed = ("left" \in mouse.buttons)
  /\ MoveOK

LEMMA DesktopInit ==
  ASSUME Init
  PROVE  DesktopInv /\ Sound(desk, << >>, Loose)
<1>1. /\ desk.windows = NULL /\ desk.focused = NULL /\ desk.dragged = NULL
      /\ desk.offset = NoOffset /\ desk.left_was_pressed = FALSE /\ desk.live = {}
      /\ desk.next = [w \in Addr |-> NULL] /\ desk.bounds = [w \in Addr |-> Rect(0, 0, 1, 1)]
      /\ desk.user_data = [w \in Addr |-> NULL] /\ desk.apps = << >>
  BY DEF Init
<1>2. Linked(NULL, [w \in Addr |-> NULL], << >>)
  BY DEF Linked, At
<1>3. Range(<< >>) = {}
  BY DEF Range
<1>4. desk \in Desks
  <2>1. [w \in Addr |-> Rect(0, 0, 1, 1)] \in [Addr -> Rects]
    BY DEF Rect, Rects
  <2>2. << >> \in Seq(AppRecs) /\ NoOffset \in Offsets
    BY DEF NoOffset, Offsets
  <2>3. [w \in Addr |-> NULL] \in [Addr -> Link] /\ [w \in Addr |-> NULL] \in [Addr -> Nat]
          /\ NULL \in Link /\ {} \in SUBSET Addr
    BY AddrFacts
  <2> DEFINE b == [w \in Addr |-> Rect(0, 0, 1, 1)]
             n == [w \in Addr |-> NULL]
  <2>4. desk = [windows |-> NULL, focused |-> NULL, dragged |-> NULL, offset |-> NoOffset,
                left_was_pressed |-> FALSE, live |-> {}, next |-> n,
                bounds |-> b, user_data |-> n, apps |-> << >>]
    BY DEF Init
  <2> HIDE DEF b, n
  <2>5. b \in [Addr -> Rects] /\ n \in [Addr -> Link] /\ n \in [Addr -> Nat]
    BY <2>1, <2>3 DEF b, n
  <2>6. QED
    BY <2>2, <2>3, <2>4, <2>5 DEF Desks
<1>5. Sound(desk, << >>, Loose)
  BY <1>1, <1>2, <1>3, <1>4 DEF Sound, Belong
<1>6. /\ mouse.x \in Int /\ mouse.y \in Int /\ "left" \notin mouse.buttons
      /\ MoveOK /\ astray = {}
  BY ScreenAssumption, AddrFacts DEF Init, NoMove, MoveOK, MoveStages
<1>7. desk.left_was_pressed = ("left" \in mouse.buttons)
  <2>1. ("left" \in mouse.buttons) = FALSE
    BY <1>6
  <2>2. desk.left_was_pressed = FALSE
    BY <1>1
  <2>3. QED
    BY <2>1, <2>2, Zenon
<1>8. Holds(desk)
  BY <1>1 DEF Holds
<1>9. /\ astray \subseteq desk.live
      /\ \A w \in desk.live : Small(desk.bounds[w])
  BY <1>1, <1>6
<1>10. QED
  BY <1>5, <1>6, <1>7, <1>8, <1>9, Zenon DEF DesktopInv

\* What memory grants an application is not where a window lies.
LEMMA AllocationsGranted ==
  ASSUME NEW a, a \in {NothingAllocated} \/ a \in Allocations
  PROVE  Granted(a, desk)
<1>1. CASE a = NothingAllocated
  BY <1>1 DEF NothingAllocated, Granted
<1>2. CASE a \in Allocations /\ a # NothingAllocated
  <2> DEFINE Free == {w \in Addr \ desk.live : \A v \in Addr \ desk.live : w <= v}
  <2>1. a \in [record : {TRUE}, data : BOOLEAN, window : {NULL} \cup Free]
    BY <1>2, Zenon DEF Allocations
  <2>2. {NULL} \cup Free \subseteq {NULL} \cup (Addr \ desk.live)
    OBVIOUS
  <2> HIDE DEF Free
  <2>3. QED
    BY <2>1, <2>2 DEF Granted
<1>3. QED
  BY <1>1, <1>2

\* The coordinates that a packet leads to are numbers.
LEMMA ClampInt ==
  ASSUME NEW n \in Int, NEW size \in Nat
  PROVE  Clamp(n, size) \in Int
BY DEF Clamp

LEMMA SignedByteInt ==
  ASSUME NEW b \in 0 .. 255
  PROVE  SignedByte(b) \in Int
BY DEF SignedByte

\* The stack of windows before and after a step.
Stacked(s, t) == \E K, L : Sound(desk, s, K) /\ Sound(desk', t, L) /\ Moves(s, t)

\* Of a sound desktop other bounds may be known.
LEMMA SoundWith ==
  ASSUME NEW d, NEW s, NEW K, Sound(d, s, K),
         NEW L, \A w \in d.live : Settled(L, w, d.bounds[w])
  PROVE  Sound(d, s, L)
BY DEF Sound

\* A window on the screen is not larger than it.
LEMMA OnScreenSmall ==
  ASSUME NEW r \in Rects, OnScreen(r)
  PROVE  Small(r)
<1>1. SCREEN_WIDTH \in Nat /\ SCREEN_HEIGHT \in Nat /\ TASKBAR_HEIGHT \in Nat
  BY ScreenAssumption
<1>2. QED
  BY <1>1 DEF Rects, OnScreen, Small

\* An event leaves the windows that it does not destroy where they are, and
\* opens others on the screen.
Kept == \A w \in desk'.live : IF w \in desk.live THEN desk'.bounds[w] = desk.bounds[w]
                              ELSE OnScreen(desk'.bounds[w])

LEMMA EventKeeps ==
  ASSUME DesktopInv, NEW s, Sound(desk, s, Loose), NEW n, n.x \in Int, n.y \in Int,
         \/ desk' = desk /\ mouse.buttons = n.buttons
         \/ \E a \in IF IconAt(n) = {} THEN {NothingAllocated} ELSE Allocations :
               desk' = HandleMouseEvent(desk, n, a)
  PROVE  /\ \E t, K : Sound(desk', t, K) /\ Moves(s, t)
         /\ Kept /\ Holds(desk') /\ desk'.left_was_pressed = ("left" \in n.buttons)
<1> DEFINE K == [w \in desk.live |-> desk.bounds[w]]
<1>1. DOMAIN K = desk.live /\ \A w \in desk.live : K[w] = desk.bounds[w]
  OBVIOUS
<1> HIDE DEF K
<1>2. \A w \in desk.live : Settled(K, w, desk.bounds[w])
  BY <1>1 DEF Settled
<1>3. Sound(desk, s, K)
  BY <1>2, SoundWith
<1>4. DOMAIN K \subseteq desk.live /\ Holds(desk)
  BY <1>1 DEF DesktopInv
<1>5. /\ \E t : Sound(desk', t, K) /\ Moves(s, t)
      /\ Holds(desk') /\ desk'.left_was_pressed = ("left" \in n.buttons)
  <2>1. CASE desk' = desk /\ mouse.buttons = n.buttons
    BY <1>3, <1>4, <2>1, Zenon DEF DesktopInv, Moves
  <2>2. ASSUME NEW a, a \in {NothingAllocated} \/ a \in Allocations,
               desk' = HandleMouseEvent(desk, n, a)
        PROVE  /\ \E t : Sound(desk', t, K) /\ Moves(s, t)
               /\ Holds(desk') /\ desk'.left_was_pressed = ("left" \in n.buttons)
    <3>1. Granted(a, desk)
      BY <2>2, AllocationsGranted
    <3> DEFINE e == HandleMouseEvent(desk, n, a)
    <3>2. /\ \E t : Sound(e, t, K) /\ Moves(s, t)
          /\ Holds(e) /\ e.left_was_pressed = ("left" \in n.buttons)
      BY <1>3, <1>4, <3>1, HandleMouseEventSound
    <3> HIDE DEF e
    <3>3. desk' = e
      BY <2>2 DEF e
    <3>4. QED
      BY <3>2, <3>3, Zenon
  <2>3. QED
    BY <2>1, <2>2
<1>6. Kept
  <2>1. PICK t : Sound(desk', t, K)
    BY <1>5
  <2>2. QED
    BY <1>1, <2>1 DEF Sound, Settled, Kept
<1>7. QED
  BY <1>5, <1>6

\* The windows that stay are as settled as they were, and the new ones on the
\* screen.
LEMMA KeptSettles ==
  ASSUME DesktopInv, Kept, NEW s, Sound(desk, s, Loose), NEW t, NEW K, Sound(desk', t, K),
         astray' = astray \cap desk'.live
  PROVE  /\ Sound(desk', t, Loose')
         /\ astray' \subseteq desk'.live
         /\ \A w \in desk'.live : Small(desk'.bounds[w])
<1>1. \A w \in desk'.live : desk'.bounds[w] \in Rects
  BY DEF Sound, Desks
<1>2. ASSUME NEW w \in desk'.live
      PROVE  Settled(Loose', w, desk'.bounds[w]) /\ Small(desk'.bounds[w])
  <2>1. DOMAIN Loose = astray /\ DOMAIN Loose' = astray' /\ \A v \in astray' : Loose'[v] = desk'.bounds[v]
    BY DEF Loose
  <2>2. CASE w \in desk.live
    <3>1. desk'.bounds[w] = desk.bounds[w] /\ Small(desk.bounds[w]) /\ Settled(Loose, w, desk.bounds[w])
      BY <2>2 DEF Kept, DesktopInv, Sound
    <3>2. QED
      BY <2>1, <3>1 DEF Settled
  <2>3. CASE w \notin desk.live
    <3>1. OnScreen(desk'.bounds[w]) /\ w \notin astray
      BY <2>3 DEF Kept, DesktopInv
    <3>2. QED
      BY <1>1, <2>1, <3>1, OnScreenSmall DEF Settled
  <2>4. QED
    BY <2>2, <2>3
<1>3. QED
  BY <1>2, SoundWith

\* A move that the event did not deprive of its window computed the same.
LEMMA MoveKept ==
  ASSUME MoveOK, Kept,
         moving' = [moving EXCEPT !.lost = moving # NoMove /\ (@ \/ moving.window \notin desk'.live)]
  PROVE  MoveOK'
<1> DEFINE Recs == [window : Link, x : Int, y : Int, lost : BOOLEAN, next : MoveStages]
           gone == moving # NoMove /\ (moving.lost \/ moving.window \notin desk'.live)
<1>1. moving \in Recs
  BY DEF MoveOK
<1>2. gone \in BOOLEAN /\ moving' = [moving EXCEPT !.lost = gone]
  OBVIOUS
<1>3. /\ moving' \in Recs /\ moving'.lost = gone /\ moving'.window = moving.window
      /\ moving'.x = moving.x /\ moving'.y = moving.y /\ moving'.next = moving.next
  <2> HIDE DEF gone
  <2>1. QED
    BY <1>1, <1>2
<1>4. moving' = NoMove <=> moving = NoMove
  <2>1. CASE moving = NoMove
    <3>1. gone = FALSE
      BY <2>1
    <3> HIDE DEF gone
    <3>2. QED
      BY <1>2, <2>1, <3>1 DEF NoMove
  <2>2. CASE moving # NoMove
    BY <1>3, <2>2 DEF MoveOK, NoMove
  <2>3. QED
    BY <2>1, <2>2
<1>5. ASSUME moving' # NoMove, ~moving'.lost
      PROVE  /\ moving.window \in desk'.live /\ desk'.bounds[moving.window] = desk.bounds[moving.window]
             /\ moving # NoMove /\ ~moving.lost
  <2>1. moving # NoMove /\ ~moving.lost /\ moving.window \in desk'.live
    BY <1>3, <1>4, <1>5
  <2>2. moving.window \in desk.live
    BY <2>1 DEF MoveOK
  <2>3. QED
    BY <2>1, <2>2 DEF Kept
<1> HIDE DEF gone
<1>6. QED
  BY <1>3, <1>4, <1>5, Zenon DEF MoveOK

LEMMA MousePacketKeeps ==
  ASSUME DesktopInv, NEW buttons \in SUBSET Button, NEW m \in Movement,
         MousePacket(buttons, m[1], m[2])
  PROVE  DesktopInv' /\ \E s, t : Stacked(s, t)
<1>1. m[1] \in 0 .. 255 /\ m[2] \in 0 .. 255
  BY MovementAssumption
<1> DEFINE dx == m[1]
           dy == m[2]
           n == [x |-> Clamp(mouse.x + SignedByte(dx), SCREEN_WIDTH),
                 y |-> Clamp(mouse.y - SignedByte(dy), SCREEN_HEIGHT), buttons |-> buttons]
<1>2. /\ mouse' = n
      /\ IF mouse.buttons = buttons THEN desk' = desk
         ELSE \E a \in IF IconAt(n) = {} THEN {NothingAllocated} ELSE Allocations :
                 desk' = HandleMouseEvent(desk, n, a)
      /\ moving' = [moving EXCEPT !.lost = moving # NoMove /\ (@ \/ moving.window \notin desk'.live)]
      /\ astray' = astray \cap desk'.live
  BY DEF MousePacket
<1>3. n.x \in Int /\ n.y \in Int /\ n.buttons = buttons
  <2>1. /\ mouse.x + SignedByte(dx) \in Int /\ mouse.y - SignedByte(dy) \in Int
        /\ SCREEN_WIDTH \in Nat /\ SCREEN_HEIGHT \in Nat
    BY <1>1, SignedByteInt, ScreenAssumption DEF DesktopInv
  <2> HIDE DEF dx, dy
  <2>2. QED
    BY <2>1, ClampInt
<1> HIDE DEF n
<1>4. PICK s : Sound(desk, s, Loose)
  BY DEF DesktopInv
<1>5. \/ desk' = desk /\ mouse.buttons = n.buttons
      \/ \E a \in IF IconAt(n) = {} THEN {NothingAllocated} ELSE Allocations :
            desk' = HandleMouseEvent(desk, n, a)
  BY <1>2, <1>3, Zenon
<1>6. /\ \E t, K : Sound(desk', t, K) /\ Moves(s, t)
      /\ Kept /\ Holds(desk') /\ desk'.left_was_pressed = ("left" \in n.buttons)
  BY <1>3, <1>4, <1>5, EventKeeps
<1>7. PICK t, K : Sound(desk', t, K) /\ Moves(s, t)
  BY <1>6
<1>8. /\ Sound(desk', t, Loose') /\ astray' \subseteq desk'.live
      /\ \A w \in desk'.live : Small(desk'.bounds[w])
  BY <1>2, <1>4, <1>6, <1>7, KeptSettles
<1>9. MoveOK'
  BY <1>2, <1>6, MoveKept DEF DesktopInv
<1>10. DesktopInv'
  <2>1. mouse'.x \in Int /\ mouse'.y \in Int /\ mouse'.buttons = n.buttons
    BY <1>2, <1>3
  <2>2. desk'.left_was_pressed = ("left" \in mouse'.buttons)
    BY <1>6, <2>1, Zenon
  <2>3. QED
    BY <1>6, <1>8, <1>9, <2>1, <2>2, Zenon DEF DesktopInv
<1>11. QED
  BY <1>4, <1>7, <1>10 DEF Stacked

\* A step of the main loop that writes nothing of the desktop.
LEMMA QuietKeeps ==
  ASSUME DesktopInv, UNCHANGED <<desk, mouse, astray>>, MoveOK'
  PROVE  DesktopInv' /\ \E s, t : Stacked(s, t)
<1>1. Loose' = Loose /\ desk' = desk /\ mouse' = mouse /\ astray' = astray
  BY DEF Loose
<1>2. PICK s : Sound(desk, s, Loose)
  BY DEF DesktopInv
<1>3. Stacked(s, s)
  BY <1>1, <1>2 DEF Stacked, Moves
<1>4. DesktopInv'
  BY <1>1, Zenon DEF DesktopInv
<1>5. QED
  BY <1>3, <1>4

LEMMA UpdateKeeps ==
  ASSUME DesktopInv, Update
  PROVE  DesktopInv' /\ \E s, t : Stacked(s, t)
<1>1. PICK s : Sound(desk, s, Loose)
  BY DEF DesktopInv
<1>2. desk.dragged \in desk.live /\ desk.dragged \in Link /\ desk.offset \in Offsets
  <2>1. desk.dragged # NULL /\ desk.dragged = desk.windows
    BY <1>1 DEF Update, Dragging, DesktopInv, Holds, Sound
  <2>2. Linked(desk.windows, desk.next, s) /\ Range(s) = desk.live
    BY <1>1 DEF Sound
  <2>3. desk.windows = At(s, 1)
    BY <2>2 DEF Linked
  <2>4. 1 \in 1 .. Len(s) /\ desk.windows = s[1] /\ DOMAIN s = 1 .. Len(s)
    BY <2>1, <2>2, <2>3 DEF At, Linked
  <2>5. QED
    BY <1>1, <2>1, <2>2, <2>4 DEF Range, Sound, Desks
<1>3. mouse.x - desk.offset.x \in Int /\ mouse.y - desk.offset.y \in Int
  BY <1>2 DEF Offsets, DesktopInv
<1>4. MoveOK'
  <2>1. /\ moving' = [window |-> desk.dragged, x |-> mouse.x - desk.offset.x,
                      y |-> mouse.y - desk.offset.y, lost |-> FALSE, next |-> "clampX"]
        /\ desk' = desk
    BY DEF Update
  <2>2. QED
    BY <1>2, <1>3, <2>1 DEF MoveOK, NoMove, MoveStages
<1>5. QED
  BY <1>4, QuietKeeps DEF Update

\* The size that gui_move_window reads is that of the window while there is
\* one, and a number in any case.
LEMMA SizesAre ==
  ASSUME DesktopInv, NEW w \in Link, NEW size \in Sizes(w)
  PROVE  /\ size.width \in Int /\ size.height \in Int
         /\ w \in desk.live =>
              /\ size.width = desk.bounds[w].width /\ size.height = desk.bounds[w].height
              /\ size.width <= SCREEN_WIDTH /\ size.height <= SCREEN_HEIGHT - TASKBAR_HEIGHT
<1>1. CASE w \in desk.live
  <2>1. desk.bounds[w] \in Rects /\ Small(desk.bounds[w])
    BY <1>1 DEF DesktopInv, Sound, Desks
  <2>2. size = [width |-> desk.bounds[w].width, height |-> desk.bounds[w].height]
    BY <1>1 DEF Sizes
  <2>3. QED
    BY <2>1, <2>2 DEF Rects, Small
<1>2. CASE w \notin desk.live
  BY <1>2, StaleAssumption DEF Sizes
<1>3. QED
  BY <1>1, <1>2

LEMMA ClampXKeeps ==
  ASSUME DesktopInv, ClampX
  PROVE  DesktopInv' /\ \E s, t : Stacked(s, t)
<1> DEFINE w == moving.window
<1>1. PICK size \in Sizes(w) : 
          moving' = [moving EXCEPT !.x = ClampedX(moving.x, size.width), !.next = "clampY"]
  BY Zenon DEF ClampX
<1>2. /\ moving \in [window : Link, x : Int, y : Int, lost : BOOLEAN, next : MoveStages]
      /\ moving.next = "clampX" /\ moving # NoMove /\ desk' = desk
  BY DEF ClampX, DesktopInv, MoveOK
<1>3. /\ size.width \in Int
      /\ w \in desk.live => size.width = desk.bounds[w].width /\ size.width <= SCREEN_WIDTH
  BY <1>1, <1>2, SizesAre
<1>4. /\ ClampedX(moving.x, size.width) \in Int
      /\ w \in desk.live => FitsX(ClampedX(moving.x, size.width), desk.bounds[w])
  BY <1>2, <1>3, ClampedXFits DEF FitsX
<1> DEFINE c == ClampedX(moving.x, size.width)
<1>5. moving' = [moving EXCEPT !.x = c, !.next = "clampY"]
  BY <1>1
<1> HIDE DEF c
<1>6. /\ moving' \in [window : Link, x : Int, y : Int, lost : BOOLEAN, next : MoveStages]
      /\ moving'.window = w /\ moving'.x = c /\ moving'.lost = moving.lost /\ moving'.next = "clampY"
      /\ moving' # NoMove
  BY <1>2, <1>4, <1>5 DEF c, MoveStages, NoMove
<1>7. MoveOK'
  BY <1>2, <1>4, <1>6 DEF MoveOK, DesktopInv, c
<1>8. QED
  BY <1>7, QuietKeeps DEF ClampX

LEMMA ClampYKeeps ==
  ASSUME DesktopInv, ClampY
  PROVE  DesktopInv' /\ \E s, t : Stacked(s, t)
<1> DEFINE w == moving.window
<1>1. PICK size \in Sizes(w) : 
          moving' = [moving EXCEPT !.y = ClampedY(moving.y, size.height), !.next = "storeX"]
  BY Zenon DEF ClampY
<1>2. /\ moving \in [window : Link, x : Int, y : Int, lost : BOOLEAN, next : MoveStages]
      /\ moving.next = "clampY" /\ moving # NoMove /\ desk' = desk
  BY DEF ClampY, DesktopInv, MoveOK
<1>3. /\ size.height \in Int
      /\ w \in desk.live => /\ size.height = desk.bounds[w].height
                            /\ size.height <= SCREEN_HEIGHT - TASKBAR_HEIGHT
  BY <1>1, <1>2, SizesAre
<1>4. /\ ClampedY(moving.y, size.height) \in Int
      /\ w \in desk.live => FitsY(ClampedY(moving.y, size.height), desk.bounds[w])
  BY <1>2, <1>3, ClampedYFits DEF FitsY
<1> DEFINE c == ClampedY(moving.y, size.height)
<1>5. moving' = [moving EXCEPT !.y = c, !.next = "storeX"]
  BY <1>1
<1> HIDE DEF c
<1>6. /\ moving' \in [window : Link, x : Int, y : Int, lost : BOOLEAN, next : MoveStages]
      /\ moving'.window = w /\ moving'.y = c /\ moving'.x = moving.x
      /\ moving'.lost = moving.lost /\ moving'.next = "storeX" /\ moving' # NoMove
  BY <1>2, <1>4, <1>5 DEF c, MoveStages, NoMove
<1>7. MoveOK'
  BY <1>2, <1>4, <1>6 DEF MoveOK, DesktopInv, c
<1>8. QED
  BY <1>7, QuietKeeps DEF ClampY

\* A store that leaves the size of the window.
LEMMA StoreKeeps ==
  ASSUME DesktopInv, NEW w \in Link, NEW b \in Rects, Stored(desk', desk, w, b),
         w \in desk.live => b.width = desk.bounds[w].width /\ b.height = desk.bounds[w].height,
         \A v \in desk.live \ {w} : v \in astray <=> v \in astray',
         astray' \subseteq desk.live,
         w \in desk.live => w \in astray' \/ OnScreen(b),
         mouse' = mouse, MoveOK'
  PROVE  DesktopInv' /\ \E s, t : Stacked(s, t)
<1>1. PICK s : Sound(desk, s, Loose)
  BY DEF DesktopInv
<1>2. desk \in Desks
  BY <1>1 DEF Sound
<1>3. /\ Placed(desk', desk)
      /\ desk'.bounds = IF w \in desk.live THEN [desk.bounds EXCEPT ![w] = b] ELSE desk.bounds
  <2>1. CASE w \in Addr
    BY <1>2, <2>1, BoundsPlaced
  <2>2. CASE w \notin Addr
    <3>1. w \notin desk.live
      BY <1>2, <2>2 DEF Desks
    <3>2. desk' = desk
      BY <3>1 DEF Stored
    <3>3. \A r, K : Sound(desk, r, K) => \A L : (\A v \in desk.live : Settled(L, v, desk.bounds[v])) => Sound(desk, r, L)
      BY SoundWith
    <3>4. QED
      BY <3>1, <3>2, <3>3 DEF Placed
  <2>3. QED
    BY <2>1, <2>2
<1>4. desk'.live = desk.live /\ desk'.dragged = desk.dragged /\ desk'.focused = desk.focused
        /\ desk'.left_was_pressed = desk.left_was_pressed
  BY <1>3 DEF Placed
<1>5. \A v \in desk.live : v \in Addr /\ desk.bounds[v] \in Rects
  BY <1>2 DEF Desks
<1>6. \A v \in desk.live : desk'.bounds[v] = IF v = w THEN b ELSE desk.bounds[v]
  BY <1>2, <1>3, <1>5 DEF Desks
<1>7. ASSUME NEW v \in desk.live
      PROVE  Settled(Loose', v, desk'.bounds[v]) /\ Small(desk'.bounds[v])
  <2>1. /\ DOMAIN Loose' = astray' /\ \A x \in astray' : Loose'[x] = desk'.bounds[x]
        /\ DOMAIN Loose = astray
    BY DEF Loose
  <2>2. Small(desk.bounds[v]) /\ Settled(Loose, v, desk.bounds[v])
    BY <1>1 DEF DesktopInv, Sound
  <2>3. CASE v = w
    BY <1>6, <2>1, <2>2, <2>3 DEF Settled, Small
  <2>4. CASE v # w
    BY <1>6, <2>1, <2>2, <2>4 DEF Settled
  <2>5. QED
    BY <2>3, <2>4
<1>8. Sound(desk', s, Loose')
  BY <1>1, <1>3, <1>4, <1>7, Zenon DEF Placed
<1>9. Stacked(s, s)
  BY <1>1, <1>8 DEF Stacked, Moves
<1>10. Holds(desk')
  BY <1>4 DEF DesktopInv, Holds
<1>11. desk'.left_was_pressed = ("left" \in mouse'.buttons) /\ mouse'.x \in Int /\ mouse'.y \in Int
  BY <1>4, Zenon DEF DesktopInv
<1>12. astray' \subseteq desk'.live /\ \A v \in desk'.live : Small(desk'.bounds[v])
  BY <1>4, <1>7
<1>13. DesktopInv'
  BY <1>8, <1>10, <1>11, <1>12, Zenon DEF DesktopInv
<1>14. QED
  BY <1>9, <1>13

\* What a store finds: of a window that is there, its bounds.
LEMMA StoreFinds ==
  ASSUME DesktopInv
  PROVE  /\ \A w \in desk.live : w \in Addr /\ w \in Link /\ desk.bounds[w] \in Rects
         /\ \A w \in desk.live \ astray : OnScreen(desk.bounds[w])
<1>1. PICK s : Sound(desk, s, Loose)
  BY DEF DesktopInv
<1>2. DOMAIN Loose = astray
  BY DEF Loose
<1>3. QED
  BY <1>1, <1>2, AddrFacts DEF Sound, Desks, Settled

LEMMA StoreXKeeps ==
  ASSUME DesktopInv, StoreX
  PROVE  DesktopInv' /\ \E s, t : Stacked(s, t)
<1> DEFINE w == moving.window
           b == IF w \in desk.live THEN [desk.bounds[w] EXCEPT !.x = moving.x] ELSE Rect(0, 0, 1, 1)
<1>1. /\ moving.next = "storeX" /\ mouse' = mouse
      /\ moving' = [moving EXCEPT !.x = 0, !.next = "storeY"]
      /\ desk' = IF w \in desk.live THEN [desk EXCEPT !.bounds[w].x = moving.x] ELSE desk
      /\ astray' = IF w \in desk.live /\ moving.lost THEN astray \cup {w} ELSE astray
  BY Zenon DEF StoreX
<1>2. /\ moving \in [window : Link, x : Int, y : Int, lost : BOOLEAN, next : MoveStages]
      /\ moving # NoMove /\ astray \subseteq desk.live
  BY <1>1 DEF DesktopInv, MoveOK
<1>3. /\ b \in Rects
      /\ w \in desk.live => /\ b.x = moving.x /\ b.y = desk.bounds[w].y
                            /\ b.width = desk.bounds[w].width /\ b.height = desk.bounds[w].height
  <2>1. CASE w \in desk.live
    BY <1>2, <2>1, StoreFinds DEF Rects
  <2>2. CASE w \notin desk.live
    BY <2>2 DEF Rect, Rects
  <2>3. QED
    BY <2>1, <2>2
<1>4. Stored(desk', desk, w, b)
  BY <1>1 DEF Stored, WithBounds
<1>5. ~moving.lost => w \in desk.live /\ FitsX(moving.x, desk.bounds[w]) /\ FitsY(moving.y, desk.bounds[w])
  BY <1>1, <1>2 DEF DesktopInv, MoveOK
<1> HIDE DEF b
<1>6. w \in desk.live => w \in astray' \/ OnScreen(b)
  <2>1. ASSUME w \in desk.live, w \notin astray'
        PROVE  OnScreen(b)
    <3>1. ~moving.lost /\ w \notin astray
      BY <1>1, <2>1
    <3>2. OnScreen(desk.bounds[w]) /\ FitsX(moving.x, desk.bounds[w])
      BY <1>5, <2>1, <3>1, StoreFinds
    <3>3. QED
      BY <1>3, <2>1, <3>2 DEF OnScreen, FitsX
  <2>2. QED
    BY <2>1
<1>7. MoveOK'
  <2>1. /\ moving' \in [window : Link, x : Int, y : Int, lost : BOOLEAN, next : MoveStages]
        /\ moving'.window = w /\ moving'.y = moving.y /\ moving'.lost = moving.lost
        /\ moving'.next = "storeY" /\ NoMove.next = "none"
    <3> DEFINE c == 0
    <3>1. moving' = [moving EXCEPT !.x = c, !.next = "storeY"] /\ c \in Int
      BY <1>1
    <3> HIDE DEF c
    <3>2. moving \in [window : Link, x : Int, y : Int, lost : BOOLEAN, next : MoveStages]
      BY <1>2
    <3>3. "storeY" \in MoveStages /\ NoMove.next = "none"
      BY DEF MoveStages, NoMove
    <3>4. QED
      BY <3>1, <3>2, <3>3
  <2>2. ASSUME ~moving.lost
        PROVE  /\ w \in desk'.live
               /\ FitsX(desk'.bounds[w].x, desk'.bounds[w]) /\ FitsY(moving.y, desk'.bounds[w])
    <3>1. w \in desk.live /\ w \in Addr /\ desk \in Desks
      BY <1>5, <2>2, StoreFinds DEF DesktopInv, Sound
    <3>2. /\ Placed(desk', desk)
          /\ desk'.bounds = IF w \in desk.live THEN [desk.bounds EXCEPT ![w] = b] ELSE desk.bounds
      BY <1>3, <1>4, <3>1, BoundsPlaced
    <3>3. desk'.bounds[w] = b
      BY <3>1, <3>2 DEF Desks
    <3>4. desk'.live = desk.live
      BY <3>2, Zenon DEF Placed
    <3>5. QED
      BY <1>3, <1>5, <2>2, <3>1, <3>3, <3>4 DEF FitsX, FitsY
  <2>3. QED
    BY <2>1, <2>2 DEF MoveOK
<1>8. astray' \subseteq desk.live /\ \A v \in desk.live \ {w} : v \in astray <=> v \in astray'
  BY <1>1, <1>2
<1>9. QED
  BY <1>1, <1>2, <1>3, <1>4, <1>6, <1>7, <1>8, StoreKeeps

LEMMA StoreYKeeps ==
  ASSUME DesktopInv, StoreY
  PROVE  DesktopInv' /\ \E s, t : Stacked(s, t)
<1> DEFINE w == moving.window
           b == IF w \in desk.live THEN [desk.bounds[w] EXCEPT !.y = moving.y] ELSE Rect(0, 0, 1, 1)
<1>1. /\ moving.next = "storeY" /\ mouse' = mouse /\ moving' = NoMove
      /\ desk' = IF w \in desk.live THEN [desk EXCEPT !.bounds[w].y = moving.y] ELSE desk
      /\ astray' = IF w \in desk.live /\ moving.lost THEN astray \cup {w} ELSE astray \ {w}
  BY Zenon DEF StoreY
<1>2. /\ moving \in [window : Link, x : Int, y : Int, lost : BOOLEAN, next : MoveStages]
      /\ moving # NoMove /\ astray \subseteq desk.live
  BY <1>1 DEF DesktopInv, MoveOK
<1>3. /\ b \in Rects
      /\ w \in desk.live => /\ b.x = desk.bounds[w].x /\ b.y = moving.y
                            /\ b.width = desk.bounds[w].width /\ b.height = desk.bounds[w].height
  <2>1. CASE w \in desk.live
    BY <1>2, <2>1, StoreFinds DEF Rects
  <2>2. CASE w \notin desk.live
    BY <2>2 DEF Rect, Rects
  <2>3. QED
    BY <2>1, <2>2
<1>4. Stored(desk', desk, w, b)
  BY <1>1 DEF Stored, WithBounds
<1>5. ~moving.lost => /\ w \in desk.live /\ FitsX(desk.bounds[w].x, desk.bounds[w])
                      /\ FitsY(moving.y, desk.bounds[w])
  BY <1>1, <1>2 DEF DesktopInv, MoveOK
<1> HIDE DEF b
<1>6. w \in desk.live => w \in astray' \/ OnScreen(b)
  <2>1. ASSUME w \in desk.live, w \notin astray'
        PROVE  OnScreen(b)
    <3>1. ~moving.lost
      BY <1>1, <2>1
    <3>2. QED
      BY <1>3, <1>5, <2>1, <3>1 DEF OnScreen, FitsX, FitsY
  <2>2. QED
    BY <2>1
<1>7. MoveOK'
  BY <1>1, AddrFacts DEF MoveOK, NoMove, MoveStages
<1>8. astray' \subseteq desk.live /\ \A v \in desk.live \ {w} : v \in astray <=> v \in astray'
  BY <1>1, <1>2
<1>9. QED
  BY <1>1, <1>2, <1>3, <1>4, <1>6, <1>7, <1>8, StoreKeeps

LEMMA DesktopStep ==
  ASSUME DesktopInv, [Next]_vars
  PROVE  DesktopInv' /\ \E s, t : Stacked(s, t)
<1>1. CASE Update
  BY <1>1, UpdateKeeps
<1>2. CASE ClampX
  BY <1>2, ClampXKeeps
<1>3. CASE ClampY
  BY <1>3, ClampYKeeps
<1>4. CASE StoreX
  BY <1>4, StoreXKeeps
<1>5. CASE StoreY
  BY <1>5, StoreYKeeps
<1>6. ASSUME NEW buttons \in SUBSET Button, NEW m \in Movement, MousePacket(buttons, m[1], m[2])
      PROVE  DesktopInv' /\ \E s, t : Stacked(s, t)
  BY <1>6, MousePacketKeeps
<1>7. CASE UNCHANGED vars
  <2>1. desk' = desk /\ mouse' = mouse /\ moving' = moving /\ astray' = astray
    BY <1>7 DEF vars
  <2>2. MoveOK'
    BY <2>1, Zenon DEF DesktopInv, MoveOK
  <2>3. QED
    BY <2>1, <2>2, QuietKeeps
<1>8. QED
  BY <1>1, <1>2, <1>3, <1>4, <1>5, <1>6, <1>7, Zenon DEF Next, MainLoop

LEMMA DesktopInvHolds == Spec => []DesktopInv
<1>1. Init => DesktopInv
  BY DesktopInit
<1>2. DesktopInv /\ [Next]_vars => DesktopInv'
  BY DesktopStep
<1>3. QED
  BY <1>1, <1>2, PTL DEF Spec

(***************************************************************************)
(* The theorems.                                                           *)
(***************************************************************************)
LEMMA SoundChain ==
  ASSUME NEW d, NEW s, NEW K, Sound(d, s, K)
  PROVE  /\ Chain(d) = s /\ s \in Seq(Addr) /\ Len(s) \in Nat /\ DOMAIN s = 1 .. Len(s)
         /\ \A i \in 1 .. Len(s) : s[i] \in Addr /\ s[i] \in d.live
<1>1. d.next \in [Addr -> Link] /\ Linked(d.windows, d.next, s) /\ Range(s) = d.live
  BY DEF Sound, Desks
<1>2. Chain(d) = s
  BY <1>1, ChainIs
<1>3. QED
  BY <1>1, <1>2 DEF Linked, Range

\* The list from gui_system.windows holds exactly the windows that exist, the
\* first has the focus, and a drag never outlives its window, its focus or
\* the left button, whatever mouse events come between the steps of
\* gui_update and gui_move_window.
THEOREM DesktopFocusIsTop == Spec => []FocusIsTop
<1>1. DesktopInv => FocusIsTop
  <2>1. SUFFICES ASSUME DesktopInv
                 PROVE  FocusIsTop
    OBVIOUS
  <2>2. PICK s : Sound(desk, s, Loose)
    BY <2>1 DEF DesktopInv
  <2>3. Range(Chain(desk)) = desk.live /\ desk.focused = desk.windows
    BY <2>2, SoundChain DEF Sound
  <2>4. desk.dragged # NULL => desk.dragged = desk.focused /\ "left" \in mouse.buttons
    BY <2>1, Zenon DEF DesktopInv, Holds
  <2>5. QED
    BY <2>3, <2>4 DEF FocusIsTop
<1>2. QED
  BY <1>1, DesktopInvHolds, PTL

\* Every window belongs to one application, which holds its address, although
\* applications keep the addresses of windows that gui_destroy_window freed
\* and gui_create_window gave to others.
THEOREM DesktopWindowsBelong == Spec => []WindowsBelong
<1>1. DesktopInv => WindowsBelong
  BY DEF DesktopInv, Sound, Belong, WindowsBelong
<1>2. QED
  BY <1>1, DesktopInvHolds, PTL

\* The links that gui_create_window, gui_focus_window and gui_destroy_window
\* change behave as a stack of distinct windows: each step opens one on top,
\* raises one, closes one or leaves the stack alone.
THEOREM DesktopRefinesWindowStack == Spec => RefinesWindowStack
<1>1. Init => Stack!Init
  <2>1. SUFFICES ASSUME Init
                 PROVE  Chain(desk) = << >>
    BY DEF Stack!Init
  <2>2. QED
    BY <2>1, DesktopInit, SoundChain
<1>2. DesktopInv /\ [Next]_vars => [Stack!Next]_(Chain(desk))
  <2>1. SUFFICES ASSUME DesktopInv, [Next]_vars
                 PROVE  [Stack!Next]_(Chain(desk))
    OBVIOUS
  <2>2. PICK s, t : Stacked(s, t)
    BY <2>1, DesktopStep
  <2>3. Chain(desk) = s /\ Chain(desk)' = t /\ Moves(s, t)
    BY <2>2, SoundChain DEF Stacked
  <2>4. CASE t = s
    BY <2>3, <2>4
  <2>5. ASSUME NEW w \in Addr, w \notin Range(s) /\ t = <<w>> \o s
        PROVE  Stack!Next
    <3>1. Stack!Open(w)
      BY <2>3, <2>5 DEF Stack!Open, Stack!Range, Range
    <3>2. QED
      BY <3>1 DEF Stack!Next
  <2>6. ASSUME NEW w \in Addr, NEW i \in DOMAIN s, s[i] = w, t = <<w>> \o RemoveAt(s, i)
        PROVE  Stack!Next
    <3>1. Stack!Raise(w)
      BY <2>3, <2>6 DEF Stack!Raise, Stack!RemoveAt, RemoveAt
    <3>2. QED
      BY <3>1 DEF Stack!Next
  <2>7. ASSUME NEW w \in Addr, NEW i \in DOMAIN s, s[i] = w, t = RemoveAt(s, i)
        PROVE  Stack!Next
    <3>1. Stack!Close(w)
      BY <2>3, <2>7 DEF Stack!Close, Stack!RemoveAt, RemoveAt
    <3>2. QED
      BY <3>1 DEF Stack!Next
  <2>8. QED
    BY <2>3, <2>4, <2>5, <2>6, <2>7 DEF Moves
<1>3. QED
  BY <1>1, <1>2, DesktopInvHolds, PTL DEF Spec, RefinesWindowStack, Stack!Spec

\* What gui_render paints, by its place in the order of painting.
LEMMA RenderIs ==
  ASSUME NEW d, NEW s, NEW K, Sound(d, s, K)
  PROVE  /\ Len(s) \in Nat /\ DOMAIN Render(d) = 1 .. Len(s) + 2
         /\ Render(d)[1] =
              [what |-> "desktop", rect |-> Rect(0, 0, SCREEN_WIDTH, SCREEN_HEIGHT - TASKBAR_HEIGHT)]
         /\ \A i \in 1 .. Len(s) :
              Render(d)[i + 1] = [what |-> ToString(s[i]), rect |-> d.bounds[s[i]]]
         /\ Render(d)[Len(s) + 2] =
              [what |-> "taskbar",
               rect |-> Rect(0, SCREEN_HEIGHT - TASKBAR_HEIGHT, SCREEN_WIDTH, TASKBAR_HEIGHT)]
<1> DEFINE a == [what |-> "desktop", rect |-> Rect(0, 0, SCREEN_WIDTH, SCREEN_HEIGHT - TASKBAR_HEIGHT)]
           z == [what |-> "taskbar",
                 rect |-> Rect(0, SCREEN_HEIGHT - TASKBAR_HEIGHT, SCREEN_WIDTH, TASKBAR_HEIGHT)]
           W(i) == [what |-> ToString(s[i]), rect |-> d.bounds[s[i]]]
           w == [i \in 1 .. Len(s) |-> W(i)]
           L == {a, z} \cup {W(i) : i \in 1 .. Len(s)}
<1>1. Chain(d) = s /\ Len(s) \in Nat /\ DOMAIN s = 1 .. Len(s)
  BY SoundChain
<1>2. Render(d) = <<a>> \o w \o <<z>>
  <2>1. WindowLayers(d) = w
    BY <1>1 DEF WindowLayers
  <2>2. DesktopLayers = <<a>> /\ TaskbarLayers = <<z>>
    BY DEF DesktopLayers, TaskbarLayers, Painted
  <2> HIDE DEF a, z, w
  <2>3. QED
    BY <2>1, <2>2 DEF Render
<1>3. w \in Seq(L) /\ Len(w) = Len(s) /\ \A i \in 1 .. Len(s) : w[i] = W(i)
  <2>1. w \in [1 .. Len(s) -> L]
    BY Zenon
  <2>2. \A i \in 1 .. Len(s) : w[i] = W(i)
    BY Zenon
  <2> HIDE DEF w, W, L
  <2>3. QED
    BY <1>1, <2>1, <2>2
<1>4. a \in L /\ z \in L
  BY Zenon
<1> HIDE DEF a, z, w, W, L
<1>5. /\ <<a>> \o w \in Seq(L) /\ Len(<<a>> \o w) = Len(s) + 1
      /\ \A i \in 1 .. Len(s) + 1 : (<<a>> \o w)[i] = IF i <= 1 THEN a ELSE w[i - 1]
  BY <1>1, <1>3, <1>4
<1> DEFINE v == <<a>> \o w
<1>6. /\ Len(v \o <<z>>) = Len(s) + 2 /\ DOMAIN (v \o <<z>>) = 1 .. Len(s) + 2
      /\ \A i \in 1 .. Len(s) + 2 : (v \o <<z>>)[i] = IF i <= Len(s) + 1 THEN v[i] ELSE z
  <2> HIDE DEF v
  <2>1. v \in Seq(L) /\ Len(v) = Len(s) + 1
    BY <1>5 DEF v
  <2>2. QED
    BY <1>1, <1>4, <2>1
<1>7. Render(d) = v \o <<z>>
  BY <1>2
<1> HIDE DEF v
<1>8. \A i \in 1 .. Len(s) + 1 : v[i] = IF i <= 1 THEN a ELSE w[i - 1]
  BY <1>5 DEF v
<1>9. Render(d)[1] = a /\ Render(d)[Len(s) + 2] = z
  BY <1>1, <1>6, <1>7, <1>8
<1>10. ASSUME NEW i \in 1 .. Len(s)
       PROVE  Render(d)[i + 1] = W(i)
  <2>1. i + 1 \in 1 .. Len(s) + 1 /\ i + 1 \in 1 .. Len(s) + 2 /\ i + 1 <= Len(s) + 1
          /\ ~ (i + 1 <= 1) /\ (i + 1) - 1 = i
    BY <1>1
  <2>2. Render(d)[i + 1] = v[i + 1]
    BY <1>6, <1>7, <2>1
  <2>3. v[i + 1] = w[i]
    BY <1>8, <2>1
  <2>4. QED
    BY <1>3, <2>2, <2>3
<1>11. QED
  BY <1>1, <1>6, <1>7, <1>9, <1>10 DEF a, z, W

LEMMA GreatestIs ==
  ASSUME NEW C, C \subseteq Int, NEW g \in C, \A j \in C : j <= g
  PROVE  (CHOOSE i \in C : \A j \in C : j <= i) = g
<1>1. \A i \in C : (\A j \in C : j <= i) => i = g
  OBVIOUS
<1>2. QED
  BY <1>1, Zenon

\* Of what lies under a point, the last painted is seen.
LEMMA SeenIs ==
  ASSUME NEW d, NEW s, NEW K, Sound(d, s, K), NEW p, NEW g \in 1 .. Len(s) + 2,
         Inside(p, Render(d)[g].rect),
         \A j \in 1 .. Len(s) + 2 : Inside(p, Render(d)[j].rect) => j <= g
  PROVE  Seen(d, p) = Render(d)[g].what
<1> DEFINE C == {i \in DOMAIN Render(d) : Inside(p, Render(d)[i].rect)}
<1>1. /\ C \subseteq Int /\ g \in C /\ \A j \in C : j <= g
  BY RenderIs
<1>2. Seen(d, p) = Render(d)[CHOOSE i \in C : \A j \in C : j <= i].what
  BY Zenon DEF Seen
<1> HIDE DEF C
<1>3. QED
  BY <1>1, <1>2, GreatestIs

\* A set of at most one element of the list has at most one place in it.
LEMMA AtMostOne ==
  ASSUME NEW V, V \subseteq Addr, Cardinality(V) <= 1, NEW v \in V, NEW w \in V
  PROVE  v = w
<1>1. IsFiniteSet(V) /\ Cardinality(V) \in Nat
  BY AddrAssumption, FS_Subset, FS_CardinalityType
<1>2. Cardinality(V) # 0
  BY <1>1, FS_EmptySet
<1>3. Cardinality(V) = 1
  BY <1>1, <1>2
<1>4. QED
  BY <1>1, <1>3, FS_Singleton

\* What a point shows and what a click there reaches.
LEMMA SeenIsReached ==
  ASSUME NEW d, NEW s, NEW K, Sound(d, s, K),
         NEW x \in 0 .. SCREEN_WIDTH - 1, NEW y \in 0 .. SCREEN_HEIGHT - 1,
         NEW p, p = [x |-> x, y |-> y],
         Cardinality({v \in d.live : Inside(p, d.bounds[v])}) <= 1,
         y < SCREEN_HEIGHT - TASKBAR_HEIGHT \/ \A v \in DOMAIN K \cap d.live : ~Inside(p, d.bounds[v])
  PROVE  Seen(d, p) =
           IF WindowAt(d, p) = NULL
           THEN IF y < SCREEN_HEIGHT - TASKBAR_HEIGHT THEN "desktop" ELSE "taskbar"
           ELSE ToString(WindowAt(d, p))
<1> DEFINE n == Len(s)
           w == WindowAt(d, p)
           l == Render(d)
           V == {v \in d.live : Inside(p, d.bounds[v])}
<1>1. /\ SCREEN_WIDTH \in Nat /\ SCREEN_HEIGHT \in Nat /\ TASKBAR_HEIGHT \in 0 .. SCREEN_HEIGHT
      /\ x \in Int /\ y \in Int /\ p.x = x /\ p.y = y
  BY ScreenAssumption
<1>2. /\ n \in Nat /\ DOMAIN l = 1 .. n + 2
      /\ l[1].what = "desktop" /\ l[n + 2].what = "taskbar"
      /\ l[1].rect = Rect(0, 0, SCREEN_WIDTH, SCREEN_HEIGHT - TASKBAR_HEIGHT)
      /\ l[n + 2].rect = Rect(0, SCREEN_HEIGHT - TASKBAR_HEIGHT, SCREEN_WIDTH, TASKBAR_HEIGHT)
      /\ \A i \in 1 .. n : l[i + 1].what = ToString(s[i]) /\ l[i + 1].rect = d.bounds[s[i]]
  <2> HIDE DEF l
  <2>1. /\ n \in Nat /\ DOMAIN l = 1 .. n + 2
        /\ l[1] = [what |-> "desktop", rect |-> Rect(0, 0, SCREEN_WIDTH, SCREEN_HEIGHT - TASKBAR_HEIGHT)]
        /\ \A i \in 1 .. n : l[i + 1] = [what |-> ToString(s[i]), rect |-> d.bounds[s[i]]]
        /\ l[n + 2] = [what |-> "taskbar",
                       rect |-> Rect(0, SCREEN_HEIGHT - TASKBAR_HEIGHT, SCREEN_WIDTH, TASKBAR_HEIGHT)]
    BY RenderIs, Zenon DEF l
  <2>2. l[1].what = "desktop" /\ l[1].rect = Rect(0, 0, SCREEN_WIDTH, SCREEN_HEIGHT - TASKBAR_HEIGHT)
    BY <2>1
  <2>3. /\ l[n + 2].what = "taskbar"
        /\ l[n + 2].rect = Rect(0, SCREEN_HEIGHT - TASKBAR_HEIGHT, SCREEN_WIDTH, TASKBAR_HEIGHT)
    BY <2>1
  <2>4. ASSUME NEW i \in 1 .. n
        PROVE  l[i + 1].what = ToString(s[i]) /\ l[i + 1].rect = d.bounds[s[i]]
    <3>1. l[i + 1] = [what |-> ToString(s[i]), rect |-> d.bounds[s[i]]]
      BY <2>1
    <3>2. QED
      BY <3>1
  <2>5. QED
    BY <2>1, <2>2, <2>3, <2>4, Zenon
<1>3. \A i \in 1 .. n : s[i] \in Addr /\ s[i] \in d.live /\ s[i] # NULL
  BY SoundChain, AddrFacts
<1>4. /\ Inside(p, l[1].rect) <=> y < SCREEN_HEIGHT - TASKBAR_HEIGHT
      /\ Inside(p, l[n + 2].rect) <=> ~ (y < SCREEN_HEIGHT - TASKBAR_HEIGHT)
  BY <1>1, <1>2 DEF Inside, Rect
<1>5. \A i \in 1 .. n : Inside(p, d.bounds[s[i]]) => y < SCREEN_HEIGHT - TASKBAR_HEIGHT
  <2>1. \A v \in d.live : d.bounds[v] \in Rects /\ (v \notin DOMAIN K => OnScreen(d.bounds[v]))
    BY DEF Sound, Desks, Settled
  <2>2. ASSUME NEW r \in Rects, OnScreen(r), Inside(p, r)
        PROVE  y < SCREEN_HEIGHT - TASKBAR_HEIGHT
    BY <1>1, <2>2 DEF Rects, OnScreen, Inside
  <2>3. QED
    BY <1>3, <2>1, <2>2
<1>6. \/ Under(d, s, p) = {} /\ w = NULL
      \/ \E i \in Under(d, s, p) : w = s[i] /\ \A j \in Under(d, s, p) : i <= j
  BY WindowAtIs
<1> HIDE DEF l, w
<1>7. \A j \in 1 .. n + 2 : j = 1 \/ j = n + 2 \/ (j - 1 \in 1 .. n /\ j - 1 + 1 = j)
  BY <1>2
<1>8. \A i \in 1 .. n : i + 1 \in 1 .. n + 2
  BY <1>2
<1>9. CASE \E i \in 1 .. n : Inside(p, d.bounds[s[i]])
  <2>1. PICK i \in Under(d, s, p) : w = s[i]
    BY <1>6, <1>9 DEF Under
  <2>2. i \in 1 .. n /\ Inside(p, d.bounds[s[i]])
    BY <2>1 DEF Under
  <2>3. ASSUME NEW j \in 1 .. n, Inside(p, d.bounds[s[j]])
        PROVE  j = i
    <3>1. s[i] \in V /\ s[j] \in V /\ V \subseteq Addr
      BY <1>3, <2>2, <2>3 DEF Sound, Desks
    <3> HIDE DEF V
    <3>2. s[i] = s[j]
      BY <3>1, AtMostOne DEF V
    <3>3. QED
      BY <2>2, <3>2 DEF Sound, Linked
  <2>4. y < SCREEN_HEIGHT - TASKBAR_HEIGHT
    BY <1>5, <2>2
  <2>5. ASSUME NEW j \in 1 .. n + 2, Inside(p, l[j].rect)
        PROVE  j <= i + 1
    <3>1. CASE j = 1
      BY <2>2, <3>1
    <3>2. CASE j = n + 2
      BY <1>4, <2>4, <2>5, <3>2
    <3>3. CASE j - 1 \in 1 .. n /\ j - 1 + 1 = j
      <4>1. l[j].rect = d.bounds[s[j - 1]]
        BY <1>2, <3>3
      <4>2. j - 1 = i
        BY <2>3, <2>5, <3>3, <4>1
      <4>3. QED
        BY <2>2, <4>2
    <3>4. QED
      BY <1>7, <3>1, <3>2, <3>3
  <2>6. i + 1 \in 1 .. n + 2 /\ Inside(p, l[i + 1].rect) /\ l[i + 1].what = ToString(s[i])
    BY <1>2, <1>8, <2>2
  <2>7. Seen(d, p) = l[i + 1].what
    BY <2>5, <2>6, SeenIs DEF l
  <2>8. w # NULL
    BY <1>3, <2>1, <2>2
  <2>9. QED
    BY <2>1, <2>6, <2>7, <2>8 DEF w
<1>10. CASE ~ \E i \in 1 .. n : Inside(p, d.bounds[s[i]])
  <2>1. w = NULL
    BY <1>6, <1>10 DEF Under
  <2>2. ASSUME NEW j \in 1 .. n + 2, Inside(p, l[j].rect)
        PROVE  j = 1 \/ j = n + 2
    <3>1. ASSUME j - 1 \in 1 .. n, j - 1 + 1 = j
          PROVE  FALSE
      <4>1. l[j].rect = d.bounds[s[j - 1]]
        BY <1>2, <3>1
      <4>2. QED
        BY <1>10, <2>2, <3>1, <4>1
    <3>2. QED
      BY <1>7, <3>1
  <2>3. CASE y < SCREEN_HEIGHT - TASKBAR_HEIGHT
    <3>1. 1 \in 1 .. n + 2 /\ Inside(p, l[1].rect)
      BY <1>2, <1>4, <2>3
    <3>2. \A j \in 1 .. n + 2 : Inside(p, l[j].rect) => j <= 1
      BY <1>2, <1>4, <2>2, <2>3
    <3>3. Seen(d, p) = l[1].what
      BY <3>1, <3>2, SeenIs DEF l
    <3>4. QED
      BY <1>2, <2>1, <2>3, <3>3 DEF w
  <2>4. CASE ~ (y < SCREEN_HEIGHT - TASKBAR_HEIGHT)
    <3>1. n + 2 \in 1 .. n + 2 /\ Inside(p, l[n + 2].rect)
      BY <1>2, <1>4, <2>4
    <3>2. \A j \in 1 .. n + 2 : Inside(p, l[j].rect) => j <= n + 2
      BY <1>2
    <3>3. Seen(d, p) = l[n + 2].what
      BY <3>1, <3>2, SeenIs DEF l
    <3>4. QED
      BY <1>2, <2>1, <2>4, <3>3 DEF w
  <2>5. QED
    BY <2>3, <2>4
<1>11. QED
  BY <1>9, <1>10

\* Where windows do not lie over one another, gui_get_window_at finds what
\* gui_render shows, although one takes the first of the list and the other
\* paints the first of the list first; and gui_move_window leaves no window in
\* part under the taskbar or off the screen but one that was made where the
\* window it moves was destroyed meanwhile, of which nothing is said here
\* where the taskbar is painted over it.
THEOREM DesktopClicksReachWhatIsSeen == Spec => []ClicksReachWhatIsSeen
<1>1. DesktopInv => ClicksReachWhatIsSeen
  <2>1. SUFFICES ASSUME DesktopInv
                 PROVE  ClicksReachWhatIsSeen
    OBVIOUS
  <2>2. PICK s : Sound(desk, s, Loose)
    BY <2>1 DEF DesktopInv
  <2>3. \A x \in 0 .. SCREEN_WIDTH - 1, y \in 0 .. SCREEN_HEIGHT - 1 :
          LET p == [x |-> x, y |-> y]
              w == WindowAt(desk, p)
              above == y < SCREEN_HEIGHT - TASKBAR_HEIGHT
              ground == IF above THEN "desktop" ELSE "taskbar"
              there == {v \in desk.live : Inside(p, desk.bounds[v])}
          IN Cardinality(there) <= 1 /\ (above \/ there \cap astray = {})
               => Seen(desk, p) = IF w = NULL THEN ground ELSE ToString(w)
    <3>1. SUFFICES ASSUME NEW x \in 0 .. SCREEN_WIDTH - 1, NEW y \in 0 .. SCREEN_HEIGHT - 1,
                          NEW p, p = [x |-> x, y |-> y],
                          NEW there, there = {v \in desk.live : Inside(p, desk.bounds[v])},
                          Cardinality(there) <= 1,
                          y < SCREEN_HEIGHT - TASKBAR_HEIGHT \/ there \cap astray = {}
                   PROVE  Seen(desk, p) =
                            IF WindowAt(desk, p) = NULL
                            THEN IF y < SCREEN_HEIGHT - TASKBAR_HEIGHT THEN "desktop" ELSE "taskbar"
                            ELSE ToString(WindowAt(desk, p))
      BY Zenon
    <3>2. DOMAIN Loose = astray
      BY DEF Loose
    <3>3. y < SCREEN_HEIGHT - TASKBAR_HEIGHT \/ \A v \in DOMAIN Loose \cap desk.live : ~Inside(p, desk.bounds[v])
      BY <3>1, <3>2
    <3>4. Cardinality({v \in desk.live : Inside(p, desk.bounds[v])}) <= 1
      BY <3>1, Zenon
    <3>5. QED
      BY <2>2, <3>1, <3>3, <3>4, SeenIsReached
  <2>4. \A w \in desk.live \ astray : OnScreen(desk.bounds[w])
    BY <2>1, StoreFinds
  <2>5. QED
    BY <2>3, <2>4, Zenon DEF ClicksReachWhatIsSeen, OnScreen
<1>2. QED
  BY <1>1, DesktopInvHolds, PTL

(***************************************************************************)
(* The text screen: the buffer.                                            *)
(***************************************************************************)
Line == [Columns -> Cell]

\* What term may be between two changes of one call.
Buffer == [buf : [BufferLines -> Line], row : BufferLines, column : Columns,
           lines : 0 .. TERMINAL_HISTORY_LINES, offset : Nat]

\* Nothing is written behind the last line.
Clean(t) == \A y \in BufferLines : y >= t.lines => t.buf[y] = Blank

TermOK(t) ==
  /\ t \in Buffer /\ t.lines >= 1
  /\ t.offset <= BottomView(t)
  /\ Clean(t)

\* Only lines of the text buffer differ.
SameBut(u, t) == u.row = t.row /\ u.column = t.column /\ u.lines = t.lines /\ u.offset = t.offset

LEMMA ScreenSizes ==
  /\ VGA_WIDTH \in Nat /\ VGA_WIDTH >= 1 /\ VGA_HEIGHT \in Nat /\ VGA_HEIGHT >= 1
  /\ TERMINAL_HISTORY_LINES \in Nat /\ TERMINAL_HISTORY_LINES >= 1
  /\ TabStop \in Nat /\ TabStop >= 1
BY TerminalAssumption

LEMMA BlankIsLine == Blank \in Line
BY DEF Blank, Line, Cell

LEMMA ClearLineIs ==
  ASSUME NEW t \in Buffer, NEW y \in BufferLines, NEW u, u = ClearLine(t, y)
  PROVE  /\ u \in Buffer /\ SameBut(u, t) /\ u.buf[y] = Blank
         /\ \A z \in BufferLines : z # y => u.buf[z] = t.buf[z]
BY BlankIsLine DEF ClearLine, Buffer, SameBut

\* Lines move up by one, row and count with them.
Shifted(u, t) ==
  /\ u.column = t.column /\ u.row = Pred(t.row) /\ u.lines = Pred(t.lines)
  /\ \A y \in BufferLines : y + 1 \in BufferLines => u.buf[y] = t.buf[y + 1]
  /\ u.buf[TERMINAL_HISTORY_LINES - 1] = Blank

LEMMA ShiftIs ==
  ASSUME NEW t \in Buffer, NEW u, u = ShiftHistoryUp(t)
  PROVE  u \in Buffer /\ Shifted(u, t)
<1> DEFINE b == [y \in BufferLines |-> t.buf[IF y + 1 \in BufferLines THEN y + 1 ELSE y]]
           v == [t EXCEPT !.buf = b, !.lines = Pred(@), !.row = Pred(@), !.offset = Pred(@)]
           last == TERMINAL_HISTORY_LINES - 1
<1>1. b \in [BufferLines -> Line]
  BY DEF Buffer
<1>2. \A y \in BufferLines : y + 1 \in BufferLines => b[y] = t.buf[y + 1]
  OBVIOUS
<1>3. u = ClearLine(v, last)
  BY DEF ShiftHistoryUp
<1> HIDE DEF b
<1>4. Pred(t.lines) \in 0 .. TERMINAL_HISTORY_LINES /\ Pred(t.row) \in BufferLines /\ Pred(t.offset) \in Nat
  <2>1. t.lines \in 0 .. TERMINAL_HISTORY_LINES /\ t.row \in BufferLines /\ t.offset \in Nat
    BY DEF Buffer
  <2> DEFINE l == t.lines
             r == t.row
             o == t.offset
  <2> HIDE DEF l, r, o
  <2>2. l \in 0 .. TERMINAL_HISTORY_LINES => Pred(l) \in 0 .. TERMINAL_HISTORY_LINES
    BY ScreenSizes DEF Pred
  <2>3. r \in BufferLines => Pred(r) \in BufferLines
    BY ScreenSizes DEF Pred, BufferLines
  <2>4. o \in Nat => Pred(o) \in Nat
    BY DEF Pred
  <2>5. QED
    BY <2>1, <2>2, <2>3, <2>4, Zenon DEF l, r, o
<1>5. v \in Buffer /\ v.buf = b /\ v.column = t.column /\ v.row = Pred(t.row) /\ v.lines = Pred(t.lines)
  BY <1>1, <1>4 DEF Buffer
<1> HIDE DEF v
<1>6. last \in BufferLines /\ \A y \in BufferLines : y + 1 \in BufferLines => y # last
  BY ScreenSizes DEF BufferLines
<1>7. /\ u \in Buffer /\ SameBut(u, v) /\ u.buf[last] = Blank
      /\ \A z \in BufferLines : z # last => u.buf[z] = v.buf[z]
  BY <1>3, <1>5, <1>6, ClearLineIs
<1>8. QED
  BY <1>2, <1>5, <1>6, <1>7, Zenon DEF Shifted, SameBut

LEMMA ShiftClean ==
  ASSUME NEW t \in Buffer, Clean(t), NEW u, Shifted(u, t)
  PROVE  Clean(u)
<1> SUFFICES ASSUME NEW y \in BufferLines, y >= u.lines
             PROVE  u.buf[y] = Blank
  BY Zenon DEF Clean
<1>1. CASE y = TERMINAL_HISTORY_LINES - 1
  BY <1>1, Zenon DEF Shifted
<1>2. CASE y # TERMINAL_HISTORY_LINES - 1
  <2>1. y + 1 \in BufferLines
    BY <1>2, ScreenSizes DEF BufferLines
  <2>2. y + 1 >= t.lines
    BY ScreenSizes DEF Shifted, Pred, Buffer, BufferLines
  <2>3. QED
    BY <2>1, <2>2, Zenon DEF Shifted, Clean
<1>3. QED
  BY <1>1, <1>2, Zenon

LEMMA RowIs ==
  ASSUME NEW t \in Buffer, Clean(t), NEW r \in BufferLines, NEW u, u = [t EXCEPT !.row = r]
  PROVE  /\ u \in Buffer /\ Clean(u) /\ u.row = r
         /\ u.buf = t.buf /\ u.column = t.column /\ u.lines = t.lines /\ u.offset = t.offset
<1>1. u \in Buffer /\ u.row = r
  BY DEF Buffer
<1>2. u.buf = t.buf /\ u.column = t.column /\ u.lines = t.lines /\ u.offset = t.offset
  BY DEF Buffer
<1>3. QED
  BY <1>1, <1>2, Zenon DEF Clean

LEMMA ColumnIs ==
  ASSUME NEW t \in Buffer, Clean(t), NEW x \in Columns, NEW u, u = [t EXCEPT !.column = x]
  PROVE  /\ u \in Buffer /\ Clean(u) /\ u.column = x
         /\ u.buf = t.buf /\ u.row = t.row /\ u.lines = t.lines /\ u.offset = t.offset
<1>1. u \in Buffer /\ u.column = x
  BY DEF Buffer
<1>2. u.buf = t.buf /\ u.row = t.row /\ u.lines = t.lines /\ u.offset = t.offset
  BY DEF Buffer
<1>3. QED
  BY <1>1, <1>2, Zenon DEF Clean

\* The count of lines includes row r.
LEMMA CountedIs ==
  ASSUME NEW t \in Buffer, Clean(t), NEW r \in BufferLines,
         NEW u, u = [t EXCEPT !.lines = IF r >= t.lines THEN r + 1 ELSE t.lines]
  PROVE  /\ u \in Buffer /\ Clean(u) /\ u.lines >= 1 /\ u.lines >= t.lines
         /\ u.lines = IF r >= t.lines THEN r + 1 ELSE t.lines
         /\ u.buf = t.buf /\ u.row = t.row /\ u.column = t.column /\ u.offset = t.offset
<1> DEFINE n == IF r >= t.lines THEN r + 1 ELSE t.lines
<1>1. n \in 0 .. TERMINAL_HISTORY_LINES /\ n >= 1 /\ n >= t.lines
  <2>1. t.lines \in 0 .. TERMINAL_HISTORY_LINES
    BY DEF Buffer
  <2>2. QED
    BY <2>1, ScreenSizes DEF BufferLines
<1> HIDE DEF n
<1>2. u = [t EXCEPT !.lines = n]
  BY Zenon DEF n
<1>3. u \in Buffer /\ u.lines = n
  BY <1>1, <1>2 DEF Buffer
<1>4. u.buf = t.buf /\ u.row = t.row /\ u.column = t.column /\ u.offset = t.offset
  BY <1>2 DEF Buffer
<1>5. \A y \in BufferLines : y >= n => y >= t.lines
  BY <1>1 DEF Buffer, BufferLines
<1>6. Clean(u)
  BY <1>3, <1>4, <1>5, Zenon DEF Clean
<1>7. QED
  BY <1>1, <1>3, <1>4, <1>6, Zenon DEF n

LEMMA ToBottomIs ==
  ASSUME NEW t \in Buffer, Clean(t), t.lines >= 1, NEW u, u = ToBottom(t)
  PROVE  /\ TermOK(u)
         /\ u.buf = t.buf /\ u.row = t.row /\ u.column = t.column /\ u.lines = t.lines
<1>1. BottomView(t) \in Nat
  BY ScreenSizes DEF BottomView, Buffer
<1> DEFINE n == BottomView(t)
<1> HIDE DEF n
<1>2. u = [t EXCEPT !.offset = n]
  BY Zenon DEF ToBottom, n
<1>3. u \in Buffer /\ u.offset = n
  BY <1>1, <1>2 DEF Buffer, n
<1>4. u.buf = t.buf /\ u.row = t.row /\ u.column = t.column /\ u.lines = t.lines
  BY <1>2 DEF Buffer
<1>5. BottomView(u) = n
  BY <1>4, Zenon DEF BottomView, n
<1>6. Clean(u)
  BY <1>4, Zenon DEF Clean
<1>7. n <= n
  BY <1>1 DEF n
<1>8. QED
  BY <1>3, <1>4, <1>5, <1>6, <1>7, Zenon DEF TermOK

LEMMA ClearLineClean ==
  ASSUME NEW t \in Buffer, Clean(t), NEW y \in BufferLines, NEW u, u = ClearLine(t, y)
  PROVE  Clean(u)
<1>1. /\ SameBut(u, t) /\ u.buf[y] = Blank
      /\ \A z \in BufferLines : z # y => u.buf[z] = t.buf[z]
  BY ClearLineIs
<1>2. QED
  BY <1>1, Zenon DEF Clean, SameBut

\* u is t with one more line, for which the first one is given up when t is full.
Fed(u, t) ==
  /\ u.lines = IF t.lines < TERMINAL_HISTORY_LINES THEN t.lines + 1 ELSE t.lines
  /\ u.row = u.lines - 1 /\ u.buf[u.row] = Blank
  /\ \A y \in BufferLines :
       y < u.row => u.buf[y] = t.buf[IF t.lines < TERMINAL_HISTORY_LINES THEN y ELSE y + 1]

LEMMA ScrollIs ==
  ASSUME NEW t \in Buffer, Clean(t), NEW u, u = VgaScroll(t)
  PROVE  TermOK(u) /\ u.column = t.column /\ (t.row = t.lines - 1 => Fed(u, t))
<1> DEFINE full  == t.lines >= TERMINAL_HISTORY_LINES
           room  == IF full THEN ShiftHistoryUp(t) ELSE t
           ends  == room.row + 1 >= TERMINAL_HISTORY_LINES
           below == IF ends THEN ShiftHistoryUp(room) ELSE [room EXCEPT !.row = room.row + 1]
           counted == [below EXCEPT !.lines = IF below.row >= below.lines THEN below.row + 1 ELSE below.lines]
           w == ClearLine(counted, counted.row)
<1>1. u = ToBottom(w)
  BY Zenon DEF VgaScroll
<1>2. /\ room \in Buffer /\ Clean(room) /\ room.column = t.column
      /\ full => Shifted(room, t)
      /\ ~ full => room = t
  <2>1. CASE full
    <3>1. room = ShiftHistoryUp(t)
      BY <2>1, Zenon
    <3> HIDE DEF room, full
    <3>2. room \in Buffer /\ Shifted(room, t)
      BY <3>1, ShiftIs
    <3>3. Clean(room)
      BY <3>2, ShiftClean
    <3>4. QED
      BY <2>1, <3>2, <3>3, Zenon DEF Shifted
  <2>2. CASE ~ full
    BY <2>2, Zenon
  <2>3. QED
    BY <2>1, <2>2, Zenon
<1> HIDE DEF full, room
<1>3. /\ below \in Buffer /\ Clean(below) /\ below.column = room.column
      /\ ends => Shifted(below, room)
      /\ ~ ends => /\ below.row = room.row + 1
                   /\ below.buf = room.buf /\ below.lines = room.lines
  <2>1. CASE ends
    <3>1. below = ShiftHistoryUp(room)
      BY <2>1, Zenon
    <3> HIDE DEF below, ends
    <3>2. below \in Buffer /\ Shifted(below, room)
      BY <1>2, <3>1, ShiftIs
    <3>3. Clean(below)
      BY <1>2, <3>2, ShiftClean
    <3>4. QED
      BY <2>1, <3>2, <3>3, Zenon DEF Shifted
  <2>2. CASE ~ ends
    <3>1. below = [room EXCEPT !.row = room.row + 1]
      BY <2>2, Zenon
    <3>2. room.row \in BufferLines
      BY <1>2 DEF Buffer
    <3>3. room.row + 1 \in BufferLines
      BY <2>2, <3>2, ScreenSizes DEF BufferLines
    <3> HIDE DEF below, ends
    <3>4. /\ below \in Buffer /\ Clean(below) /\ below.row = room.row + 1
          /\ below.buf = room.buf /\ below.column = room.column /\ below.lines = room.lines
      BY <1>2, <3>1, <3>3, RowIs
    <3>5. QED
      BY <2>2, <3>4, Zenon
  <2>3. QED
    BY <2>1, <2>2, Zenon
<1> HIDE DEF below
<1>4. /\ counted \in Buffer /\ Clean(counted) /\ counted.lines >= 1
      /\ counted.lines = IF below.row >= below.lines THEN below.row + 1 ELSE below.lines
      /\ counted.buf = below.buf /\ counted.row = below.row /\ counted.column = below.column
  <2>1. below.row \in BufferLines
    BY <1>3 DEF Buffer
  <2>2. QED
    BY <1>3, <2>1, CountedIs
<1> HIDE DEF counted
<1>5. counted.row \in BufferLines
  BY <1>4 DEF Buffer
<1>6. /\ w \in Buffer /\ SameBut(w, counted) /\ w.buf[counted.row] = Blank
      /\ \A z \in BufferLines : z # counted.row => w.buf[z] = counted.buf[z]
  BY <1>4, <1>5, ClearLineIs
<1>7. Clean(w)
  BY <1>4, <1>5, ClearLineClean
<1> HIDE DEF w
<1>8. w.lines >= 1
  BY <1>4, <1>6, Zenon DEF SameBut
<1>9. /\ TermOK(u)
      /\ u.buf = w.buf /\ u.row = w.row /\ u.column = w.column /\ u.lines = w.lines
  BY <1>1, <1>6, <1>7, <1>8, ToBottomIs
<1>10. /\ u.column = t.column /\ u.row = below.row
       /\ u.lines = IF below.row >= below.lines THEN below.row + 1 ELSE below.lines
       /\ u.buf[u.row] = Blank
       /\ \A z \in BufferLines : z # u.row => u.buf[z] = below.buf[z]
  BY <1>2, <1>3, <1>4, <1>6, <1>9, Zenon DEF SameBut
<1>11. ASSUME t.row = t.lines - 1
       PROVE  Fed(u, t)
  <2> DEFINE H == TERMINAL_HISTORY_LINES
  <2>1. t.row \in 0 .. H - 1 /\ t.lines \in 0 .. H /\ H \in Nat /\ H >= 1
    BY ScreenSizes DEF Buffer, BufferLines
  <2>2. CASE ~ full
    <3>1. room.row = t.row /\ room.lines = t.lines /\ room.buf = t.buf
      BY <1>2, <2>2, Zenon
    <3>2. t.lines < H
      BY <2>1, <2>2 DEF full
    <3>3. ~ ends
      BY <1>11, <2>1, <3>1, <3>2
    <3>4. below.row = t.row + 1 /\ below.buf = t.buf /\ below.lines = t.lines
      BY <1>3, <3>1, <3>3, Zenon
    <3>5. u.row = t.lines /\ u.lines = t.lines + 1 /\ u.row = u.lines - 1
      BY <1>10, <1>11, <2>1, <3>4
    <3>6. \A y \in BufferLines : y < u.row => y # u.row
      BY <2>1, <3>5 DEF BufferLines
    <3>7. QED
      BY <1>10, <3>2, <3>4, <3>5, <3>6, Zenon DEF Fed
  <2>3. CASE full
    <3>1. Shifted(room, t) /\ t.lines = H /\ t.row = H - 1
      BY <1>2, <1>11, <2>1, <2>3 DEF full
    <3>2. CASE H = 1
      <4>1. room.row = 0 /\ room.lines = 0
        BY <3>1, <3>2 DEF Shifted, Pred
      <4>2. ends
        BY <3>2, <4>1
      <4>3. below.row = 0 /\ below.lines = 0
        BY <1>3, <4>1, <4>2 DEF Shifted, Pred
      <4>4. u.row = 0 /\ u.lines = 1 /\ u.row = u.lines - 1 /\ ~ (t.lines < H) /\ u.lines = t.lines
        BY <1>10, <3>1, <3>2, <4>3
      <4>5. \A y \in BufferLines : ~ (y < u.row)
        BY <4>4 DEF BufferLines
      <4>6. QED
        BY <1>10, <4>4, <4>5, Zenon DEF Fed
    <3>3. CASE H # 1
      <4>1. room.row = H - 2 /\ room.lines = H - 1
        BY <2>1, <3>1, <3>3 DEF Shifted, Pred
      <4>2. ~ ends
        BY <2>1, <3>3, <4>1
      <4>3. below.row = H - 1 /\ below.lines = H - 1 /\ below.buf = room.buf
        BY <1>3, <2>1, <4>1, <4>2
      <4>4. u.row = H - 1 /\ u.lines = H /\ u.row = u.lines - 1 /\ ~ (t.lines < H) /\ u.lines = t.lines
        BY <1>10, <2>1, <3>1, <4>3
      <4>5. \A y \in BufferLines : y < u.row => y # u.row /\ y + 1 \in BufferLines
        BY <2>1, <4>4 DEF BufferLines
      <4>6. \A y \in BufferLines : y < u.row => u.buf[y] = t.buf[y + 1]
        <5> SUFFICES ASSUME NEW y \in BufferLines, y < u.row
                     PROVE  u.buf[y] = t.buf[y + 1]
          OBVIOUS
        <5>1. y # u.row /\ y + 1 \in BufferLines
          BY <4>5
        <5>2. u.buf[y] = below.buf[y] /\ below.buf = room.buf
          BY <1>10, <4>3, <5>1, Zenon
        <5>3. room.buf[y] = t.buf[y + 1]
          BY <3>1, <5>1, Zenon DEF Shifted
        <5>4. QED
          BY <5>2, <5>3, Zenon
      <4>7. QED
        BY <1>10, <4>4, <4>6, Zenon DEF Fed
    <3>4. QED
      BY <3>2, <3>3, Zenon
  <2>4. QED
    BY <2>2, <2>3, Zenon
<1>12. QED
  BY <1>9, <1>10, <1>11, Zenon

LEMMA BottomGrows ==
  ASSUME NEW t \in Buffer, NEW u \in Buffer, t.lines <= u.lines
  PROVE  BottomView(t) \in Nat /\ BottomView(t) <= BottomView(u)
<1>1. t.lines \in Nat /\ u.lines \in Nat
  BY DEF Buffer, BufferLines
<1>2. QED
  BY <1>1, ScreenSizes DEF BottomView

\* u is t with c at x of line y.
Stroke(u, t, c, x, y) ==
  /\ u.row = t.row /\ u.column = t.column /\ u.offset = t.offset
  /\ u.lines = IF y >= t.lines THEN y + 1 ELSE t.lines
  /\ u.buf[y] = [t.buf[y] EXCEPT ![x] = c]
  /\ \A z \in BufferLines : z # y => u.buf[z] = t.buf[z]

LEMMA EntryIs ==
  ASSUME NEW t, TermOK(t), NEW c \in Cell, NEW x \in Columns, NEW y \in BufferLines,
         NEW u, u = PutEntryAt(t, c, x, y)
  PROVE  TermOK(u) /\ Stroke(u, t, c, x, y)
<1> DEFINE v == [t EXCEPT !.buf[y][x] = c]
<1>1. t \in Buffer /\ t.lines >= 1 /\ t.offset <= BottomView(t) /\ Clean(t)
  BY Zenon DEF TermOK
<1>2. /\ v \in Buffer /\ v.buf[y] = [t.buf[y] EXCEPT ![x] = c]
      /\ \A z \in BufferLines : z # y => v.buf[z] = t.buf[z]
  BY <1>1 DEF Buffer, Line
<1>3. v.row = t.row /\ v.column = t.column /\ v.offset = t.offset /\ v.lines = t.lines
  BY <1>1 DEF Buffer
<1>4. u = [v EXCEPT !.lines = IF y >= v.lines THEN y + 1 ELSE v.lines]
  BY <1>1 DEF PutEntryAt, Buffer
<1> HIDE DEF v
<1> DEFINE n == IF y >= v.lines THEN y + 1 ELSE v.lines
<1>5. n \in 0 .. TERMINAL_HISTORY_LINES /\ n >= 1 /\ n >= t.lines /\ y < n
  <2>1. v.lines \in 0 .. TERMINAL_HISTORY_LINES
    BY <1>2 DEF Buffer
  <2>2. QED
    BY <1>3, <2>1, ScreenSizes DEF BufferLines
<1>6. u = [v EXCEPT !.lines = n]
  BY <1>4, Zenon
<1>7. n = IF y >= t.lines THEN y + 1 ELSE t.lines
  BY <1>3, Zenon
<1> HIDE DEF n
<1>8. u \in Buffer /\ u.lines = n
  BY <1>2, <1>5, <1>6 DEF Buffer
<1>9. u.buf = v.buf /\ u.row = v.row /\ u.column = v.column /\ u.offset = v.offset
  BY <1>2, <1>6 DEF Buffer
<1>10. Stroke(u, t, c, x, y)
  BY <1>2, <1>3, <1>7, <1>8, <1>9, Zenon DEF Stroke
<1>11. \A z \in BufferLines : z >= n => z # y /\ z >= t.lines
  <2>1. t.lines \in Nat
    BY <1>1 DEF Buffer
  <2>2. QED
    BY <1>5, <2>1 DEF BufferLines
<1>12. Clean(u)
  BY <1>1, <1>8, <1>10, <1>11, Zenon DEF Clean, Stroke
<1>13. u.offset <= BottomView(u)
  <2>1. BottomView(t) \in Nat /\ BottomView(t) <= BottomView(u) /\ BottomView(u) \in Nat
    <3>1. t.lines <= u.lines
      BY <1>1, <1>5, <1>8 DEF Buffer
    <3>2. u.lines <= u.lines
      BY <1>8 DEF Buffer
    <3>3. QED
      BY <1>1, <1>8, <3>1, <3>2, BottomGrows
  <2>2. u.offset = t.offset /\ t.offset \in Nat
    BY <1>1, <1>3, <1>9 DEF Buffer
  <2>3. QED
    BY <1>1, <2>1, <2>2
<1>14. QED
  BY <1>5, <1>8, <1>10, <1>12, <1>13, Zenon DEF TermOK

LEMMA ColumnOK ==
  ASSUME NEW t, TermOK(t), NEW x \in Columns, NEW u, u = [t EXCEPT !.column = x]
  PROVE  /\ TermOK(u) /\ u.column = x
         /\ u.buf = t.buf /\ u.row = t.row /\ u.lines = t.lines /\ u.offset = t.offset
<1>1. t \in Buffer /\ t.lines >= 1 /\ t.offset <= BottomView(t) /\ Clean(t)
  BY Zenon DEF TermOK
<1>2. /\ u \in Buffer /\ Clean(u) /\ u.column = x
      /\ u.buf = t.buf /\ u.row = t.row /\ u.lines = t.lines /\ u.offset = t.offset
  BY <1>1, ColumnIs
<1>3. BottomView(u) = BottomView(t)
  <2>1. u.lines = t.lines
    BY <1>2, Zenon
  <2>2. QED
    BY <2>1 DEF BottomView
<1>4. QED
  BY <1>1, <1>2, <1>3, Zenon DEF TermOK

LEMMA ScrollHome ==
  ASSUME NEW t, TermOK(t), NEW u, u = VgaScroll([t EXCEPT !.column = 0])
  PROVE  TermOK(u) /\ u.column = 0 /\ (t.row = t.lines - 1 => Fed(u, t))
<1> DEFINE v == [t EXCEPT !.column = 0]
<1>1. 0 \in Columns
  BY ScreenSizes DEF Columns
<1>2. /\ TermOK(v) /\ v.column = 0
      /\ v.buf = t.buf /\ v.row = t.row /\ v.lines = t.lines
  BY <1>1, ColumnOK
<1>3. v \in Buffer /\ Clean(v)
  BY <1>2, Zenon DEF TermOK
<1> HIDE DEF v
<1>4. u = VgaScroll(v)
  BY Zenon DEF v
<1>5. TermOK(u) /\ u.column = v.column /\ (v.row = v.lines - 1 => Fed(u, v))
  BY <1>3, <1>4, ScrollIs
<1>6. Fed(u, v) => Fed(u, t)
  BY <1>2, Zenon DEF Fed
<1>7. QED
  BY <1>2, <1>5, <1>6, Zenon

\* What each character does to the buffer: the cases of vga_putchar.
LEMMA NewlineIs ==
  ASSUME NEW t, TermOK(t), NEW u, u = Putchar(t, "newline")
  PROVE  TermOK(u) /\ u.column = 0 /\ (t.row = t.lines - 1 => Fed(u, t))
<1>1. u = VgaScroll([t EXCEPT !.column = 0])
  BY DEF Putchar
<1>2. QED
  BY <1>1, ScrollHome

LEMMA ReturnIs ==
  ASSUME NEW t, TermOK(t), NEW u, u = Putchar(t, "return")
  PROVE  /\ TermOK(u) /\ u.column = 0
         /\ u.buf = t.buf /\ u.row = t.row /\ u.lines = t.lines /\ u.offset = t.offset
<1>1. u = [t EXCEPT !.column = 0]
  BY DEF Putchar
<1>2. 0 \in Columns
  BY ScreenSizes DEF Columns
<1>3. QED
  BY <1>1, <1>2, ColumnOK

Erased(u, t) ==
  /\ u.column = t.column - 1 /\ u.row = t.row
  /\ u.lines = IF t.row >= t.lines THEN t.row + 1 ELSE t.lines
  /\ u.buf[t.row] = [t.buf[t.row] EXCEPT ![t.column - 1] = Space]
  /\ \A z \in BufferLines : z # t.row => u.buf[z] = t.buf[z]

LEMMA BackspaceIs ==
  ASSUME NEW t, TermOK(t), NEW u, u = Putchar(t, "backspace")
  PROVE  /\ TermOK(u)
         /\ t.column = 0 => u = t
         /\ t.column > 0 => Erased(u, t)
<1>1. t.column \in Columns /\ t.row \in BufferLines
  BY DEF TermOK, Buffer
<1>2. CASE t.column = 0
  <2>1. u = t
    BY <1>2 DEF Putchar
  <2>2. ~ (t.column > 0)
    BY <1>2
  <2>3. QED
    BY <2>1, <2>2, Zenon
<1>3. CASE t.column # 0
  <2> DEFINE x == t.column - 1
             v == [t EXCEPT !.column = x]
             r == t.row
  <2>1. x \in Columns /\ t.column > 0
    BY <1>1, <1>3, ScreenSizes DEF Columns
  <2>2. u = PutEntryAt(v, Space, x, r)
    BY <1>3, <2>1 DEF Putchar
  <2> HIDE DEF x
  <2>3. /\ TermOK(v) /\ v.column = x
        /\ v.buf = t.buf /\ v.row = t.row /\ v.lines = t.lines
    BY <2>1, ColumnOK
  <2> HIDE DEF v, r
  <2>4. Space \in Cell /\ r \in BufferLines
    BY <1>1, Zenon DEF Cell, r
  <2>5. TermOK(u) /\ Stroke(u, v, Space, x, r)
    BY <2>1, <2>2, <2>3, <2>4, EntryIs
  <2>6. /\ u.column = x /\ u.row = r
        /\ u.lines = IF r >= t.lines THEN r + 1 ELSE t.lines
        /\ u.buf[r] = [t.buf[r] EXCEPT ![x] = Space]
        /\ \A z \in BufferLines : z # r => u.buf[z] = t.buf[z]
    BY <2>3, <2>5, Zenon DEF Stroke, r
  <2>7. Erased(u, t)
    BY <2>6, Zenon DEF x, r, Erased
  <2>8. QED
    BY <1>3, <2>5, <2>7, Zenon
<1>4. QED
  BY <1>2, <1>3, Zenon

\* c is written at the cursor, which goes on or to a new line.
Typeset(u, v, t, c) ==
  /\ TermOK(v) /\ Stroke(v, t, c, t.column, t.row)
  /\ t.column + 1 >= VGA_WIDTH => u.column = 0 /\ (v.row = v.lines - 1 => Fed(u, v))
  /\ ~ (t.column + 1 >= VGA_WIDTH) =>
       u.column = t.column + 1 /\ u.buf = v.buf /\ u.row = v.row /\ u.lines = v.lines

LEMMA GlyphIs ==
  ASSUME NEW t, TermOK(t), NEW c \in Cell \ Control, NEW u, u = Putchar(t, c)
  PROVE  /\ TermOK(u)
         /\ \E v : Typeset(u, v, t, c)
<1> DEFINE v == PutEntryAt(t, c, t.column, t.row)
<1>1. t.column \in Columns /\ t.row \in BufferLines /\ c \in Cell
  BY DEF TermOK, Buffer
<1>2. TermOK(v) /\ Stroke(v, t, c, t.column, t.row)
  BY <1>1, EntryIs
<1>3. u = IF t.column + 1 >= VGA_WIDTH THEN VgaScroll([v EXCEPT !.column = 0])
          ELSE ToBottom([v EXCEPT !.column = @ + 1])
  <2>1. c # "newline" /\ c # "return" /\ c # "backspace"
    BY DEF Control
  <2>2. QED
    BY <2>1, Zenon DEF Putchar
<1> HIDE DEF v
<1>4. CASE t.column + 1 >= VGA_WIDTH
  <2>1. u = VgaScroll([v EXCEPT !.column = 0])
    BY <1>3, <1>4, Zenon
  <2>2. TermOK(u) /\ u.column = 0 /\ (v.row = v.lines - 1 => Fed(u, v))
    BY <1>2, <2>1, ScrollHome
  <2>3. QED
    BY <1>2, <1>4, <2>2, Zenon DEF Typeset
<1>5. CASE ~ (t.column + 1 >= VGA_WIDTH)
  <2> DEFINE x == t.column + 1
             w == [v EXCEPT !.column = x]
  <2>1. x \in Columns
    BY <1>1, <1>5, ScreenSizes DEF Columns
  <2>2. v.column = t.column
    BY <1>2, Zenon DEF Stroke
  <2>3. u = ToBottom(w)
    <3>1. u = ToBottom([v EXCEPT !.column = @ + 1])
      BY <1>3, <1>5, Zenon
    <3>2. [v EXCEPT !.column = @ + 1] = w
      BY <2>2, Zenon
    <3>3. QED
      BY <3>1, <3>2, Zenon
  <2> HIDE DEF x
  <2>4. TermOK(w) /\ w.column = x /\ w.buf = v.buf /\ w.row = v.row /\ w.lines = v.lines
    BY <1>2, <2>1, ColumnOK
  <2>5. w \in Buffer /\ Clean(w) /\ w.lines >= 1
    BY <2>4, Zenon DEF TermOK
  <2> HIDE DEF w
  <2>6. TermOK(u) /\ u.buf = w.buf /\ u.row = w.row /\ u.column = w.column /\ u.lines = w.lines
    BY <2>3, <2>5, ToBottomIs
  <2>7. QED
    BY <1>2, <1>5, <2>4, <2>6, Zenon DEF x, Typeset
<1>6. QED
  BY <1>4, <1>5, Zenon

(***************************************************************************)
(* The text screen: the paper.                                             *)
(***************************************************************************)
Paper == [lines : Seq(Line), carriage : Columns]

\* The buffer holds the lines ls, and its cursor is on the last of them.
OnLines(t, ls) ==
  /\ ls \in Seq(Line) /\ Len(ls) >= 1
  /\ t.lines = Len(ls) /\ t.row = t.lines - 1
  /\ \A i \in 1 .. Len(ls) : t.buf[i - 1] = ls[i]

OnPaper(t, p) ==
  /\ p \in Paper
  /\ p # Untracked => OnLines(t, p.lines) /\ t.column = p.carriage

LEMMA FeedIs ==
  ASSUME NEW t, TermOK(t), NEW u, Fed(u, t), NEW p, OnLines(t, p.lines)
  PROVE  OnLines(u, Feed(p).lines) /\ Feed(p).carriage = 0
<1> DEFINE H == TERMINAL_HISTORY_LINES
           s == p.lines
           n == Len(s)
           longer == Append(s, Blank)
           f == IF n + 1 > H THEN SubSeq(longer, 2, n + 1) ELSE longer
<1>1. /\ s \in Seq(Line) /\ n \in Nat /\ n >= 1 /\ t.lines = n /\ n <= H
      /\ \A i \in 1 .. n : t.buf[i - 1] = s[i]
  BY DEF OnLines, TermOK, Buffer
<1>2. H \in Nat /\ H >= 1
  BY ScreenSizes
<1>3. /\ longer \in Seq(Line) /\ Len(longer) = n + 1 /\ longer[n + 1] = Blank
      /\ \A i \in 1 .. n : longer[i] = s[i]
  BY <1>1, BlankIsLine
<1>4. Feed(p).lines = f /\ Feed(p).carriage = 0
  <2>1. (n + 1) - H + 1 = 2 \/ ~ (n + 1 > H)
    BY <1>1, <1>2
  <2>2. Feed(p).lines = IF n + 1 > H THEN SubSeq(longer, (n + 1) - H + 1, n + 1) ELSE longer
    BY <1>3 DEF Feed, LastLines
  <2>3. Feed(p).carriage = 0
    BY DEF Feed
  <2>4. QED
    BY <2>1, <2>2, <2>3, Zenon
<1> HIDE DEF longer
<1>5. CASE n + 1 > H
  <2>1. n = H /\ f = SubSeq(longer, 2, n + 1)
    BY <1>1, <1>2, <1>5
  <2>2. /\ f \in Seq(Line) /\ Len(f) = n
        /\ \A i \in 1 .. n : f[i] = longer[i + 1]
    BY <1>1, <1>3, <2>1
  <2> HIDE DEF f, s, n, H
  <2>3. ~ (t.lines < H) /\ u.lines = n /\ u.row = n - 1 /\ u.buf[n - 1] = Blank
    BY <1>1, <1>2, <2>1 DEF Fed, H
  <2>4. \A y \in BufferLines : y < n - 1 => u.buf[y] = t.buf[y + 1]
    BY <2>3, Zenon DEF Fed, H
  <2>5. ASSUME NEW i \in 1 .. n
        PROVE  u.buf[i - 1] = f[i]
    <3>1. CASE i = n
      BY <1>3, <2>2, <2>3, <3>1, Zenon
    <3>2. CASE i # n
      <4>1. /\ i - 1 \in BufferLines /\ i - 1 < n - 1 /\ (i - 1) + 1 = i
            /\ i + 1 \in 1 .. n /\ (i + 1) - 1 = i
        BY <1>1, <2>1, <3>2 DEF BufferLines, H
      <4>2. u.buf[i - 1] = t.buf[i] /\ t.buf[i] = s[i + 1]
        <5>1. u.buf[i - 1] = t.buf[(i - 1) + 1]
          BY <2>4, <4>1, Zenon
        <5>2. t.buf[(i + 1) - 1] = s[i + 1]
          BY <1>1, <4>1, Zenon
        <5>3. QED
          BY <4>1, <5>1, <5>2, Zenon
      <4>3. f[i] = s[i + 1]
        BY <1>3, <2>2, <4>1, Zenon
      <4>4. QED
        BY <4>2, <4>3, Zenon
    <3>3. QED
      BY <3>1, <3>2, Zenon
  <2>6. QED
    BY <1>1, <1>4, <2>2, <2>3, <2>5 DEF OnLines
<1>6. CASE ~ (n + 1 > H)
  <2>1. n < H /\ f = longer
    BY <1>1, <1>2, <1>6
  <2> HIDE DEF f, s, n, H
  <2>2. t.lines < H /\ u.lines = n + 1 /\ u.row = n /\ u.buf[n] = Blank
    BY <1>1, <1>2, <2>1 DEF Fed, H
  <2>3. \A y \in BufferLines : y < n => u.buf[y] = t.buf[y]
    BY <2>2, Zenon DEF Fed, H
  <2>4. ASSUME NEW i \in 1 .. n + 1
        PROVE  u.buf[i - 1] = f[i]
    <3>1. CASE i = n + 1
      <4>1. i - 1 = n
        BY <1>1, <3>1
      <4>2. QED
        BY <1>3, <2>1, <2>2, <3>1, <4>1, Zenon
    <3>2. CASE i # n + 1
      <4>1. i - 1 \in BufferLines /\ i - 1 < n /\ i \in 1 .. n
        BY <1>1, <1>2, <2>1, <3>2 DEF BufferLines, H
      <4>2. u.buf[i - 1] = s[i]
        BY <1>1, <2>3, <4>1, Zenon
      <4>3. QED
        BY <1>3, <2>1, <4>1, <4>2, Zenon
    <3>3. QED
      BY <3>1, <3>2, Zenon
  <2>5. QED
    BY <1>1, <1>3, <1>4, <2>1, <2>2, <2>4 DEF OnLines
<1>7. QED
  BY <1>5, <1>6, Zenon

LEMMA BeforeLast ==
  ASSUME NEW n \in Nat, n >= 1, n - 1 \in BufferLines, NEW i \in 1 .. n, i # n
  PROVE  i - 1 \in BufferLines /\ i - 1 # n - 1
BY ScreenSizes DEF BufferLines

LEMMA StrokeLines ==
  ASSUME NEW t, TermOK(t), NEW s, OnLines(t, s), NEW c \in Cell, NEW x \in Columns,
         NEW u, Stroke(u, t, c, x, t.row), NEW q, q = [s EXCEPT ![Len(s)][x] = c]
  PROVE  OnLines(u, q)
<1> DEFINE n == Len(s)
<1>1. /\ s \in Seq(Line) /\ n \in Nat /\ n >= 1 /\ t.lines = n /\ t.row = n - 1
      /\ \A i \in 1 .. n : t.buf[i - 1] = s[i]
  BY DEF OnLines
<1>2. t.row \in BufferLines
  BY DEF TermOK, Buffer
<1>3. /\ q \in Seq(Line) /\ Len(q) = n /\ q[n] = [s[n] EXCEPT ![x] = c]
      /\ \A i \in 1 .. n : i # n => q[i] = s[i]
  <2> DEFINE l == [s[n] EXCEPT ![x] = c]
  <2>1. l \in Line
    BY <1>1 DEF Line
  <2>2. q = [s EXCEPT ![n] = l]
    OBVIOUS
  <2> HIDE DEF l
  <2>3. /\ q \in Seq(Line) /\ Len(q) = n /\ q[n] = l
        /\ \A i \in 1 .. n : i # n => q[i] = s[i]
    BY <1>1, <2>1, <2>2
  <2>4. QED
    BY <2>3, Zenon DEF l
<1>4. u.row = n - 1 /\ u.lines = n
  BY <1>1 DEF Stroke
<1>5. u.buf[n - 1] = [t.buf[n - 1] EXCEPT ![x] = c]
  BY <1>1, Zenon DEF Stroke
<1>6. \A z \in BufferLines : z # n - 1 => u.buf[z] = t.buf[z]
  BY <1>1, Zenon DEF Stroke
<1> HIDE DEF n
<1>7. ASSUME NEW i \in 1 .. n
      PROVE  u.buf[i - 1] = q[i]
  <2>1. CASE i = n
    <3>1. t.buf[n - 1] = s[n]
      BY <1>1
    <3>2. QED
      BY <1>3, <1>5, <2>1, <3>1, Zenon
  <2>2. CASE i # n
    <3>1. i - 1 \in BufferLines /\ i - 1 # n - 1
      <4>1. n \in Nat /\ n >= 1 /\ n - 1 \in BufferLines
        BY <1>1, <1>2, Zenon
      <4>2. QED
        BY <2>2, <4>1, BeforeLast, Zenon
    <3>2. QED
      BY <1>1, <1>3, <1>6, <2>2, <3>1, Zenon
  <2>3. QED
    BY <2>1, <2>2, Zenon
<1>8. QED
  BY <1>1, <1>3, <1>4, <1>7 DEF OnLines

LEMMA UntrackedIs == Untracked \in Paper /\ \A t, s : OnLines(t, s) => s # << >>
<1>1. 0 \in Columns
  BY ScreenSizes DEF Columns
<1>2. Untracked \in Paper
  BY <1>1 DEF Untracked, Paper
<1>3. ASSUME NEW t, NEW s, OnLines(t, s)
      PROVE  s # << >>
  BY <1>3 DEF OnLines
<1>4. QED
  BY <1>2, <1>3

\* A record of Paper whose lines and carriage the buffer follows.
LEMMA OnPaperIs ==
  ASSUME NEW t, NEW p, NEW s, NEW x \in Columns, p = [lines |-> s, carriage |-> x],
         OnLines(t, s), t.column = x
  PROVE  OnPaper(t, p)
<1>1. p.lines = s /\ p.carriage = x
  OBVIOUS
<1>2. s \in Seq(Line)
  BY Zenon DEF OnLines
<1>3. p \in Paper
  BY <1>2 DEF Paper
<1>4. QED
  BY <1>1, <1>3, Zenon DEF OnPaper

LEMMA PaperIs ==
  ASSUME NEW p \in Paper
  PROVE  p = [lines |-> p.lines, carriage |-> p.carriage] /\ p.carriage \in Columns
BY DEF Paper

LEMMA FeedOnPaper ==
  ASSUME NEW t, TermOK(t), NEW u, Fed(u, t), u.column = 0, NEW p, OnLines(t, p.lines)
  PROVE  OnPaper(u, Feed(p))
<1>1. OnLines(u, Feed(p).lines)
  BY FeedIs
<1>2. Feed(p) = [lines |-> Feed(p).lines, carriage |-> 0]
  BY DEF Feed
<1>3. 0 \in Columns
  BY ScreenSizes DEF Columns
<1> DEFINE s == Feed(p).lines
           q == Feed(p)
<1>4. OnLines(u, s) /\ q = [lines |-> s, carriage |-> 0]
  BY <1>1, <1>2, Zenon
<1> HIDE DEF s, q
<1>5. OnPaper(u, q)
  BY <1>3, <1>4, OnPaperIs
<1>6. QED
  BY <1>5, Zenon DEF q

LEMMA PutcharKeeps ==
  ASSUME NEW t, TermOK(t), NEW p, OnPaper(t, p), NEW c \in Cell \cup Control,
         NEW u, u = Putchar(t, c)
  PROVE  TermOK(u) /\ OnPaper(u, Typed(p, c))
<1>1. TermOK(u)
  <2>1. CASE c = "newline"
    BY <2>1, NewlineIs, Zenon
  <2>2. CASE c = "return"
    BY <2>2, ReturnIs, Zenon
  <2>3. CASE c = "backspace"
    BY <2>3, BackspaceIs, Zenon
  <2>4. CASE c \in Cell \ Control
    BY <2>4, GlyphIs, Zenon
  <2>5. QED
    BY <2>1, <2>2, <2>3, <2>4, Zenon DEF Control
<1>2. CASE p = Untracked
  <2>1. Typed(p, c) = Untracked
    BY <1>2, Zenon DEF Typed
  <2>2. QED
    BY <1>1, <2>1, UntrackedIs, Zenon DEF OnPaper
<1>3. CASE p # Untracked
  <2> DEFINE s == p.lines
             x == p.carriage
             n == Len(s)
  <2>1. p \in Paper /\ OnLines(t, s) /\ t.column = x
    BY <1>3, Zenon DEF OnPaper
  <2>2. p = [lines |-> s, carriage |-> x] /\ x \in Columns
    BY <2>1, PaperIs, Zenon
  <2>3. t.row = t.lines - 1 /\ t.lines \in Nat /\ t.row \in Nat /\ ~ (t.row >= t.lines)
    BY <2>1 DEF OnLines
  <2>4. CASE c = "newline"
    <3>1. Typed(p, c) = Feed(p)
      BY <1>3, <2>4 DEF Typed
    <3>2. u.column = 0 /\ Fed(u, t)
      BY <2>3, <2>4, NewlineIs, Zenon
    <3>3. OnPaper(u, Feed(p))
      BY <2>1, <3>2, FeedOnPaper
    <3>4. QED
      BY <1>1, <3>1, <3>3, Zenon
  <2>5. CASE c = "return"
    <3>1. Typed(p, c) = [p EXCEPT !.carriage = 0]
      BY <1>3, <2>5 DEF Typed
    <3>2. Typed(p, c) = [lines |-> s, carriage |-> 0]
      BY <2>1, <3>1 DEF Paper
    <3>3. u.column = 0 /\ u.buf = t.buf /\ u.row = t.row /\ u.lines = t.lines
      BY <2>5, ReturnIs, Zenon
    <3>4. OnLines(u, s)
      BY <2>1, <3>3, Zenon DEF OnLines
    <3>5. 0 \in Columns
      BY ScreenSizes DEF Columns
    <3> DEFINE q == Typed(p, c)
    <3>6. q = [lines |-> s, carriage |-> 0]
      BY <3>2, Zenon
    <3> HIDE DEF s, q
    <3>7. OnPaper(u, q)
      BY <3>3, <3>4, <3>5, <3>6, OnPaperIs
    <3>8. QED
      BY <1>1, <3>7, Zenon DEF q
  <2>6. CASE c = "backspace"
    <3>1. Typed(p, c) = IF x = 0 THEN p
                        ELSE [p EXCEPT !.carriage = @ - 1, !.lines[Len(p.lines)][p.carriage - 1] = Space]
      BY <1>3, <2>6 DEF Typed
    <3>2. CASE x = 0
      <4>1. u = t
        BY <2>1, <2>6, <3>2, BackspaceIs, Zenon
      <4>2. Typed(p, c) = p
        BY <3>1, <3>2, Zenon
      <4>3. QED
        BY <1>1, <4>1, <4>2, Zenon
    <3>3. CASE x # 0
      <4> DEFINE r == [s EXCEPT ![n][x - 1] = Space]
                 q == Typed(p, c)
      <4>1. q = [p EXCEPT !.carriage = @ - 1, !.lines[Len(p.lines)][p.carriage - 1] = Space]
        BY <3>1, <3>3, Zenon
      <4>2. q = [lines |-> r, carriage |-> x - 1]
        BY <2>1, <4>1 DEF Paper
      <4> HIDE DEF q
      <4>3. x > 0 /\ x - 1 \in Columns
        BY <2>2, <3>3, ScreenSizes DEF Columns
      <4>4. /\ u.column = x - 1 /\ u.row = t.row
            /\ u.lines = IF t.row >= t.lines THEN t.row + 1 ELSE t.lines
            /\ u.buf[t.row] = [t.buf[t.row] EXCEPT ![x - 1] = Space]
            /\ \A z \in BufferLines : z # t.row => u.buf[z] = t.buf[z]
        <5>1. t.column > 0
          BY <2>1, <4>3, Zenon
        <5>2. Erased(u, t)
          BY <2>6, <5>1, BackspaceIs, Zenon
        <5>3. QED
          BY <2>1, <5>2, Zenon DEF Erased
      <4>5. OnLines(u, r)
        <5>1. TermOK(t) /\ Space \in Cell
          BY Zenon DEF Cell
        <5>2. OnLines(t, s)
          BY <2>1, Zenon
        <5> DEFINE w == [row |-> t.row, column |-> t.column, offset |-> t.offset,
                         lines |-> u.lines, buf |-> u.buf]
        <5>3. /\ w.row = t.row /\ w.column = t.column /\ w.offset = t.offset
              /\ w.lines = u.lines /\ w.buf = u.buf
          BY Zenon
        <5> HIDE DEF w
        <5>4. Stroke(w, t, Space, x - 1, t.row)
          BY <4>4, <5>3, Zenon DEF Stroke
        <5>5. OnLines(w, r)
          BY <4>3, <5>1, <5>2, <5>4, StrokeLines, Zenon
        <5>6. QED
          BY <4>4, <5>3, <5>5, Zenon DEF OnLines
      <4>6. OnPaper(u, q)
        BY <4>2, <4>3, <4>4, <4>5, OnPaperIs, Zenon
      <4>7. QED
        BY <1>1, <4>6, Zenon DEF q
    <3>4. QED
      BY <3>2, <3>3, Zenon
  <2>7. CASE c \in Cell \ Control
    <3> DEFINE r == [s EXCEPT ![n][x] = c]
               q == [p EXCEPT !.lines[Len(p.lines)][p.carriage] = c]
    <3>1. Typed(p, c) = IF x + 1 \in Columns THEN [q EXCEPT !.carriage = @ + 1] ELSE Feed(q)
      <4>1. c # "newline" /\ c # "return" /\ c # "backspace"
        BY <2>7 DEF Control
      <4>2. QED
        BY <1>3, <4>1, Zenon DEF Typed
    <3>2. q = [lines |-> r, carriage |-> x]
      BY <2>1 DEF Paper
    <3> HIDE DEF q
    <3>3. PICK v : /\ TermOK(v) /\ Stroke(v, t, c, x, t.row)
                   /\ x + 1 >= VGA_WIDTH => u.column = 0 /\ (v.row = v.lines - 1 => Fed(u, v))
                   /\ ~ (x + 1 >= VGA_WIDTH) =>
                        /\ u.column = x + 1 /\ u.buf = v.buf
                        /\ u.row = v.row /\ u.lines = v.lines
      <4>1. \E v : Typeset(u, v, t, c)
        BY <2>7, GlyphIs, Zenon
      <4>2. QED
        BY <2>1, <4>1, Zenon DEF Typeset
    <3>4. OnLines(v, r)
      BY <2>1, <2>2, <2>7, <3>3, StrokeLines, Zenon
    <3>5. q.lines = r /\ q.carriage = x
      BY <3>2
    <3> HIDE DEF r, x, s
    <3>6. CASE x + 1 \in Columns
      <4>1. ~ (x + 1 >= VGA_WIDTH)
        BY <2>2, <3>6, ScreenSizes DEF Columns
      <4>2. OnLines(u, r) /\ u.column = x + 1
        BY <3>3, <3>4, <4>1, Zenon DEF OnLines
      <4>3. Typed(p, c) = [lines |-> r, carriage |-> x + 1]
        BY <3>1, <3>2, <3>6
      <4> DEFINE z == Typed(p, c)
      <4>4. z = [lines |-> r, carriage |-> x + 1]
        BY <4>3, Zenon
      <4> HIDE DEF z
      <4>5. OnPaper(u, z)
        BY <3>6, <4>2, <4>4, OnPaperIs
      <4>6. QED
        BY <1>1, <4>5, Zenon DEF z
    <3>7. CASE x + 1 \notin Columns
      <4>1. x + 1 >= VGA_WIDTH
        BY <2>2, <3>7, ScreenSizes DEF Columns
      <4>2. v.row = v.lines - 1
        BY <3>4, Zenon DEF OnLines
      <4>3. u.column = 0 /\ Fed(u, v)
        BY <3>3, <4>1, <4>2, Zenon
      <4>4. OnLines(v, q.lines) /\ TermOK(v)
        BY <3>3, <3>4, <3>5, Zenon
      <4>5. OnPaper(u, Feed(q))
        BY <4>3, <4>4, FeedOnPaper
      <4>6. QED
        BY <1>1, <3>1, <3>7, <4>5, Zenon
    <3>8. QED
      BY <3>6, <3>7, Zenon
  <2>8. QED
    BY <2>4, <2>5, <2>6, <2>7, Zenon DEF Control
<1>4. QED
  BY <1>2, <1>3, Zenon

\* f solves the recursion of Written up to m.
Begin(t, p) == [term |-> t, paper |-> p]

Stage(f, t, p, s, n) == IF n = 0 THEN Begin(t, p) ELSE Wrote(f[n - 1], s[n])

Stages(f, t, p, s, m) == f = [n \in 0 .. m |-> Stage(f, t, p, s, n)]

LEMMA WrittenIs ==
  ASSUME NEW t, NEW p, NEW s
  PROVE  Written(t, p, s) = (CHOOSE f : Stages(f, t, p, s, Len(s)))[Len(s)]
BY Zenon DEF Written, Stages, Stage, Begin

LEMMA StagesExist ==
  ASSUME NEW t, NEW p, NEW s, NEW m \in Nat
  PROVE  \E f : Stages(f, t, p, s, m)
<1> DEFINE Bad == {n \in Nat : ~ \E f : Stages(f, t, p, s, n)}
<1>1. ASSUME Bad # {}
      PROVE  FALSE
  <2>1. PICK n \in Bad : \A k \in Bad : n <= k
    <3>1. Bad \in SUBSET Nat
      OBVIOUS
    <3> HIDE DEF Bad
    <3>2. QED
      BY <1>1, <3>1, LeastNat
  <2>2. n \in Nat /\ ~ \E f : Stages(f, t, p, s, n)
    BY <2>1
  <2>3. CASE n = 0
    <3> DEFINE f == [k \in 0 .. 0 |-> Begin(t, p)]
    <3>1. \A k \in 0 .. 0 : k = 0
      OBVIOUS
    <3>2. \A k \in 0 .. 0 : Begin(t, p) = Stage(f, t, p, s, k)
      BY <3>1, Zenon DEF Stage
    <3>3. f = [k \in 0 .. 0 |-> Stage(f, t, p, s, k)]
      BY <3>2, Zenon
    <3> HIDE DEF f
    <3>4. Stages(f, t, p, s, 0)
      BY <3>3, Zenon DEF Stages
    <3>5. QED
      BY <2>2, <2>3, <3>4, Zenon
  <2>4. CASE n # 0
    <3>1. n - 1 \in Nat /\ ~ (n <= n - 1)
      BY <2>2, <2>4
    <3>2. n - 1 \notin Bad
      BY <2>1, <3>1
    <3>3. PICK g : Stages(g, t, p, s, n - 1)
      BY <3>1, <3>2
    <3> DEFINE f == [k \in 0 .. n |-> Stage(g, t, p, s, k)]
    <3> HIDE DEF Bad
    <3>4. ASSUME NEW k \in 0 .. n - 1
          PROVE  f[k] = g[k]
      <4>1. k \in 0 .. n
        BY <2>2
      <4>2. f[k] = Stage(g, t, p, s, k)
        BY <4>1, Zenon
      <4>3. g[k] = Stage(g, t, p, s, k)
        BY <3>3, Zenon DEF Stages
      <4>4. QED
        BY <4>2, <4>3, Zenon
    <3>5. ASSUME NEW k \in 0 .. n
          PROVE  Stage(g, t, p, s, k) = Stage(f, t, p, s, k)
      <4>1. k # 0 => k - 1 \in 0 .. n - 1
        BY <2>2
      <4>2. k # 0 => f[k - 1] = g[k - 1]
        BY <3>4, <4>1, Zenon
      <4> HIDE DEF f
      <4>3. QED
        BY <4>2, Zenon DEF Stage
    <3>6. Stages(f, t, p, s, n)
      <4>1. f = [k \in 0 .. n |-> Stage(f, t, p, s, k)]
        BY <3>5, Zenon
      <4> HIDE DEF f
      <4>2. QED
        BY <4>1, Zenon DEF Stages
    <3>7. QED
      BY <2>2, <3>6, Zenon
  <2>5. QED
    BY <2>3, <2>4
<1>2. m \notin Bad
  BY <1>1
<1>3. QED
  BY <1>2

LEMMA StageIs ==
  /\ \A t, p : Begin(t, p).term = t /\ Begin(t, p).paper = p
  /\ \A d, c : Wrote(d, c).term = Putchar(d.term, c) /\ Wrote(d, c).paper = Typed(d.paper, c)
BY DEF Begin, Wrote

LEMMA WrittenKeeps ==
  ASSUME NEW t, TermOK(t), NEW p, OnPaper(t, p), NEW s \in Seq(Cell \cup Control),
         NEW a, a = Written(t, p, s)
  PROVE  TermOK(a.term) /\ OnPaper(a.term, a.paper)
<1> DEFINE m == Len(s)
           f == CHOOSE g : Stages(g, t, p, s, m)
           Good(d) == TermOK(d.term) /\ OnPaper(d.term, d.paper)
           Bad == {n \in 0 .. m : ~ Good(f[n])}
<1>1. m \in Nat /\ \A n \in 1 .. m : s[n] \in Cell \cup Control
  OBVIOUS
<1>2. a = f[m]
  BY WrittenIs, Zenon
<1>3. Stages(f, t, p, s, m)
  BY <1>1, StagesExist, Zenon
<1> HIDE DEF f, m
<1>4. \A n \in 0 .. m : f[n] = Stage(f, t, p, s, n)
  BY <1>3, Zenon DEF Stages
<1>5. ASSUME Bad # {}
      PROVE  FALSE
  <2>1. Bad \in SUBSET Nat
    BY <1>1
  <2>2. PICK n \in Bad : \A k \in Bad : n <= k
    BY <1>5, <2>1, LeastNat, Zenon
  <2>3. n \in 0 .. m /\ ~ Good(f[n])
    BY <2>2, Zenon
  <2>4. CASE n = 0
    <3>1. f[n] = Begin(t, p)
      BY <1>4, <2>3, <2>4, Zenon DEF Stage
    <3>2. f[n].term = t /\ f[n].paper = p
      BY <3>1, StageIs, Zenon
    <3>3. Good(f[n])
      BY <3>2, Zenon
    <3>4. QED
      BY <2>3, <3>3, Zenon
  <2>5. CASE n # 0
    <3>1. n - 1 \in 0 .. m /\ n \in 1 .. m /\ ~ (n <= n - 1)
      BY <1>1, <2>3, <2>5
    <3>2. n - 1 \notin Bad
      BY <2>2, <3>1, Zenon
    <3>3. Good(f[n - 1])
      BY <3>1, <3>2, Zenon
    <3>4. f[n] = Wrote(f[n - 1], s[n])
      BY <1>4, <2>3, <2>5, Zenon DEF Stage
    <3> DEFINE d == f[n - 1]
               c == s[n]
    <3>5. f[n].term = Putchar(d.term, c) /\ f[n].paper = Typed(d.paper, c)
      BY <3>4, StageIs, Zenon
    <3>6. c \in Cell \cup Control
      BY <1>1, <3>1, Zenon
    <3> HIDE DEF d, c
    <3>7. TermOK(d.term) /\ OnPaper(d.term, d.paper)
      BY <3>3, Zenon DEF d
    <3>8. TermOK(Putchar(d.term, c)) /\ OnPaper(Putchar(d.term, c), Typed(d.paper, c))
      BY <3>6, <3>7, PutcharKeeps, Zenon
    <3>9. Good(f[n])
      BY <3>5, <3>8, Zenon
    <3>10. QED
      BY <2>3, <3>9, Zenon
  <2>6. QED
    BY <2>4, <2>5, Zenon
<1>6. m \in 0 .. m
  BY <1>1
<1>7. QED
  BY <1>2, <1>5, <1>6, Zenon

(***************************************************************************)
(* The text screen: what is copied to it.                                  *)
(***************************************************************************)
LEMMA LineShownIs ==
  ASSUME NEW t, TermOK(t), NEW n \in Nat
  PROVE  /\ LineShown(t, n) = IF n \in BufferLines THEN t.buf[n] ELSE Blank
         /\ LineShown(t, n) \in Line
<1>1. t \in Buffer /\ Clean(t)
  BY Zenon DEF TermOK
<1>2. CASE n < t.lines
  <2>1. n \in BufferLines
    BY <1>1, <1>2, ScreenSizes DEF Buffer, BufferLines
  <2>2. LineShown(t, n) = t.buf[n]
    BY <1>2, Zenon DEF LineShown
  <2>3. t.buf[n] \in Line
    BY <1>1, <2>1 DEF Buffer
  <2>4. QED
    BY <2>1, <2>2, <2>3, Zenon
<1>3. CASE ~ (n < t.lines)
  <2>1. LineShown(t, n) = Blank
    BY <1>3, Zenon DEF LineShown
  <2>2. n >= t.lines
    BY <1>1, <1>3 DEF Buffer
  <2>3. n \in BufferLines => t.buf[n] = Blank
    BY <1>1, <2>2, Zenon DEF Clean
  <2>4. QED
    BY <2>1, <2>3, BlankIsLine, Zenon
<1>4. QED
  BY <1>2, <1>3, Zenon

\* The rows before the next one to copy show t, which begins where the copy does.
Drawn(d, scr, t) ==
  /\ d # NoDrawing => d.top = t.offset
  /\ \A r \in Rows : r < d.y => scr[r] = LineShown(t, t.offset + r)

DrawingOK(d) == d = NoDrawing \/ d \in [top : Nat, y : Rows]

ScreenInv ==
  /\ TermOK(term) /\ OnPaper(term, paper)
  /\ screen \in [Rows -> Line] /\ torn \in BOOLEAN /\ DrawingOK(drawing)
  /\ ~ torn => Drawn(drawing, screen, term)

LEMMA NoDrawingIs == NoDrawing.y = VGA_HEIGHT /\ \A r \in Rows : r < NoDrawing.y /\ r \in Nat
BY ScreenSizes DEF NoDrawing, Rows

LEMMA ViewIs ==
  ASSUME NEW t, TermOK(t)
  PROVE  /\ View(t) \in [Rows -> Line]
         /\ \A r \in Rows : View(t)[r] = LineShown(t, t.offset + r)
<1>1. t.offset \in Nat
  BY DEF TermOK, Buffer
<1>2. \A r \in Rows : t.offset + r \in Nat
  BY <1>1, NoDrawingIs
<1>3. \A r \in Rows : LineShown(t, t.offset + r) \in Line
  BY <1>2, LineShownIs, Zenon
<1>4. QED
  BY <1>3, Zenon DEF View

\* With nothing to copy left, the screen is the view.
LEMMA DrawnIsView ==
  ASSUME NEW t, TermOK(t), NEW scr \in [Rows -> Line], Drawn(NoDrawing, scr, t)
  PROVE  scr = View(t)
<1>1. \A r \in Rows : scr[r] = LineShown(t, t.offset + r)
  BY NoDrawingIs, Zenon DEF Drawn
<1>2. \A r \in Rows : View(t)[r] = scr[r]
  BY <1>1, ViewIs, Zenon
<1>3. View(t) \in [Rows -> Line]
  BY ViewIs, Zenon
<1>4. QED
  BY <1>2, <1>3

LEMMA ViewIsDrawn ==
  ASSUME NEW t, TermOK(t)
  PROVE  Drawn(NoDrawing, View(t), t)
BY ViewIs, Zenon DEF Drawn

\* What the main program is to copy anew.
LEMMA DrawAnew ==
  ASSUME ScreenInv, NEW t, TermOK(t), OnPaper(t, paper'), ThenDraw(t), screen' = screen
  PROVE  ScreenInv'
<1> DEFINE d == [top |-> t.offset, y |-> 0]
<1>1. term' = t /\ drawing' = d /\ torn' = FALSE
  BY Zenon DEF ThenDraw
<1>2. t.offset \in Nat /\ 0 \in Rows /\ \A r \in Rows : ~ (r < 0)
  BY ScreenSizes DEF TermOK, Buffer, Rows
<1>3. d \in [top : Nat, y : Rows] /\ d.top = t.offset /\ d.y = 0
  BY <1>2
<1> HIDE DEF d
<1>4. DrawingOK(drawing') /\ Drawn(drawing', screen', term')
  BY <1>1, <1>2, <1>3, Zenon DEF DrawingOK, Drawn
<1>5. screen' \in [Rows -> Line] /\ torn' \in BOOLEAN
  BY <1>1, Zenon DEF ScreenInv
<1>6. QED
  BY <1>1, <1>4, <1>5, Zenon DEF ScreenInv

\* The same lines at the same place are shown the same.
LEMMA SameShown ==
  ASSUME ScreenInv, NEW t, TermOK(t), OnPaper(t, paper'), t.buf = term.buf, t.offset = term.offset,
         term' = t, UNCHANGED <<screen, drawing, torn>>
  PROVE  ScreenInv'
<1>1. TermOK(term) /\ term.offset \in Nat
  BY DEF ScreenInv, TermOK, Buffer
<1>2. \A r \in Rows : t.offset + r \in Nat
  BY <1>1, NoDrawingIs
<1>3. \A r \in Rows : LineShown(t, t.offset + r) = LineShown(term, term.offset + r)
  <2>1. ASSUME NEW n \in Nat
        PROVE  LineShown(t, n) = LineShown(term, n)
    BY <1>1, LineShownIs, Zenon
  <2>2. QED
    BY <1>2, <2>1, Zenon
<1>4. Drawn(drawing, screen, term) => Drawn(drawing, screen, t)
  BY <1>3, Zenon DEF Drawn
<1>5. QED
  BY <1>4, Zenon DEF ScreenInv

LEMMA EmitKeeps ==
  ASSUME ScreenInv, NEW c \in Cell \cup Control, Emit(c)
  PROVE  ScreenInv'
<1> DEFINE t == Putchar(term, c)
<1>1. TermOK(term) /\ OnPaper(term, paper)
  BY Zenon DEF ScreenInv
<1>2. TermOK(t) /\ OnPaper(t, paper')
  BY <1>1, PutcharKeeps, Zenon DEF Emit
<1>3. CASE Redraws(term, c)
  <2>1. ThenDraw(t) /\ screen' = screen
    BY <1>3, Zenon DEF Emit
  <2> HIDE DEF t
  <2>2. QED
    BY <1>2, <2>1, DrawAnew, Zenon
<1>4. CASE ~ Redraws(term, c)
  <2>1. term' = t /\ UNCHANGED <<screen, drawing, torn>>
    BY <1>4, Zenon DEF Emit
  <2>2. t.buf = term.buf /\ t.offset = term.offset
    <3>1. c = "return" \/ (c = "backspace" /\ term.column = 0)
      BY <1>4, Zenon DEF Redraws
    <3>2. CASE c = "return"
      BY <1>1, <3>2, ReturnIs, Zenon
    <3>3. CASE c = "backspace" /\ term.column = 0
      BY <1>1, <3>3, BackspaceIs, Zenon
    <3>4. QED
      BY <3>1, <3>2, <3>3, Zenon
  <2> HIDE DEF t
  <2>3. QED
    BY <1>2, <2>1, <2>2, SameShown, Zenon
<1>5. QED
  BY <1>3, <1>4, Zenon

LEMMA ClearedIs ==
  TermOK(Cleared) /\ OnPaper(Cleared, NewPaper)
<1> DEFINE b == [y \in BufferLines |-> Blank]
           s == <<Blank>>
<1>1. b \in [BufferLines -> Line] /\ \A y \in BufferLines : b[y] = Blank
  BY BlankIsLine
<1>2. s \in Seq(Line) /\ Len(s) = 1 /\ s[1] = Blank
  BY BlankIsLine
<1>3. Cleared = [buf |-> b, row |-> 0, column |-> 0, lines |-> 1, offset |-> 0]
  BY DEF Cleared
<1>4. NewPaper = [lines |-> s, carriage |-> 0]
  BY DEF NewPaper
<1> HIDE DEF b, s
<1>5. 0 \in BufferLines /\ 0 \in Columns /\ 1 \in 0 .. TERMINAL_HISTORY_LINES
  BY ScreenSizes DEF BufferLines, Columns
<1>6. /\ Cleared \in Buffer /\ Cleared.buf = b /\ Cleared.row = 0 /\ Cleared.column = 0
      /\ Cleared.lines = 1 /\ Cleared.offset = 0
  BY <1>1, <1>3, <1>5 DEF Buffer
<1>7. Clean(Cleared)
  BY <1>1, <1>6, Zenon DEF Clean
<1>8. 0 <= BottomView(Cleared)
  BY <1>6, ScreenSizes DEF BottomView
<1>9. TermOK(Cleared)
  BY <1>6, <1>7, <1>8 DEF TermOK
<1>10. OnLines(Cleared, s)
  <2>1. \A i \in 1 .. 1 : Cleared.buf[i - 1] = s[i]
    BY <1>1, <1>2, <1>5, <1>6
  <2>2. QED
    BY <1>2, <1>6, <2>1 DEF OnLines
<1>11. OnPaper(Cleared, NewPaper)
  BY <1>4, <1>5, <1>6, <1>10, OnPaperIs
<1>12. QED
  BY <1>9, <1>11

LEMMA SetCursorOK ==
  ASSUME NEW t, TermOK(t), NEW x, NEW y, NEW u, u = SetCursor(t, x, y)
  PROVE  /\ TermOK(u)
         /\ y \notin BufferLines => u.buf = t.buf /\ u.offset = t.offset
<1> DEFINE z == IF x \in Columns THEN x ELSE t.column
           v == [t EXCEPT !.column = z]
           w == [v EXCEPT !.row = y]
           k == [w EXCEPT !.lines = IF y >= w.lines THEN y + 1 ELSE w.lines]
<1>1. t.column \in Columns
  BY DEF TermOK, Buffer
<1>2. z \in Columns
  BY <1>1, Zenon
<1>3. TermOK(v) /\ v.buf = t.buf /\ v.offset = t.offset
  BY <1>2, ColumnOK
<1>4. u = IF y \in BufferLines
          THEN ToBottom([v EXCEPT !.row = y, !.lines = IF @ <= y THEN y + 1 ELSE @]) ELSE v
  BY Zenon DEF SetCursor
<1> HIDE DEF v
<1>5. v \in Buffer /\ Clean(v)
  BY <1>3, Zenon DEF TermOK
<1>6. CASE y \in BufferLines
  <2>1. w \in Buffer /\ Clean(w) /\ w.lines = v.lines
    BY <1>5, <1>6, RowIs
  <2>2. u = ToBottom(k)
    <3>1. v.lines \in Nat /\ y \in Nat
      BY <1>5, <1>6 DEF Buffer, BufferLines
    <3>2. v.lines <= y <=> y >= v.lines
      BY <3>1
    <3>3. [v EXCEPT !.row = y, !.lines = IF @ <= y THEN y + 1 ELSE @] = k
      BY <1>5, <2>1, <3>2 DEF Buffer
    <3>4. QED
      BY <1>4, <1>6, <3>3, Zenon
  <2> HIDE DEF w
  <2>3. k \in Buffer /\ Clean(k) /\ k.lines >= 1
    BY <1>6, <2>1, CountedIs
  <2> HIDE DEF k
  <2>4. TermOK(u)
    BY <2>2, <2>3, ToBottomIs, Zenon
  <2>5. QED
    BY <1>6, <2>4, Zenon
<1>7. CASE y \notin BufferLines
  BY <1>3, <1>4, <1>7, Zenon
<1>8. QED
  BY <1>6, <1>7, Zenon

LEMMA MoveCursorKeeps ==
  ASSUME ScreenInv, NEW x, NEW y, MoveCursor(x, y)
  PROVE  ScreenInv'
<1> DEFINE t == SetCursor(term, x, y)
<1>1. TermOK(t) /\ (y \notin BufferLines => t.buf = term.buf /\ t.offset = term.offset)
  <2>1. TermOK(term) /\ t = SetCursor(term, x, y)
    BY Zenon DEF ScreenInv
  <2> HIDE DEF t
  <2>2. QED
    BY <2>1, SetCursorOK
<1>2. OnPaper(t, paper')
  BY UntrackedIs, Zenon DEF MoveCursor, OnPaper
<1>3. /\ y \in BufferLines => ThenDraw(t) /\ screen' = screen
      /\ y \notin BufferLines => term' = t /\ UNCHANGED <<screen, drawing, torn>>
  BY Zenon DEF MoveCursor
<1> HIDE DEF t
<1>4. CASE y \in BufferLines
  BY <1>1, <1>2, <1>3, <1>4, DrawAnew, Zenon
<1>5. CASE y \notin BufferLines
  BY <1>1, <1>2, <1>3, <1>5, SameShown, Zenon
<1>6. QED
  BY <1>4, <1>5, Zenon

LEMMA DrawRowKeeps ==
  ASSUME ScreenInv, DrawRow
  PROVE  ScreenInv'
<1> DEFINE y == drawing.y
           l == LineShown(term, drawing.top + y)
<1>1. TermOK(term) /\ drawing # NoDrawing /\ DrawingOK(drawing) /\ screen \in [Rows -> Line]
  BY Zenon DEF ScreenInv, DrawRow, Idle
<1>2. y \in Rows /\ drawing.top \in Nat /\ drawing.top + y \in Nat
  BY <1>1 DEF DrawingOK, Rows
<1>3. l \in Line
  BY <1>1, <1>2, LineShownIs, Zenon
<1>4. screen' = [screen EXCEPT ![y] = l]
  BY Zenon DEF DrawRow
<1>5. /\ screen' \in [Rows -> Line] /\ screen'[y] = l
      /\ \A r \in Rows : r # y => screen'[r] = screen[r]
  <2> HIDE DEF l, y
  <2>1. QED
    BY <1>1, <1>2, <1>3, <1>4
<1>6. drawing' = IF y + 1 = VGA_HEIGHT THEN NoDrawing ELSE [drawing EXCEPT !.y = @ + 1]
  BY Zenon DEF DrawRow
<1>7. DrawingOK(drawing') /\ drawing'.y = y + 1 /\ (drawing' # NoDrawing => drawing'.top = drawing.top)
  <2>1. CASE y + 1 = VGA_HEIGHT
    BY <1>6, <2>1, NoDrawingIs, Zenon DEF DrawingOK
  <2>2. CASE y + 1 # VGA_HEIGHT
    <3>1. drawing \in [top : Nat, y : Rows] /\ y + 1 \in Rows
      BY <1>1, <1>2, <2>2, ScreenSizes DEF DrawingOK, Rows
    <3>2. drawing' = [drawing EXCEPT !.y = y + 1]
      BY <1>6, <2>2, Zenon
    <3>3. drawing' \in [top : Nat, y : Rows] /\ drawing'.y = y + 1 /\ drawing'.top = drawing.top
      BY <3>1, <3>2
    <3>4. QED
      BY <3>3, Zenon DEF DrawingOK
  <2>3. QED
    BY <2>1, <2>2, Zenon
<1>8. term' = term /\ paper' = paper /\ torn' = torn
  BY Zenon DEF DrawRow
<1>9. ASSUME ~ torn
      PROVE  Drawn(drawing', screen', term)
  <2>1. Drawn(drawing, screen, term) /\ drawing.top = term.offset
    BY <1>1, <1>9, Zenon DEF ScreenInv, Drawn
  <2>2. screen'[y] = LineShown(term, term.offset + y)
    BY <1>5, <2>1, Zenon
  <2>3. ASSUME NEW r \in Rows, r < drawing'.y
        PROVE  screen'[r] = LineShown(term, term.offset + r)
    <3>1. r = y \/ (r < y /\ r # y)
      <4> DEFINE m == drawing'.y
      <4>1. m = y + 1 /\ r < m
        BY <1>7, <2>3, Zenon
      <4> HIDE DEF m, y
      <4>2. QED
        BY <1>2, <4>1 DEF Rows
    <3>2. CASE r = y
      BY <2>2, <3>2, Zenon
    <3>3. CASE r < y /\ r # y
      BY <1>5, <2>1, <3>3, Zenon DEF Drawn
    <3>4. QED
      BY <3>1, <3>2, <3>3, Zenon
  <2>4. drawing' # NoDrawing => drawing'.top = term.offset
    BY <1>7, <2>1, Zenon
  <2>5. QED
    BY <2>3, <2>4, Zenon DEF Drawn
<1>10. QED
  BY <1>5, <1>7, <1>8, <1>9, Zenon DEF ScreenInv

\* A character put elsewhere: on the screen, if it is in view, as in the buffer.
LEMMA PutCellKeeps ==
  ASSUME ScreenInv, NEW c \in Glyph, NEW x, NEW y \in Int, PutCell(c, x, y)
  PROVE  ScreenInv'
<1> DEFINE t == PutEntryAt(term, c, x, y)
<1>1. /\ TermOK(term) /\ screen \in [Rows -> Line] /\ torn \in BOOLEAN /\ DrawingOK(drawing)
      /\ ~ torn => Drawn(drawing, screen, term)
  BY Zenon DEF ScreenInv
<1>2. /\ term' = t /\ drawing' = drawing /\ torn' = torn /\ drawing = NoDrawing
      /\ screen' = IF x \in Columns /\ y \in BufferLines /\ y - term.offset \in Rows
                   THEN [screen EXCEPT ![y - term.offset][x] = c] ELSE screen
  BY Zenon DEF PutCell, Idle
<1>3. OnPaper(t, paper')
  BY UntrackedIs, Zenon DEF PutCell, OnPaper
<1>4. CASE ~ (x \in Columns /\ y \in BufferLines)
  <2>1. t = term /\ screen' = screen
    BY <1>2, <1>4, Zenon DEF PutEntryAt
  <2>2. QED
    BY <1>1, <1>2, <1>3, <2>1, Zenon DEF ScreenInv
<1>5. CASE x \in Columns /\ y \in BufferLines
  <2>1. c \in Cell
    BY Zenon DEF Cell
  <2>2. TermOK(t) /\ Stroke(t, term, c, x, y)
    BY <1>1, <1>5, <2>1, EntryIs, Zenon
  <2> HIDE DEF t
  <2> DEFINE o == term.offset
             j == y - o
             l == [screen[j] EXCEPT ![x] = c]
  <2>3. o \in Nat /\ t.offset = o
    BY <1>1, <2>2 DEF TermOK, Buffer, Stroke
  <2>4. \A r \in Rows : /\ o + r \in Nat
                        /\ o + r = y => j = r
                        /\ r = j => o + r = y
    BY <2>3, NoDrawingIs
  <2>5. \A n \in Nat : n # y => LineShown(t, n) = LineShown(term, n)
    <3>1. \A n \in Nat : n # y /\ n \in BufferLines => t.buf[n] = term.buf[n]
      BY <2>2, Zenon DEF Stroke
    <3>2. QED
      BY <1>1, <2>2, <3>1, LineShownIs, Zenon
  <2>6. LineShown(t, y) = [LineShown(term, y) EXCEPT ![x] = c]
    <3>1. y \in Nat
      BY <1>5 DEF BufferLines
    <3>2. LineShown(t, y) = t.buf[y] /\ LineShown(term, y) = term.buf[y]
      BY <1>1, <1>5, <2>2, <3>1, LineShownIs, Zenon
    <3>3. QED
      BY <2>2, <3>2, Zenon DEF Stroke
  <2>7. CASE j \in Rows
    <3>1. screen' = [screen EXCEPT ![j] = l]
      BY <1>2, <1>5, <2>7, Zenon
    <3>2. l \in Line
      BY <1>1, <1>5, <2>1, <2>7 DEF Line
    <3> HIDE DEF l
    <3>3. /\ screen' \in [Rows -> Line] /\ screen'[j] = l
          /\ \A r \in Rows : r # j => screen'[r] = screen[r]
      <4> HIDE DEF j
      <4>1. QED
        BY <1>1, <2>7, <3>1, <3>2
    <3>4. ASSUME ~ torn
          PROVE  Drawn(drawing, screen', t)
      <4>1. \A r \in Rows : screen[r] = LineShown(term, o + r)
        BY <1>1, <1>2, <3>4, NoDrawingIs, Zenon DEF Drawn
      <4>2. ASSUME NEW r \in Rows
            PROVE  screen'[r] = LineShown(t, o + r)
        <5>1. CASE r = j
          <6>1. o + r = y
            BY <2>4, <5>1, Zenon
          <6>2. screen[r] = LineShown(term, y)
            BY <4>1, <6>1, Zenon
          <6>3. l = [LineShown(term, y) EXCEPT ![x] = c]
            BY <5>1, <6>2, Zenon DEF l
          <6>4. QED
            BY <2>6, <3>3, <5>1, <6>1, <6>3, Zenon
        <5>2. CASE r # j
          BY <2>4, <2>5, <3>3, <4>1, <5>2, Zenon
        <5>3. QED
          BY <5>1, <5>2, Zenon
      <4>3. QED
        BY <1>2, <2>3, <4>2, Zenon DEF Drawn
    <3>5. QED
      BY <1>1, <1>2, <1>3, <2>2, <3>3, <3>4, Zenon DEF ScreenInv
  <2>8. CASE j \notin Rows
    <3>1. screen' = screen
      BY <1>2, <2>8, Zenon
    <3>2. ASSUME ~ torn
          PROVE  Drawn(drawing, screen, t)
      <4>1. \A r \in Rows : screen[r] = LineShown(term, o + r)
        BY <1>1, <1>2, <3>2, NoDrawingIs, Zenon DEF Drawn
      <4>2. \A r \in Rows : screen[r] = LineShown(t, o + r)
        BY <2>4, <2>5, <2>8, <4>1, Zenon
      <4>3. QED
        BY <1>2, <2>3, <4>2, Zenon DEF Drawn
    <3>3. QED
      BY <1>1, <1>2, <1>3, <2>2, <3>1, <3>2, Zenon DEF ScreenInv
  <2>9. QED
    BY <2>7, <2>8, Zenon
<1>6. QED
  BY <1>4, <1>5, Zenon

\* The handler copies the whole view if it changed it; what the main program was
\* copying is torn then.
LEMMA InterruptKeeps ==
  ASSUME ScreenInv, NEW t, TermOK(t), OnPaper(t, paper'), NEW redraw \in BOOLEAN,
         ~ redraw => t = term, Interrupt(t, redraw)
  PROVE  ScreenInv'
<1>1. /\ TermOK(term) /\ screen \in [Rows -> Line] /\ torn \in BOOLEAN /\ DrawingOK(drawing)
      /\ ~ torn => Drawn(drawing, screen, term)
  BY Zenon DEF ScreenInv
<1>2. /\ term' = t /\ drawing' = drawing
      /\ screen' = IF redraw THEN View(t) ELSE screen
      /\ torn' = IF drawing = NoDrawing THEN torn /\ ~redraw ELSE torn \/ t # term
  BY Zenon DEF Interrupt, Idle
<1>3. screen' \in [Rows -> Line]
  BY <1>1, <1>2, ViewIs, Zenon
<1>4. torn' \in BOOLEAN
  BY <1>2
<1>5. ASSUME ~ torn'
      PROVE  Drawn(drawing, screen', t)
  <2>1. CASE drawing = NoDrawing
    <3>1. redraw \/ ~ torn
      BY <1>1, <1>2, <1>5, <2>1
    <3>2. CASE redraw
      BY <1>2, <2>1, <3>2, ViewIsDrawn, Zenon
    <3>3. CASE ~ redraw
      <4>1. ~ torn /\ t = term /\ screen' = screen
        BY <1>2, <3>1, <3>3, Zenon
      <4>2. QED
        BY <1>1, <4>1, Zenon
    <3>4. QED
      BY <3>2, <3>3, Zenon
  <2>2. CASE drawing # NoDrawing
    <3>1. ~ torn /\ t = term
      BY <1>1, <1>2, <1>5, <2>2
    <3>2. Drawn(drawing, screen, t)
      BY <1>1, <3>1, Zenon
    <3>3. Drawn(drawing, View(t), t)
      BY <3>2, ViewIs, Zenon DEF Drawn
    <3>4. QED
      BY <1>2, <3>2, <3>3, Zenon
  <2>3. QED
    BY <2>1, <2>2, Zenon
<1>6. QED
  BY <1>1, <1>2, <1>3, <1>4, <1>5, Zenon DEF ScreenInv

\* Scrolling changes nothing but the offset, and that to another that is allowed.
LEMMA OffsetIs ==
  ASSUME NEW t, TermOK(t), NEW o \in Nat, o <= BottomView(t), NEW u, u = [t EXCEPT !.offset = o]
  PROVE  /\ TermOK(u) /\ (o = t.offset => u = t)
         /\ \A p : OnPaper(t, p) => OnPaper(u, p)
<1>1. t \in Buffer /\ t.lines >= 1 /\ Clean(t)
  BY Zenon DEF TermOK
<1>2. u \in Buffer /\ u.offset = o
  BY <1>1 DEF Buffer
<1>3. u.buf = t.buf /\ u.row = t.row /\ u.column = t.column /\ u.lines = t.lines
  BY <1>1 DEF Buffer
<1>4. BottomView(u) = BottomView(t)
  BY <1>3 DEF BottomView
<1>5. Clean(u)
  BY <1>1, <1>3, Zenon DEF Clean
<1>6. TermOK(u)
  BY <1>1, <1>2, <1>3, <1>4, <1>5, Zenon DEF TermOK
<1>7. o = t.offset => u = t
  BY <1>1 DEF Buffer
<1>8. ASSUME NEW p, OnPaper(t, p)
      PROVE  OnPaper(u, p)
  BY <1>3, <1>8, Zenon DEF OnPaper, OnLines
<1>9. QED
  BY <1>6, <1>7, <1>8, Zenon

LEMMA ScrollsIs ==
  ASSUME NEW t, TermOK(t),
         NEW u \in {VgaScrollUp(t), VgaScrollDown(t), PageUp(t), PageDown(t)}
  PROVE  /\ TermOK(u) /\ (\A p : OnPaper(t, p) => OnPaper(u, p))
         /\ u = VgaScrollUp(t) /\ ~ (t.offset > 0) => u = t
         /\ u = VgaScrollDown(t) /\ ~ (t.offset < BottomView(t)) => u = t
<1> DEFINE o == t.offset
           v == BottomView(t)
           h == VGA_HEIGHT
           up == Pred(o)
           down == IF o < v THEN o + 1 ELSE o
           pgUp == IF o > h THEN o - h ELSE 0
           pgDn == IF o + h < v THEN o + h ELSE v
<1>1. o \in Nat /\ v \in Nat /\ o <= v /\ h \in Nat /\ h >= 1
  BY ScreenSizes DEF TermOK, Buffer, BottomView
<1> HIDE DEF o, v, h
<1>2. /\ up \in Nat /\ up <= v /\ (~ (o > 0) => up = o)
      /\ down \in Nat /\ down <= v /\ (~ (o < v) => down = o)
      /\ pgUp \in Nat /\ pgUp <= v /\ pgDn \in Nat /\ pgDn <= v
  BY <1>1 DEF Pred
<1>3. /\ VgaScrollUp(t) = [t EXCEPT !.offset = up] /\ VgaScrollDown(t) = [t EXCEPT !.offset = down]
      /\ PageUp(t) = [t EXCEPT !.offset = pgUp] /\ PageDown(t) = [t EXCEPT !.offset = pgDn]
  BY Zenon DEF VgaScrollUp, VgaScrollDown, PageUp, PageDown, o, v, h
<1> HIDE DEF up, down, pgUp, pgDn
<1>4. \E k \in Nat : k <= v /\ u = [t EXCEPT !.offset = k]
  BY <1>2, <1>3, Zenon
<1>5. TermOK(u) /\ \A p : OnPaper(t, p) => OnPaper(u, p)
  BY <1>4, OffsetIs, Zenon DEF v
<1>6. up = t.offset => VgaScrollUp(t) = t
  BY <1>2, <1>3, OffsetIs, Zenon DEF v
<1>7. down = t.offset => VgaScrollDown(t) = t
  BY <1>2, <1>3, OffsetIs, Zenon DEF v
<1>8. QED
  BY <1>2, <1>5, <1>6, <1>7, Zenon DEF o, v

LEMMA HandlerKeeps ==
  ASSUME ScreenInv, Handler
  PROVE  ScreenInv'
<1>1. TermOK(term) /\ OnPaper(term, paper)
  BY Zenon DEF ScreenInv
<1>2. CASE HandlerScrolls
  <2>1. PICK u \in {VgaScrollUp(term), VgaScrollDown(term), PageUp(term), PageDown(term)},
             redraw \in BOOLEAN : Interrupt(u, redraw) /\ (~ redraw => u = term)
    <3>1. (term.offset > 0) \in BOOLEAN /\ (term.offset < BottomView(term)) \in BOOLEAN /\ TRUE \in BOOLEAN
      BY ScreenSizes, <1>1 DEF TermOK, Buffer, BottomView
    <3>2. /\ ~ (term.offset > 0) => VgaScrollUp(term) = term
          /\ ~ (term.offset < BottomView(term)) => VgaScrollDown(term) = term
      BY <1>1, ScrollsIs, Zenon
    <3>3. QED
      BY <1>2, <3>1, <3>2, Zenon DEF HandlerScrolls
  <2>2. TermOK(u) /\ OnPaper(u, paper)
    BY <1>1, ScrollsIs, Zenon
  <2>3. paper' = paper
    BY <1>2, Zenon DEF HandlerScrolls
  <2>4. QED
    BY <2>1, <2>2, <2>3, InterruptKeeps, Zenon
<1>3. CASE HandlerCtrlC
  <2> DEFINE a == Written(term, paper, CtrlCText)
  <2>1. Interrupt(a.term, TRUE) /\ paper' = a.paper
    BY <1>3, Zenon DEF HandlerCtrlC
  <2>2. TermOK(a.term) /\ OnPaper(a.term, a.paper)
    BY <1>1, WrittenKeeps, TerminalAssumption, Zenon
  <2> HIDE DEF a
  <2>3. QED
    BY <2>1, <2>2, InterruptKeeps, Zenon
<1>4. CASE HandlerCtrlL
  <2> DEFINE a == Written(Cleared, NewPaper, CtrlLText)
  <2>1. Interrupt(a.term, TRUE) /\ paper' = a.paper
    BY <1>4, Zenon DEF HandlerCtrlL
  <2>2. TermOK(a.term) /\ OnPaper(a.term, a.paper)
    BY ClearedIs, WrittenKeeps, TerminalAssumption, Zenon
  <2> HIDE DEF a
  <2>3. QED
    BY <2>1, <2>2, InterruptKeeps, Zenon
<1>5. QED
  BY <1>2, <1>3, <1>4, Zenon DEF Handler

LEMMA MainKeeps ==
  ASSUME ScreenInv, Main
  PROVE  ScreenInv'
<1>1. ASSUME NEW c \in Glyph \cup Control, Write(c)
      PROVE  ScreenInv'
  <2>1. c \in Cell \cup Control
    BY <1>1, Zenon DEF Cell
  <2>2. QED
    BY <1>1, <2>1, EmitKeeps, Zenon DEF Write
<1>2. CASE Tab
  BY <1>2, Zenon DEF Tab, ScreenInv
<1>3. CASE TabSpace
  <2>1. Space \in Cell \cup Control
    BY Zenon DEF Cell
  <2>2. QED
    BY <1>3, <2>1, EmitKeeps, Zenon DEF TabSpace
<1>4. CASE DrawRow
  BY <1>4, DrawRowKeeps, Zenon
<1>5. CASE Clear
  BY <1>5, ClearedIs, DrawAnew, Zenon DEF Clear
<1>6. ASSUME NEW p \in Place, MoveCursor(p[1], p[2])
      PROVE  ScreenInv'
  BY <1>6, MoveCursorKeeps, Zenon
<1>7. ASSUME NEW p \in Place, NEW c \in Glyph, PutCell(c, p[1], p[2])
      PROVE  ScreenInv'
  <2>1. p[2] \in Int
    BY TerminalAssumption
  <2>2. QED
    BY <1>7, <2>1, PutCellKeeps, Zenon
<1>8. QED
  BY <1>1, <1>2, <1>3, <1>4, <1>5, <1>6, <1>7, Zenon DEF Main

LEMMA ScreenStep ==
  ASSUME ScreenInv, [ScreenNext]_display
  PROVE  ScreenInv'
<1>1. CASE UNCHANGED display
  BY <1>1, Zenon DEF display, ScreenInv
<1>2. QED
  BY <1>1, MainKeeps, HandlerKeeps, Zenon DEF ScreenNext

LEMMA ScreenBegins ==
  ASSUME ScreenInit
  PROVE  ScreenInv
<1>1. term = Cleared /\ drawing = NoDrawing /\ torn = FALSE /\ paper = NewPaper
  BY Zenon DEF ScreenInit
<1>2. screen = [y \in Rows |-> Blank]
  BY Zenon DEF ScreenInit
<1>3. screen \in [Rows -> Line] /\ \A r \in Rows : screen[r] = Blank
  BY <1>2, BlankIsLine
<1>4. \A r \in Rows : Cleared.offset + r \in Nat
  BY ClearedIs, NoDrawingIs DEF TermOK, Buffer
<1>5. \A y \in BufferLines : Cleared.buf[y] = Blank
  BY DEF Cleared
<1>6. \A r \in Rows : screen[r] = LineShown(Cleared, Cleared.offset + r)
  BY <1>3, <1>4, <1>5, ClearedIs, LineShownIs, Zenon
<1>7. Drawn(NoDrawing, screen, Cleared)
  BY <1>6, Zenon DEF Drawn
<1>8. torn \in BOOLEAN
  BY <1>1
<1>9. QED
  BY <1>1, <1>3, <1>7, <1>8, ClearedIs, Zenon DEF ScreenInv, DrawingOK

LEMMA ScreenShows ==
  ASSUME ScreenInv
  PROVE  ScreenShowsText
<1>1. TermOK(term) /\ OnPaper(term, paper) /\ screen \in [Rows -> Line]
  BY Zenon DEF ScreenInv
<1>2. term.offset <= BottomView(term)
  BY <1>1, Zenon DEF TermOK
<1>3. ASSUME Idle, ~ torn
      PROVE  screen = View(term)
  BY <1>1, <1>3, DrawnIsView, Zenon DEF ScreenInv, Idle
<1>4. ScreenShowsBuffer
  BY <1>2, <1>3, Zenon DEF ScreenShowsBuffer
<1>5. ASSUME paper # Untracked
      PROVE  /\ term.lines = Len(paper.lines) /\ term.row = term.lines - 1
             /\ term.column = paper.carriage
             /\ \A i \in DOMAIN paper.lines : term.buf[i - 1] = paper.lines[i]
  <2>1. OnLines(term, paper.lines) /\ term.column = paper.carriage
    BY <1>1, <1>5, Zenon DEF OnPaper
  <2>2. DOMAIN paper.lines = 1 .. Len(paper.lines)
    BY <2>1 DEF OnLines
  <2>3. QED
    BY <2>1, <2>2, Zenon DEF OnLines
<1>6. BufferHoldsText
  BY <1>5, Zenon DEF BufferHoldsText
<1>7. QED
  BY <1>4, <1>6, Zenon DEF ScreenShowsText

\* drivers/vga.c with the keyboard's interrupts between any two rows it copies: once
\* a copy has ended that none of them disturbed, the screen is the part of the buffer
\* it should be; and the buffer holds the last lines that a teletype would have
\* printed, for every size of the screen and of the history.
THEOREM ScreenAlwaysShowsText == ScreenSpec => []ScreenShowsText
<1>1. ScreenInit => ScreenInv
  BY ScreenBegins
<1>2. ScreenInv /\ [ScreenNext]_display => ScreenInv'
  BY ScreenStep
<1>3. ScreenInv => ScreenShowsText
  BY ScreenShows
<1>4. QED
  BY <1>1, <1>2, <1>3, PTL DEF ScreenSpec
=============================================================================
