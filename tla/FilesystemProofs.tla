-------------------------- MODULE FilesystemProofs --------------------------
(***************************************************************************)
(* The shell's files.  Whatever commands are given, and whatever           *)
(* allocation or drive fails on the way: the current directory stays       *)
(* attached to the root, names stay unique, contents are allocated once    *)
(* and freed, and the disk is behind the table only when the drive has     *)
(* failed.                                                                 *)
(*                                                                         *)
(* The kernel's files (Storage).  What is read and written through the     *)
(* descriptors of the VFS is what FileStore promises.                      *)
(***************************************************************************)
EXTENDS Filesystem, Storage, WellFoundedInduction, SequenceTheorems, FiniteSetTheorems, TLAPS

\* A nonempty set of naturals has a least element.
LEMMA LeastNat ==
  ASSUME NEW S \in SUBSET Nat, S # {}
  PROVE  \E m \in S : \A k \in S : m <= k
<1>1. IsWellFoundedOn({ss \in Nat \X Nat : ss[1] < ss[2]}, Nat)
  BY NatLessThanWellFounded, Zenon DEF OpToRel
<1>2. PICK m \in S : \A k \in S : <<k, m>> \notin {ss \in Nat \X Nat : ss[1] < ss[2]}
  BY <1>1, WFMin, Zenon
<1>3. \A k \in S : k \in Nat /\ m \in Nat /\ ~ (k < m)
  BY <1>2, Zenon
<1>4. QED
  BY <1>3

StoredName == {Clip(n) : n \in Names} \cup {"/", "home", "nixuser"}

Node == [name : StoredName, type : {REGULAR, DIRECTORY}, parent : 0 .. MAX_FILES, text : Texts,
         content : Block \cup {NULL}]

(***************************************************************************)
(* The inductive invariant, for a table fs, a current directory d and the  *)
(* blocks lv in use.                                                       *)
(***************************************************************************)
\* A node stands behind its parent in the table: it was created later, and
\* moves down with it.
TableOK(fs, d) ==
  /\ fs \in Seq(Node) /\ Len(fs) \in 1 .. MAX_FILES
  /\ fs[Root].type = DIRECTORY
  /\ \A i \in 1 .. Len(fs) : fs[i].parent \in 0 .. i - 1
  /\ d \in 1 .. Len(fs)

\* S holds directories only, with the parent of each but the root.
Closed(fs, S) ==
  \A i \in S : /\ i \in 1 .. Len(fs) /\ fs[i].type = DIRECTORY
               /\ i = Root \/ fs[i].parent \in S

Attached(fs, d) == \E S \in SUBSET (1 .. d) : d \in S /\ Closed(fs, S)

Cut(name) == \E n \in Names : n # Clip(n) /\ Clip(n) = name

Unique(fs) ==
  \A i, j \in 1 .. Len(fs) :
    i # j /\ fs[i].parent # NotFound /\ fs[i].parent = fs[j].parent /\ fs[i].name = fs[j].name
      => Cut(fs[i].name)

Owned(fs, lv) ==
  /\ lv = {fs[i].content : i \in 1 .. Len(fs)} \ {NULL}
  /\ \A i, j \in 1 .. Len(fs) : fs[i].content = fs[j].content => i = j \/ fs[i].content = NULL

Good(fs, d, lv) == TableOK(fs, d) /\ Attached(fs, d) /\ Unique(fs) /\ Owned(fs, lv)

Inv == Good(files, current_dir, live) /\ SavedIsCurrent

LEMMA NodeIs ==
  ASSUME NEW fs, NEW d, TableOK(fs, d), NEW i \in 1 .. Len(fs)
  PROVE  /\ fs[i] \in Node /\ Len(fs) \in Nat /\ i \in Nat
         /\ fs[i].parent \in Nat /\ fs[i].parent < i
         /\ fs[i].content \in Block \cup {NULL}
<1>1. fs \in Seq(Node) /\ Len(fs) \in Nat /\ fs[i].parent \in 0 .. i - 1
  BY DEF TableOK
<1>2. fs[i] \in Node
  BY <1>1
<1>3. fs[i].content \in Block \cup {NULL}
  BY <1>2 DEF Node
<1>4. QED
  BY <1>1, <1>2, <1>3

\* The first d nodes are the same in both tables, apart from what they hold.
SameUpTo(fs, g, d) ==
  \A i \in 1 .. d : i \in 1 .. Len(fs) =>
    i \in 1 .. Len(g) /\ g[i].type = fs[i].type /\ g[i].parent = fs[i].parent

\* Later nodes may come, go or be written.
LEMMA AttachedKeeps ==
  ASSUME NEW fs, NEW d, Attached(fs, d), NEW g, SameUpTo(fs, g, d)
  PROVE  Attached(g, d)
<1>1. PICK S \in SUBSET (1 .. d) : d \in S /\ Closed(fs, S)
  BY DEF Attached
<1>2. Closed(g, S)
  BY <1>1 DEF Closed, SameUpTo
<1>3. QED
  BY <1>1, <1>2 DEF Attached

(***************************************************************************)
(* The table made at the first start.                                      *)
(***************************************************************************)
LEMMA DefaultGood == Good(DefaultFiles, 3, {})
<1> DEFINE fs == DefaultFiles
<1>1. fs \in Seq(Node) /\ Len(fs) = 3
  BY FilesystemAssumption DEF DefaultFiles, Node, StoredName, Root, NotFound, NULL
<1>2. /\ \A i \in 1 .. 3 : fs[i].type = DIRECTORY /\ fs[i].content = NULL /\ fs[i].parent = i - 1
  BY DEF DefaultFiles, Root, NotFound
<1> HIDE DEF fs
<1>3. TableOK(fs, 3)
  BY <1>1, <1>2, FilesystemAssumption DEF TableOK, Root
<1>4. Closed(fs, 1 .. 3)
  BY <1>1, <1>2 DEF Closed, Root
<1>5. Attached(fs, 3)
  BY <1>4 DEF Attached
<1>6. Unique(fs) /\ Owned(fs, {})
  BY <1>1, <1>2 DEF Unique, Owned
<1>7. QED
  BY <1>3, <1>5, <1>6 DEF Good, fs

(***************************************************************************)
(* Creation.                                                               *)
(***************************************************************************)
LEMMA FindIs ==
  ASSUME Good(files, current_dir, live), NEW name, NEW dir
  PROVE  /\ Find(name, dir) = NotFound \/ Find(name, dir) \in Matches(name, dir)
         /\ Find(name, dir) = NotFound => Matches(name, dir) = {}
<1>1. Matches(name, dir) \in SUBSET Nat /\ 0 \notin Matches(name, dir)
  BY DEF Matches, Good, TableOK
<1>2. CASE Matches(name, dir) = {}
  BY <1>2 DEF Find
<1>3. CASE Matches(name, dir) # {}
  <2>1. \E i \in Matches(name, dir) : \A j \in Matches(name, dir) : i <= j
    BY <1>1, <1>3, LeastNat
  <2>2. Find(name, dir) \in Matches(name, dir)
    BY <1>3, <2>1 DEF Find
  <2>3. QED
    BY <1>1, <2>2 DEF NotFound
<1>4. QED
  BY <1>2, <1>3

LEMMA CreatedGood ==
  ASSUME Good(files, current_dir, live), NEW name \in Names, NEW type \in {REGULAR, DIRECTORY},
         Find(name, current_dir) = NotFound, Len(files) < MAX_FILES,
         NEW g, g = Append(files, Entry(name, type, current_dir))
  PROVE  Good(g, current_dir, live) /\ Len(g) = Len(files) + 1 /\ g[Len(g)].content = NULL
<1> DEFINE e == Entry(name, type, current_dir)
           n == Len(files)
           d == current_dir
<1>1. /\ TableOK(files, d) /\ Attached(files, d) /\ Unique(files) /\ Owned(files, live)
  BY DEF Good
<1>2. /\ files \in Seq(Node) /\ n \in Nat /\ n >= 1 /\ n <= MAX_FILES /\ d \in 1 .. n
      /\ \A i \in 1 .. n : files[i] \in Node
  BY <1>1, FilesystemAssumption DEF TableOK
<1>3. /\ e \in Node /\ e.name = Clip(name) /\ e.type = type /\ e.parent = d /\ e.content = NULL
  BY <1>2, FilesystemAssumption DEF Entry, Node, StoredName, NULL
<1> HIDE DEF e
<1>4. /\ g \in Seq(Node) /\ Len(g) = n + 1 /\ g[n + 1] = e /\ \A i \in 1 .. n : g[i] = files[i]
  BY <1>2, <1>3 DEF e
<1> HIDE DEF d
<1>5. TableOK(g, d)
  <2>1. \A i \in 1 .. n + 1 : g[i].parent \in 0 .. i - 1
    BY <1>1, <1>2, <1>3, <1>4 DEF TableOK
  <2>2. Root \in 1 .. n /\ files[Root].type = DIRECTORY
    BY <1>1, <1>2 DEF TableOK, Root
  <2> HIDE DEF n
  <2>3. QED
    BY <1>2, <1>4, <2>1, <2>2, FilesystemAssumption DEF TableOK, n
<1>6. Attached(g, d)
  <2>1. SameUpTo(files, g, d)
    BY <1>2, <1>4 DEF SameUpTo
  <2>2. QED
    BY <1>1, <2>1, AttachedKeeps
<1>7. Unique(g)
  \* The name itself is not there; what it was cut to may be.
  <2>1. \A i \in 1 .. n : ~ (files[i].parent = d /\ files[i].name = name)
    BY <1>2, FindIs DEF Matches, d
  <2>2. ASSUME NEW i \in 1 .. n, files[i].parent = d, files[i].name = e.name
        PROVE  Cut(e.name)
    BY <1>3, <2>1, <2>2 DEF Cut
  <2>3. \A i \in 1 .. n + 1 : i = n + 1 \/ i \in 1 .. n
    BY <1>2
  <2>4. ASSUME NEW i \in 1 .. n + 1, NEW j \in 1 .. n + 1,
               i # j, g[i].parent # NotFound, g[i].parent = g[j].parent, g[i].name = g[j].name
        PROVE  Cut(g[i].name)
    <3>1. CASE i \in 1 .. n /\ j \in 1 .. n
      BY <1>1, <1>4, <2>4, <3>1 DEF Unique
    <3>2. CASE i = n + 1 /\ j \in 1 .. n
      BY <1>3, <1>4, <2>2, <2>4, <3>2
    <3>3. CASE i \in 1 .. n /\ j = n + 1
      BY <1>3, <1>4, <2>2, <2>4, <3>3
    <3>4. QED
      BY <2>3, <2>4, <3>1, <3>2, <3>3
  <2>5. QED
    BY <1>4, <2>4 DEF Unique
<1>8. Owned(g, live)
  <2>1. \A i \in 1 .. n + 1 : i = n + 1 \/ i \in 1 .. n
    BY <1>2
  <2>2. \A i \in 1 .. n : i \in 1 .. n + 1
    BY <1>2
  <2>3. {g[i].content : i \in 1 .. n + 1} \ {NULL} = {files[i].content : i \in 1 .. n} \ {NULL}
    BY <1>3, <1>4, <2>1, <2>2
  <2>4. \A i, j \in 1 .. n + 1 : g[i].content = g[j].content => i = j \/ g[i].content = NULL
    BY <1>1, <1>3, <1>4, <2>1 DEF Owned
  <2>5. QED
    BY <1>1, <1>4, <2>3, <2>4 DEF Owned
<1>9. QED
  BY <1>3, <1>4, <1>5, <1>6, <1>7, <1>8 DEF Good, d

(***************************************************************************)
(* Writing.                                                                *)
(***************************************************************************)
\* Two tables that differ in texts and contents only.
SameTree(fs, g) ==
  /\ g \in Seq(Node) /\ Len(g) = Len(fs)
  /\ \A i \in 1 .. Len(fs) :
       g[i].name = fs[i].name /\ g[i].type = fs[i].type /\ g[i].parent = fs[i].parent

LEMMA SameTreeGood ==
  ASSUME NEW fs, NEW d, NEW lv, Good(fs, d, lv), NEW g, SameTree(fs, g), NEW lw, Owned(g, lw)
  PROVE  Good(g, d, lw)
<1>1. TableOK(fs, d) /\ Attached(fs, d) /\ Unique(fs) /\ Len(g) = Len(fs)
  BY DEF Good, SameTree
<1>2. TableOK(g, d)
  BY <1>1 DEF TableOK, SameTree, Root
<1>3. Attached(g, d)
  <2>1. SameUpTo(fs, g, d)
    BY <1>1 DEF SameTree, SameUpTo
  <2>2. QED
    BY <1>1, <2>1, AttachedKeeps
<1>4. Unique(g)
  BY <1>1 DEF Unique, SameTree
<1>5. QED
  BY <1>2, <1>3, <1>4 DEF Good

LEMMA TextWritten ==
  ASSUME NEW fs, NEW d, NEW lv, Good(fs, d, lv), NEW i \in 1 .. Len(fs), NEW text \in Texts
  PROVE  Good([fs EXCEPT ![i].text = text], d, lv)
<1> DEFINE g == [fs EXCEPT ![i].text = text]
<1>1. fs \in Seq(Node) /\ Len(fs) \in Nat /\ \A j \in 1 .. Len(fs) : fs[j] \in Node
  BY DEF Good, TableOK
<1> DEFINE w == [fs[i] EXCEPT !.text = text]
<1>2. /\ w \in Node /\ w.name = fs[i].name /\ w.type = fs[i].type /\ w.parent = fs[i].parent
      /\ w.content = fs[i].content
  BY <1>1 DEF Node
<1>3. g = [fs EXCEPT ![i] = w]
  OBVIOUS
<1> HIDE DEF g, w
<1>4. g \in Seq(Node) /\ Len(g) = Len(fs) /\ \A j \in 1 .. Len(fs) : g[j] = IF j = i THEN w ELSE fs[j]
  BY <1>1, <1>2, <1>3
<1>5. SameTree(fs, g) /\ \A j \in 1 .. Len(fs) : g[j].content = fs[j].content
  BY <1>2, <1>4 DEF SameTree
<1>6. Owned(g, lv)
  BY <1>4, <1>5 DEF Good, Owned
<1>7. Good(g, d, lv)
  BY <1>5, <1>6, SameTreeGood
<1>8. QED
  BY <1>7 DEF g

LEMMA ContentWritten ==
  ASSUME NEW fs, NEW d, NEW lv, Good(fs, d, lv), NEW i \in 1 .. Len(fs), NEW text \in Texts,
         fs[i].content = NULL, NEW b \in Block \ lv
  PROVE  Good([fs EXCEPT ![i].text = text, ![i].content = b], d, lv \cup {b})
<1> DEFINE g == [fs EXCEPT ![i].text = text, ![i].content = b]
<1>1. fs \in Seq(Node) /\ Len(fs) \in Nat /\ \A j \in 1 .. Len(fs) : fs[j] \in Node
  BY DEF Good, TableOK
<1> DEFINE w == [fs[i] EXCEPT !.text = text, !.content = b]
<1>2. /\ w \in Node /\ w.name = fs[i].name /\ w.type = fs[i].type /\ w.parent = fs[i].parent
      /\ w.content = b
  BY <1>1 DEF Node
<1>3. g = [fs EXCEPT ![i] = w]
  <2>1. PICK x, y, z, t, c : fs[i] = [name |-> x, type |-> y, parent |-> z, text |-> t, content |-> c]
    BY <1>1 DEF Node
  <2>2. i \in DOMAIN fs
    BY <1>1
  <2>3. QED
    BY <2>1, <2>2
<1> HIDE DEF g, w
<1>4. g \in Seq(Node) /\ Len(g) = Len(fs) /\ \A j \in 1 .. Len(fs) : g[j] = IF j = i THEN w ELSE fs[j]
  BY <1>1, <1>2, <1>3
<1>5. SameTree(fs, g) /\ \A j \in 1 .. Len(fs) : g[j].content = IF j = i THEN b ELSE fs[j].content
  BY <1>2, <1>4 DEF SameTree
<1>6. Owned(g, lv \cup {b})
  <2>1. b # NULL /\ \A j \in 1 .. Len(fs) : fs[j].content # b
    BY DEF Good, Owned, Block, NULL
  <2>2. lv = {fs[j].content : j \in 1 .. Len(fs)} \ {NULL}
    BY DEF Good, Owned
  <2>3. \A j, k \in 1 .. Len(fs) : fs[j].content = fs[k].content => j = k \/ fs[j].content = NULL
    BY DEF Good, Owned
  <2>4. lv \cup {b} = {g[j].content : j \in 1 .. Len(fs)} \ {NULL}
    BY <1>5, <2>1, <2>2
  <2>5. \A j, k \in 1 .. Len(fs) : g[j].content = g[k].content => j = k \/ g[j].content = NULL
    BY <1>5, <2>1, <2>3
  <2>6. QED
    BY <1>4, <2>4, <2>5 DEF Owned
<1>7. Good(g, d, lv \cup {b})
  BY <1>5, <1>6, SameTreeGood
<1>8. QED
  BY <1>7 DEF g

\* write_file and its save.
LEMMA WrittenKeeps ==
  ASSUME NEW fs, Good(fs, current_dir, live), SavedIsCurrent,
         NEW i \in 1 .. Len(fs), NEW text \in Texts, Written(fs, i, text), UNCHANGED current_dir
  PROVE  Inv'
<1>1. Save => SavedIsCurrent'
  BY DEF Save, SavedIsCurrent
<1>2. files' = files /\ UNCHANGED <<disk, saved>> => SavedIsCurrent'
  BY DEF SavedIsCurrent
<1>3. CASE fs[i].content # NULL
  <2>1. files' = [fs EXCEPT ![i].text = text] /\ Save /\ UNCHANGED live
    BY <1>3 DEF Written
  <2>2. QED
    BY <1>1, <2>1, TextWritten DEF Inv
<1>4. CASE fs[i].content = NULL
  <2>1. \/ /\ Block \ live # {}
           /\ files' = [fs EXCEPT ![i].text = text, ![i].content = FreeBlock]
           /\ live' = live \cup {FreeBlock}
           /\ Save
        \/ /\ files' = fs
           /\ UNCHANGED live
           /\ IF fs = files THEN UNCHANGED <<disk, saved>> ELSE Save
    BY <1>4, Zenon DEF Written
  <2>2. ASSUME Block \ live # {}
        PROVE  FreeBlock \in Block \ live
    <3>1. Block \ live \in SUBSET Nat
      BY DEF Block
    <3>2. \E b \in Block \ live : \A c \in Block \ live : b <= c
      BY <2>2, <3>1, LeastNat
    <3>3. QED
      BY <3>2 DEF FreeBlock
  <2>3. CASE /\ Block \ live # {}
             /\ files' = [fs EXCEPT ![i].text = text, ![i].content = FreeBlock]
             /\ live' = live \cup {FreeBlock}
             /\ Save
    <3>1. Good([fs EXCEPT ![i].text = text, ![i].content = FreeBlock], current_dir, live \cup {FreeBlock})
      BY <1>4, <2>2, <2>3, ContentWritten
    <3>2. Good(files', current_dir', live') /\ SavedIsCurrent'
      BY <1>1, <2>3, <3>1
    <3>3. QED
      BY <3>2 DEF Inv
  <2>4. CASE /\ files' = fs
             /\ UNCHANGED live
             /\ IF fs = files THEN UNCHANGED <<disk, saved>> ELSE Save
    <3>1. SavedIsCurrent'
      BY <1>1, <1>2, <2>4
    <3>2. Good(files', current_dir', live')
      BY <2>4
    <3>3. QED
      BY <3>1, <3>2 DEF Inv
  <2>5. QED
    BY <2>1, <2>3, <2>4
<1>5. QED
  BY <1>3, <1>4

(***************************************************************************)
(* Deletion.                                                               *)
(***************************************************************************)
\* The place in the old table of node i of the new one, after f was taken out.
Before(i, f) == IF i < f THEN i ELSE i + 1

LEMMA BeforeIs ==
  ASSUME NEW n \in Nat, NEW f \in 1 .. n
  PROVE  /\ \A i \in 1 .. n - 1 : Before(i, f) \in 1 .. n /\ Before(i, f) # f
         /\ \A i, j \in 1 .. n - 1 : Before(i, f) = Before(j, f) => i = j
         /\ \A k \in 1 .. n : k # f => \E i \in 1 .. n - 1 : Before(i, f) = k
<1>1. \A i \in 1 .. n - 1 : Before(i, f) \in 1 .. n /\ Before(i, f) # f
  BY DEF Before
<1>2. \A i, j \in 1 .. n - 1 : Before(i, f) = Before(j, f) => i = j
  BY DEF Before
<1>3. ASSUME NEW k \in 1 .. n, k # f
      PROVE  \E i \in 1 .. n - 1 : Before(i, f) = k
  <2>1. CASE k < f
    <3>1. k \in 1 .. n - 1 /\ Before(k, f) = k
      BY <2>1 DEF Before
    <3>2. QED
      BY <3>1
  <2>2. CASE k > f
    <3>1. k - 1 \in 1 .. n - 1 /\ Before(k - 1, f) = k
      BY <2>2 DEF Before
    <3>2. QED
      BY <3>1
  <2>3. QED
    BY <1>3, <2>1, <2>2
<1>4. QED
  BY <1>1, <1>2, <1>3

\* A node behind the current directory goes: what leads up from there stays.
LEMMA WithoutGood ==
  ASSUME Good(files, current_dir, live), NEW f \in 1 .. Len(files), current_dir < f,
         NEW g, g = Without(f)
  PROVE  Good(g, current_dir, live \ {files[f].content})
<1> DEFINE n == Len(files)
           d == current_dir
           Old(i) == Before(i, f)
<1>1. /\ TableOK(files, d) /\ Attached(files, d) /\ Unique(files) /\ Owned(files, live)
  BY DEF Good
<1>2. /\ files \in Seq(Node) /\ n \in Nat /\ n >= 1 /\ n <= MAX_FILES
      /\ d \in 1 .. n /\ MAX_FILES \in Nat
  BY <1>1, FilesystemAssumption DEF TableOK
<1>3. /\ \A i \in 1 .. n - 1 : Old(i) \in 1 .. n /\ Old(i) # f
      /\ \A i, j \in 1 .. n - 1 : Old(i) = Old(j) => i = j
      /\ \A k \in 1 .. n : k # f => \E i \in 1 .. n - 1 : Old(i) = k
  BY <1>2, BeforeIs
<1>4. g = [i \in 1 .. n - 1 |->
             [files[Old(i)] EXCEPT !.parent = Renumbered(files[Old(i)].parent, f)]]
  BY DEF Without, Before
<1>5. ASSUME NEW i \in 1 .. n - 1
      PROVE  /\ g[i] \in Node
             /\ g[i].name = files[Old(i)].name /\ g[i].type = files[Old(i)].type
             /\ g[i].content = files[Old(i)].content
             /\ g[i].parent = Renumbered(files[Old(i)].parent, f)
             /\ g[i].parent \in 0 .. i - 1
  <2> DEFINE o == files[Old(i)]
             p == Renumbered(o.parent, f)
  <2>1. o \in Node
    BY <1>2, <1>3
  <2>2. Old(i) \in 1 .. n /\ o.parent \in 0 .. Old(i) - 1
    BY <1>1, <1>3 DEF TableOK
  <2>3. p \in 0 .. i - 1
    <3> DEFINE q == o.parent
    <3>1. q \in 0 .. Before(i, f) - 1 /\ p = Renumbered(q, f)
      BY <2>2
    <3> HIDE DEF q, p, o
    <3>2. QED
      BY <1>2, <3>1 DEF Renumbered, Before, NotFound
  <2>4. p \in 0 .. MAX_FILES
    BY <1>2, <2>3
  <2>5. g[i] = [o EXCEPT !.parent = p]
    BY <1>4
  <2> HIDE DEF o, p
  <2>6. [o EXCEPT !.parent = p] \in Node
    BY <2>1, <2>4 DEF Node
  <2>7. QED
    BY <2>1, <2>3, <2>5, <2>6 DEF Node, o, p
<1>6. g \in Seq(Node) /\ Len(g) = n - 1
  <2>1. \A i \in 1 .. n - 1 : g[i] \in Node
    BY <1>5
  <2>2. g = [i \in 1 .. n - 1 |-> g[i]] /\ n - 1 \in Nat
    BY <1>2, <1>4
  <2>3. QED
    BY <2>1, <2>2
<1> HIDE DEF Old, d
<1>7. f > d /\ f \in Nat /\ d \in 1 .. n - 1
  BY <1>2 DEF d
<1>8. \A i \in 1 .. d : i \in 1 .. n - 1 /\ Old(i) = i
  BY <1>2, <1>7 DEF Old, Before
<1>9. TableOK(g, d)
  <2>1. Root \in 1 .. d /\ files[Root].type = DIRECTORY
    BY <1>1, <1>2 DEF TableOK, Root
  <2>2. g[Root].type = DIRECTORY
    BY <1>5, <1>8, <2>1
  <2>3. \A i \in 1 .. n - 1 : g[i].parent \in 0 .. i - 1
    BY <1>5
  <2> HIDE DEF n
  <2>4. QED
    BY <1>2, <1>6, <1>7, <2>2, <2>3 DEF TableOK
<1>10. Attached(g, d)
  <2>1. ASSUME NEW i \in 1 .. d
        PROVE  i \in 1 .. Len(g) /\ g[i].type = files[i].type /\ g[i].parent = files[i].parent
    <3>1. i \in 1 .. n - 1 /\ Old(i) = i /\ i \in Nat /\ i < f /\ i \in 1 .. n
      BY <1>2, <1>7, <1>8
    <3>2. files[i].parent \in 0 .. i - 1
      BY <1>1, <3>1 DEF TableOK
    <3>3. Renumbered(files[i].parent, f) = files[i].parent
      BY <3>1, <3>2 DEF Renumbered
    <3>4. QED
      BY <1>5, <1>6, <3>1, <3>3
  <2>2. SameUpTo(files, g, d)
    BY <2>1 DEF SameUpTo
  <2>3. QED
    BY <1>1, <2>2, AttachedKeeps
<1>11. Unique(g)
  <2>1. ASSUME NEW i \in 1 .. n - 1, NEW j \in 1 .. n - 1,
               i # j, g[i].parent # NotFound, g[i].parent = g[j].parent, g[i].name = g[j].name
        PROVE  Cut(g[i].name)
    <3> DEFINE p == files[Old(i)].parent
               q == files[Old(j)].parent
    <3>1. Old(i) \in 1 .. n /\ Old(j) \in 1 .. n /\ Old(i) # Old(j)
      BY <1>3, <2>1
    <3>2. /\ g[i].name = files[Old(i)].name /\ g[j].name = files[Old(j)].name
          /\ g[i].parent = Renumbered(p, f) /\ g[j].parent = Renumbered(q, f)
      BY <1>5
    <3>3. p \in Nat /\ q \in Nat
      <4>1. \A k \in 1 .. n : files[k].parent \in Nat
        BY <1>1 DEF TableOK
      <4>2. QED
        BY <3>1, <4>1
    <3>4. p = q /\ p # NotFound
      <4>1. Renumbered(p, f) = Renumbered(q, f) /\ Renumbered(p, f) # NotFound
        BY <2>1, <3>2
      <4> HIDE DEF p, q
      <4>2. QED
        BY <1>7, <3>3, <4>1 DEF Renumbered, NotFound
    <3>5. Cut(files[Old(i)].name)
      BY <1>1, <2>1, <3>1, <3>2, <3>4 DEF Unique
    <3>6. QED
      BY <3>2, <3>5
  <2>2. QED
    BY <1>6, <2>1 DEF Unique
<1>12. Owned(g, live \ {files[f].content})
  <2> DEFINE c == files[f].content
  <2>1. /\ live = {files[i].content : i \in 1 .. n} \ {NULL}
        /\ \A i, j \in 1 .. n : files[i].content = files[j].content => i = j \/ files[i].content = NULL
    BY <1>1 DEF Owned
  <2>2. ASSUME NEW x
        PROVE  x \in live \ {c} <=> x \in {g[i].content : i \in 1 .. n - 1} \ {NULL}
    <3>1. ASSUME x \in live \ {c}
          PROVE  x \in {g[i].content : i \in 1 .. n - 1} \ {NULL}
      <4>1. PICK k \in 1 .. n : x = files[k].content /\ x # NULL
        BY <2>1, <3>1
      <4>2. k # f
        BY <3>1, <4>1
      <4>3. PICK i \in 1 .. n - 1 : Old(i) = k
        BY <1>3, <4>2
      <4>4. QED
        BY <1>5, <4>1, <4>3
    <3>2. ASSUME x \in {g[i].content : i \in 1 .. n - 1} \ {NULL}
          PROVE  x \in live \ {c}
      <4>1. PICK i \in 1 .. n - 1 : x = g[i].content /\ x # NULL
        BY <3>2
      <4>2. Old(i) \in 1 .. n /\ Old(i) # f /\ x = files[Old(i)].content
        BY <1>3, <1>5, <4>1
      <4>3. x # c
        BY <2>1, <4>1, <4>2
      <4>4. QED
        BY <2>1, <4>1, <4>2, <4>3
    <3>3. QED
      BY <3>1, <3>2
  <2>3. live \ {c} = {g[i].content : i \in 1 .. n - 1} \ {NULL}
    BY <2>2
  <2>4. ASSUME NEW i \in 1 .. n - 1, NEW j \in 1 .. n - 1, g[i].content = g[j].content
        PROVE  i = j \/ g[i].content = NULL
    <3>1. /\ Old(i) \in 1 .. n /\ Old(j) \in 1 .. n /\ (Old(i) = Old(j) => i = j)
          /\ g[i].content = files[Old(i)].content /\ g[j].content = files[Old(j)].content
      BY <1>3, <1>5
    <3>2. QED
      BY <2>1, <2>4, <3>1
  <2> HIDE DEF c
  <2>5. Owned(g, live \ {c})
    BY <1>6, <2>3, <2>4 DEF Owned
  <2>6. QED
    BY <2>5 DEF c
<1>13. QED
  BY <1>9, <1>10, <1>11, <1>12 DEF Good, d

(***************************************************************************)
(* Changing the directory.                                                 *)
(***************************************************************************)
LEMMA RootAttached ==
  ASSUME Good(files, current_dir, live)
  PROVE  Root \in 1 .. Len(files) /\ Attached(files, Root)
<1>1. Root \in 1 .. Len(files) /\ files[Root].type = DIRECTORY
  BY DEF Good, TableOK, Root
<1>2. {Root} \in SUBSET (1 .. Root) /\ Root \in {Root} /\ Closed(files, {Root})
  BY <1>1 DEF Closed, Root
<1>3. QED
  BY <1>1, <1>2 DEF Attached

\* Down to a directory in an attached one.
LEMMA ChildAttached ==
  ASSUME Good(files, current_dir, live), NEW p, Attached(files, p),
         NEW j \in 1 .. Len(files), files[j].parent = p, files[j].type = DIRECTORY
  PROVE  Attached(files, j)
<1>1. PICK S \in SUBSET (1 .. p) : p \in S /\ Closed(files, S)
  BY DEF Attached
<1>2. p \in 0 .. j - 1 /\ j \in Nat
  BY DEF Good, TableOK
<1>3. S \cup {j} \in SUBSET (1 .. j)
  <2>1. \A x \in S \cup {j} : x \in 1 .. j
    BY <1>1, <1>2
  <2>2. QED
    BY <2>1
<1>4. Closed(files, S \cup {j})
  BY <1>1 DEF Closed
<1>5. QED
  BY <1>3, <1>4 DEF Attached

\* Up from an attached one.
LEMMA ParentAttached ==
  ASSUME Good(files, current_dir, live), current_dir # Root
  PROVE  /\ files[current_dir].parent \in 1 .. Len(files)
         /\ Attached(files, files[current_dir].parent)
<1> DEFINE p == files[current_dir].parent
<1>1. PICK S \in SUBSET (1 .. current_dir) : current_dir \in S /\ Closed(files, S)
  BY DEF Good, Attached
<1>2. p \in S /\ p \in 1 .. Len(files)
  BY <1>1 DEF Closed
<1> DEFINE T == {i \in S : i <= p}
<1>3. ASSUME NEW i \in T, i # Root
      PROVE  files[i].parent \in T
  <2>1. i \in 1 .. Len(files) /\ files[i].parent \in S /\ files[i].parent \in 0 .. i - 1
    BY <1>1, <1>3 DEF Closed, Good, TableOK
  <2>2. files[i].parent <= p
    BY <1>2, <2>1
  <2>3. QED
    BY <2>1, <2>2
<1>4. Closed(files, T)
  BY <1>1, <1>3 DEF Closed
<1>5. T \in SUBSET (1 .. p) /\ p \in T
  <2>1. \A i \in S : i \in Nat /\ i >= 1
    BY <1>1
  <2> HIDE DEF p
  <2>2. \A i \in T : i \in 1 .. p
    BY <1>2, <2>1
  <2>3. p \in T
    BY <1>2
  <2> HIDE DEF T
  <2>4. QED
    BY <2>2, <2>3
<1> HIDE DEF T, p
<1>6. Attached(files, p)
  BY <1>4, <1>5 DEF Attached
<1>7. QED
  BY <1>2, <1>6 DEF p

\* One component of a path.
Down(name, dir) ==
  LET next == IF dir = NotFound THEN NotFound ELSE Find(name, dir)
  IN  IF next # NotFound /\ IsDir(next) THEN next ELSE NotFound

OnWay(h, path, n) == h = [i \in 0 .. n |-> IF i = 0 THEN Root ELSE Down(path[i], h[i - 1])]

LEMMA WayExists ==
  ASSUME NEW path, NEW n \in Nat
  PROVE  \E h : OnWay(h, path, n)
<1> DEFINE S == {k \in Nat : ~ \E h : OnWay(h, path, k)}
<1>1. SUFFICES ASSUME S # {} PROVE FALSE
  OBVIOUS
<1>2. PICK m \in S : \A k \in S : m <= k
  BY <1>1, LeastNat
<1>3. m # 0
  <2> DEFINE h == [i \in 0 .. 0 |-> Root]
  <2>1. h = [i \in 0 .. 0 |-> IF i = 0 THEN Root ELSE Down(path[i], h[i - 1])]
    OBVIOUS
  <2>2. OnWay(h, path, 0)
    BY <2>1 DEF OnWay
  <2>3. QED
    BY <2>2
<1>4. m \in Nat /\ m - 1 \in Nat /\ m - 1 \notin S
  BY <1>2, <1>3
<1>5. PICK g : OnWay(g, path, m - 1)
  BY <1>4
<1> DEFINE h == [i \in 0 .. m |-> IF i = m THEN Down(path[m], g[m - 1]) ELSE g[i]]
<1>6. ASSUME NEW i \in 0 .. m
      PROVE  h[i] = IF i = 0 THEN Root ELSE Down(path[i], h[i - 1])
  <2>1. CASE i = m
    <3>1. m - 1 \in 0 .. m /\ m - 1 # m
      BY <1>4
    <3>2. h[m - 1] = g[m - 1]
      BY <3>1
    <3>3. h[m] = Down(path[m], g[m - 1])
      BY <1>4
    <3>4. QED
      BY <1>3, <2>1, <3>2, <3>3
  <2>2. CASE i # m
    <3>1. i \in 0 .. m - 1 /\ (i # 0 => i - 1 \in 0 .. m /\ i - 1 # m)
      BY <1>4, <2>2
    <3>2. h[i] = g[i] /\ (i # 0 => h[i - 1] = g[i - 1])
      BY <2>2, <3>1
    <3>3. g[i] = IF i = 0 THEN Root ELSE Down(path[i], g[i - 1])
      BY <1>5, <3>1 DEF OnWay
    <3> HIDE DEF h
    <3>4. QED
      BY <3>2, <3>3
  <2>3. QED
    BY <2>1, <2>2
<1>7. h = [i \in 0 .. m |-> h[i]]
  OBVIOUS
<1> HIDE DEF h
<1>8. OnWay(h, path, m)
  BY <1>6, <1>7 DEF OnWay
<1>9. QED
  BY <1>2, <1>8

\* Every directory a path leads through is attached.
LEMMA ResolvedAttached ==
  ASSUME Good(files, current_dir, live), NEW path, Len(path) \in Nat, Resolve(path) # NotFound
  PROVE  Resolve(path) \in 1 .. Len(files) /\ Attached(files, Resolve(path))
<1> DEFINE n == Len(path)
           at == CHOOSE h : OnWay(h, path, n)
           There(i) == i = NotFound \/ (i \in 1 .. Len(files) /\ Attached(files, i))
           S == {k \in 0 .. n : ~ There(at[k])}
<1>1. OnWay(at, path, n)
  BY WayExists
<1>2. Resolve(path) = at[n]
  BY DEF Resolve, OnWay, Down
<1> HIDE DEF at
<1>3. There(at[0])
  BY <1>1, RootAttached DEF OnWay
<1>4. ASSUME NEW k \in 1 .. n, There(at[k - 1])
      PROVE  There(at[k])
  <2> DEFINE p == at[k - 1]
             j == Find(path[k], p)
  <2>1. at[k] = Down(path[k], p)
    BY <1>1 DEF OnWay
  <2> HIDE DEF p
  <2>2. CASE p # NotFound /\ j # NotFound /\ IsDir(j)
    <3>1. j \in 1 .. Len(files) /\ files[j].parent = p /\ files[j].type = DIRECTORY
      <4>1. j \in Matches(path[k], p)
        BY <2>2, FindIs
      <4>2. DOMAIN files = 1 .. Len(files)
        BY DEF Good, TableOK
      <4>3. QED
        BY <2>2, <4>1, <4>2 DEF Matches, IsDir
    <3>2. Attached(files, p)
      BY <1>4, <2>2 DEF p
    <3>3. Attached(files, j) /\ at[k] = j
      BY <2>1, <2>2, <3>1, <3>2, ChildAttached DEF Down
    <3>4. QED
      BY <3>1, <3>3
  <2>3. CASE ~ (p # NotFound /\ j # NotFound /\ IsDir(j))
    BY <2>1, <2>3 DEF Down
  <2>4. QED
    BY <2>2, <2>3
<1> HIDE DEF There
<1>5. S = {}
  <2>1. SUFFICES ASSUME S # {} PROVE FALSE
    OBVIOUS
  <2>2. S \in SUBSET Nat
    OBVIOUS
  <2>3. PICK m \in S : \A k \in S : m <= k
    BY <2>1, <2>2, LeastNat
  <2>4. m \in 1 .. n /\ m - 1 \in 0 .. n /\ m - 1 \notin S
    BY <1>3, <2>3
  <2>5. QED
    BY <1>4, <2>3, <2>4
<1>6. There(at[n])
  BY <1>5
<1>7. QED
  BY <1>2, <1>6 DEF There

(***************************************************************************)
(* The steps.                                                              *)
(***************************************************************************)
LEMMA InvInit == Init => Inv
<1> SUFFICES ASSUME Init PROVE Inv
  OBVIOUS
<1>1. Good(files, current_dir, live)
  BY DefaultGood DEF Init
<1>2. SavedIsCurrent
  BY DEF Init, SavedIsCurrent
<1>3. QED
  BY <1>1, <1>2 DEF Inv

LEMMA SaveIsCurrent ==
  ASSUME Save
  PROVE  SavedIsCurrent'
BY DEF Save, SavedIsCurrent

\* cd to a directory that is attached.
LEMMA ChangeKeeps ==
  ASSUME Inv, NEW i \in 1 .. Len(files), Attached(files, i),
         current_dir' = i, UNCHANGED <<files, live, disk, saved>>
  PROVE  Inv'
<1>1. Good(files', current_dir', live')
  BY DEF Inv, Good, TableOK
<1>2. SavedIsCurrent'
  BY DEF Inv, SavedIsCurrent
<1>3. QED
  BY <1>1, <1>2 DEF Inv

LEMMA FoundIs ==
  ASSUME Inv, NEW name, Find(name, current_dir) # NotFound
  PROVE  /\ Find(name, current_dir) \in 1 .. Len(files)
         /\ files[Find(name, current_dir)].parent = current_dir
         /\ current_dir < Find(name, current_dir)
<1> DEFINE f == Find(name, current_dir)
<1>1. Good(files, current_dir, live)
  BY DEF Inv
<1>2. f \in Matches(name, current_dir)
  BY <1>1, FindIs
<1>3. DOMAIN files = 1 .. Len(files)
  BY <1>1 DEF Good, TableOK
<1> HIDE DEF f
<1>4. f \in 1 .. Len(files) /\ files[f].parent = current_dir
  BY <1>2, <1>3 DEF Matches
<1>5. files[f].parent \in 0 .. f - 1 /\ f \in Nat
  BY <1>1, <1>4 DEF Good, TableOK
<1>6. QED
  BY <1>4, <1>5 DEF f

LEMMA InvNext == Inv /\ [Next]_vars => Inv'
<1> SUFFICES ASSUME Inv, [Next]_vars PROVE Inv'
  OBVIOUS
<1>1. Good(files, current_dir, live) /\ SavedIsCurrent
  BY DEF Inv
<1>2. ASSUME NEW name \in Names, NEW type \in {REGULAR, DIRECTORY}, Create(name, type)
      PROVE  Inv'
  <2> DEFINE g == Append(files, Entry(name, type, current_dir))
  <2>1. /\ Len(files) < MAX_FILES /\ Find(name, current_dir) = NotFound
        /\ files' = g /\ Save /\ UNCHANGED <<current_dir, live>>
    BY <1>2 DEF Create
  <2>2. Good(g, current_dir, live)
    BY <1>1, <2>1, CreatedGood
  <2>3. QED
    BY <2>1, <2>2, SaveIsCurrent DEF Inv
<1>3. ASSUME NEW name \in Names, NEW text \in Texts, WriteOld(name, text)
      PROVE  Inv'
  <2> DEFINE i == Find(name, current_dir)
  <2>1. i # NotFound /\ Written(files, i, text) /\ UNCHANGED current_dir
    BY <1>3 DEF WriteOld
  <2>2. i \in 1 .. Len(files)
    BY <2>1, FoundIs
  <2> HIDE DEF i
  <2>3. QED
    BY <1>1, <2>1, <2>2, WrittenKeeps
<1>4. ASSUME NEW name \in Names, NEW text \in Texts, WriteNew(name, text)
      PROVE  Inv'
  <2> DEFINE g == Append(files, Entry(name, REGULAR, current_dir))
             i == Len(files) + 1
  <2>1. /\ Len(files) < MAX_FILES /\ Find(name, current_dir) = NotFound
        /\ Written(g, i, text) /\ UNCHANGED current_dir
    BY <1>4 DEF WriteNew
  <2>2. Good(g, current_dir, live) /\ Len(g) = i
    BY <1>1, <2>1, CreatedGood
  <2>3. i \in 1 .. Len(g)
    <3>1. Len(files) \in Nat
      BY <1>1 DEF Good, TableOK
    <3> HIDE DEF g
    <3>2. QED
      BY <2>2, <3>1
  <2> HIDE DEF g, i
  <2>4. QED
    BY <1>1, <2>1, <2>2, <2>3, WrittenKeeps
<1>5. ASSUME NEW name \in Names, RemoveNode(name)
      PROVE  Inv'
  <2> DEFINE f == Find(name, current_dir)
             d == current_dir
  <2>1. f # NotFound /\ DeleteFile(f)
    BY <1>5 DEF RemoveNode
  <2>2. f \in 1 .. Len(files) /\ d < f
    BY <2>1, FoundIs
  <2> HIDE DEF f
  <2>3. /\ live' = live \ {files[f].content} /\ files' = Without(f) /\ Save
        /\ d' = IF d = f THEN Root ELSE IF d > f THEN d - 1 ELSE d
    BY <2>1 DEF DeleteFile
  <2>4. d' = d
    <3>1. d \in Nat /\ f \in Nat
      BY <1>1, <2>2 DEF Good, TableOK
    <3>2. QED
      BY <2>2, <2>3, <3>1
  <2>5. Good(Without(f), d, live \ {files[f].content})
    BY <1>1, <2>2, WithoutGood
  <2>6. QED
    BY <2>3, <2>4, <2>5, SaveIsCurrent DEF Inv
<1>6. ASSUME NEW name \in Names, ChangeInto(name)
      PROVE  Inv'
  <2> DEFINE i == Find(name, current_dir)
  <2>1. /\ i # NotFound /\ IsDir(i) /\ current_dir' = i
        /\ UNCHANGED <<files, live, disk, saved>>
    BY <1>6 DEF ChangeInto
  <2>2. i \in 1 .. Len(files) /\ files[i].parent = current_dir
    BY <2>1, FoundIs
  <2> HIDE DEF i
  <2>3. Attached(files, current_dir)
    BY <1>1 DEF Good
  <2>4. Attached(files, i)
    BY <1>1, <2>1, <2>2, <2>3, ChildAttached DEF IsDir
  <2>5. QED
    BY <2>1, <2>2, <2>4, ChangeKeeps
<1>7. CASE ChangeUp
  <2> DEFINE p == files[current_dir].parent
  <2>1. current_dir # Root /\ current_dir' = p /\ UNCHANGED <<files, live, disk, saved>>
    BY <1>7 DEF ChangeUp
  <2>2. p \in 1 .. Len(files) /\ Attached(files, p)
    BY <1>1, <2>1, ParentAttached
  <2> HIDE DEF p
  <2>3. QED
    BY <2>1, <2>2, ChangeKeeps
<1>8. ASSUME NEW path \in Paths, ChangeToPath(path)
      PROVE  Inv'
  <2> DEFINE r == Resolve(path)
  <2>1. r # NotFound /\ current_dir' = r /\ UNCHANGED <<files, live, disk, saved>>
    BY <1>8 DEF ChangeToPath
  <2>2. Len(path) \in Nat
    <3>1. PICK n \in 0 .. 3 : path \in [1 .. n -> Names \cup {"home", "nixuser"}]
      BY DEF Paths
    <3>2. path \in Seq(Names \cup {"home", "nixuser"})
      BY <3>1
    <3>3. QED
      BY <3>2
  <2>3. r \in 1 .. Len(files) /\ Attached(files, r)
    BY <1>1, <2>1, <2>2, ResolvedAttached
  <2> HIDE DEF r
  <2>4. QED
    BY <2>1, <2>3, ChangeKeeps
<1>9. CASE Boot
  BY <1>9, DefaultGood, SaveIsCurrent DEF Boot, Inv
<1>10. CASE UNCHANGED vars
  BY <1>1, <1>10 DEF vars, Inv, SavedIsCurrent
<1>11. QED
  BY <1>2, <1>3, <1>4, <1>5, <1>6, <1>7, <1>8, <1>9, <1>10 DEF Next

LEMMA InvAlways == Spec => []Inv
BY InvInit, InvNext, PTL DEF Spec

(***************************************************************************)
(* The theorems.                                                           *)
(***************************************************************************)

\* No sequence of cd, rm, mkdir and restarts leaves the shell in a directory
\* that is gone, is no directory, or leads nowhere: rm takes nodes from the
\* current directory only, which lie behind it in the table.
THEOREM FilesystemCwdIsAttached == Spec => []CwdIsAttached
<1>1. Inv => CwdIsAttached
  <2> SUFFICES ASSUME Inv PROVE CwdIsAttached
    OBVIOUS
  <2>1. DOMAIN files = 1 .. Len(files) /\ Attached(files, current_dir)
    BY DEF Inv, Good, TableOK
  <2>2. QED
    BY <2>1 DEF Attached, Closed, CwdIsAttached, IsDir
<1>2. QED
  BY <1>1, InvAlways, PTL

\* create_file and create_directory look for the name they are given: two nodes
\* of a directory share a name only when one was cut to it.
THEOREM FilesystemNamesAreUnique == Spec => []NamesAreUnique
<1>1. Inv => NamesAreUnique
  <2> SUFFICES ASSUME Inv PROVE NamesAreUnique
    OBVIOUS
  <2>1. DOMAIN files = 1 .. Len(files) /\ Unique(files)
    BY DEF Inv, Good, TableOK
  <2>2. QED
    BY <2>1 DEF Unique, Cut, NamesAreUnique
<1>2. QED
  BY <1>1, InvAlways, PTL

\* No contents are lost or shared, whatever is written, deleted and moved down
\* in the table, and whichever allocation fails.
THEOREM FilesystemContentsAreOwned == Spec => []ContentsAreOwned
<1>1. Inv => ContentsAreOwned
  <2> SUFFICES ASSUME Inv PROVE ContentsAreOwned
    OBVIOUS
  <2>1. DOMAIN files = 1 .. Len(files) /\ Owned(files, live)
    BY DEF Inv, Good, TableOK
  <2>2. QED
    BY <2>1 DEF Owned, ContentsAreOwned
<1>2. QED
  BY <1>1, InvAlways, PTL

\* Every operation that changes the table saves it, after its last change.
THEOREM FilesystemSavedIsCurrent == Spec => []SavedIsCurrent
<1>1. Inv => SavedIsCurrent
  BY DEF Inv
<1>2. QED
  BY <1>1, InvAlways, PTL

(***************************************************************************)
(* Open files (Storage).  First: what reads return.                        *)
(***************************************************************************)
LEMMA MinIs ==
  ASSUME NEW S \in SUBSET Nat, S # {}
  PROVE  Min(S) \in S /\ \A k \in S : Min(S) <= k
<1>1. PICK m \in S : \A k \in S : m <= k
  BY LeastNat
<1>2. QED
  BY <1>1, Zenon DEF Min

LEMMA FunctionIsSeq ==
  ASSUME NEW S, NEW n \in Nat, NEW s \in [1 .. n -> S]
  PROVE  s \in Seq(S) /\ Len(s) = n
OBVIOUS

LEMMA SliceEnd ==
  ASSUME NEW o \in Nat, NEW n \in Nat, NEW l \in Nat, NEW e, e = IF o + n < l THEN o + n ELSE l
  PROVE  (IF o + 1 <= e THEN e - (o + 1) + 1 ELSE 0)
           = IF o >= l THEN 0 ELSE IF o + n > l THEN l - o ELSE n
OBVIOUS

\* The part c of s from o on, of n units or to the end.
IsSlice(c, s, o, n, S) ==
  /\ c \in Seq(S)
  /\ Len(c) = IF o >= Len(s) THEN 0 ELSE IF o + n > Len(s) THEN Len(s) - o ELSE n
  /\ \A i \in 1 .. Len(c) : c[i] = s[o + i]

LEMMA SliceIs ==
  ASSUME NEW S, NEW s \in Seq(S), NEW o \in Nat, NEW n \in Nat
  PROVE  Slice(s, o, n) = Files!Slice(s, o, n) /\ IsSlice(Slice(s, o, n), s, o, n, S)
<1> DEFINE e == IF o + n < Len(s) THEN o + n ELSE Len(s)
           c == Slice(s, o, n)
<1>1. Len(s) \in Nat /\ s \in [1 .. Len(s) -> S]
  BY LenProperties
<1>2. e \in Int /\ e <= Len(s) /\ o + 1 \in Int
      /\ (IF o + n > Len(s) THEN Len(s) ELSE o + n) = e
  BY <1>1
<1>3. c = SubSeq(s, o + 1, e)
  <2>1. c = SubSeq(s, o + 1, IF o + n > Len(s) THEN Len(s) ELSE o + n)
    BY Zenon DEF Slice
  <2>2. QED
    BY <1>2, <2>1, Zenon
<1>4. Files!Slice(s, o, n) = SubSeq(s, o + 1, e)
  BY Zenon DEF Files!Slice
<1>5. Files!Slice(s, o, n) = c
  BY <1>3, <1>4, Zenon
<1> HIDE DEF c
<1>6. \A i \in (o + 1) .. e : s[i] \in S
  BY <1>1, <1>2
<1>7. /\ c \in Seq(S)
      /\ Len(c) = IF o + 1 <= e THEN e - (o + 1) + 1 ELSE 0
      /\ \A i \in 1 .. e - (o + 1) + 1 : c[i] = s[(o + 1) + i - 1]
  <2> HIDE DEF e
  <2>1. QED
    BY <1>2, <1>3, <1>6, SubSeqProperties
<1>8. Len(c) = IF o >= Len(s) THEN 0 ELSE IF o + n > Len(s) THEN Len(s) - o ELSE n
  BY <1>1, <1>7, SliceEnd, Zenon
<1>9. \A i \in 1 .. Len(c) : i \in 1 .. e - (o + 1) + 1 /\ (o + 1) + i - 1 = o + i
  <2> HIDE DEF e
  <2>1. QED
    BY <1>2, <1>7
<1>10. QED
  BY <1>5, <1>7, <1>8, <1>9, Zenon DEF IsSlice, c

LEMMA FatCountIs ==
  ASSUME NEW v, v.size \in Nat, NEW n \in Nat, NEW o \in Nat
  PROVE  /\ FatCount(v, n, o) = IF o >= v.size THEN 0 ELSE IF o + n > v.size THEN v.size - o ELSE n
         /\ FatCount(v, n, o) \in Nat /\ FatCount(v, n, o) <= n
BY DEF FatCount

At(v, o, i) == ClusterAt(v.ino, (o + i - 1) \div ClusterSize)

\* The clusters are those along the chain, up to the count or its end.
LEMMA FatUnitsIs ==
  ASSUME NEW v, NEW n, NEW o, FatCount(v, n, o) \in Nat
  PROVE  \E k \in 0 .. FatCount(v, n, o) :
           /\ FatUnits(v, n, o) = [i \in 1 .. k |-> At(v, o, i)]
           /\ k = FatCount(v, n, o) \/ At(v, o, k + 1) = Eoc
<1> DEFINE count == FatCount(v, n, o)
           at(i) == At(v, o, i)
           P(k)  == (\A i \in 1 .. k : at(i) # Eoc) /\ (k = count \/ at(k + 1) = Eoc)
           S     == {k \in Nat : k <= count /\ (k = count \/ at(k + 1) = Eoc)}
<1>1. PICK m \in S : \A k \in S : m <= k
  <2>1. S \in SUBSET Nat /\ count \in S
    OBVIOUS
  <2> HIDE DEF S
  <2>2. QED
    BY <2>1, LeastNat
<1>2. m \in 0 .. count /\ P(m)
  <2>1. m \in Nat /\ m <= count /\ (m = count \/ at(m + 1) = Eoc)
    BY <1>1
  <2>2. ASSUME NEW i \in 1 .. m
        PROVE  at(i) # Eoc
    <3>1. i - 1 \in Nat /\ i - 1 <= count /\ ~ (m <= i - 1) /\ i = (i - 1) + 1
      BY <2>1
    <3> HIDE DEF at
    <3>2. QED
      BY <1>1, <3>1
  <2>3. QED
    BY <2>1, <2>2
<1> DEFINE u == CHOOSE k \in 0 .. count : P(k)
<1>3. u \in 0 .. count /\ P(u)
  <2> HIDE DEF P, count
  <2>1. QED
    BY <1>2, Zenon
<1>4. FatUnits(v, n, o) = [i \in 1 .. u |-> at(i)]
  BY Zenon DEF FatUnits, At
<1>5. QED
  BY <1>3, <1>4, Zenon

LEMMA DiskSize ==
  ASSUME NEW v, <<"fat32", v.ino, v.size>> \in DiskFile
  PROVE  v.size \in Nat
<1>1. CASE \E e \in DirEntry : <<"fat32", v.ino, v.size>> = <<"fat32", e.first, e.size>>
  <2>1. PICK e \in DirEntry : <<"fat32", v.ino, v.size>> = <<"fat32", e.first, e.size>>
    BY <1>1
  <2>2. v.size = e.size /\ e.size \in Nat
    BY <2>1, DiskAssumption
  <2>3. QED
    BY <2>2
<1>2. CASE <<"fat32", v.ino, v.size>> = <<"fat32", RootCluster, 0>>
  BY <1>2
<1>3. QED
  BY <1>1, <1>2, Zenon DEF DiskFile

\* Where a chain is as long as its file, a read of it copies the count.
LEMMA DiskFileIs ==
  ASSUME NEW v, NEW f, f = <<"fat32", v.ino, v.size>>, f \in DiskFile, f \notin Stray
  PROVE  /\ v.size \in Nat
         /\ \A i \in 1 .. v.size : ClusterIn(DiskFat, v.ino, (i - 1) \div ClusterSize) \in Cluster
         /\ DiskContent[f] \in Seq(Unit) /\ Len(DiskContent[f]) = v.size
         /\ \A i \in 1 .. v.size :
              DiskContent[f][i] = DiskData[ClusterIn(DiskFat, v.ino, (i - 1) \div ClusterSize)]
                                          [((i - 1) % ClusterSize) + 1]
<1>1. v.size \in Nat
  BY DiskSize, Zenon
<1>2. f[2] = v.ino /\ f[3] = v.size
  OBVIOUS
<1>3. /\ v.size \in Nat
      /\ \A i \in 1 .. v.size : ClusterIn(DiskFat, v.ino, (i - 1) \div ClusterSize) \in Cluster
  <2>1. Whole(f)
    BY Zenon DEF Stray
  <2>2. \A i \in 1 .. f[3] : ClusterIn(DiskFat, f[2], (i - 1) \div ClusterSize) \in Cluster
    BY <2>1, Zenon DEF Whole
  <2>3. QED
    BY <1>1, <1>2, <2>2, Zenon
<1> DEFINE g(i) == DiskData[ClusterIn(DiskFat, v.ino, (i - 1) \div ClusterSize)]
                           [((i - 1) % ClusterSize) + 1]
<1>5. DiskContent[f] = [i \in 1 .. v.size |-> g(i)]
  BY <1>2, Zenon DEF DiskContent
<1>6. ASSUME NEW i \in 1 .. v.size
      PROVE  g(i) \in Unit
  <2>1. ((i - 1) % ClusterSize) + 1 \in 1 .. ClusterSize
    BY <1>3, DiskAssumption
  <2>2. DiskData[ClusterIn(DiskFat, v.ino, (i - 1) \div ClusterSize)] \in [1 .. ClusterSize -> Unit]
    BY <1>3, DiskAssumption, Zenon
  <2> HIDE DEF g
  <2>3. QED
    BY <2>1, <2>2 DEF g
<1> HIDE DEF g
<1>7. DiskContent[f] \in [1 .. v.size -> Unit]
  BY <1>5, <1>6
<1>8. DiskContent[f] \in Seq(Unit) /\ Len(DiskContent[f]) = v.size
  BY <1>3, <1>7, FunctionIsSeq
<1>9. \A i \in 1 .. v.size : DiskContent[f][i] = g(i)
  BY <1>5, Zenon
<1>10. QED
  BY <1>3, <1>8, <1>9, Zenon DEF g

IsFatRead(d, v, n, o, got) ==
  /\ Len(d) \in Nat /\ Len(d) <= n
  /\ fat = DiskFat /\ got = Range(FatUnits(v, n, o)) /\ <<"fat32", v.ino, v.size>> \notin Stray
       => d = Files!Slice(DiskContent[<<"fat32", v.ino, v.size>>], o, n)

LEMMA FatReadIs ==
  ASSUME NEW v, <<"fat32", v.ino, v.size>> \in DiskFile, NEW n \in Nat, NEW o \in Nat, NEW got
  PROVE  IsFatRead(FatReadUnits(v, n, o, got), v, n, o, got)
<1> DEFINE d == FatReadUnits(v, n, o, got)
           f == <<"fat32", v.ino, v.size>>
           count == FatCount(v, n, o)
           s == DiskContent[f]
           units == FatUnits(v, n, o)
<1>1. v.size \in Nat
  BY DiskSize, Zenon
<1> HIDE DEF d, f
<1>2. /\ count = IF o >= v.size THEN 0 ELSE IF o + n > v.size THEN v.size - o ELSE n
      /\ count \in Nat /\ count <= n
  BY <1>1, FatCountIs
<1>3. PICK k \in 0 .. count :
        /\ units = [i \in 1 .. k |-> At(v, o, i)]
        /\ k = count \/ At(v, o, k + 1) = Eoc
  BY <1>2, FatUnitsIs
<1> HIDE DEF count, s, units
<1>4. k \in Nat /\ k <= count /\ k <= n
  BY <1>2, <1>3
<1> DEFINE unit(i) == IF units[i] \in got THEN DiskData[units[i]][((o + i - 1) % ClusterSize) + 1]
                      ELSE "junk"
<1>5. d = [i \in 1 .. k |-> unit(i)]
  <2>1. DOMAIN units = 1 .. k
    BY <1>3
  <2>2. d = [i \in DOMAIN units |-> unit(i)]
    BY Zenon DEF FatReadUnits, units, d
  <2>3. QED
    BY <2>1, <2>2, Zenon
<1>6. d \in Seq({unit(i) : i \in 1 .. k}) /\ Len(d) = k
  <2> HIDE DEF unit
  <2>1. d \in [1 .. k -> {unit(i) : i \in 1 .. k}]
    BY <1>5
  <2>2. QED
    BY <1>4, <2>1, FunctionIsSeq
<1>7. ASSUME fat = DiskFat, got = Range(units), f \notin Stray
      PROVE  d = Files!Slice(s, o, n)
  <2> DEFINE c == Files!Slice(s, o, n)
  <2>9. /\ \A i \in 1 .. v.size : ClusterIn(DiskFat, v.ino, (i - 1) \div ClusterSize) \in Cluster
        /\ s \in Seq(Unit) /\ Len(s) = v.size
        /\ \A i \in 1 .. v.size :
             s[i] = DiskData[ClusterIn(DiskFat, v.ino, (i - 1) \div ClusterSize)]
                            [((i - 1) % ClusterSize) + 1]
    BY <1>7, DiskFileIs, Zenon DEF f, s
  <2>0. c = Slice(s, o, n) /\ IsSlice(c, s, o, n, Unit)
    <3>1. s \in Seq(Unit)
      BY <2>9
    <3>2. QED
      BY <3>1, SliceIs, Zenon
  <2> HIDE DEF c
  <2>1. /\ c \in Seq(Unit)
        /\ Len(c) = IF o >= Len(s) THEN 0 ELSE IF o + n > Len(s) THEN Len(s) - o ELSE n
        /\ \A i \in 1 .. Len(c) : c[i] = s[o + i]
    BY <2>0, Zenon DEF IsSlice
  <2>2. Len(c) = count
    BY <1>2, <2>1, <2>9, Zenon
  <2>3. ASSUME NEW i \in 1 .. count
        PROVE  o + i \in 1 .. v.size
    <3>1. v.size \in Nat
      BY <1>1
    <3>2. QED
      BY <1>2, <3>1
  <2>4. k = count
    <3>1. SUFFICES ASSUME k # count
                   PROVE  FALSE
      OBVIOUS
    <3>2. k + 1 \in 1 .. count
      BY <1>2, <1>4, <3>1
    <3>3. ClusterIn(DiskFat, v.ino, (o + (k + 1) - 1) \div ClusterSize) \in Cluster
      BY <2>3, <2>9, <3>2
    <3>4. At(v, o, k + 1) \in Cluster
      BY <1>7, <3>3, Zenon DEF At, ClusterAt
    <3>5. QED
      BY <1>3, <3>1, <3>4, DiskAssumption, Zenon
  <2>5. ASSUME NEW i \in 1 .. k
        PROVE  unit(i) = c[i]
    <3>1. units[i] \in got
      BY <1>3, <1>7 DEF Range
    <3>2. units[i] = ClusterIn(DiskFat, v.ino, (o + i - 1) \div ClusterSize)
      BY <1>3, <1>7, Zenon DEF At, ClusterAt
    <3>3. s[o + i] = DiskData[ClusterIn(DiskFat, v.ino, ((o + i) - 1) \div ClusterSize)]
                             [(((o + i) - 1) % ClusterSize) + 1]
      BY <2>3, <2>4, <2>9, Zenon
    <3>4. c[i] = s[o + i]
      BY <2>1, <2>2, <2>4, Zenon
    <3>5. QED
      BY <3>1, <3>2, <3>3, <3>4
  <2> HIDE DEF unit
  <2>6. c \in [1 .. k -> Unit]
    BY <2>1, <2>2, <2>4, LenProperties
  <2>7. c = [i \in 1 .. k |-> c[i]]
    BY <2>6
  <2>8. QED
    BY <1>5, <2>5, <2>7, Zenon DEF c
<1>8. QED
  BY <1>4, <1>6, <1>7, Zenon DEF s, units, d, f, IsFatRead

(***************************************************************************)
(* What is found under a path.                                             *)
(***************************************************************************)
LEMMA FirstPlace ==
  ASSUME NEW S \in SUBSET (Nat \X Nat), S # {}
  PROVE  \E p \in S : \A q \in S : q = p \/ Precedes(p, q)
<1> DEFINE I == {p[1] : p \in S}
<1>1. PICK a \in I : \A k \in I : a <= k
  <2>1. I \in SUBSET Nat /\ I # {}
    OBVIOUS
  <2> HIDE DEF I
  <2>2. QED
    BY <2>1, LeastNat
<1> DEFINE J == {p[2] : p \in {q \in S : q[1] = a}}
<1>2. PICK b \in J : \A k \in J : b <= k
  <2>1. J \in SUBSET Nat /\ J # {}
    BY <1>1
  <2> HIDE DEF J
  <2>2. QED
    BY <2>1, LeastNat
<1>3. PICK p \in S : p[1] = a /\ p[2] = b
  BY <1>2
<1>4. ASSUME NEW q \in S
      PROVE  q = p \/ Precedes(p, q)
  <2>1. q[1] \in I /\ (q[1] = a => q[2] \in J)
    OBVIOUS
  <2>2. a <= q[1] /\ (q[1] = a => b <= q[2])
    BY <1>1, <1>2, <2>1
  <2> HIDE DEF I, J
  <2>3. p = <<a, b>> /\ q = <<q[1], q[2]>> /\ q[1] \in Nat /\ q[2] \in Nat /\ a \in Nat /\ b \in Nat
    BY <1>3
  <2>4. QED
    BY <1>3, <2>2, <2>3 DEF Precedes
<1>5. QED
  BY <1>4

LEMMA PlaceIs ==
  ASSUME NEW c, NEW chain, chain = DirChain(c), NEW p \in Place(chain)
  PROVE  /\ p \in Nat \X Nat
         /\ p[2] \in DOMAIN Entries(chain[p[1]])
<1>1. PICK i \in DOMAIN chain : \E j \in DOMAIN Entries(chain[i]) : p = <<i, j>>
  BY Zenon DEF Place
<1>2. PICK j \in DOMAIN Entries(chain[i]) : p = <<i, j>>
  BY <1>1
<1>3. i \in Nat
  <2> DEFINE u == CHOOSE n \in 0 .. Cardinality(Cluster) :
                    \/ ClusterAt(c, n) = Eoc
                    \/ n = Cardinality(Cluster)
  <2>1. Cardinality(Cluster) \in Nat
    BY DiskAssumption, FS_CardinalityType
  <2>2. u \in 0 .. Cardinality(Cluster)
    BY <2>1
  <2>3. chain = [k \in 1 .. u |-> ClusterAt(c, k - 1)]
    BY Zenon DEF DirChain
  <2> HIDE DEF u
  <2>4. i \in 1 .. u
    BY <2>3
  <2>5. QED
    BY <2>2, <2>4
<1>4. j \in Nat
  <2>1. CASE chain[i] \in DOMAIN DiskDir
    <3>1. j \in 1 .. Len(DiskDir[chain[i]])
      BY <2>1, DiskAssumption DEF Entries
    <3>2. QED
      BY <3>1
  <2>2. CASE chain[i] \notin DOMAIN DiskDir
    BY <2>2 DEF Entries
  <2>3. QED
    BY <2>1, <2>2
<1>5. QED
  BY <1>2, <1>3, <1>4

LEMMA FatLookupIs ==
  ASSUME NEW c, NEW name, FatLookup(c, name) # NoInode
  PROVE  \E e \in DirEntry : FatLookup(c, name) = Inode("fat32", e.first, e.size)
<1> DEFINE chain == DirChain(c)
           hits == {p \in Place(chain) :
                      /\ EntryAt(chain, p) # Deleted /\ EntryAt(chain, p).name = name
                      /\ \A q \in Place(chain) : EntryAt(chain, q) = End => Precedes(p, q)}
           h == CHOOSE p \in hits : \A q \in hits : q = p \/ Precedes(p, q)
<1>1. FatLookup(c, name) =
        IF hits = {} THEN NoInode ELSE Inode("fat32", EntryAt(chain, h).first, EntryAt(chain, h).size)
  BY Zenon DEF FatLookup
<1>0. chain = DirChain(c)
  OBVIOUS
<1> HIDE DEF chain
<1>2. hits # {}
  BY <1>1, Zenon
<1>3. hits \in SUBSET (Nat \X Nat)
  <2>1. \A p \in Place(chain) : p \in Nat \X Nat
    BY <1>0, PlaceIs, Zenon
  <2>2. QED
    BY <2>1
<1>4. h \in hits
  <2>1. \E p \in hits : \A q \in hits : q = p \/ Precedes(p, q)
    <3> HIDE DEF hits
    <3>1. QED
      BY <1>2, <1>3, FirstPlace
  <2> HIDE DEF hits
  <2>2. QED
    BY <2>1, Zenon
<1> HIDE DEF h
<1>5. /\ h \in Place(chain) /\ EntryAt(chain, h) # Deleted
      /\ \A q \in Place(chain) : EntryAt(chain, q) = End => Precedes(h, q)
  BY <1>4
<1>6. h \in Nat \X Nat /\ h[2] \in DOMAIN Entries(chain[h[1]])
  BY <1>0, <1>5, PlaceIs, Zenon
<1>7. EntryAt(chain, h) # End
  <2>1. ~ Precedes(h, h)
    BY <1>6 DEF Precedes
  <2>2. QED
    BY <1>5, <2>1, Zenon
<1>8. chain[h[1]] \in DOMAIN DiskDir
  <2>1. SUFFICES ASSUME chain[h[1]] \notin DOMAIN DiskDir
                 PROVE  FALSE
    OBVIOUS
  <2>2. Entries(chain[h[1]]) = <<End>>
    BY <2>1, Zenon DEF Entries
  <2>3. EntryAt(chain, h) = End
    BY <1>6, <2>2 DEF EntryAt
  <2>4. QED
    BY <1>7, <2>3, Zenon
<1>9. EntryAt(chain, h) \in DirEntry
  <2>1. /\ Entries(chain[h[1]]) = DiskDir[chain[h[1]]]
        /\ EntryAt(chain, h) = DiskDir[chain[h[1]]][h[2]]
    BY <1>8, Zenon DEF EntryAt, Entries
  <2>2. EntryAt(chain, h) \in Range(DiskDir[chain[h[1]]])
    BY <1>6, <2>1, Zenon DEF Range
  <2>3. QED
    BY <1>5, <1>7, <1>8, <2>2, Zenon DEF DirEntry
<1> HIDE DEF hits
<1>10. QED
  BY <1>1, <1>2, <1>9, Zenon

\* An inode that can be found when the list of sysfs is root; its root has no entry there.
Known(v, root) ==
  \/ v.fs = "fat32" /\ <<"fat32", v.ino, v.size>> \in DiskFile
  \/ v.fs = "devfs" /\ <<"devfs", v.ino, v.size>> \in DevFile
  \/ v.fs = "procfs" /\ <<"procfs", v.ino, v.size>> \in ProcFile
  \/ v.fs = "sysfs" /\ v.size = 0 /\ (v.ino # 1 => v.ino - 1 \in DOMAIN root)

EntryIn(root, v) == IF v.ino = 1 THEN NoEntry ELSE root[v.ino - 1]

MountRec == [path : {MountPoint[fs] : fs \in FsName}, fs : FsName]

SysRec == [name : SysName, data : Seq(Unit)]

\* What procfs finds has something to read.
LEMMA ProcIs ==
  /\ \A name \in DOMAIN ProcIno : ProcIno[name] \in DOMAIN ProcData
  /\ \A name \in DOMAIN Pid : 1000 + Pid[name] \in DOMAIN ProcData
  /\ \A i \in DOMAIN ProcData : ProcData[i] \in Seq(Unit)
BY VfsAssumption, Zenon

\* What is found on the drive has an entry, read rightly or not.
LEMMA EntryKnown ==
  ASSUME NEW v, NEW e \in DirEntry, v = Inode("fat32", e.first, e.size), NEW root
  PROVE  Known(v, root)
<1>1. v.fs = "fat32" /\ v.ino = e.first /\ v.size = e.size
  BY DEF Inode
<1>2. <<"fat32", v.ino, v.size>> \in DiskFile
  BY <1>1, Zenon DEF DiskFile
<1>3. QED
  BY <1>1, <1>2, Zenon DEF Known

LEMMA LeftoverIs ==
  ASSUME NEW name, NEW v \in Leftover(name), v # NoInode, NEW root
  PROVE  Known(v, root)
<1>1. PICK e \in DirEntry : v = Inode("fat32", e.first, e.size)
  BY Zenon DEF Leftover
<1>2. QED
  BY <1>1, EntryKnown, Zenon

LEMMA RootKnown ==
  ASSUME NEW fs \in FsName, fs # "ext2", NEW root
  PROVE  Known(GetRoot(fs), root)
<1> DEFINE v == GetRoot(fs)
<1>1. CASE fs = "fat32"
  <2>1. v.fs = "fat32" /\ v.ino = RootCluster /\ v.size = 0
    BY <1>1 DEF GetRoot, Inode
  <2> HIDE DEF v
  <2>2. <<"fat32", v.ino, v.size>> \in DiskFile
    BY <2>1, Zenon DEF DiskFile
  <2>3. QED
    BY <2>1, <2>2, Zenon DEF Known, v
<1>2. CASE fs # "fat32"
  <2>1. v.fs = fs /\ v.ino = 1 /\ v.size = 0 /\ fs \in {"devfs", "procfs", "sysfs"}
    BY <1>2 DEF GetRoot, Inode, FsName
  <2> HIDE DEF v
  <2>2. <<"devfs", 1, 0>> \in DevFile
    BY Zenon DEF DevFile
  <2>3. <<"procfs", 1, 0>> \in ProcFile
    BY VfsAssumption, Zenon DEF ProcFile
  <2>4. QED
    BY <2>1, <2>2, <2>3 DEF Known, v
<1>3. QED
  BY <1>1, <1>2

LEMMA LookupInIs ==
  ASSUME NEW dir, dir.fs \in {"fat32", "devfs", "procfs", "sysfs"}, NEW name,
         LookupIn(dir, name) # NoInode, sysfs_root \in Seq(SysRec)
  PROVE  Known(LookupIn(dir, name), sysfs_root)
<1> DEFINE v == LookupIn(dir, name)
<1>1. CASE dir.fs = "fat32"
  <2>1. v = FatLookup(dir.ino, name)
    BY <1>1 DEF LookupIn
  <2>2. PICK e \in DirEntry : v = Inode("fat32", e.first, e.size)
    BY <2>1, FatLookupIs, Zenon
  <2> HIDE DEF v
  <2>3. QED
    BY <2>2, EntryKnown, Zenon DEF v
<1>2. CASE dir.fs = "devfs"
  <2>1. v = DevLookup(name)
    BY <1>2 DEF LookupIn
  <2>2. name[1] \in DOMAIN DevNode /\ v = Inode("devfs", DevNode[name[1]], 0)
    BY <2>1, Zenon DEF DevLookup
  <2> HIDE DEF v
  <2>3. v.fs = "devfs" /\ v.ino = DevNode[name[1]] /\ v.size = 0
    BY <2>2 DEF Inode
  <2>4. <<"devfs", v.ino, v.size>> \in DevFile
    BY <2>2, <2>3, Zenon DEF DevFile
  <2>5. QED
    BY <2>3, <2>4, Zenon DEF Known, v
<1>3. CASE dir.fs = "procfs"
  <2>1. v = ProcLookup(name)
    BY <1>3 DEF LookupIn
  <2>2. PICK i \in DOMAIN ProcData : v = Inode("procfs", i, 0)
    <3>1. CASE name[1] \in DOMAIN ProcIno
      <4>1. v = Inode("procfs", ProcIno[name[1]], 0)
        BY <2>1, <3>1, Zenon DEF ProcLookup
      <4>2. QED
        BY <3>1, <4>1, ProcIs, Zenon
    <3>2. CASE name[1] \notin DOMAIN ProcIno
      <4>1. name[1] \in DOMAIN Pid /\ v = Inode("procfs", 1000 + Pid[name[1]], 0)
        <5>1. v = IF name[1] \in DOMAIN Pid THEN Inode("procfs", 1000 + Pid[name[1]], 0) ELSE NoInode
          BY <2>1, <3>2, Zenon DEF ProcLookup
        <5> HIDE DEF v
        <5>2. v # NoInode
          BY Zenon DEF v
        <5>3. QED
          BY <5>1, <5>2, Zenon
      <4>2. QED
        <5> DEFINE i == 1000 + Pid[name[1]]
        <5>1. i \in DOMAIN ProcData /\ v = Inode("procfs", i, 0)
          BY <4>1, ProcIs
        <5> HIDE DEF i, v
        <5>2. QED
          BY <5>1, Zenon
    <3>3. QED
      BY <3>1, <3>2, Zenon
  <2> HIDE DEF v
  <2>3. v.fs = "procfs" /\ v.ino = i /\ v.size = 0
    BY <2>2 DEF Inode
  <2>4. <<"procfs", v.ino, v.size>> \in ProcFile
    BY <2>2, <2>3, Zenon DEF ProcFile
  <2>5. QED
    BY <2>3, <2>4, Zenon DEF Known, v
<1>4. CASE dir.fs = "sysfs"
  <2>1. v = SysLookup(name)
    BY <1>4 DEF LookupIn
  <2> DEFINE I == {i \in 1 .. Len(sysfs_root) : sysfs_root[i].name = name}
             place == Min(I)
  <2>2. I # {} /\ v = Inode("sysfs", place + 1, 0)
    BY <2>1, Zenon DEF SysLookup, SelectInSeq
  <2>3. place \in I
    <3>1. I \in SUBSET Nat
      OBVIOUS
    <3> HIDE DEF I
    <3>2. QED
      BY <2>2, <3>1, MinIs
  <2>4. place \in 1 .. Len(sysfs_root) /\ DOMAIN sysfs_root = 1 .. Len(sysfs_root)
    BY <2>3, LenProperties
  <2> HIDE DEF v, place
  <2>5. v.fs = "sysfs" /\ v.ino = place + 1 /\ v.size = 0
    BY <2>2 DEF Inode
  <2>6. v.ino - 1 = place
    BY <2>4, <2>5
  <2>7. QED
    BY <2>4, <2>5, <2>6, Zenon DEF Known, v
<1>5. QED
  BY <1>1, <1>2, <1>3, <1>4 DEF LookupIn

LEMMA MountOfIs ==
  ASSUME NEW path, MountOf(path) # 0, mounts \in Seq(MountRec)
  PROVE  MountOf(path) \in DOMAIN mounts
<1> DEFINE I == {i \in 1 .. Len(mounts) : IsPrefix(mounts[i].path, path)}
           m == MountOf(path)
<1>1. m # 0
  OBVIOUS
<1>2. m = IF I # {} THEN Min(I) ELSE 0
  BY Zenon DEF MountOf, SelectInSeq
<1>3. m \in DOMAIN mounts
  <2>1. I \in SUBSET Nat
    OBVIOUS
  <2>2. Min(I) \in I
    <3> HIDE DEF I, m
    <3>1. QED
      BY <1>1, <1>2, <2>1, MinIs
  <2>3. Min(I) \in 1 .. Len(mounts)
    BY <2>2
  <2> HIDE DEF I, m
  <2>4. m = Min(I)
    BY <1>1, <1>2, Zenon
  <2>5. QED
    BY <2>3, <2>4, LenProperties
<1>4. QED
  BY <1>3

(***************************************************************************)
(* The files behind the inodes.                                            *)
(***************************************************************************)
FileIn(root, v) ==
  <<v.fs, IF v.fs = "sysfs" THEN EntryIn(root, v).name ELSE v.ino, v.size>>

OpenIn(fds, root) ==
  [fd \in {d \in DOMAIN fds : fds[d] # NoFile} |->
     [file |-> FileIn(root, fds[fd].inode), offset |-> fds[fd].offset]]

Named(s, name) == s[CHOOSE i \in DOMAIN s : s[i].name = name].data

Listed(root) == IF root = <<>> THEN SysData ELSE root

SysIn(root, name) == IF name = NoEntry.name THEN NoEntry.data ELSE Named(Listed(root), name)

ContentIn(root) ==
  [f \in VfsFile |->
     CASE f[1] = "fat32"  -> DiskContent[f]
       [] f[1] = "devfs"  -> <<>>
       [] f[1] = "procfs" -> ProcData[f[2]]
       [] f[1] = "sysfs"  -> SysIn(root, f[2])]

LEMMA MappedIs ==
  /\ Opened = OpenIn(open_files, sysfs_root) /\ Opened' = OpenIn(open_files', sysfs_root')
  /\ Content = ContentIn(sysfs_root) /\ Content' = ContentIn(sysfs_root')
BY Zenon DEF Opened, OpenIn, FileOf, SysEntry, FileIn, EntryIn, Content, ContentIn, SysContent, SysIn,
             Named, Listed

\* The entries have different names, and all the names.
Distinct(s) == \A i, j \in DOMAIN s : s[i].name = s[j].name => i = j

AllNamed(s) == Distinct(s) /\ \A name \in SysName : \E i \in DOMAIN s : s[i].name = name

LEMMA NamedIs ==
  ASSUME NEW s, Distinct(s), NEW i \in DOMAIN s
  PROVE  Named(s, s[i].name) = s[i].data
BY DEF Named, Distinct

LEMMA EntryIs ==
  ASSUME NEW root \in Seq(SysRec), NEW v, Known(v, root), v.fs = "sysfs"
  PROVE  /\ EntryIn(root, v).name \in SysName \union {NoEntry.name}
         /\ EntryIn(root, v).data \in Seq(Unit)
         /\ v.ino = 1 => EntryIn(root, v) = NoEntry
         /\ v.ino # 1 => /\ v.ino - 1 \in DOMAIN root /\ EntryIn(root, v) = root[v.ino - 1]
                         /\ EntryIn(root, v) \in SysRec
<1>1. CASE v.ino = 1
  <2>1. EntryIn(root, v) = NoEntry
    BY <1>1, Zenon DEF EntryIn
  <2>2. NoEntry.data \in Seq(Unit)
    BY DEF NoEntry
  <2>3. QED
    BY <1>1, <2>1, <2>2, Zenon
<1>2. CASE v.ino # 1
  <2> DEFINE i == v.ino - 1
  <2>1. i \in DOMAIN root
    BY <1>2 DEF Known
  <2>2. EntryIn(root, v) = root[i]
    BY <1>2, Zenon DEF EntryIn
  <2> HIDE DEF i
  <2>3. root[i] \in SysRec
    BY <2>1
  <2>4. root[i].name \in SysName /\ root[i].data \in Seq(Unit)
    BY <2>3 DEF SysRec
  <2>5. QED
    BY <1>2, <2>1, <2>2, <2>3, <2>4, Zenon DEF i
<1>3. QED
  BY <1>1, <1>2

LEMMA KnownFile ==
  ASSUME NEW root \in Seq(SysRec), NEW v, Known(v, root), NEW f, f = FileIn(root, v)
  PROVE  /\ f \in VfsFile /\ f[1] = v.fs /\ v.fs # "none" /\ v.fs # "ext2"
         /\ v.fs = "fat32" => f = <<"fat32", v.ino, v.size>> /\ f \in DiskFile
         /\ v.fs = "devfs" => f = <<"devfs", v.ino, v.size>> /\ f \in DevFile
         /\ v.fs = "procfs" => v.ino \in DOMAIN ProcData /\ f[2] = v.ino
         /\ v.fs = "sysfs" => f = <<"sysfs", EntryIn(root, v).name, 0>>
         /\ v.fs # "devfs" => f \notin DevFile
         /\ v.fs \in {"fat32", "devfs", "procfs", "sysfs"}
<1>1. f[1] = v.fs /\ (v.fs # "sysfs" => f = <<v.fs, v.ino, v.size>>)
  BY DEF FileIn
<1>2. \A g \in DevFile : g[1] = "devfs"
  BY DEF DevFile
<1>3. CASE v.fs = "fat32"
  BY <1>1, <1>2, <1>3 DEF Known, VfsFile
<1>4. CASE v.fs = "devfs"
  BY <1>1, <1>4 DEF Known, VfsFile
<1>5. CASE v.fs = "procfs"
  <2>1. f = <<"procfs", v.ino, v.size>> /\ f \in ProcFile
    BY <1>1, <1>5 DEF Known
  <2>2. PICK i \in DOMAIN ProcData : f = <<"procfs", i, 0>>
    BY <2>1, Zenon DEF ProcFile
  <2>3. v.ino \in DOMAIN ProcData /\ f[2] = v.ino
    BY <2>1, <2>2
  <2>4. QED
    BY <1>1, <1>2, <1>5, <2>1, <2>3 DEF VfsFile
<1>6. CASE v.fs = "sysfs"
  <2>1. v.size = 0
    BY <1>6 DEF Known
  <2>2. f = <<"sysfs", EntryIn(root, v).name, 0>>
    BY <1>6, <2>1, Zenon DEF FileIn
  <2>3. EntryIn(root, v).name \in SysName \union {NoEntry.name}
    BY <1>6, EntryIs, Zenon
  <2>4. f \in SysFile
    BY <2>2, <2>3, Zenon DEF SysFile
  <2>5. QED
    BY <1>1, <1>2, <1>6, <2>1, <2>2, <2>4 DEF VfsFile
<1>7. QED
  BY <1>3, <1>4, <1>5, <1>6 DEF Known

IsContent(c, root, v) ==
  /\ v.fs = "fat32" => c = DiskContent[FileIn(root, v)]
  /\ v.fs = "procfs" => c = ProcData[v.ino]
  /\ v.fs = "sysfs" => c = EntryIn(root, v).data

LEMMA ContentAt ==
  ASSUME NEW root \in Seq(SysRec), root # <<>> => Distinct(root),
         NEW v, Known(v, root)
  PROVE  IsContent(ContentIn(root)[FileIn(root, v)], root, v)
<1> DEFINE f == FileIn(root, v)
           c == ContentIn(root)[f]
<1>0. f = FileIn(root, v) /\ c = ContentIn(root)[f]
  OBVIOUS
<1> HIDE DEF f, c
<1>1. f \in VfsFile /\ f[1] = v.fs /\ (v.fs = "procfs" => f[2] = v.ino)
  BY <1>0, KnownFile, Zenon
<1>2. c = CASE f[1] = "fat32"  -> DiskContent[f]
            [] f[1] = "devfs"  -> <<>>
            [] f[1] = "procfs" -> ProcData[f[2]]
            [] f[1] = "sysfs"  -> SysIn(root, f[2])
  BY <1>0, <1>1, Zenon DEF ContentIn
<1>3. v.fs = "fat32" => c = DiskContent[f]
  BY <1>1, <1>2
<1>4. v.fs = "procfs" => c = ProcData[v.ino]
  BY <1>1, <1>2
<1>5. ASSUME v.fs = "sysfs"
      PROVE  c = EntryIn(root, v).data
  <2>1. c = SysIn(root, f[2])
    BY <1>1, <1>2, <1>5
  <2>2. f[2] = EntryIn(root, v).name
    <3>1. f = <<"sysfs", EntryIn(root, v).name, 0>>
      BY <1>0, <1>5, KnownFile, Zenon
    <3>2. QED
      BY <3>1
  <2>3. CASE v.ino = 1
    <3>1. EntryIn(root, v) = NoEntry
      BY <1>5, <2>3, EntryIs, Zenon
    <3>2. QED
      BY <2>1, <2>2, <3>1, Zenon DEF SysIn
  <2>4. CASE v.ino # 1
    <3> DEFINE i == v.ino - 1
    <3>1. i \in DOMAIN root /\ EntryIn(root, v) = root[i] /\ root[i] \in SysRec
      BY <1>5, <2>4, EntryIs, Zenon
    <3> HIDE DEF i
    <3>2. root # <<>>
      BY <3>1
    <3>3. root[i].name # NoEntry.name
      <4>1. root[i].name \in SysName
        BY <3>1 DEF SysRec
      <4>2. QED
        BY <4>1, VfsAssumption, Zenon
    <3>4. Named(root, root[i].name) = root[i].data
      BY <3>1, <3>2, NamedIs, Zenon
    <3>5. QED
      BY <2>1, <2>2, <3>1, <3>2, <3>3, <3>4, Zenon DEF SysIn, Listed
  <2>5. QED
    BY <2>3, <2>4
<1>6. QED
  BY <1>3, <1>4, <1>5, Zenon DEF f, c, IsContent

(***************************************************************************)
(* The inductive invariant.                                                *)
(***************************************************************************)
\* A descriptor is not used, or of a file that can be found; in a file of sysfs
\* that takes writes it is not behind the end.
FdOK(f, root) ==
  \/ f = NoFile
  \/ /\ f = [inode |-> f.inode, offset |-> f.offset] /\ f.offset \in Nat
     /\ Known(f.inode, root)
     /\ f.inode.fs = "sysfs" /\ EntryIn(root, f.inode).name # <<"power_control">>
          => f.offset <= Len(EntryIn(root, f.inode).data)

\* What sysfs holds is there once it is mounted.
RootOK(ms, root) ==
  /\ root \in Seq(SysRec)
  /\ root # <<>> => AllNamed(root) /\ \E i \in DOMAIN ms : ms[i].fs = "sysfs"

\* The table in memory is lost, if it is, at the mount, and a walk is at what can be found.
FatOK(ms, ft) == ft # DiskFat => \E i \in DOMAIN ms : ms[i].fs = "fat32"

WalkOK(w, root) == w = NoWalk \/ Known(w.at, root)

FdsOK(fds, root) ==
  /\ fds = [fd \in FirstFd .. LastFd |-> fds[fd]]
  /\ \A fd \in FirstFd .. LastFd : FdOK(fds[fd], root)

StorageInv ==
  /\ registered \subseteq FsName /\ mounts \in Seq(MountRec)
  /\ FatOK(mounts, fat) /\ RootOK(mounts, sysfs_root)
  /\ FdsOK(open_files, sysfs_root) /\ WalkOK(walk, sysfs_root)

\* The list of sysfs holds the same names, with no less data.
Extends(root2, root) ==
  \A i \in DOMAIN root : /\ i \in DOMAIN root2 /\ root2[i].name = root[i].name
                         /\ Len(root2[i].data) >= Len(root[i].data)

LEMMA ExtendsItself ==
  ASSUME NEW root \in Seq(SysRec)
  PROVE  Extends(root, root)
<1>1. ASSUME NEW i \in DOMAIN root
      PROVE  Len(root[i].data) \in Nat
  BY DEF SysRec
<1>2. QED
  BY <1>1 DEF Extends

\* An inode stays known, and its entry keeps its name and loses no data.
LEMMA KnownStays ==
  ASSUME NEW root, NEW root2, Extends(root2, root), NEW v, Known(v, root)
  PROVE  Known(v, root2)
BY DEF Known, Extends

LEMMA EntryStays ==
  ASSUME NEW root, NEW root2, Extends(root2, root), NEW v, Known(v, root), v.fs = "sysfs"
  PROVE  /\ EntryIn(root2, v).name = EntryIn(root, v).name
         /\ \/ EntryIn(root2, v) = EntryIn(root, v)
            \/ Len(EntryIn(root2, v).data) >= Len(EntryIn(root, v).data)
<1>1. CASE v.ino = 1
  BY <1>1, Zenon DEF EntryIn
<1>2. CASE v.ino # 1
  <2> DEFINE i == v.ino - 1
  <2>1. EntryIn(root, v) = root[i] /\ EntryIn(root2, v) = root2[i]
    BY <1>2, Zenon DEF EntryIn
  <2>2. i \in DOMAIN root
    BY <1>2 DEF Known
  <2> HIDE DEF i
  <2>3. root2[i].name = root[i].name /\ Len(root2[i].data) >= Len(root[i].data)
    BY <2>2, Zenon DEF Extends
  <2>4. QED
    BY <2>1, <2>3, Zenon
<1>3. QED
  BY <1>1, <1>2

LEMMA FdStays ==
  ASSUME NEW f, NEW root \in Seq(SysRec), NEW root2 \in Seq(SysRec), Extends(root2, root),
         FdOK(f, root)
  PROVE  FdOK(f, root2)
<1>1. CASE f = NoFile
  BY <1>1 DEF FdOK
<1>2. CASE f # NoFile
  <2> DEFINE v == f.inode
             a == EntryIn(root, v)
             b == EntryIn(root2, v)
  <2>1. /\ f = [inode |-> f.inode, offset |-> f.offset] /\ f.offset \in Nat
        /\ Known(v, root)
        /\ v.fs = "sysfs" /\ a.name # <<"power_control">> => f.offset <= Len(a.data)
    BY <1>2, Zenon DEF FdOK
  <2> HIDE DEF v, a, b
  <2>2. Known(v, root2)
    BY <2>1, KnownStays, Zenon
  <2>3. ASSUME v.fs = "sysfs", b.name # <<"power_control">>
        PROVE  f.offset <= Len(b.data)
    <3>1. b.name = a.name /\ (b = a \/ Len(b.data) >= Len(a.data))
      BY <2>1, <2>3, EntryStays, Zenon DEF a, b
    <3>2. f.offset <= Len(a.data)
      BY <2>1, <2>3, <3>1, Zenon
    <3>3. a.data \in Seq(Unit) /\ b.data \in Seq(Unit)
      BY <2>1, <2>2, <2>3, EntryIs, Zenon DEF a, b
    <3>4. Len(a.data) \in Nat /\ Len(b.data) \in Nat
      BY <3>3
    <3>5. QED
      BY <2>1, <3>1, <3>2, <3>4
  <2>4. QED
    BY <2>1, <2>2, <2>3, Zenon DEF FdOK, v, a, b
<1>3. QED
  BY <1>1, <1>2

LEMMA FdsStay ==
  ASSUME NEW fds, NEW root \in Seq(SysRec), NEW root2 \in Seq(SysRec), Extends(root2, root),
         FdsOK(fds, root)
  PROVE  FdsOK(fds, root2)
BY FdStays, Zenon DEF FdsOK

LEMMA WalkStays ==
  ASSUME NEW w, NEW root, NEW root2, Extends(root2, root), WalkOK(w, root)
  PROVE  WalkOK(w, root2)
BY KnownStays, Zenon DEF WalkOK

\* Open files keep their names.
LEMMA OpenSame ==
  ASSUME NEW fds, NEW root, NEW root2, Extends(root2, root), FdsOK(fds, root)
  PROVE  OpenIn(fds, root2) = OpenIn(fds, root)
<1> DEFINE D == {x \in DOMAIN fds : fds[x] # NoFile}
<1>1. ASSUME NEW fd \in D
      PROVE  FileIn(root2, fds[fd].inode) = FileIn(root, fds[fd].inode)
  <2> DEFINE v == fds[fd].inode
  <2>1. Known(v, root)
    <3>1. fd \in FirstFd .. LastFd /\ fds[fd] # NoFile
      BY DEF FdsOK
    <3>2. QED
      BY <3>1, Zenon DEF FdsOK, FdOK
  <2> HIDE DEF v
  <2>2. v.fs = "sysfs" => EntryIn(root2, v).name = EntryIn(root, v).name
    BY <2>1, EntryStays, Zenon
  <2>3. FileIn(root2, v) = FileIn(root, v)
    BY <2>2, Zenon DEF FileIn
  <2>4. QED
    BY <2>3, Zenon DEF v
<1>2. QED
  BY <1>1, Zenon DEF OpenIn

LEMMA ContentSame ==
  ASSUME NEW root, NEW root2,
         \A name \in SysName : Named(Listed(root2), name) = Named(Listed(root), name)
  PROVE  ContentIn(root2) = ContentIn(root)
<1>1. ASSUME NEW f \in VfsFile, f[1] = "sysfs"
      PROVE  SysIn(root2, f[2]) = SysIn(root, f[2])
  <2>1. f \in SysFile
    BY <1>1 DEF VfsFile, DiskFile, DevFile, ProcFile
  <2>2. PICK name \in SysName \union {NoEntry.name} : f = <<"sysfs", name, 0>>
    BY <2>1, Zenon DEF SysFile
  <2>3. f[2] = name
    BY <2>2
  <2>4. name = NoEntry.name \/ name \in SysName
    OBVIOUS
  <2>5. QED
    BY <2>3, <2>4, Zenon DEF SysIn
<1> DEFINE C(r, f) == CASE f[1] = "fat32"  -> DiskContent[f]
                        [] f[1] = "devfs"  -> <<>>
                        [] f[1] = "procfs" -> ProcData[f[2]]
                        [] f[1] = "sysfs"  -> SysIn(r, f[2])
<1>2. ASSUME NEW f \in VfsFile
      PROVE  C(root2, f) = C(root, f)
  <2>1. f[1] \in {"fat32", "devfs", "procfs", "sysfs"}
    BY DEF VfsFile, DiskFile, DevFile, ProcFile, SysFile
  <2>2. QED
    BY <1>1, <2>1
<1>3. ContentIn(root2) = [f \in VfsFile |-> C(root2, f)] /\ ContentIn(root) = [f \in VfsFile |-> C(root, f)]
  BY Zenon DEF ContentIn
<1> HIDE DEF C
<1>4. QED
  BY <1>2, <1>3, Zenon

\* Steps of which the files know nothing.
LEMMA OtherStep ==
  ASSUME StorageInv, open_files' = open_files, data' = <<>>,
         fat # DiskFat => fat' # DiskFat,
         Extends(sysfs_root', sysfs_root), ContentIn(sysfs_root') = ContentIn(sysfs_root)
  PROVE  Files!Other
<1>1. OpenIn(open_files', sysfs_root') = OpenIn(open_files, sysfs_root)
  BY OpenSame, Zenon DEF StorageInv
<1>2. Content' = Content /\ Opened' = Opened
  BY <1>1, MappedIs, Zenon
<1>3. QED
  BY <1>2 DEF Files!Other

LEMMA RegisterStep ==
  ASSUME StorageInv, RegisterSysfs
  PROVE  StorageInv' /\ Files!Other
<1>1. StorageInv'
  <2>1. registered' = registered \union {"sysfs"} /\ mounts' = mounts /\ fat' = fat
        /\ sysfs_root' = sysfs_root /\ open_files' = open_files /\ walk' = walk
    BY DEF RegisterSysfs
  <2>2. registered' \subseteq FsName
    BY <2>1 DEF StorageInv, FsName
  <2>3. QED
    BY <2>1, <2>2, Zenon DEF StorageInv
<1>2. Extends(sysfs_root', sysfs_root)
  BY ExtendsItself DEF StorageInv, RootOK, RegisterSysfs
<1>3. Files!Other
  BY <1>2, OtherStep DEF RegisterSysfs
<1>4. QED
  BY <1>1, <1>3

LEMMA AhciStep ==
  ASSUME StorageInv, AhciInit
  PROVE  StorageInv' /\ Files!Other
<1>1. /\ data' = <<>> /\ registered' = registered /\ mounts' = mounts /\ fat' = fat
      /\ sysfs_root' = sysfs_root /\ open_files' = open_files /\ walk' = walk
  BY DEF AhciInit
<1>2. sysfs_root \in Seq(SysRec) /\ Extends(sysfs_root, sysfs_root)
  BY ExtendsItself DEF StorageInv, RootOK
<1>3. StorageInv'
  BY <1>1, Zenon DEF StorageInv
<1>4. Files!Other
  BY <1>1, <1>2, OtherStep, Zenon
<1>5. QED
  BY <1>3, <1>4

LEMMA ReverseIs ==
  ASSUME NEW s, s = Reverse(SysData)
  PROVE  /\ s \in Seq(SysRec) /\ AllNamed(s)
         /\ \A name \in SysName : Named(s, name) = Named(SysData, name)
<1> DEFINE L == Len(SysData)
<1>1. L \in Nat /\ SysData \in [1 .. L -> SysRec] /\ DOMAIN SysData = 1 .. L /\ Distinct(SysData)
  <2>1. SysData \in Seq(SysRec) /\ Distinct(SysData)
    BY VfsAssumption, Zenon DEF SysRec, Distinct
  <2>2. QED
    BY <2>1, LenProperties
<1>2. s = [i \in 1 .. L |-> SysData[(L - i) + 1]]
  BY Zenon DEF Reverse
<1> HIDE DEF L
<1>3. \A i \in 1 .. L : (L - i) + 1 \in 1 .. L /\ (L - ((L - i) + 1)) + 1 = i
  BY <1>1
<1>4. s \in [1 .. L -> SysRec]
  BY <1>1, <1>2, <1>3
<1>5. s \in Seq(SysRec) /\ Len(s) = L /\ DOMAIN s = 1 .. L
  BY <1>1, <1>4, FunctionIsSeq
<1>6. \A i \in 1 .. L : s[i] = SysData[(L - i) + 1] /\ s[(L - i) + 1] = SysData[i]
  BY <1>2, <1>3
<1>7. Distinct(s)
  <2>1. SUFFICES ASSUME NEW i \in 1 .. L, NEW j \in 1 .. L, s[i].name = s[j].name
                 PROVE  i = j
    BY <1>5, Zenon DEF Distinct
  <2>2. (L - i) + 1 = (L - j) + 1
    <3> DEFINE a == (L - i) + 1
               b == (L - j) + 1
    <3>1. a \in DOMAIN SysData /\ b \in DOMAIN SysData /\ s[i] = SysData[a] /\ s[j] = SysData[b]
      BY <1>1, <1>3, <1>6
    <3> HIDE DEF a, b
    <3>2. a = b
      BY <1>1, <2>1, <3>1, Zenon DEF Distinct
    <3>3. QED
      BY <3>2 DEF a, b
  <2>3. QED
    BY <1>1, <2>2
<1>8. ASSUME NEW name \in SysName
      PROVE  \E i \in 1 .. L : /\ s[(L - i) + 1].name = name /\ (L - i) + 1 \in 1 .. L
                               /\ Named(s, name) = Named(SysData, name)
  <2>1. PICK i \in 1 .. L : SysData[i].name = name
    BY <1>1, Zenon DEF SysName
  <2>2. (L - i) + 1 \in 1 .. L /\ s[(L - i) + 1] = SysData[i]
    BY <1>3, <1>6
  <2>3. Named(SysData, name) = SysData[i].data
    BY <1>1, <2>1, NamedIs, Zenon
  <2>4. Named(s, name) = SysData[i].data
    <3> DEFINE k == (L - i) + 1
    <3>1. k \in DOMAIN s /\ s[k] = SysData[i]
      BY <1>5, <2>2
    <3> HIDE DEF k
    <3>2. Named(s, s[k].name) = s[k].data
      BY <1>7, <3>1, NamedIs, Zenon
    <3>3. QED
      BY <2>1, <3>1, <3>2, Zenon
  <2>5. QED
    BY <2>1, <2>2, <2>3, <2>4, Zenon
<1>9. QED
  BY <1>5, <1>7, <1>8, Zenon DEF AllNamed

LEMMA TurnIs == \A fs : Turn(fs) \in Nat
<1> SUFFICES ASSUME NEW fs
             PROVE  Turn(fs) \in Nat
  OBVIOUS
<1> DEFINE I == {i \in 1 .. Len(MountOrder) : MountOrder[i] = fs}
<1>1. Turn(fs) = IF I # {} THEN Min(I) ELSE 0
  BY Zenon DEF Turn, SelectInSeq
<1>2. I \in SUBSET Nat
  OBVIOUS
<1> HIDE DEF I
<1>3. I # {} => Min(I) \in Nat
  BY <1>2, MinIs
<1>4. QED
  BY <1>1, <1>3

LEMMA MountStep ==
  ASSUME StorageInv, NEW fs \in registered, Mount(fs)
  PROVE  StorageInv' /\ Files!Other
<1> DEFINE rec == [path |-> MountPoint[fs], fs |-> fs]
<1>1. /\ \A i \in DOMAIN mounts : Turn(mounts[i].fs) < Turn(fs)
      /\ mounts' = <<rec>> \o mounts
      /\ sysfs_root' = IF fs = "sysfs" THEN SysfsMounted ELSE sysfs_root
      /\ fs # "fat32" => fat' = fat
      /\ data' = <<>> /\ registered' = registered /\ open_files' = open_files /\ walk' = walk
  BY DEF Mount
<1>2. /\ registered \subseteq FsName /\ mounts \in Seq(MountRec)
      /\ FatOK(mounts, fat) /\ RootOK(mounts, sysfs_root)
      /\ FdsOK(open_files, sysfs_root) /\ WalkOK(walk, sysfs_root)
  BY DEF StorageInv
<1>3. mounts' \in Seq(MountRec) /\ Len(mounts') = Len(mounts) + 1 /\ mounts'[1] = rec
      /\ (\A i \in DOMAIN mounts : i + 1 \in DOMAIN mounts' /\ mounts'[i + 1] = mounts[i])
      /\ 1 \in DOMAIN mounts'
      /\ \A i \in DOMAIN mounts' : mounts'[i] = rec \/ \E j \in DOMAIN mounts : mounts'[i] = mounts[j]
  <2>1. rec \in MountRec /\ <<rec>> \in Seq(MountRec) /\ Len(<<rec>>) = 1 /\ <<rec>>[1] = rec
    BY <1>2 DEF MountRec
  <2> HIDE DEF rec
  <2>2. DOMAIN mounts = 1 .. Len(mounts) /\ Len(mounts) \in Nat
    BY <1>2, LenProperties
  <2>3. /\ mounts' \in Seq(MountRec) /\ Len(mounts') = Len(<<rec>>) + Len(mounts)
        /\ \A i \in 1 .. Len(<<rec>>) + Len(mounts) :
             mounts'[i] = IF i <= Len(<<rec>>) THEN <<rec>>[i] ELSE mounts[i - Len(<<rec>>)]
    BY <1>1, <1>2, <2>1, ConcatProperties
  <2>4. DOMAIN mounts' = 1 .. Len(mounts')
    BY <2>3, LenProperties
  <2>5. \A i \in 1 .. 1 + Len(mounts) : mounts'[i] = IF i = 1 THEN rec ELSE mounts[i - 1]
    BY <2>1, <2>2, <2>3
  <2>6. \A i \in DOMAIN mounts : i + 1 \in DOMAIN mounts' /\ mounts'[i + 1] = mounts[i]
    BY <2>1, <2>2, <2>3, <2>4, <2>5
  <2>7. ASSUME NEW i \in DOMAIN mounts', i # 1
        PROVE  i - 1 \in DOMAIN mounts /\ mounts'[i] = mounts[i - 1]
    BY <2>1, <2>2, <2>3, <2>4, <2>5, <2>7
  <2>8. 1 \in DOMAIN mounts' /\ mounts'[1] = rec /\ Len(mounts') = Len(mounts) + 1
    BY <2>1, <2>2, <2>3, <2>4, <2>5
  <2>9. QED
    BY <2>3, <2>6, <2>7, <2>8, Zenon
<1>4. fat # DiskFat => fat' # DiskFat
  <2>1. ASSUME fat # DiskFat
        PROVE  fs # "fat32"
    <3>1. PICK i \in DOMAIN mounts : mounts[i].fs = "fat32"
      BY <1>2, <2>1, Zenon DEF FatOK
    <3>2. Turn("fat32") < Turn(fs)
      BY <1>1, <3>1, Zenon
    <3>3. ~ (Turn("fat32") < Turn("fat32"))
      BY TurnIs
    <3>4. QED
      BY <3>2, <3>3, Zenon
  <2>2. QED
    BY <1>1, <2>1, Zenon
<1>5. FatOK(mounts', fat')
  <2>1. CASE fs = "fat32"
    <3>1. 1 \in DOMAIN mounts' /\ mounts'[1].fs = "fat32"
      BY <1>3, <2>1
    <3>2. QED
      BY <3>1, Zenon DEF FatOK
  <2>2. CASE fs # "fat32"
    <3>1. ASSUME fat # DiskFat
          PROVE  \E k \in DOMAIN mounts' : mounts'[k].fs = "fat32"
      <4>1. PICK i \in DOMAIN mounts : mounts[i].fs = "fat32"
        BY <1>2, <3>1, Zenon DEF FatOK
      <4>2. i + 1 \in DOMAIN mounts' /\ mounts'[i + 1].fs = "fat32"
        BY <1>3, <4>1, Zenon
      <4>3. QED
        BY <4>2, Zenon
    <3>2. QED
      BY <1>1, <2>2, <3>1, Zenon DEF FatOK
  <2>3. QED
    BY <2>1, <2>2
<1>6. sysfs_root \in Seq(SysRec) /\ Extends(sysfs_root, sysfs_root)
  BY <1>2, ExtendsItself DEF RootOK
<1>7. /\ RootOK(mounts', sysfs_root') /\ Extends(sysfs_root', sysfs_root)
      /\ ContentIn(sysfs_root') = ContentIn(sysfs_root)
  <2>1. CASE fs = "sysfs"
    <3>1. sysfs_root = <<>>
      <4>1. \A i \in DOMAIN mounts : mounts[i].fs # "sysfs"
        <5>1. ~ (Turn(fs) < Turn(fs))
          BY TurnIs
        <5>2. QED
          BY <1>1, <2>1, <5>1, Zenon
      <4>2. QED
        BY <1>2, <4>1, Zenon DEF RootOK
    <3> DEFINE s == Reverse(SysData)
    <3>2. /\ s \in Seq(SysRec) /\ AllNamed(s)
          /\ \A name \in SysName : Named(s, name) = Named(SysData, name)
      BY ReverseIs, Zenon
    <3> HIDE DEF s
    <3>3. sysfs_root' = s
      <4>1. sysfs_root' = s \o <<>>
        BY <1>1, <2>1, <3>1 DEF SysfsMounted, s
      <4>2. QED
        BY <3>2, <4>1, ConcatEmptySeq, Zenon
    <3>4. RootOK(mounts', s)
      <4>1. mounts'[1].fs = "sysfs"
        BY <1>3, <2>1
      <4>2. QED
        BY <1>3, <3>2, <4>1, Zenon DEF RootOK
    <3>5. Extends(s, <<>>)
      BY DEF Extends
    <3>6. ContentIn(s) = ContentIn(<<>>)
      <4>1. \A name \in SysName : Named(Listed(s), name) = Named(Listed(<<>>), name)
        BY <3>2, Zenon DEF Listed
      <4>2. QED
        BY <4>1, ContentSame, Zenon
    <3>7. QED
      BY <3>1, <3>3, <3>4, <3>5, <3>6, Zenon
  <2>2. CASE fs # "sysfs"
    <3>1. sysfs_root' = sysfs_root
      BY <1>1, <2>2, Zenon
    <3>2. (\E i \in DOMAIN mounts : mounts[i].fs = "sysfs")
            => \E i \in DOMAIN mounts' : mounts'[i].fs = "sysfs"
      <4>1. ASSUME NEW i \in DOMAIN mounts, mounts[i].fs = "sysfs"
            PROVE  \E k \in DOMAIN mounts' : mounts'[k].fs = "sysfs"
        <5>1. i + 1 \in DOMAIN mounts' /\ mounts'[i + 1].fs = "sysfs"
          BY <1>3, <4>1, Zenon
        <5>2. QED
          BY <5>1, Zenon
      <4>2. QED
        BY <4>1, Zenon
    <3>3. RootOK(mounts', sysfs_root)
      BY <1>2, <3>2, Zenon DEF RootOK
    <3>4. QED
      BY <1>6, <3>1, <3>3, Zenon
  <2>3. QED
    BY <2>1, <2>2
<1>8. FdsOK(open_files, sysfs_root') /\ WalkOK(walk, sysfs_root')
  <2>1. sysfs_root' \in Seq(SysRec)
    BY <1>7, Zenon DEF RootOK
  <2>2. QED
    BY <1>2, <1>6, <1>7, <2>1, FdsStay, WalkStays, Zenon
<1>9. StorageInv'
  BY <1>1, <1>2, <1>3, <1>5, <1>7, <1>8, Zenon DEF StorageInv
<1>10. Files!Other
  BY <1>1, <1>4, <1>7, OtherStep, Zenon
<1>11. QED
  BY <1>9, <1>10

(***************************************************************************)
(* Files are opened, closed and read.                                      *)
(***************************************************************************)
LEMMA FdPut ==
  ASSUME NEW fds, NEW root, FdsOK(fds, root), NEW fd \in FirstFd .. LastFd,
         NEW new, FdOK(new, root), NEW fds2, fds2 = [fds EXCEPT ![fd] = new]
  PROVE  FdsOK(fds2, root)
<1>1. fds = [x \in FirstFd .. LastFd |-> fds[x]] /\ DOMAIN fds = FirstFd .. LastFd
  <2>1. fds = [x \in FirstFd .. LastFd |-> fds[x]]
    BY Zenon DEF FdsOK
  <2>2. QED
    BY <2>1
<1>2. \A x \in FirstFd .. LastFd : fds2[x] = IF x = fd THEN new ELSE fds[x]
  BY <1>1
<1>3. fds2 = [x \in FirstFd .. LastFd |-> fds2[x]]
  BY <1>1
<1>4. \A x \in FirstFd .. LastFd : FdOK(fds2[x], root)
  <2>1. SUFFICES ASSUME NEW x \in FirstFd .. LastFd
                 PROVE  FdOK(fds2[x], root)
    OBVIOUS
  <2>2. CASE x = fd
    BY <1>2, <2>2, Zenon
  <2>3. CASE x # fd
    BY <1>2, <2>3, Zenon DEF FdsOK
  <2>4. QED
    BY <2>2, <2>3
<1>5. QED
  BY <1>3, <1>4, Zenon DEF FdsOK

\* What is open of a table of descriptors.
IsOpen(O, fds, root) ==
  /\ DOMAIN O = {x \in DOMAIN fds : fds[x] # NoFile}
  /\ O = [x \in DOMAIN O |-> O[x]]
  /\ \A x \in DOMAIN O : O[x] = [file |-> FileIn(root, fds[x].inode), offset |-> fds[x].offset]

IsPut(P, O, fd, f, o) ==
  P = [x \in DOMAIN O \union {fd} |-> IF x = fd THEN [file |-> f, offset |-> o] ELSE O[x]]

IsCleared(P, O, fd) == P = [x \in DOMAIN O \ {fd} |-> O[x]]

IsMoved(P, O, fd, k) == P = [O EXCEPT ![fd].offset = @ + k]

LEMMA OpenedAt ==
  ASSUME NEW fds, NEW root
  PROVE  IsOpen(OpenIn(fds, root), fds, root)
<1> DEFINE D == {x \in DOMAIN fds : fds[x] # NoFile}
           rec(x) == [file |-> FileIn(root, fds[x].inode), offset |-> fds[x].offset]
           O == OpenIn(fds, root)
<1>1. O = [x \in D |-> rec(x)]
  BY Zenon DEF OpenIn
<1> HIDE DEF D, rec, O
<1>2. DOMAIN O = D /\ \A x \in D : O[x] = rec(x)
  BY <1>1
<1>3. O = [x \in DOMAIN O |-> O[x]]
  BY <1>1, <1>2, Zenon
<1>4. IsOpen(O, fds, root)
  BY <1>2, <1>3, Zenon DEF IsOpen, D, rec
<1>5. QED
  BY <1>4, Zenon DEF O

LEMMA OpenPut ==
  ASSUME NEW fds, NEW root, NEW fd \in DOMAIN fds, NEW new, new # NoFile,
         NEW fds2, fds2 = [fds EXCEPT ![fd] = new]
  PROVE  IsPut(OpenIn(fds2, root), OpenIn(fds, root), fd, FileIn(root, new.inode), new.offset)
<1> DEFINE O == OpenIn(fds, root)
           P == OpenIn(fds2, root)
<1>0. IsOpen(O, fds, root) /\ IsOpen(P, fds2, root)
  BY OpenedAt, Zenon
<1>1. DOMAIN fds2 = DOMAIN fds /\ \A x \in DOMAIN fds : fds2[x] = IF x = fd THEN new ELSE fds[x]
  OBVIOUS
<1> HIDE DEF O, P
<1>2. /\ DOMAIN O = {x \in DOMAIN fds : fds[x] # NoFile}
      /\ \A x \in DOMAIN O : O[x] = [file |-> FileIn(root, fds[x].inode), offset |-> fds[x].offset]
  BY <1>0, Zenon DEF IsOpen
<1>3. /\ DOMAIN P = {x \in DOMAIN fds2 : fds2[x] # NoFile} /\ P = [x \in DOMAIN P |-> P[x]]
      /\ \A x \in DOMAIN P : P[x] = [file |-> FileIn(root, fds2[x].inode), offset |-> fds2[x].offset]
  BY <1>0, Zenon DEF IsOpen
<1>4. DOMAIN P = DOMAIN O \union {fd}
  BY <1>1, <1>2, <1>3
<1> DEFINE Q(x) == IF x = fd THEN [file |-> FileIn(root, new.inode), offset |-> new.offset] ELSE O[x]
<1>5. ASSUME NEW x \in DOMAIN P
      PROVE  P[x] = Q(x)
  <2>1. CASE x = fd
    <3>1. fds2[x] = new
      BY <1>1, <2>1, Zenon
    <3>2. QED
      BY <1>3, <2>1, <3>1, Zenon
  <2>2. CASE x # fd
    <3>1. x \in DOMAIN O /\ x \in DOMAIN fds /\ fds2[x] = fds[x]
      BY <1>1, <1>2, <1>4, <2>2
    <3>2. QED
      BY <1>2, <1>3, <2>2, <3>1, Zenon
  <2>3. QED
    BY <2>1, <2>2
<1> HIDE DEF Q
<1>6. P = [x \in DOMAIN O \union {fd} |-> Q(x)]
  BY <1>3, <1>4, <1>5, Zenon
<1>7. QED
  BY <1>6, Zenon DEF Q, IsPut, O, P

LEMMA OpenClear ==
  ASSUME NEW fds, NEW root, NEW fd \in DOMAIN fds, NEW fds2, fds2 = [fds EXCEPT ![fd] = NoFile]
  PROVE  IsCleared(OpenIn(fds2, root), OpenIn(fds, root), fd)
<1> DEFINE O == OpenIn(fds, root)
           P == OpenIn(fds2, root)
<1>0. IsOpen(O, fds, root) /\ IsOpen(P, fds2, root)
  BY OpenedAt, Zenon
<1>1. DOMAIN fds2 = DOMAIN fds /\ \A x \in DOMAIN fds : fds2[x] = IF x = fd THEN NoFile ELSE fds[x]
  OBVIOUS
<1> HIDE DEF O, P
<1>2. /\ DOMAIN O = {x \in DOMAIN fds : fds[x] # NoFile}
      /\ \A x \in DOMAIN O : O[x] = [file |-> FileIn(root, fds[x].inode), offset |-> fds[x].offset]
  BY <1>0, Zenon DEF IsOpen
<1>3. /\ DOMAIN P = {x \in DOMAIN fds2 : fds2[x] # NoFile} /\ P = [x \in DOMAIN P |-> P[x]]
      /\ \A x \in DOMAIN P : P[x] = [file |-> FileIn(root, fds2[x].inode), offset |-> fds2[x].offset]
  BY <1>0, Zenon DEF IsOpen
<1>4. DOMAIN P = DOMAIN O \ {fd}
  BY <1>1, <1>2, <1>3
<1>5. ASSUME NEW x \in DOMAIN P
      PROVE  P[x] = O[x]
  <2>1. x \in DOMAIN O /\ x \in DOMAIN fds /\ fds2[x] = fds[x]
    BY <1>1, <1>2, <1>4
  <2>2. QED
    BY <1>2, <1>3, <2>1, Zenon
<1>6. P = [x \in DOMAIN O \ {fd} |-> O[x]]
  BY <1>3, <1>4, <1>5, Zenon
<1>7. QED
  BY <1>6, Zenon DEF IsCleared, O, P

\* A descriptor moves on.
LEMMA Moves ==
  ASSUME NEW O, NEW fd \in DOMAIN O, O = [x \in DOMAIN O |-> O[x]], NEW k,
         NEW a, NEW o, O[fd] = [file |-> a, offset |-> o],
         NEW P, IsPut(P, O, fd, a, o + k)
  PROVE  IsMoved(P, O, fd, k)
<1> DEFINE R == [O EXCEPT ![fd].offset = @ + k]
           r == [file |-> a, offset |-> o + k]
<1>1. R[fd] = r /\ DOMAIN R = DOMAIN O /\ (\A x \in DOMAIN O : x # fd => R[x] = O[x])
      /\ R = [x \in DOMAIN O |-> R[x]]
  OBVIOUS
<1> HIDE DEF R, r
<1>2. DOMAIN O \union {fd} = DOMAIN O
  OBVIOUS
<1>3. P = [x \in DOMAIN O |-> IF x = fd THEN r ELSE O[x]]
  BY <1>2, Zenon DEF r, IsPut
<1>4. \A x \in DOMAIN O : (IF x = fd THEN r ELSE O[x]) = R[x]
  BY <1>1, Zenon
<1>5. P = R
  BY <1>1, <1>3, <1>4, Zenon
<1>6. QED
  BY <1>5, Zenon DEF R, IsMoved

LEMMA FdsAre ==
  ASSUME StorageInv, NEW fd \in DOMAIN open_files
  PROVE  /\ fd \in FirstFd .. LastFd /\ DOMAIN open_files = FirstFd .. LastFd
         /\ FdOK(open_files[fd], sysfs_root)
<1>1. open_files = [x \in FirstFd .. LastFd |-> open_files[x]]
  BY Zenon DEF StorageInv, FdsOK
<1>2. DOMAIN open_files = FirstFd .. LastFd
  BY <1>1
<1>3. QED
  BY <1>2, Zenon DEF StorageInv, FdsOK

\* A walk starts at a root, goes to what is found, and ends in a descriptor or in none.
LEMMA WalkStep ==
  ASSUME StorageInv, WalkOK(walk', sysfs_root), data' = <<>>, registered' = registered,
         mounts' = mounts, fat' = fat, sysfs_root' = sysfs_root, open_files' = open_files
  PROVE  StorageInv' /\ Files!Other
<1>1. sysfs_root \in Seq(SysRec) /\ Extends(sysfs_root, sysfs_root)
  BY ExtendsItself DEF StorageInv, RootOK
<1>2. StorageInv'
  BY Zenon DEF StorageInv
<1>3. Files!Other
  BY <1>1, OtherStep, Zenon
<1>4. QED
  BY <1>2, <1>3

LEMMA OpenStep ==
  ASSUME StorageInv, NEW path, Open(path)
  PROVE  StorageInv' /\ Files!Other
<1> DEFINE m == MountOf(path)
           rest == Components(SubSeq(path, Len(mounts[m].path) + 1, Len(path)))
           v == GetRoot(mounts[m].fs)
<1>1. /\ m # 0 /\ mounts[m].fs # "ext2" /\ walk' = [at |-> v, rest |-> rest]
      /\ data' = <<>> /\ registered' = registered /\ mounts' = mounts
      /\ fat' = fat /\ sysfs_root' = sysfs_root /\ open_files' = open_files
  BY DEF Open
<1>2. mounts \in Seq(MountRec)
  BY Zenon DEF StorageInv
<1>3. mounts[m].fs \in FsName
  <2>1. m \in DOMAIN mounts
    BY <1>1, <1>2, MountOfIs, Zenon
  <2> HIDE DEF m
  <2>2. mounts[m] \in MountRec
    BY <1>2, <2>1
  <2>3. QED
    BY <2>2 DEF MountRec
<1> HIDE DEF m, rest
<1>4. Known(v, sysfs_root)
  BY <1>1, <1>3, RootKnown, Zenon
<1> HIDE DEF v
<1>5. walk'.at = v
  BY <1>1
<1>6. WalkOK(walk', sysfs_root)
  BY <1>4, <1>5, Zenon DEF WalkOK
<1>7. QED
  BY <1>1, <1>6, WalkStep, Zenon

LEMMA GoStep ==
  ASSUME StorageInv, Walk
  PROVE  StorageInv' /\ Files!Other
<1> DEFINE name == Head(walk.rest)
<1>1. /\ walk # NoWalk
      /\ \/ GoesTo(LookupIn(walk.at, name))
         \/ \E found \in Leftover(name) : GoesTo(found)
      /\ data' = <<>> /\ registered' = registered /\ mounts' = mounts
      /\ fat' = fat /\ sysfs_root' = sysfs_root /\ open_files' = open_files
  BY Zenon DEF Walk
<1> HIDE DEF name
<1>2. Known(walk.at, sysfs_root) /\ sysfs_root \in Seq(SysRec)
  BY <1>1, Zenon DEF StorageInv, WalkOK, RootOK
<1>3. ASSUME NEW found, GoesTo(found), found # NoInode => Known(found, sysfs_root)
      PROVE  WalkOK(walk', sysfs_root)
  <2>1. CASE found = NoInode
    BY <1>3, <2>1, Zenon DEF GoesTo, WalkOK
  <2>2. CASE found # NoInode
    <3>1. walk' = [at |-> found, rest |-> Tail(walk.rest)]
      BY <1>3, <2>2, Zenon DEF GoesTo
    <3>2. walk'.at = found
      BY <3>1
    <3>3. QED
      BY <1>3, <2>2, <3>2, Zenon DEF WalkOK
  <2>3. QED
    BY <2>1, <2>2
<1>4. WalkOK(walk', sysfs_root)
  <2>1. CASE GoesTo(LookupIn(walk.at, name))
    <3>1. walk.at.fs \in {"fat32", "devfs", "procfs", "sysfs"}
      BY <1>2 DEF Known
    <3>2. ASSUME LookupIn(walk.at, name) # NoInode
          PROVE  Known(LookupIn(walk.at, name), sysfs_root)
      <4> DEFINE dir == walk.at
      <4>1. dir.fs \in {"fat32", "devfs", "procfs", "sysfs"} /\ LookupIn(dir, name) # NoInode
        BY <3>1, <3>2
      <4> HIDE DEF dir
      <4>2. Known(LookupIn(dir, name), sysfs_root)
        BY <1>2, <4>1, LookupInIs
      <4>3. QED
        BY <4>2, Zenon DEF dir
    <3>3. QED
      BY <1>3, <2>1, <3>2, Zenon
  <2>2. ASSUME NEW found \in Leftover(name), GoesTo(found)
        PROVE  WalkOK(walk', sysfs_root)
    BY <1>3, <2>2, LeftoverIs, Zenon
  <2>3. QED
    BY <1>1, <2>1, <2>2, Zenon
<1>5. QED
  BY <1>1, <1>4, WalkStep, Zenon

LEMMA OpensStep ==
  ASSUME StorageInv, Opens, FreeFds # {}
  PROVE  StorageInv' /\ \E fd \in FirstFd .. LastFd : \E f \in VfsFile : Files!Open(fd, f)
<1> DEFINE v   == walk.at
           fd  == Min(FreeFds)
           new == [inode |-> v, offset |-> 0]
           f   == FileIn(sysfs_root, v)
<1>1. /\ walk # NoWalk /\ open_files' = [open_files EXCEPT ![fd] = new]
      /\ walk' = NoWalk /\ data' = <<>> /\ registered' = registered /\ mounts' = mounts
      /\ fat' = fat /\ sysfs_root' = sysfs_root
  BY Zenon DEF Opens
<1>2. sysfs_root \in Seq(SysRec)
  BY Zenon DEF StorageInv, RootOK
<1>3. Known(v, sysfs_root)
  BY <1>1, Zenon DEF StorageInv, WalkOK
<1>4. fd \in DOMAIN open_files /\ open_files[fd] = NoFile
  <2>1. FreeFds \in SUBSET DOMAIN open_files /\ \A x \in FreeFds : open_files[x] = NoFile
    BY DEF FreeFds
  <2>2. \A x \in DOMAIN open_files : x \in FirstFd .. LastFd
    BY FdsAre
  <2>3. FreeFds \in SUBSET Nat
    BY <2>1, <2>2, VfsAssumption
  <2>4. fd \in FreeFds
    BY <1>1, <2>3, MinIs
  <2> HIDE DEF fd
  <2>5. QED
    BY <2>1, <2>4
<1> HIDE DEF v, fd, f
<1>5. /\ f \in VfsFile /\ v.fs # "none"
      /\ v.fs = "sysfs" => EntryIn(sysfs_root, v).data \in Seq(Unit)
  BY <1>2, <1>3, KnownFile, EntryIs, Zenon DEF f
<1>6. new # NoFile
  <2>1. NoFile.inode.fs = "none" /\ new.inode = v
    BY DEF NoFile, NoInode
  <2> HIDE DEF new
  <2>2. QED
    BY <1>5, <2>1, Zenon
<1>7. FdOK(new, sysfs_root)
  <2>1. v.fs = "sysfs" => Len(EntryIn(sysfs_root, v).data) \in Nat
    BY <1>5
  <2>2. new.inode = v /\ new.offset = 0 /\ (v.fs = "sysfs" => 0 <= Len(EntryIn(sysfs_root, v).data))
    BY <2>1
  <2>3. new = [inode |-> new.inode, offset |-> new.offset] /\ new.offset \in Nat
    OBVIOUS
  <2> HIDE DEF new
  <2>4. QED
    BY <1>3, <2>2, <2>3, Zenon DEF FdOK
<1>8. FdsOK(open_files', sysfs_root)
  <2>1. fd \in FirstFd .. LastFd /\ FdsOK(open_files, sysfs_root)
    BY <1>4, FdsAre, Zenon DEF StorageInv
  <2> HIDE DEF new
  <2>2. QED
    BY <1>1, <1>7, <2>1, FdPut, Zenon
<1>9. StorageInv'
  BY <1>1, <1>8, Zenon DEF StorageInv, WalkOK
<1>10. Files!Open(fd, f)
  <2> DEFINE O == OpenIn(open_files, sysfs_root)
             P == OpenIn(open_files', sysfs_root)
  <2>1. fd \notin DOMAIN O
    <3>1. IsOpen(O, open_files, sysfs_root)
      BY OpenedAt, Zenon
    <3> HIDE DEF O
    <3>2. DOMAIN O = {x \in DOMAIN open_files : open_files[x] # NoFile}
      BY <3>1, Zenon DEF IsOpen
    <3>3. QED
      BY <1>4, <3>2
  <2>2. IsPut(P, O, fd, FileIn(sysfs_root, new.inode), new.offset)
    <3> HIDE DEF new
    <3>1. QED
      BY <1>1, <1>4, <1>6, OpenPut, Zenon
  <2>3. new.inode = v /\ new.offset = 0
    OBVIOUS
  <2> HIDE DEF O, P, new
  <2>4. P = [x \in DOMAIN O \union {fd} |-> IF x = fd THEN [file |-> f, offset |-> 0] ELSE O[x]]
    BY <2>2, <2>3, Zenon DEF f, IsPut
  <2>5. Opened = O /\ Opened' = P /\ Content' = Content
    BY <1>1, MappedIs, Zenon DEF O, P
  <2>6. QED
    BY <1>1, <2>1, <2>4, <2>5, Zenon DEF Files!Open
<1>11. QED
  BY <1>4, <1>5, <1>9, <1>10, FdsAre, Zenon

LEMMA CloseStep ==
  ASSUME StorageInv, NEW fd \in DOMAIN open_files, Close(fd)
  PROVE  StorageInv' /\ Files!Close(fd)
<1>1. /\ open_files[fd] # NoFile /\ open_files' = [open_files EXCEPT ![fd] = NoFile]
      /\ data' = <<>> /\ registered' = registered /\ mounts' = mounts
      /\ fat' = fat /\ sysfs_root' = sysfs_root /\ walk' = walk
  BY DEF Close
<1>2. FdsOK(open_files', sysfs_root)
  <2>1. fd \in FirstFd .. LastFd /\ FdsOK(open_files, sysfs_root)
    BY FdsAre, Zenon DEF StorageInv
  <2>2. FdOK(NoFile, sysfs_root)
    BY Zenon DEF FdOK
  <2>3. QED
    BY <1>1, <2>1, <2>2, FdPut, Zenon
<1>3. StorageInv'
  BY <1>1, <1>2, Zenon DEF StorageInv
<1> DEFINE O == OpenIn(open_files, sysfs_root)
           P == OpenIn(open_files', sysfs_root)
<1>4. fd \in DOMAIN O
  <2>1. IsOpen(O, open_files, sysfs_root)
    BY OpenedAt, Zenon
  <2> HIDE DEF O
  <2>2. DOMAIN O = {x \in DOMAIN open_files : open_files[x] # NoFile}
    BY <2>1, Zenon DEF IsOpen
  <2>3. QED
    BY <1>1, <2>2
<1>5. IsCleared(P, O, fd)
  BY <1>1, OpenClear, Zenon
<1> HIDE DEF O, P
<1>6. Opened = O /\ Opened' = P /\ Content' = Content
  BY <1>1, MappedIs, Zenon DEF O, P
<1>7. Files!Close(fd)
  BY <1>1, <1>4, <1>5, <1>6, Zenon DEF Files!Close, IsCleared
<1>8. QED
  BY <1>3, <1>7


\* A read or a write moves the position; in a file of sysfs it stays inside.
Inside(f, k, root) ==
  f.inode.fs = "sysfs" /\ EntryIn(root, f.inode).name # <<"power_control">>
    => f.offset + k <= Len(EntryIn(root, f.inode).data)

OpenedIs(fd, f) ==
  /\ fd \in DOMAIN Opened
  /\ Opened[fd] = [file |-> FileIn(sysfs_root, f.inode), offset |-> f.offset]

LEMMA AdvanceStep ==
  ASSUME StorageInv, NEW fd \in DOMAIN open_files, open_files[fd] # NoFile, NEW k \in Nat,
         IsMoved(open_files', open_files, fd, k),
         sysfs_root' \in Seq(SysRec), Extends(sysfs_root', sysfs_root),
         Inside(open_files[fd], k, sysfs_root')
  PROVE  /\ FdsOK(open_files', sysfs_root')
         /\ OpenedIs(fd, open_files[fd]) /\ Opened' = Files!Advanced(fd, k)
<1> DEFINE v == open_files[fd].inode
           o == open_files[fd].offset
           new == [inode |-> v, offset |-> o + k]
<1>0. /\ open_files' = [open_files EXCEPT ![fd].offset = @ + k]
      /\ v.fs = "sysfs" /\ EntryIn(sysfs_root', v).name # <<"power_control">>
           => o + k <= Len(EntryIn(sysfs_root', v).data)
  BY Zenon DEF IsMoved, Inside
<1>1. /\ sysfs_root \in Seq(SysRec) /\ FdsOK(open_files, sysfs_root)
  BY Zenon DEF StorageInv, RootOK
<1>2. /\ open_files[fd] = [inode |-> v, offset |-> o] /\ o \in Nat
      /\ Known(v, sysfs_root) /\ fd \in FirstFd .. LastFd
  <2>1. FdOK(open_files[fd], sysfs_root) /\ fd \in FirstFd .. LastFd
    BY FdsAre
  <2>2. QED
    BY <2>1, Zenon DEF FdOK
<1> HIDE DEF v, o
<1>3. FdsOK(open_files, sysfs_root')
  BY <1>1, FdsStay, Zenon
<1>4. open_files' = [open_files EXCEPT ![fd] = new]
  <2>1. [open_files[fd] EXCEPT !.offset = @ + k] = new
    BY <1>2
  <2>2. QED
    BY <1>0, <2>1, Zenon
<1>5. new.inode = v /\ new.offset = o + k /\ new = [inode |-> new.inode, offset |-> new.offset]
      /\ new.offset \in Nat
  BY <1>2
<1>6. Known(v, sysfs_root')
  <2>1. FdOK(open_files[fd], sysfs_root')
    BY <1>2, <1>3, Zenon DEF FdsOK
  <2>2. QED
    BY <2>1, Zenon DEF FdOK, v
<1> HIDE DEF new
<1>7. FdOK(new, sysfs_root')
  BY <1>0, <1>5, <1>6, Zenon DEF FdOK
<1>8. FdsOK(open_files', sysfs_root')
  BY <1>2, <1>3, <1>4, <1>7, FdPut, Zenon
<1>9. new # NoFile
  <2>1. v.fs # "none"
    <3>1. \/ v.fs = "fat32" \/ v.fs = "devfs" \/ v.fs = "procfs" \/ v.fs = "sysfs"
      BY <1>6, Zenon DEF Known
    <3>2. QED
      BY <3>1
  <2>2. NoFile.inode.fs = "none"
    BY DEF NoFile, NoInode
  <2>3. QED
    BY <1>5, <2>1, <2>2, Zenon
<1> DEFINE O == OpenIn(open_files, sysfs_root)
           P == OpenIn(open_files', sysfs_root')
           f == FileIn(sysfs_root, v)
<1>10. OpenIn(open_files, sysfs_root') = O
  BY <1>1, OpenSame, Zenon
<1>11. IsPut(P, OpenIn(open_files, sysfs_root'), fd, FileIn(sysfs_root', new.inode), new.offset)
  BY <1>4, <1>9, OpenPut, Zenon
<1>12. FileIn(sysfs_root', v) = f
  <2>1. v.fs = "sysfs" => EntryIn(sysfs_root', v).name = EntryIn(sysfs_root, v).name
    BY <1>2, EntryStays, Zenon
  <2>2. QED
    BY <2>1, Zenon DEF FileIn
<1>13. IsOpen(O, open_files, sysfs_root)
  BY OpenedAt, Zenon
<1>14. Opened = O /\ Opened' = P
  BY MappedIs, Zenon
<1> HIDE DEF O, P, f
<1>15. IsPut(P, O, fd, f, o + k)
  BY <1>5, <1>10, <1>11, <1>12, Zenon
<1>16. fd \in DOMAIN O
  <2>1. DOMAIN O = {x \in DOMAIN open_files : open_files[x] # NoFile}
    BY <1>13, Zenon DEF IsOpen
  <2>2. QED
    BY <2>1
<1>17. O[fd] = [file |-> f, offset |-> o] /\ O = [x \in DOMAIN O |-> O[x]]
  BY <1>13, <1>16, Zenon DEF IsOpen, f, v, o
<1>18. IsMoved(P, O, fd, k)
  BY <1>15, <1>16, <1>17, Moves, Zenon
<1>19. Opened' = Files!Advanced(fd, k)
  BY <1>14, <1>18, Zenon DEF IsMoved, Files!Advanced
<1>20. QED
  BY <1>8, <1>14, <1>16, <1>17, <1>19, Zenon DEF f, v, o, OpenedIs


\* What a read of n units at o of the file f may return.
Returned(d, f, c, o, n, failed) ==
  \/ f \notin DevFile /\ d = Files!Slice(c, o, n)
  \/ /\ f \in DevFile
     /\ IF DevUnit[f] = {} THEN d = <<>>
        ELSE Len(d) = n /\ \A i \in 1 .. n : d[i] \in DevUnit[f]
  \/ f \in DiskFile /\ failed /\ Len(d) <= n

LEMMA DevReadIs ==
  ASSUME NEW v, v.fs = "devfs", NEW f \in DevFile, f = <<"devfs", v.ino, v.size>>, NEW n \in Nat,
         NEW d, d = DevRead(v, n), NEW c, NEW o, NEW failed
  PROVE  Len(d) \in Nat /\ Returned(d, f, c, o, n, failed)
<1>1. f[2] = v.ino
  OBVIOUS
<1>2. DevUnit[f] = CASE v.ino = 261 -> {"zero"}
                     [] v.ino \in {264, 265} -> {"random"}
                     [] OTHER -> {}
  BY <1>1, Zenon DEF DevUnit
<1>3. d = CASE v.ino = 261 -> [i \in 1 .. n |-> "zero"]
            [] v.ino \in {264, 265} -> [i \in 1 .. n |-> "random"]
            [] OTHER -> <<>>
  BY Zenon DEF DevRead
<1>4. ASSUME NEW u, d = [i \in 1 .. n |-> u], DevUnit[f] = {u}
      PROVE  Len(d) \in Nat /\ Returned(d, f, c, o, n, failed)
  <2>1. d \in [1 .. n -> {u}]
    BY <1>4
  <2>2. Len(d) = n /\ \A i \in 1 .. n : d[i] \in {u}
    BY <2>1, FunctionIsSeq
  <2>3. QED
    BY <1>4, <2>2, Zenon DEF Returned
<1>5. CASE v.ino = 261
  <2>1. d = [i \in 1 .. n |-> "zero"] /\ DevUnit[f] = {"zero"}
    BY <1>2, <1>3, <1>5
  <2>2. QED
    BY <1>4, <2>1, Zenon
<1>6. CASE v.ino \in {264, 265}
  <2>1. v.ino # 261
    BY <1>6
  <2>2. d = [i \in 1 .. n |-> "random"] /\ DevUnit[f] = {"random"}
    BY <1>2, <1>3, <1>6, <2>1
  <2>3. QED
    BY <1>4, <2>2, Zenon
<1>7. CASE v.ino # 261 /\ v.ino \notin {264, 265}
  <2>1. d = <<>> /\ DevUnit[f] = {} /\ Len(<<>>) \in Nat
    BY <1>2, <1>3, <1>7
  <2>2. QED
    BY <2>1, Zenon DEF Returned
<1>8. QED
  BY <1>5, <1>6, <1>7

LEMMA ReadStep ==
  ASSUME StorageInv, NEW fd \in DOMAIN open_files, NEW n \in Nat, Read(fd, n)
  PROVE  StorageInv' /\ Files!Read(fd, n)
<1> DEFINE v == open_files[fd].inode
           o == open_files[fd].offset
           f == FileIn(sysfs_root, v)
           c == ContentIn(sysfs_root)[f]
<1>1. /\ open_files[fd] # NoFile
      /\ \/ /\ v.fs = "fat32" /\ InTable(v)
            /\ LET want == Range(FatUnits(v, n, o))
               IN  \E got \in AhciRead(want) : /\ data' = FatReadUnits(v, n, o, got)
                                              /\ misread' = (got # want)
         \/ /\ v.fs = "fat32" /\ ~ InTable(v)
            /\ \E k \in 0 .. FatCount(v, n, o) : data' = [i \in 1 .. k |-> "junk"]
            /\ misread' = TRUE
         \/ v.fs = "devfs" /\ data' = DevRead(v, n)
         \/ v.fs = "procfs" /\ data' = ProcRead(v, o, n)
         \/ v.fs = "sysfs" /\ data' = SysRead(v, o, n)
      /\ open_files' = [open_files EXCEPT ![fd].offset = @ + Len(data')]
      /\ registered' = registered /\ mounts' = mounts /\ fat' = fat /\ sysfs_root' = sysfs_root
      /\ walk' = walk
  BY DEF Read
<1>2. /\ sysfs_root \in Seq(SysRec) /\ (sysfs_root # <<>> => Distinct(sysfs_root))
  BY Zenon DEF StorageInv, RootOK, AllNamed
<1>3. /\ o \in Nat /\ Known(v, sysfs_root)
      /\ v.fs = "sysfs" /\ EntryIn(sysfs_root, v).name # <<"power_control">>
           => o <= Len(EntryIn(sysfs_root, v).data)
  <2>1. FdOK(open_files[fd], sysfs_root)
    BY FdsAre
  <2>2. QED
    BY <1>1, <2>1, Zenon DEF FdOK
<1> HIDE DEF v, o, f, c
<1>4. /\ v.fs = "fat32" => f = <<"fat32", v.ino, v.size>> /\ f \in DiskFile
      /\ v.fs = "devfs" => f = <<"devfs", v.ino, v.size>> /\ f \in DevFile
      /\ v.fs = "procfs" => v.ino \in DOMAIN ProcData
      /\ v.fs = "sysfs" => EntryIn(sysfs_root, v).data \in Seq(Unit)
      /\ v.fs # "devfs" => f \notin DevFile
  BY <1>2, <1>3, KnownFile, EntryIs, Zenon DEF f
<1>5. /\ v.fs = "fat32" => c = DiskContent[f]
      /\ v.fs = "procfs" => c = ProcData[v.ino]
      /\ v.fs = "sysfs" => c = EntryIn(sysfs_root, v).data
  <2>1. IsContent(ContentIn(sysfs_root)[FileIn(sysfs_root, v)], sysfs_root, v)
    BY <1>2, <1>3, ContentAt, Zenon
  <2>2. QED
    BY <2>1, Zenon DEF f, c, IsContent
<1> DEFINE bad == f \in Stray \/ misread' \/ fat # DiskFat
           Reads == /\ Len(data') \in Nat /\ Returned(data', f, c, o, n, bad)
                    /\ v.fs = "sysfs" /\ EntryIn(sysfs_root, v).name # <<"power_control">>
                         => o + Len(data') <= Len(EntryIn(sysfs_root, v).data)
<1>6. Reads
  <2>1. CASE v.fs = "fat32" /\ InTable(v)
    <3> DEFINE want == Range(FatUnits(v, n, o))
    <3>1. PICK got \in AhciRead(want) : /\ data' = FatReadUnits(v, n, o, got)
                                        /\ misread' = (got # want)
      BY <1>1, <2>1
    <3> HIDE DEF want
    <3>2. f = <<"fat32", v.ino, v.size>> /\ f \in DiskFile /\ f \notin DevFile /\ c = DiskContent[f]
      BY <1>4, <1>5, <2>1
    <3>3. /\ Len(data') \in Nat /\ Len(data') <= n
          /\ fat = DiskFat /\ got = want /\ f \notin Stray => data' = Files!Slice(c, o, n)
      <4>1. IsFatRead(FatReadUnits(v, n, o, got), v, n, o, got)
        BY <1>3, <3>2, FatReadIs, Zenon
      <4>2. QED
        BY <3>1, <3>2, <4>1, Zenon DEF IsFatRead, want
    <3>4. Returned(data', f, c, o, n, bad)
      <4>1. CASE bad
        BY <3>2, <3>3, <4>1, Zenon DEF Returned
      <4>2. CASE ~ bad
        <5>1. data' = Files!Slice(c, o, n)
          BY <3>1, <3>3, <4>2
        <5>2. QED
          BY <3>2, <5>1, Zenon DEF Returned
      <4>3. QED
        BY <4>1, <4>2
    <3>5. v.fs # "sysfs"
      BY <2>1
    <3>6. QED
      BY <3>3, <3>4, <3>5, Zenon
  <2>7. CASE v.fs = "fat32" /\ ~ InTable(v)
    <3>1. PICK k \in 0 .. FatCount(v, n, o) : data' = [i \in 1 .. k |-> "junk"]
      BY <1>1, <2>7
    <3>2. misread' = TRUE /\ v.fs # "sysfs" /\ f \in DiskFile /\ f = <<"fat32", v.ino, v.size>>
      BY <1>1, <1>4, <2>7
    <3>3. v.size \in Nat
      BY <3>2, DiskSize, Zenon
    <3>4. FatCount(v, n, o) \in Nat /\ FatCount(v, n, o) <= n
      BY <1>3, <3>3, FatCountIs, Zenon
    <3>5. k \in Nat /\ k <= n
      BY <3>1, <3>4
    <3>6. data' \in [1 .. k -> {"junk"}]
      BY <3>1
    <3>7. Len(data') = k
      BY <3>5, <3>6, FunctionIsSeq, Zenon
    <3>8. Len(data') \in Nat /\ Len(data') <= n /\ bad
      BY <3>2, <3>5, <3>7
    <3>9. QED
      BY <3>2, <3>8, Zenon DEF Returned
  <2>2. CASE v.fs = "devfs"
    <3>1. data' = DevRead(v, n)
      BY <1>1, <2>2
    <3>2. Len(data') \in Nat /\ Returned(data', f, c, o, n, bad)
      <4> HIDE DEF bad
      <4>1. QED
        BY <1>4, <2>2, <3>1, DevReadIs, Zenon
    <3>3. v.fs # "sysfs"
      BY <2>2
    <3>4. QED
      BY <3>2, <3>3, Zenon
  <2>3. ASSUME NEW s \in Seq(Unit), c = s, data' = Slice(s, o, n),
               v.fs # "devfs", v.fs = "sysfs" => s = EntryIn(sysfs_root, v).data
        PROVE  Reads
    <3>1. data' = Files!Slice(s, o, n) /\ IsSlice(data', s, o, n, Unit)
      BY <1>3, <2>3, SliceIs, Zenon
    <3>2. Len(data') \in Nat /\ Len(s) \in Nat /\ (o <= Len(s) => o + Len(data') <= Len(s))
      <4>1. /\ data' \in Seq(Unit)
            /\ Len(data') = IF o >= Len(s) THEN 0 ELSE IF o + n > Len(s) THEN Len(s) - o ELSE n
        BY <3>1, Zenon DEF IsSlice
      <4>2. Len(data') \in Nat /\ Len(s) \in Nat
        BY <2>3, <4>1
      <4> DEFINE l == Len(s)
                 k == Len(data')
      <4>3. l \in Nat /\ k \in Nat /\ k = IF o >= l THEN 0 ELSE IF o + n > l THEN l - o ELSE n
        BY <4>1, <4>2
      <4> HIDE DEF l, k
      <4>4. o <= l => o + k <= l
        BY <1>3, <4>3
      <4>5. QED
        BY <4>2, <4>4 DEF l, k
    <3>3. Returned(data', f, c, o, n, bad)
      BY <1>4, <2>3, <3>1, Zenon DEF Returned
    <3>4. QED
      BY <1>2, <1>3, <2>3, <3>2, <3>3, Zenon
  <2>4. CASE v.fs = "procfs"
    <3>1. data' = Slice(ProcData[v.ino], o, n)
      BY <1>1, <2>4 DEF ProcRead
    <3>2. ProcData[v.ino] \in Seq(Unit) /\ c = ProcData[v.ino]
      BY <1>4, <1>5, <2>4, ProcIs, Zenon
    <3> HIDE DEF Reads
    <3>3. QED
      BY <2>3, <2>4, <3>1, <3>2
  <2>5. CASE v.fs = "sysfs"
    <3>1. data' = Slice(EntryIn(sysfs_root, v).data, o, n)
      <4>1. data' = SysRead(v, o, n)
        BY <1>1, <2>5
      <4>2. QED
        BY <4>1, Zenon DEF SysRead, SysEntry, EntryIn
    <3>2. EntryIn(sysfs_root, v).data \in Seq(Unit) /\ c = EntryIn(sysfs_root, v).data
      BY <1>4, <1>5, <2>5, Zenon
    <3> HIDE DEF Reads
    <3>3. QED
      BY <2>3, <2>5, <3>1, <3>2
  <2>6. QED
    BY <1>1, <2>1, <2>2, <2>4, <2>5, <2>7
<1> DEFINE k == Len(data')
<1>7. /\ FdsOK(open_files', sysfs_root')
      /\ OpenedIs(fd, open_files[fd]) /\ Opened' = Files!Advanced(fd, k)
  <2>1. k \in Nat
    BY <1>6
  <2>2. Inside(open_files[fd], k, sysfs_root')
    BY <1>1, <1>6, Zenon DEF Inside, v, o
  <2>3. sysfs_root' \in Seq(SysRec) /\ Extends(sysfs_root', sysfs_root)
    BY <1>1, <1>2, ExtendsItself
  <2>4. IsMoved(open_files', open_files, fd, k)
    BY <1>1, Zenon DEF IsMoved
  <2> HIDE DEF k, Reads
  <2>5. QED
    BY <1>1, <2>1, <2>2, <2>3, <2>4, AdvanceStep, Zenon
<1>8. StorageInv'
  BY <1>1, <1>6, <1>7, Zenon DEF StorageInv
<1>9. Opened[fd].file = f /\ Opened[fd].offset = o /\ Content' = Content /\ Content[f] = c
  <2>1. Opened[fd] = [file |-> f, offset |-> o]
    BY <1>7, Zenon DEF f, v, o, OpenedIs
  <2>2. Content' = Content /\ Content[f] = c
    BY <1>1, MappedIs, Zenon DEF c
  <2>3. QED
    BY <2>1, <2>2
<1>10. Returned(data', f, Content[f], o, n, bad)
  BY <1>6, <1>9, Zenon
<1> HIDE DEF Reads
<1>11. \/ f \notin DevFile /\ data' = Files!Slice(Content[f], o, n)
       \/ /\ f \in DevFile
          /\ IF DevUnit[f] = {} THEN data' = <<>>
             ELSE Len(data') = n /\ \A i \in 1 .. n : data'[i] \in DevUnit[f]
       \/ f \in DiskFile /\ bad /\ Len(data') <= n
  BY <1>10, Zenon DEF Returned
<1>12. (fat # DiskFat)' = (fat # DiskFat)
  BY <1>1
<1>13. Files!Read(fd, n)
  BY <1>7, <1>9, <1>11, <1>12, Zenon DEF Files!Read, OpenedIs
<1>14. QED
  BY <1>8, <1>13


(***************************************************************************)
(* Writes.                                                                 *)
(***************************************************************************)
LEMMA MaxIs ==
  ASSUME NEW a \in Nat, NEW b \in Nat
  PROVE  Max({a, b}) = IF b > a THEN b ELSE a
<1> DEFINE m == IF b > a THEN b ELSE a
<1>1. m \in {a, b} /\ (\A x \in {a, b} : m >= x) /\ \A y \in {a, b} : y >= m => y = m
  OBVIOUS
<1> HIDE DEF m
<1>2. \A y \in {a, b} : (\A x \in {a, b} : y >= x) => y = m
  BY <1>1
<1>3. Max({a, b}) = m
  BY <1>1, <1>2, Zenon DEF Max
<1>4. QED
  BY <1>3 DEF m

\* What is put over the data of a file.
IsOver(c, s, o, d) ==
  /\ c = Files!Over(s, o, d) /\ c \in Seq(Unit)
  /\ Len(c) >= Len(s) /\ Len(c) >= o + Len(d)

LEMMA WriteIs ==
  ASSUME NEW s \in Seq(Unit), NEW d \in Seq(Unit), NEW o \in Nat, o <= Len(s)
  PROVE  IsOver(SysWrite(s, o, d), s, o, d)
<1> DEFINE l == Len(s)
           k == Len(d)
           m == IF o + k > l THEN o + k ELSE l
           f(i) == IF i > o /\ i <= o + k THEN d[i - o] ELSE s[i]
           c == SysWrite(s, o, d)
<1>1. l \in Nat /\ k \in Nat /\ s \in [1 .. l -> Unit] /\ d \in [1 .. k -> Unit]
  BY LenProperties
<1>2. o <= l
  OBVIOUS
<1>3. Max({l, o + k}) = m
  <2>1. o + k \in Nat
    BY <1>1
  <2> HIDE DEF l, k
  <2>2. QED
    BY <1>1, <2>1, MaxIs
<1>4. c = [i \in 1 .. m |-> f(i)]
  BY <1>3, Zenon DEF SysWrite
<1>5. Files!Over(s, o, d) = [i \in 1 .. m |-> f(i)]
  <2>1. Files!Over(s, o, d) = [i \in 1 .. m |-> IF i \in o + 1 .. o + k THEN d[i - o] ELSE s[i]]
    BY Zenon DEF Files!Over
  <2> HIDE DEF l, k
  <2>2. \A i \in 1 .. m : (i \in o + 1 .. o + k) = (i > o /\ i <= o + k)
    BY <1>1
  <2>3. QED
    BY <2>1, <2>2
<1> HIDE DEF l, k, c
<1>6. m \in Nat /\ m >= l /\ m >= o + k
  BY <1>1
<1>7. \A i \in 1 .. m : f(i) \in Unit
  <2>1. ASSUME NEW i \in 1 .. m, i > o, i <= o + k
        PROVE  f(i) \in Unit
    <3>1. i - o \in 1 .. k
      BY <1>1, <2>1
    <3>2. QED
      BY <1>1, <2>1, <3>1
  <2>2. ASSUME NEW i \in 1 .. m, ~ (i > o /\ i <= o + k)
        PROVE  f(i) \in Unit
    <3>1. i \in 1 .. l
      BY <1>1, <1>2, <2>2
    <3>2. QED
      BY <1>1, <2>2, <3>1
  <2>3. QED
    BY <2>1, <2>2
<1> HIDE DEF m, f
<1>8. c \in [1 .. m -> Unit]
  BY <1>4, <1>7
<1>9. c \in Seq(Unit) /\ Len(c) = m
  BY <1>6, <1>8, FunctionIsSeq
<1>10. QED
  BY <1>4, <1>5, <1>6, <1>9, Zenon DEF IsOver, c, l, k

\* The data of one entry of a list are replaced.
IsWrite(root2, root, j, c) == root2 = [root EXCEPT ![j].data = c]

IsWritten(root2, root, j, c) ==
  /\ DOMAIN root2 = DOMAIN root
  /\ \A i \in DOMAIN root : /\ root2[i].name = root[i].name
                            /\ root2[i].data = IF i = j THEN c ELSE root[i].data

LEMMA EntryWritten ==
  ASSUME NEW root \in Seq(SysRec), NEW j \in DOMAIN root, NEW c \in Seq(Unit),
         Len(c) >= Len(root[j].data), NEW root2, IsWrite(root2, root, j, c)
  PROVE  /\ IsWritten(root2, root, j, c) /\ root2 \in Seq(SysRec) /\ Extends(root2, root)
         /\ AllNamed(root) => AllNamed(root2)
<1>1. /\ Len(root) \in Nat /\ root \in [1 .. Len(root) -> SysRec] /\ DOMAIN root = 1 .. Len(root)
  BY LenProperties
<1>2. \A i \in DOMAIN root : root[i] = [name |-> root[i].name, data |-> root[i].data]
                             /\ root[i].name \in SysName /\ root[i].data \in Seq(Unit)
  BY <1>1 DEF SysRec
<1>3. /\ root2 = [i \in DOMAIN root |-> root2[i]]
      /\ \A i \in DOMAIN root : root2[i] = IF i = j THEN [root[i] EXCEPT !.data = c] ELSE root[i]
  BY DEF IsWrite
<1>4. \A i \in DOMAIN root : root2[i] = [name |-> root[i].name,
                                         data |-> IF i = j THEN c ELSE root[i].data]
  <2>1. SUFFICES ASSUME NEW i \in DOMAIN root
                 PROVE  root2[i] = [name |-> root[i].name,
                                    data |-> IF i = j THEN c ELSE root[i].data]
    OBVIOUS
  <2>2. root[i] = [name |-> root[i].name, data |-> root[i].data]
    BY <1>2
  <2>3. [root[i] EXCEPT !.data = c] = [name |-> root[i].name, data |-> c]
    BY <2>2
  <2>4. QED
    BY <1>3, <2>2, <2>3
<1>5. \A i \in DOMAIN root : root2[i] \in SysRec
  <2>1. SUFFICES ASSUME NEW i \in DOMAIN root
                 PROVE  root2[i] \in SysRec
    OBVIOUS
  <2> DEFINE x == IF i = j THEN c ELSE root[i].data
  <2>2. root[i].name \in SysName /\ x \in Seq(Unit)
    BY <1>2
  <2>3. root2[i] = [name |-> root[i].name, data |-> x]
    BY <1>4
  <2> HIDE DEF x
  <2>4. [name |-> root[i].name, data |-> x] \in SysRec
    BY <2>2 DEF SysRec
  <2>5. QED
    BY <2>3, <2>4, Zenon
<1>6. root2 \in Seq(SysRec)
  <2>1. root2 \in [1 .. Len(root) -> SysRec]
    BY <1>1, <1>3, <1>5
  <2>2. QED
    BY <1>1, <2>1, FunctionIsSeq
<1>7. IsWritten(root2, root, j, c)
  <2>1. DOMAIN root2 = DOMAIN root
    BY <1>3
  <2>2. QED
    BY <1>4, <2>1 DEF IsWritten
<1>8. Extends(root2, root)
  <2>1. \A i \in DOMAIN root : Len(root[i].data) \in Nat
    BY <1>2
  <2>2. \A i \in DOMAIN root : Len(root2[i].data) >= Len(root[i].data)
    <3>1. SUFFICES ASSUME NEW i \in DOMAIN root
                   PROVE  Len(root2[i].data) >= Len(root[i].data)
      OBVIOUS
    <3>2. root2[i].data = IF i = j THEN c ELSE root[i].data
      BY <1>7, Zenon DEF IsWritten
    <3>3. Len(root[i].data) >= Len(root[i].data)
      BY <2>1
    <3>4. QED
      BY <3>2, <3>3, Zenon
  <2>3. QED
    BY <1>7, <2>2, Zenon DEF IsWritten, Extends
<1>9. AllNamed(root) => AllNamed(root2)
  <2>1. DOMAIN root2 = DOMAIN root /\ \A i \in DOMAIN root : root2[i].name = root[i].name
    BY <1>7, Zenon DEF IsWritten
  <2>2. Distinct(root) => Distinct(root2)
    BY <2>1 DEF Distinct
  <2>3. ASSUME NEW name \in SysName, \E i \in DOMAIN root : root[i].name = name
        PROVE  \E i \in DOMAIN root2 : root2[i].name = name
    BY <2>1, <2>3
  <2>4. QED
    BY <2>2, <2>3, Zenon DEF AllNamed
<1>10. QED
  BY <1>6, <1>7, <1>8, <1>9

\* A write in sysfs changes what the one file holds.
IsContentWith(root2, root, f, c) == ContentIn(root2) = [ContentIn(root) EXCEPT ![f] = c]

LEMMA WrittenContent ==
  ASSUME NEW root \in Seq(SysRec), AllNamed(root), NEW root2, AllNamed(root2),
         NEW j \in DOMAIN root, NEW c, IsWritten(root2, root, j, c)
  PROVE  IsContentWith(root2, root, <<"sysfs", root[j].name, 0>>, c)
<1> DEFINE f == <<"sysfs", root[j].name, 0>>
           C(r, g) == CASE g[1] = "fat32"  -> DiskContent[g]
                        [] g[1] = "devfs"  -> <<>>
                        [] g[1] = "procfs" -> ProcData[g[2]]
                        [] g[1] = "sysfs"  -> SysIn(r, g[2])
<1>1. ContentIn(root2) = [g \in VfsFile |-> C(root2, g)] /\ ContentIn(root) = [g \in VfsFile |-> C(root, g)]
  BY Zenon DEF ContentIn
<1>2. Distinct(root) /\ Distinct(root2) /\ Listed(root) = root /\ Listed(root2) = root2
  <2>1. DOMAIN root2 = DOMAIN root
    BY Zenon DEF IsWritten
  <2>2. root # <<>> /\ root2 # <<>>
    BY <2>1
  <2>3. QED
    BY <2>2, Zenon DEF Listed, AllNamed
<1>3. ASSUME NEW i \in DOMAIN root
      PROVE  /\ Named(root, root[i].name) = root[i].data
             /\ Named(root2, root[i].name) = IF i = j THEN c ELSE root[i].data
  <2>1. /\ i \in DOMAIN root2 /\ root2[i].name = root[i].name
        /\ root2[i].data = IF i = j THEN c ELSE root[i].data
    BY Zenon DEF IsWritten
  <2>2. Named(root, root[i].name) = root[i].data
    BY <1>2, NamedIs, Zenon
  <2>3. Named(root2, root2[i].name) = root2[i].data
    BY <1>2, <2>1, NamedIs, Zenon
  <2>4. QED
    BY <2>1, <2>2, <2>3, Zenon
<1>4. ASSUME NEW g \in VfsFile
      PROVE  C(root2, g) = IF g = f THEN c ELSE C(root, g)
  <2>1. CASE g[1] = "sysfs"
    <3>1. g \in SysFile
      BY <2>1 DEF VfsFile, DiskFile, DevFile, ProcFile
    <3>2. PICK name \in SysName \union {NoEntry.name} : g = <<"sysfs", name, 0>>
      BY <3>1, Zenon DEF SysFile
    <3>3. C(root2, g) = SysIn(root2, name) /\ C(root, g) = SysIn(root, name)
      BY <2>1, <3>2
    <3>4. root[j].name \in SysName
      <4>1. root[j] \in SysRec
        OBVIOUS
      <4>2. QED
        BY <4>1 DEF SysRec
    <3>5. NoEntry.name \notin SysName
      BY VfsAssumption, Zenon
    <3> HIDE DEF C
    <3>6. CASE name = NoEntry.name
      <4>1. g # f
        BY <3>2, <3>4, <3>5, <3>6
      <4>2. QED
        BY <3>3, <3>6, <4>1, Zenon DEF SysIn
    <3>7. CASE name # NoEntry.name
      <4>1. PICK i \in DOMAIN root : root[i].name = name
        BY <3>2, <3>7, Zenon DEF AllNamed
      <4>2. g = f <=> root[i].name = root[j].name
        BY <3>2, <4>1
      <4>3. g = f <=> i = j
        BY <1>2, <4>2, Zenon DEF Distinct
      <4>4. SysIn(root2, name) = Named(root2, name) /\ SysIn(root, name) = Named(root, name)
        BY <1>2, <3>7, Zenon DEF SysIn
      <4>5. QED
        BY <1>3, <3>3, <4>1, <4>3, <4>4, Zenon
    <3>8. QED
      BY <3>6, <3>7
  <2>2. CASE g[1] # "sysfs"
    <3>1. g[1] \in {"fat32", "devfs", "procfs"}
      BY <2>2 DEF VfsFile, DiskFile, DevFile, ProcFile, SysFile
    <3>2. g # f
      BY <2>2
    <3>3. QED
      BY <3>1, <3>2
  <2>3. QED
    BY <2>1, <2>2
<1>5. f \in VfsFile
  <2>1. root[j] \in SysRec
    OBVIOUS
  <2>2. root[j].name \in SysName
    BY <2>1 DEF SysRec
  <2>3. QED
    BY <2>2, Zenon DEF VfsFile, SysFile
<1> HIDE DEF C, f
<1>6. [ContentIn(root) EXCEPT ![f] = c] = [g \in VfsFile |-> IF g = f THEN c ELSE C(root, g)]
  BY <1>1, <1>5
<1>7. QED
  BY <1>1, <1>4, <1>6, Zenon DEF IsContentWith, f


LEMMA WriteStep ==
  ASSUME StorageInv, NEW fd \in DOMAIN open_files, NEW d \in WriteData, Write(fd, d)
  PROVE  StorageInv' /\ Files!Write(fd, d)
<1> DEFINE v == open_files[fd].inode
           o == open_files[fd].offset
           f == FileIn(sysfs_root, v)
           j == v.ino - 1
           s == sysfs_root[j].data
           c == SysWrite(s, o, d)
           k == Len(d)
           sinks == v.fs # "sysfs" \/ sysfs_root[j].name = <<"power_control">>
<1>1. /\ open_files[fd] # NoFile /\ ((v.fs = "sysfs" /\ v.ino # 1) \/ v.fs = "devfs")
      /\ sysfs_root' = IF sinks THEN sysfs_root ELSE [sysfs_root EXCEPT ![j].data = c]
      /\ open_files' = [open_files EXCEPT ![fd].offset = @ + k]
      /\ data' = <<>> /\ registered' = registered /\ mounts' = mounts
      /\ fat' = fat /\ walk' = walk
  BY DEF Write, CanWrite, IsControl, SysEntry
<1>2. d \in Seq(Unit) /\ k \in Nat
  BY VfsAssumption
<1>3. /\ sysfs_root \in Seq(SysRec) /\ (sysfs_root # <<>> => AllNamed(sysfs_root))
      /\ RootOK(mounts, sysfs_root)
  BY Zenon DEF StorageInv, RootOK
<1>4. /\ o \in Nat /\ Known(v, sysfs_root)
      /\ ~ sinks => o <= Len(s)
  <2>1. FdOK(open_files[fd], sysfs_root)
    BY FdsAre
  <2>2. v.ino # 1 => EntryIn(sysfs_root, v) = sysfs_root[j]
    BY Zenon DEF EntryIn
  <2>3. /\ o \in Nat /\ Known(v, sysfs_root)
        /\ v.fs = "sysfs" /\ EntryIn(sysfs_root, v).name # <<"power_control">>
             => o <= Len(EntryIn(sysfs_root, v).data)
    BY <1>1, <2>1, Zenon DEF FdOK
  <2> HIDE DEF v, o, j
  <2>4. QED
    BY <1>1, <2>2, <2>3
<1> HIDE DEF v, o, f, c, k
<1>5. /\ f \in VfsFile
      /\ v.fs = "devfs" => f \in DevFile
      /\ v.fs = "sysfs" => /\ j \in DOMAIN sysfs_root /\ sysfs_root[j] \in SysRec
                           /\ f = <<"sysfs", sysfs_root[j].name, 0>>
                           /\ EntryIn(sysfs_root, v) = sysfs_root[j]
      /\ v.fs # "devfs" => f \notin DevFile /\ v.fs \in {"fat32", "devfs", "procfs", "sysfs"}
      /\ f[1] = v.fs
  <2>1. /\ f \in VfsFile /\ f[1] = v.fs /\ (v.fs = "devfs" => f \in DevFile)
        /\ (v.fs = "sysfs" => f = <<"sysfs", EntryIn(sysfs_root, v).name, 0>>)
        /\ (v.fs # "devfs" => f \notin DevFile) /\ v.fs \in {"fat32", "devfs", "procfs", "sysfs"}
    BY <1>3, <1>4, KnownFile, Zenon DEF f
  <2>2. v.fs = "sysfs" => /\ j \in DOMAIN sysfs_root /\ EntryIn(sysfs_root, v) = sysfs_root[j]
                          /\ EntryIn(sysfs_root, v) \in SysRec
    <3>1. v.fs = "sysfs" => v.ino # 1
      BY <1>1
    <3>2. QED
      BY <1>3, <1>4, <3>1, EntryIs, Zenon
  <2> HIDE DEF j
  <2>3. QED
    BY <2>1, <2>2
<1>6. f \in DevFile \union {ControlFile} <=> sinks
  <2>1. CASE v.fs = "devfs"
    BY <1>5, <2>1
  <2>2. CASE v.fs = "sysfs"
    <3>1. f = <<"sysfs", sysfs_root[j].name, 0>> /\ f \notin DevFile
      BY <1>5, <2>2
    <3>2. f = ControlFile <=> sysfs_root[j].name = <<"power_control">>
      BY <3>1 DEF ControlFile
    <3>3. QED
      BY <2>2, <3>1, <3>2
  <2>3. QED
    BY <1>1, <2>1, <2>2
<1> DEFINE Writes == /\ RootOK(mounts, sysfs_root') /\ Extends(sysfs_root', sysfs_root)
                     /\ Inside(open_files[fd], k, sysfs_root')
                     /\ ContentIn(sysfs_root') =
                          IF sinks THEN ContentIn(sysfs_root)
                          ELSE [ContentIn(sysfs_root) EXCEPT ![f] = Files!Over(@, o, d)]
<1>7. ASSUME sinks
      PROVE  Writes
  <2>1. sysfs_root' = sysfs_root
    BY <1>1, <1>7
  <2>2. Extends(sysfs_root', sysfs_root)
    BY <1>3, <2>1, ExtendsItself
  <2>3. Inside(open_files[fd], k, sysfs_root')
    <3>1. v.fs = "sysfs" => EntryIn(sysfs_root', v).name = <<"power_control">>
      BY <1>5, <1>7, <2>1
    <3>2. QED
      BY <3>1, Zenon DEF Inside, v
  <2> HIDE DEF sinks
  <2>4. QED
    BY <1>3, <1>7, <2>1, <2>2, <2>3
<1>8. ASSUME ~ sinks
      PROVE  Writes
  <2>1. v.fs = "sysfs" /\ sysfs_root[j].name # <<"power_control">>
    BY <1>8
  <2>2. /\ j \in DOMAIN sysfs_root /\ s \in Seq(Unit) /\ sysfs_root # <<>>
        /\ f = <<"sysfs", sysfs_root[j].name, 0>>
    <3>1. j \in DOMAIN sysfs_root /\ sysfs_root[j] \in SysRec
          /\ f = <<"sysfs", sysfs_root[j].name, 0>>
      BY <1>5, <2>1
    <3>2. sysfs_root[j].data \in Seq(Unit)
      BY <3>1 DEF SysRec
    <3>3. QED
      BY <3>1, <3>2
  <2>3. sysfs_root' = [sysfs_root EXCEPT ![j].data = c]
    BY <1>1, <1>8
  <2>4. o <= Len(s)
    BY <1>4, <1>8
  <2>5. AllNamed(sysfs_root) /\ Distinct(sysfs_root)
    BY <1>3, <2>2, Zenon DEF AllNamed
  <2> HIDE DEF j, s, sinks
  <2>6. IsOver(c, s, o, d)
    BY <1>2, <1>4, <2>2, <2>4, WriteIs, Zenon DEF c
  <2>7. c = Files!Over(s, o, d) /\ c \in Seq(Unit) /\ Len(c) >= Len(s) /\ Len(c) >= o + k
    BY <2>6, Zenon DEF IsOver, k
  <2>8. /\ IsWritten(sysfs_root', sysfs_root, j, c) /\ sysfs_root' \in Seq(SysRec)
        /\ Extends(sysfs_root', sysfs_root) /\ AllNamed(sysfs_root')
    <3>1. Len(c) >= Len(sysfs_root[j].data)
      BY <2>7 DEF s
    <3>2. IsWrite(sysfs_root', sysfs_root, j, c)
      BY <2>3, Zenon DEF IsWrite
    <3>3. QED
      BY <1>3, <2>2, <2>5, <2>7, <3>1, <3>2, EntryWritten, Zenon
  <2>9. RootOK(mounts, sysfs_root')
    BY <1>3, <2>2, <2>8, Zenon DEF RootOK
  <2>10. Inside(open_files[fd], k, sysfs_root')
    <3>1. sysfs_root'[j].data = c
      BY <2>2, <2>8, Zenon DEF IsWritten
    <3>2. Len(c) \in Nat /\ o + k <= Len(c)
      BY <1>2, <1>4, <2>7
    <3>3. EntryIn(sysfs_root', v) = sysfs_root'[j]
      <4>1. v.ino # 1
        BY <1>1, <2>1
      <4>2. QED
        BY <4>1, Zenon DEF EntryIn, j
    <3>4. QED
      BY <3>1, <3>2, <3>3, Zenon DEF Inside, v, o
  <2>11. ContentIn(sysfs_root') = [ContentIn(sysfs_root) EXCEPT ![f] = c]
    <3>1. IsContentWith(sysfs_root', sysfs_root, <<"sysfs", sysfs_root[j].name, 0>>, c)
      BY <1>3, <2>2, <2>5, <2>8, WrittenContent, Zenon
    <3>2. QED
      BY <2>2, <3>1, Zenon DEF IsContentWith
  <2>12. ContentIn(sysfs_root)[f] = s
    <3>1. IsContent(ContentIn(sysfs_root)[FileIn(sysfs_root, v)], sysfs_root, v)
      BY <1>3, <1>4, <2>5, ContentAt, Zenon
    <3>2. EntryIn(sysfs_root, v) = sysfs_root[j]
      BY <1>5, <2>1
    <3>3. QED
      BY <2>1, <3>1, <3>2, Zenon DEF IsContent, f, s
  <2>13. ContentIn(sysfs_root') = [ContentIn(sysfs_root) EXCEPT ![f] = Files!Over(@, o, d)]
    BY <2>7, <2>11, <2>12
  <2>14. QED
    BY <1>8, <2>8, <2>9, <2>10, <2>13
<1>9. Writes
  BY <1>7, <1>8
<1> HIDE DEF sinks
<1>10. /\ FdsOK(open_files', sysfs_root')
       /\ OpenedIs(fd, open_files[fd]) /\ Opened' = Files!Advanced(fd, k)
  <2>1. /\ sysfs_root' \in Seq(SysRec) /\ Extends(sysfs_root', sysfs_root)
        /\ Inside(open_files[fd], k, sysfs_root')
    BY <1>9, Zenon DEF RootOK
  <2>2. IsMoved(open_files', open_files, fd, k)
    BY <1>1, Zenon DEF IsMoved
  <2> HIDE DEF Writes
  <2>3. QED
    BY <1>1, <1>2, <2>1, <2>2, AdvanceStep, Zenon
<1>11. StorageInv'
  <2>1. WalkOK(walk, sysfs_root')
    BY <1>9, WalkStays, Zenon DEF StorageInv
  <2>2. QED
    BY <1>1, <1>9, <1>10, <2>1, Zenon DEF StorageInv
<1>12. fd \in DOMAIN Opened /\ Opened[fd].file = f /\ Opened[fd].offset = o
  <2>1. fd \in DOMAIN Opened /\ Opened[fd] = [file |-> f, offset |-> o]
    BY <1>10, Zenon DEF OpenedIs, f, v, o
  <2>2. QED
    BY <2>1
<1>13. Content' = IF f \in DevFile \union {ControlFile} THEN Content
                  ELSE [Content EXCEPT ![f] = Files!Over(@, o, d)]
  <2>1. Content = ContentIn(sysfs_root) /\ Content' = ContentIn(sysfs_root')
    BY MappedIs, Zenon
  <2>2. ContentIn(sysfs_root') =
          IF sinks THEN ContentIn(sysfs_root)
          ELSE [ContentIn(sysfs_root) EXCEPT ![f] = Files!Over(@, o, d)]
    BY <1>9
  <2> HIDE DEF Writes
  <2>3. CASE sinks
    BY <1>6, <2>1, <2>2, <2>3, Zenon
  <2>4. CASE ~ sinks
    BY <1>6, <2>1, <2>2, <2>4, Zenon
  <2>5. QED
    BY <2>3, <2>4
<1> HIDE DEF Writes
<1>14. /\ (fat # DiskFat)' = (fat # DiskFat) /\ data' = <<>>
       /\ Opened' = Files!Advanced(fd, Len(d))
  BY <1>1, <1>10, Zenon DEF k
<1>15. Opened[fd].file \notin DiskFile
  <2>1. \A g \in DiskFile : g[1] = "fat32"
    BY DEF DiskFile
  <2>2. f[1] # "fat32"
    BY <1>1, <1>5
  <2>3. QED
    BY <1>12, <2>1, <2>2, Zenon
<1>16. Files!Write(fd, d)
  BY <1>12, <1>13, <1>14, <1>15, Zenon DEF Files!Write
<1>17. QED
  BY <1>11, <1>16

(***************************************************************************)
(* The refinement.                                                         *)
(***************************************************************************)
LEMMA StorageInit ==
  ASSUME VfsInit
  PROVE  StorageInv /\ Files!Init
<1>1. /\ registered = {"fat32", "ext2", "devfs", "procfs"} /\ mounts = <<>> /\ misread = FALSE
      /\ fat = DiskFat /\ sysfs_root = <<>> /\ data = <<>> /\ walk = NoWalk
      /\ open_files = [fd \in FirstFd .. LastFd |-> NoFile]
  BY DEF VfsInit
<1>2. FdsOK(open_files, sysfs_root)
  <2>1. \A fd \in FirstFd .. LastFd : open_files[fd] = NoFile
    BY <1>1
  <2>2. open_files = [fd \in FirstFd .. LastFd |-> open_files[fd]]
    BY <1>1
  <2>3. QED
    BY <2>1, <2>2, Zenon DEF FdsOK, FdOK
<1>3. StorageInv
  <2>1. registered \subseteq FsName /\ mounts \in Seq(MountRec)
    BY <1>1 DEF FsName
  <2>2. FatOK(mounts, fat) /\ RootOK(mounts, sysfs_root) /\ WalkOK(walk, sysfs_root)
    BY <1>1 DEF FatOK, RootOK, WalkOK
  <2>3. QED
    BY <1>2, <2>1, <2>2, Zenon DEF StorageInv
<1>4. Opened = <<>>
  <2> DEFINE D == {x \in DOMAIN open_files : open_files[x] # NoFile}
  <2>1. D = {}
    BY <1>1
  <2>2. Opened = [fd \in D |-> [file |-> FileOf(open_files[fd].inode), offset |-> open_files[fd].offset]]
    BY Zenon DEF Opened
  <2> HIDE DEF D
  <2>3. QED
    BY <2>1, <2>2
<1>5. Content \in [VfsFile -> Seq(Unit)]
  <2> DEFINE C(f) == CASE f[1] = "fat32"  -> DiskContent[f]
                       [] f[1] = "devfs"  -> <<>>
                       [] f[1] = "procfs" -> ProcData[f[2]]
                       [] f[1] = "sysfs"  -> SysContent(f[2])
  <2>1. Content = [f \in VfsFile |-> C(f)]
    BY Zenon DEF Content
  <2>2. ASSUME NEW f \in DiskFile
        PROVE  C(f) \in Seq(Unit)
    <3>1. PICK a, b : f = <<"fat32", a, b>>
      BY Zenon DEF DiskFile
    <3> DEFINE v == Inode("fat32", a, b)
    <3>2. f = <<"fat32", v.ino, v.size>>
      BY <3>1 DEF Inode
    <3> HIDE DEF v
    <3>3. DiskContent[f] \in Seq(Unit)
      <4>1. CASE f \in Stray
        <5>1. DiskContent[f] = <<>>
          BY <4>1, Zenon DEF DiskContent
        <5>2. QED
          BY <5>1
      <4>2. CASE f \notin Stray
        BY <3>2, <4>2, DiskFileIs, Zenon
      <4>3. QED
        BY <4>1, <4>2
    <3>4. f[1] = "fat32"
      BY <3>1
    <3>5. QED
      BY <3>3, <3>4
  <2>3. ASSUME NEW f \in DevFile
        PROVE  C(f) \in Seq(Unit)
    <3>1. f[1] = "devfs"
      BY DEF DevFile
    <3>2. QED
      BY <3>1
  <2>4. ASSUME NEW f \in ProcFile
        PROVE  C(f) \in Seq(Unit)
    <3>1. PICK i \in DOMAIN ProcData : f = <<"procfs", i, 0>>
      BY Zenon DEF ProcFile
    <3>2. ProcData[i] \in Seq(Unit)
      BY ProcIs, Zenon
    <3>3. QED
      BY <3>1, <3>2
  <2>5. ASSUME NEW f \in SysFile
        PROVE  C(f) \in Seq(Unit)
    <3>0. PICK name \in SysName \union {NoEntry.name} : f = <<"sysfs", name, 0>>
      BY Zenon DEF SysFile
    <3>1. CASE name = NoEntry.name
      <4>1. SysContent(name) = NoEntry.data
        BY <3>1, Zenon DEF SysContent
      <4>2. NoEntry.data \in Seq(Unit)
        BY DEF NoEntry
      <4>3. QED
        BY <3>0, <4>1, <4>2
    <3>2. CASE name # NoEntry.name
      <4>1. PICK i \in DOMAIN SysData : SysData[i].name = name
        BY <3>0, <3>2, Zenon DEF SysName
      <4> DEFINE n == CHOOSE k \in DOMAIN SysData : SysData[k].name = name
      <4>2. n \in DOMAIN SysData
        BY <4>1, Zenon
      <4>3. SysContent(name) = SysData[n].data
        BY <1>1, <3>2, Zenon DEF SysContent
      <4> HIDE DEF n
      <4>4. SysData[n] \in SysRec
        <5>1. SysData \in Seq(SysRec)
          BY VfsAssumption, Zenon DEF SysRec
        <5>2. QED
          BY <4>2, <5>1
      <4>5. SysContent(name) \in Seq(Unit)
        BY <4>3, <4>4 DEF SysRec
      <4>6. QED
        BY <3>0, <4>5
    <3>3. QED
      BY <3>1, <3>2
  <2> HIDE DEF C
  <2>6. \A f \in VfsFile : C(f) \in Seq(Unit)
    BY <2>2, <2>3, <2>4, <2>5 DEF VfsFile
  <2>7. QED
    BY <2>1, <2>6
<1>6. Files!Init
  <2>1. (fat # DiskFat) = FALSE
    BY <1>1
  <2>2. QED
    BY <1>1, <1>4, <1>5, <2>1, Zenon DEF Files!Init
<1>7. QED
  BY <1>3, <1>6

LEMMA StorageStep ==
  ASSUME StorageInv, [VfsNext]_vfs
  PROVE  StorageInv' /\ [Files!Next]_(Files!vars)
<1>1. CASE RegisterSysfs
  BY <1>1, RegisterStep, Zenon DEF Files!Next
<1>2. CASE AhciInit
  BY <1>2, AhciStep, Zenon DEF Files!Next
<1>3. ASSUME NEW fs \in registered, Mount(fs)
      PROVE  StorageInv' /\ Files!Next
  BY <1>3, MountStep, Zenon DEF Files!Next
<1>4. ASSUME NEW path, Open(path)
      PROVE  StorageInv' /\ Files!Next
  BY <1>4, OpenStep, Zenon DEF Files!Next
<1>5. CASE Walk
  BY <1>5, GoStep, Zenon DEF Files!Next
<1>11. CASE Opens
  <2>1. CASE FreeFds = {}
    <3>1. /\ walk' = NoWalk /\ data' = <<>> /\ registered' = registered /\ mounts' = mounts
          /\ fat' = fat /\ sysfs_root' = sysfs_root /\ open_files' = open_files
      BY <1>11, <2>1, Zenon DEF Opens
    <3>2. WalkOK(walk', sysfs_root)
      BY <3>1, Zenon DEF WalkOK
    <3>3. QED
      BY <3>1, <3>2, WalkStep, Zenon DEF Files!Next
  <2>2. CASE FreeFds # {}
    BY <1>11, <2>2, OpensStep, Zenon DEF Files!Next
  <2>3. QED
    BY <2>1, <2>2
<1>6. ASSUME NEW fd \in DOMAIN open_files, Close(fd)
      PROVE  StorageInv' /\ Files!Next
  <2>1. StorageInv' /\ Files!Close(fd)
    BY <1>6, CloseStep
  <2>2. fd \in FirstFd .. LastFd
    BY FdsAre
  <2>3. QED
    BY <2>1, <2>2, Zenon DEF Files!Next
<1>7. ASSUME NEW fd \in DOMAIN open_files, NEW n \in 1 .. MaxRead, Read(fd, n)
      PROVE  StorageInv' /\ Files!Next
  <2>1. n \in Nat
    BY VfsAssumption
  <2>2. StorageInv' /\ Files!Read(fd, n)
    BY <1>7, <2>1, ReadStep, Zenon
  <2>3. fd \in FirstFd .. LastFd
    BY FdsAre
  <2>4. QED
    BY <2>2, <2>3, Zenon DEF Files!Next
<1>8. ASSUME NEW fd \in DOMAIN open_files, NEW d \in WriteData, Write(fd, d)
      PROVE  StorageInv' /\ Files!Next
  <2>1. StorageInv' /\ Files!Write(fd, d)
    BY <1>8, WriteStep, Zenon
  <2>2. fd \in FirstFd .. LastFd
    BY FdsAre
  <2>3. QED
    BY <2>1, <2>2, Zenon DEF Files!Next
<1>9. CASE vfs' = vfs
  <2>1. /\ registered' = registered /\ mounts' = mounts /\ misread' = misread /\ fat' = fat
        /\ sysfs_root' = sysfs_root /\ open_files' = open_files /\ walk' = walk /\ data' = data
    BY <1>9 DEF vfs
  <2>2. StorageInv'
    BY <2>1, Zenon DEF StorageInv
  <2>3. Content' = Content /\ Opened' = Opened
    BY <2>1, MappedIs, Zenon
  <2>4. QED
    BY <2>1, <2>2, <2>3 DEF Files!vars
<1>10. QED
  BY <1>1, <1>2, <1>3, <1>4, <1>5, <1>6, <1>7, <1>8, <1>9, <1>11 DEF VfsNext, VfsCall

\* What vfs_open, vfs_read, vfs_write and vfs_close do to a descriptor on any of the
\* mounted filesystems is what FileStore promises, whatever sectors cannot be read.
THEOREM StorageRefinesFileStore == VfsSpec => RefinesFileStore
<1>1. VfsInit => StorageInv /\ Files!Init
  BY StorageInit
<1>2. StorageInv /\ [VfsNext]_vfs => StorageInv' /\ [Files!Next]_(Files!vars)
  BY StorageStep
<1>3. QED
  BY <1>1, <1>2, PTL DEF VfsSpec, RefinesFileStore, Files!Spec
=============================================================================
