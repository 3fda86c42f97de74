----------------------------- MODULE RingProofs -----------------------------
(***************************************************************************)
(* The two rings that drivers share with somebody else: the keyboard       *)
(* buffer, filled by the interrupt and drained by the main loop, is a      *)
(* queue; the completion queue of the NVMe driver, filled by the           *)
(* controller, is read in order and once.  For every size of the rings.    *)
(***************************************************************************)
EXTENDS Keyboard, Nvme, SequenceTheorems, TLAPS

(***************************************************************************)
(* The keyboard buffer.                                                    *)
(***************************************************************************)

\* The increment modulo the size goes to the next slot or back to slot 0.
LEMMA SuccIs ==
  ASSUME NEW i \in Slot
  PROVE  /\ Succ(i) \in Slot
         /\ Succ(i) = IF i + 1 = KEYBOARD_BUFFER_SIZE THEN 0 ELSE i + 1
BY KeyboardAssumption DEF Succ, Slot

\* The arithmetic of the ring.
LEMMA DistanceIs ==
  ASSUME NEW i \in Slot, NEW j \in Slot
  PROVE  /\ Distance(j, i) \in 0 .. KEYBOARD_BUFFER_SIZE - 1
         /\ Distance(j, i) > 0 <=> i # j
         /\ Distance(j, i) < KEYBOARD_BUFFER_SIZE - 1 <=> Succ(i) # j
<1>1. Succ(i) = IF i + 1 = KEYBOARD_BUFFER_SIZE THEN 0 ELSE i + 1
  BY SuccIs
<1>2. QED
  BY <1>1, KeyboardAssumption DEF Distance, Slot

LEMMA DistanceGrows ==
  ASSUME NEW i \in Slot, NEW j \in Slot, Succ(i) # j
  PROVE  Distance(j, Succ(i)) = Distance(j, i) + 1
<1>1. Succ(i) = IF i + 1 = KEYBOARD_BUFFER_SIZE THEN 0 ELSE i + 1
  BY SuccIs
<1> DEFINE k == Succ(i)
<1> HIDE DEF k
<1>2. k = (IF i + 1 = KEYBOARD_BUFFER_SIZE THEN 0 ELSE i + 1) /\ k # j
  BY <1>1 DEF k
<1>3. Distance(j, k) = Distance(j, i) + 1
  BY <1>2, KeyboardAssumption DEF Distance, Slot
<1>4. QED
  BY <1>3 DEF k

LEMMA DistanceShrinks ==
  ASSUME NEW i \in Slot, NEW j \in Slot, i # j
  PROVE  /\ Distance(Succ(j), i) = Distance(j, i) - 1
         /\ \A n \in 0 .. KEYBOARD_BUFFER_SIZE - 2 :
              SlotAfter(Succ(j), n) = SlotAfter(j, n + 1)
<1>1. Succ(j) = IF j + 1 = KEYBOARD_BUFFER_SIZE THEN 0 ELSE j + 1
  BY SuccIs
<1> DEFINE k == Succ(j)
<1> HIDE DEF k
<1>2. k = (IF j + 1 = KEYBOARD_BUFFER_SIZE THEN 0 ELSE j + 1)
  BY <1>1 DEF k
<1>3. Distance(k, i) = Distance(j, i) - 1
  BY <1>2, KeyboardAssumption DEF Distance, Slot
<1>4. ASSUME NEW n \in 0 .. KEYBOARD_BUFFER_SIZE - 2
      PROVE  SlotAfter(k, n) = SlotAfter(j, n + 1)
  BY <1>2, KeyboardAssumption DEF SlotAfter, Slot
<1>5. QED
  BY <1>3, <1>4 DEF k

\* Append and Tail, element by element.
LEMMA AppendIs ==
  ASSUME NEW q \in Seq(Char), NEW ch \in Char
  PROVE  Append(q, ch) = [i \in 1 .. Len(q) + 1 |-> IF i = Len(q) + 1 THEN ch ELSE q[i]]
<1>1. /\ Append(q, ch) \in Seq(Char) /\ Len(Append(q, ch)) = Len(q) + 1
      /\ \A i \in 1 .. Len(q) : Append(q, ch)[i] = q[i]
      /\ Append(q, ch)[Len(q) + 1] = ch /\ Len(q) \in Nat
  BY AppendProperties, LenProperties
<1>2. \A i \in 1 .. Len(q) + 1 :
        Append(q, ch)[i] = IF i = Len(q) + 1 THEN ch ELSE q[i]
  BY <1>1
<1>3. Append(q, ch) \in [1 .. Len(q) + 1 -> Char]
  BY <1>1, LenProperties
<1>4. QED
  BY <1>2, <1>3

LEMMA TailIs ==
  ASSUME NEW q \in Seq(Char), Len(q) > 0
  PROVE  /\ q # << >> /\ Head(q) = q[1]
         /\ Tail(q) = [i \in 1 .. Len(q) - 1 |-> q[i + 1]]
<1>1. q # << >> /\ Len(q) \in Nat
  BY LenProperties
<1>2. /\ Tail(q) \in Seq(Char) /\ Len(Tail(q)) = Len(q) - 1
      /\ \A i \in 1 .. Len(Tail(q)) : Tail(q)[i] = q[i + 1]
  BY <1>1, HeadTailProperties
<1>3. Tail(q) \in [1 .. Len(q) - 1 -> Char]
  BY <1>2, LenProperties
<1>4. Tail(q) = [i \in 1 .. Len(q) - 1 |-> q[i + 1]]
  BY <1>2, <1>3
<1>5. Head(q) = q[1]
  BY <1>1
<1>6. QED
  BY <1>1, <1>4, <1>5

\* Both translation tables hold characters, for the same scan codes.
LEMMA TablesHoldChars ==
  /\ Len(PlainTable) = 58 /\ Len(ShiftTable) = 58
  /\ \A i \in 1 .. 58 : PlainTable[i] \in Char /\ ShiftTable[i] \in Char
BY DEF PlainTable, ShiftTable, Char

(***************************************************************************)
(* The inductive invariant.                                                *)
(***************************************************************************)
KeyInv == TypeOK /\ GetFindsACharacter /\ LoadedIsIntact

LEMMA CountIs ==
  ASSUME buffer_head \in Slot, buffer_tail \in Slot
  PROVE  /\ Count \in 0 .. KEYBOARD_BUFFER_SIZE - 1
         /\ Count > 0 <=> buffer_head # buffer_tail
BY KeyboardAssumption DEF Count, Distance, Slot

\* keyboard_buffer_add writes no slot in use, and never makes the buffer empty.
LEMMA BufferAddKeeps ==
  ASSUME KeyInv, NEW ch \in Char, BufferAdd(ch)
  PROVE  /\ buffer' \in [Slot -> Char] /\ buffer_head' \in Slot
         /\ buffer_tail' = buffer_tail /\ offered' \in Char
         /\ Count > 0 => Count' > 0 /\ buffer'[buffer_tail] = buffer[buffer_tail]
<1>1. buffer_head \in Slot /\ buffer_tail \in Slot /\ buffer \in [Slot -> Char]
  BY DEF KeyInv, TypeOK
<1>2. Succ(buffer_head) \in Slot
  BY <1>1, SuccIs
<1>3. /\ buffer' \in [Slot -> Char] /\ buffer_head' \in Slot
      /\ buffer_tail' = buffer_tail /\ offered' = ch
  BY <1>1, <1>2 DEF BufferAdd
<1>4. ASSUME Count > 0 PROVE Count' > 0 /\ buffer'[buffer_tail] = buffer[buffer_tail]
  <2>1. buffer_head # buffer_tail
    BY <1>1, <1>4, CountIs
  <2>2. buffer'[buffer_tail] = buffer[buffer_tail] /\ buffer_head' # buffer_tail
    BY <1>1, <2>1 DEF BufferAdd
  <2>3. Count' = Distance(buffer_tail, buffer_head')
    BY <1>3 DEF Count, Distance
  <2>4. Distance(buffer_tail, buffer_head') > 0
    BY <1>1, <1>3, <2>2, DistanceIs
  <2>5. QED
    BY <2>2, <2>3, <2>4
<1>5. QED
  BY <1>3, <1>4

LEMMA TranslateIsChar ==
  ASSUME NEW s \in Scancodes, IsTyping(s)
  PROVE  Translate(s) \in Char
<1>1. s + 1 \in 1 .. 58
  BY KeyboardAssumption, TablesHoldChars DEF IsTyping
<1>2. PlainTable[s + 1] \in Char /\ ShiftTable[s + 1] \in Char
  BY <1>1, TablesHoldChars
<1> DEFINE ch == (IF shift_pressed THEN ShiftTable ELSE PlainTable)[s + 1]
<1>3. ch \in Char
  BY <1>2
<1> HIDE DEF ch
<1>4. Translate(s) = CASE caps_lock /\ ch \in 97 .. 122 -> ch - 32
                       [] caps_lock /\ ch \in 65 .. 90  -> ch + 32
                       [] OTHER -> ch
  BY DEF Translate, ch
<1>5. QED
  BY <1>3, <1>4 DEF Char

\* What a key press does to the ring: one keyboard_buffer_add or nothing.
LEMMA PressCases ==
  ASSUME NEW s \in Scancodes, Press(s)
  PROVE  /\ \/ \E ch \in Char : BufferAdd(ch)
            \/ UNCHANGED <<buffer, buffer_head, buffer_tail, offered>>
         /\ call' \in {"none", "ctrl_c", "ctrl_l"}
         /\ pc' = Wakes /\ UNCHANGED <<c, taken>>
<1>1. pc' = Wakes /\ UNCHANGED <<c, taken>>
  BY DEF Press
<1>2. CASE IsTyping(s) /\ Typed(s)
  <2>1. Translate(s) \in Char /\ 24 \in Char
    BY <1>2, TranslateIsChar DEF Char
  <2>2. \/ BufferAdd(Translate(s)) \/ BufferAdd(24)
        \/ UNCHANGED <<buffer, buffer_head, buffer_tail, offered>>
    BY <1>2 DEF Typed, ring
  <2>3. call' \in {"none", "ctrl_c", "ctrl_l"}
    BY <1>2 DEF Typed
  <2>4. QED
    BY <1>1, <2>1, <2>2, <2>3
<1>3. CASE s \in {Up, Down} /\ BufferAdd(s) /\ call' = "none"
  BY <1>1, <1>3 DEF Up, Down, Char
<1>4. CASE ~ IsTyping(s) /\ s \notin {Up, Down} /\ call' = "none" /\ UNCHANGED <<ring, offered>>
  BY <1>1, <1>4 DEF ring
<1>5. QED
  BY <1>2, <1>3, <1>4 DEF Press

LEMMA InitKeyInv == Init => KeyInv
<1> SUFFICES ASSUME Init PROVE KeyInv
  OBVIOUS
<1>1. 0 \in Slot /\ 0 \in Char
  BY KeyboardAssumption DEF Slot, Char
<1>2. shift_pressed \in BOOLEAN /\ ctrl_pressed \in BOOLEAN /\ caps_lock \in BOOLEAN
  BY Zenon DEF Init
<1>3. QED
  BY <1>1, <1>2 DEF Init, KeyInv, TypeOK, GetFindsACharacter, LoadedIsIntact

\* The modifiers stay Booleans.
LEMMA StepMods ==
  ASSUME KeyInv, [Next]_vars
  PROVE  shift_pressed' \in BOOLEAN /\ ctrl_pressed' \in BOOLEAN /\ caps_lock' \in BOOLEAN
<1> USE DEF mods
<1>0. shift_pressed \in BOOLEAN /\ ctrl_pressed \in BOOLEAN /\ caps_lock \in BOOLEAN
  BY DEF KeyInv, TypeOK
<1>1. ASSUME NEW s \in Scancodes, Press(s)
      PROVE  shift_pressed' \in BOOLEAN /\ ctrl_pressed' \in BOOLEAN /\ caps_lock' \in BOOLEAN
  BY <1>0, <1>1, Zenon DEF Press
<1>2. ASSUME NEW s \in Scancodes, Release(s)
      PROVE  shift_pressed' \in BOOLEAN /\ ctrl_pressed' \in BOOLEAN /\ caps_lock' \in BOOLEAN
  BY <1>0, <1>2, Zenon DEF Release
<1>3. ASSUME UNCHANGED mods
      PROVE  shift_pressed' \in BOOLEAN /\ ctrl_pressed' \in BOOLEAN /\ caps_lock' \in BOOLEAN
  BY <1>0, <1>3
<1>4. MainLoop \/ Timer \/ UNCHANGED vars => UNCHANGED mods
  BY DEF MainLoop, Check, Read, Advance, Handle, Halt, Timer, vars
<1>5. QED
  BY <1>1, <1>2, <1>3, <1>4 DEF Next

LEMMA StepKeyInv == KeyInv /\ [Next]_vars => KeyInv'
<1> SUFFICES ASSUME KeyInv, [Next]_vars PROVE KeyInv'
  OBVIOUS
<1> DEFINE Rest == /\ buffer' \in [Slot -> Char] /\ buffer_head' \in Slot /\ buffer_tail' \in Slot
                   /\ pc' \in {"check", "read", "advance", "handle", "halt", "asleep"}
                   /\ c' \in Char /\ offered' \in Char /\ taken' \in Char
                   /\ call' \in {"none", "ctrl_c", "ctrl_l"}
                   /\ GetFindsACharacter' /\ LoadedIsIntact'
<1>1. /\ buffer \in [Slot -> Char] /\ buffer_head \in Slot /\ buffer_tail \in Slot
      /\ pc \in {"check", "read", "advance", "handle", "halt", "asleep"}
      /\ c \in Char /\ offered \in Char /\ taken \in Char
      /\ call \in {"none", "ctrl_c", "ctrl_l"}
      /\ GetFindsACharacter /\ LoadedIsIntact
  BY DEF KeyInv, TypeOK
<1>2. UNCHANGED <<buffer, buffer_head, buffer_tail>> => Count' = Count
  BY DEF Count, Distance
<1>3. ASSUME NEW s \in Scancodes, Press(s) PROVE Rest
  <2>1. pc' \in {"read", "advance"} => pc' = pc
    BY <1>3, PressCases DEF Wakes
  <2>2. CASE \E ch \in Char : BufferAdd(ch)
    <3>1. PICK ch \in Char : BufferAdd(ch)
      BY <2>2
    <3>2. /\ buffer' \in [Slot -> Char] /\ buffer_head' \in Slot
          /\ buffer_tail' = buffer_tail /\ offered' \in Char
          /\ Count > 0 => Count' > 0 /\ buffer'[buffer_tail] = buffer[buffer_tail]
      BY <3>1, BufferAddKeeps
    <3>3. QED
      BY <1>1, <1>3, <2>1, <3>2, PressCases DEF Wakes, GetFindsACharacter, LoadedIsIntact
  <2>3. CASE UNCHANGED <<buffer, buffer_head, buffer_tail, offered>>
    BY <1>1, <1>2, <1>3, <2>1, <2>3, PressCases DEF Wakes, GetFindsACharacter, LoadedIsIntact
  <2>4. QED
    BY <1>3, <2>2, <2>3, PressCases
<1>4. ASSUME NEW s \in Scancodes, Release(s) PROVE Rest
  BY <1>1, <1>2, <1>4 DEF Release, ring, Wakes, GetFindsACharacter, LoadedIsIntact
<1>5. ASSUME Timer PROVE Rest
  BY <1>1, <1>2, <1>5 DEF Timer, ring, GetFindsACharacter, LoadedIsIntact
<1>6. ASSUME Check PROVE Rest
  BY <1>1, <1>2, <1>6, CountIs DEF Check, ring, GetFindsACharacter, LoadedIsIntact
<1>7. ASSUME Read PROVE Rest
  BY <1>1, <1>2, <1>7, CountIs DEF Read, ring, GetFindsACharacter, LoadedIsIntact, Char
<1>8. ASSUME Advance PROVE Rest
  BY <1>1, <1>8, SuccIs DEF Advance, GetFindsACharacter, LoadedIsIntact
<1>9. ASSUME Handle \/ Halt PROVE Rest
  BY <1>1, <1>2, <1>9 DEF Handle, Halt, ring, GetFindsACharacter, LoadedIsIntact
<1>10. ASSUME UNCHANGED vars PROVE Rest
  BY <1>1, <1>2, <1>10 DEF vars, ring, main, GetFindsACharacter, LoadedIsIntact
<1> HIDE DEF Rest
<1>11. Rest
  BY <1>3, <1>4, <1>5, <1>6, <1>7, <1>8, <1>9, <1>10 DEF Next, MainLoop
<1>12. QED
  BY <1>11, StepMods DEF KeyInv, TypeOK, Rest

\* The loop and the interrupt handler never get in each other's way.
THEOREM KeyboardInvariant == Spec => []KeyInv
<1>1. KeyInv /\ [Next]_vars => KeyInv'
  BY StepKeyInv
<1>2. QED
  BY <1>1, InitKeyInv, PTL DEF Spec

\* Type correctness.
THEOREM KeyboardTypeOK == Spec => []TypeOK
<1>1. KeyInv => TypeOK
  BY DEF KeyInv
<1>2. QED
  BY <1>1, KeyboardInvariant, PTL

\* The character the loop has loaded is still in its slot.
THEOREM KeyboardLoadedIsIntact == Spec => []LoadedIsIntact
<1>1. KeyInv => LoadedIsIntact
  BY DEF KeyInv
<1>2. QED
  BY <1>1, KeyboardInvariant, PTL

(***************************************************************************)
(* The ring implements KeyQueue.                                           *)
(***************************************************************************)
QueueOf == [i \in 1 .. Count |-> buffer[SlotAfter(buffer_tail, i - 1)]]

LEMMA QueueOfIsSeq ==
  ASSUME KeyInv
  PROVE  QueueOf \in Seq(Char) /\ Len(QueueOf) = Count
<1>1. Count \in Nat /\ buffer \in [Slot -> Char]
  BY CountIs, KeyboardAssumption DEF KeyInv, TypeOK
<1>2. ASSUME NEW i \in 1 .. Count PROVE SlotAfter(buffer_tail, i - 1) \in Slot
  BY <1>2, CountIs, KeyboardAssumption DEF KeyInv, TypeOK, SlotAfter, Slot
<1>3. QED
  BY <1>1, <1>2 DEF QueueOf

\* An added character goes to the end of the queue, or the queue was full.
LEMMA BufferAddOffers ==
  ASSUME KeyInv, NEW ch \in Char, BufferAdd(ch)
  PROVE  QueueOf' = IF Len(QueueOf) < KEYBOARD_BUFFER_SIZE - 1
                    THEN Append(QueueOf, ch) ELSE QueueOf
<1>1. buffer_head \in Slot /\ buffer_tail \in Slot /\ buffer \in [Slot -> Char]
  BY DEF KeyInv, TypeOK
<1>2. Count \in 0 .. KEYBOARD_BUFFER_SIZE - 1 /\ Len(QueueOf) = Count
  BY <1>1, CountIs, QueueOfIsSeq
<1>3. Succ(buffer_head) # buffer_tail <=> Count < KEYBOARD_BUFFER_SIZE - 1
  BY <1>1, DistanceIs DEF Count
<1>4. CASE Succ(buffer_head) # buffer_tail
  <2>1. /\ buffer' = [buffer EXCEPT ![buffer_head] = ch]
        /\ buffer_head' = Succ(buffer_head) /\ buffer_tail' = buffer_tail
    BY <1>4 DEF BufferAdd
  <2>2. Count' = Count + 1
    <3>1. Count' = Distance(buffer_tail, Succ(buffer_head))
      BY <2>1 DEF Count, Distance
    <3>2. QED
      BY <1>1, <1>4, <3>1, DistanceGrows DEF Count
  <2>3. SlotAfter(buffer_tail, Count) = buffer_head
    BY <1>1, KeyboardAssumption DEF Count, Distance, SlotAfter, Slot
  <2>4. ASSUME NEW i \in 1 .. Count
        PROVE  SlotAfter(buffer_tail, i - 1) \in Slot \ {buffer_head}
    BY <1>1, <1>2, KeyboardAssumption DEF Count, Distance, SlotAfter, Slot
  <2>5. QueueOf' = [i \in 1 .. Count + 1 |-> buffer'[SlotAfter(buffer_tail, i - 1)]]
    BY <2>1, <2>2 DEF QueueOf, SlotAfter
  <2>6. ASSUME NEW i \in 1 .. Count + 1
        PROVE  buffer'[SlotAfter(buffer_tail, i - 1)] = IF i = Count + 1 THEN ch ELSE QueueOf[i]
    <3>1. CASE i = Count + 1
      BY <1>1, <1>2, <2>1, <2>3, <3>1
    <3>2. CASE i # Count + 1
      BY <1>1, <1>2, <2>1, <2>4, <3>2 DEF QueueOf
    <3>3. QED
      BY <3>1, <3>2
  <2>7. Append(QueueOf, ch) = [i \in 1 .. Count + 1 |-> IF i = Count + 1 THEN ch ELSE QueueOf[i]]
    BY <1>2, QueueOfIsSeq, AppendIs
  <2>8. QED
    BY <1>2, <1>3, <1>4, <2>5, <2>6, <2>7
<1>5. CASE Succ(buffer_head) = buffer_tail
  <2>1. UNCHANGED <<buffer, buffer_head, buffer_tail>>
    BY <1>5 DEF BufferAdd
  <2>2. QueueOf' = QueueOf
    BY <2>1 DEF QueueOf, Count, Distance, SlotAfter
  <2>3. QED
    BY <1>2, <1>3, <1>5, <2>2
<1>6. QED
  BY <1>4, <1>5

\* keyboard_buffer_get takes the oldest character off the queue.
LEMMA AdvanceTakes ==
  ASSUME KeyInv, Advance
  PROVE  /\ QueueOf # << >> /\ taken' = Head(QueueOf) /\ QueueOf' = Tail(QueueOf)
         /\ UNCHANGED offered
<1>1. buffer_head \in Slot /\ buffer_tail \in Slot /\ buffer \in [Slot -> Char]
  BY DEF KeyInv, TypeOK
<1>2. Count \in 1 .. KEYBOARD_BUFFER_SIZE - 1 /\ Len(QueueOf) = Count
  BY <1>1, CountIs, QueueOfIsSeq DEF KeyInv, GetFindsACharacter, Advance
<1>3. /\ buffer' = buffer /\ buffer_head' = buffer_head
      /\ buffer_tail' = Succ(buffer_tail) /\ taken' = c /\ offered' = offered
  BY DEF Advance
<1>4. QueueOf[1] = c
  BY <1>1, <1>2, KeyboardAssumption
     DEF QueueOf, SlotAfter, Slot, KeyInv, LoadedIsIntact, Advance
<1>5. Count' = Count - 1
  <2>1. Count' = Distance(Succ(buffer_tail), buffer_head)
    BY <1>3 DEF Count, Distance
  <2>2. buffer_head # buffer_tail
    BY <1>1, <1>2, CountIs
  <2>3. QED
    BY <1>1, <2>1, <2>2, DistanceShrinks DEF Count
<1>6. ASSUME NEW i \in 1 .. Count - 1
      PROVE  SlotAfter(Succ(buffer_tail), i - 1) = SlotAfter(buffer_tail, i)
  <2>1. i - 1 \in 0 .. KEYBOARD_BUFFER_SIZE - 2 /\ (i - 1) + 1 = i
    BY <1>2, KeyboardAssumption
  <2>2. buffer_head # buffer_tail
    BY <1>1, <1>2, CountIs
  <2>3. QED
    BY <1>1, <2>1, <2>2, DistanceShrinks
<1>7. QueueOf' = [i \in 1 .. Count - 1 |-> buffer[SlotAfter(Succ(buffer_tail), i - 1)]]
  BY <1>3, <1>5 DEF QueueOf, SlotAfter
<1>8. ASSUME NEW i \in 1 .. Count - 1
      PROVE  buffer[SlotAfter(Succ(buffer_tail), i - 1)] = QueueOf[i + 1]
  <2>1. i + 1 \in 1 .. Count /\ (i + 1) - 1 = i
    BY <1>2
  <2>2. QueueOf[i + 1] = buffer[SlotAfter(buffer_tail, (i + 1) - 1)]
    BY <2>1 DEF QueueOf
  <2>3. QED
    BY <1>6, <2>1, <2>2
<1>9. Tail(QueueOf) = [i \in 1 .. Count - 1 |-> QueueOf[i + 1]]
  BY <1>2, QueueOfIsSeq, TailIs
<1>10. QueueOf # << >> /\ Head(QueueOf) = QueueOf[1]
  BY <1>2, QueueOfIsSeq, TailIs
<1>11. QED
  BY <1>3, <1>4, <1>7, <1>8, <1>9, <1>10

\* Whatever the interleaving, the driver implements the bounded queue.
THEOREM KeyboardImplementsKeyQueue == Spec => RefinesKeyQueue
<1>1. Init => Queue!Init
  BY DEF Init, Queue!Init, Count, Distance
<1>2. KeyInv /\ [Next]_vars => [Queue!Next]_(Queue!vars)
  <2> SUFFICES ASSUME KeyInv, [Next]_vars
               PROVE  Queue!Next \/ (QueueOf' = QueueOf /\ UNCHANGED <<offered, taken>>)
    BY DEF Queue!vars, QueueOf
  <2>1. UNCHANGED <<buffer, buffer_head, buffer_tail>> => QueueOf' = QueueOf
    BY DEF QueueOf, Count, Distance, SlotAfter
  <2>2. ASSUME NEW s \in Scancodes, Press(s), NEW ch \in Char, BufferAdd(ch) PROVE Queue!Next
    <3>1. QueueOf' = IF Len(QueueOf) < KEYBOARD_BUFFER_SIZE - 1
                     THEN Append(QueueOf, ch) ELSE QueueOf
      BY <2>2, BufferAddOffers
    <3>2. offered' = ch /\ UNCHANGED taken
      BY <2>2 DEF BufferAdd, Press
    <3>3. QED
      BY <3>1, <3>2 DEF Queue!Next, Queue!Offer, Queue!Take, QueueOf
  <2>3. ASSUME Advance PROVE Queue!Next
    BY <2>3, AdvanceTakes DEF Queue!Next, Queue!Take, QueueOf
  <2>4. ASSUME NEW s \in Scancodes, Press(s), UNCHANGED <<buffer, buffer_head, buffer_tail, offered>>
        PROVE  UNCHANGED <<buffer, buffer_head, buffer_tail, offered, taken>>
    BY <2>4 DEF Press
  <2>5. ASSUME \/ \E s \in Scancodes : Release(s)
               \/ Timer \/ Check \/ Read \/ Handle \/ Halt \/ UNCHANGED vars
        PROVE  UNCHANGED <<buffer, buffer_head, buffer_tail, offered, taken>>
    BY <2>5 DEF Release, Timer, Check, Read, Handle, Halt, vars, ring, main
  <2>6. ASSUME NEW s \in Scancodes, Press(s)
        PROVE  Queue!Next \/ UNCHANGED <<buffer, buffer_head, buffer_tail, offered, taken>>
    <3>1. \/ \E ch \in Char : BufferAdd(ch)
          \/ UNCHANGED <<buffer, buffer_head, buffer_tail, offered>>
      BY <2>6, PressCases
    <3>2. CASE \E ch \in Char : BufferAdd(ch)
      BY <2>2, <2>6, <3>2
    <3>3. CASE UNCHANGED <<buffer, buffer_head, buffer_tail, offered>>
      BY <2>4, <2>6, <3>3
    <3>4. QED
      BY <3>1, <3>2, <3>3
  <2>7. Queue!Next \/ UNCHANGED <<buffer, buffer_head, buffer_tail, offered, taken>>
    BY <2>3, <2>5, <2>6 DEF Next, MainLoop
  <2>8. QED
    BY <2>1, <2>7
<1>3. QED
  BY <1>1, <1>2, KeyboardInvariant, PTL DEF Spec, RefinesKeyQueue, Queue!Spec
(***************************************************************************)
(* The phase bits of the NVMe queues.                                      *)
(***************************************************************************)
Commands    == Nat
Completions == [command : Commands, ok : BOOLEAN]
Entries     == [command : Commands, ok : BOOLEAN, phase : {0, 1}]

NvmeTypeOK ==
  /\ sq \in [Slots -> Commands] /\ sq_tail \in Slots
  /\ cq \in [Slots -> Entries] /\ cq_head \in Slots /\ phase \in {0, 1}
  /\ ctrl \in [fetch : Slots, post : Slots, phase : {0, 1}, busy : SUBSET Commands]
  /\ waiting \in Commands /\ calls \in Nat /\ spun \in BOOLEAN /\ late \in BOOLEAN
  /\ answered \in [call : Commands, command : Commands, ok : BOOLEAN]
  /\ posted \in Seq(Completions)

\* The controller has written the slots before the one it writes next in this
\* lap, the others in the lap before.
LapsShow ==
  \A s \in Slots : cq[s].phase = IF s < ctrl.post THEN ctrl.phase ELSE 1 - ctrl.phase

\* The controller is as far ahead of the driver as there are completions to
\* take, in the same lap or in the next one.
Ahead ==
  \/ cq_head + Len(posted) = ctrl.post /\ phase = ctrl.phase
  \/ cq_head + Len(posted) = ctrl.post + Size /\ phase = 1 - ctrl.phase

AheadBounded == Len(posted) < Size

\* The slot of the i-th completion to be taken
SlotOf(head, i) == IF head + i - 1 < Size THEN head + i - 1 ELSE head + i - 1 - Size

\* The completions to be taken stand in the queue from the head on.
QueueHolds ==
  \A i \in 1 .. Len(posted) :
    /\ cq[SlotOf(cq_head, i)].command = posted[i].command
    /\ cq[SlotOf(cq_head, i)].ok = posted[i].ok

\* Before the first timeout the call that waits is the only one whose command
\* is anywhere between the two queues, and it is in one place.
OneOutstanding ==
  ~late =>
    /\ answered.call = answered.command
    /\ waiting = NoCall =>
         ctrl.fetch = sq_tail /\ ctrl.busy = {} /\ posted = <<>>
    /\ waiting # NoCall =>
         \/ Next1(ctrl.fetch) = sq_tail /\ sq[ctrl.fetch] = waiting
              /\ ctrl.busy = {} /\ posted = <<>>
         \/ ctrl.fetch = sq_tail /\ ctrl.busy = {waiting} /\ posted = <<>>
         \/ ctrl.fetch = sq_tail /\ ctrl.busy = {} /\ Len(posted) = 1
              /\ posted[1].command = waiting

NvmeInv == NvmeTypeOK /\ LapsShow /\ Ahead /\ AheadBounded /\ QueueHolds /\ OneOutstanding

(***************************************************************************)
(* Slots.                                                                  *)
(***************************************************************************)
LEMMA NextIs ==
  ASSUME NEW i \in Slots
  PROVE  /\ Next1(i) \in Slots
         /\ Next1(i) = IF i + 1 = Size THEN 0 ELSE i + 1
BY SizeAssumption DEF Slots, Next1

\* The head sees a completion exactly when there is one to be taken.
LEMMA ArrivedIs ==
  ASSUME NvmeInv
  PROVE  /\ Arrived <=> posted # <<>>
         /\ posted # <<>> => 1 \in 1 .. Len(posted) /\ SlotOf(cq_head, 1) = cq_head
<1>1. Len(posted) \in Nat /\ (Len(posted) = 0 <=> posted = <<>>)
  BY DEF NvmeInv, NvmeTypeOK
<1>2. /\ cq_head \in Slots /\ ctrl.post \in Slots /\ phase \in {0, 1} /\ ctrl.phase \in {0, 1}
      /\ Size \in Nat \ {0}
  BY SizeAssumption DEF NvmeInv, NvmeTypeOK
<1>3. cq[cq_head].phase = IF cq_head < ctrl.post THEN ctrl.phase ELSE 1 - ctrl.phase
  BY <1>2 DEF NvmeInv, LapsShow
<1>4. cq[cq_head].phase = phase <=> Len(posted) > 0
  BY <1>1, <1>2, <1>3 DEF NvmeInv, Ahead, AheadBounded, Slots
<1>5. posted # <<>> => 1 \in 1 .. Len(posted) /\ SlotOf(cq_head, 1) = cq_head
  BY <1>1, <1>2 DEF SlotOf, Slots
<1>6. QED
  BY <1>1, <1>4, <1>5 DEF Arrived

LEMMA NvmeInitInv == ASSUME NvmeInit PROVE NvmeInv
<1>1. 0 \in Slots /\ Size > 0
  BY SizeAssumption DEF Slots
<1>2. NvmeTypeOK
  <2>1. sq \in [Slots -> Commands] /\ sq_tail \in Slots
    BY <1>1 DEF NvmeInit, Commands, NoCall
  <2>2. cq \in [Slots -> Entries] /\ cq_head \in Slots /\ phase \in {0, 1}
    BY <1>1 DEF NvmeInit, Commands, Entries, NoCall
  <2>3. ctrl \in [fetch : Slots, post : Slots, phase : {0, 1}, busy : SUBSET Commands]
    BY <1>1 DEF NvmeInit
  <2>4. waiting \in Commands /\ calls \in Nat /\ spun \in BOOLEAN /\ late \in BOOLEAN
    BY DEF NvmeInit, Commands, NoCall
  <2>5. answered \in [call : Commands, command : Commands, ok : BOOLEAN]
    BY DEF NvmeInit, Commands, NoCall
  <2>6. posted \in Seq(Completions)
    BY DEF NvmeInit
  <2>7. QED
    BY <2>1, <2>2, <2>3, <2>4, <2>5, <2>6 DEF NvmeTypeOK
<1>3. LapsShow
  BY DEF NvmeInit, LapsShow, Slots
<1>4. Len(posted) = 0
  BY DEF NvmeInit
<1>5. Ahead /\ AheadBounded /\ QueueHolds
  BY <1>1, <1>4, SizeAssumption DEF NvmeInit, Ahead, AheadBounded, QueueHolds
<1>6. OneOutstanding
  BY DEF NvmeInit, OneOutstanding
<1>7. QED
  BY <1>2, <1>3, <1>5, <1>6 DEF NvmeInv
(***************************************************************************)
(* The steps.                                                              *)
(***************************************************************************)
\* A new command changes only what OneOutstanding speaks of.
LEMMA SubmitKeeps == ASSUME NvmeInv, Submit PROVE NvmeInv'
<1>1. Next1(sq_tail) \in Slots /\ calls + 1 \in Nat \ {0}
  BY NextIs DEF NvmeInv, NvmeTypeOK
<1>2. NvmeTypeOK'
  BY <1>1 DEF NvmeInv, NvmeTypeOK, Submit, Commands
<1>3. LapsShow' /\ Ahead' /\ AheadBounded' /\ QueueHolds'
  BY DEF NvmeInv, Submit, LapsShow, Ahead, AheadBounded, QueueHolds, SlotOf
<1>4. OneOutstanding'
  <2>1. sq'[sq_tail] = calls + 1
    BY DEF Submit, NvmeInv, NvmeTypeOK
  <2>2. QED
    BY <1>1, <2>1 DEF NvmeInv, OneOutstanding, Submit, NoCall
<1>5. QED
  BY <1>2, <1>3, <1>4 DEF NvmeInv

\* Neither spinning nor giving up touches the queues.
LEMMA SpinKeeps == ASSUME NvmeInv, Spin PROVE NvmeInv'
<1>1. NvmeTypeOK'
  BY DEF NvmeInv, NvmeTypeOK, Spin
<1>2. LapsShow' /\ Ahead' /\ AheadBounded' /\ QueueHolds' /\ OneOutstanding'
  BY DEF NvmeInv, Spin, LapsShow, Ahead, AheadBounded, QueueHolds, SlotOf, OneOutstanding
<1>3. QED
  BY <1>1, <1>2 DEF NvmeInv

LEMMA GiveUpKeeps == ASSUME NvmeInv, GiveUp PROVE NvmeInv'
<1>1. NvmeTypeOK'
  BY DEF NvmeInv, NvmeTypeOK, GiveUp, NoCall, Commands
<1>2. LapsShow' /\ Ahead' /\ AheadBounded' /\ QueueHolds'
  BY DEF NvmeInv, GiveUp, LapsShow, Ahead, AheadBounded, QueueHolds, SlotOf
<1>3. OneOutstanding'
  BY DEF GiveUp, OneOutstanding
<1>4. QED
  BY <1>1, <1>2, <1>3 DEF NvmeInv

\* The only command that may be fetched is that of the call that waits.
LEMMA FetchKeeps == ASSUME NvmeInv, Fetch PROVE NvmeInv'
<1>1. Next1(ctrl.fetch) \in Slots /\ sq[ctrl.fetch] \in Commands
  BY NextIs DEF NvmeInv, NvmeTypeOK
<1>2. /\ ctrl'.post = ctrl.post /\ ctrl'.phase = ctrl.phase
      /\ ctrl'.fetch = Next1(ctrl.fetch) /\ ctrl'.busy = ctrl.busy \union {sq[ctrl.fetch]}
  BY DEF Fetch, NvmeInv, NvmeTypeOK
<1>3. NvmeTypeOK'
  <2>1. ctrl' \in [fetch : Slots, post : Slots, phase : {0, 1}, busy : SUBSET Commands]
    BY <1>1 DEF Fetch, NvmeInv, NvmeTypeOK
  <2>2. QED
    BY <2>1 DEF Fetch, NvmeInv, NvmeTypeOK
<1>4. LapsShow' /\ Ahead' /\ AheadBounded' /\ QueueHolds'
  BY <1>2 DEF NvmeInv, Fetch, LapsShow, Ahead, AheadBounded, QueueHolds, SlotOf
<1>5. OneOutstanding'
  BY <1>2 DEF NvmeInv, OneOutstanding, Fetch
<1>6. QED
  BY <1>3, <1>4, <1>5 DEF NvmeInv

\* The head moves on and changes its phase with the lap.
LEMMA TakeAnswerKeeps == ASSUME NvmeInv, TakeAnswer PROVE NvmeInv'
<1>1. posted # <<>> /\ 1 \in 1 .. Len(posted) /\ SlotOf(cq_head, 1) = cq_head
  BY ArrivedIs DEF TakeAnswer
<1>2. /\ posted' = Tail(posted) /\ posted' \in Seq(Completions)
      /\ Len(posted') = Len(posted) - 1 /\ Len(posted) \in Nat \ {0}
      /\ \A i \in 1 .. Len(posted') : posted'[i] = posted[i + 1]
  BY <1>1 DEF TakeAnswer, NvmeInv, NvmeTypeOK
<1>3. cq_head' \in Slots /\ cq_head' = IF cq_head + 1 = Size THEN 0 ELSE cq_head + 1
  BY NextIs DEF TakeAnswer, NvmeInv, NvmeTypeOK
<1>4. phase' = (IF cq_head + 1 = Size THEN 1 - phase ELSE phase) /\ phase' \in {0, 1}
  BY <1>3 DEF TakeAnswer, PhaseAfter, NvmeInv, NvmeTypeOK, Slots
<1>5. UNCHANGED <<sq, sq_tail, cq, ctrl, spun, calls, late>>
  BY DEF TakeAnswer
<1>6. NvmeTypeOK'
  <2>1. cq[cq_head] \in Entries
    BY DEF NvmeInv, NvmeTypeOK
  <2>2. answered' \in [call : Commands, command : Commands, ok : BOOLEAN]
    BY <2>1 DEF TakeAnswer, NvmeInv, NvmeTypeOK, Entries
  <2>3. waiting' \in Commands
    BY DEF TakeAnswer, NoCall, Commands
  <2>4. QED
    BY <1>2, <1>3, <1>4, <1>5, <2>2, <2>3 DEF NvmeInv, NvmeTypeOK
<1>7. LapsShow'
  BY <1>5 DEF NvmeInv, LapsShow
<1>8. Size \in Nat /\ cq_head \in Slots /\ ctrl.post \in Slots /\ phase \in {0, 1} /\ ctrl.phase \in {0, 1}
  BY SizeAssumption DEF NvmeInv, NvmeTypeOK
<1>9. Ahead' /\ AheadBounded'
  <2>1. Ahead /\ AheadBounded
    BY DEF NvmeInv
  <2>2. ctrl' = ctrl /\ Len(posted') = Len(posted) - 1
    BY <1>2, <1>5
  <2>3. cq_head' = (IF cq_head + 1 = Size THEN 0 ELSE cq_head + 1)
          /\ phase' = (IF cq_head + 1 = Size THEN 1 - phase ELSE phase)
    BY <1>3, <1>4
  <2>4. QED
    BY <1>2, <1>8, <2>1, <2>2, <2>3 DEF Ahead, AheadBounded, Slots
<1>10. QueueHolds'
  <2>1. SUFFICES ASSUME NEW i \in 1 .. Len(posted')
                 PROVE  /\ cq[SlotOf(cq_head', i)].command = posted[i + 1].command
                        /\ cq[SlotOf(cq_head', i)].ok = posted[i + 1].ok
    BY <1>2, <1>5 DEF QueueHolds
  <2>2. i + 1 \in 1 .. Len(posted)
    BY <1>2
  <2>3. Len(posted) < Size
    BY DEF NvmeInv, AheadBounded
  <2>4. SlotOf(cq_head', i) = SlotOf(cq_head, i + 1)
    BY <1>2, <1>3, <1>8, <2>2, <2>3 DEF SlotOf, Slots
  <2>5. QED
    BY <2>2, <2>4 DEF NvmeInv, QueueHolds
<1>11. OneOutstanding'
  <2>1. SUFFICES ASSUME ~late PROVE OneOutstanding'
    BY <1>5 DEF OneOutstanding
  <2>2. waiting # NoCall /\ waiting' = NoCall
    BY DEF TakeAnswer
  <2>3. ctrl.fetch = sq_tail /\ ctrl.busy = {} /\ Len(posted) = 1 /\ posted[1].command = waiting
    BY <1>1, <2>1, <2>2 DEF NvmeInv, OneOutstanding
  <2>4. cq[cq_head].command = waiting
    BY <1>1, <2>3 DEF NvmeInv, QueueHolds
  <2>5. answered'.call = waiting /\ answered'.command = cq[cq_head].command
    BY DEF TakeAnswer
  <2>6. posted' = <<>>
    BY <1>2, <2>3
  <2>7. QED
    BY <1>5, <2>2, <2>3, <2>4, <2>5, <2>6 DEF OneOutstanding
<1>12. QED
  BY <1>6, <1>7, <1>9, <1>10, <1>11 DEF NvmeInv

\* The controller writes the slot it stands at and, with the last one, ends the lap.
LEMMA CompleteKeeps ==
  ASSUME NvmeInv, NEW cmd \in ctrl.busy, NEW ok \in BOOLEAN, Complete(cmd, ok)
  PROVE  NvmeInv'
<1> DEFINE entry == [command |-> cmd, ok |-> ok, phase |-> ctrl.phase]
<1>1. /\ Size \in Nat /\ cq_head \in Slots /\ ctrl.post \in Slots /\ phase \in {0, 1}
      /\ ctrl.phase \in {0, 1} /\ cmd \in Commands
  BY SizeAssumption DEF NvmeInv, NvmeTypeOK
<1>2. Next1(ctrl.post) \in Slots
        /\ Next1(ctrl.post) = IF ctrl.post + 1 = Size THEN 0 ELSE ctrl.post + 1
  BY <1>1, NextIs
<1>3. /\ ctrl'.fetch = ctrl.fetch /\ ctrl'.post = Next1(ctrl.post) /\ ctrl'.busy = ctrl.busy \ {cmd}
      /\ ctrl'.phase = IF Next1(ctrl.post) = 0 THEN 1 - ctrl.phase ELSE ctrl.phase
      /\ ctrl' \in [fetch : Slots, post : Slots, phase : {0, 1}, busy : SUBSET Commands]
  <2> DEFINE lap == IF Next1(ctrl.post) = 0 THEN 1 - ctrl.phase ELSE ctrl.phase
  <2>1. lap \in {0, 1}
    BY <1>1
  <2>2. ctrl \in [fetch : Slots, post : Slots, phase : {0, 1}, busy : SUBSET Commands]
    BY DEF NvmeInv, NvmeTypeOK
  <2>3. ctrl' = [ctrl EXCEPT !.post = Next1(ctrl.post), !.busy = ctrl.busy \ {cmd}, !.phase = lap]
    BY DEF Complete
  <2> HIDE DEF lap
  <2>4. /\ ctrl'.fetch = ctrl.fetch /\ ctrl'.post = Next1(ctrl.post)
        /\ ctrl'.busy = ctrl.busy \ {cmd} /\ ctrl'.phase = lap
        /\ ctrl' \in [fetch : Slots, post : Slots, phase : {0, 1}, busy : SUBSET Commands]
    BY <1>2, <2>1, <2>2, <2>3
  <2>5. QED
    BY <2>4 DEF lap
<1>4. entry \in Entries /\ cq' = [cq EXCEPT ![ctrl.post] = entry] /\ cq' \in [Slots -> Entries]
  BY <1>1 DEF Complete, Entries, NvmeInv, NvmeTypeOK
<1>5. /\ posted' = Append(posted, [command |-> cmd, ok |-> ok]) /\ posted' \in Seq(Completions)
      /\ Len(posted) \in Nat /\ Len(posted') = Len(posted) + 1
      /\ \A i \in 1 .. Len(posted) : posted'[i] = posted[i]
      /\ posted'[Len(posted) + 1] = [command |-> cmd, ok |-> ok]
  BY <1>1 DEF Complete, Completions, NvmeInv, NvmeTypeOK
<1>6. UNCHANGED <<sq, sq_tail, cq_head, phase, waiting, spun, calls, answered, late>>
  BY DEF Complete
<1>7. NvmeTypeOK'
  BY <1>3, <1>4, <1>5, <1>6 DEF NvmeInv, NvmeTypeOK
<1>8. Ahead /\ AheadBounded /\ Next1(ctrl.post) # cq_head
  BY DEF NvmeInv, Complete
<1>9. LapsShow'
  <2>1. SUFFICES ASSUME NEW s \in Slots
                 PROVE  cq'[s].phase = IF s < ctrl'.post THEN ctrl'.phase ELSE 1 - ctrl'.phase
    BY DEF LapsShow
  <2>2. cq[s].phase = IF s < ctrl.post THEN ctrl.phase ELSE 1 - ctrl.phase
    BY DEF NvmeInv, LapsShow
  <2>3. cq'[s].phase = IF s = ctrl.post THEN ctrl.phase ELSE cq[s].phase
    BY <1>1, <1>4 DEF NvmeInv, NvmeTypeOK
  <2>4. QED
    BY <1>1, <1>2, <1>3, <2>2, <2>3 DEF Slots
<1>10. Ahead' /\ AheadBounded'
  <2>1. Len(posted') = Len(posted) + 1 /\ Len(posted) \in Nat
    BY <1>5
  <2>2. /\ ctrl'.post = (IF ctrl.post + 1 = Size THEN 0 ELSE ctrl.post + 1)
        /\ ctrl'.phase = (IF ctrl.post + 1 = Size THEN 1 - ctrl.phase ELSE ctrl.phase)
        /\ cq_head # (IF ctrl.post + 1 = Size THEN 0 ELSE ctrl.post + 1)
    BY <1>1, <1>2, <1>3, <1>8 DEF Slots
  <2>3. cq_head' = cq_head /\ phase' = phase
    BY <1>6
  <2>4. CASE cq_head + Len(posted) = ctrl.post /\ phase = ctrl.phase
    BY <1>1, <2>1, <2>2, <2>3, <2>4 DEF Ahead, AheadBounded, Slots
  <2>5. CASE cq_head + Len(posted) = ctrl.post + Size /\ phase = 1 - ctrl.phase
    <3>1. Len(posted) < Size /\ cq_head > ctrl.post /\ ctrl.post + 1 # Size
      BY <1>1, <1>8, <2>1, <2>5 DEF AheadBounded, Slots
    <3>2. QED
      BY <1>1, <2>1, <2>2, <2>3, <2>5, <3>1 DEF Ahead, AheadBounded, Slots
  <2>6. QED
    BY <1>8, <2>4, <2>5 DEF Ahead
<1>11. QueueHolds'
  <2>1. SUFFICES ASSUME NEW i \in 1 .. Len(posted) + 1
                 PROVE  /\ cq'[SlotOf(cq_head, i)].command = posted'[i].command
                        /\ cq'[SlotOf(cq_head, i)].ok = posted'[i].ok
    BY <1>5, <1>6 DEF QueueHolds, SlotOf
  <2>2. SlotOf(cq_head, i) \in Slots /\ (SlotOf(cq_head, i) = ctrl.post <=> i = Len(posted) + 1)
    BY <1>1, <1>5, <1>8 DEF SlotOf, Slots, Ahead, AheadBounded
  <2>3. CASE i = Len(posted) + 1
    BY <1>4, <1>5, <2>2, <2>3 DEF NvmeInv, NvmeTypeOK
  <2>4. CASE i \in 1 .. Len(posted)
    <3>1. cq'[SlotOf(cq_head, i)] = cq[SlotOf(cq_head, i)] /\ posted'[i] = posted[i]
      BY <1>4, <1>5, <2>2, <2>4 DEF NvmeInv, NvmeTypeOK
    <3>2. QED
      BY <2>4, <3>1 DEF NvmeInv, QueueHolds
  <2>5. QED
    BY <1>5, <2>3, <2>4
<1>12. OneOutstanding'
  <2>1. SUFFICES ASSUME ~late PROVE OneOutstanding'
    BY <1>6 DEF OneOutstanding
  <2>2. waiting # NoCall /\ ctrl.fetch = sq_tail /\ ctrl.busy = {waiting} /\ posted = <<>>
    BY <2>1 DEF NvmeInv, OneOutstanding
  <2>3. ctrl'.busy = {} /\ cmd = waiting
    BY <1>3, <2>2
  <2>4. Len(posted) = 0 /\ Len(posted') = 1 /\ posted'[1].command = waiting
    BY <1>5, <2>2, <2>3
  <2>5. answered.call = answered.command
    BY <2>1 DEF NvmeInv, OneOutstanding
  <2>6. QED
    BY <1>3, <1>6, <2>2, <2>3, <2>4, <2>5 DEF OneOutstanding
<1>13. QED
  BY <1>7, <1>9, <1>10, <1>11, <1>12 DEF NvmeInv

LEMMA NvmeStepInv == ASSUME NvmeInv, [NvmeNext]_nvme PROVE NvmeInv'
<1>1. CASE UNCHANGED nvme
  BY <1>1 DEF nvme, NvmeInv, NvmeTypeOK, LapsShow, Ahead, AheadBounded, QueueHolds, SlotOf, OneOutstanding
<1>2. CASE NvmeNext
  BY <1>2, SubmitKeeps, TakeAnswerKeeps, SpinKeeps, GiveUpKeeps, FetchKeeps, CompleteKeeps DEF NvmeNext
<1>3. QED
  BY <1>1, <1>2

(***************************************************************************)
(* The theorem: nvme_read and nvme_write see each completion once and in   *)
(* order and, before the first timeout, their own, whatever the size of    *)
(* the queues and in whatever order the controller completes.              *)
(***************************************************************************)
THEOREM NvmeAnswersMatch == NvmeSpec => []AnswersMatch
<1>1. NvmeInit => NvmeInv
  BY NvmeInitInv
<1>2. NvmeInv /\ [NvmeNext]_nvme => NvmeInv'
  BY NvmeStepInv
<1>3. NvmeInv => AnswersMatch
  <2>1. SUFFICES ASSUME NvmeInv PROVE AnswersMatch
    OBVIOUS
  <2>2. Arrived <=> posted # <<>>
    BY <2>1, ArrivedIs
  <2>3. posted # <<>> => /\ cq[cq_head].command = posted[1].command
                         /\ cq[cq_head].ok = posted[1].ok
    <3>1. SUFFICES ASSUME posted # <<>>
                   PROVE  /\ cq[cq_head].command = posted[1].command
                          /\ cq[cq_head].ok = posted[1].ok
      OBVIOUS
    <3>2. 1 \in 1 .. Len(posted) /\ SlotOf(cq_head, 1) = cq_head
      BY <2>1, <3>1, ArrivedIs
    <3>3. QED
      BY <2>1, <3>2 DEF NvmeInv, QueueHolds
  <2>4. ~late => answered.call = answered.command
    BY <2>1 DEF NvmeInv, OneOutstanding
  <2>5. QED
    BY <2>2, <2>3, <2>4 DEF AnswersMatch
<1>4. QED
  BY <1>1, <1>2, <1>3, PTL DEF NvmeSpec
=============================================================================
