------------------------------ MODULE Keyboard ------------------------------
(***************************************************************************)
(* The keyboard driver (drivers/keyboard.c) and the command-line main loop *)
(* that drains its buffer (keyboard_process, then hlt, in kernel.c).       *)
(*                                                                         *)
(* keyboard_handler runs with interrupts off, so it is one action; the     *)
(* main loop is not protected from it and is divided where the handler may *)
(* come in between.  Scan codes and characters are the program's numbers.  *)
(* Scrolling is left out, and so is alt_pressed, which nothing reads.      *)
(*                                                                         *)
(* A definition marked "slip" is a wrong version of a definition after it, *)
(* used only to confirm that a property would notice the mistake.          *)
(***************************************************************************)
EXTENDS Integers, Sequences

CONSTANTS KEYBOARD_BUFFER_SIZE,   \* 128
          Scancodes               \* the keys that are used

ASSUME KeyboardAssumption ==
  /\ KEYBOARD_BUFFER_SIZE \in Nat \ {0, 1}
  /\ Scancodes \subseteq 0 .. 127

VARIABLES
  shift_pressed, ctrl_pressed, caps_lock,
  buffer, buffer_head, buffer_tail,
  pc,        \* where the main loop is
  c,         \* the local variable c of keyboard_process
  offered,   \* the character passed last to keyboard_buffer_add
  taken,     \* the character returned last by keyboard_buffer_get
  call       \* what the last interrupt had the shell do

ring == <<buffer, buffer_head, buffer_tail>>
mods == <<shift_pressed, ctrl_pressed, caps_lock>>
main == <<pc, c, taken>>
vars == <<ring, mods, main, offered, call>>

Slot == 0 .. KEYBOARD_BUFFER_SIZE - 1
Char == 0 .. 127

\* scancode_to_ascii and scancode_to_ascii_shift, from index 0.
PlainTable ==
  <<0, 27, 49, 50, 51, 52, 53, 54, 55, 56, 57, 48, 45, 61, 8,
    9, 113, 119, 101, 114, 116, 121, 117, 105, 111, 112, 91, 93, 10,
    0, 97, 115, 100, 102, 103, 104, 106, 107, 108, 59, 39, 96,
    0, 92, 122, 120, 99, 118, 98, 110, 109, 44, 46, 47, 0,
    42, 0, 32>>
ShiftTable ==
  <<0, 27, 33, 64, 35, 36, 37, 94, 38, 42, 40, 41, 95, 43, 8,
    9, 81, 87, 69, 82, 84, 89, 85, 73, 79, 80, 123, 125, 10,
    0, 65, 83, 68, 70, 71, 72, 74, 75, 76, 58, 34, 126,
    0, 124, 90, 88, 67, 86, 66, 78, 77, 60, 62, 63, 0,
    42, 0, 32>>

LShift == 42
RShift == 54
Ctrl == 29
Alt == 56
CapsLock == 58
Up == 72
Down == 80
PageUp == 73
PageDown == 81

Modifiers == {LShift, RShift, Ctrl, Alt, CapsLock}

\* The character of a key in the table, with the lock and the shift applied.
Translate(s) ==
  LET ch == (IF shift_pressed THEN ShiftTable ELSE PlainTable)[s + 1]
  IN  CASE caps_lock /\ ch \in 97 .. 122 -> ch - 32
        [] caps_lock /\ ch \in 65 .. 90  -> ch + 32
        [] OTHER -> ch

IsTyping(s) == s \notin Modifiers \cup {Up, Down, PageUp, PageDown} /\ s < Len(PlainTable)

TypeOK ==
  /\ shift_pressed \in BOOLEAN /\ ctrl_pressed \in BOOLEAN /\ caps_lock \in BOOLEAN
  /\ buffer \in [Slot -> Char]
  /\ buffer_head \in Slot /\ buffer_tail \in Slot
  /\ pc \in {"check", "read", "advance", "handle", "halt", "asleep"}
  /\ c \in Char /\ offered \in Char /\ taken \in Char
  /\ call \in {"none", "ctrl_c", "ctrl_l"}

\* keyboard_init, and the main loop about to poll the buffer.
Init ==
  /\ shift_pressed = FALSE /\ ctrl_pressed = FALSE /\ caps_lock = FALSE
  /\ buffer = [i \in Slot |-> 0]
  /\ buffer_head = 0 /\ buffer_tail = 0
  /\ pc = "check" /\ c = 0
  /\ offered = 0 /\ taken = 0 /\ call = "none"

\* The slot after i.
Succ(i) == (i + 1) % KEYBOARD_BUFFER_SIZE

(***************************************************************************)
(* The interrupt handler.                                                  *)
(***************************************************************************)

BufferAdd_noFullTest(ch) ==                         \* slip: overwrites the oldest when full
  /\ offered' = ch
  /\ buffer' = [buffer EXCEPT ![buffer_head] = ch]
  /\ buffer_head' = Succ(buffer_head)
  /\ UNCHANGED buffer_tail

\* keyboard_buffer_add: with one slot left the character is dropped.
BufferAdd(ch) ==
  /\ offered' = ch
  /\ IF Succ(buffer_head) # buffer_tail
     THEN /\ buffer' = [buffer EXCEPT ![buffer_head] = ch]
          /\ buffer_head' = Succ(buffer_head)
     ELSE UNCHANGED <<buffer, buffer_head>>
  /\ UNCHANGED buffer_tail

\* An interrupt ends the processor's sleep in hlt; the loop starts over.
Wakes == IF pc = "asleep" THEN "check" ELSE pc

\* A key of the table with Ctrl held: Ctrl+C and Ctrl+L call the shell from
\* the handler, Ctrl+X is passed on as 24.
Typed(s) ==
  LET ch == Translate(s)
  IN  CASE ctrl_pressed /\ ch \in {67, 99}  ->
             call' = "ctrl_c" /\ UNCHANGED <<ring, offered>>
        [] ctrl_pressed /\ ch \in {76, 108} ->
             call' = "ctrl_l" /\ UNCHANGED <<ring, offered>>
        [] ctrl_pressed /\ ch \in {88, 120} -> call' = "none" /\ BufferAdd(24)
        [] OTHER -> /\ call' = "none"
                    /\ IF ch # 0 THEN BufferAdd(ch) ELSE UNCHANGED <<ring, offered>>

\* keyboard_handler for the make code s.
Press(s) ==
  /\ shift_pressed' = (shift_pressed \/ s \in {LShift, RShift})
  /\ ctrl_pressed' = (ctrl_pressed \/ s = Ctrl)
  /\ caps_lock' = IF s = CapsLock THEN ~ caps_lock ELSE caps_lock
  /\ \/ IsTyping(s) /\ Typed(s)
     \/ s \in {Up, Down} /\ BufferAdd(s) /\ call' = "none"
     \/ /\ ~ IsTyping(s) /\ s \notin {Up, Down}
        /\ call' = "none" /\ UNCHANGED <<ring, offered>>
  /\ pc' = Wakes
  /\ UNCHANGED <<c, taken>>

\* keyboard_handler for the break code of s.
Release(s) ==
  /\ shift_pressed' = (shift_pressed /\ s \notin {LShift, RShift})
  /\ ctrl_pressed' = (ctrl_pressed /\ s # Ctrl)
  /\ call' = "none"
  /\ pc' = Wakes
  /\ UNCHANGED <<ring, caps_lock, offered, c, taken>>

Timer_noWake ==                                     \* slip: the timer line stays masked
  /\ FALSE
  /\ UNCHANGED vars

\* The timer interrupt, which has no handler: all it does is end a hlt.
Timer ==
  /\ pc = "asleep"
  /\ pc' = "check" /\ call' = "none"
  /\ UNCHANGED <<ring, mods, offered, c, taken>>

(***************************************************************************)
(* The main loop.                                                          *)
(***************************************************************************)

\* The condition of the while in keyboard_process.
Check ==
  /\ pc = "check"
  /\ pc' = IF buffer_head = buffer_tail THEN "halt" ELSE "read"
  /\ UNCHANGED <<ring, mods, offered, c, taken, call>>

\* keyboard_buffer_get up to the load of the character.
Read ==
  /\ pc = "read"
  /\ IF buffer_head = buffer_tail
     THEN c' = 0 /\ pc' = "handle"
     ELSE c' = buffer[buffer_tail] /\ pc' = "advance"
  /\ UNCHANGED <<ring, mods, offered, taken, call>>

\* The rest of keyboard_buffer_get: the slot is given back.
Advance ==
  /\ pc = "advance"
  /\ buffer_tail' = Succ(buffer_tail)
  /\ taken' = c
  /\ pc' = "handle"
  /\ UNCHANGED <<buffer, buffer_head, mods, offered, c, call>>

\* shell_handle_input(c), whose effect is in module Shell.
Handle ==
  /\ pc = "handle"
  /\ pc' = "check"
  /\ UNCHANGED <<ring, mods, offered, c, taken, call>>

\* hlt.  An interrupt since the last Check does not keep it from sleeping.
Halt ==
  /\ pc = "halt"
  /\ pc' = "asleep"
  /\ UNCHANGED <<ring, mods, offered, c, taken, call>>

MainLoop == Check \/ Read \/ Advance \/ Handle \/ Halt

Next == MainLoop \/ Timer \/ \E s \in Scancodes : Press(s) \/ Release(s)

Spec == Init /\ [][Next]_vars

\* The processor runs, and the timer keeps interrupting.
FairSpec == Spec /\ WF_vars(MainLoop) /\ WF_vars(Timer)

(***************************************************************************)
(* Properties.                                                             *)
(***************************************************************************)

\* The number of slots from j on to i, and the slot n after j.
Distance(j, i) == IF i >= j THEN i - j ELSE i - j + KEYBOARD_BUFFER_SIZE
SlotAfter(j, n) ==
  IF j + n >= KEYBOARD_BUFFER_SIZE THEN j + n - KEYBOARD_BUFFER_SIZE ELSE j + n

\* Characters in the buffer.
Count == Distance(buffer_tail, buffer_head)

\* The loop never fetches from an empty buffer: only the loop empties it.
GetFindsACharacter == pc \in {"read", "advance"} => Count > 0

\* The slot whose character the loop has loaded but not yet given back is
\* not overwritten by a key that arrives in between.
LoadedIsIntact == pc = "advance" => buffer[buffer_tail] = c

\* Whatever keys arrive in between, the buffer is a queue of one character
\* less than its size.
Queue == INSTANCE KeyQueue WITH
           Capacity <- KEYBOARD_BUFFER_SIZE - 1,
           queue <- [i \in 1 .. Count |-> buffer[SlotAfter(buffer_tail, i - 1)]]

RefinesKeyQueue == Queue!Spec

InUse(i) == Distance(buffer_tail, i) < Count

\* Every key that was accepted is fetched, although the test of the buffer
\* and the hlt that follows are not one step and a key can fall in between.
EveryKeyIsFetched == \A i \in Slot : InUse(i) ~> ~ InUse(i)
=============================================================================
