---------------------------- MODULE WindowStack ----------------------------
(***************************************************************************)
(* What the window list promises: a stack of distinct windows.  A new one  *)
(* goes on top, any one can be raised to the top, only the top one can be  *)
(* closed, and the others never change their order.                        *)
(***************************************************************************)
EXTENDS Sequences, SequencesExt

CONSTANT Window

VARIABLE stack        \* the windows, the top one first

Init == stack = << >>

Open(w) == w \notin Range(stack) /\ stack' = <<w>> \o stack

Raise(w) ==
  \E i \in DOMAIN stack : stack[i] = w /\ stack' = <<w>> \o RemoveAt(stack, i)

\* A click on a close button first raises the window, then closes it.
Close(w) == \E i \in DOMAIN stack : stack[i] = w /\ stack' = RemoveAt(stack, i)

Next == \E w \in Window : Open(w) \/ Raise(w) \/ Close(w)

Spec == Init /\ [][Next]_stack
=============================================================================
