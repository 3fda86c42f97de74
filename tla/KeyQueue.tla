------------------------------ MODULE KeyQueue ------------------------------
(***************************************************************************)
(* What the keyboard buffer promises: a first-in first-out queue of at     *)
(* most Capacity characters.  A character offered to a full queue is lost, *)
(* any other one is kept; every kept character is taken once, in order.    *)
(***************************************************************************)
EXTENDS Naturals, Sequences

CONSTANTS Capacity, Char

VARIABLES queue,    \* the characters kept
          offered,  \* the character offered last
          taken     \* the character taken last

vars == <<queue, offered, taken>>

Init == queue = << >> /\ offered = 0 /\ taken = 0

Offer(c) ==
  /\ offered' = c
  /\ queue' = IF Len(queue) < Capacity THEN Append(queue, c) ELSE queue
  /\ UNCHANGED taken

Take ==
  /\ queue # << >>
  /\ taken' = Head(queue)
  /\ queue' = Tail(queue)
  /\ UNCHANGED offered

Next == Take \/ \E c \in Char : Offer(c)

Spec == Init /\ [][Next]_vars
=============================================================================
