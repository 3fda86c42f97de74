------------------------------ MODULE PageMap ------------------------------
(***************************************************************************)
(* What page tables promise: a partial function from virtual pages to      *)
(* frames, changed at one page at a time.  How many tables that takes, and *)
(* that there may be none left, does not show.                             *)
(***************************************************************************)
CONSTANTS Page, Frame, None

VARIABLE map      \* virtual page -> frame, or None

Init == map = [v \in Page |-> None]

\* A page that was not mapped is mapped now, to some frame; all others are as
\* before.
Map(v) ==
  /\ map[v] = None
  /\ map'[v] \in Frame
  /\ map' = [map EXCEPT ![v] = map'[v]]

Next == \E v \in Page : Map(v)

Spec == Init /\ [][Next]_map
=============================================================================
