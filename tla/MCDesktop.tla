----------------------------- MODULE MCDesktop -----------------------------
(***************************************************************************)
(* Desktop on a screen of 3 by 4 cells with two applications, one of each  *)
(* order of allocation.                                                    *)
(***************************************************************************)
EXTENDS Desktop

Frames == [explorer |-> Rect(1, 0, 2, 3), editor |-> Rect(0, 1, 2, 2)]

Icons == [explorer |-> [x |-> 0, y |-> 0], editor |-> [x |-> 2, y |-> 0]]

\* What may have been written over the size of a destroyed window.
MCStale == {[width |-> 0, height |-> 5]}

\* Bytes for one cell left, down, and right with up.
OneCell == {<<255, 0>>, <<0, 255>>, <<1, 1>>}
=============================================================================
