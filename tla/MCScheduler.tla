---------------------------- MODULE MCScheduler ----------------------------
(***************************************************************************)
(* Scheduler on small instances.                                           *)
(***************************************************************************)
EXTENDS Scheduler

\* One priority below the range, one inside and one above it: three levels.
ThreePriorities == {-1, 2, 9}

OnePriority == {2}
=============================================================================
