---------------------------- MODULE MCFilesystem ----------------------------
(* How the runs of module Filesystem store a name: "longer" stands for the *)
(* names that are cut, and is cut to a name that can be given as well.     *)
EXTENDS Filesystem

ClipLong(n) == IF n = "longer" THEN "long" ELSE n
=============================================================================
