----------------------------- MODULE MCConsole -----------------------------
(* The built-in commands of the run of module Console.                     *)
EXTENDS Console

LsOnly == {<<108, 115>>}
=============================================================================
