----------------------------- MODULE MCScript -----------------------------
(***************************************************************************)
(* The interpreter alone, on the executable that                           *)
(* docs/SHELL_AND_EXECUTABLES.md shows as an example.                      *)
(***************************************************************************)
EXTENDS NixLang

MCCut(n) == n

MCHashed == {"#!nixbin"}

MCNumeral == [w \in {"0"} |-> 0]

MCFiles ==
  [f \in {"demo.bin"} |->
     <<Magic, <<"print", "Hello", "from", "executable">>, <<"mkdir", "demo">>,
       <<"touch", "note.txt">>, <<"write", "note.txt", "done">>, <<"ls">>, Eol>>]
=============================================================================
