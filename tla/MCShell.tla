------------------------------ MODULE MCShell ------------------------------
(***************************************************************************)
(* The shell and, as they share nothing with it that is modelled, what can *)
(* be started from it: the interpreter, programs with the C library's      *)
(* heap, the snake.  Each is explored while the others stand at their      *)
(* beginning.                                                              *)
(*                                                                         *)
(* The built-in commands are over the letters a and b: an empty line is a  *)
(* prefix of both, a line "a" of one.                                      *)
(*                                                                         *)
(* The scripts: assignments and a command after them; more variables than  *)
(* the table holds; a name that is cut; a script that runs another, one    *)
(* that runs itself; executables with and without lines, which nixlang     *)
(* takes too.                                                              *)
(***************************************************************************)
EXTENDS Shell, NixLang, UserHeap, Snake

TwoBuiltins == {<<97, 97>>, <<98, 98>>}

MCCut(n) == IF n = <<"longer">> THEN <<"long">> ELSE n

MCNumeral == ("-1" :> -1) @@ ("0" :> 0) @@ ("1" :> 1) @@ ("2" :> 2)

MCHashed == {"#", "#!nixbin"}

MCFiles ==
  ("calc" :> <<<<"#", "x">>, <<"x", "=", "1">>, <<"y", "=", "x">>, <<"x", "=">>,
               <<"add", "y", "1">>, <<"print", "y">>>>)
  @@ ("full" :> <<<<"x", "=", "1">>, <<"y", "==", "2">>, <<"z", "=", "1">>, <<"y", "=", "2">>,
                  <<"set", "z", "x">>, Eol>>)
  @@ ("long" :> <<<<"longer", "=", "1">>, <<"sub", "longer", "1">>>>)
  @@ ("less" :> <<<<"sub", "x", "1">>, <<"sub", "x", "1">>>>)
  @@ ("vars" :> <<<<"x", "=", "2">>, <<"y", "=", "x">>, Eol>>)
  @@ ("last" :> <<<<"x", "=", "2">>, <<"x", "==">>>>)
  @@ ("outer" :> <<<<"x", "=", "2">>, <<"shell", "nixlang", "calc">>, <<"y", "=", "2">>>>)
  @@ ("self" :> <<<<"shell", "nixlang", "self">>>>)
  @@ ("demo" :> <<Magic, <<"print", "hello">>, Eol>>)
  @@ ("noted" :> <<Magic, <<"x", "=", "1">>, <<"add", "x", "1">>, Eol>>)
  @@ ("empty" :> <<Magic>>)
  @@ ("runs" :> <<<<"x", "=", "1">>, <<"exec", "empty">>>>)
  @@ ("tries" :> <<<<"exec", "demo">>, <<"set", "x", "1">>>>)

MCFirstHead == <<3, 2>>
MCFirstFood == <<4, 3>>

NoInput  == Init /\ file = NoFile
NoScript == low = <<>> /\ stack = <<>> /\ last = Null /\ ended.done = 0
NoHeap   == heap = <<>>
NoSnake  == SnakeInit

MCInit == Init /\ ScriptInit /\ LibcInit /\ SnakeInit /\ (NoInput \/ NoScript)

MCNext ==
  \/ NoScript /\ NoHeap /\ NoSnake /\ Next
       /\ UNCHANGED <<script, libc, snake>>
  \/ NoInput /\ NoHeap /\ NoSnake /\ ScriptNext
       /\ UNCHANGED <<vars, libc, snake>>
  \/ NoInput /\ NoScript /\ NoSnake /\ LibcNext
       /\ UNCHANGED <<vars, script, snake>>
  \/ NoInput /\ NoScript /\ NoHeap /\ SnakeNext
       /\ UNCHANGED <<vars, script, libc>>
  \/ Top = MaxDepth                                                  \* the bound
       /\ UNCHANGED <<vars, script, libc, snake>>
  \/ heap = Overwritten                                              \* not followed
       /\ UNCHANGED <<vars, script, libc, snake>>

MCSpec == MCInit /\ [][MCNext]_<<vars, script, libc, snake>>
=============================================================================
