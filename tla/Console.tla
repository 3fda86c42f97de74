------------------------------ MODULE Console ------------------------------
(***************************************************************************)
(* The keyboard driver and the shell together, as the command-line main    *)
(* loop runs them: a character taken from the buffer goes to               *)
(* shell_handle_input, and Ctrl+C goes from the interrupt handler straight *)
(* to shell_handle_ctrl_c, past the characters still in the buffer.        *)
(***************************************************************************)
EXTENDS Keyboard

CONSTANTS SHELL_BUFFER_SIZE, MAX_HISTORY, NANO_SIZE, Builtins, MaxEntered

VARIABLES
  command_buffer, buffer_pos, history, history_index, nano_mode, nano_buffer,
  nano_pos, file, entered, nano_typed, nano_result,
  origin,              \* slot of the ring -> the key whose character it holds
  came_from            \* the key that c comes from

Sh == INSTANCE Shell WITH Printable <- 32 .. 126

shellVars == <<command_buffer, buffer_pos, history, history_index, nano_mode, nano_buffer,
               nano_pos, file, entered, nano_typed, nano_result>>

consoleVars == <<vars, shellVars, origin, came_from>>

ConsoleInit == Init /\ Sh!Init /\ file = Sh!NoFile
               /\ origin = [i \in Slot |-> 0] /\ came_from = 0

\* keyboard_handler, with the call it makes to the shell.
ConsolePress(s) ==
  /\ Press(s)
  /\ IF call' = "ctrl_c" THEN Sh!CtrlC ELSE UNCHANGED shellVars
  /\ origin' = IF buffer_head' # buffer_head THEN [origin EXCEPT ![buffer_head] = s] ELSE origin
  /\ UNCHANGED came_from

ConsoleRelease(s) == Release(s) /\ UNCHANGED <<shellVars, origin, came_from>>

ConsoleRead == Read /\ came_from' = origin[buffer_tail] /\ UNCHANGED <<shellVars, origin>>

\* keyboard_process hands the character it took to shell_handle_input.
ConsoleHandle == Handle /\ Sh!HandleInput(c) /\ UNCHANGED <<origin, came_from>>

ConsoleIdle ==
  /\ Check \/ Advance \/ Halt \/ Timer
  /\ UNCHANGED <<shellVars, origin, came_from>>

ConsoleNext ==
  \/ ConsoleRead
  \/ ConsoleHandle
  \/ ConsoleIdle
  \/ \E s \in Scancodes : ConsolePress(s) \/ ConsoleRelease(s)

ConsoleSpec == ConsoleInit /\ [][ConsoleNext]_consoleVars

(***************************************************************************)
(* Properties.                                                             *)
(***************************************************************************)

\* "Up/Down cycle command history": nothing else does.  A character that the
\* shell takes as Up or Down came from an arrow key.
ArrowsCycleHistory ==
  [][pc = "handle" /\ pc' = "check" /\ c # Sh!Newline /\ history_index' # history_index
       => came_from \in {Up, Down}]_consoleVars
=============================================================================
