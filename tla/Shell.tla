------------------------------- MODULE Shell -------------------------------
(***************************************************************************)
(* The command line of shell/shell.c: the line editor, the history, Tab    *)
(* completion and the nano editor, driven one character at a time by       *)
(* shell_handle_input and, from the keyboard interrupt, by                 *)
(* shell_handle_ctrl_c.                                                    *)
(*                                                                         *)
(* Characters are the program's numbers; buffers are indexed from 0 as in  *)
(* C and hold C strings.  Of the commands only nano changes the state of   *)
(* the shell; whether a command line is one of nano's is left open.  The   *)
(* file nano edits is the one name the model has, in a directory where it  *)
(* may or may not exist.  shell_handle_input runs to completion before a   *)
(* Ctrl+C is handled.                                                      *)
(*                                                                         *)
(* A definition marked "slip" is a wrong version of a definition after it, *)
(* used only to confirm that a property would notice the mistake.          *)
(***************************************************************************)
EXTENDS Integers, Sequences, SequencesExt, FiniteSets

CONSTANTS
  SHELL_BUFFER_SIZE,  \* 256
  MAX_HISTORY,        \* 20
  NANO_SIZE,          \* sizeof(nano_buffer), 4096
  Printable,          \* the characters typed, a part of 32 .. 126
  Builtins,           \* shell_builtin_commands, as sequences of characters
  MaxEntered          \* bound on the command lines entered

ASSUME ShellAssumption ==
  /\ SHELL_BUFFER_SIZE \in Nat /\ SHELL_BUFFER_SIZE > 1
  /\ MAX_HISTORY \in Nat \ {0}
  /\ NANO_SIZE \in Nat /\ NANO_SIZE > 1
  /\ Printable \subseteq 32 .. 126
  /\ Builtins \subseteq Seq(33 .. 126)
  /\ MaxEntered \in Nat

VARIABLES
  command_buffer, buffer_pos,
  history,          \* the history_count strings of history[][]
  history_index,
  nano_mode, nano_buffer, nano_pos,
  file,             \* the contents of the file nano edits, or NoFile
  entered,          \* every command line entered so far
  nano_typed,       \* the text typed in an editor that was opened empty, or Untold
  nano_result       \* how the last save ended: "none", "written" or "failed"

line == <<command_buffer, buffer_pos>>
hist == <<history, history_index, entered>>
nano == <<nano_mode, nano_buffer, nano_pos, nano_typed, nano_result>>
vars == <<line, hist, nano, file>>

NUL == 0
Backspace == 8
Tab == 9
Newline == 10
CtrlX == 24
ArrowUp == 72
ArrowDown == 80
Space == 32
NoFile == <<NUL>>
Untold == <<NUL>>

LineCell == 0 .. SHELL_BUFFER_SIZE - 1
NanoCell == 0 .. NANO_SIZE - 1
Blank(Cell) == [i \in Cell |-> NUL]

\* The C string in buffer b.
CStr(b) ==
  LET n == CHOOSE n \in DOMAIN b : b[n] = NUL /\ \A i \in DOMAIN b : i < n => b[i] # NUL
  IN  [i \in 1 .. n |-> b[i - 1]]

\* The first n characters of s, or all of them if there are fewer.
Clip(s, n) == SubSeq(s, 1, IF Len(s) < n THEN Len(s) ELSE n)

\* What the user sees on the input line.
Line == [i \in 1 .. buffer_pos |-> command_buffer[i - 1]]

\* Buffer b with the string s, and its terminator, copied to its start.
Copied(b, s) ==
  [i \in DOMAIN b |-> IF i < Len(s) THEN s[i + 1] ELSE IF i = Len(s) THEN NUL ELSE b[i]]

\* shell_init on cleared memory, in a directory with or without the file.
Init ==
  /\ command_buffer = Blank(LineCell) /\ buffer_pos = 0
  /\ history = << >> /\ history_index = -1 /\ entered = << >>
  /\ nano_mode = FALSE /\ nano_buffer = Blank(NanoCell) /\ nano_pos = 0
  /\ nano_typed = << >> /\ nano_result = "none"
  /\ file \in {NoFile, << >>} \cup {<<ch>> : ch \in Printable}

(***************************************************************************)
(* The input line.                                                         *)
(***************************************************************************)

ReplaceInput_noErase(text) ==                       \* slip: written over the old text
  LET n == Len(Clip(text, SHELL_BUFFER_SIZE - 1))
  IN  /\ command_buffer' = [i \in LineCell |->
                              IF i < n THEN text[i + 1] ELSE command_buffer[i]]
      /\ buffer_pos' = IF n > buffer_pos THEN n ELSE buffer_pos

\* shell_replace_input: erase back to the start, then copy what fits.
ReplaceInput(text) ==
  LET shown  == Clip(text, SHELL_BUFFER_SIZE - 1)
      erased == [i \in LineCell |-> IF i < buffer_pos THEN NUL ELSE command_buffer[i]]
  IN  /\ command_buffer' = Copied(erased, shown)
      /\ buffer_pos' = Len(shown)

\* A printable character; a full line takes no more.
Insert(ch) ==
  /\ ch \in 32 .. 126
  /\ IF buffer_pos < SHELL_BUFFER_SIZE - 1
     THEN /\ command_buffer' = [command_buffer EXCEPT ![buffer_pos] = ch,
                                                      ![buffer_pos + 1] = NUL]
          /\ buffer_pos' = buffer_pos + 1
     ELSE UNCHANGED line
  /\ UNCHANGED <<hist, nano, file>>

\* Backspace.
Erase ==
  /\ IF buffer_pos > 0
     THEN /\ command_buffer' = [command_buffer EXCEPT ![buffer_pos - 1] = NUL]
          /\ buffer_pos' = buffer_pos - 1
     ELSE UNCHANGED line
  /\ UNCHANGED <<hist, nano, file>>

(***************************************************************************)
(* The history.                                                            *)
(***************************************************************************)

AddToHistory_overwrites(s) ==                       \* slip: nothing is shifted
  IF Len(history) < MAX_HISTORY
  THEN Append(history, s)
  ELSE [history EXCEPT ![MAX_HISTORY] = s]

\* shell_add_to_history: a full history loses its oldest entry.
AddToHistory(s) ==
  IF Len(history) < MAX_HISTORY
  THEN Append(history, s)
  ELSE Append(Tail(history), s)

\* Up: to the newest entry, then to older ones.
Recall ==
  LET i == IF history_index < 0 THEN Len(history) - 1
           ELSE IF history_index > 0 THEN history_index - 1 ELSE history_index
  IN  /\ IF Len(history) > 0
         THEN history_index' = i /\ ReplaceInput(history[i + 1])
         ELSE UNCHANGED <<line, history_index>>
      /\ UNCHANGED <<history, entered, nano, file>>

\* Down: to newer entries, and past the newest to an empty line.
RecallNewer ==
  LET last == Len(history) - 1
  IN  /\ CASE history_index >= 0 /\ history_index < last ->
                history_index' = history_index + 1 /\ ReplaceInput(history[history_index + 2])
           [] history_index = last -> history_index' = -1 /\ ReplaceInput(<< >>)
           [] OTHER -> UNCHANGED <<line, history_index>>
      /\ UNCHANGED <<history, entered, nano, file>>

(***************************************************************************)
(* Tab completion.                                                         *)
(***************************************************************************)

StartsWith(text, prefix) ==
  Len(prefix) <= Len(text) /\ SubSeq(text, 1, Len(prefix)) = prefix

\* shell_handle_tab_completion.  It completes the string in the buffer.  A
\* line with a space is compared whole with the names of files, which have
\* no space in them, so that nothing matches.
Complete ==
  LET prefix  == CStr(command_buffer)
      matches == IF \E i \in DOMAIN prefix : prefix[i] = Space THEN {}
                 ELSE {b \in Builtins : StartsWith(b, prefix)}
  IN  /\ CASE Cardinality(matches) = 1 -> ReplaceInput(CHOOSE b \in matches : TRUE)
           [] Cardinality(matches) > 1 -> ReplaceInput(prefix)
           [] OTHER -> UNCHANGED line
      /\ UNCHANGED <<hist, nano, file>>

(***************************************************************************)
(* nano.                                                                   *)
(***************************************************************************)

\* cmd_nano: read_file copies what fits with a terminator after it.  The
\* position nano_pos belongs to shell_handle_nano_input and is not set.
OpenNano ==
  LET text == IF file = NoFile THEN << >> ELSE Clip(file, NANO_SIZE - 1)
  IN  /\ nano_mode' = TRUE
      /\ nano_buffer' = Copied(nano_buffer, text)
      /\ nano_typed' = IF text = << >> /\ nano_pos = 0 THEN << >> ELSE Untold
      /\ nano_result' = "none"
      /\ UNCHANGED nano_pos

\* Ctrl+X: write the buffer to the file, created first if need be, and leave.
\* The table of files may have no room for a new file, and the heap none for
\* the contents of one that has none yet; the editor is left, and its text
\* cleared, all the same.
NanoSave ==
  /\ \/ nano_result' = "written" /\ file' = CStr(nano_buffer)
     \/ nano_result' = "failed" /\ file = NoFile /\ file' \in {NoFile, << >>}
     \/ nano_result' = "failed" /\ file = << >> /\ file' = << >>
  /\ nano_mode' = FALSE /\ nano_pos' = 0
  /\ nano_buffer' = Blank(NanoCell)
  /\ nano_typed' = << >>

\* A newline ends no string: unlike a printable character it leaves the cell
\* after it as it is.
NanoInsert(ch) ==
  LET room == nano_pos < NANO_SIZE - 1
  IN  /\ ch = Newline \/ ch \in 32 .. 126
      /\ nano_buffer' = [i \in NanoCell |->
           IF room /\ i = nano_pos THEN ch
           ELSE IF room /\ i = nano_pos + 1 /\ ch # Newline THEN NUL ELSE nano_buffer[i]]
      /\ nano_pos' = IF room THEN nano_pos + 1 ELSE nano_pos
      /\ nano_typed' = IF room /\ nano_typed # Untold THEN Append(nano_typed, ch) ELSE nano_typed
      /\ UNCHANGED <<nano_mode, nano_result, file>>

NanoErase_keepsText ==                              \* slip: the character stays in the buffer
  /\ nano_pos > 0
  /\ nano_pos' = nano_pos - 1
  /\ nano_typed' = IF nano_typed = Untold THEN Untold ELSE Front(nano_typed)
  /\ UNCHANGED <<nano_mode, nano_buffer, nano_result, file>>

NanoErase ==
  /\ IF nano_pos > 0
     THEN /\ nano_pos' = nano_pos - 1
          /\ nano_buffer' = [nano_buffer EXCEPT ![nano_pos - 1] = NUL]
          /\ nano_typed' = IF nano_typed = Untold THEN Untold ELSE Front(nano_typed)
     ELSE UNCHANGED <<nano_pos, nano_buffer, nano_typed>>
  /\ UNCHANGED <<nano_mode, nano_result, file>>

\* shell_handle_nano_input.
NanoInput(ch) ==
  /\ \/ ch = CtrlX /\ NanoSave
     \/ ch = Backspace /\ NanoErase
     \/ NanoInsert(ch)
     \/ /\ ch \notin {CtrlX, Backspace, Newline} \cup 32 .. 126
        /\ UNCHANGED <<nano, file>>
  /\ UNCHANGED <<line, hist>>

(***************************************************************************)
(* The shell.                                                              *)
(***************************************************************************)

\* Enter: a line that is not empty goes to the history and is executed.
Enter ==
  LET b == [command_buffer EXCEPT ![buffer_pos] = NUL]
  IN  /\ command_buffer' = b
      /\ IF buffer_pos > 0
         THEN /\ Len(entered) < MaxEntered
              /\ history' = AddToHistory(CStr(b))
              /\ entered' = Append(entered, CStr(b))
              /\ OpenNano \/ UNCHANGED nano
         ELSE UNCHANGED <<history, entered, nano>>
      /\ buffer_pos' = 0
      /\ history_index' = -1
      /\ UNCHANGED file

\* shell_handle_input.  The codes of the arrow keys are letters as well.
HandleInput(ch) ==
  \/ nano_mode /\ NanoInput(ch)
  \/ /\ ~ nano_mode
     /\ \/ ch = ArrowUp /\ Recall
        \/ ch = ArrowDown /\ RecallNewer
        \/ ch = Newline /\ Enter
        \/ ch = Backspace /\ Erase
        \/ ch = Tab /\ Complete
        \/ ch \notin {ArrowUp, ArrowDown} /\ Insert(ch)
        \/ /\ ch \notin {Newline, Backspace, Tab} \cup 32 .. 126
           /\ UNCHANGED vars

\* shell_handle_ctrl_c, from the keyboard interrupt: leaves nano, or drops
\* the line.
CtrlC ==
  /\ IF nano_mode
     THEN /\ nano_mode' = FALSE /\ nano_typed' = << >>
          /\ nano_buffer' = Blank(NanoCell)
          /\ UNCHANGED line
     ELSE /\ buffer_pos' = 0
          /\ command_buffer' = [command_buffer EXCEPT ![0] = NUL]
          /\ UNCHANGED <<nano_mode, nano_buffer, nano_typed>>
  /\ UNCHANGED <<hist, nano_pos, nano_result, file>>

Input == Printable \cup {Newline, Backspace, Tab, CtrlX, ArrowUp, ArrowDown}

Next == CtrlC \/ \E ch \in Input : HandleInput(ch)

Spec == Init /\ [][Next]_vars

(***************************************************************************)
(* Properties.                                                             *)
(***************************************************************************)
\* A line being typed ends, for strcpy, strtok and strcmp, where the cursor
\* is: neither editing nor recalling leaves old characters behind it.
LineEndsAtCursor == buffer_pos > 0 => CStr(command_buffer) = Line

\* The history is the most recent lines, oldest first, also once it is full.
HistoryIsRecent ==
  history = SubSeq(entered, Len(entered) - Len(history) + 1, Len(entered))
    /\ Len(history) = (IF Len(entered) < MAX_HISTORY THEN Len(entered) ELSE MAX_HISTORY)

\* nano saves the text that was typed and not erased since it was opened on an
\* empty text, as much of it as its buffer holds, whatever was edited, saved or
\* left by Ctrl+C before.  (Opened over a text, or after Ctrl+C has left its
\* position behind, it does not: the position is not the end of the text.)
NanoSavesTyped ==
  [][nano_mode /\ ~ nano_mode' /\ nano_result' = "written" /\ nano_typed # Untold
       => file' = nano_typed]_vars
=============================================================================
