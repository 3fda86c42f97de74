------------------------------ MODULE NixLang ------------------------------
(***************************************************************************)
(* The NixLang interpreter (lang/nixlang.c) on the strtok of lib/string.c, *)
(* whose place is one static pointer for all callers: the loop over the    *)
(* lines of a script, the loop over the words of each line inside it, and  *)
(* the shell's for a command that a script runs, which may be a script.    *)
(*                                                                         *)
(* A line is a sequence of words, a text a sequence of lines, the last of  *)
(* which is Eol if the text ends with a newline.  When a token ends its    *)
(* string, strtok asks strchr for the end, and this strchr never finds a   *)
(* NUL: the place becomes address 0, and the next call goes on with what   *)
(* lies there (low), nothing if that byte is 0.  Files and the screen are  *)
(* left out, and so are lines of blanks, which are skipped as comments     *)
(* are; a line has fewer words than args has room for, and the text of a   *)
(* script that has returned still stands in its dead frame.                *)
(***************************************************************************)
EXTENDS Integers, Sequences, SequencesExt, FiniteSets

CONSTANTS
  Files,           \* name of a file -> its text
  Hashed,          \* words whose first character is #
  Numeral,         \* words that are numbers, every sum among them -> the number
  MAX_VARIABLES,
  Cut(_),          \* a name as it is stored: its first 31 characters
  MaxDepth         \* bound: scripts that run scripts

Empty == <<>>
Eol   == <<"\n">>
Magic == <<"#!nixbin">>
Junk  == <<"junk">>
Null  == [at |-> 0, rest |-> <<>>]        \* the address 0

\* The end of a text stands at its end only.
ASSUME FilesAssumption ==
  \A f \in DOMAIN Files :
    /\ Files[f] \in Seq(Seq(STRING))
    /\ \A i \in 1 .. Len(Files[f]) - 1 : Files[f][i] # Eol

ASSUME HashedAssumption == Magic[1] \in Hashed /\ Junk[1] \notin Hashed

VARIABLES
  low,             \* the text at address 0
  last,            \* strtok's: [at, rest], in the text of which script and what is left
  stack,           \* the scripts that run: [text, done], done counts the lines taken
  variables,       \* sequence of [name, value, is_number, number_value]
  meant,           \* history: name -> value stored last
  ended            \* history: the script that ended last

script == <<low, last, stack, variables, meant, ended>>

(***************************************************************************)
(* lib/string.c.                                                           *)
(***************************************************************************)
At(s, i) == IF i <= Len(s) THEN s[i] ELSE Empty

\* strncmp(s, t, n) = 0: when all n characters agree the next ones are compared
StrncmpIsZero(s, t, n) ==
  LET k == CHOOSE i \in 1 .. n + 1 :
             /\ \A j \in 1 .. i - 1 : At(s, j) = At(t, j) /\ At(s, j) # Empty
             /\ i = n + 1 \/ At(s, i) # At(t, i) \/ At(s, i) = Empty
  IN  At(s, k) = At(t, k)

\* strstr(line, "=="), which by strncmp finds it at the end of the line only
StrstrEquals(l) == l[Len(l)] = "=="

\* What a call strtok(NULL, "\n") finds
Rest == IF last = Null THEN low ELSE last.rest

AfterToken_skips(rest) ==                                                \* slip
  IF Len(rest) <= 2 THEN Null ELSE [last EXCEPT !.rest = Tail(Tail(rest))]

AfterToken(rest) == IF Len(rest) = 1 THEN Null ELSE [last EXCEPT !.rest = Tail(rest)]

(***************************************************************************)
(* Variables.                                                              *)
(***************************************************************************)
Find(vs, name) == SelectInSeq(vs, LAMBDA v : v.name = name)

Resolve(vs, token) == IF Find(vs, token) = 0 THEN token ELSE vs[Find(vs, token)].value

\* The empty text is a number too
IsNumber(value) == value = Empty \/ (Len(value) = 1 /\ value[1] \in DOMAIN Numeral)

ToInt(value) == IF value # Empty /\ IsNumber(value) THEN Numeral[value[1]] ELSE 0

ToText(n) == <<CHOOSE w \in DOMAIN Numeral : Numeral[w] = n>>

CanStore(vs, name) == Find(vs, name) # 0 \/ Len(vs) < MAX_VARIABLES

Store_appends(vs, name, value) ==                                       \* slip
  IF Len(vs) = MAX_VARIABLES THEN vs
  ELSE Append(vs, [name |-> Cut(name), value |-> value,
                   is_number |-> IsNumber(value), number_value |-> ToInt(value)])

Store(vs, name, value) ==
  LET i == Find(vs, name)
      v == [name |-> IF i = 0 THEN Cut(name) ELSE vs[i].name, value |-> value,
            is_number |-> IsNumber(value), number_value |-> ToInt(value)]
  IN  IF i # 0 THEN [vs EXCEPT ![i] = v]
      ELSE IF Len(vs) < MAX_VARIABLES THEN Append(vs, v) ELSE vs

(***************************************************************************)
(* Lines.                                                                  *)
(***************************************************************************)
EqualsAt(l) == SelectInSeq(l, LAMBDA w : w \in {"=", "=="})

\* line[0] == '#', so that the magic of an executable is a comment too
IsComment(l) == l[1] \in Hashed

IsAssignment(l) == EqualsAt(l) # 0 /\ ~StrstrEquals(l)

\* Name and value around the first =
NameOf(l)  == SubSeq(l, 1, EqualsAt(l) - 1)
ValueOf(l) ==
  (IF l[EqualsAt(l)] = "==" THEN <<"=">> ELSE <<>>)
    \o SubSeq(l, EqualsAt(l) + 1, Len(l))

\* The words of a line; what lies at address 0 fills up args
Args(l) ==
  IF low = <<>> THEN l
  ELSE [i \in 1 .. 15 |-> IF i <= Len(l) THEN l[i] ELSE Junk[1]]

\* The table after add or sub: nothing is added when the variable made for it is
\* not found, for want of room or because its name was cut
Adjusted(vs, name, delta) ==
  LET made == IF Find(vs, name) = 0 THEN Store(vs, name, <<"0">>) ELSE vs
      i    == Find(made, name)
  IN  IF i = 0 THEN made ELSE Store(made, name, ToText(made[i].number_value + delta))

(***************************************************************************)
(* The interpreter.                                                        *)
(***************************************************************************)
Top == Len(stack)

ScriptInit ==
  /\ low \in {<<>>, <<Junk>>}
  /\ last = Null /\ stack = <<>> /\ variables = <<>>
  /\ meant = [n \in {} |-> <<>>]
  /\ ended = [text |-> <<>>, done |-> 0]

\* nixlang_execute_code up to the first call of strtok
ExecuteCode(text, under) ==
  /\ Len(under) < MaxDepth
  /\ stack' = Append(under, [text |-> text, done |-> 0])
  /\ last' = [at |-> Len(under) + 1, rest |-> text]
  /\ variables' = <<>> /\ meant' = [n \in {} |-> <<>>]
  /\ UNCHANGED <<low, ended>>

\* nixlang_run_binary takes what follows the magic if strncmp finds it
IsBinary(f) == StrncmpIsZero(Files[f], <<Magic>>, 1)

\* The shell's commands nixlang and run start a script
Starts(cmd, f) ==
  /\ f \in DOMAIN Files
  /\ \/ cmd = "nixlang" /\ Files[f] # <<>>
     \/ cmd = "run" /\ IsBinary(f)

RunScript(cmd, f, under) ==
  /\ Starts(cmd, f)
  /\ ExecuteCode(IF cmd = "run" THEN Tail(Files[f]) ELSE Files[f], under)

Start(cmd, f) == stack = <<>> /\ RunScript(cmd, f, stack)

NextLine == Rest[1]

\* The script with its next line taken, if it is one of its own
Taken == IF last = Null THEN stack ELSE [stack EXCEPT ![Top].done = @ + 1]

HasLine  == Rest # <<>> /\ Rest[1] # Eol
TakeLine == stack # <<>> /\ HasLine

Skip ==
  /\ TakeLine /\ IsComment(NextLine)
  /\ last' = AfterToken(Rest) /\ stack' = Taken
  /\ UNCHANGED <<low, variables, meant, ended>>

\* mt with the value that name has now
Meaning(mt, name, value) ==
  [n \in DOMAIN mt \cup {name} |-> IF n = name THEN value ELSE mt[n]]

StoreBoth(name, value) ==
  /\ variables' = Store(variables, name, value)
  /\ meant' = IF CanStore(variables, name) THEN Meaning(meant, name, value) ELSE meant

Assign ==
  /\ TakeLine /\ ~IsComment(NextLine) /\ IsAssignment(NextLine)
  /\ StoreBoth(Cut(NameOf(NextLine)), Resolve(variables, ValueOf(NextLine)))
  /\ last' = AfterToken(Rest) /\ stack' = Taken
  /\ UNCHANGED <<low, ended>>

\* The commands take their words by strtok, which forgets its place in the script
IsCommand == TakeLine /\ ~IsComment(NextLine) /\ ~IsAssignment(NextLine)

Set ==
  /\ IsCommand /\ Args(NextLine)[1] = "set" /\ Len(Args(NextLine)) >= 3
  /\ StoreBoth(<<Args(NextLine)[2]>>, Resolve(variables, <<Args(NextLine)[3]>>))
  /\ last' = Null /\ stack' = Taken
  /\ UNCHANGED <<low, ended>>

AddSub ==
  /\ IsCommand /\ Args(NextLine)[1] \in {"add", "sub"} /\ Len(Args(NextLine)) >= 3
  /\ LET name  == <<Args(NextLine)[2]>>
         n     == ToInt(Resolve(variables, <<Args(NextLine)[3]>>))
         new   == Adjusted(variables, name, IF Args(NextLine)[1] = "sub" THEN -n ELSE n)
     IN  /\ variables' = new
         /\ meant' = IF Find(new, name) = 0 THEN meant
                     ELSE Meaning(meant, name, new[Find(new, name)].value)
  /\ last' = Null /\ stack' = Taken
  /\ UNCHANGED <<low, ended>>

\* exec f, or shell with a command that runs a script
Call(l) ==
  CASE l[1] = "exec" /\ Len(l) >= 2  -> <<"run", l[2]>>
    [] l[1] = "shell" /\ Len(l) >= 3 -> <<l[2], l[3]>>
    [] OTHER -> <<"none", "none">>

Nested == IsCommand /\ RunScript(Call(NextLine)[1], Call(NextLine)[2], Taken)

\* Any other command, and what is none
Other ==
  /\ IsCommand /\ ~Starts(Call(NextLine)[1], Call(NextLine)[2])
  /\ Args(NextLine)[1] \notin {"set", "add", "sub"} \/ Len(Args(NextLine)) < 3
  /\ last' = Null /\ stack' = Taken
  /\ UNCHANGED <<low, variables, meant, ended>>

Return ==
  /\ stack # <<>> /\ ~HasLine
  /\ ended' = stack[Top] /\ stack' = Front(stack)
  /\ UNCHANGED <<low, last, variables, meant>>

ScriptNext ==
  \/ \E cmd \in {"nixlang", "run"}, f \in DOMAIN Files : Start(cmd, f)
  \/ Skip \/ Assign \/ Set \/ AddSub \/ Nested \/ Other \/ Return

ScriptSpec == ScriptInit /\ [][ScriptNext]_script

(***************************************************************************)
(* Properties.                                                             *)
(***************************************************************************)
\* The lines of a text, without what stands for its last newline
Lines(text) == IF text # <<>> /\ Last(text) = Eol THEN Front(text) ELSE text

FirstCommand(text) ==
  LET i == SelectInSeq(Lines(text), LAMBDA l : ~IsComment(l) /\ ~IsAssignment(l))
  IN  IF i = 0 THEN Len(Lines(text)) ELSE i

\* What the code does: a script that ends has taken its lines in order from the
\* first, none left out and none twice, up to the first command and no further,
\* whatever scripts it ran in turn: the words of the command have cost strtok
\* its place in the script.  This is less than is promised, see RunsEveryLine.
RunsToFirstCommand == ended.done = FirstCommand(ended.text)

\* docs/SHELL_AND_EXECUTABLES.md:50-55 shows an executable of five commands: a
\* script that ends has taken every line of its text.
RunsEveryLine == ended.done = Len(Lines(ended.text))

\* A variable has the value stored last under its name, whether by assignment,
\* set, add or sub, also when the table is full; its number is that of its text.
LastStoredWins ==
  \A n \in DOMAIN meant :
    Cut(n) = n =>
      LET i == Find(variables, n)
      IN  /\ i # 0 /\ variables[i].value = meant[n]
          /\ variables[i].number_value = ToInt(meant[n])
=============================================================================
