---------------------------- MODULE ShellProofs ----------------------------
(***************************************************************************)
(* The strings of shell/shell.c: the one on the input line ends at the     *)
(* cursor, the history keeps the last of them, and the editor saves what   *)
(* was typed, for every size of the buffers and of the history.  Then what *)
(* the shell runs: the scripts of lang/nixlang.c (what a variable has, and *)
(* how far a script gets, for all files and every size of the table), and  *)
(* the heap that lib/libc/libc.c gives to programs, for every size of it,  *)
(* and the snake of games/games.c, whatever turns it makes.                *)
(***************************************************************************)
EXTENDS Shell, NixLang, UserHeap, Snake, SequenceTheorems, FiniteSetTheorems, TLAPS

Char == 1 .. 126

\* The lines that Enter puts into the history.
Strings == {s \in Seq(Char) : Len(s) < SHELL_BUFFER_SIZE}

\* A C string of n characters in buffer b.
StringOf(b, n) ==
  /\ n \in DOMAIN b /\ b[n] = NUL
  /\ \A i \in 0 .. n - 1 : i \in DOMAIN b /\ b[i] \in Char

LineInv ==
  /\ command_buffer \in [LineCell -> 0 .. 126]
  /\ buffer_pos \in LineCell
  /\ \E n \in LineCell : StringOf(command_buffer, n) /\ (buffer_pos > 0 => n = buffer_pos)

HistInv ==
  /\ history \in Seq(Strings) /\ entered \in Seq(Strings)
  /\ history_index \in -1 .. Len(history) - 1
  /\ HistoryIsRecent

\* The editor's buffer while the text typed in it is known: the text, and
\* nothing behind it.
NanoHolds ==
  /\ nano_typed \in Seq(Char) /\ nano_pos = Len(nano_typed)
  /\ \A i \in NanoCell :
       nano_buffer[i] = IF i < nano_pos THEN nano_typed[i + 1] ELSE NUL

NanoInv ==
  /\ nano_pos \in NanoCell
  /\ nano_buffer = [i \in NanoCell |-> nano_buffer[i]]
  /\ nano_mode \in BOOLEAN
  /\ ~ nano_mode => nano_buffer = Blank(NanoCell)
  /\ nano_mode => nano_result = "none" /\ (nano_typed # Untold => NanoHolds)

Inv == LineInv /\ HistInv /\ NanoInv

(***************************************************************************)
(* Strings.                                                                *)
(***************************************************************************)
LEMMA ClipIs ==
  ASSUME NEW C, NEW s \in Seq(C), NEW n \in Nat
  PROVE  /\ Clip(s, n) \in Seq(C) /\ Len(Clip(s, n)) \in Nat
         /\ Len(Clip(s, n)) <= n
         /\ Len(Clip(s, n)) = IF Len(s) < n THEN Len(s) ELSE n
         /\ \A i \in 1 .. Len(Clip(s, n)) : Clip(s, n)[i] = s[i]
<1> DEFINE k == IF Len(s) < n THEN Len(s) ELSE n
<1>1. k \in 0 .. Len(s) /\ k <= n /\ Len(s) \in Nat
  OBVIOUS
<1> HIDE DEF k
<1>2. SubSeq(s, 1, k) \in Seq(C) /\ Len(SubSeq(s, 1, k)) = k /\ \A i \in 1 .. k : SubSeq(s, 1, k)[i] = s[i]
  BY <1>1
<1>3. Clip(s, n) = SubSeq(s, 1, k)
  BY DEF Clip, k
<1>4. QED
  BY <1>1, <1>2, <1>3 DEF k

\* strlen and what it counts: there is one string at the start of a buffer.
LEMMA CStrIs ==
  ASSUME NEW b, DOMAIN b \subseteq Nat, NEW n, StringOf(b, n)
  PROVE  /\ CStr(b) = [i \in 1 .. n |-> b[i - 1]]
         /\ CStr(b) \in Seq(Char) /\ Len(CStr(b)) = n /\ n \in Nat
<1> DEFINE Ends(k) == b[k] = NUL /\ \A i \in DOMAIN b : i < k => b[i] # NUL
           m == CHOOSE k \in DOMAIN b : Ends(k)
<1>1. n \in DOMAIN b /\ n \in Nat
  BY DEF StringOf
<1>2. Ends(n)
  <2>1. \A i \in DOMAIN b : i < n => i \in 0 .. n - 1
    BY <1>1
  <2>2. QED
    BY <2>1 DEF StringOf, Char, NUL
<1>3. \A k \in DOMAIN b : Ends(k) => k = n
  <2>1. ASSUME NEW k \in DOMAIN b, Ends(k)
        PROVE  k = n
    <3>1. k \in Nat /\ ~ (k < n) /\ ~ (n < k)
      BY <1>1, <1>2, <2>1
    <3>2. QED
      BY <1>1, <3>1
  <2>2. QED
    BY <2>1
<1>4. m = n
  BY <1>1, <1>2, <1>3
<1>5. CStr(b) = [i \in 1 .. n |-> b[i - 1]]
  BY <1>4 DEF CStr
<1>6. \A i \in 1 .. n : b[i - 1] \in Char
  BY <1>1 DEF StringOf
<1>7. QED
  BY <1>1, <1>5, <1>6

(***************************************************************************)
(* The input line.                                                         *)
(***************************************************************************)
\* shell_replace_input leaves the string it copied, and the cursor at its end.
LEMMA ReplaceInputKeeps ==
  ASSUME LineInv, NEW text \in Seq(Char), ReplaceInput(text)
  PROVE  LineInv'
<1> DEFINE shown == Clip(text, SHELL_BUFFER_SIZE - 1)
           n == Len(shown)
           erased == [i \in LineCell |-> IF i < buffer_pos THEN NUL ELSE command_buffer[i]]
           b == Copied(erased, shown)
<1>1. SHELL_BUFFER_SIZE \in Nat /\ SHELL_BUFFER_SIZE > 1
  BY ShellAssumption
<1>2. shown \in Seq(Char) /\ n \in Nat /\ n <= SHELL_BUFFER_SIZE - 1
  BY <1>1, ClipIs
<1>3. command_buffer' = b /\ buffer_pos' = n
  BY DEF ReplaceInput
<1>4. erased \in [LineCell -> 0 .. 126]
  BY DEF LineInv, NUL
<1> HIDE DEF shown, erased
<1>5. b = [i \in LineCell |-> IF i < n THEN shown[i + 1] ELSE IF i = n THEN NUL ELSE erased[i]]
  BY <1>4 DEF Copied
<1>6. n \in LineCell /\ \A i \in 0 .. n - 1 : i \in LineCell /\ i + 1 \in 1 .. n
  BY <1>1, <1>2 DEF LineCell
<1>7. ASSUME NEW i \in LineCell
      PROVE  b[i] \in 0 .. 126 /\ (i < n => b[i] \in Char)
  <2>1. CASE i < n
    <3>1. i + 1 \in 1 .. n
      BY <1>2, <2>1 DEF LineCell
    <3>2. b[i] \in Char
      BY <1>2, <1>5, <2>1, <3>1
    <3>3. QED
      BY <3>2 DEF Char
  <2>2. CASE ~ (i < n)
    BY <1>4, <1>5, <2>2 DEF NUL
  <2>3. QED
    BY <2>1, <2>2
<1>8. b \in [LineCell -> 0 .. 126] /\ b[n] = NUL
  BY <1>2, <1>5, <1>6, <1>7
<1> HIDE DEF b, n
<1>9. StringOf(b, n)
  BY <1>2, <1>6, <1>7, <1>8 DEF StringOf
<1>10. QED
  BY <1>3, <1>6, <1>8, <1>9 DEF LineInv

LEMMA InsertKeeps ==
  ASSUME LineInv, NEW ch, Insert(ch)
  PROVE  LineInv'
<1> DEFINE p == buffer_pos
           b == [command_buffer EXCEPT ![p] = ch, ![p + 1] = NUL]
<1>1. PICK n \in LineCell : StringOf(command_buffer, n) /\ (p > 0 => n = p)
  BY DEF LineInv
<1>2. CASE p < SHELL_BUFFER_SIZE - 1
  <2>1. command_buffer' = b /\ buffer_pos' = p + 1 /\ ch \in Char /\ ch \in 0 .. 126
    BY <1>2 DEF Insert, Char
  <2>2. p \in LineCell /\ p + 1 \in LineCell /\ p \in Nat /\ p + 1 # p
    BY <1>2, ShellAssumption DEF LineInv, LineCell
  <2>3. command_buffer \in [LineCell -> 0 .. 126]
    BY DEF LineInv
  <2>4. /\ b \in [LineCell -> 0 .. 126] /\ b[p + 1] = NUL /\ b[p] = ch
        /\ \A i \in LineCell : i < p => b[i] = command_buffer[i]
    BY <2>1, <2>2, <2>3 DEF NUL
  <2> HIDE DEF b, p
  <2>5. \A i \in 0 .. p : i \in LineCell
    BY <2>2, ShellAssumption DEF LineCell
  <2>6. \A i \in 0 .. p - 1 : command_buffer[i] \in Char /\ i < p /\ i \in LineCell
    BY <1>1, <2>2, <2>5 DEF StringOf
  <2>7. \A i \in 0 .. p : b[i] \in Char
    BY <2>1, <2>2, <2>4, <2>6
  <2>8. StringOf(b, p + 1)
    BY <2>2, <2>4, <2>5, <2>7 DEF StringOf
  <2>9. QED
    BY <2>1, <2>2, <2>4, <2>8 DEF LineInv
<1>3. CASE ~ (p < SHELL_BUFFER_SIZE - 1)
  BY <1>3 DEF Insert, LineInv, line
<1>4. QED
  BY <1>2, <1>3

LEMMA EraseKeeps ==
  ASSUME LineInv, Erase
  PROVE  LineInv'
<1> DEFINE p == buffer_pos
           b == [command_buffer EXCEPT ![p - 1] = NUL]
<1>1. CASE p > 0
  <2>1. command_buffer' = b /\ buffer_pos' = p - 1
    BY <1>1 DEF Erase
  <2>2. StringOf(command_buffer, p)
    BY <1>1 DEF LineInv
  <2>3. p \in LineCell /\ p - 1 \in LineCell /\ p \in Nat /\ command_buffer \in [LineCell -> 0 .. 126]
    BY <1>1, ShellAssumption DEF LineInv, LineCell
  <2>4. /\ b \in [LineCell -> 0 .. 126] /\ b[p - 1] = NUL
        /\ \A i \in LineCell : i # p - 1 => b[i] = command_buffer[i]
    BY <2>3 DEF NUL
  <2> HIDE DEF b, p
  <2>5. \A i \in 0 .. (p - 1) - 1 : i \in LineCell /\ i # p - 1 /\ i \in 0 .. p - 1
    BY <2>3, ShellAssumption DEF LineCell
  <2>6. StringOf(b, p - 1)
    BY <2>2, <2>3, <2>4, <2>5 DEF StringOf
  <2>7. QED
    BY <2>1, <2>3, <2>4, <2>6 DEF LineInv
<1>2. CASE ~ (p > 0)
  BY <1>2 DEF Erase, LineInv, line
<1>3. QED
  BY <1>1, <1>2

\* The line ended at its start, as Ctrl+C and an Enter on an empty line do.
LEMMA EmptiedKeeps ==
  ASSUME LineInv, command_buffer' = [command_buffer EXCEPT ![0] = NUL], buffer_pos' = 0
  PROVE  LineInv'
<1>1. 0 \in LineCell
  BY ShellAssumption DEF LineCell
<1>2. command_buffer' \in [LineCell -> 0 .. 126] /\ command_buffer'[0] = NUL
  BY <1>1 DEF LineInv, NUL
<1>3. StringOf(command_buffer', 0)
  BY <1>1, <1>2 DEF StringOf
<1>4. QED
  BY <1>1, <1>2, <1>3 DEF LineInv

\* Enter on a line that is not empty hands over the string typed: the cell it
\* writes is the line's terminator already.
LEMMA EnteredIs ==
  ASSUME LineInv, buffer_pos > 0
  PROVE  /\ [command_buffer EXCEPT ![buffer_pos] = NUL] = command_buffer
         /\ CStr(command_buffer) \in Strings
         /\ CStr(command_buffer) = Line
<1>1. StringOf(command_buffer, buffer_pos)
  BY DEF LineInv
<1>2. /\ command_buffer \in [LineCell -> 0 .. 126] /\ DOMAIN command_buffer \subseteq Nat
      /\ buffer_pos < SHELL_BUFFER_SIZE
  BY ShellAssumption DEF LineInv, LineCell
<1>3. [command_buffer EXCEPT ![buffer_pos] = NUL] = command_buffer
  BY <1>1, <1>2 DEF StringOf
<1>4. /\ CStr(command_buffer) = [i \in 1 .. buffer_pos |-> command_buffer[i - 1]]
      /\ CStr(command_buffer) \in Seq(Char) /\ Len(CStr(command_buffer)) = buffer_pos
  BY <1>1, <1>2, CStrIs
<1>5. QED
  BY <1>2, <1>3, <1>4 DEF Strings, Line

\* The string that Tab completes.
LEMMA PrefixIs ==
  ASSUME LineInv
  PROVE  CStr(command_buffer) \in Seq(Char)
<1>1. PICK n \in LineCell : StringOf(command_buffer, n)
  BY DEF LineInv
<1>2. DOMAIN command_buffer \subseteq Nat
  BY ShellAssumption DEF LineInv, LineCell
<1>3. QED
  BY <1>1, <1>2, CStrIs

(***************************************************************************)
(* The history.                                                            *)
(***************************************************************************)
\* The sequence h is the end of the sequence e, told entry by entry.
LEMMA EndOf ==
  ASSUME NEW h \in Seq(Strings), NEW e \in Seq(Strings), Len(h) <= Len(e)
  PROVE  h = SubSeq(e, Len(e) - Len(h) + 1, Len(e))
           <=> \A j \in 1 .. Len(h) : h[j] = e[Len(e) - Len(h) + j]
<1> DEFINE m == Len(e)
           n == Len(h)
           t == SubSeq(e, m - n + 1, m)
<1>1. m \in Nat /\ n \in Nat /\ n <= m
  OBVIOUS
<1>2. t \in Seq(Strings) /\ Len(t) = n /\ \A j \in 1 .. n : t[j] = e[m - n + j]
  OBVIOUS
<1> HIDE DEF t
<1>3. h = t <=> \A j \in 1 .. n : h[j] = t[j]
  BY <1>2
<1>4. QED
  BY <1>2, <1>3 DEF t

\* A line added to a history that ends with the most recent lines leaves one
\* that does.
LEMMA AddKeeps ==
  ASSUME HistInv, NEW s \in Strings,
         history' = AddToHistory(s), entered' = Append(entered, s)
  PROVE  history' \in Seq(Strings) /\ entered' \in Seq(Strings) /\ HistoryIsRecent'
<1>1. /\ history \in Seq(Strings) /\ entered \in Seq(Strings)
      /\ history = SubSeq(entered, Len(entered) - Len(history) + 1, Len(entered))
      /\ Len(history) = (IF Len(entered) < MAX_HISTORY THEN Len(entered) ELSE MAX_HISTORY)
  BY DEF HistInv, HistoryIsRecent
<1>2. MAX_HISTORY \in Nat /\ MAX_HISTORY > 0 /\ Len(history) \in Nat /\ Len(entered) \in Nat /\ Len(history) <= Len(entered)
  BY <1>1, ShellAssumption
<1>3. \A j \in 1 .. Len(history) : history[j] = entered[Len(entered) - Len(history) + j]
  BY <1>1, <1>2, EndOf
<1>4. /\ entered' \in Seq(Strings) /\ Len(entered') = Len(entered) + 1 /\ entered'[Len(entered) + 1] = s
      /\ \A j \in 1 .. Len(entered) : entered'[j] = entered[j]
  BY <1>1
<1>5. CASE Len(history) < MAX_HISTORY
  <2>1. history' = Append(history, s) /\ Len(entered) = Len(history) /\ Len(entered) < MAX_HISTORY
    <3>1. history' = Append(history, s)
      BY <1>5 DEF AddToHistory
    <3>2. Len(history) = IF Len(entered) < MAX_HISTORY THEN Len(entered) ELSE MAX_HISTORY
      BY <1>1
    <3>3. QED
      BY <1>2, <1>5, <3>1, <3>2
  <2>2. /\ history' \in Seq(Strings) /\ Len(history') = Len(history) + 1 /\ history'[Len(history) + 1] = s
        /\ \A j \in 1 .. Len(history) : history'[j] = history[j]
    BY <1>1, <2>1
  <2>3. \A j \in 1 .. Len(history') : history'[j] = entered'[Len(entered') - Len(history') + j]
    BY <1>2, <1>3, <1>4, <2>1, <2>2
  <2>4. history' = SubSeq(entered', Len(entered') - Len(history') + 1, Len(entered'))
    BY <1>2, <1>4, <2>1, <2>2, <2>3, EndOf
  <2>5. Len(history') = IF Len(entered') < MAX_HISTORY THEN Len(entered') ELSE MAX_HISTORY
    BY <1>2, <1>4, <2>1, <2>2
  <2>6. QED
    BY <1>4, <2>2, <2>4, <2>5 DEF HistoryIsRecent
<1>6. CASE ~ (Len(history) < MAX_HISTORY)
  <2>1. /\ history' = Append(Tail(history), s) /\ Len(history) = MAX_HISTORY /\ ~ (Len(entered) < MAX_HISTORY)
    BY <1>1, <1>2, <1>6 DEF AddToHistory
  <2>2. /\ Tail(history) \in Seq(Strings) /\ Len(Tail(history)) = Len(history) - 1
        /\ \A j \in 1 .. Len(history) - 1 : Tail(history)[j] = history[j + 1]
    BY <1>1, <1>2, <2>1
  <2>3. /\ history' \in Seq(Strings) /\ Len(history') = Len(history) /\ history'[Len(history)] = s
        /\ \A j \in 1 .. Len(history) - 1 : history'[j] = Tail(history)[j]
    BY <1>2, <2>1, <2>2
  <2>4. ASSUME NEW j \in 1 .. Len(history')
        PROVE  history'[j] = entered'[Len(entered') - Len(history') + j]
    <3>1. CASE j = Len(history)
      BY <1>2, <1>4, <2>3, <3>1
    <3>2. CASE j # Len(history)
      <4>1. j \in 1 .. Len(history) - 1 /\ j + 1 \in 1 .. Len(history)
        BY <1>2, <2>3, <3>2
      <4>2. history'[j] = entered[Len(entered) - Len(history) + (j + 1)]
        BY <1>3, <2>2, <2>3, <4>1
      <4>3. /\ Len(entered) - Len(history) + (j + 1) \in 1 .. Len(entered)
            /\ Len(entered') - Len(history') + j = Len(entered) - Len(history) + (j + 1)
        BY <1>2, <1>4, <2>3, <4>1
      <4>4. QED
        BY <1>4, <4>2, <4>3
    <3>3. QED
      BY <3>1, <3>2
  <2>5. history' = SubSeq(entered', Len(entered') - Len(history') + 1, Len(entered'))
    <3>1. Len(history') <= Len(entered')
      BY <1>2, <1>4, <2>3
    <3>2. \A j \in 1 .. Len(history') : history'[j] = entered'[Len(entered') - Len(history') + j]
      BY <2>4
    <3>3. QED
      BY <1>4, <2>3, <3>1, <3>2, EndOf
  <2>6. Len(history') = IF Len(entered') < MAX_HISTORY THEN Len(entered') ELSE MAX_HISTORY
    BY <1>2, <1>4, <2>1, <2>3
  <2>7. QED
    BY <1>4, <2>3, <2>5, <2>6 DEF HistoryIsRecent
<1>7. QED
  BY <1>5, <1>6

(***************************************************************************)
(* nano.                                                                   *)
(***************************************************************************)
LEMMA NanoSizes ==
  /\ NANO_SIZE \in Nat /\ NANO_SIZE > 1
  /\ \A i : i \in NanoCell <=> i \in Nat /\ i < NANO_SIZE
BY ShellAssumption DEF NanoCell

\* Opened on an empty text with the position at the start, the editor holds
\* the empty text.
LEMMA OpenNanoKeeps ==
  ASSUME NanoInv, ~ nano_mode, OpenNano
  PROVE  NanoInv'
<1> DEFINE text == IF file = NoFile THEN << >> ELSE Clip(file, NANO_SIZE - 1)
<1>1. /\ nano_mode' = TRUE /\ nano_pos' = nano_pos /\ nano_result' = "none"
      /\ nano_buffer' = Copied(nano_buffer, text)
      /\ nano_typed' = IF text = << >> /\ nano_pos = 0 THEN << >> ELSE Untold
  BY DEF OpenNano
<1> HIDE DEF text
<1>2. nano_buffer = Blank(NanoCell) /\ nano_pos \in NanoCell
  BY DEF NanoInv
<1>3. nano_buffer' = [i \in NanoCell |->
                        IF i < Len(text) THEN text[i + 1] ELSE IF i = Len(text) THEN NUL ELSE NUL]
  BY <1>1, <1>2 DEF Copied, Blank
<1>4. ASSUME nano_typed' # Untold
      PROVE  NanoHolds'
  <2>1. text = << >> /\ nano_pos = 0 /\ nano_typed' = << >>
    BY <1>1, <1>4
  <2>2. Len(text) = 0 /\ nano_typed' \in Seq(Char) /\ Len(nano_typed') = 0
    BY <2>1
  <2>3. \A i \in NanoCell : ~ (i < 0)
    BY NanoSizes
  <2>4. \A i \in NanoCell : nano_buffer'[i] = NUL
    BY <1>3, <2>2, <2>3
  <2>5. QED
    BY <1>1, <2>1, <2>2, <2>3, <2>4 DEF NanoHolds
<1>5. QED
  BY <1>1, <1>2, <1>3, <1>4 DEF NanoInv

LEMMA NanoInsertKeeps ==
  ASSUME NanoInv, nano_mode, NEW ch, NanoInsert(ch)
  PROVE  NanoInv'
<1>1. nano_mode' = nano_mode /\ nano_result' = nano_result /\ ch \in Char
  BY DEF NanoInsert, Char, Newline
<1>2. CASE nano_pos < NANO_SIZE - 1
  <2>1. /\ nano_pos' = nano_pos + 1
        /\ nano_buffer' = [i \in NanoCell |->
             IF i = nano_pos THEN ch
             ELSE IF i = nano_pos + 1 /\ ch # Newline THEN NUL ELSE nano_buffer[i]]
        /\ nano_typed' = IF nano_typed # Untold THEN Append(nano_typed, ch) ELSE nano_typed
    BY <1>2 DEF NanoInsert
  <2>2. nano_pos \in Nat /\ nano_pos' \in NanoCell
    BY <1>2, <2>1, NanoSizes DEF NanoInv
  <2>3. ASSUME nano_typed' # Untold
        PROVE  NanoHolds'
    <3>1. NanoHolds /\ nano_typed' = Append(nano_typed, ch)
      BY <2>1, <2>3 DEF NanoInv
    <3>2. /\ nano_typed \in Seq(Char) /\ Len(nano_typed) = nano_pos
          /\ \A i \in NanoCell :
               nano_buffer[i] = IF i < nano_pos THEN nano_typed[i + 1] ELSE NUL
      BY <3>1 DEF NanoHolds
    <3>3. /\ nano_typed' \in Seq(Char) /\ Len(nano_typed') = nano_pos + 1
          /\ nano_typed'[nano_pos + 1] = ch
          /\ \A j \in 1 .. nano_pos : nano_typed'[j] = nano_typed[j]
      BY <1>1, <3>1, <3>2
    <3>4. ASSUME NEW i \in NanoCell
          PROVE  nano_buffer'[i] = IF i < nano_pos + 1 THEN nano_typed'[i + 1] ELSE NUL
      <4>1. i \in Nat
        BY NanoSizes
      <4>2. CASE i < nano_pos
        <5>1. i + 1 \in 1 .. nano_pos /\ i # nano_pos /\ i # nano_pos + 1 /\ i < nano_pos + 1
          BY <2>2, <4>1, <4>2
        <5>2. QED
          BY <2>1, <3>2, <3>3, <4>2, <5>1
      <4>3. CASE i = nano_pos
        <5>1. i < nano_pos + 1
          BY <2>2, <4>3
        <5>2. QED
          BY <2>1, <3>3, <4>3, <5>1
      <4>4. CASE nano_pos < i
        <5>1. ~ (i < nano_pos) /\ i # nano_pos /\ ~ (i < nano_pos + 1)
          BY <2>2, <4>1, <4>4
        <5>2. QED
          BY <2>1, <3>2, <5>1
      <4>5. QED
        BY <2>2, <4>1, <4>2, <4>3, <4>4
    <3>5. QED
      BY <2>1, <3>3, <3>4 DEF NanoHolds
  <2>4. nano_buffer' = [i \in NanoCell |-> nano_buffer'[i]]
    BY <2>1
  <2>5. QED
    BY <1>1, <2>2, <2>3, <2>4 DEF NanoInv
<1>3. CASE ~ (nano_pos < NANO_SIZE - 1)
  <2>1. /\ nano_pos' = nano_pos /\ nano_typed' = nano_typed
        /\ nano_buffer' = [i \in NanoCell |-> nano_buffer[i]]
    BY <1>3 DEF NanoInsert
  <2>2. nano_buffer' = nano_buffer
    BY <2>1 DEF NanoInv
  <2>3. QED
    BY <1>1, <2>1, <2>2 DEF NanoInv, NanoHolds
<1>4. QED
  BY <1>2, <1>3

LEMMA NanoEraseKeeps ==
  ASSUME NanoInv, nano_mode, NanoErase
  PROVE  NanoInv'
<1>1. nano_mode' = nano_mode /\ nano_result' = nano_result
  BY DEF NanoErase
<1>2. CASE nano_pos > 0
  <2>1. /\ nano_pos' = nano_pos - 1
        /\ nano_buffer' = [nano_buffer EXCEPT ![nano_pos - 1] = NUL]
        /\ nano_typed' = IF nano_typed = Untold THEN Untold ELSE Front(nano_typed)
    BY <1>2 DEF NanoErase
  <2>2. nano_pos \in Nat /\ nano_pos' \in NanoCell /\ nano_pos < NANO_SIZE /\ NANO_SIZE \in Nat
    BY <1>2, <2>1, NanoSizes DEF NanoInv
  <2>3. DOMAIN nano_buffer = NanoCell
    BY DEF NanoInv
  <2>4. nano_buffer' = [i \in NanoCell |-> IF i = nano_pos - 1 THEN NUL ELSE nano_buffer[i]]
    BY <2>1, <2>3
  <2>5. ASSUME nano_typed' # Untold
        PROVE  NanoHolds'
    <3>1. NanoHolds /\ nano_typed' = Front(nano_typed)
      BY <2>1, <2>5 DEF NanoInv
    <3>2. /\ nano_typed \in Seq(Char) /\ Len(nano_typed) = nano_pos
          /\ \A i \in NanoCell :
               nano_buffer[i] = IF i < nano_pos THEN nano_typed[i + 1] ELSE NUL
      BY <3>1 DEF NanoHolds
    <3>3. /\ nano_typed' \in Seq(Char) /\ Len(nano_typed') = nano_pos - 1
          /\ \A j \in 1 .. nano_pos - 1 : nano_typed'[j] = nano_typed[j]
      BY <1>2, <2>2, <3>1, <3>2 DEF Front
    <3>4. ASSUME NEW i \in NanoCell
          PROVE  nano_buffer'[i] = IF i < nano_pos - 1 THEN nano_typed'[i + 1] ELSE NUL
      <4>1. i \in Nat
        BY NanoSizes
      <4>2. CASE i < nano_pos - 1
        <5>1. i + 1 \in 1 .. nano_pos - 1 /\ i # nano_pos - 1 /\ i < nano_pos
          BY <2>2, <4>1, <4>2
        <5>2. QED
          BY <2>4, <3>2, <3>3, <4>2, <5>1
      <4>3. CASE i = nano_pos - 1
        <5>1. ~ (i < nano_pos - 1)
          BY <2>2, <4>3
        <5>2. QED
          BY <2>4, <4>3, <5>1
      <4>4. CASE nano_pos - 1 < i
        <5>1. ~ (i < nano_pos) /\ i # nano_pos - 1 /\ ~ (i < nano_pos - 1)
          BY <2>2, <4>1, <4>4
        <5>2. QED
          BY <2>4, <3>2, <5>1
      <4>5. QED
        BY <2>2, <4>1, <4>2, <4>3, <4>4
    <3>5. QED
      BY <2>1, <3>3, <3>4 DEF NanoHolds
  <2>6. nano_buffer' = [i \in NanoCell |-> nano_buffer'[i]]
    BY <2>4
  <2>7. QED
    BY <1>1, <2>2, <2>5, <2>6 DEF NanoInv
<1>3. CASE ~ (nano_pos > 0)
  BY <1>1, <1>3 DEF NanoErase, NanoInv, NanoHolds
<1>4. QED
  BY <1>2, <1>3

\* What the editor writes is the text typed in it, when that is known.
LEMMA SavedText ==
  ASSUME NanoInv, nano_mode, nano_typed # Untold
  PROVE  CStr(nano_buffer) = nano_typed
<1>1. /\ nano_typed \in Seq(Char) /\ Len(nano_typed) = nano_pos /\ nano_pos \in NanoCell
      /\ \A i \in NanoCell :
           nano_buffer[i] = IF i < nano_pos THEN nano_typed[i + 1] ELSE NUL
      /\ DOMAIN nano_buffer = NanoCell
  BY DEF NanoInv, NanoHolds
<1>2. nano_pos \in Nat /\ NanoCell \subseteq Nat
  BY <1>1, NanoSizes
<1>3. ASSUME NEW i \in 0 .. nano_pos - 1
      PROVE  i \in NanoCell /\ i < nano_pos /\ i + 1 \in 1 .. nano_pos
  BY <1>1, <1>2, NanoSizes
<1>4. \A i \in 0 .. nano_pos - 1 : nano_buffer[i] \in Char
  BY <1>1, <1>3
<1>5. nano_buffer[nano_pos] = NUL
  BY <1>1, <1>2
<1>6. StringOf(nano_buffer, nano_pos)
  BY <1>1, <1>3, <1>4, <1>5 DEF StringOf
<1>7. CStr(nano_buffer) = [i \in 1 .. nano_pos |-> nano_buffer[i - 1]]
  BY <1>1, <1>2, <1>6, CStrIs
<1>8. \A i \in 1 .. nano_pos : nano_buffer[i - 1] = nano_typed[i]
  <2>1. ASSUME NEW i \in 1 .. nano_pos
        PROVE  nano_buffer[i - 1] = nano_typed[i]
    <3>1. i - 1 \in 0 .. nano_pos - 1 /\ (i - 1) + 1 = i
      BY <1>2
    <3>2. QED
      BY <1>1, <1>3, <3>1
  <2>2. QED
    BY <2>1
<1>9. nano_typed = [i \in 1 .. nano_pos |-> nano_typed[i]]
  BY <1>1
<1>10. QED
  BY <1>7, <1>8, <1>9

(***************************************************************************)
(* The steps of the shell.                                                 *)
(***************************************************************************)
LEMMA InitInv ==
  Init => Inv
<1> SUFFICES ASSUME Init
             PROVE  Inv
  OBVIOUS
<1>1. LineInv
  <2>1. 0 \in LineCell
    BY ShellAssumption DEF LineCell
  <2>2. command_buffer \in [LineCell -> 0 .. 126] /\ command_buffer[0] = NUL /\ buffer_pos = 0
    BY <2>1 DEF Init, Blank, NUL
  <2>3. StringOf(command_buffer, 0)
    BY <2>1, <2>2 DEF StringOf
  <2>4. QED
    BY <2>1, <2>2, <2>3 DEF LineInv
<1>2. HistInv
  <2>1. history = << >> /\ entered = << >> /\ history_index = -1
    BY DEF Init
  <2>2. history \in Seq(Strings) /\ entered \in Seq(Strings) /\ Len(history) = 0 /\ Len(entered) = 0
    BY <2>1
  <2>3. history = SubSeq(entered, Len(entered) - Len(history) + 1, Len(entered))
    BY <2>2, EndOf
  <2>4. Len(history) = IF Len(entered) < MAX_HISTORY THEN Len(entered) ELSE MAX_HISTORY
    BY <2>2, ShellAssumption
  <2>5. QED
    BY <2>1, <2>2, <2>3, <2>4 DEF HistInv, HistoryIsRecent
<1>3. NanoInv
  <2>1. 0 \in NanoCell
    BY NanoSizes
  <2>2. QED
    BY <2>1 DEF Init, NanoInv, Blank
<1>4. QED
  BY <1>1, <1>2, <1>3 DEF Inv

LEMMA SameHist ==
  HistInv /\ UNCHANGED hist => HistInv'
BY DEF HistInv, HistoryIsRecent, hist

LEMMA SameNano ==
  NanoInv /\ UNCHANGED nano => NanoInv'
BY DEF NanoInv, NanoHolds, nano

LEMMA SameLine ==
  LineInv /\ UNCHANGED line => LineInv'
BY DEF LineInv, line

\* Up and Down show an entry of the history, or an empty line.
LEMMA RecallKeeps ==
  ASSUME Inv, Recall \/ RecallNewer
  PROVE  Inv'
<1> DEFINE Entry == {history[j] : j \in 1 .. Len(history)}
<1>1. history \in Seq(Strings) /\ Len(history) \in Nat /\ history_index \in -1 .. Len(history) - 1
  BY DEF Inv, HistInv
<1>2. ASSUME NEW j \in 1 .. Len(history)
      PROVE  history[j] \in Seq(Char)
  BY <1>1 DEF Strings
<1>3. << >> \in Seq(Char)
  OBVIOUS
<1>4. LineInv' /\ history_index' \in -1 .. Len(history) - 1 /\ UNCHANGED <<history, entered, nano>>
  <2>1. CASE Recall
    <3> DEFINE i == IF history_index < 0 THEN Len(history) - 1
                    ELSE IF history_index > 0 THEN history_index - 1 ELSE history_index
    <3>1. CASE Len(history) > 0
      <4>1. i + 1 \in 1 .. Len(history) /\ i \in -1 .. Len(history) - 1
        BY <1>1, <3>1
      <4>2. history_index' = i /\ ReplaceInput(history[i + 1]) /\ UNCHANGED <<history, entered, nano>>
        BY <2>1, <3>1 DEF Recall
      <4>3. QED
        BY <1>2, <4>1, <4>2, ReplaceInputKeeps DEF Inv
    <3>2. CASE ~ (Len(history) > 0)
      <4>1. UNCHANGED line /\ history_index' = history_index /\ UNCHANGED <<history, entered, nano>>
        BY <2>1, <3>2 DEF Recall
      <4>2. QED
        BY <1>1, <4>1, SameLine DEF Inv
    <3>3. QED
      BY <3>1, <3>2
  <2>2. CASE RecallNewer
    <3>1. UNCHANGED <<history, entered, nano>>
      BY <2>2 DEF RecallNewer
    <3>2. CASE history_index >= 0 /\ history_index < Len(history) - 1
      <4>1. history_index' = history_index + 1 /\ ReplaceInput(history[history_index + 2])
        BY <1>1, <2>2, <3>2 DEF RecallNewer
      <4>2. history_index + 2 \in 1 .. Len(history) /\ history_index + 1 \in -1 .. Len(history) - 1
        BY <1>1, <3>2
      <4>3. QED
        BY <1>2, <3>1, <4>1, <4>2, ReplaceInputKeeps DEF Inv
    <3>3. CASE history_index = Len(history) - 1
      <4>1. history_index' = -1 /\ ReplaceInput(<< >>)
        BY <1>1, <2>2, <3>3 DEF RecallNewer
      <4>2. -1 \in -1 .. Len(history) - 1
        BY <1>1
      <4>3. QED
        BY <1>3, <3>1, <4>1, <4>2, ReplaceInputKeeps DEF Inv
    <3>4. CASE /\ ~ (history_index >= 0 /\ history_index < Len(history) - 1)
               /\ history_index # Len(history) - 1
      <4>1. UNCHANGED line /\ history_index' = history_index
        BY <2>2, <3>4 DEF RecallNewer
      <4>2. QED
        BY <1>1, <3>1, <4>1, SameLine DEF Inv
    <3>5. QED
      BY <3>2, <3>3, <3>4
  <2>3. QED
    BY <2>1, <2>2
<1>5. HistInv'
  BY <1>4 DEF Inv, HistInv, HistoryIsRecent
<1>6. QED
  BY <1>4, <1>5, SameNano DEF Inv

\* Tab puts a command, or the string that was there, on the line.
LEMMA CompleteKeeps ==
  ASSUME Inv, Complete
  PROVE  Inv'
<1> DEFINE prefix == CStr(command_buffer)
           matches == IF \E i \in DOMAIN prefix : prefix[i] = Space THEN {}
                      ELSE {b \in Builtins : StartsWith(b, prefix)}
<1>1. UNCHANGED hist /\ UNCHANGED nano
  BY DEF Complete
<1>2. \/ Cardinality(matches) = 1 /\ ReplaceInput(CHOOSE b \in matches : TRUE)
      \/ ReplaceInput(prefix)
      \/ UNCHANGED line
  BY Zenon DEF Complete
<1>3. prefix \in Seq(Char)
  BY PrefixIs DEF Inv
<1>4. matches \subseteq Seq(Char)
  <2>1. ASSUME NEW b \in Builtins
        PROVE  b \in Seq(Char)
    <3>1. b \in Seq(33 .. 126)
      BY ShellAssumption
    <3>2. QED
      BY <3>1 DEF Char
  <2>2. QED
    BY <2>1
<1> HIDE DEF matches, prefix
<1>5. CASE Cardinality(matches) = 1 /\ ReplaceInput(CHOOSE b \in matches : TRUE)
  <2>1. matches # {}
    BY <1>5, FS_EmptySet
  <2>2. (CHOOSE b \in matches : TRUE) \in Seq(Char)
    BY <1>4, <2>1
  <2>3. LineInv'
    BY <1>5, <2>2, ReplaceInputKeeps DEF Inv
  <2>4. QED
    BY <1>1, <2>3, SameHist, SameNano DEF Inv
<1>6. CASE ReplaceInput(prefix)
  <2>1. LineInv'
    BY <1>3, <1>6, ReplaceInputKeeps DEF Inv
  <2>2. QED
    BY <1>1, <2>1, SameHist, SameNano DEF Inv
<1>7. CASE UNCHANGED line
  BY <1>1, <1>7, SameLine, SameHist, SameNano DEF Inv
<1>8. QED
  BY <1>2, <1>5, <1>6, <1>7

LEMMA EnterKeeps ==
  ASSUME Inv, ~ nano_mode, Enter
  PROVE  Inv'
<1> DEFINE b == [command_buffer EXCEPT ![buffer_pos] = NUL]
<1>1. LineInv /\ HistInv /\ NanoInv
  BY DEF Inv
<1>2. command_buffer' = b /\ buffer_pos' = 0 /\ history_index' = -1
  BY DEF Enter
<1>3. \A h \in Seq(Strings) : -1 \in -1 .. Len(h) - 1
  OBVIOUS
<1>4. CASE buffer_pos > 0
  <2>1. b = command_buffer /\ CStr(b) \in Strings
    BY <1>1, <1>4, EnteredIs
  <2>2. /\ history' = AddToHistory(CStr(b)) /\ entered' = Append(entered, CStr(b))
        /\ OpenNano \/ UNCHANGED nano
    BY <1>4 DEF Enter
  <2> HIDE DEF b
  <2>3. LineInv'
    <3>1. 0 \in LineCell
      BY ShellAssumption DEF LineCell
    <3>2. command_buffer' = command_buffer
      BY <1>2, <2>1
    <3>3. QED
      BY <1>1, <1>2, <3>1, <3>2 DEF LineInv
  <2>4. history' \in Seq(Strings) /\ entered' \in Seq(Strings) /\ HistoryIsRecent'
    BY <1>1, <2>1, <2>2, AddKeeps
  <2>5. HistInv'
    BY <1>2, <1>3, <2>4 DEF HistInv
  <2>6. NanoInv'
    BY <1>1, <2>2, OpenNanoKeeps, SameNano
  <2>7. QED
    BY <2>3, <2>5, <2>6 DEF Inv
<1>5. CASE ~ (buffer_pos > 0)
  <2>1. buffer_pos = 0
    BY <1>1, <1>5, ShellAssumption DEF LineInv, LineCell
  <2>2. LineInv'
    BY <1>1, <1>2, <2>1, EmptiedKeeps
  <2>3. history' = history /\ entered' = entered /\ UNCHANGED nano
    BY <1>5 DEF Enter
  <2>4. HistInv'
    <3>1. history \in Seq(Strings) /\ entered \in Seq(Strings) /\ HistoryIsRecent
      BY <1>1 DEF HistInv
    <3>2. HistoryIsRecent'
      BY <2>3, <3>1 DEF HistoryIsRecent
    <3>3. QED
      BY <1>2, <1>3, <2>3, <3>1, <3>2 DEF HistInv
  <2>5. QED
    BY <1>1, <2>2, <2>3, <2>4, SameNano DEF Inv
<1>6. QED
  BY <1>4, <1>5

\* Leaving the editor clears its buffer, whichever way it is left.
LEMMA LeaveNanoKeeps ==
  ASSUME NanoInv, nano_mode' = FALSE, nano_buffer' = Blank(NanoCell), nano_pos' \in NanoCell
  PROVE  NanoInv'
BY DEF NanoInv, Blank

LEMMA NanoInputKeeps ==
  ASSUME Inv, nano_mode, NEW ch, NanoInput(ch)
  PROVE  Inv'
<1>1. NanoInv /\ UNCHANGED line /\ UNCHANGED hist
  BY DEF Inv, NanoInput
<1>2. CASE NanoSave
  <2>1. 0 \in NanoCell
    BY NanoSizes
  <2>2. QED
    BY <1>1, <1>2, <2>1, LeaveNanoKeeps, SameLine, SameHist DEF Inv, NanoSave
<1>3. CASE NanoErase
  BY <1>1, <1>3, NanoEraseKeeps, SameLine, SameHist DEF Inv
<1>4. CASE NanoInsert(ch)
  BY <1>1, <1>4, NanoInsertKeeps, SameLine, SameHist DEF Inv
<1>5. CASE UNCHANGED nano
  BY <1>1, <1>5, SameNano, SameLine, SameHist DEF Inv
<1>6. NanoSave \/ NanoErase \/ NanoInsert(ch) \/ UNCHANGED nano
  BY DEF NanoInput
<1>7. QED
  BY <1>2, <1>3, <1>4, <1>5, <1>6

LEMMA CtrlCKeeps ==
  ASSUME Inv, CtrlC
  PROVE  Inv'
<1>1. UNCHANGED hist /\ nano_pos' = nano_pos /\ nano_result' = nano_result
  BY DEF CtrlC
<1>2. CASE nano_mode
  <2>1. nano_mode' = FALSE /\ nano_buffer' = Blank(NanoCell) /\ UNCHANGED line
    BY <1>2 DEF CtrlC
  <2>2. nano_pos' \in NanoCell
    BY <1>1 DEF Inv, NanoInv
  <2>3. QED
    BY <1>1, <2>1, <2>2, LeaveNanoKeeps, SameLine, SameHist DEF Inv
<1>3. CASE ~ nano_mode
  <2>1. /\ buffer_pos' = 0 /\ command_buffer' = [command_buffer EXCEPT ![0] = NUL]
        /\ UNCHANGED nano
    BY <1>1, <1>3 DEF CtrlC, nano
  <2>2. QED
    BY <1>1, <2>1, EmptiedKeeps, SameNano, SameHist DEF Inv
<1>4. QED
  BY <1>2, <1>3

LEMMA NextInv ==
  Inv /\ [Next]_vars => Inv'
<1> SUFFICES ASSUME Inv, [Next]_vars
             PROVE  Inv'
  OBVIOUS
<1>1. CASE CtrlC
  BY <1>1, CtrlCKeeps
<1>2. ASSUME NEW ch \in Input, nano_mode, NanoInput(ch)
      PROVE  Inv'
  BY <1>2, NanoInputKeeps
<1>3. CASE Recall \/ RecallNewer
  BY <1>3, RecallKeeps
<1>4. CASE ~ nano_mode /\ Enter
  BY <1>4, EnterKeeps
<1>5. CASE Erase
  BY <1>5, EraseKeeps, SameHist, SameNano DEF Inv, Erase
<1>6. CASE Complete
  BY <1>6, CompleteKeeps
<1>7. ASSUME NEW ch \in Input, Insert(ch)
      PROVE  Inv'
  BY <1>7, InsertKeeps, SameHist, SameNano DEF Inv, Insert
<1>8. CASE UNCHANGED vars
  BY <1>8, SameLine, SameHist, SameNano DEF Inv, vars
<1>9. QED
  BY <1>1, <1>2, <1>3, <1>4, <1>5, <1>6, <1>7, <1>8 DEF Next, HandleInput

LEMMA SpecInv ==
  Spec => []Inv
BY InitInv, NextInv, PTL DEF Spec

(***************************************************************************)
(* Theorems.                                                               *)
(***************************************************************************)
\* However the line was edited, recalled, completed or dropped, the string in
\* command_buffer is the one before the cursor: strcpy and strtok see what
\* the user sees.
THEOREM ShellLineEndsAtCursor ==
  Spec => []LineEndsAtCursor
<1>1. Inv => LineEndsAtCursor
  BY EnteredIs DEF Inv, LineEndsAtCursor
<1>2. QED
  BY SpecInv, <1>1, PTL

\* The history holds the last lines entered, in order, whatever its size and
\* however many lines were entered.
THEOREM ShellHistoryIsRecent ==
  Spec => []HistoryIsRecent
<1>1. Inv => HistoryIsRecent
  BY DEF Inv, HistInv
<1>2. QED
  BY SpecInv, <1>1, PTL

\* A step that leaves the editor with its file written has written the text
\* typed since it was opened empty.
THEOREM ShellNanoSavesTyped ==
  Spec => NanoSavesTyped
<1> DEFINE Saves == nano_mode /\ ~ nano_mode' /\ nano_result' = "written" /\ nano_typed # Untold
                      => file' = nano_typed
<1>1. Inv /\ [Next]_vars => [Saves]_vars
  <2> SUFFICES ASSUME Inv, [Next]_vars, nano_mode, ~ nano_mode', nano_result' = "written",
                      nano_typed # Untold
               PROVE  file' = nano_typed
    OBVIOUS
  <2>1. nano_result = "none"
    BY DEF Inv, NanoInv
  <2>2. CASE CtrlC
    BY <2>1, <2>2 DEF CtrlC
  <2>3. ASSUME NEW ch \in Input, NanoInput(ch)
        PROVE  file' = nano_typed
    <3>1. NanoSave
      BY <2>3 DEF NanoInput, NanoErase, NanoInsert, nano
    <3>2. file' = CStr(nano_buffer)
      BY <3>1 DEF NanoSave
    <3>3. QED
      BY <3>2, SavedText DEF Inv
  <2>4. CASE UNCHANGED vars
    BY <2>4 DEF vars, nano
  <2>5. QED
    BY <2>2, <2>3, <2>4 DEF Next, HandleInput
<1>2. QED
  BY SpecInv, <1>1, PTL DEF Spec, NanoSavesTyped

(***************************************************************************)
(* Scripts.  The table of variables and the stack are sequences of what    *)
(* they hold.                                                              *)
(***************************************************************************)
IsList(s) == s \in Seq(Range(s))

\* A nonempty set of naturals has a least element.
LEMMA LeastNat ==
  ASSUME NEW S \in SUBSET Nat, S # {}
  PROVE  \E m \in S : \A k \in S : m <= k
<1>1. IsWellFoundedOn({ss \in Nat \X Nat : ss[1] < ss[2]}, Nat)
  BY NatLessThanWellFounded, Zenon DEF OpToRel
<1>2. PICK m \in S : \A k \in S : <<k, m>> \notin {ss \in Nat \X Nat : ss[1] < ss[2]}
  BY <1>1, WFMin, Zenon
<1>3. \A k \in S : k \in Nat /\ m \in Nat /\ ~ (k < m)
  BY <1>2, Zenon
<1>4. QED
  BY <1>3

LEMMA MinIs ==
  ASSUME NEW S \in SUBSET Nat, S # {}
  PROVE  Min(S) \in S /\ \A k \in S : Min(S) <= k
BY LeastNat DEF Min

LEMMA ListIs ==
  ASSUME NEW s, IsList(s)
  PROVE  Len(s) \in Nat /\ DOMAIN s = 1 .. Len(s)
BY DEF IsList

\* nixlang_find_variable finds the first variable of the name.
FoundAt(vs, name, i) ==
  /\ i \in 1 .. Len(vs) /\ vs[i].name = name
  /\ \A j \in 1 .. Len(vs) : vs[j].name = name => i <= j

LEMMA FindIs ==
  ASSUME NEW vs, IsList(vs), NEW name
  PROVE  \/ Find(vs, name) = 0 /\ \A j \in 1 .. Len(vs) : vs[j].name # name
         \/ Find(vs, name) # 0 /\ FoundAt(vs, name, Find(vs, name))
<1> DEFINE I == {i \in 1 .. Len(vs) : vs[i].name = name}
<1>1. Len(vs) \in Nat /\ I \in SUBSET Nat
  BY ListIs
<1>2. Find(vs, name) = IF I # {} THEN Min(I) ELSE 0
  BY Zenon DEF Find, SelectInSeq
<1>3. CASE I = {}
  BY <1>2, <1>3
<1>4. CASE I # {}
  <2> HIDE DEF I
  <2>1. Min(I) \in I /\ \A k \in I : Min(I) <= k
    BY <1>1, <1>4, MinIs
  <2>2. Find(vs, name) = Min(I)
    BY <1>2, <1>4
  <2>3. QED
    BY <1>1, <2>1, <2>2 DEF I, FoundAt
<1>5. QED
  BY <1>3, <1>4

LEMMA FoundIs ==
  ASSUME NEW vs, IsList(vs), NEW name, NEW i, FoundAt(vs, name, i)
  PROVE  Find(vs, name) = i /\ i # 0
<1>1. i \in Nat /\ i # 0
  BY ListIs DEF FoundAt
<1>2. Find(vs, name) # 0 /\ FoundAt(vs, name, Find(vs, name))
  BY FindIs DEF FoundAt
<1>3. QED
  BY <1>1, <1>2, ListIs DEF FoundAt

LEMMA ListOf ==
  ASSUME NEW t, NEW R, t \in Seq(R)
  PROVE  IsList(t)
<1>1. t \in [1 .. Len(t) -> Range(t)] /\ Len(t) \in Nat
  BY DEF Range
<1>2. QED
  BY <1>1 DEF IsList

LEMMA AppendList ==
  ASSUME NEW s, IsList(s), NEW v
  PROVE  /\ IsList(Append(s, v)) /\ Len(Append(s, v)) = Len(s) + 1
         /\ Append(s, v)[Len(s) + 1] = v
         /\ \A i \in 1 .. Len(s) : Append(s, v)[i] = s[i]
<1> DEFINE R == Range(s) \cup {v}
           t == Append(s, v)
<1>1. s \in Seq(R) /\ v \in R /\ Len(s) \in Nat
  BY DEF IsList
<1> HIDE DEF R
<1>2. /\ t \in Seq(R) /\ Len(t) = Len(s) + 1 /\ t[Len(s) + 1] = v
      /\ \A i \in 1 .. Len(s) : t[i] = s[i]
  BY <1>1
<1> HIDE DEF t
<1>3. IsList(t)
  BY <1>2, ListOf, Zenon
<1>4. QED
  BY <1>2, <1>3 DEF t

\* t is the list s with v for its i-th.
Replaced(t, s, i, v) ==
  /\ IsList(t) /\ Len(t) = Len(s) /\ t[i] = v
  /\ \A j \in 1 .. Len(s) : j # i => t[j] = s[j]

LEMMA ExceptList ==
  ASSUME NEW s, IsList(s), NEW i \in 1 .. Len(s), NEW v, NEW t, t = [s EXCEPT ![i] = v]
  PROVE  Replaced(t, s, i, v)
<1> DEFINE R == Range(s) \cup {v}
<1>1. s \in Seq(R) /\ v \in R /\ Len(s) \in Nat
  BY DEF IsList
<1> HIDE DEF R
<1>2. /\ t \in Seq(R) /\ Len(t) = Len(s) /\ t[i] = v
      /\ \A j \in 1 .. Len(s) : j # i => t[j] = s[j]
  BY <1>1
<1>3. IsList(t)
  BY <1>2, ListOf, Zenon
<1>4. QED
  BY <1>2, <1>3 DEF Replaced

(***************************************************************************)
(* Variables.                                                              *)
(***************************************************************************)
\* The table vs gives each name of mt the value that mt has for it.
Tells(vs, mt) ==
  /\ IsList(vs)
  /\ \A n \in DOMAIN mt :
       Cut(n) = n =>
         LET i == Find(vs, n)
         IN  /\ i # 0 /\ vs[i].value = mt[n]
             /\ vs[i].number_value = ToInt(mt[n])

LEMMA StoreTells ==
  ASSUME NEW vs, NEW mt, Tells(vs, mt), NEW name, NEW value
  PROVE  /\ ~CanStore(vs, name) => Store(vs, name, value) = vs
         /\ CanStore(vs, name) => Tells(Store(vs, name, value), Meaning(mt, name, value))
         /\ Find(vs, name) # 0 =>
              /\ Find(Store(vs, name, value), name) = Find(vs, name)
              /\ Store(vs, name, value)[Find(vs, name)].value = value
<1> DEFINE i == Find(vs, name)
           v == [name |-> IF i = 0 THEN Cut(name) ELSE vs[i].name, value |-> value,
                 is_number |-> IsNumber(value), number_value |-> ToInt(value)]
           new == Store(vs, name, value)
           m == Meaning(mt, name, value)
<1>1. IsList(vs) /\ Len(vs) \in Nat
  BY ListIs DEF Tells
<1>2. new = IF i # 0 THEN [vs EXCEPT ![i] = v]
            ELSE IF Len(vs) < MAX_VARIABLES THEN Append(vs, v) ELSE vs
  BY Zenon DEF Store
<1>3. v.value = value /\ v.number_value = ToInt(value) /\ v.name = IF i = 0 THEN Cut(name) ELSE vs[i].name
  OBVIOUS
<1>4. /\ DOMAIN m = DOMAIN mt \cup {name} /\ m[name] = value
      /\ \A n \in DOMAIN mt : n # name => m[n] = mt[n]
  BY DEF Meaning
<1>5. \A n \in DOMAIN mt : Cut(n) = n =>
        /\ FoundAt(vs, n, Find(vs, n)) /\ vs[Find(vs, n)].value = mt[n]
        /\ vs[Find(vs, n)].number_value = ToInt(mt[n])
  BY <1>1, FindIs DEF Tells
<1> HIDE DEF v, m, new, i
<1>6. CASE i # 0
  <2>1. FoundAt(vs, name, i)
    BY <1>1, <1>6, FindIs DEF i
  <2>2. i \in 1 .. Len(vs) /\ vs[i].name = name
    BY <2>1 DEF FoundAt
  <2>3. new = [vs EXCEPT ![i] = v] /\ v.name = name
    BY <1>2, <1>3, <1>6, <2>2
  <2>4. /\ IsList(new) /\ Len(new) = Len(vs) /\ new[i] = v
        /\ \A j \in 1 .. Len(vs) : j # i => new[j] = vs[j]
    <3>1. Replaced(new, vs, i, v)
      BY <1>1, <2>2, <2>3, ExceptList, Zenon
    <3>2. QED
      BY <3>1 DEF Replaced
  <2>5. \A j \in 1 .. Len(vs) : new[j].name = vs[j].name
    BY <2>2, <2>3, <2>4
  <2>6. \A n, k : FoundAt(vs, n, k) => FoundAt(new, n, k)
    BY <2>4, <2>5 DEF FoundAt
  <2>7. \A n, k : FoundAt(vs, n, k) => Find(new, n) = k /\ k # 0
    BY <2>4, <2>6, FoundIs
  <2>8. Find(new, name) = i /\ new[i].value = value /\ new[i].number_value = ToInt(value)
    BY <1>3, <2>1, <2>4, <2>7
  <2>9. ASSUME NEW n \in DOMAIN m, Cut(n) = n
        PROVE  /\ Find(new, n) # 0 /\ new[Find(new, n)].value = m[n]
               /\ new[Find(new, n)].number_value = ToInt(m[n])
    <3>1. CASE n = name
      BY <1>4, <1>6, <2>8, <3>1
    <3>2. CASE n # name
      <4>1. n \in DOMAIN mt /\ m[n] = mt[n]
        BY <1>4, <3>2
      <4> DEFINE k == Find(vs, n)
      <4>2. FoundAt(vs, n, k) /\ vs[k].value = mt[n] /\ vs[k].number_value = ToInt(mt[n])
        BY <1>5, <2>9, <4>1
      <4> HIDE DEF k
      <4>3. k \in 1 .. Len(vs) /\ k # i
        BY <2>2, <3>2, <4>2 DEF FoundAt
      <4>4. Find(new, n) = k /\ k # 0 /\ new[k] = vs[k]
        BY <2>4, <2>7, <4>2, <4>3
      <4>5. QED
        BY <4>1, <4>2, <4>4
    <3>3. QED
      BY <3>1, <3>2
  <2>10. Tells(new, m)
    BY <2>4, <2>9 DEF Tells
  <2>11. QED
    BY <1>6, <2>8, <2>10 DEF CanStore, i, new, m
<1>7. CASE i = 0 /\ Len(vs) < MAX_VARIABLES
  <2>1. new = Append(vs, v) /\ v.name = Cut(name)
    BY <1>2, <1>3, <1>7
  <2>2. /\ IsList(new) /\ Len(new) = Len(vs) + 1 /\ new[Len(vs) + 1] = v
        /\ \A j \in 1 .. Len(vs) : new[j] = vs[j]
    BY <1>1, <2>1, AppendList
  <2>3. \A j \in 1 .. Len(vs) : vs[j].name # name
    BY <1>1, <1>7, FindIs DEF i, FoundAt
  <2>4. \A n, k : FoundAt(vs, n, k) => FoundAt(new, n, k)
    BY <1>1, <2>2 DEF FoundAt
  <2>5. \A n, k : FoundAt(vs, n, k) => Find(new, n) = k /\ k # 0
    BY <2>2, <2>4, FoundIs
  <2>6. ASSUME Cut(name) = name
        PROVE  Find(new, name) = Len(vs) + 1
    <3>1. FoundAt(new, name, Len(vs) + 1)
      BY <1>1, <2>1, <2>2, <2>3, <2>6 DEF FoundAt
    <3>2. QED
      BY <2>2, <3>1, FoundIs
  <2>7. ASSUME NEW n \in DOMAIN m, Cut(n) = n
        PROVE  /\ Find(new, n) # 0 /\ new[Find(new, n)].value = m[n]
               /\ new[Find(new, n)].number_value = ToInt(m[n])
    <3>1. CASE n = name
      <4>1. Find(new, n) = Len(vs) + 1
        BY <2>6, <2>7, <3>1
      <4>2. Find(new, n) # 0 /\ new[Find(new, n)] = v /\ m[n] = value
        BY <1>1, <1>4, <2>2, <3>1, <4>1
      <4>3. QED
        BY <1>3, <4>2
    <3>2. CASE n # name
      <4>1. n \in DOMAIN mt /\ m[n] = mt[n]
        BY <1>4, <3>2
      <4> DEFINE k == Find(vs, n)
      <4>2. FoundAt(vs, n, k) /\ vs[k].value = mt[n] /\ vs[k].number_value = ToInt(mt[n])
        BY <1>5, <2>7, <4>1
      <4> HIDE DEF k
      <4>3. Find(new, n) = k /\ k # 0 /\ new[k] = vs[k]
        BY <2>2, <2>5, <4>2 DEF FoundAt
      <4>4. QED
        BY <4>1, <4>2, <4>3
    <3>3. QED
      BY <3>1, <3>2
  <2>8. Tells(new, m)
    BY <2>2, <2>7 DEF Tells
  <2>9. QED
    BY <1>7, <2>8 DEF CanStore, i, new, m
<1>8. CASE i = 0 /\ ~ (Len(vs) < MAX_VARIABLES)
  BY <1>2, <1>8 DEF CanStore, i, new
<1>9. QED
  BY <1>6, <1>7, <1>8

LEMMA EmptyTells == Tells(<<>>, [n \in {} |-> <<>>])
<1>1. <<>> \in Seq({})
  OBVIOUS
<1>2. IsList(<<>>)
  BY <1>1, ListOf, Zenon
<1>3. QED
  BY <1>2 DEF Tells

LEMMA MeaningTwice ==
  ASSUME NEW mt, NEW name, NEW a, NEW b
  PROVE  Meaning(Meaning(mt, name, a), name, b) = Meaning(mt, name, b)
<1> DEFINE m == Meaning(mt, name, a)
<1>1. /\ DOMAIN m = DOMAIN mt \cup {name}
      /\ \A n \in DOMAIN mt : n # name => m[n] = mt[n]
  BY DEF Meaning
<1> HIDE DEF m
<1>2. Meaning(m, name, b) = Meaning(mt, name, b)
  BY <1>1 DEF Meaning
<1>3. QED
  BY <1>2 DEF m

\* A name that the table does not have may be forgotten.
LEMMA ForgetTells ==
  ASSUME NEW vs, NEW mt, NEW name, NEW a,
         Tells(vs, Meaning(mt, name, a)), Find(vs, name) = 0
  PROVE  Tells(vs, mt)
<1> DEFINE m == Meaning(mt, name, a)
<1>1. /\ DOMAIN m = DOMAIN mt \cup {name}
      /\ \A n \in DOMAIN mt : n # name => m[n] = mt[n]
  BY DEF Meaning
<1> HIDE DEF m
<1>2. Tells(vs, m)
  BY DEF m
<1>3. ASSUME NEW n \in DOMAIN mt, Cut(n) = n
      PROVE  /\ Find(vs, n) # 0 /\ vs[Find(vs, n)].value = mt[n]
             /\ vs[Find(vs, n)].number_value = ToInt(mt[n])
  <2>1. /\ Find(vs, n) # 0 /\ vs[Find(vs, n)].value = m[n]
        /\ vs[Find(vs, n)].number_value = ToInt(m[n])
    BY <1>1, <1>2, <1>3 DEF Tells
  <2>2. m[n] = mt[n]
    BY <1>1, <2>1
  <2>3. QED
    BY <2>1, <2>2
<1>4. QED
  BY <1>2, <1>3 DEF Tells

LEMMA AdjustedTells ==
  ASSUME NEW vs, NEW mt, Tells(vs, mt), NEW name, NEW delta, NEW new,
         new = Adjusted(vs, name, delta)
  PROVE  /\ Find(new, name) = 0 => Tells(new, mt)
         /\ Find(new, name) # 0 => Tells(new, Meaning(mt, name, new[Find(new, name)].value))
<1> DEFINE zero == <<"0">>
           made == IF Find(vs, name) = 0 THEN Store(vs, name, zero) ELSE vs
           text == ToText(made[Find(made, name)].number_value + delta)
<1>1. new = IF Find(made, name) = 0 THEN made ELSE Store(made, name, text)
  BY Zenon DEF Adjusted
<1>2. PICK m : /\ Tells(made, m) /\ (Find(made, name) = 0 => Tells(made, mt))
               /\ \A b : Meaning(m, name, b) = Meaning(mt, name, b)
  <2>1. CASE Find(vs, name) # 0
    <3>1. made = vs
      BY <2>1
    <3>2. WITNESS mt
    <3>3. QED
      BY <3>1
  <2>2. CASE Find(vs, name) = 0 /\ ~CanStore(vs, name)
    <3>1. made = vs
      BY <2>2, StoreTells, Zenon
    <3>2. WITNESS mt
    <3>3. QED
      BY <3>1
  <2>3. CASE Find(vs, name) = 0 /\ CanStore(vs, name)
    <3>1. made = Store(vs, name, zero)
      BY <2>3, Zenon
    <3>2. Tells(made, Meaning(mt, name, zero))
      BY <2>3, <3>1, StoreTells, Zenon
    <3> HIDE DEF made, zero
    <3>3. Find(made, name) = 0 => Tells(made, mt)
      BY <3>2, ForgetTells, Zenon
    <3>4. \A b : Meaning(Meaning(mt, name, zero), name, b) = Meaning(mt, name, b)
      BY MeaningTwice
    <3>5. WITNESS Meaning(mt, name, zero)
    <3>6. QED
      BY <3>2, <3>3, <3>4
  <2>4. QED
    BY <2>1, <2>2, <2>3, Zenon
<1> HIDE DEF made, text
<1>3. CASE Find(made, name) = 0
  BY <1>1, <1>2, <1>3
<1>4. CASE Find(made, name) # 0
  <2>1. CanStore(made, name)
    BY <1>4 DEF CanStore
  <2>2. new = Store(made, name, text)
    BY <1>1, <1>4, Zenon
  <2>3. /\ Tells(new, Meaning(m, name, text))
        /\ Find(new, name) = Find(made, name) /\ new[Find(made, name)].value = text
    <3>1. Tells(made, m)
      BY <1>2
    <3>2. /\ Tells(Store(made, name, text), Meaning(m, name, text))
          /\ Find(Store(made, name, text), name) = Find(made, name)
          /\ Store(made, name, text)[Find(made, name)].value = text
      BY <1>4, <2>1, <3>1, StoreTells
    <3>3. QED
      BY <2>2, <3>2, Zenon
  <2>4. Tells(new, Meaning(mt, name, text))
    BY <1>2, <2>3, Zenon
  <2>5. QED
    BY <1>4, <2>3, <2>4, Zenon
<1>5. QED
  BY <1>3, <1>4

LEMMA StoreBothTells ==
  ASSUME NEW name, NEW value, Tells(variables, meant), StoreBoth(name, value)
  PROVE  Tells(variables', meant')
<1>1. CASE CanStore(variables, name)
  <2>1. /\ variables' = Store(variables, name, value)
        /\ meant' = Meaning(meant, name, value)
    BY <1>1, Zenon DEF StoreBoth
  <2>2. Tells(Store(variables, name, value), Meaning(meant, name, value))
    BY <1>1, StoreTells, Zenon
  <2>3. QED
    BY <2>1, <2>2, Zenon
<1>2. CASE ~CanStore(variables, name)
  <2>1. variables' = Store(variables, name, value) /\ meant' = meant
    BY <1>2, Zenon DEF StoreBoth
  <2>2. Store(variables, name, value) = variables
    BY <1>2, StoreTells, Zenon
  <2>3. QED
    BY <2>1, <2>2, Zenon
<1>3. QED
  BY <1>1, <1>2

LEMMA TellsStep ==
  ASSUME Tells(variables, meant), [ScriptNext]_script
  PROVE  Tells(variables', meant')
<1>1. ASSUME NEW text, NEW under, ExecuteCode(text, under)
      PROVE  Tells(variables', meant')
  BY <1>1, EmptyTells DEF ExecuteCode
<1>2. CASE \E cmd \in {"nixlang", "run"}, f \in DOMAIN Files : Start(cmd, f)
  BY <1>1, <1>2 DEF Start, RunScript
<1>3. CASE Nested
  BY <1>1, <1>3 DEF Nested, RunScript
<1>4. CASE Assign
  BY <1>4, StoreBothTells, Zenon DEF Assign
<1>5. CASE Set
  BY <1>5, StoreBothTells, Zenon DEF Set
<1>6. CASE AddSub
  <2>1. PICK name, delta :
          /\ variables' = Adjusted(variables, name, delta)
          /\ meant' = IF Find(variables', name) = 0 THEN meant
                      ELSE Meaning(meant, name, variables'[Find(variables', name)].value)
    <3> DEFINE name == <<Args(NextLine)[2]>>
               n == ToInt(Resolve(variables, <<Args(NextLine)[3]>>))
               delta == IF Args(NextLine)[1] = "sub" THEN -n ELSE n
    <3>1. variables' = Adjusted(variables, name, delta)
      BY <1>6, Zenon DEF AddSub
    <3>2. meant' = IF Find(variables', name) = 0 THEN meant
                   ELSE Meaning(meant, name, variables'[Find(variables', name)].value)
      BY <1>6, Zenon DEF AddSub
    <3> HIDE DEF name, delta
    <3>3. QED
      BY <3>1, <3>2, Zenon
  <2>2. /\ Find(variables', name) = 0 => Tells(variables', meant)
        /\ Find(variables', name) # 0 =>
             Tells(variables', Meaning(meant, name, variables'[Find(variables', name)].value))
    BY <2>1, AdjustedTells, Zenon
  <2>3. QED
    BY <2>1, <2>2, Zenon
<1>7. CASE Skip \/ Other \/ Return \/ UNCHANGED script
  BY <1>7 DEF Skip, Other, Return, script
<1>8. QED
  BY <1>2, <1>3, <1>4, <1>5, <1>6, <1>7 DEF ScriptNext

\* A variable has the value stored last under its name: nixlang_set_variable finds
\* the variable of that name or makes one, and touches no other.
THEOREM ScriptLastStoredWins == ScriptSpec => []LastStoredWins
<1>1. ScriptInit => Tells(variables, meant)
  BY EmptyTells, Zenon DEF ScriptInit
<1>2. Tells(variables, meant) /\ [ScriptNext]_script => Tells(variables, meant)'
  BY TellsStep
<1>3. Tells(variables, meant) => LastStoredWins
  BY Zenon DEF Tells, LastStoredWins
<1>4. QED
  BY <1>1, <1>2, <1>3, PTL DEF ScriptSpec

(***************************************************************************)
(* Texts and the scripts that read them.                                   *)
(***************************************************************************)
Text == Seq(Seq(STRING))

IsText(t) == t \in Text /\ \A i \in 1 .. Len(t) - 1 : t[i] # Eol

Plain(l) == IsComment(l) \/ IsAssignment(l)

Frame == [text : Text, done : Nat]

ReadToCommand(fr) == fr.done = FirstCommand(fr.text)

\* The script fr has run done plain lines, and la.rest are its others.
Reading(fr, la) ==
  /\ la.at # 0 /\ Len(la.rest) = Len(fr.text) - fr.done
  /\ \A i \in 1 .. Len(la.rest) : la.rest[i] = fr.text[fr.done + i]
  /\ \A i \in 1 .. fr.done : Plain(fr.text[i]) /\ fr.text[i] # Eol

\* The script fr is through with its lines: strtok has none of them left.
Through(fr, la) ==
  ReadToCommand(fr) /\ (la = Null \/ la.rest = <<>> \/ la.rest = <<Eol>>)

\* Every script of the stack st has run its lines up to the first command.
Settled(st) ==
  /\ st \in Seq(Frame)
  /\ \A k \in 1 .. Len(st) : IsText(st[k].text) /\ ReadToCommand(st[k])

\* So have all but the last, which may be reading.
Stacked(st, la) ==
  /\ st \in Seq(Frame)
  /\ \A k \in 1 .. Len(st) : IsText(st[k].text)
  /\ \A k \in 1 .. Len(st) - 1 : ReadToCommand(st[k])
  /\ st # <<>> => Reading(st[Len(st)], la) \/ Through(st[Len(st)], la)

ScriptInv ==
  /\ low \in {<<>>, <<Junk>>}
  /\ last \in [at : Nat, rest : Text]
  /\ Stacked(stack, last)
  /\ ReadToCommand(ended)

LEMMA LinesIs ==
  ASSUME NEW t, IsText(t)
  PROVE  /\ Len(t) \in Nat /\ Len(Lines(t)) \in Nat
         /\ t # <<>> /\ t[Len(t)] = Eol => Len(Lines(t)) = Len(t) - 1
         /\ t = <<>> \/ t[Len(t)] # Eol => Len(Lines(t)) = Len(t)
         /\ \A i \in 1 .. Len(Lines(t)) : Lines(t)[i] = t[i]
<1>1. t \in Seq(Seq(STRING)) /\ Len(t) \in Nat
  BY DEF IsText, Text
<1>2. Lines(t) = IF t # <<>> /\ t[Len(t)] = Eol THEN SubSeq(t, 1, Len(t) - 1) ELSE t
  BY Zenon DEF Lines, Last, Front
<1>3. CASE t # <<>> /\ t[Len(t)] = Eol
  <2>1. Len(t) - 1 \in Nat
    BY <1>1, <1>3
  <2>2. /\ Len(SubSeq(t, 1, Len(t) - 1)) = Len(t) - 1
        /\ \A i \in 1 .. Len(t) - 1 : SubSeq(t, 1, Len(t) - 1)[i] = t[i]
    <3> DEFINE n == Len(t) - 1
    <3>1. n \in Nat /\ \A i \in 1 .. n : i \in 1 .. Len(t)
      BY <1>1, <2>1
    <3> HIDE DEF n
    <3>2. \A i \in 1 .. n : t[i] \in Seq(STRING)
      BY <1>1, <3>1
    <3>3. /\ Len(SubSeq(t, 1, n)) = IF 1 <= n THEN n - 1 + 1 ELSE 0
          /\ \A i \in 1 .. n - 1 + 1 : SubSeq(t, 1, n)[i] = t[1 + i - 1]
      BY <3>1, <3>2, SubSeqProperties
    <3>4. Len(SubSeq(t, 1, n)) = n /\ \A i \in 1 .. n : SubSeq(t, 1, n)[i] = t[i]
      BY <3>1, <3>3
    <3>5. QED
      BY <3>4 DEF n
  <2>3. QED
    BY <1>1, <1>2, <1>3, <2>1, <2>2
<1>4. CASE ~ (t # <<>> /\ t[Len(t)] = Eol)
  BY <1>1, <1>2, <1>4
<1>5. QED
  BY <1>3, <1>4

\* The first command of a text whose first d lines are plain.
LEMMA FirstCommandIs ==
  ASSUME NEW t, IsText(t), NEW d \in Nat, d <= Len(t),
         \A i \in 1 .. d : Plain(t[i]) /\ t[i] # Eol
  PROVE  /\ d = Len(t) => FirstCommand(t) = d
         /\ d < Len(t) /\ t[d + 1] = Eol => FirstCommand(t) = d /\ Len(t) = d + 1
         /\ d < Len(t) /\ t[d + 1] # Eol /\ ~Plain(t[d + 1]) => FirstCommand(t) = d + 1
<1> DEFINE L == Lines(t)
           I == {i \in 1 .. Len(L) : ~IsComment(L[i]) /\ ~IsAssignment(L[i])}
<1>1. FirstCommand(t) = IF I # {} THEN Min(I) ELSE Len(L)
  <2>1. SelectInSeq(L, LAMBDA l : ~IsComment(l) /\ ~IsAssignment(l))
          = IF I # {} THEN Min(I) ELSE 0
    BY Zenon DEF SelectInSeq
  <2>2. I # {} => Min(I) # 0
    <3>1. Len(L) \in Nat
      BY LinesIs
    <3>2. I \in SUBSET Nat /\ 0 \notin I
      BY <3>1
    <3> HIDE DEF I
    <3>3. QED
      BY <3>2, MinIs
  <2>3. QED
    BY <2>1, <2>2, Zenon DEF FirstCommand
<1>2. /\ Len(t) \in Nat /\ Len(L) \in Nat /\ t \in Text
      /\ t # <<>> /\ t[Len(t)] = Eol => Len(L) = Len(t) - 1
      /\ t = <<>> \/ t[Len(t)] # Eol => Len(L) = Len(t)
      /\ \A i \in 1 .. Len(L) : L[i] = t[i]
  BY LinesIs DEF IsText
<1> HIDE DEF L
<1>3. I = {i \in 1 .. Len(L) : ~Plain(t[i])}
  BY <1>2 DEF Plain
<1> HIDE DEF I
<1>4. t = <<>> <=> Len(t) = 0
  BY <1>2 DEF Text
<1>5. \A i \in I : d < i
  BY <1>2, <1>3
<1>6. CASE d = Len(t)
  <2>1. Len(L) = d
    BY <1>2, <1>4, <1>6
  <2>2. I = {}
    BY <1>3, <1>5, <2>1
  <2>3. QED
    BY <1>1, <1>6, <2>1, <2>2
<1>7. CASE d < Len(t) /\ t[d + 1] = Eol
  <2>1. Len(t) = d + 1
    BY <1>2, <1>7 DEF IsText
  <2>2. Len(L) = d
    BY <1>2, <1>4, <1>7, <2>1
  <2>3. I = {}
    BY <1>3, <1>5, <2>2
  <2>4. QED
    BY <1>1, <1>7, <2>1, <2>2, <2>3
<1>8. CASE d < Len(t) /\ t[d + 1] # Eol /\ ~Plain(t[d + 1])
  <2>1. d + 1 <= Len(L)
    BY <1>2, <1>4, <1>8
  <2>2. d + 1 \in I
    BY <1>2, <1>3, <1>8, <2>1
  <2>3. I \in SUBSET Nat /\ I # {}
    BY <1>2, <1>3, <2>2
  <2>4. Min(I) \in I /\ Min(I) <= d + 1
    BY <2>2, <2>3, MinIs
  <2>5. Min(I) = d + 1
    <3>1. \A m \in I : m <= d + 1 => m = d + 1
      BY <1>5, <2>3
    <3>2. QED
      BY <2>4, <3>1, Zenon
  <2>6. QED
    BY <1>1, <1>8, <2>3, <2>5
<1>9. QED
  BY <1>6, <1>7, <1>8

\* What lies at address 0 is no line that a script can skip.
LEMMA JunkIsCommand == ~Plain(Junk) /\ Call(Junk)[1] = "none"
<1>1. ~IsComment(Junk)
  BY HashedAssumption DEF IsComment, Junk
<1>2. EqualsAt(Junk) = 0
  <2> DEFINE I == {i \in 1 .. Len(Junk) : Junk[i] \in {"=", "=="}}
  <2>1. EqualsAt(Junk) = IF I # {} THEN Min(I) ELSE 0
    BY Zenon DEF EqualsAt, SelectInSeq
  <2>2. I = {}
    BY DEF Junk
  <2>3. QED
    BY <2>1, <2>2
<1>3. Call(Junk) = <<"none", "none">>
  <2>1. Junk[1] # "exec" /\ Junk[1] # "shell"
    BY DEF Junk
  <2>2. QED
    BY <2>1, Zenon DEF Call
<1>4. QED
  BY <1>1, <1>2, <1>3 DEF Plain, IsAssignment

LEMMA BinaryHasMagic ==
  ASSUME NEW f \in DOMAIN Files, IsBinary(f)
  PROVE  Files[f] # <<>>
<1> DEFINE s == Files[f]
           t == <<Magic>>
           Ends(i) == /\ \A j \in 1 .. i - 1 : At(s, j) = At(t, j) /\ At(s, j) # Empty
                      /\ i = 1 + 1 \/ At(s, i) # At(t, i) \/ At(s, i) = Empty
<1> SUFFICES ASSUME s = <<>>
             PROVE  FALSE
  OBVIOUS
<1>1. At(s, 1) = Empty /\ At(t, 1) # Empty
  <2>1. At(s, 1) = Empty
    BY DEF At
  <2>2. At(t, 1) = Magic /\ Magic # Empty
    BY DEF At, Magic, Empty
  <2>3. QED
    BY <2>1, <2>2
<1>2. PICK k : k = (CHOOSE i \in 1 .. 1 + 1 : Ends(i)) /\ At(s, k) = At(t, k)
  BY Zenon DEF IsBinary, StrncmpIsZero
<1> HIDE DEF s, t
<1>3. 1 \in 1 .. 1 + 1 /\ Ends(1)
  BY <1>1
<1>4. k \in 1 .. 1 + 1 /\ Ends(k)
  BY <1>2, <1>3, Zenon
<1>5. k = 1
  BY <1>1, <1>4
<1>6. QED
  BY <1>1, <1>2, <1>5

\* What strtok finds for a script: its next line, or what lies at address 0.
LEMMA NextIs ==
  ASSUME ScriptInv, stack # <<>>
  PROVE  /\ Top \in Nat \ {0} /\ stack[Top] \in Frame
         /\ Reading(stack[Top], last) => last # Null /\ Rest = last.rest
         /\ Through(stack[Top], last) /\ HasLine => last = Null /\ NextLine = Junk
<1>1. Top \in Nat \ {0} /\ stack[Top] \in Frame
  BY DEF ScriptInv, Stacked, Top
<1>2. ASSUME Reading(stack[Top], last)
      PROVE  last # Null /\ Rest = last.rest
  <2>1. last # Null
    BY <1>2 DEF Reading, Null
  <2>2. QED
    BY <2>1 DEF Rest
<1>3. ASSUME Through(stack[Top], last), HasLine
      PROVE  last = Null /\ NextLine = Junk
  <2>1. CASE last # Null
    <3>1. Rest = <<>> \/ Rest = <<Eol>>
      BY <1>3, <2>1 DEF Through, Rest
    <3>2. <<Eol>>[1] = Eol
      OBVIOUS
    <3>3. QED
      BY <1>3, <3>1, <3>2 DEF HasLine
  <2>2. CASE last = Null
    <3>1. Rest = low
      BY <2>2 DEF Rest
    <3>2. low = <<Junk>>
      BY <1>3, <3>1 DEF ScriptInv, HasLine
    <3>3. QED
      BY <2>2, <3>1, <3>2 DEF NextLine
  <2>3. QED
    BY <2>1, <2>2
<1>4. QED
  BY <1>1, <1>2, <1>3

\* A script that reads and has a line: the line is the next one of its text.
LEMMA ReadingNext ==
  ASSUME ScriptInv, TakeLine, Reading(stack[Top], last), NEW fr, fr = stack[Top]
  PROVE  /\ fr.done \in Nat /\ fr.done < Len(fr.text) /\ IsText(fr.text)
         /\ fr.text[fr.done + 1] = NextLine /\ NextLine # Eol
         /\ Rest = last.rest /\ Len(Rest) = Len(fr.text) - fr.done
<1>1. /\ stack # <<>> /\ Rest # <<>> /\ Rest[1] # Eol
  BY DEF TakeLine, HasLine
<1>2. Top \in Nat \ {0} /\ fr \in Frame /\ Rest = last.rest
  BY <1>1, NextIs
<1>3. fr.done \in Nat /\ IsText(fr.text) /\ last.rest \in Text
  BY <1>2 DEF Frame, ScriptInv, Stacked, Top
<1>4. Len(fr.text) \in Nat
  BY <1>3 DEF IsText, Text
<1>5. Len(Rest) \in Nat \ {0}
  BY <1>1, <1>2, <1>3 DEF Text
<1>6. /\ Len(Rest) = Len(fr.text) - fr.done
      /\ \A i \in 1 .. Len(Rest) : Rest[i] = fr.text[fr.done + i]
  BY <1>2 DEF Reading
<1>7. Rest[1] = fr.text[fr.done + 1] /\ fr.done < Len(fr.text)
  BY <1>3, <1>4, <1>5, <1>6
<1>8. QED
  BY <1>1, <1>2, <1>3, <1>6, <1>7 DEF NextLine

\* Taking a line counts it, in the script that runs only.
LEMMA TakenIs ==
  ASSUME ScriptInv, stack # <<>>, last # Null
  PROVE  /\ Taken \in Seq(Frame) /\ Len(Taken) = Top
         /\ \A k \in 1 .. Top - 1 : Taken[k] = stack[k]
         /\ Taken[Top].text = stack[Top].text /\ Taken[Top].done = stack[Top].done + 1
<1> DEFINE v == [stack[Top] EXCEPT !.done = stack[Top].done + 1]
<1>1. stack \in Seq(Frame) /\ Top \in Nat \ {0} /\ Top \in 1 .. Len(stack) /\ stack[Top] \in Frame
  BY NextIs DEF ScriptInv, Stacked, Top
<1>2. v \in Frame /\ v.text = stack[Top].text /\ v.done = stack[Top].done + 1
  BY <1>1 DEF Frame
<1>3. Taken = [stack EXCEPT ![Top] = v]
  BY Zenon DEF Taken
<1> HIDE DEF v
<1>4. /\ Taken \in Seq(Frame) /\ Len(Taken) = Len(stack) /\ Taken[Top] = v
      /\ \A k \in 1 .. Len(stack) : k # Top => Taken[k] = stack[k]
  BY <1>1, <1>2, <1>3
<1>5. QED
  BY <1>1, <1>2, <1>4 DEF Top

\* The line taken is a command: the script has run up to it.
LEMMA CommandTaken ==
  ASSUME ScriptInv, IsCommand
  PROVE  Settled(Taken)
<1>1. stack # <<>> /\ HasLine /\ TakeLine /\ ~Plain(NextLine)
  BY DEF IsCommand, TakeLine, Plain
<1>2. /\ Top \in Nat \ {0} /\ stack \in Seq(Frame) /\ Top = Len(stack)
      /\ \A k \in 1 .. Top : IsText(stack[k].text)
      /\ \A k \in 1 .. Top - 1 : ReadToCommand(stack[k])
      /\ Reading(stack[Top], last) \/ Through(stack[Top], last)
  BY <1>1, NextIs DEF ScriptInv, Stacked, Top
<1>3. CASE Through(stack[Top], last)
  <2>1. Taken = stack
    BY <1>1, <1>3, NextIs DEF Taken
  <2>2. ReadToCommand(stack[Top])
    BY <1>3 DEF Through
  <2>3. \A k \in 1 .. Len(stack) : IsText(stack[k].text) /\ ReadToCommand(stack[k])
    BY <1>2, <2>2
  <2>4. QED
    BY <1>2, <2>1, <2>3 DEF Settled
<1>4. CASE Reading(stack[Top], last)
  <2> DEFINE fr == stack[Top]
             t == fr.text
  <2>1. /\ fr.done \in Nat /\ fr.done < Len(t) /\ IsText(t)
        /\ t[fr.done + 1] = NextLine /\ NextLine # Eol
    BY <1>1, <1>4, ReadingNext
  <2>2. \A i \in 1 .. fr.done : Plain(t[i]) /\ t[i] # Eol
    BY <1>4 DEF Reading
  <2>3. FirstCommand(t) = fr.done + 1
    <3> HIDE DEF fr
    <3>1. Len(t) \in Nat
      BY <2>1 DEF IsText, Text
    <3>2. fr.done <= Len(t)
      BY <2>1, <3>1
    <3>3. QED
      BY <1>1, <2>1, <2>2, <3>2, FirstCommandIs
  <2>4. last # Null
    BY <1>1, <1>4, NextIs
  <2>5. /\ Taken \in Seq(Frame) /\ Len(Taken) = Top
        /\ \A k \in 1 .. Top - 1 : Taken[k] = stack[k]
        /\ Taken[Top].text = t /\ Taken[Top].done = fr.done + 1
    BY <1>1, <2>4, TakenIs
  <2>6. IsText(Taken[Top].text) /\ ReadToCommand(Taken[Top])
    BY <2>1, <2>3, <2>5, Zenon DEF ReadToCommand
  <2>7. \A k \in 1 .. Top - 1 : IsText(Taken[k].text) /\ ReadToCommand(Taken[k])
    BY <1>2, <2>5
  <2>8. \A k \in 1 .. Len(Taken) : IsText(Taken[k].text) /\ ReadToCommand(Taken[k])
    BY <1>2, <2>5, <2>6, <2>7
  <2>9. QED
    BY <2>5, <2>8 DEF Settled
<1>5. QED
  BY <1>2, <1>3, <1>4

\* The line taken is skipped or assigns: the script reads on, or has none left.
LEMMA PlainTaken ==
  ASSUME ScriptInv, TakeLine, Plain(NextLine), NEW la, la = AfterToken(Rest)
  PROVE  la \in [at : Nat, rest : Text] /\ Stacked(Taken, la)
<1>1. stack # <<>> /\ HasLine
  BY DEF TakeLine
<1>2. /\ Top \in Nat \ {0} /\ stack \in Seq(Frame) /\ Top = Len(stack)
      /\ \A k \in 1 .. Top : IsText(stack[k].text)
      /\ \A k \in 1 .. Top - 1 : ReadToCommand(stack[k])
      /\ Reading(stack[Top], last)
  BY <1>1, NextIs, JunkIsCommand DEF ScriptInv, Stacked, Top
<1> DEFINE fr == stack[Top]
           t == fr.text
           d == fr.done
<1>3. /\ d \in Nat /\ d < Len(t) /\ IsText(t)
      /\ t[d + 1] = NextLine /\ NextLine # Eol
      /\ Rest = last.rest /\ Len(Rest) = Len(t) - d
  BY <1>1, <1>2, ReadingNext
<1>4. /\ last.at # 0 /\ \A i \in 1 .. Len(Rest) : Rest[i] = t[d + i]
      /\ \A i \in 1 .. d : Plain(t[i]) /\ t[i] # Eol
  BY <1>2, <1>3 DEF Reading
<1>5. /\ Taken \in Seq(Frame) /\ Len(Taken) = Top
      /\ \A k \in 1 .. Top - 1 : Taken[k] = stack[k]
      /\ Taken[Top].text = t /\ Taken[Top].done = d + 1
  BY <1>1, <1>2, NextIs, TakenIs
<1>6. last \in [at : Nat, rest : Text] /\ Rest \in Text
  BY <1>3 DEF ScriptInv
<1>7. d \in Nat /\ Len(t) \in Nat /\ Len(Rest) \in Nat
      /\ Len(Rest) = Len(t) - d /\ Len(t) = d + Len(Rest)
  <2>1. d \in Nat /\ Len(t) \in Nat /\ Len(Rest) \in Nat
    BY <1>3, <1>6 DEF IsText, Text
  <2> HIDE DEF fr, t, d
  <2>2. QED
    BY <1>3, <2>1
<1> HIDE DEF fr, t, d
<1>8. \A i \in 1 .. d + 1 : Plain(t[i]) /\ t[i] # Eol
  BY <1>3, <1>4
<1>9. la \in [at : Nat, rest : Text] /\ (Reading(Taken[Top], la) \/ Through(Taken[Top], la))
  <2>1. CASE Len(Rest) = 1
    <3>1. la = Null
      BY <2>1 DEF AfterToken
    <3>2. Null \in [at : Nat, rest : Text]
      BY DEF Null, Text
    <3>3. d + 1 \in Nat /\ d + 1 = Len(t)
      BY <1>7, <2>1
    <3>4. FirstCommand(t) = d + 1
      BY <1>3, <1>8, <3>3, FirstCommandIs
    <3>5. QED
      BY <1>5, <3>1, <3>2, <3>4 DEF Through, ReadToCommand
  <2>2. CASE Len(Rest) # 1
    <3>1. la = [last EXCEPT !.rest = Tail(Rest)]
      BY <2>2, Zenon DEF AfterToken
    <3>2. Rest # <<>>
      BY <1>1 DEF HasLine
    <3>3. /\ Tail(Rest) \in Text /\ Len(Tail(Rest)) = Len(Rest) - 1
          /\ \A i \in 1 .. Len(Tail(Rest)) : Tail(Rest)[i] = Rest[i + 1]
      BY <1>6, <3>2, HeadTailProperties DEF Text
    <3>4. la \in [at : Nat, rest : Text] /\ la.at = last.at /\ la.rest = Tail(Rest)
      BY <1>6, <3>1, <3>3
    <3>5. Len(la.rest) = Len(t) - (d + 1) /\ Len(la.rest) = Len(Rest) - 1
      BY <1>7, <3>3, <3>4
    <3>6. \A i \in 1 .. Len(la.rest) : la.rest[i] = t[(d + 1) + i]
      <4> SUFFICES ASSUME NEW i \in 1 .. Len(la.rest)
                   PROVE  la.rest[i] = t[(d + 1) + i]
        OBVIOUS
      <4>1. la.rest[i] = Rest[i + 1] /\ i + 1 \in 1 .. Len(Rest)
        BY <1>7, <3>3, <3>4, <3>5
      <4>2. Rest[i + 1] = t[d + (i + 1)]
        BY <1>4, <4>1, Zenon
      <4>3. i \in Nat
        BY <1>7, <3>5
      <4>4. d + (i + 1) = (d + 1) + i
        BY <1>7, <4>3
      <4>5. QED
        BY <4>1, <4>2, <4>4
    <3>7. Reading(Taken[Top], la)
      BY <1>4, <1>5, <1>8, <3>4, <3>5, <3>6 DEF Reading
    <3>8. QED
      BY <3>4, <3>7
  <2>3. QED
    BY <2>1, <2>2
<1>10. \A k \in 1 .. Top : IsText(Taken[k].text)
  BY <1>2, <1>3, <1>5
<1>11. \A k \in 1 .. Top - 1 : ReadToCommand(Taken[k])
  BY <1>2, <1>5
<1>12. QED
  BY <1>5, <1>9, <1>10, <1>11 DEF Stacked

\* After a command strtok has no place in the script.
LEMMA SettledStacked ==
  ASSUME NEW st, Settled(st), NEW la, la = Null \/ la.rest = <<>> \/ la.rest = <<Eol>>
  PROVE  Stacked(st, la)
<1>1. /\ st \in Seq(Frame) /\ Len(st) \in Nat
      /\ \A k \in 1 .. Len(st) : IsText(st[k].text) /\ ReadToCommand(st[k])
  BY DEF Settled
<1>2. st # <<>> => Len(st) \in 1 .. Len(st)
  BY <1>1
<1>3. st # <<>> => Through(st[Len(st)], la)
  BY <1>1, <1>2 DEF Through
<1>4. QED
  BY <1>1, <1>3 DEF Stacked

\* A script that starts reads its text from the first line.
LEMMA ExecuteStacked ==
  ASSUME NEW under, Settled(under), NEW text, IsText(text), ExecuteCode(text, under)
  PROVE  last' \in [at : Nat, rest : Text] /\ Stacked(stack', last')
<1> DEFINE fr == [text |-> text, done |-> 0]
<1>1. /\ stack' = Append(under, fr)
      /\ last' = [at |-> Len(under) + 1, rest |-> text]
  BY DEF ExecuteCode
<1>2. fr \in Frame /\ fr.text = text /\ fr.done = 0
  BY DEF IsText, Frame
<1> HIDE DEF fr
<1>3. /\ under \in Seq(Frame) /\ Len(under) \in Nat
      /\ \A k \in 1 .. Len(under) : IsText(under[k].text) /\ ReadToCommand(under[k])
  BY DEF Settled
<1>4. /\ stack' \in Seq(Frame) /\ Len(stack') = Len(under) + 1
      /\ stack'[Len(under) + 1] = fr
      /\ \A k \in 1 .. Len(under) : stack'[k] = under[k]
  BY <1>1, <1>2, <1>3
<1>5. last' \in [at : Nat, rest : Text] /\ last'.at # 0 /\ last'.rest = text
  BY <1>1, <1>3 DEF IsText
<1>6. Len(text) \in Nat
  BY DEF IsText, Text
<1>7. Reading(fr, last')
  BY <1>2, <1>5, <1>6 DEF Reading
<1>8. /\ \A k \in 1 .. Len(stack') : IsText(stack'[k].text)
      /\ \A k \in 1 .. Len(stack') - 1 : ReadToCommand(stack'[k])
      /\ stack'[Len(stack')] = fr
  BY <1>2, <1>3, <1>4
<1>9. QED
  BY <1>4, <1>5, <1>7, <1>8 DEF Stacked

\* What a command starts is a text.
LEMMA RunIsExecute ==
  ASSUME NEW cmd, NEW f, NEW under, RunScript(cmd, f, under)
  PROVE  \E text : IsText(text) /\ ExecuteCode(text, under)
<1>1. f \in DOMAIN Files /\ (cmd = "run" => IsBinary(f))
  BY DEF RunScript, Starts
<1>2. IsText(Files[f])
  BY <1>1, FilesAssumption DEF IsText, Text
<1>3. cmd = "run" => IsText(Tail(Files[f]))
  <2> SUFFICES ASSUME cmd = "run"
               PROVE  IsText(Tail(Files[f]))
    OBVIOUS
  <2> DEFINE s == Files[f]
  <2>1. s # <<>>
    BY <1>1, BinaryHasMagic
  <2>2. s \in Seq(Seq(STRING)) /\ \A i \in 1 .. Len(s) - 1 : s[i] # Eol
    BY <1>2 DEF IsText, Text
  <2> HIDE DEF s
  <2>3. /\ Tail(s) \in Seq(Seq(STRING)) /\ Len(Tail(s)) = Len(s) - 1 /\ Len(s) \in Nat
        /\ \A i \in 1 .. Len(Tail(s)) : Tail(s)[i] = s[i + 1]
    BY <2>1, <2>2, HeadTailProperties
  <2>4. \A i \in 1 .. Len(Tail(s)) - 1 : Tail(s)[i] # Eol
    BY <2>2, <2>3
  <2>5. IsText(Tail(s))
    BY <2>3, <2>4 DEF IsText, Text
  <2>6. QED
    BY <2>5 DEF s
<1>4. QED
  BY <1>2, <1>3, Zenon DEF RunScript

\* A script that ends has run up to its first command and leaves strtok nothing.
LEMMA ReturnIs ==
  ASSUME ScriptInv, Return
  PROVE  /\ ReadToCommand(stack[Top]) /\ Settled(Front(stack))
         /\ last = Null \/ last.rest = <<>> \/ last.rest = <<Eol>>
<1>1. stack # <<>> /\ ~HasLine
  BY DEF Return
<1>2. /\ Top \in Nat \ {0} /\ stack \in Seq(Frame) /\ Top = Len(stack)
      /\ \A k \in 1 .. Top : IsText(stack[k].text)
      /\ \A k \in 1 .. Top - 1 : ReadToCommand(stack[k])
      /\ Reading(stack[Top], last) \/ Through(stack[Top], last)
  BY <1>1, NextIs DEF ScriptInv, Stacked, Top
<1>3. Settled(Front(stack))
  <2> DEFINE n == Len(stack) - 1
  <2>1. n \in Nat /\ \A k \in 1 .. n : stack[k] \in Frame
    BY <1>2
  <2>2. Front(stack) = SubSeq(stack, 1, n)
    BY DEF Front
  <2> HIDE DEF n
  <2>3. /\ Front(stack) \in Seq(Frame)
        /\ Len(Front(stack)) = IF 1 <= n THEN n - 1 + 1 ELSE 0
        /\ \A i \in 1 .. n - 1 + 1 : Front(stack)[i] = stack[1 + i - 1]
    BY <2>1, <2>2, SubSeqProperties
  <2>4. Len(Front(stack)) = n /\ \A i \in 1 .. n : Front(stack)[i] = stack[i]
    BY <2>1, <2>3
  <2>5. \A k \in 1 .. n : IsText(stack[k].text) /\ ReadToCommand(stack[k])
    BY <1>2 DEF n
  <2>6. QED
    BY <2>3, <2>4, <2>5 DEF Settled
<1>4. CASE Through(stack[Top], last)
  BY <1>3, <1>4 DEF Through
<1>5. CASE Reading(stack[Top], last)
  <2> DEFINE fr == stack[Top]
             t == fr.text
             d == fr.done
  <2>1. Rest = last.rest /\ fr \in Frame /\ IsText(t) /\ last.rest \in Text
    BY <1>1, <1>2, <1>5, NextIs DEF ScriptInv
  <2>2. /\ Len(Rest) = Len(t) - d /\ \A i \in 1 .. Len(Rest) : Rest[i] = t[d + i]
        /\ \A i \in 1 .. d : Plain(t[i]) /\ t[i] # Eol
    BY <1>5, <2>1 DEF Reading
  <2>3. d \in Nat /\ Len(t) \in Nat /\ Len(Rest) \in Nat
    BY <2>1 DEF Frame, IsText, Text
  <2> HIDE DEF fr, t, d
  <2>4. d <= Len(t)
    BY <2>2, <2>3
  <2>5. CASE Rest = <<>>
    <3>1. d = Len(t)
      BY <2>2, <2>3, <2>5
    <3>2. FirstCommand(t) = d
      BY <2>1, <2>2, <2>3, <2>4, <3>1, FirstCommandIs
    <3>3. QED
      BY <1>3, <2>1, <2>5, <3>2 DEF ReadToCommand, t, d, fr
  <2>6. CASE Rest # <<>>
    <3>1. Rest[1] = Eol
      BY <1>1, <2>6 DEF HasLine
    <3>2. Len(Rest) \in Nat \ {0}
      BY <2>1, <2>6 DEF Text
    <3>3. d < Len(t) /\ t[d + 1] = Eol
      BY <2>2, <2>3, <3>1, <3>2
    <3>4. FirstCommand(t) = d /\ Len(t) = d + 1
      BY <2>1, <2>2, <2>3, <2>4, <3>3, FirstCommandIs
    <3>5. Len(Rest) = 1
      BY <2>2, <2>3, <3>4
    <3>6. Rest = <<Eol>>
      BY <2>1, <3>1, <3>5 DEF Text
    <3>7. QED
      BY <1>3, <2>1, <3>4, <3>6 DEF ReadToCommand, t, d, fr
  <2>7. QED
    BY <2>5, <2>6
<1>6. QED
  BY <1>2, <1>4, <1>5

LEMMA ScriptInvInit ==
  ASSUME ScriptInit
  PROVE  ScriptInv
<1>1. Null \in [at : Nat, rest : Text] /\ last = Null
  BY DEF ScriptInit, Null, Text
<1>2. Stacked(stack, last)
  <2>1. Settled(<<>>)
    BY DEF Settled
  <2>2. QED
    BY <1>1, <2>1, SettledStacked, Zenon DEF ScriptInit
<1>3. ReadToCommand(ended)
  <2>1. IsText(<<>>)
    BY DEF IsText, Text
  <2>2. FirstCommand(<<>>) = 0
    <3>1. 0 \in Nat /\ 0 <= Len(<<>>) /\ 0 = Len(<<>>)
      OBVIOUS
    <3>2. \A i \in 1 .. 0 : Plain(<<>>[i]) /\ <<>>[i] # Eol
      OBVIOUS
    <3>3. QED
      BY <2>1, <3>1, <3>2, FirstCommandIs
  <2>3. ended.text = <<>> /\ ended.done = 0
    BY DEF ScriptInit
  <2>4. QED
    BY <2>2, <2>3 DEF ReadToCommand
<1>4. QED
  BY <1>1, <1>2, <1>3 DEF ScriptInv, ScriptInit

LEMMA ScriptInvStep ==
  ASSUME ScriptInv, [ScriptNext]_script
  PROVE  ScriptInv'
<1> USE DEF ScriptInv
<1>1. ASSUME NEW cmd, NEW f, NEW under, Settled(under), RunScript(cmd, f, under)
      PROVE  ScriptInv'
  <2>1. PICK text : IsText(text) /\ ExecuteCode(text, under)
    BY <1>1, RunIsExecute
  <2>2. last' \in [at : Nat, rest : Text] /\ Stacked(stack', last')
    BY <1>1, <2>1, ExecuteStacked
  <2>3. low' = low /\ ended' = ended
    BY <2>1 DEF ExecuteCode
  <2>4. QED
    BY <2>2, <2>3 DEF ReadToCommand
<1>2. ASSUME NEW cmd, NEW f, Start(cmd, f)
      PROVE  ScriptInv'
  <2>1. stack = <<>> /\ RunScript(cmd, f, stack)
    BY <1>2 DEF Start
  <2>2. Settled(stack)
    BY <2>1 DEF Settled
  <2>3. QED
    BY <1>1, <2>1, <2>2
<1>3. CASE Nested
  <2>1. PICK cmd, f : IsCommand /\ RunScript(cmd, f, Taken)
    BY <1>3 DEF Nested
  <2>2. Settled(Taken)
    BY <2>1, CommandTaken
  <2>3. QED
    BY <1>1, <2>1, <2>2
<1>4. CASE Skip \/ Assign
  <2>1. TakeLine /\ Plain(NextLine)
    BY <1>4 DEF Skip, Assign, Plain
  <2>2. last' = AfterToken(Rest) /\ stack' = Taken /\ low' = low /\ ended' = ended
    BY <1>4 DEF Skip, Assign
  <2>3. last' \in [at : Nat, rest : Text] /\ Stacked(stack', last')
    BY <2>1, <2>2, PlainTaken
  <2>4. QED
    BY <2>2, <2>3 DEF ReadToCommand
<1>5. CASE Set \/ AddSub \/ Other
  <2>1. IsCommand /\ last' = Null /\ stack' = Taken /\ low' = low /\ ended' = ended
    BY <1>5, Zenon DEF Set, AddSub, Other
  <2>2. Stacked(stack', last')
    BY <2>1, CommandTaken, SettledStacked
  <2>3. last' \in [at : Nat, rest : Text]
    BY <2>1 DEF Null, Text
  <2>4. QED
    BY <2>1, <2>2, <2>3 DEF ReadToCommand
<1>6. CASE Return
  <2>1. ended' = stack[Top] /\ stack' = Front(stack) /\ low' = low /\ last' = last
    BY <1>6 DEF Return
  <2>2. /\ ReadToCommand(stack[Top]) /\ Settled(Front(stack))
        /\ last = Null \/ last.rest = <<>> \/ last.rest = <<Eol>>
    BY <1>6, ReturnIs
  <2>3. Stacked(stack', last')
    BY <2>1, <2>2, SettledStacked
  <2>4. QED
    BY <2>1, <2>2, <2>3 DEF ReadToCommand
<1>7. CASE UNCHANGED script
  BY <1>7 DEF script, ReadToCommand
<1>8. QED
  BY <1>2, <1>3, <1>4, <1>5, <1>6, <1>7 DEF ScriptNext

\* A script that ends has run its lines in order from the first up to its first
\* command, whatever scripts it ran: nixlang_execute_code reads its lines by strtok,
\* and so do the commands, which leave it no place in the script.
THEOREM ScriptRunsToFirstCommand == ScriptSpec => []RunsToFirstCommand
<1>1. ScriptInit => ScriptInv
  BY ScriptInvInit
<1>2. ScriptInv /\ [ScriptNext]_script => ScriptInv'
  BY ScriptInvStep
<1>3. ScriptInv => RunsToFirstCommand
  BY DEF ScriptInv, ReadToCommand, RunsToFirstCommand
<1>4. QED
  BY <1>1, <1>2, <1>3, PTL DEF ScriptSpec

(***************************************************************************)
(* The heap of the C library.                                              *)
(***************************************************************************)
Block == [addr : Nat, size : Nat, free : BOOLEAN]

End(b) == b.addr + HEADER + b.size

\* t is s with the two blocks b and c for its i-th.
Parted(t, s, i, b, c) ==
  /\ i \in 1 .. Len(s) /\ Len(t) = Len(s) + 1
  /\ \A j \in 1 .. i - 1 : t[j] = s[j]
  /\ t[i] = b /\ t[i + 1] = c
  /\ \A j \in i + 1 .. Len(s) : t[j + 1] = s[j]

\* The blocks of s lie one behind the other.
Chain(s) ==
  /\ s \in Seq(Block) /\ s # <<>>
  /\ s[1].addr = 0 /\ End(s[Len(s)]) = HEAP_SIZE
  /\ \A i \in 1 .. Len(s) - 1 : End(s[i]) = s[i + 1].addr
  /\ \A i, j \in 1 .. Len(s) : i < j => End(s[i]) <= s[j].addr

\* No two free blocks follow each other.
NoPair(s) == \A i \in 1 .. Len(s) - 1 : ~ (s[i].free /\ s[i + 1].free)

Used(s) == {s[i] : i \in {j \in 1 .. Len(s) : ~s[j].free}}

LEMMA BlockIs ==
  ASSUME NEW b \in Block
  PROVE  b.addr \in Nat /\ b.size \in Nat /\ b.free \in BOOLEAN /\ End(b) \in Nat
         /\ End(b) = b.addr + HEADER + b.size /\ b.addr < End(b)
BY LibcAssumption DEF Block, End

LEMMA LeqThrice ==
  ASSUME NEW a \in Nat, NEW b \in Nat, NEW c \in Nat, NEW d \in Nat, a <= b, b <= c, c <= d
  PROVE  a <= d
OBVIOUS

LEMMA SplitChain ==
  ASSUME NEW s, Chain(s), NEW t \in Seq(Block), NEW i, NEW b \in Block, NEW c \in Block,
         Parted(t, s, i, b, c),
         b.addr = s[i].addr, c.addr = End(b), End(c) = End(s[i])
  PROVE  Chain(t)
<1>1. /\ s \in Seq(Block) /\ Len(s) \in Nat /\ i \in 1 .. Len(s) /\ Len(t) = Len(s) + 1
      /\ \A j \in 1 .. i - 1 : t[j] = s[j]
      /\ t[i] = b /\ t[i + 1] = c
      /\ \A j \in i + 1 .. Len(s) : t[j + 1] = s[j]
  BY DEF Chain, Parted
<1>2. /\ s[1].addr = 0 /\ End(s[Len(s)]) = HEAP_SIZE
      /\ \A k \in 1 .. Len(s) - 1 : End(s[k]) = s[k + 1].addr
      /\ \A k, j \in 1 .. Len(s) : k < j => End(s[k]) <= s[j].addr
  BY DEF Chain
<1>3. \A k \in 1 .. Len(s) : s[k] \in Block
  BY <1>1
<1>4. \A k \in 1 .. Len(s) : s[k].addr \in Nat /\ End(s[k]) \in Nat
  BY <1>3, BlockIs
<1>5. b.addr \in Nat /\ End(b) \in Nat /\ c.addr \in Nat /\ End(c) \in Nat
      /\ b.addr < End(b) /\ c.addr < End(c)
  BY BlockIs
<1> HIDE DEF End
<1>6. t[1].addr = 0
  BY <1>1, <1>2
<1>7. End(t[Len(t)]) = HEAP_SIZE
  BY <1>1, <1>2
<1>8. \A k \in 1 .. Len(t) - 1 : End(t[k]) = t[k + 1].addr
  <2> SUFFICES ASSUME NEW k \in 1 .. Len(t) - 1
               PROVE  End(t[k]) = t[k + 1].addr
    OBVIOUS
  <2>1. CASE k < i - 1
    BY <1>1, <1>2, <2>1
  <2>2. CASE k = i - 1
    BY <1>1, <1>2, <2>2
  <2>3. CASE k = i
    BY <1>1, <2>3
  <2>4. CASE k = i + 1
    <3>1. t[k] = c /\ t[k + 1] = s[k] /\ i + 1 \in 1 .. Len(s) /\ i \in 1 .. Len(s) - 1
      BY <1>1, <2>4
    <3>2. QED
      BY <1>1, <1>2, <2>4, <3>1
  <2>5. CASE k > i + 1
    <3> DEFINE m == k - 1
    <3>1. m \in 1 .. Len(s) - 1 /\ m \in i + 1 .. Len(s) /\ m + 1 \in i + 1 .. Len(s) /\ k = m + 1
      BY <1>1, <2>5
    <3> HIDE DEF m
    <3>2. t[m + 1] = s[m] /\ t[(m + 1) + 1] = s[m + 1]
      BY <1>1, <3>1
    <3>3. QED
      BY <1>2, <3>1, <3>2
  <2>6. QED
    BY <1>1, <2>1, <2>2, <2>3, <2>4, <2>5
<1>9. \A k, j \in 1 .. Len(t) : k < j => End(t[k]) <= t[j].addr
  <2> DEFINE Near(k, m) == m \in 1 .. Len(s) /\ s[m].addr <= t[k].addr /\ End(t[k]) <= End(s[m])
  <2>1. ASSUME NEW k \in 1 .. Len(t), k <= i
        PROVE  Near(k, k)
    <3>1. k \in 1 .. Len(s)
      BY <1>1, <2>1
    <3>2. CASE k < i
      <4>1. t[k] = s[k]
        BY <1>1, <3>2
      <4>2. QED
        BY <1>4, <3>1, <4>1
    <3>3. CASE k = i
      BY <1>1, <1>4, <1>5, <3>3
    <3>4. QED
      BY <1>1, <2>1, <3>2, <3>3
  <2>2. ASSUME NEW k \in 1 .. Len(t), k > i
        PROVE  Near(k, k - 1)
    <3>1. k - 1 \in 1 .. Len(s) /\ (k - 1) + 1 = k
      BY <1>1, <2>2
    <3>2. CASE k = i + 1
      <4>1. t[k] = c /\ k - 1 = i
        BY <1>1, <3>2
      <4>2. s[i].addr <= c.addr /\ End(c) <= End(s[i])
        <5>1. b.addr <= c.addr /\ End(c) <= End(c)
          BY <1>5
        <5>2. QED
          BY <5>1, Zenon
      <4>3. Near(k, i)
        BY <1>1, <4>1, <4>2
      <4>4. QED
        BY <4>1, <4>3
    <3>3. CASE k # i + 1
      <4> DEFINE m == k - 1
      <4>1. m \in i + 1 .. Len(s) /\ m \in 1 .. Len(s) /\ m + 1 = k
        BY <1>1, <2>2, <3>1, <3>3
      <4> HIDE DEF m
      <4>2. t[k] = s[m]
        BY <1>1, <4>1
      <4>3. Near(k, m)
        BY <1>4, <4>1, <4>2
      <4>4. QED
        BY <4>3 DEF m
    <3>4. QED
      BY <3>2, <3>3
  <2>3. \A k \in 1 .. Len(t) : t[k].addr \in Nat /\ End(t[k]) \in Nat
    <3>1. \A k \in 1 .. Len(t) : t[k] \in Block
      OBVIOUS
    <3>2. QED
      BY <3>1, BlockIs
  <2>4. ASSUME NEW k \in 1 .. Len(t), NEW j \in 1 .. Len(t), NEW m, NEW n,
               Near(k, m), Near(j, n), m < n
        PROVE  End(t[k]) <= t[j].addr
    <3>1. End(s[m]) <= s[n].addr
      BY <1>2, <2>4
    <3>2. /\ End(t[k]) \in Nat /\ End(s[m]) \in Nat /\ s[n].addr \in Nat /\ t[j].addr \in Nat
          /\ End(t[k]) <= End(s[m]) /\ s[n].addr <= t[j].addr
      BY <1>4, <2>3, <2>4
    <3>3. QED
      BY <3>1, <3>2, LeqThrice, Zenon
  <2> HIDE DEF Near
  <2> SUFFICES ASSUME NEW k \in 1 .. Len(t), NEW j \in 1 .. Len(t), k < j
               PROVE  End(t[k]) <= t[j].addr
    OBVIOUS
  <2>5. CASE j <= i
    <3>1. Near(k, k) /\ Near(j, j)
      BY <1>1, <2>1, <2>5
    <3>2. QED
      BY <2>4, <3>1
  <2>6. CASE k <= i /\ j > i
    <3>1. Near(k, k) /\ Near(j, j - 1)
      BY <2>1, <2>2, <2>6
    <3>2. CASE k < j - 1
      BY <2>4, <3>1, <3>2
    <3>3. CASE ~ (k < j - 1)
      <4>1. k = i /\ j = i + 1
        BY <1>1, <2>6, <3>3
      <4>2. QED
        BY <1>1, <1>5, <4>1
    <3>4. QED
      BY <3>2, <3>3
  <2>7. CASE k > i
    <3>1. Near(k, k - 1) /\ Near(j, j - 1) /\ k - 1 < j - 1
      BY <1>1, <2>2, <2>7
    <3>2. QED
      BY <2>4, <3>1
  <2>8. QED
    BY <1>1, <2>5, <2>6, <2>7
<1>10. t # <<>>
  BY <1>1
<1>11. QED
  BY <1>6, <1>7, <1>8, <1>9, <1>10 DEF Chain

LEMMA MergeChain ==
  ASSUME NEW s, Chain(s), NEW t \in Seq(Block), NEW i, Parted(s, t, i, s[i], s[i + 1]),
         t[i].addr = s[i].addr, End(t[i]) = End(s[i + 1])
  PROVE  Chain(t)
<1>1. /\ s \in Seq(Block) /\ Len(t) \in Nat /\ i \in 1 .. Len(t) /\ Len(s) = Len(t) + 1
      /\ \A j \in 1 .. i - 1 : t[j] = s[j]
      /\ \A j \in i + 1 .. Len(t) : t[j] = s[j + 1]
  BY DEF Chain, Parted
<1>2. /\ s[1].addr = 0 /\ End(s[Len(s)]) = HEAP_SIZE
      /\ \A k \in 1 .. Len(s) - 1 : End(s[k]) = s[k + 1].addr
      /\ \A k, j \in 1 .. Len(s) : k < j => End(s[k]) <= s[j].addr
  BY DEF Chain
<1> HIDE DEF End
<1>3. \A k \in 1 .. Len(t) :
        /\ k <= i => t[k].addr = s[k].addr
        /\ k > i => t[k].addr = s[k + 1].addr
        /\ k < i => End(t[k]) = End(s[k])
        /\ k >= i => End(t[k]) = End(s[k + 1])
  BY <1>1
<1>4. t[1].addr = 0
  BY <1>1, <1>2, <1>3
<1>5. End(t[Len(t)]) = HEAP_SIZE
  BY <1>1, <1>2, <1>3
<1>6. \A k \in 1 .. Len(t) - 1 : End(t[k]) = t[k + 1].addr
  <2> SUFFICES ASSUME NEW k \in 1 .. Len(t) - 1
               PROVE  End(t[k]) = t[k + 1].addr
    OBVIOUS
  <2>1. CASE k < i
    <3>1. k \in 1 .. Len(t) /\ k + 1 \in 1 .. Len(t) /\ k + 1 <= i /\ k \in 1 .. Len(s) - 1
      BY <1>1, <2>1
    <3>2. End(t[k]) = End(s[k]) /\ t[k + 1].addr = s[k + 1].addr
      BY <1>3, <2>1, <3>1
    <3>3. QED
      BY <1>2, <3>1, <3>2
  <2>2. CASE k >= i
    <3> DEFINE m == k + 1
    <3>1. k \in 1 .. Len(t) /\ m \in 1 .. Len(t) /\ m > i /\ m \in 1 .. Len(s) - 1
      BY <1>1, <2>2
    <3>2. End(t[k]) = End(s[m])
      BY <1>3, <2>2, <3>1
    <3> HIDE DEF m
    <3>3. t[m].addr = s[m + 1].addr /\ End(s[m]) = s[m + 1].addr
      BY <1>2, <1>3, <3>1
    <3>4. QED
      BY <3>2, <3>3 DEF m
  <2>3. QED
    BY <1>1, <2>1, <2>2
<1>7. \A k, j \in 1 .. Len(t) : k < j => End(t[k]) <= t[j].addr
  <2> SUFFICES ASSUME NEW k \in 1 .. Len(t), NEW j \in 1 .. Len(t), k < j
               PROVE  End(t[k]) <= t[j].addr
    OBVIOUS
  <2>1. PICK m \in 1 .. Len(s) :
          End(t[k]) = End(s[m]) /\ ((k < i /\ m = k) \/ (k >= i /\ m = k + 1))
    <3>1. CASE k < i
      <4>1. k \in 1 .. Len(s) /\ End(t[k]) = End(s[k])
        BY <1>1, <1>3, <3>1
      <4>2. QED
        BY <3>1, <4>1
    <3>2. CASE k >= i
      <4>1. k + 1 \in 1 .. Len(s) /\ End(t[k]) = End(s[k + 1])
        BY <1>1, <1>3, <3>2
      <4>2. QED
        BY <3>2, <4>1
    <3>3. k < i \/ k >= i
      BY <1>1
    <3>4. QED
      BY <3>1, <3>2, <3>3, Zenon
  <2>2. PICK n \in 1 .. Len(s) :
          t[j].addr = s[n].addr /\ ((j <= i /\ n = j) \/ (j > i /\ n = j + 1))
    <3>1. CASE j <= i
      <4>1. j \in 1 .. Len(s) /\ t[j].addr = s[j].addr
        BY <1>1, <1>3, <3>1
      <4>2. QED
        BY <3>1, <4>1
    <3>2. CASE j > i
      <4>1. j + 1 \in 1 .. Len(s) /\ t[j].addr = s[j + 1].addr
        BY <1>1, <1>3, <3>2
      <4>2. QED
        BY <3>2, <4>1
    <3>3. j <= i \/ j > i
      BY <1>1
    <3>4. QED
      BY <3>1, <3>2, <3>3, Zenon
  <2>3. m < n
    BY <1>1, <2>1, <2>2
  <2>4. End(s[m]) <= s[n].addr
    BY <1>2, <2>3
  <2>5. QED
    BY <2>1, <2>2, <2>4, Zenon
<1>8. t # <<>>
  BY <1>1
<1>9. QED
  BY <1>4, <1>5, <1>6, <1>7, <1>8 DEF Chain

\* The blocks stay where they are.
LEMMA FlagChain ==
  ASSUME NEW s, Chain(s), NEW t \in Seq(Block), Len(t) = Len(s),
         \A k \in 1 .. Len(s) : t[k].addr = s[k].addr /\ End(t[k]) = End(s[k])
  PROVE  Chain(t)
<1>1. /\ s \in Seq(Block) /\ Len(s) \in Nat \ {0} /\ Len(t) = Len(s)
      /\ s[1].addr = 0 /\ End(s[Len(s)]) = HEAP_SIZE
      /\ \A k \in 1 .. Len(s) - 1 : End(s[k]) = s[k + 1].addr
      /\ \A k, j \in 1 .. Len(s) : k < j => End(s[k]) <= s[j].addr
  BY DEF Chain
<1> HIDE DEF End
<1>2. t # <<>> /\ t[1].addr = 0 /\ End(t[Len(t)]) = HEAP_SIZE
  BY <1>1
<1>3. \A k \in 1 .. Len(t) - 1 : End(t[k]) = t[k + 1].addr
  <2> SUFFICES ASSUME NEW k \in 1 .. Len(t) - 1
               PROVE  End(t[k]) = t[k + 1].addr
    OBVIOUS
  <2>1. k \in 1 .. Len(s) /\ k + 1 \in 1 .. Len(s) /\ k \in 1 .. Len(s) - 1
    BY <1>1
  <2>2. QED
    BY <1>1, <2>1
<1>4. \A k, j \in 1 .. Len(t) : k < j => End(t[k]) <= t[j].addr
  <2> SUFFICES ASSUME NEW k \in 1 .. Len(t), NEW j \in 1 .. Len(t), k < j
               PROVE  End(t[k]) <= t[j].addr
    OBVIOUS
  <2>1. End(s[k]) <= s[j].addr /\ End(t[k]) = End(s[k]) /\ t[j].addr = s[j].addr
    BY <1>1
  <2>2. QED
    BY <2>1, Zenon
<1>5. QED
  BY <1>2, <1>3, <1>4 DEF Chain

\* Blocks at different places have different addresses.
LEMMA AddrsDiffer ==
  ASSUME NEW s, Chain(s), NEW i \in 1 .. Len(s), NEW j \in 1 .. Len(s),
         s[i].addr = s[j].addr
  PROVE  i = j
<1>1. Len(s) \in Nat /\ s[i] \in Block /\ s[j] \in Block
  BY DEF Chain
<1>2. /\ s[i].addr \in Nat /\ s[j].addr \in Nat /\ End(s[i]) \in Nat /\ End(s[j]) \in Nat
      /\ s[i].addr < End(s[i]) /\ s[j].addr < End(s[j])
  BY <1>1, BlockIs
<1>3. (i < j => End(s[i]) <= s[j].addr) /\ (j < i => End(s[j]) <= s[i].addr)
  BY DEF Chain
<1>4. ~ (i < j) /\ ~ (j < i)
  BY <1>2, <1>3
<1>5. QED
  BY <1>1, <1>4

(***************************************************************************)
(* Which blocks are used, and which are free.                              *)
(***************************************************************************)
LEMMA UsedSplit ==
  ASSUME NEW s \in Seq(Block), NEW t \in Seq(Block), NEW i, NEW b, NEW c, Parted(t, s, i, b, c),
         s[i].free, ~b.free, c.free
  PROVE  /\ Used(t) = Used(s) \cup {b}
         /\ NoPair(s) => NoPair(t)
<1>1. /\ Len(s) \in Nat /\ i \in 1 .. Len(s) /\ Len(t) = Len(s) + 1
      /\ \A j \in 1 .. i - 1 : t[j] = s[j]
      /\ t[i] = b /\ t[i + 1] = c
      /\ \A j \in i + 1 .. Len(s) : t[j + 1] = s[j]
  BY DEF Parted
<1>2. ASSUME NEW x \in Used(t)
      PROVE  x \in Used(s) \cup {b}
  <2>1. PICK k \in 1 .. Len(t) : x = t[k] /\ ~t[k].free
    BY <1>2 DEF Used
  <2>2. CASE k < i
    BY <1>1, <2>1, <2>2 DEF Used
  <2>3. CASE k = i
    BY <1>1, <2>1, <2>3
  <2>4. CASE k > i + 1
    <3> DEFINE m == k - 1
    <3>1. m \in i + 1 .. Len(s) /\ m \in 1 .. Len(s) /\ m + 1 = k
      BY <1>1, <2>4
    <3> HIDE DEF m
    <3>2. x = s[m] /\ ~s[m].free
      BY <1>1, <2>1, <3>1
    <3>3. QED
      BY <3>1, <3>2 DEF Used
  <2>5. QED
    BY <1>1, <2>1, <2>2, <2>3, <2>4
<1>3. ASSUME NEW x \in Used(s) \cup {b}
      PROVE  x \in Used(t)
  <2>1. CASE x = b
    <3>1. i \in 1 .. Len(t) /\ x = t[i] /\ ~t[i].free
      BY <1>1, <2>1
    <3>2. QED
      BY <3>1 DEF Used
  <2>2. CASE x \in Used(s)
    <3>1. PICK k \in 1 .. Len(s) : x = s[k] /\ ~s[k].free
      BY <2>2 DEF Used
    <3>2. k # i
      BY <3>1
    <3>3. PICK m \in 1 .. Len(t) : t[m] = s[k]
      <4>1. CASE k < i
        BY <1>1, <4>1
      <4>2. CASE k > i
        <5>1. k + 1 \in 1 .. Len(t) /\ t[k + 1] = s[k]
          BY <1>1, <4>2
        <5>2. QED
          BY <5>1
      <4>3. QED
        BY <1>1, <3>2, <4>1, <4>2
    <3>4. QED
      BY <3>1, <3>3 DEF Used
  <2>3. QED
    BY <1>3, <2>1, <2>2
<1>4. ASSUME NoPair(s), NEW k \in 1 .. Len(t) - 1, t[k].free, t[k + 1].free
      PROVE  FALSE
  <2>1. CASE k < i - 1
    <3>1. t[k] = s[k] /\ t[k + 1] = s[k + 1] /\ k \in 1 .. Len(s) - 1
      BY <1>1, <2>1
    <3>2. QED
      BY <1>4, <3>1 DEF NoPair
  <2>2. CASE k = i - 1 \/ k = i
    BY <1>1, <1>4, <2>2
  <2>3. CASE k = i + 1
    <3>1. t[k + 1] = s[i + 1] /\ i \in 1 .. Len(s) - 1
      BY <1>1, <2>3
    <3>2. QED
      BY <1>4, <3>1 DEF NoPair
  <2>4. CASE k > i + 1
    <3> DEFINE m == k - 1
    <3>1. m \in i + 1 .. Len(s) /\ m + 1 \in i + 1 .. Len(s) /\ m \in 1 .. Len(s) - 1 /\ k = m + 1
      BY <1>1, <2>4
    <3> HIDE DEF m
    <3>2. t[k] = s[m] /\ t[k + 1] = s[m + 1]
      BY <1>1, <3>1
    <3>3. QED
      BY <1>4, <3>1, <3>2 DEF NoPair
  <2>5. QED
    BY <1>1, <2>1, <2>2, <2>3, <2>4
<1>5. QED
  BY <1>2, <1>3, <1>4 DEF NoPair

\* One free block for two: what was used is, and two free blocks in a row can only
\* be those that were before the two.
LEMMA UsedMerge ==
  ASSUME NEW s \in Seq(Block), NEW t \in Seq(Block), NEW i, Parted(s, t, i, s[i], s[i + 1]),
         s[i].free, s[i + 1].free, t[i].free,
         \A k \in 1 .. Len(s) - 1 : s[k].free /\ s[k + 1].free => k = i - 1 \/ k = i
  PROVE  /\ Used(t) = Used(s)
         /\ \A k \in 1 .. Len(t) - 1 :
              t[k].free /\ t[k + 1].free => k = i - 1 /\ s[k].free /\ s[k + 1].free
<1>1. /\ Len(t) \in Nat /\ i \in 1 .. Len(t) /\ Len(s) = Len(t) + 1
      /\ \A j \in 1 .. i - 1 : t[j] = s[j]
      /\ \A j \in i + 1 .. Len(t) : t[j] = s[j + 1]
  BY DEF Parted
<1>2. ASSUME NEW x \in Used(t)
      PROVE  x \in Used(s)
  <2>1. PICK k \in 1 .. Len(t) : x = t[k] /\ ~t[k].free
    BY <1>2 DEF Used
  <2>2. PICK m \in 1 .. Len(s) : t[k] = s[m]
    <3>1. CASE k < i
      BY <1>1, <3>1
    <3>2. CASE k > i
      <4>1. k + 1 \in 1 .. Len(s) /\ t[k] = s[k + 1]
        BY <1>1, <3>2
      <4>2. QED
        BY <4>1
    <3>3. QED
      BY <1>1, <2>1, <3>1, <3>2
  <2>3. QED
    BY <2>1, <2>2 DEF Used
<1>3. ASSUME NEW x \in Used(s)
      PROVE  x \in Used(t)
  <2>1. PICK k \in 1 .. Len(s) : x = s[k] /\ ~s[k].free
    BY <1>3 DEF Used
  <2>2. PICK m \in 1 .. Len(t) : t[m] = s[k]
    <3>1. CASE k < i
      BY <1>1, <3>1
    <3>2. CASE k > i + 1
      <4> DEFINE m == k - 1
      <4>1. m \in i + 1 .. Len(t) /\ m \in 1 .. Len(t) /\ k = m + 1
        BY <1>1, <3>2
      <4> HIDE DEF m
      <4>2. t[m] = s[k]
        BY <1>1, <4>1
      <4>3. QED
        BY <4>1, <4>2
    <3>3. QED
      BY <1>1, <2>1, <3>1, <3>2
  <2>3. QED
    BY <2>1, <2>2 DEF Used
<1>4. ASSUME NEW k \in 1 .. Len(t) - 1, t[k].free, t[k + 1].free
      PROVE  k = i - 1 /\ s[k].free /\ s[k + 1].free
  <2>1. CASE k < i - 1
    <3>1. t[k] = s[k] /\ t[k + 1] = s[k + 1] /\ k \in 1 .. Len(s) - 1
      BY <1>1, <2>1
    <3>2. QED
      BY <1>1, <1>4, <2>1, <3>1
  <2>2. CASE k = i - 1
    <3>1. t[k] = s[k] /\ k + 1 = i
      BY <1>1, <2>2
    <3>2. QED
      BY <1>4, <2>2, <3>1
  <2>3. CASE k >= i
    <3> DEFINE m == k + 1
    <3>1. m \in i + 1 .. Len(t) /\ m \in 1 .. Len(s) - 1 /\ m # i /\ m # i - 1
      BY <1>1, <2>3
    <3>2. s[m].free
      BY <1>1, <1>4, <2>3
    <3> HIDE DEF m
    <3>3. t[m] = s[m + 1]
      BY <1>1, <3>1
    <3>4. s[m].free /\ s[m + 1].free
      BY <1>4, <3>2, <3>3 DEF m
    <3>5. QED
      BY <3>1, <3>4
  <2>4. QED
    BY <1>1, <2>1, <2>2, <2>3
<1>5. QED
  BY <1>2, <1>3, <1>4

LEMMA UsedTake ==
  ASSUME NEW s \in Seq(Block), NEW t \in Seq(Block), NEW i \in 1 .. Len(s), NEW b, t[i] = b,
         Len(t) = Len(s), \A j \in 1 .. Len(s) : j # i => t[j] = s[j], s[i].free, ~b.free
  PROVE  /\ Used(t) = Used(s) \cup {b}
         /\ NoPair(s) => NoPair(t)
<1>1. Len(s) \in Nat
  OBVIOUS
<1>2. ASSUME NEW x \in Used(t)
      PROVE  x \in Used(s) \cup {b}
  BY <1>2 DEF Used
<1>3. ASSUME NEW x \in Used(s) \cup {b}
      PROVE  x \in Used(t)
  <2>1. CASE x = b
    BY <2>1 DEF Used
  <2>2. CASE x \in Used(s)
    <3>1. PICK k \in 1 .. Len(s) : x = s[k] /\ ~s[k].free
      BY <2>2 DEF Used
    <3>2. x = t[k] /\ ~t[k].free /\ k \in 1 .. Len(t)
      BY <3>1
    <3>3. QED
      BY <3>2 DEF Used
  <2>3. QED
    BY <1>3, <2>1, <2>2
<1>4. NoPair(s) => NoPair(t)
  <2>1. \A k \in 1 .. Len(t) - 1 : k \in 1 .. Len(s) /\ k + 1 \in 1 .. Len(s)
    BY <1>1
  <2>2. \A k \in 1 .. Len(s) : t[k].free => s[k].free
    OBVIOUS
  <2>3. QED
    BY <2>1, <2>2 DEF NoPair
<1>5. QED
  BY <1>2, <1>3, <1>4

LEMMA UsedRelease ==
  ASSUME NEW s, Chain(s), NEW t \in Seq(Block), NEW i \in 1 .. Len(s),
         Len(t) = Len(s), \A j \in 1 .. Len(s) : j # i => t[j] = s[j], ~s[i].free, t[i].free
  PROVE  /\ Used(t) = Used(s) \ {s[i]}
         /\ NoPair(s) =>
              \A k \in 1 .. Len(t) - 1 : t[k].free /\ t[k + 1].free => k = i - 1 \/ k = i
<1>1. Len(s) \in Nat /\ s \in Seq(Block)
  BY DEF Chain
<1>2. ASSUME NEW x \in Used(t)
      PROVE  x \in Used(s) \ {s[i]}
  <2>1. PICK k \in 1 .. Len(t) : x = t[k] /\ ~t[k].free
    BY <1>2 DEF Used
  <2>2. k # i /\ x = s[k] /\ ~s[k].free
    BY <2>1
  <2>3. s[k] # s[i]
    BY <2>2, AddrsDiffer
  <2>4. QED
    BY <2>2, <2>3 DEF Used
<1>3. ASSUME NEW x \in Used(s) \ {s[i]}
      PROVE  x \in Used(t)
  <2>1. PICK k \in 1 .. Len(s) : x = s[k] /\ ~s[k].free
    BY <1>3 DEF Used
  <2>2. k # i
    BY <1>3, <2>1
  <2>3. x = t[k] /\ ~t[k].free /\ k \in 1 .. Len(t)
    BY <2>1, <2>2
  <2>4. QED
    BY <2>3 DEF Used
<1>4. ASSUME NoPair(s), NEW k \in 1 .. Len(t) - 1, t[k].free, t[k + 1].free, k # i - 1, k # i
      PROVE  FALSE
  <2>1. k \in 1 .. Len(s) - 1 /\ t[k] = s[k] /\ t[k + 1] = s[k + 1]
    BY <1>1, <1>4
  <2>2. QED
    BY <1>4, <2>1 DEF NoPair
<1>5. QED
  BY <1>2, <1>3, <1>4

(***************************************************************************)
(* The pieces of malloc and free.                                          *)
(***************************************************************************)
\* t is s without its i-th block.
Gone(t, s, i) ==
  /\ t \in Seq(Block) /\ Len(t) = Len(s) - 1
  /\ \A j \in 1 .. i - 1 : t[j] = s[j]
  /\ \A j \in i .. Len(s) - 1 : t[j] = s[j + 1]

LEMMA BlockGone ==
  ASSUME NEW s \in Seq(Block), NEW i \in 1 .. Len(s), NEW t, t = RemoveAt(s, i)
  PROVE  Gone(t, s, i)
<1> DEFINE a == SubSeq(s, 1, i - 1)
           b == SubSeq(s, i + 1, Len(s))
<1>1. Len(s) \in Nat
  OBVIOUS
<1>2. a \in Seq(Block) /\ Len(a) = i - 1 /\ \A j \in 1 .. i - 1 : a[j] = s[j]
  OBVIOUS
<1>3. b \in Seq(Block) /\ Len(b) = Len(s) - i /\ \A j \in 1 .. Len(s) - i : b[j] = s[i + j]
  OBVIOUS
<1>4. t = a \o b
  BY DEF RemoveAt
<1> HIDE DEF a, b
<1>5. /\ a \o b \in Seq(Block) /\ Len(a \o b) = Len(a) + Len(b)
      /\ \A j \in 1 .. Len(a) + Len(b) :
           (a \o b)[j] = IF j <= Len(a) THEN a[j] ELSE b[j - Len(a)]
  BY <1>2, <1>3, ConcatProperties, Zenon
<1>6. Len(a) + Len(b) = Len(s) - 1
  BY <1>1, <1>2, <1>3
<1>7. \A j \in 1 .. i - 1 : (a \o b)[j] = s[j]
  BY <1>1, <1>2, <1>5, <1>6
<1>8. ASSUME NEW j \in i .. Len(s) - 1
      PROVE  (a \o b)[j] = s[j + 1]
  <2>1. j - Len(a) \in 1 .. Len(s) - i /\ i + (j - Len(a)) = j + 1 /\ ~ (j <= Len(a))
        /\ j \in 1 .. Len(a) + Len(b)
    BY <1>1, <1>2, <1>6
  <2>2. b[j - Len(a)] = s[j + 1]
    BY <1>3, <2>1
  <2>3. QED
    BY <1>5, <2>1, <2>2
<1>9. QED
  BY <1>4, <1>5, <1>6, <1>7, <1>8 DEF Gone

\* t is s with b for its i-th block.
Put(t, s, i, b) ==
  /\ t \in Seq(Block) /\ Len(t) = Len(s) /\ t[i] = b
  /\ \A j \in 1 .. Len(s) : j # i => t[j] = s[j]

LEMMA PutIs ==
  ASSUME NEW s \in Seq(Block), NEW i \in 1 .. Len(s), NEW b \in Block, NEW t,
         t = [s EXCEPT ![i] = b]
  PROVE  Put(t, s, i, b)
BY DEF Put

LEMMA GoneParted ==
  ASSUME NEW s \in Seq(Block), NEW n \in Nat, n = Len(s), NEW i \in 1 .. n - 1, NEW b, NEW u, NEW t,
         Put(u, s, i, b), Gone(t, u, i + 1)
  PROVE  t \in Seq(Block) /\ t[i] = b /\ Parted(s, t, i, s[i], s[i + 1])
<1>1. /\ u \in Seq(Block) /\ Len(u) = n /\ u[i] = b
      /\ \A j \in 1 .. n : j # i => u[j] = s[j]
  BY DEF Put
<1>2. /\ t \in Seq(Block) /\ Len(t) = n - 1
      /\ \A j \in 1 .. (i + 1) - 1 : t[j] = u[j]
      /\ \A j \in i + 1 .. n - 1 : t[j] = u[j + 1]
  BY <1>1 DEF Gone
<1>3. t[i] = b
  <2>1. i \in 1 .. (i + 1) - 1
    OBVIOUS
  <2>2. QED
    BY <1>1, <1>2, <2>1
<1>4. \A j \in 1 .. i - 1 : s[j] = t[j]
  <2> SUFFICES ASSUME NEW j \in 1 .. i - 1
               PROVE  s[j] = t[j]
    OBVIOUS
  <2>1. j \in 1 .. (i + 1) - 1 /\ j \in 1 .. n /\ j # i
    OBVIOUS
  <2>2. QED
    BY <1>1, <1>2, <2>1
<1>5. \A j \in i + 1 .. Len(t) : s[j + 1] = t[j]
  <2> SUFFICES ASSUME NEW j \in i + 1 .. Len(t)
               PROVE  s[j + 1] = t[j]
    OBVIOUS
  <2>1. j \in i + 1 .. n - 1 /\ j + 1 \in 1 .. n /\ j + 1 # i
    BY <1>2
  <2>2. QED
    BY <1>1, <1>2, <2>1
<1>6. i \in 1 .. Len(t) /\ Len(s) = Len(t) + 1
  BY <1>2
<1>7. QED
  BY <1>2, <1>3, <1>4, <1>5, <1>6 DEF Parted

\* The block after the i-th is taken out, b is put for the i-th.
Join(s, i, b) == RemoveAt([s EXCEPT ![i] = b], i + 1)

LEMMA JoinIs ==
  ASSUME NEW s \in Seq(Block), NEW i \in 1 .. Len(s) - 1, NEW b \in Block, NEW t,
         t = Join(s, i, b)
  PROVE  t \in Seq(Block) /\ t[i] = b /\ Parted(s, t, i, s[i], s[i + 1])
<1> DEFINE u == [s EXCEPT ![i] = b]
           n == Len(s)
<1>1. n \in Nat /\ i \in 1 .. n /\ i + 1 \in 1 .. n /\ i \in 1 .. n - 1
  OBVIOUS
<1>2. Put(u, s, i, b)
  BY <1>1, PutIs
<1>3. t = RemoveAt(u, i + 1)
  BY DEF Join
<1> HIDE DEF u, n
<1>4. u \in Seq(Block) /\ i + 1 \in 1 .. Len(u)
  BY <1>1, <1>2 DEF Put, n
<1>5. Gone(t, u, i + 1)
  BY <1>3, <1>4, BlockGone, Zenon
<1>6. n = Len(s)
  BY DEF n
<1>7. QED
  BY <1>1, <1>2, <1>5, <1>6, GoneParted

\* t is x, then y.
Cat(t, x, y) ==
  /\ t \in Seq(Block) /\ Len(t) = Len(x) + Len(y)
  /\ \A j \in 1 .. Len(x) : t[j] = x[j]
  /\ \A j \in 1 .. Len(y) : t[Len(x) + j] = y[j]

LEMMA CatIs ==
  ASSUME NEW x \in Seq(Block), NEW y \in Seq(Block)
  PROVE  Cat(x \o y, x, y)
<1>1. /\ x \o y \in Seq(Block) /\ Len(x \o y) = Len(x) + Len(y)
      /\ \A j \in 1 .. Len(x) + Len(y) :
           (x \o y)[j] = IF j <= Len(x) THEN x[j] ELSE y[j - Len(x)]
  BY ConcatProperties, Zenon
<1>2. Len(x) \in Nat /\ Len(y) \in Nat
  OBVIOUS
<1> DEFINE z == x \o y
<1> HIDE DEF z
<1>3. ASSUME NEW j \in 1 .. Len(x)
      PROVE  z[j] = x[j]
  BY <1>1, <1>2 DEF z
<1>4. ASSUME NEW j \in 1 .. Len(y)
      PROVE  z[Len(x) + j] = y[j]
  <2>1. Len(x) + j \in 1 .. Len(x) + Len(y) /\ ~ (Len(x) + j <= Len(x)) /\ (Len(x) + j) - Len(x) = j
    BY <1>2
  <2>2. z[Len(x) + j] = y[(Len(x) + j) - Len(x)]
    BY <1>1, <2>1, Zenon DEF z
  <2>3. QED
    BY <2>1, <2>2, Zenon
<1>5. QED
  BY <1>1, <1>3, <1>4 DEF Cat, z

LEMMA Before ==
  ASSUME NEW s \in Seq(Block), NEW i \in 1 .. Len(s)
  PROVE  /\ SubSeq(s, 1, i - 1) \in Seq(Block) /\ Len(SubSeq(s, 1, i - 1)) = i - 1
         /\ \A j \in 1 .. i - 1 : SubSeq(s, 1, i - 1)[j] = s[j]
OBVIOUS

LEMMA After ==
  ASSUME NEW s \in Seq(Block), NEW i \in 1 .. Len(s)
  PROVE  /\ SubSeq(s, i + 1, Len(s)) \in Seq(Block) /\ Len(SubSeq(s, i + 1, Len(s))) = Len(s) - i
         /\ \A j \in 1 .. Len(s) - i : SubSeq(s, i + 1, Len(s))[j] = s[i + j]
OBVIOUS

\* t is s with the blocks m for its i-th.
Within(t, s, i, m) ==
  /\ t \in Seq(Block) /\ Len(t) = ((i - 1) + Len(m)) + (Len(s) - i)
  /\ \A j \in 1 .. i - 1 : t[j] = s[j]
  /\ \A j \in 1 .. Len(m) : t[(i - 1) + j] = m[j]
  /\ \A j \in 1 .. Len(s) - i : t[((i - 1) + Len(m)) + j] = s[i + j]

LEMMA CatWithin ==
  ASSUME NEW s \in Seq(Block), NEW n \in Nat, n = Len(s), NEW i \in 1 .. n,
         NEW m \in Seq(Block), NEW q \in Nat, q = Len(m), NEW t, NEW x, NEW y, NEW z,
         Len(x) = i - 1, \A j \in 1 .. i - 1 : x[j] = s[j],
         Len(y) = n - i, \A j \in 1 .. n - i : y[j] = s[i + j],
         Cat(z, x, m), Cat(t, z, y)
  PROVE  Within(t, s, i, m)
<1>1. /\ z \in Seq(Block) /\ Len(z) = (i - 1) + q
      /\ \A j \in 1 .. i - 1 : z[j] = x[j]
      /\ \A j \in 1 .. q : z[(i - 1) + j] = m[j]
  BY Zenon DEF Cat
<1>2. /\ t \in Seq(Block) /\ Len(t) = ((i - 1) + q) + (n - i)
      /\ \A j \in 1 .. (i - 1) + q : t[j] = z[j]
      /\ \A j \in 1 .. n - i : t[((i - 1) + q) + j] = y[j]
  BY <1>1, Zenon DEF Cat
<1>3. ASSUME NEW j \in 1 .. i - 1
      PROVE  t[j] = s[j]
  <2>1. j \in 1 .. (i - 1) + q
    OBVIOUS
  <2>2. QED
    BY <1>1, <1>2, <2>1, Zenon
<1>4. ASSUME NEW j \in 1 .. q
      PROVE  t[(i - 1) + j] = m[j]
  <2>1. (i - 1) + j \in 1 .. (i - 1) + q
    OBVIOUS
  <2>2. QED
    BY <1>1, <1>2, <2>1, Zenon
<1>5. \A j \in 1 .. n - i : t[((i - 1) + q) + j] = s[i + j]
  BY <1>2, Zenon
<1>6. QED
  BY <1>2, <1>3, <1>4, <1>5, Zenon DEF Within

LEMMA Around ==
  ASSUME NEW s \in Seq(Block), NEW i \in 1 .. Len(s), NEW m \in Seq(Block)
  PROVE  Within(SubSeq(s, 1, i - 1) \o m \o SubSeq(s, i + 1, Len(s)), s, i, m)
<1> DEFINE x == SubSeq(s, 1, i - 1)
           y == SubSeq(s, i + 1, Len(s))
           z == x \o m
           t == z \o y
           n == Len(s)
           q == Len(m)
<1>1. x \in Seq(Block) /\ Len(x) = i - 1 /\ \A j \in 1 .. i - 1 : x[j] = s[j]
  BY Before
<1>2. y \in Seq(Block) /\ Len(y) = n - i /\ \A j \in 1 .. n - i : y[j] = s[i + j]
  BY After
<1>3. n \in Nat /\ n = Len(s) /\ i \in 1 .. n /\ q \in Nat /\ q = Len(m)
  OBVIOUS
<1> SUFFICES Within(t, s, i, m)
  OBVIOUS
<1> HIDE DEF x, y, n, q
<1>4. Cat(z, x, m)
  BY <1>1, CatIs
<1> HIDE DEF z
<1>5. z \in Seq(Block)
  BY <1>4 DEF Cat
<1>6. Cat(t, z, y)
  BY <1>2, <1>5, CatIs
<1> HIDE DEF t
<1>7. QED
  BY <1>1, <1>2, <1>3, <1>4, <1>6, CatWithin

LEMMA WithinParted ==
  ASSUME NEW s \in Seq(Block), NEW n \in Nat, n = Len(s), NEW i \in 1 .. n, NEW m,
         Len(m) = 2, NEW t, Within(t, s, i, m)
  PROVE  t \in Seq(Block) /\ Parted(t, s, i, m[1], m[2])
<1>1. /\ t \in Seq(Block) /\ Len(t) = ((i - 1) + 2) + (n - i)
      /\ \A j \in 1 .. i - 1 : t[j] = s[j]
      /\ \A j \in 1 .. 2 : t[(i - 1) + j] = m[j]
      /\ \A j \in 1 .. n - i : t[((i - 1) + 2) + j] = s[i + j]
  BY Zenon DEF Within
<1>2. Len(t) = n + 1
  BY <1>1
<1>3. t[i] = m[1] /\ t[i + 1] = m[2]
  <2>1. 1 \in 1 .. 2 /\ 2 \in 1 .. 2 /\ (i - 1) + 1 = i /\ (i - 1) + 2 = i + 1
    OBVIOUS
  <2>2. t[(i - 1) + 1] = m[1] /\ t[(i - 1) + 2] = m[2]
    BY <1>1, <2>1, Zenon
  <2>3. QED
    BY <2>1, <2>2, Zenon
<1>4. ASSUME NEW j \in i + 1 .. n
      PROVE  t[j + 1] = s[j]
  <2>1. j - i \in 1 .. n - i /\ ((i - 1) + 2) + (j - i) = j + 1 /\ i + (j - i) = j
    OBVIOUS
  <2>2. t[((i - 1) + 2) + (j - i)] = s[i + (j - i)]
    BY <1>1, <2>1, Zenon
  <2>3. QED
    BY <2>1, <2>2, Zenon
<1>5. QED
  BY <1>1, <1>2, <1>3, <1>4, Zenon DEF Parted

LEMMA WithinPut ==
  ASSUME NEW s \in Seq(Block), NEW n \in Nat, n = Len(s), NEW i \in 1 .. n, NEW m,
         Len(m) = 1, NEW t, Within(t, s, i, m)
  PROVE  Put(t, s, i, m[1])
<1>1. /\ t \in Seq(Block) /\ Len(t) = ((i - 1) + 1) + (n - i)
      /\ \A j \in 1 .. i - 1 : t[j] = s[j]
      /\ \A j \in 1 .. 1 : t[(i - 1) + j] = m[j]
      /\ \A j \in 1 .. n - i : t[((i - 1) + 1) + j] = s[i + j]
  BY Zenon DEF Within
<1>2. Len(t) = n
  BY <1>1
<1>3. t[i] = m[1]
  <2>1. 1 \in 1 .. 1 /\ (i - 1) + 1 = i
    OBVIOUS
  <2>2. t[(i - 1) + 1] = m[1]
    BY <1>1, <2>1, Zenon
  <2>3. QED
    BY <2>1, <2>2, Zenon
<1>4. ASSUME NEW j \in 1 .. n, j # i
      PROVE  t[j] = s[j]
  <2>1. CASE j \in 1 .. i - 1
    BY <1>1, <2>1, Zenon
  <2>2. CASE j \in i + 1 .. n
    <3>1. j - i \in 1 .. n - i /\ ((i - 1) + 1) + (j - i) = j /\ i + (j - i) = j
      BY <2>2
    <3>2. t[((i - 1) + 1) + (j - i)] = s[i + (j - i)]
      BY <1>1, <3>1, Zenon
    <3>3. QED
      BY <3>1, <3>2, Zenon
  <2>3. j \in 1 .. i - 1 \/ j \in i + 1 .. n
    BY <1>4
  <2>4. QED
    BY <2>1, <2>2, <2>3, Zenon
<1>5. QED
  BY <1>1, <1>2, <1>3, <1>4, Zenon DEF Put

\* b and c are put for the i-th block.
LEMMA PartIs ==
  ASSUME NEW s \in Seq(Block), NEW i \in 1 .. Len(s), NEW b \in Block, NEW c \in Block
  PROVE  LET t == SubSeq(s, 1, i - 1) \o <<b, c>> \o SubSeq(s, i + 1, Len(s))
         IN  t \in Seq(Block) /\ Parted(t, s, i, b, c)
<1> DEFINE m == <<b, c>>
           t == SubSeq(s, 1, i - 1) \o m \o SubSeq(s, i + 1, Len(s))
           n == Len(s)
<1>1. n \in Nat /\ n = Len(s) /\ i \in 1 .. n
  OBVIOUS
<1>2. m \in Seq(Block) /\ Len(m) = 2 /\ m[1] = b /\ m[2] = c
  OBVIOUS
<1> SUFFICES t \in Seq(Block) /\ Parted(t, s, i, b, c)
  OBVIOUS
<1> HIDE DEF m, n
<1>3. Within(t, s, i, m)
  BY <1>1, <1>2, Around
<1> HIDE DEF t
<1>4. t \in Seq(Block) /\ Parted(t, s, i, m[1], m[2])
  BY <1>1, <1>2, <1>3, WithinParted
<1>5. QED
  BY <1>2, <1>4, Zenon

\* b is put for the i-th block.
LEMMA TakeIs ==
  ASSUME NEW s \in Seq(Block), NEW i \in 1 .. Len(s), NEW b \in Block
  PROVE  Put(SubSeq(s, 1, i - 1) \o <<b>> \o SubSeq(s, i + 1, Len(s)), s, i, b)
<1> DEFINE m == <<b>>
           t == SubSeq(s, 1, i - 1) \o m \o SubSeq(s, i + 1, Len(s))
           n == Len(s)
<1>1. n \in Nat /\ n = Len(s) /\ i \in 1 .. n
  OBVIOUS
<1>2. m \in Seq(Block) /\ Len(m) = 1 /\ m[1] = b
  OBVIOUS
<1> SUFFICES Put(t, s, i, b)
  OBVIOUS
<1> HIDE DEF m, n
<1>3. Within(t, s, i, m)
  BY <1>1, <1>2, Around
<1> HIDE DEF t
<1>4. Put(t, s, i, m[1])
  BY <1>1, <1>2, <1>3, WithinPut
<1>5. QED
  BY <1>2, <1>4, Zenon

\* Merge gives a block as long as both.
LEMMA MergeIs ==
  ASSUME NEW b \in Block, NEW c \in Block, c.addr = End(b)
  PROVE  /\ Merge(b, c) \in Block /\ Merge(b, c).addr = b.addr
         /\ Merge(b, c).free = b.free /\ End(Merge(b, c)) = End(c)
<1> DEFINE m == Merge(b, c)
<1>1. m = [addr |-> b.addr, size |-> b.size + HEADER + c.size, free |-> b.free]
  BY DEF Merge, Block
<1>2. m.addr = b.addr /\ m.size = b.size + HEADER + c.size /\ m.free = b.free
  BY <1>1
<1>3. /\ b.addr \in Nat /\ b.size \in Nat /\ b.free \in BOOLEAN
      /\ c.addr \in Nat /\ c.size \in Nat /\ HEADER \in Nat
      /\ c.addr = b.addr + HEADER + b.size
  BY LibcAssumption DEF Block, End
<1>4. m \in Block
  BY <1>1, <1>3 DEF Block
<1> HIDE DEF m
<1>5. End(m) = End(c)
  BY <1>2, <1>3 DEF End
<1>6. QED
  BY <1>2, <1>4, <1>5 DEF m

\* The block taken for n bytes: split, or as it is.
GivenOut(b, n, t) ==
  /\ t \in Block /\ t.addr = b.addr /\ ~ t.free /\ t.size >= n

LEMMA SplitIs ==
  ASSUME NEW b \in Block, NEW n \in Nat, b.size >= n
  PROVE  \/ \E t, c \in Block :
              /\ Split(b, n) = <<t, c>> /\ GivenOut(b, n, t)
              /\ c.free /\ c.addr = End(t) /\ End(c) = End(b)
         \/ \E t \in Block : Split(b, n) = <<t>> /\ GivenOut(b, n, t) /\ End(t) = End(b)
<1>1. /\ b.addr \in Nat /\ b.size \in Nat /\ b.free \in BOOLEAN /\ HEADER \in Nat
      /\ b = [addr |-> b.addr, size |-> b.size, free |-> b.free]
  BY LibcAssumption DEF Block
<1>2. CASE b.size >= n + HEADER + 8
  <2> DEFINE t == [b EXCEPT !.size = n, !.free = FALSE]
             c == [addr |-> b.addr + HEADER + n, size |-> b.size - n - HEADER, free |-> TRUE]
  <2>1. Split(b, n) = <<t, c>>
    BY <1>2, Zenon DEF Split
  <2>2. t \in Block
    BY DEF Block
  <2>3. t \in Block /\ t.addr = b.addr /\ t.size = n /\ t.free = FALSE
    BY <2>2 DEF Block
  <2>4. b.size - n - HEADER \in Nat /\ b.addr + HEADER + n \in Nat
    BY <1>1, <1>2
  <2>5. c \in Block /\ c.addr = b.addr + HEADER + n /\ c.size = b.size - n - HEADER /\ c.free = TRUE
    BY <2>4 DEF Block
  <2> HIDE DEF t, c
  <2>6. c.addr = End(t) /\ End(c) = End(b)
    BY <1>1, <2>3, <2>5 DEF End
  <2>7. t.size >= n
    BY <2>3
  <2>8. GivenOut(b, n, t)
    BY <2>3, <2>7 DEF GivenOut
  <2>9. QED
    BY <2>1, <2>3, <2>5, <2>6, <2>8, Zenon
<1>3. CASE ~ (b.size >= n + HEADER + 8)
  <2> DEFINE t == [b EXCEPT !.free = FALSE]
  <2>1. Split(b, n) = <<t>>
    BY <1>3, Zenon DEF Split
  <2>2. t \in Block
    BY DEF Block
  <2>3. t \in Block /\ t.addr = b.addr /\ t.size = b.size /\ t.free = FALSE
    BY <2>2 DEF Block
  <2> HIDE DEF t
  <2>4. End(t) = End(b)
    BY <2>3 DEF End
  <2>5. GivenOut(b, n, t)
    BY <2>3 DEF GivenOut
  <2>6. QED
    BY <2>1, <2>3, <2>4, <2>5, Zenon
<1>4. QED
  BY <1>2, <1>3

\* A size that does not wrap is rounded up.
LEMMA AlignIs ==
  ASSUME NEW size \in Nat
  PROVE  /\ Align(size) \in Nat
         /\ size + 7 < Word => Align(size) >= size
<1>1. Word \in Nat \ {0}
  BY LibcAssumption
<1> DEFINE x == (size + 7) % Word
<1>2. x \in Nat
  BY <1>1
<1>3. size + 7 < Word => x = size + 7
  BY <1>1
<1> HIDE DEF x
<1>4. (x \div 8) * 8 \in Nat /\ (x \div 8) * 8 >= x - 7
  BY <1>2
<1>5. Align(size) = (x \div 8) * 8
  BY DEF Align, x
<1> DEFINE y == (x \div 8) * 8
<1> HIDE DEF y
<1>6. y \in Nat /\ y >= x - 7 /\ Align(size) = y
  BY <1>4, <1>5 DEF y
<1>7. QED
  BY <1>2, <1>3, <1>6

\* The first block that is free and large enough.
LEMMA FitIs ==
  ASSUME Chain(Blocks), NEW n \in Nat, NEW i, i = FirstFit(n)
  PROVE  i = 0 \/ (i # 0 /\ i \in 1 .. Len(Blocks) /\ Blocks[i].free /\ Blocks[i].size >= n)
<1> DEFINE I == {k \in 1 .. Len(Blocks) : Blocks[k].free /\ Blocks[k].size >= n}
<1>1. I \in SUBSET Nat /\ 0 \notin I
  BY DEF Chain
<1>2. i = IF I # {} THEN Min(I) ELSE 0
  BY Zenon DEF FirstFit, SelectInSeq
<1> HIDE DEF I
<1>3. CASE I = {}
  BY <1>2, <1>3
<1>4. CASE I # {}
  <2>1. Min(I) \in I
    BY <1>1, <1>4, MinIs
  <2>2. i = Min(I)
    BY <1>2, <1>4
  <2>3. QED
    BY <1>1, <2>1, <2>2 DEF I
<1>5. QED
  BY <1>3, <1>4

\* The block of a pointer.
LEMMA BlockOfIs ==
  ASSUME NEW s, Chain(s), NEW i \in 1 .. Len(s), NEW p, s[i].addr = p - HEADER
  PROVE  BlockOf(s, p) = i
<1> DEFINE I == {k \in 1 .. Len(s) : s[k].addr = p - HEADER}
<1>1. I \in SUBSET Nat /\ i \in I
  BY DEF Chain
<1>2. I # {} /\ BlockOf(s, p) = IF I # {} THEN Min(I) ELSE 0
  BY <1>1, Zenon DEF BlockOf, SelectInSeq
<1> HIDE DEF I
<1>3. Min(I) \in I
  BY <1>1, <1>2, MinIs
<1>4. BlockOf(s, p) = Min(I)
  BY <1>2
<1>5. Min(I) \in 1 .. Len(s) /\ s[Min(I)].addr = s[i].addr
  BY <1>3 DEF I
<1>6. QED
  BY <1>4, <1>5, AddrsDiffer

(***************************************************************************)
(* What callers hold.                                                      *)
(***************************************************************************)
\* The blocks U are those of the pointers in hl, each as large as asked.
Holds(U, hl) ==
  /\ \A b \in U : b.addr + HEADER \in DOMAIN hl
  /\ \A p \in DOMAIN hl :
       \E b \in U : /\ p = b.addr + HEADER /\ hl[p] \in Nat
                    /\ hl[p] + 7 < Word => b.size >= hl[p]

HeapInv(s, hl) ==
  /\ s = <<>> \/ (Chain(s) /\ NoPair(s))
  /\ Holds(Used(s), hl)

\* hl with p for need bytes.
Given(hl, p, need) == [q \in DOMAIN hl \cup {p} |-> IF q = p THEN need ELSE hl[q]]

\* The list s with n bytes taken from its i-th block.
Placed(s, i, n) == SubSeq(s, 1, i - 1) \o Split(s[i], n) \o SubSeq(s, i + 1, Len(s))

LEMMA AtLeast ==
  ASSUME NEW a \in Nat, NEW b \in Nat, NEW c \in Nat, a >= b, b >= c
  PROVE  a >= c
OBVIOUS

LEMMA SameOffset ==
  ASSUME NEW a \in Nat, NEW b \in Nat, NEW c \in Nat, a + c = b + c
  PROVE  a = b
OBVIOUS

\* The block b is given out for a pointer that nobody held.
LEMMA HoldsTaken ==
  ASSUME NEW s, Chain(s), NEW i \in 1 .. Len(s), s[i].free, NEW hl, Holds(Used(s), hl),
         NEW b, b.addr = s[i].addr, NEW need \in Nat, need + 7 < Word => b.size >= need,
         NEW p, p = b.addr + HEADER, NEW hm,
         hm = Given(hl, p, need)
  PROVE  p \notin DOMAIN hl /\ Holds(Used(s) \cup {b}, hm)
<1>1. ASSUME NEW c \in Used(s)
      PROVE  c.addr + HEADER # p
  <2>1. PICK k \in 1 .. Len(s) : c = s[k] /\ ~ s[k].free
    BY DEF Used
  <2>2. s[k] \in Block /\ s[i] \in Block
    BY DEF Chain
  <2>3. s[k].addr \in Nat /\ s[i].addr \in Nat /\ HEADER \in Nat
    BY <2>2, LibcAssumption DEF Block
  <2>4. s[k].addr # s[i].addr
    BY <2>1, AddrsDiffer
  <2>5. s[k].addr + HEADER # s[i].addr + HEADER
    BY <2>3, <2>4, SameOffset
  <2>6. QED
    BY <2>1, <2>5, Zenon
<1>2. p \notin DOMAIN hl
  BY <1>1 DEF Holds
<1>3. DOMAIN hm = DOMAIN hl \cup {p} /\ hm[p] = need /\ \A q \in DOMAIN hl : hm[q] = hl[q]
  BY <1>2 DEF Given
<1>4. \A c \in Used(s) \cup {b} : c.addr + HEADER \in DOMAIN hm
  BY <1>3 DEF Holds
<1>5. ASSUME NEW q \in DOMAIN hm
      PROVE  \E c \in Used(s) \cup {b} :
               /\ q = c.addr + HEADER /\ hm[q] \in Nat
               /\ hm[q] + 7 < Word => c.size >= hm[q]
  <2>1. CASE q = p
    BY <1>3, <2>1
  <2>2. CASE q \in DOMAIN hl
    <3>1. PICK c \in Used(s) : /\ q = c.addr + HEADER /\ hl[q] \in Nat
                               /\ hl[q] + 7 < Word => c.size >= hl[q]
      BY <2>2 DEF Holds
    <3>2. hm[q] = hl[q]
      BY <1>3, <2>2
    <3>3. QED
      BY <3>1, <3>2
  <2>3. QED
    BY <1>3, <2>1, <2>2
<1>6. QED
  BY <1>2, <1>4, <1>5 DEF Holds

\* hl without p.
Without(hl, p) == [q \in DOMAIN hl \ {p} |-> hl[q]]

\* The block of p is given back.
LEMMA HoldsReleased ==
  ASSUME NEW s, Chain(s), NEW i \in 1 .. Len(s), ~ s[i].free, NEW hl, Holds(Used(s), hl),
         NEW p, p = s[i].addr + HEADER
  PROVE  Holds(Used(s) \ {s[i]}, Without(hl, p))
<1> DEFINE hm == Without(hl, p)
<1>1. ASSUME NEW c \in Used(s), c.addr + HEADER = p
      PROVE  c = s[i]
  <2>1. PICK k \in 1 .. Len(s) : c = s[k] /\ ~ s[k].free
    BY DEF Used
  <2>2. s[k] \in Block /\ s[i] \in Block
    BY DEF Chain
  <2>3. s[k].addr \in Nat /\ s[i].addr \in Nat /\ HEADER \in Nat
    BY <2>2, LibcAssumption DEF Block
  <2>4. s[k].addr = s[i].addr
    <3>1. s[k].addr + HEADER = s[i].addr + HEADER
      BY <1>1, <2>1, Zenon
    <3>2. QED
      BY <2>3, <3>1, SameOffset
  <2>5. QED
    BY <2>1, <2>4, AddrsDiffer
<1>2. DOMAIN hm = DOMAIN hl \ {p} /\ \A q \in DOMAIN hm : hm[q] = hl[q]
  BY DEF Without
<1>3. \A c \in Used(s) \ {s[i]} : c.addr + HEADER \in DOMAIN hm
  BY <1>1, <1>2 DEF Holds
<1> HIDE DEF hm
<1>4. ASSUME NEW q \in DOMAIN hm
      PROVE  \E c \in Used(s) \ {s[i]} :
               /\ q = c.addr + HEADER /\ hm[q] \in Nat
               /\ hm[q] + 7 < Word => c.size >= hm[q]
  <2>1. PICK c \in Used(s) : /\ q = c.addr + HEADER /\ hl[q] \in Nat
                             /\ hl[q] + 7 < Word => c.size >= hl[q]
    BY <1>2 DEF Holds
  <2>2. c # s[i] /\ hm[q] = hl[q]
    BY <1>2, <2>1
  <2>3. QED
    BY <2>1, <2>2
<1>5. QED
  BY <1>3, <1>4 DEF Holds, hm

\* A pointer that is held has a block in use, the one that BlockOf finds.
LEMMA HeldBlock ==
  ASSUME NEW s, Chain(s), NEW hl, Holds(Used(s), hl), NEW p \in DOMAIN hl
  PROVE  LET i == BlockOf(s, p)
         IN  /\ i \in 1 .. Len(s) /\ ~ s[i].free /\ p = s[i].addr + HEADER
             /\ hl[p] \in Nat
             /\ hl[p] + 7 < Word => s[i].size >= hl[p]
<1>1. PICK b \in Used(s) : /\ p = b.addr + HEADER /\ hl[p] \in Nat
                           /\ hl[p] + 7 < Word => b.size >= hl[p]
  BY DEF Holds
<1>2. PICK k \in 1 .. Len(s) : b = s[k] /\ ~ s[k].free
  BY DEF Used
<1>3. s[k].addr \in Nat /\ HEADER \in Nat
  <2>1. s[k] \in Block
    BY DEF Chain
  <2>2. QED
    BY <2>1, LibcAssumption DEF Block
<1>4. s[k].addr = p - HEADER
  BY <1>1, <1>2, <1>3
<1>5. BlockOf(s, p) = k
  BY <1>4, BlockOfIs
<1>6. QED
  BY <1>1, <1>2, <1>5

(***************************************************************************)
(* malloc                                                                  *)
(***************************************************************************)
LEMMA BlocksInv ==
  ASSUME HeapInv(heap, held)
  PROVE  Chain(Blocks) /\ NoPair(Blocks) /\ Holds(Used(Blocks), held)
<1>1. CASE heap # <<>>
  BY <1>1 DEF HeapInv, Blocks
<1>2. CASE heap = <<>>
  <2> DEFINE b == [addr |-> 0, size |-> HEAP_SIZE - HEADER, free |-> TRUE]
             s == <<b>>
  <2>1. Blocks = s
    BY <1>2 DEF Blocks
  <2>2. HEADER \in Nat /\ HEAP_SIZE \in Nat /\ HEAP_SIZE - HEADER \in Nat
    BY LibcAssumption
  <2>3. b \in Block /\ b.addr = 0 /\ b.size = HEAP_SIZE - HEADER /\ b.free = TRUE
    BY <2>2 DEF Block
  <2> HIDE DEF b
  <2>4. s \in Seq(Block) /\ Len(s) = 1 /\ s[1] = b
    BY <2>3
  <2> HIDE DEF s
  <2>5. End(b) = HEAP_SIZE
    BY <2>2, <2>3 DEF End
  <2>6. Chain(s)
    <3> HIDE DEF End
    <3>1. s[1].addr = 0 /\ End(s[Len(s)]) = HEAP_SIZE
      BY <2>3, <2>4, <2>5, Zenon
    <3>2. 1 .. Len(s) - 1 = {} /\ \A i, j \in 1 .. Len(s) : ~ (i < j)
      BY <2>4
    <3>3. s # <<>>
      <4>1. Len(<<>>) = 0 /\ 1 # 0
        OBVIOUS
      <4>2. QED
        BY <2>4, <4>1, Zenon
    <3>4. QED
      BY <2>4, <3>1, <3>2, <3>3, Zenon DEF Chain
  <2>7. NoPair(s)
    BY <2>4 DEF NoPair
  <2>8. Used(s) = {}
    BY <2>3, <2>4 DEF Used
  <2>9. Used(heap) = {}
    <3>1. Len(heap) = 0
      BY <1>2
    <3>2. QED
      BY <3>1 DEF Used
  <2>10. QED
    BY <2>1, <2>6, <2>7, <2>8, <2>9 DEF HeapInv
<1>3. QED
  BY <1>1, <1>2

\* What malloc leaves: the block i of s is the one taken for need bytes.
LEMMA TakenInv ==
  ASSUME NEW s, Chain(s), NoPair(s), NEW hl, Holds(Used(s), hl),
         NEW i \in 1 .. Len(s), s[i].free, NEW n \in Nat, s[i].size >= n,
         NEW need \in Nat, need + 7 < Word => n >= need,
         NEW p, p = s[i].addr + HEADER,
         NEW hm, hm = Given(hl, p, need),
         NEW t, t = Placed(s, i, n)
  PROVE  p \notin DOMAIN hl /\ Chain(t) /\ NoPair(t) /\ Holds(Used(t), hm)
<1>1. s \in Seq(Block) /\ s[i] \in Block
  BY DEF Chain
<1>2. ASSUME NEW b \in Block, GivenOut(s[i], n, b)
      PROVE  p \notin DOMAIN hl /\ Holds(Used(s) \cup {b}, hm)
  <2>1. b.addr = s[i].addr /\ b.size >= n /\ b.size \in Nat
    BY <1>2 DEF GivenOut, Block
  <2>2. need + 7 < Word => b.size >= need
    <3>1. ASSUME need + 7 < Word
          PROVE  b.size >= need
      <4>1. n >= need
        BY <3>1
      <4>2. QED
        BY <2>1, <4>1, AtLeast
    <3>2. QED
      BY <3>1
  <2>3. p = b.addr + HEADER
    BY <2>1
  <2>4. QED
    BY <2>1, <2>2, <2>3, HoldsTaken
<1>3. CASE \E b, c \in Block :
             /\ Split(s[i], n) = <<b, c>> /\ GivenOut(s[i], n, b)
             /\ c.free /\ c.addr = End(b) /\ End(c) = End(s[i])
  <2>1. PICK b \in Block, c \in Block :
             /\ Split(s[i], n) = <<b, c>> /\ GivenOut(s[i], n, b)
             /\ c.free /\ c.addr = End(b) /\ End(c) = End(s[i])
    BY <1>3
  <2>2. t = SubSeq(s, 1, i - 1) \o <<b, c>> \o SubSeq(s, i + 1, Len(s))
    BY <2>1, Zenon DEF Placed
  <2>3. t \in Seq(Block) /\ Parted(t, s, i, b, c)
    BY <1>1, <2>2, PartIs, Zenon
  <2>4. b.addr = s[i].addr /\ ~ b.free
    BY <2>1 DEF GivenOut
  <2> HIDE <2>2
  <2>5. Chain(t)
    BY <2>1, <2>3, <2>4, SplitChain
  <2>6. Used(t) = Used(s) \cup {b} /\ NoPair(t)
    BY <1>1, <2>1, <2>3, <2>4, UsedSplit
  <2>7. QED
    BY <1>2, <2>1, <2>5, <2>6, Zenon
<1>4. CASE \E b \in Block : Split(s[i], n) = <<b>> /\ GivenOut(s[i], n, b) /\ End(b) = End(s[i])
  <2>1. PICK b \in Block : Split(s[i], n) = <<b>> /\ GivenOut(s[i], n, b) /\ End(b) = End(s[i])
    BY <1>4
  <2>2. t = SubSeq(s, 1, i - 1) \o <<b>> \o SubSeq(s, i + 1, Len(s))
    BY <2>1, Zenon DEF Placed
  <2>3. Put(t, s, i, b)
    BY <1>1, <2>2, TakeIs, Zenon
  <2>4. b.addr = s[i].addr /\ ~ b.free
    BY <2>1 DEF GivenOut
  <2>5. /\ t \in Seq(Block) /\ Len(t) = Len(s) /\ t[i] = b
        /\ \A j \in 1 .. Len(s) : j # i => t[j] = s[j]
    BY <2>3, Zenon DEF Put
  <2>6. Chain(t)
    <3>1. \A k \in 1 .. Len(s) : t[k].addr = s[k].addr /\ End(t[k]) = End(s[k])
      BY <2>1, <2>4, <2>5, Zenon
    <3>2. QED
      BY <2>5, <3>1, FlagChain, Zenon
  <2>7. Used(t) = Used(s) \cup {b} /\ NoPair(t)
    BY <1>1, <2>4, <2>5, UsedTake, Zenon
  <2>8. QED
    BY <1>2, <2>1, <2>6, <2>7, Zenon
<1>5. QED
  BY <1>1, <1>3, <1>4, SplitIs, Zenon

\* malloc(size) for a caller who needs need bytes: nothing is lost, and a new
\* pointer is one that nobody holds.
LEMMA MallocInv ==
  ASSUME HeapInv(heap, held), NEW size \in Nat, NEW need \in Nat, need + 7 < Word => need = size
  PROVE  /\ HeapInv(MallocList(size), Hold(MallocPtr(size), need))
         /\ MallocPtr(size) = NULL \/ MallocPtr(size) \notin DOMAIN held
<1> DEFINE n == Align(size)
           i == FirstFit(n)
           s == Blocks
           p == MallocPtr(size)
           t == MallocList(size)
<1>1. Chain(s) /\ NoPair(s) /\ Holds(Used(s), held)
  BY BlocksInv
<1>2. n \in Nat /\ (need + 7 < Word => n >= need)
  BY AlignIs
<1>3. i = 0 \/ (i # 0 /\ i \in 1 .. Len(s) /\ s[i].free /\ s[i].size >= n)
  BY <1>1, <1>2, FitIs
<1>4. CASE size = 0
  <2>1. p = NULL /\ t = heap
    BY <1>4 DEF MallocPtr, MallocList
  <2>2. QED
    BY <2>1 DEF Hold
<1>5. CASE size # 0 /\ i = 0
  <2>1. p = NULL /\ t = s
    BY <1>5 DEF MallocPtr, MallocList
  <2>2. QED
    BY <1>1, <2>1 DEF Hold, HeapInv
<1>6. CASE size # 0 /\ i # 0
  <2>1. /\ p = s[i].addr + HEADER
        /\ t = Placed(s, i, n)
    BY <1>6, Zenon DEF MallocPtr, MallocList, Placed
  <2>2. i \in 1 .. Len(s) /\ s[i].free /\ s[i].size >= n
    BY <1>3, <1>6
  <2>3. p # NULL
    <3>1. s[i] \in Block
      BY <1>1, <2>2 DEF Chain
    <3>2. s[i].addr \in Nat /\ HEADER \in Nat
      BY <3>1, LibcAssumption DEF Block
    <3> HIDE DEF i, s, p, t, n
    <3>3. s[i].addr + HEADER # NULL
      BY <3>2 DEF NULL
    <3>4. QED
      BY <2>1, <3>3, Zenon
  <2> DEFINE hm == Hold(p, need)
  <2>4. hm = Given(held, p, need)
    BY <2>3, Zenon DEF Hold, Given
  <2> HIDE DEF n, i, s, p, t, hm
  <2>5. p \notin DOMAIN held /\ Chain(t) /\ NoPair(t) /\ Holds(Used(t), hm)
    BY <1>1, <1>2, <2>1, <2>2, <2>4, TakenInv
  <2>6. HeapInv(t, hm)
    BY <2>5, Zenon DEF HeapInv
  <2>7. QED
    BY <2>5, <2>6, Zenon DEF p, t, hm
<1>7. QED
  BY <1>4, <1>5, <1>6

(***************************************************************************)
(* free                                                                    *)
(***************************************************************************)
\* r is s with another i-th block, t is s with one block for the i-th and the next.
PartedPut(s, r, t, i) ==
  /\ Put(r, s, i, r[i]) /\ Parted(s, t, i, s[i], s[i + 1])

LEMMA PartedOther ==
  ASSUME NEW s \in Seq(Block), NEW i, NEW r, NEW t, PartedPut(s, r, t, i)
  PROVE  Parted(r, t, i, r[i], r[i + 1])
<1>1. /\ Len(s) \in Nat /\ i \in 1 .. Len(t) /\ Len(s) = Len(t) + 1
      /\ \A j \in 1 .. i - 1 : s[j] = t[j]
      /\ \A j \in i + 1 .. Len(t) : s[j + 1] = t[j]
      /\ Len(t) \in Nat
  BY DEF PartedPut, Parted
<1>2. Len(r) = Len(s) /\ \A j \in 1 .. Len(s) : j # i => r[j] = s[j]
  BY DEF PartedPut, Put
<1>3. ASSUME NEW j \in 1 .. i - 1
      PROVE  r[j] = t[j]
  <2>1. j \in 1 .. Len(s) /\ j # i
    BY <1>1
  <2>2. QED
    BY <1>1, <1>2, <2>1, Zenon
<1>4. ASSUME NEW j \in i + 1 .. Len(t)
      PROVE  r[j + 1] = t[j]
  <2>1. j + 1 \in 1 .. Len(s) /\ j + 1 # i
    BY <1>1
  <2>2. r[j + 1] = s[j + 1] /\ s[j + 1] = t[j]
    BY <1>1, <1>2, <2>1
  <2>3. QED
    BY <2>2, Zenon
<1>5. QED
  BY <1>1, <1>2, <1>3, <1>4, Zenon DEF Parted

\* t is s with one block for the i-th and the next: they are chained, the same are
\* in use, and only before i can two free blocks follow each other.
Merged(t, s, i) ==
  /\ Chain(t) /\ Used(t) = Used(s) /\ i \in 1 .. Len(t) /\ t[i].free
  /\ \A k \in 1 .. Len(t) - 1 : t[k].free /\ t[k + 1].free => k = i - 1

\* s with the i-th block given back, before anything is merged.
Loose(r, i) ==
  /\ Chain(r) /\ i \in 1 .. Len(r) /\ r[i].free
  /\ \A k \in 1 .. Len(r) - 1 : r[k].free /\ r[k + 1].free => k = i - 1 \/ k = i

LEMMA LooseMerge ==
  ASSUME NEW r, NEW i, Loose(r, i), i < Len(r), r[i + 1].free, NEW t \in Seq(Block),
         Parted(r, t, i, r[i], r[i + 1]), t[i] = Merge(r[i], r[i + 1])
  PROVE  /\ Merged(t, r, i)
         /\ \A k \in 1 .. Len(t) - 1 :
              t[k].free /\ t[k + 1].free => k = i - 1 /\ r[k].free /\ r[k + 1].free
<1>1. /\ Chain(r) /\ r \in Seq(Block) /\ Len(r) \in Nat /\ i \in 1 .. Len(r) - 1
      /\ i \in 1 .. Len(r) /\ i + 1 \in 1 .. Len(r) /\ r[i].free
  BY DEF Loose, Chain
<1>2. r[i] \in Block /\ r[i + 1] \in Block /\ r[i + 1].addr = End(r[i])
  <2>1. \A k \in 1 .. Len(r) - 1 : End(r[k]) = r[k + 1].addr
    BY <1>1 DEF Chain
  <2>2. \A k \in 1 .. Len(r) : r[k] \in Block
    BY <1>1
  <2>3. QED
    BY <1>1, <2>1, <2>2, Zenon
<1>3. t[i].addr = r[i].addr /\ t[i].free = r[i].free /\ End(t[i]) = End(r[i + 1])
  <2> DEFINE m == Merge(r[i], r[i + 1])
  <2>1. m.addr = r[i].addr /\ m.free = r[i].free /\ End(m) = End(r[i + 1])
    BY <1>2, MergeIs
  <2>2. QED
    BY <2>1, Zenon
<1>4. Chain(t)
  BY <1>1, <1>3, MergeChain, Zenon
<1>5. \A k \in 1 .. Len(r) - 1 : r[k].free /\ r[k + 1].free => k = i - 1 \/ k = i
  BY Zenon DEF Loose
<1>6. t[i].free
  BY <1>1, <1>3, Zenon
<1>7. /\ Used(t) = Used(r)
      /\ \A k \in 1 .. Len(t) - 1 :
           t[k].free /\ t[k + 1].free => k = i - 1 /\ r[k].free /\ r[k + 1].free
  BY <1>1, <1>5, <1>6, UsedMerge, Zenon
<1>8. i \in 1 .. Len(t)
  BY Zenon DEF Parted
<1>9. QED
  BY <1>4, <1>6, <1>7, <1>8, Zenon DEF Merged

LEMMA LoosePut ==
  ASSUME NEW s, Chain(s), NoPair(s), NEW i \in 1 .. Len(s), ~ s[i].free, NEW b, b.free,
         b.addr = s[i].addr, End(b) = End(s[i]), NEW r, Put(r, s, i, b)
  PROVE  Loose(r, i) /\ Used(r) = Used(s) \ {s[i]}
<1>1. /\ r \in Seq(Block) /\ Len(r) = Len(s) /\ r[i] = b
      /\ \A j \in 1 .. Len(s) : j # i => r[j] = s[j]
  BY Zenon DEF Put
<1> HIDE DEF End
<1>2. \A k \in 1 .. Len(s) : r[k].addr = s[k].addr /\ End(r[k]) = End(s[k])
  BY <1>1, Zenon
<1>3. Chain(r)
  BY <1>1, <1>2, FlagChain, Zenon
<1>4. r[i].free
  BY <1>1, Zenon
<1>5. /\ Used(r) = Used(s) \ {s[i]}
      /\ \A k \in 1 .. Len(r) - 1 : r[k].free /\ r[k + 1].free => k = i - 1 \/ k = i
  BY <1>1, <1>4, UsedRelease
<1>6. QED
  BY <1>1, <1>3, <1>4, <1>5, Zenon DEF Loose

LEMMA Flagged ==
  ASSUME NEW s, Chain(s), NoPair(s), NEW i \in 1 .. Len(s), ~ s[i].free,
         NEW b, b = [s[i] EXCEPT !.free = TRUE], NEW r, r = [s EXCEPT ![i] = b]
  PROVE  Loose(r, i) /\ Used(r) = Used(s) \ {s[i]} /\ Put(r, s, i, b) /\ b \in Block
<1>1. s \in Seq(Block) /\ s[i] \in Block
  BY DEF Chain
<1>2. b \in Block
  BY <1>1 DEF Block
<1>3. b.addr = s[i].addr /\ b.size = s[i].size /\ b.free = TRUE
  BY <1>1 DEF Block
<1>4. End(b) = End(s[i])
  BY <1>3 DEF End
<1>5. Put(r, s, i, b)
  BY <1>1, <1>2, PutIs, Zenon
<1> HIDE DEF End
<1>6. Loose(r, i) /\ Used(r) = Used(s) \ {s[i]}
  <2>1. b.free /\ b.addr = s[i].addr
    BY <1>3, Zenon
  <2>2. QED
    BY <1>4, <1>5, <2>1, LoosePut, Zenon
<1>7. QED
  BY <1>2, <1>5, <1>6, Zenon

\* The next block is merged into the one given back.
LEMMA NextMerged ==
  ASSUME NEW s, Chain(s), NEW i \in 1 .. Len(s) - 1, NEW b \in Block, NEW r,
         Loose(r, i), Put(r, s, i, b), s[i + 1].free,
         NEW t, t = Join(s, i, Merge(b, s[i + 1]))
  PROVE  Merged(t, r, i)
<1>1. s \in Seq(Block) /\ Len(s) \in Nat /\ i \in 1 .. Len(s) /\ i + 1 \in 1 .. Len(s) /\ i + 1 # i
  BY DEF Chain
<1>2. r \in Seq(Block) /\ Len(r) = Len(s) /\ r[i] = b /\ r[i + 1] = s[i + 1]
  BY <1>1, Zenon DEF Put
<1>3. i < Len(r) /\ i \in 1 .. Len(r) - 1 /\ i + 1 \in 1 .. Len(r)
  BY <1>1, <1>2
<1>4. r[i + 1] \in Block /\ r[i + 1].addr = End(r[i])
  <2>1. \A k \in 1 .. Len(r) - 1 : End(r[k]) = r[k + 1].addr
    BY Zenon DEF Loose, Chain
  <2>2. End(r[i]) = r[i + 1].addr
    BY <1>3, <2>1, Zenon
  <2>3. r[i + 1] \in Block
    BY <1>2, <1>3
  <2>4. QED
    BY <2>2, <2>3, Zenon
<1>5. Merge(b, s[i + 1]) \in Block
  BY <1>2, <1>4, MergeIs
<1>6. t \in Seq(Block) /\ t[i] = Merge(b, s[i + 1]) /\ Parted(s, t, i, s[i], s[i + 1])
  BY <1>1, <1>5, JoinIs
<1>7. PartedPut(s, r, t, i)
  BY <1>2, <1>6, Zenon DEF PartedPut
<1>8. Parted(r, t, i, r[i], r[i + 1])
  BY <1>1, <1>7, PartedOther, Zenon
<1>9. t[i] = Merge(r[i], r[i + 1]) /\ r[i + 1].free
  BY <1>2, <1>6, Zenon
<1>10. QED
  BY <1>3, <1>6, <1>8, <1>9, LooseMerge, Zenon

\* The merged block is merged into the one before it.
LEMMA PrevMerged ==
  ASSUME NEW s, NEW i, Merged(s, s, i), i > 1, s[i - 1].free,
         NEW t, t = Join(s, i - 1, Merge(s[i - 1], s[i]))
  PROVE  Chain(t) /\ NoPair(t) /\ Used(t) = Used(s)
<1> DEFINE j == i - 1
<1>1. s \in Seq(Block) /\ Len(s) \in Nat /\ i \in 1 .. Len(s) /\ s[i].free /\ Chain(s)
  BY DEF Merged, Chain
<1>2. j \in 1 .. Len(s) - 1 /\ j + 1 = i /\ j \in 1 .. Len(s) /\ j < Len(s)
  BY <1>1
<1>3. t = Join(s, j, Merge(s[j], s[j + 1]))
  BY <1>2, Zenon
<1>4. s[j].free /\ s[j + 1].free
  BY <1>1, <1>2, Zenon
<1>5. \A k \in 1 .. Len(s) - 1 : s[k].free /\ s[k + 1].free => k = j
  BY DEF Merged
<1> HIDE DEF j
<1>6. Loose(s, j)
  BY <1>1, <1>2, <1>4, <1>5 DEF Loose
<1>7. s[j] \in Block /\ s[j + 1] \in Block /\ s[j + 1].addr = End(s[j])
  BY <1>1, <1>2 DEF Chain
<1>8. Merge(s[j], s[j + 1]) \in Block
  BY <1>7, MergeIs
<1>9. t \in Seq(Block) /\ t[j] = Merge(s[j], s[j + 1]) /\ Parted(s, t, j, s[j], s[j + 1])
  BY <1>1, <1>2, <1>3, <1>8, JoinIs, Zenon
<1>10. /\ Merged(t, s, j)
       /\ \A k \in 1 .. Len(t) - 1 :
            t[k].free /\ t[k + 1].free => k = j - 1 /\ s[k].free /\ s[k + 1].free
  BY <1>2, <1>4, <1>6, <1>9, LooseMerge
<1>11. Chain(t) /\ Used(t) = Used(s) /\ Len(t) \in Nat /\ Len(s) = Len(t) + 1
  BY <1>9, <1>10 DEF Merged, Parted
<1>12. ASSUME NEW k \in 1 .. Len(t) - 1, t[k].free, t[k + 1].free
       PROVE  FALSE
  <2>1. k = j - 1 /\ s[k].free /\ s[k + 1].free
    BY <1>10, <1>12, Zenon
  <2>2. k \in 1 .. Len(s) - 1
    BY <1>11
  <2>3. k = j
    BY <1>5, <2>1, <2>2, Zenon
  <2>4. QED
    BY <1>2, <2>1, <2>3
<1>13. QED
  BY <1>11, <1>12 DEF NoPair

\* free(p) gives back the block of p, and leaves no two free blocks in a row.
LEMMA FreeInv ==
  ASSUME NEW s, Chain(s), NoPair(s), NEW hl, Holds(Used(s), hl), NEW p \in DOMAIN hl
  PROVE  HeapInv(FreeList(s, p), Without(hl, p))
<1> DEFINE i == BlockOf(s, p)
           b == [s[i] EXCEPT !.free = TRUE]
           r == [s EXCEPT ![i] = b]
           one == IF i < Len(s) /\ s[i + 1].free
                  THEN RemoveAt([s EXCEPT ![i] = Merge(b, s[i + 1])], i + 1) ELSE r
           t == FreeList(s, p)
<1>1. i \in 1 .. Len(s) /\ ~ s[i].free /\ p = s[i].addr + HEADER
  BY HeldBlock, Zenon
<1>2. t = IF i > 1 /\ one[i - 1].free
          THEN RemoveAt([one EXCEPT ![i - 1] = Merge(one[i - 1], one[i])], i) ELSE one
  BY Zenon DEF FreeList
<1> HIDE DEF i, t
<1>3. Loose(r, i) /\ Used(r) = Used(s) \ {s[i]} /\ Put(r, s, i, b) /\ b \in Block
  BY <1>1, Flagged, Zenon
<1>4. Len(s) \in Nat
  BY DEF Chain
<1> HIDE DEF r, b
<1>5. Merged(one, one, i) /\ Used(one) = Used(r)
  <2>1. CASE i < Len(s) /\ s[i + 1].free
    <3>1. i \in 1 .. Len(s) - 1
      BY <1>1, <1>4, <2>1
    <3>2. one = Join(s, i, Merge(b, s[i + 1]))
      BY <2>1, Zenon DEF Join
    <3> HIDE DEF one
    <3>3. Merged(one, r, i)
      BY <1>3, <2>1, <3>1, <3>2, NextMerged, Zenon
    <3>4. QED
      BY <3>3, Zenon DEF Merged
  <2>2. CASE ~ (i < Len(s) /\ s[i + 1].free)
    <3>1. one = r
      BY <2>2, Zenon
    <3>2. /\ Chain(r) /\ i \in 1 .. Len(r) /\ r[i].free /\ Len(r) = Len(s)
          /\ \A k \in 1 .. Len(r) - 1 : r[k].free /\ r[k + 1].free => k = i - 1 \/ k = i
          /\ \A j \in 1 .. Len(s) : j # i => r[j] = s[j]
      BY <1>3, Zenon DEF Loose, Put
    <3>3. ASSUME NEW k \in 1 .. Len(r) - 1, r[k].free, r[k + 1].free
          PROVE  k = i - 1
      <4>1. CASE k = i
        <5>1. i + 1 \in 1 .. Len(s) /\ i + 1 # i /\ i < Len(s)
          BY <1>1, <1>4, <3>2, <4>1
        <5>2. r[i + 1] = s[i + 1]
          BY <3>2, <5>1, Zenon
        <5>3. QED
          BY <2>2, <3>3, <4>1, <5>1, <5>2, Zenon
      <4>2. QED
        BY <3>2, <3>3, <4>1, Zenon
    <3>4. Merged(r, r, i)
      BY <3>2, <3>3, Zenon DEF Merged
    <3>5. QED
      BY <3>1, <3>4, Zenon
  <2>3. QED
    BY <2>1, <2>2, Zenon
<1> HIDE DEF one
<1>6. Chain(t) /\ NoPair(t) /\ Used(t) = Used(one)
  <2>1. CASE i > 1 /\ one[i - 1].free
    <3>1. t = RemoveAt([one EXCEPT ![i - 1] = Merge(one[i - 1], one[i])], i)
      BY <1>2, <2>1, Zenon
    <3>2. (i - 1) + 1 = i
      BY <1>1, <1>4
    <3>3. t = Join(one, i - 1, Merge(one[i - 1], one[i]))
      BY <3>1, <3>2, Zenon DEF Join
    <3> HIDE <3>1
    <3>4. QED
      BY <1>5, <2>1, <3>3, PrevMerged, Zenon
  <2>2. CASE ~ (i > 1 /\ one[i - 1].free)
    <3>1. t = one
      BY <1>2, <2>2, Zenon
    <3>2. /\ Chain(one) /\ i \in 1 .. Len(one)
          /\ \A k \in 1 .. Len(one) - 1 : one[k].free /\ one[k + 1].free => k = i - 1
      BY <1>5, Zenon DEF Merged
    <3>3. ASSUME NEW k \in 1 .. Len(one) - 1, one[k].free, one[k + 1].free
          PROVE  FALSE
      <4>1. k = i - 1
        BY <3>2, <3>3, Zenon
      <4>2. i > 1
        BY <3>2, <4>1
      <4>3. QED
        BY <2>2, <3>3, <4>1, <4>2, Zenon
    <3>4. NoPair(one)
      BY <3>3, Zenon DEF NoPair
    <3>5. QED
      BY <3>1, <3>2, <3>4, Zenon
  <2>3. QED
    BY <2>1, <2>2, Zenon
<1>7. Holds(Used(s) \ {s[i]}, Without(hl, p))
  BY <1>1, HoldsReleased, Zenon
<1>8. Used(t) = Used(s) \ {s[i]}
  BY <1>3, <1>5, <1>6, Zenon
<1>9. QED
  BY <1>6, <1>7, <1>8, Zenon DEF HeapInv, t

(***************************************************************************)
(* The steps.                                                              *)
(***************************************************************************)
LEMMA Live ==
  ASSUME NEW s, NEW hl, HeapInv(s, hl), NEW p \in DOMAIN hl
  PROVE  Chain(s) /\ NoPair(s) /\ Holds(Used(s), hl)
<1>1. CASE s = <<>>
  <2>1. Len(s) = 0
    BY <1>1
  <2>2. Used(s) = {}
    BY <2>1 DEF Used
  <2>3. QED
    BY <2>2 DEF HeapInv, Holds
<1>2. QED
  BY <1>1 DEF HeapInv

LEMMA GrowInPlace ==
  ASSUME NEW s, NEW hl, HeapInv(s, hl), NEW p \in DOMAIN hl, NEW size \in Nat,
         s[BlockOf(s, p)].size >= size, NEW hm, hm = [hl EXCEPT ![p] = size]
  PROVE  HeapInv(s, hm)
<1> DEFINE i == BlockOf(s, p)
<1>1. Chain(s) /\ NoPair(s) /\ Holds(Used(s), hl)
  BY Live, Zenon
<1>2. i \in 1 .. Len(s) /\ ~ s[i].free /\ p = s[i].addr + HEADER /\ s[i].size >= size
  BY <1>1, HeldBlock, Zenon
<1> HIDE DEF i
<1>3. s[i] \in Used(s)
  BY <1>2 DEF Used
<1>4. DOMAIN hm = DOMAIN hl /\ hm[p] = size /\ \A q \in DOMAIN hl : q # p => hm[q] = hl[q]
  OBVIOUS
<1>5. ASSUME NEW q \in DOMAIN hm
      PROVE  \E b \in Used(s) : /\ q = b.addr + HEADER /\ hm[q] \in Nat
                                /\ hm[q] + 7 < Word => b.size >= hm[q]
  <2>1. CASE q = p
    <3>1. hm[q] = size /\ q = s[i].addr + HEADER
      BY <1>2, <1>4, <2>1, Zenon
    <3>2. QED
      BY <1>2, <1>3, <3>1, Zenon
  <2>2. CASE q # p
    <3>1. hm[q] = hl[q] /\ q \in DOMAIN hl
      BY <1>4, <2>2, Zenon
    <3>2. QED
      BY <1>1, <3>1, Zenon DEF Holds
  <2>3. QED
    BY <2>1, <2>2, Zenon
<1>6. Holds(Used(s), hm)
  BY <1>1, <1>4, <1>5, Zenon DEF Holds
<1>7. QED
  BY <1>1, <1>6, Zenon DEF HeapInv

LEMMA FreeStep ==
  ASSUME HeapInv(heap, held), NEW p \in DOMAIN held, Free(p)
  PROVE  HeapInv(heap', held')
<1>1. Chain(heap) /\ NoPair(heap) /\ Holds(Used(heap), held)
  BY Live, Zenon
<1>2. HeapInv(FreeList(heap, p), Without(held, p))
  BY <1>1, FreeInv, Zenon
<1>3. heap' = FreeList(heap, p) /\ held' = Without(held, p)
  BY Zenon DEF Free, Without
<1>4. QED
  BY <1>2, <1>3, Zenon

LEMMA MoveStep ==
  ASSUME HeapInv(heap, held), NEW p \in DOMAIN held, NEW size \in Nat,
         NEW new, new = MallocPtr(size), new # NULL,
         heap' = FreeList(MallocList(size), p),
         held' = [q \in (DOMAIN held \ {p}) \union {new} |-> IF q = new THEN size ELSE held[q]]
  PROVE  HeapInv(heap', held')
<1> DEFINE hm == Given(held, new, size)
           m == MallocList(size)
<1>1. HeapInv(m, Hold(new, size)) /\ new \notin DOMAIN held
  BY MallocInv
<1>2. Hold(new, size) = hm
  BY Zenon DEF Hold, Given
<1>3. HeapInv(m, hm)
  BY <1>1, <1>2, Zenon
<1>4. /\ DOMAIN hm = DOMAIN held \cup {new} /\ p \in DOMAIN hm
      /\ hm = [q \in DOMAIN held \cup {new} |-> IF q = new THEN size ELSE held[q]]
  BY DEF Given
<1>5. Without(hm, p) = held'
  <2>1. DOMAIN hm \ {p} = (DOMAIN held \ {p}) \union {new}
    BY <1>1, <1>4
  <2>2. \A q \in DOMAIN hm \ {p} : hm[q] = IF q = new THEN size ELSE held[q]
    BY <1>4
  <2> HIDE DEF hm
  <2>3. Without(hm, p) = [q \in (DOMAIN held \ {p}) \union {new} |-> IF q = new THEN size ELSE held[q]]
    BY <2>1, <2>2 DEF Without
  <2>4. QED
    BY <2>3, Zenon
<1> HIDE DEF hm, m
<1>6. Chain(m) /\ NoPair(m) /\ Holds(Used(m), hm)
  BY <1>3, <1>4, Live, Zenon
<1>7. HeapInv(FreeList(m, p), Without(hm, p))
  BY <1>4, <1>6, FreeInv, Zenon
<1>8. QED
  BY <1>5, <1>7, Zenon DEF m

\* The heap is whole, or has been overwritten for a size that does not fit.
LibcInv(s, hl) ==
  IF s = Overwritten THEN \E p \in DOMAIN hl : hl[p] + 7 >= Word ELSE HeapInv(s, hl)

LEMMA WholeNotOverwritten ==
  ASSUME NEW s, NEW hl, HeapInv(s, hl)
  PROVE  s # Overwritten
<1>1. Len(Overwritten) = 1 /\ Overwritten[1].addr = NULL /\ NULL # 0
  BY DEF Overwritten, NULL
<1>2. s = <<>> => Len(s) = 0
  OBVIOUS
<1>3. s # <<>> => s[1].addr = 0
  BY DEF HeapInv, Chain
<1> HIDE DEF Overwritten
<1>4. QED
  BY <1>1, <1>2, <1>3

LEMMA WholeInv ==
  ASSUME NEW s, NEW hl, HeapInv(s, hl)
  PROVE  LibcInv(s, hl)
BY WholeNotOverwritten, Zenon DEF LibcInv

\* Bytes asked for do not reach past a block made for them.
LEMMA NotBeyond ==
  ASSUME NEW s, NEW hl, HeapInv(s, hl), NEW p \in DOMAIN hl, NEW bytes \in Nat,
         bytes <= hl[p], hl[p] + 7 < Word
  PROVE  ~ Beyond(s, p, bytes)
<1> DEFINE i == BlockOf(s, p)
<1>1. Chain(s) /\ Holds(Used(s), hl)
  BY Live, Zenon
<1>2. i \in 1 .. Len(s) /\ hl[p] \in Nat /\ s[i].size >= hl[p]
  BY <1>1, HeldBlock, Zenon
<1>3. s[i] \in Block
  BY <1>1, <1>2 DEF Chain
<1> HIDE DEF i
<1>4. s[i].size \in Nat
  BY <1>3 DEF Block
<1>5. ~ (bytes > s[i].size)
  BY <1>2, <1>4
<1>6. QED
  BY <1>5, Zenon DEF Beyond, i

LEMMA LibcStep ==
  ASSUME LibcInv(heap, held), [LibcNext]_libc
  PROVE  LibcInv(heap', held')
<1>0. CASE UNCHANGED libc
  BY <1>0, Zenon DEF libc
<1> SUFFICES ASSUME LibcNext
             PROVE  LibcInv(heap', held')
  BY <1>0, Zenon
<1>10. HeapInv(heap, held)
  BY Zenon DEF LibcNext, LibcInv
<1>1. ASSUME NEW size \in Request, Malloc(size)
      PROVE  HeapInv(heap', held')
  <2>1. size \in Nat
    BY LibcAssumption
  <2>2. HeapInv(MallocList(size), Hold(MallocPtr(size), size))
    BY <1>10, <2>1, MallocInv
  <2>3. QED
    BY <1>1, <2>2, Zenon DEF Malloc
<1>2. ASSUME NEW size \in Request, NEW n \in Count, Calloc(n, size)
      PROVE  LibcInv(heap', held')
  <2> DEFINE need == n * size
             given == need % Word
             p == MallocPtr(given)
             m == MallocList(given)
             hm == Hold(p, need)
             over == p # NULL /\ Beyond(m, p, given)
  <2>1. need \in Nat /\ Word \in Nat \ {0}
    BY LibcAssumption
  <2>2. heap' = (IF over THEN Overwritten ELSE m) /\ held' = hm
    BY <1>2, Zenon DEF Calloc
  <2> HIDE DEF need
  <2>3. given \in Nat /\ (need + 7 < Word => need = given)
    BY <2>1
  <2> HIDE DEF given
  <2>4. HeapInv(m, hm)
    BY <1>10, <2>1, <2>3, MallocInv
  <2>5. ASSUME ~ over PROVE LibcInv(heap', held')
    <3>1. heap' = m
      BY <2>2, <2>5, Zenon
    <3>2. QED
      BY <2>2, <2>4, <3>1, WholeInv, Zenon
  <2>6. ASSUME over PROVE LibcInv(heap', held')
    <3>1. p \in DOMAIN hm /\ hm[p] = need
      BY <2>6 DEF Hold
    <3> HIDE DEF hm, m, p
    <3>2. need + 7 >= Word
      <4> SUFFICES ASSUME need + 7 < Word PROVE FALSE
        BY <2>1
      <4>1. need = given /\ given <= need
        BY <2>1, <2>3
      <4>2. hm[p] + 7 < Word /\ given <= hm[p]
        BY <3>1, <4>1
      <4>3. ~ Beyond(m, p, given)
        BY <2>3, <2>4, <3>1, <4>2, NotBeyond, Zenon
      <4>4. QED
        BY <2>6, <4>3, Zenon
    <3>3. hm[p] + 7 >= Word
      BY <3>1, <3>2
    <3>4. heap' = Overwritten /\ held' = hm
      BY <2>2, <2>6, Zenon
    <3>5. QED
      BY <3>1, <3>3, <3>4, Zenon DEF LibcInv
  <2>7. QED
    BY <2>5, <2>6, Zenon
<1>3. ASSUME NEW p \in DOMAIN held, NEW size \in Request, Realloc(p, size)
      PROVE  LibcInv(heap', held')
  <2>1. size \in Nat
    BY LibcAssumption
  <2>2. CASE size = 0
    <3>1. Free(p)
      BY <1>3, <2>2 DEF Realloc
    <3>2. QED
      BY <1>10, <3>1, FreeStep, WholeInv
  <2>3. CASE size # 0 /\ heap[BlockOf(heap, p)].size >= size
    <3>1. heap' = heap /\ held' = [held EXCEPT ![p] = size]
      BY <1>3, <2>3, Zenon DEF Realloc
    <3>2. HeapInv(heap, held')
      BY <1>10, <2>1, <2>3, <3>1, GrowInPlace, Zenon
    <3>3. QED
      BY <3>1, <3>2, WholeInv, Zenon
  <2>4. CASE size # 0 /\ ~ (heap[BlockOf(heap, p)].size >= size) /\ MallocPtr(size) = NULL
    <3>1. heap' = heap /\ held' = held
      BY <1>3, <2>4, Zenon DEF Realloc, libc
    <3>2. QED
      BY <3>1, Zenon
  <2>5. CASE size # 0 /\ ~ (heap[BlockOf(heap, p)].size >= size) /\ MallocPtr(size) # NULL
    <3> DEFINE new == MallocPtr(size)
               m == MallocList(size)
               old == heap[BlockOf(heap, p)].size
               over == Beyond(m, new, old)
    <3>1. /\ heap' = IF over THEN Overwritten ELSE FreeList(m, p)
          /\ held' = [q \in (DOMAIN held \ {p}) \union {new} |-> IF q = new THEN size ELSE held[q]]
      BY <1>3, <2>5, Zenon DEF Realloc
    <3>2. new # NULL /\ new = MallocPtr(size)
      BY <2>5
    <3>3. HeapInv(m, Hold(new, size))
      BY <1>10, <2>1, MallocInv
    <3>4. new \in DOMAIN Hold(new, size) /\ Hold(new, size)[new] = size
      BY <3>2 DEF Hold
    <3>5. old \in Nat /\ old < size
      <4> DEFINE i == BlockOf(heap, p)
      <4>1. Chain(heap) /\ Holds(Used(heap), held)
        BY <1>10, Live, Zenon
      <4>2. i \in 1 .. Len(heap)
        BY <4>1, HeldBlock, Zenon
      <4>3. heap[i] \in Block
        BY <4>1, <4>2 DEF Chain
      <4> HIDE DEF i
      <4>4. heap[i].size \in Nat
        BY <4>3 DEF Block
      <4> USE DEF i
      <4>5. old \in Nat /\ ~ (old >= size)
        BY <2>5, <4>4, Zenon
      <4> HIDE DEF old
      <4>6. QED
        BY <2>1, <4>5
    <3> HIDE DEF new, m, old
    <3>6. ASSUME ~ over PROVE LibcInv(heap', held')
      <4>1. heap' = FreeList(MallocList(size), p)
        BY <3>1, <3>6, Zenon DEF m
      <4>2. HeapInv(heap', held')
        BY <1>10, <2>1, <3>1, <3>2, <4>1, MoveStep, Zenon
      <4>3. QED
        BY <4>2, WholeInv, Zenon
    <3>7. ASSUME over PROVE LibcInv(heap', held')
      <4> DEFINE hm == Hold(new, size)
      <4>1. size + 7 >= Word
        <5> SUFFICES ASSUME size + 7 < Word PROVE FALSE
          BY <2>1, LibcAssumption
        <5>1. hm[new] + 7 < Word /\ old <= hm[new]
          BY <2>1, <3>4, <3>5
        <5> HIDE DEF hm
        <5>2. ~ Beyond(m, new, old)
          BY <3>3, <3>4, <3>5, <5>1, NotBeyond, Zenon DEF hm
        <5>3. QED
          BY <3>7, <5>2, Zenon
      <4>2. new \in DOMAIN held' /\ held'[new] = size
        BY <3>1
      <4>3. held'[new] + 7 >= Word
        BY <4>1, <4>2
      <4>4. heap' = Overwritten
        BY <3>1, <3>7, Zenon
      <4>5. QED
        BY <4>2, <4>3, <4>4, Zenon DEF LibcInv
    <3>8. QED
      BY <3>6, <3>7, Zenon
  <2>6. QED
    BY <2>2, <2>3, <2>4, <2>5, Zenon
<1>4. ASSUME NEW p \in DOMAIN held, Free(p)
      PROVE  LibcInv(heap', held')
  BY <1>4, <1>10, FreeStep, WholeInv
<1>5. ASSUME NEW size \in Request, Malloc(size)
      PROVE  LibcInv(heap', held')
  BY <1>1, <1>5, WholeInv
<1>6. QED
  BY <1>2, <1>3, <1>4, <1>5, Zenon DEF LibcNext

\* The blocks fill the heap, those in use are the ones held and large enough, and
\* no two free ones follow each other.
LEMMA InvFits ==
  ASSUME LibcInv(heap, held)
  PROVE  HeldFits
<1>0. heap # Overwritten => HeapInv(heap, held)
  BY Zenon DEF LibcInv
<1> SUFFICES ASSUME heap # <<>>, heap # Overwritten
             PROVE  /\ heap[1].addr = 0
                    /\ \A i \in DOMAIN heap :
                         heap[i].addr + HEADER + heap[i].size
                           = IF i = Len(heap) THEN HEAP_SIZE ELSE heap[i + 1].addr
                    /\ {heap[i].addr + HEADER : i \in {j \in DOMAIN heap : ~heap[j].free}}
                         = DOMAIN held
                    /\ \A p \in DOMAIN held :
                         held[p] + 7 < Word => heap[BlockOf(heap, p)].size >= held[p]
                    /\ \A i \in 1 .. Len(heap) - 1 : ~(heap[i].free /\ heap[i + 1].free)
  BY Zenon DEF HeldFits, LibcInv
<1>1. Chain(heap) /\ NoPair(heap) /\ Holds(Used(heap), held)
  BY <1>0, Zenon DEF HeapInv
<1>2. /\ Len(heap) \in Nat /\ DOMAIN heap = 1 .. Len(heap) /\ heap[1].addr = 0
      /\ End(heap[Len(heap)]) = HEAP_SIZE
      /\ \A i \in 1 .. Len(heap) - 1 : End(heap[i]) = heap[i + 1].addr
  BY <1>1 DEF Chain
<1>3. ASSUME NEW i \in DOMAIN heap
      PROVE  heap[i].addr + HEADER + heap[i].size
               = IF i = Len(heap) THEN HEAP_SIZE ELSE heap[i + 1].addr
  <2>1. End(heap[i]) = IF i = Len(heap) THEN HEAP_SIZE ELSE heap[i + 1].addr
    <3> HIDE DEF End
    <3>1. i # Len(heap) => i \in 1 .. Len(heap) - 1
      BY <1>2
    <3>2. QED
      BY <1>2, <3>1, Zenon
  <2>2. QED
    BY <2>1, Zenon DEF End
<1>4. {heap[i].addr + HEADER : i \in {j \in DOMAIN heap : ~heap[j].free}} = DOMAIN held
  <2>1. ASSUME NEW i \in DOMAIN heap, ~ heap[i].free
        PROVE  heap[i].addr + HEADER \in DOMAIN held
    <3>1. heap[i] \in Used(heap)
      BY <1>2, <2>1, Zenon DEF Used
    <3>2. QED
      BY <1>1, <3>1, Zenon DEF Holds
  <2>2. ASSUME NEW p \in DOMAIN held
        PROVE  \E i \in {j \in DOMAIN heap : ~heap[j].free} : p = heap[i].addr + HEADER
    <3>1. PICK b \in Used(heap) : p = b.addr + HEADER
      BY <1>1, Zenon DEF Holds
    <3>2. PICK i \in 1 .. Len(heap) : b = heap[i] /\ ~ heap[i].free
      BY Zenon DEF Used
    <3>3. QED
      BY <1>2, <3>1, <3>2, Zenon
  <2>3. QED
    BY <2>1, <2>2
<1>5. ASSUME NEW p \in DOMAIN held, held[p] + 7 < Word
      PROVE  heap[BlockOf(heap, p)].size >= held[p]
  BY <1>1, <1>5, HeldBlock, Zenon
<1>6. \A i \in 1 .. Len(heap) - 1 : ~(heap[i].free /\ heap[i + 1].free)
  BY <1>1, Zenon DEF NoPair
<1>7. QED
  BY <1>2, <1>3, <1>4, <1>5, <1>6, Zenon

\* malloc, calloc, realloc and free of lib/libc/libc.c, in any order, of any sizes
\* and on a heap of any size, leave blocks that fill it without overlap, that are
\* in use exactly if a caller holds them, and that are as large as was asked if
\* that fits a size_t; no header is overwritten unless it does not.
THEOREM LibcHeldFits == LibcSpec => []HeldFits
<1>1. LibcInit => LibcInv(heap, held)
  <2> SUFFICES ASSUME heap = <<>>, held = [p \in {} |-> 0]
               PROVE  LibcInv(heap, held)
    BY Zenon DEF LibcInit
  <2>1. Len(heap) = 0 /\ DOMAIN held = {}
    OBVIOUS
  <2>2. Used(heap) = {}
    BY <2>1 DEF Used
  <2>3. HeapInv(heap, held)
    BY <2>1, <2>2 DEF HeapInv, Holds
  <2>4. QED
    BY <2>3, WholeInv, Zenon
<1>2. LibcInv(heap, held) /\ [LibcNext]_libc => LibcInv(heap', held')
  BY LibcStep
<1>3. LibcInv(heap, held) => HeldFits
  BY InvFits
<1> DEFINE Fit == LibcInv(heap, held)
<1>4. Fit /\ [LibcNext]_libc => Fit'
  BY <1>2
<1> HIDE DEF Fit
<1>5. LibcInit => Fit
  BY <1>1 DEF Fit
<1>6. Fit => HeldFits
  BY <1>3 DEF Fit
<1>7. QED
  BY <1>4, <1>5, <1>6, PTL DEF LibcSpec

(***************************************************************************)
(* The snake.                                                              *)
(***************************************************************************)
\* The first m cells of b.
Whole(b, m, f) ==
  /\ \A i \in 0 .. m - 1 : ~OnWall(b[i]) /\ b[i] # f
  /\ \A i \in 0 .. m - 2 : \E d \in 0 .. 3 : b[i] = Ahead(b[i + 1], d)
  /\ \A i, j \in 0 .. m - 1 : i # j => b[i] # b[j]

\* The cells that count: the last one not yet when it is new.
Grown(n, g) == IF g THEN n - 1 ELSE n

SnakeInv ==
  phase = "playing" =>
    /\ length \in Nat /\ length >= 3 /\ score \in Nat /\ length * 10 = 30 + score
    /\ \A i \in 0 .. length - 1 : i \in Body
    /\ grown \in BOOLEAN /\ direction \in 0 .. 3
    /\ Whole(body, Grown(length, grown), food)

LEMMA WholeIs ==
  ASSUME SnakeInv
  PROVE  SnakeIsWhole
<1> SUFFICES ASSUME phase = "playing"
             PROVE  LET tail == IF grown THEN length - 2 ELSE length - 1
                    IN /\ length * 10 = 30 + score
                       /\ \A i \in 0 .. tail : ~OnWall(body[i]) /\ body[i] # food
                       /\ \A i \in 0 .. tail - 1 : \E d \in 0 .. 3 : body[i] = Ahead(body[i + 1], d)
                       /\ \A i, j \in 0 .. tail : i # j => body[i] # body[j]
  BY Zenon DEF SnakeIsWhole
<1> DEFINE tail == IF grown THEN length - 2 ELSE length - 1
           m == Grown(length, grown)
<1>1. /\ length \in Nat /\ length * 10 = 30 + score /\ Whole(body, m, food)
  BY DEF SnakeInv
<1>2. tail = m - 1 /\ tail - 1 = m - 2
  BY <1>1 DEF Grown
<1> HIDE DEF tail, m
<1>3. /\ \A i \in 0 .. tail : ~OnWall(body[i]) /\ body[i] # food
      /\ \A i \in 0 .. tail - 1 : \E d \in 0 .. 3 : body[i] = Ahead(body[i + 1], d)
      /\ \A i, j \in 0 .. tail : i # j => body[i] # body[j]
  BY <1>1, <1>2, Zenon DEF Whole
<1>4. QED
  BY <1>1, <1>3, Zenon DEF tail

\* b is body moved by one cell.
Moved(b, d) ==
  /\ b[0] = Ahead(body[0], d)
  /\ \A i \in 1 .. length - 1 : b[i] = body[i - 1]

LEMMA MoveIs ==
  ASSUME \A i \in 0 .. length - 1 : i \in Body, length \in Nat, length >= 3, NEW d
  PROVE  Moved(Move(body, d), d)
<1> DEFINE b == Move(body, d)
<1>1. b[0] = Ahead(body[0], d)
  <2>1. 0 \in Body
    OBVIOUS
  <2>2. \A i \in Body :
          b[i] = CASE i = 0 -> Ahead(body[0], d)
                   [] i > 0 /\ i < length -> body[i - 1]
                   [] OTHER -> body[i]
    BY Zenon DEF Move
  <2> HIDE DEF b
  <2>3. ~ (0 > 0)
    OBVIOUS
  <2>4. QED
    BY <2>1, <2>2, <2>3
<1>2. ASSUME NEW i \in 1 .. length - 1
      PROVE  b[i] = body[i - 1]
  <2>1. i \in Body /\ ~ (i = 0) /\ i > 0 /\ i < length
    OBVIOUS
  <2>2. QED
    BY <2>1, Zenon DEF Move
<1>3. QED
  BY <1>1, <1>2 DEF Moved

\* A move that meets neither wall nor snake nor food leaves a whole snake, one cell
\* longer if the last one was new.
LEMMA MovedWhole ==
  ASSUME length \in Nat, length >= 3, NEW m \in {length, length - 1}, Whole(body, m, food),
         NEW d \in 0 .. 3, NEW b, Moved(b, d), ~ CheckCollision(b), NEW f,
         b[0] # f, \A i \in 1 .. length - 1 : b[i] # f
  PROVE  Whole(b, length, f)
<1>1. ~ OnWall(b[0]) /\ \A i \in 1 .. length - 1 : b[0] # b[i]
  BY Zenon DEF CheckCollision
<1>2. b[0] = Ahead(body[0], d) /\ \A i \in 1 .. length - 1 : b[i] = body[i - 1]
  BY Zenon DEF Moved
<1>3. /\ \A i \in 0 .. m - 1 : ~OnWall(body[i])
      /\ \A i \in 0 .. m - 2 : \E e \in 0 .. 3 : body[i] = Ahead(body[i + 1], e)
      /\ \A i, j \in 0 .. m - 1 : i # j => body[i] # body[j]
  BY Zenon DEF Whole
<1>4. \A i \in 0 .. length - 1 : i = 0 \/ (i \in 1 .. length - 1 /\ i - 1 \in 0 .. m - 1)
  OBVIOUS
<1>5. ASSUME NEW i \in 0 .. length - 1
      PROVE  ~ OnWall(b[i]) /\ b[i] # f
  BY <1>1, <1>2, <1>3, <1>4, Zenon
<1>6. ASSUME NEW i \in 0 .. length - 2
      PROVE  \E e \in 0 .. 3 : b[i] = Ahead(b[i + 1], e)
  <2>1. CASE i = 0
    <3>1. b[1] = body[1 - 1] /\ 1 - 1 = 0 /\ 0 + 1 = 1
      BY <1>2
    <3>2. b[0] = Ahead(b[0 + 1], d)
      BY <1>2, <3>1, Zenon
    <3>3. QED
      BY <2>1, <3>2, Zenon
  <2>2. CASE i # 0
    <3>1. /\ i \in 1 .. length - 1 /\ i + 1 \in 1 .. length - 1 /\ (i + 1) - 1 = i
          /\ i - 1 \in 0 .. m - 2 /\ (i - 1) + 1 = i
      BY <2>2
    <3>2. b[i] = body[i - 1] /\ b[i + 1] = body[i]
      BY <1>2, <3>1, Zenon
    <3>3. \E e \in 0 .. 3 : body[i - 1] = Ahead(body[i], e)
      BY <1>3, <3>1, Zenon
    <3>4. QED
      BY <3>2, <3>3, Zenon
  <2>3. QED
    BY <2>1, <2>2
<1>7. ASSUME NEW i \in 0 .. length - 1, NEW j \in 0 .. length - 1, i # j
      PROVE  b[i] # b[j]
  <2>1. CASE i = 0 \/ j = 0
    BY <1>1, <1>4, <1>7, <2>1, Zenon
  <2>2. CASE i # 0 /\ j # 0
    <3>1. /\ i \in 1 .. length - 1 /\ j \in 1 .. length - 1
          /\ i - 1 \in 0 .. m - 1 /\ j - 1 \in 0 .. m - 1 /\ i - 1 # j - 1
      BY <1>7, <2>2
    <3>2. QED
      BY <1>2, <1>3, <3>1, Zenon
  <2>3. QED
    BY <2>1, <2>2
<1>8. QED
  BY <1>5, <1>6, <1>7, Zenon DEF Whole

LEMMA NewGame ==
  ASSUME SnakeAssumption, GameSnake
  PROVE  SnakeInv'
<1>1. PICK n \in Nat : Body = 0 .. n /\ 20 + MaxScore <= 10 * n
  BY Zenon DEF SnakeAssumption
<1>2. n >= 2 /\ \A i \in 0 .. 2 : i \in Body /\ i < 3
  BY <1>1 DEF SnakeAssumption
<1>3. \A i \in Body : i < 3 => body'[i] = <<FirstHead[1] - i, FirstHead[2]>>
  BY Zenon DEF GameSnake
<1>4. /\ length' = 3 /\ direction' = 1 /\ score' = 0 /\ food' = FirstFood /\ grown' = FALSE
  BY Zenon DEF GameSnake, ToRight
<1>5. \A i \in 0 .. 2 : body'[i] = <<FirstHead[1] - i, FirstHead[2]>>
  BY <1>2, <1>3, Zenon
<1>6. FirstHead[1] \in Int /\ FirstHead[2] \in Int
  BY DEF SnakeAssumption
<1>7. ASSUME NEW i \in 0 .. 2
      PROVE  ~ OnWall(body'[i]) /\ body'[i] # FirstFood
  <2>1. LET p == <<FirstHead[1] - i, FirstHead[2]>> IN ~OnWall(p) /\ p # FirstFood
    BY <1>7, Zenon DEF SnakeAssumption
  <2>2. QED
    BY <1>5, <2>1, Zenon
<1>8. ASSUME NEW i \in 0 .. 1
      PROVE  \E d \in 0 .. 3 : body'[i] = Ahead(body'[i + 1], d)
  <2> DEFINE p == <<FirstHead[1] - i, FirstHead[2]>>
             q == <<FirstHead[1] - (i + 1), FirstHead[2]>>
  <2>1. i \in 0 .. 2 /\ i + 1 \in 0 .. 2 /\ 1 \in 0 .. 3 /\ ~ (1 = 0)
    OBVIOUS
  <2>2. Ahead(q, 1) = <<q[1] + 1, q[2]>>
    BY DEF Ahead, Up, ToRight, Down, ToLeft
  <2>3. p = <<q[1] + 1, q[2]>>
    BY <1>6
  <2>4. body'[i] = p /\ body'[i + 1] = q
    BY <1>5, <2>1, Zenon
  <2>5. QED
    BY <2>1, <2>2, <2>3, <2>4, Zenon
<1>9. ASSUME NEW i \in 0 .. 2, NEW j \in 0 .. 2, i # j
      PROVE  body'[i] # body'[j]
  <2>1. <<FirstHead[1] - i, FirstHead[2]>> # <<FirstHead[1] - j, FirstHead[2]>>
    BY <1>6, <1>9
  <2>2. QED
    BY <1>5, <2>1, Zenon
<1>10. Whole(body', 3, food')
  <2>1. 3 - 1 = 2 /\ 3 - 2 = 1
    OBVIOUS
  <2>2. QED
    BY <1>4, <1>7, <1>8, <1>9, <2>1, Zenon DEF Whole
<1>11. Grown(length, grown)' = 3
  BY <1>4, Zenon DEF Grown
<1>12. Whole(body, Grown(length, grown), food)'
  BY <1>10, <1>11, Zenon
<1>13. /\ length' \in Nat /\ length' >= 3 /\ score' \in Nat /\ length' * 10 = 30 + score'
       /\ \A i \in 0 .. length' - 1 : i \in Body
       /\ direction' \in 0 .. 3
  BY <1>2, <1>4
<1>14. grown' \in BOOLEAN
  BY <1>4, Zenon
<1>15. QED
  BY <1>12, <1>13, <1>14, Zenon DEF SnakeInv

\* A game goes on only when the snake met neither a wall nor itself, and with food
\* that does not lie on it.
LEMMA PlayGoesOn ==
  ASSUME NEW d \in 0 .. 3, NEW quit, Turn(d, quit), phase' = "playing",
         NEW b, b = Move(body, d), length \in Nat
  PROVE  /\ body' = b /\ direction' = d /\ ~ CheckCollision(b)
         /\ \/ /\ b[0] = food /\ score < MaxScore /\ score' = score + 10 /\ length' = length + 1
               /\ grown' = TRUE /\ \A i \in 0 .. length : b[i] # food'
            \/ /\ b[0] # food /\ score' = score /\ length' = length /\ food' = food
               /\ grown' = FALSE
<1> DEFINE goesOn == IF quit \/ CheckCollision(b) THEN "ended" ELSE "playing"
<1>1. /\ direction' = d /\ body' = b
      /\ IF b[0] = food
           THEN /\ score < MaxScore /\ score' = score + 10 /\ length' = length + 1
                /\ PlaceFood(b, length + 1, score + 10, goesOn)
                /\ grown' = TRUE
           ELSE /\ phase' = goesOn /\ grown' = FALSE
                /\ length' = length /\ food' = food /\ score' = score
  BY Zenon DEF Turn
<1>2. CASE b[0] = food
  <2>1. /\ score < MaxScore /\ score' = score + 10 /\ length' = length + 1 /\ grown' = TRUE
        /\ PlaceFood(b, length + 1, score + 10, goesOn)
    BY <1>1, <1>2, Zenon
  <2>2. /\ food' = FoodPlace(score + 10)
        /\ phase' = IF \E i \in 0 .. (length + 1) - 1 : b[i] = FoodPlace(score + 10)
                    THEN "hung" ELSE goesOn
    BY <2>1, Zenon DEF PlaceFood
  <2>3. (length + 1) - 1 = length /\ "hung" # "playing"
    OBVIOUS
  <2>4. goesOn = "playing" /\ \A i \in 0 .. length : b[i] # food'
    BY <2>2, <2>3, Zenon
  <2>5. ~ CheckCollision(b)
    BY <2>4, Zenon
  <2>6. QED
    BY <1>1, <1>2, <2>1, <2>4, <2>5, Zenon
<1>3. CASE b[0] # food
  <2>1. phase' = goesOn
    BY <1>1, <1>3, Zenon
  <2>2. ~ CheckCollision(b)
    BY <2>1, Zenon
  <2>3. QED
    BY <1>1, <1>3, <2>2, Zenon
<1>4. QED
  BY <1>2, <1>3, Zenon

LEMMA TurnKeeps ==
  ASSUME SnakeAssumption, SnakeInv, phase = "playing", NEW d \in 0 .. 3, NEW quit, Turn(d, quit)
  PROVE  SnakeInv'
<1> SUFFICES ASSUME phase' = "playing"
             PROVE  /\ length' \in Nat /\ length' >= 3 /\ score' \in Nat
                    /\ length' * 10 = 30 + score'
                    /\ \A i \in 0 .. length' - 1 : i \in Body
                    /\ grown' \in BOOLEAN /\ direction' \in 0 .. 3
                    /\ Whole(body', Grown(length', grown'), food')
  BY Zenon DEF SnakeInv
<1> DEFINE b == Move(body, d)
           m == Grown(length, grown)
<1>1. /\ length \in Nat /\ length >= 3 /\ score \in Nat /\ length * 10 = 30 + score
      /\ \A i \in 0 .. length - 1 : i \in Body
      /\ grown \in BOOLEAN /\ Whole(body, m, food)
  BY Zenon DEF SnakeInv
<1>2. m \in {length, length - 1}
  BY <1>1 DEF Grown
<1>3. Moved(b, d)
  BY <1>1, MoveIs, Zenon
<1>4. /\ body' = b /\ direction' = d /\ ~ CheckCollision(b)
      /\ \/ /\ b[0] = food /\ score < MaxScore /\ score' = score + 10 /\ length' = length + 1
            /\ grown' = TRUE /\ \A i \in 0 .. length : b[i] # food'
         \/ /\ b[0] # food /\ score' = score /\ length' = length /\ food' = food
            /\ grown' = FALSE
  BY <1>1, PlayGoesOn, Zenon
<1> HIDE DEF b, m
<1>5. CASE /\ b[0] = food /\ score < MaxScore /\ score' = score + 10 /\ length' = length + 1
           /\ grown' = TRUE /\ \A i \in 0 .. length : b[i] # food'
  <2>1. b[0] # food' /\ \A i \in 1 .. length - 1 : b[i] # food'
    <3>1. 0 \in 0 .. length /\ \A i \in 1 .. length - 1 : i \in 0 .. length
      BY <1>1
    <3>2. QED
      BY <1>5, <3>1, Zenon
  <2>2. Whole(b, length, food')
    BY <1>1, <1>2, <1>3, <1>4, <2>1, MovedWhole, Zenon
  <2>3. Grown(length', grown') = length
    <3>1. (length + 1) - 1 = length
      BY <1>1
    <3>2. QED
      BY <1>5, <3>1, Zenon DEF Grown
  <2>4. PICK n \in Nat : Body = 0 .. n /\ 20 + MaxScore <= 10 * n
    BY Zenon DEF SnakeAssumption
  <2>5. MaxScore \in Nat
    BY Zenon DEF SnakeAssumption
  <2>6. \A i \in 0 .. length' - 1 : i \in Body
    BY <1>1, <1>5, <2>4, <2>5
  <2>7. /\ length' \in Nat /\ length' >= 3 /\ score' \in Nat /\ length' * 10 = 30 + score'
    BY <1>1, <1>5
  <2>8. QED
    BY <1>4, <1>5, <2>2, <2>3, <2>6, <2>7, Zenon
<1>6. CASE /\ b[0] # food /\ score' = score /\ length' = length /\ food' = food
           /\ grown' = FALSE
  <2>1. \A i \in 1 .. length - 1 : b[i] # food
    <3>1. ASSUME NEW i \in 1 .. length - 1
          PROVE  b[i] # food
      <4>1. i - 1 \in 0 .. m - 1
        BY <1>1, <1>2
      <4>2. body[i - 1] # food
        BY <1>1, <4>1, Zenon DEF Whole
      <4>3. b[i] = body[i - 1]
        BY <1>3, Zenon DEF Moved
      <4>4. QED
        BY <4>2, <4>3, Zenon
    <3>2. QED
      BY <3>1, Zenon
  <2>2. Whole(b, length, food)
    BY <1>1, <1>2, <1>3, <1>4, <1>6, <2>1, MovedWhole, Zenon
  <2>3. Grown(length', grown') = length
    BY <1>6, Zenon DEF Grown
  <2>4. QED
    BY <1>1, <1>4, <1>6, <2>2, <2>3, Zenon
<1>7. QED
  BY <1>4, <1>5, <1>6, Zenon

LEMMA SnakeStep ==
  ASSUME SnakeAssumption, SnakeInv, [SnakeNext]_snake
  PROVE  SnakeInv'
<1>1. CASE GameSnake
  BY <1>1, NewGame, Zenon
<1>2. CASE Play
  <2>1. direction \in 0 .. 3 /\ phase = "playing"
    BY <1>2, Zenon DEF Play, SnakeInv
  <2>2. \E d \in 0 .. 3, quit \in BOOLEAN : Turn(d, quit)
    <3>1. \A d \in (0 .. 3) \ {Opposite(direction)} : d \in 0 .. 3
      OBVIOUS
    <3>2. TRUE \in BOOLEAN /\ FALSE \in BOOLEAN
      OBVIOUS
    <3>3. QED
      BY <1>2, <2>1, <3>1, <3>2, Zenon DEF Play
  <2>3. QED
    BY <2>1, <2>2, TurnKeeps, Zenon
<1>3. CASE Leave
  BY <1>3, Zenon DEF Leave, SnakeInv
<1>4. CASE UNCHANGED snake
  BY <1>4, Zenon DEF snake, SnakeInv
<1>5. QED
  BY <1>1, <1>2, <1>3, <1>4, Zenon DEF SnakeNext, Hangs

\* Through every game the player plays, after any other, and for every array and
\* bound on the score it holds: the snake is one chain of different cells between
\* the walls, as long as its score says, and no food lies on it.
THEOREM SnakeIsWholeAlways == SnakeSpec => []SnakeIsWhole
<1>1. SnakeInit => SnakeInv
  BY Zenon DEF SnakeInit, SnakeInv
<1>2. SnakeInv /\ [SnakeNext]_snake => SnakeInv'
  BY SnakeStep, SnakeAssumption
<1>3. SnakeInv => SnakeIsWhole
  BY WholeIs
<1>4. QED
  BY <1>1, <1>2, <1>3, PTL DEF SnakeSpec
=============================================================================
