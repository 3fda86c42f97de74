------------------------------ MODULE FileStore ------------------------------
(***************************************************************************)
(* What open files promise: a descriptor stands for one file and a         *)
(* position in it; reads return what lies at the position and move on,     *)
(* writes put down what they are given, for every descriptor of the file   *)
(* to see.  A read that the drive fails may return anything, and so may    *)
(* all reads of the drive when its table is lost; the next read after a    *)
(* failed one is right again.                                              *)
(***************************************************************************)
EXTENDS Integers, Sequences, FiniteSets

CONSTANTS
  File,          \* all files
  OnDrive,       \* those read from the drive
  Loose,         \* those among them of which nothing is promised
  Stream,        \* devices that return one unit for ever, or nothing
  StreamUnit,    \* Stream -> set of the units read, {} for nothing
  Sink,          \* files that take writes and drop them
  Fd, Unit,
  WriteData,     \* sequences of units that are written
  MaxRead        \* bound: units of one read

VARIABLES
  content,       \* file -> sequence of units
  opened,        \* open descriptors -> [file, offset]
  misread,       \* the drive failed in the last step
  lost,          \* the table of the drive is lost
  data           \* what the last step read, if it read

vars == <<content, opened, misread, lost, data>>

Slice(s, from, n) == SubSeq(s, from + 1, IF from + n < Len(s) THEN from + n ELSE Len(s))

Over(s, at, d) ==
  [i \in 1 .. (IF at + Len(d) > Len(s) THEN at + Len(d) ELSE Len(s)) |->
     IF i \in at + 1 .. at + Len(d) THEN d[i - at] ELSE s[i]]

Init ==
  /\ content \in [File -> Seq(Unit)]
  /\ opened = <<>>
  /\ misread = FALSE /\ lost = FALSE
  /\ data = <<>>

Open(fd, f) ==
  /\ fd \notin DOMAIN opened
  /\ opened' = [d \in DOMAIN opened \union {fd} |->
                  IF d = fd THEN [file |-> f, offset |-> 0] ELSE opened[d]]
  /\ data' = <<>>
  /\ UNCHANGED <<content, lost>>

Close(fd) ==
  /\ fd \in DOMAIN opened
  /\ opened' = [d \in DOMAIN opened \ {fd} |-> opened[d]]
  /\ data' = <<>>
  /\ UNCHANGED <<content, lost>>

Advanced(fd, n) == [opened EXCEPT ![fd].offset = @ + n]

Read(fd, n) ==
  /\ fd \in DOMAIN opened
  /\ LET f == opened[fd].file
     IN  \/ /\ f \notin Stream
            /\ data' = Slice(content[f], opened[fd].offset, n)
         \/ /\ f \in Stream
            /\ IF StreamUnit[f] = {} THEN data' = <<>>
               ELSE Len(data') = n /\ \A i \in 1 .. n : data'[i] \in StreamUnit[f]
         \/ f \in OnDrive /\ (f \in Loose \/ misread' \/ lost) /\ Len(data') <= n
  /\ opened' = Advanced(fd, Len(data'))
  /\ UNCHANGED <<content, lost>>

\* Nothing is written to a drive
Write(fd, d) ==
  /\ fd \in DOMAIN opened /\ opened[fd].file \notin OnDrive
  /\ LET f == opened[fd].file
     IN  content' = IF f \in Sink THEN content
                    ELSE [content EXCEPT ![f] = Over(@, opened[fd].offset, d)]
  /\ opened' = Advanced(fd, Len(d))
  /\ data' = <<>>
  /\ UNCHANGED lost

\* Opens that find nothing, and what else the system does
Other == (lost => lost') /\ data' = <<>> /\ UNCHANGED <<content, opened>>

Next ==
  \/ Other
  \/ \E fd \in Fd : \/ \E f \in File : Open(fd, f)
                    \/ Close(fd)
                    \/ \E n \in 1 .. MaxRead : Read(fd, n)
                    \/ \E d \in WriteData : Write(fd, d)

Spec == Init /\ [][Next]_vars
=============================================================================
