-------------------------------- MODULE Nvme --------------------------------
(***************************************************************************)
(* The I/O queues of the NVMe driver (drivers/nvme.c).  A caller puts one  *)
(* command on the submission queue and spins on the phase bit at the head  *)
(* of the completion queue; when it gives up, the command stays with the   *)
(* controller and its completion will stand where that of the next command *)
(* is expected.  The controller (external) fetches commands in order,      *)
(* completes what it has fetched in any order and keeps to the doorbells.  *)
(*                                                                         *)
(* A command is identified by the number of the call that issued it; reads *)
(* and writes take the same steps and are not told apart.                  *)
(***************************************************************************)
EXTENDS Integers, Sequences, FiniteSets

CONSTANTS
  Size,          \* sq_size and cq_size
  MaxCalls       \* bound: calls of nvme_read and nvme_write

ASSUME SizeAssumption == Size \in Nat \ {0}

NoCall == 0

VARIABLES
  sq,            \* submission queue: slot -> command
  sq_tail,
  cq,            \* completion queue: slot -> [command, ok, phase]
  cq_head,
  phase,
  ctrl,          \* controller: where it fetches, where it posts and with which phase, the
                 \*   commands it has fetched and not completed
  waiting,       \* the call that spins, or NoCall
  spun,          \* it found no completion at least once
  calls,         \* calls so far
  answered,      \* history: [call, command, ok] of the last answer, command that was completed
  posted,        \* history: [command, ok] posted and not taken, in the order of posting
  late           \* history: a call has timed out

nvme == <<sq, sq_tail, cq, cq_head, phase, ctrl, waiting, spun, calls, answered, posted, late>>

Slots   == 0 .. Size - 1
Next1(i) == (i + 1) % Size

NvmeInit ==
  /\ sq = [i \in Slots |-> NoCall] /\ sq_tail = 0
  /\ cq = [i \in Slots |-> [command |-> NoCall, ok |-> FALSE, phase |-> 0]]
  /\ cq_head = 0 /\ phase = 1
  /\ ctrl = [fetch |-> 0, post |-> 0, phase |-> 1, busy |-> {}]
  /\ waiting = NoCall /\ spun = FALSE /\ calls = 0
  /\ answered = [call |-> NoCall, command |-> NoCall, ok |-> TRUE]
  /\ posted = <<>> /\ late = FALSE

\* Nothing tells whether the slot is free
Submit ==
  /\ waiting = NoCall /\ calls < MaxCalls
  /\ calls' = calls + 1 /\ waiting' = calls + 1 /\ spun' = FALSE
  /\ sq' = [sq EXCEPT ![sq_tail] = calls + 1]
  /\ sq_tail' = Next1(sq_tail)
  /\ UNCHANGED <<cq, cq_head, phase, ctrl, answered, posted, late>>

Arrived == cq[cq_head].phase = phase

PhaseAfter_never(head) == phase                                          \* slip

PhaseAfter(head) == IF head = 0 THEN 1 - phase ELSE phase

TakeAnswer ==
  /\ waiting # NoCall /\ Arrived
  /\ answered' = [call |-> waiting, command |-> cq[cq_head].command, ok |-> cq[cq_head].ok]
  /\ cq_head' = Next1(cq_head)
  /\ phase' = PhaseAfter(cq_head')
  /\ waiting' = NoCall
  /\ posted' = IF posted = <<>> THEN posted ELSE Tail(posted)
  /\ UNCHANGED <<sq, sq_tail, cq, ctrl, spun, calls, late>>

Spin ==
  /\ waiting # NoCall /\ ~Arrived
  /\ spun' = TRUE
  /\ UNCHANGED <<sq, sq_tail, cq, cq_head, phase, ctrl, waiting, calls, answered, posted, late>>

\* timeout has reached 0, even if the completion arrived just then
GiveUp ==
  /\ waiting # NoCall /\ spun
  /\ waiting' = NoCall /\ late' = TRUE
  /\ UNCHANGED <<sq, sq_tail, cq, cq_head, phase, ctrl, spun, calls, answered, posted>>

Fetch ==
  /\ ctrl.fetch # sq_tail
  /\ ctrl' = [ctrl EXCEPT !.fetch = Next1(@), !.busy = @ \union {sq[ctrl.fetch]}]
  /\ UNCHANGED <<sq, sq_tail, cq, cq_head, phase, waiting, spun, calls, answered, posted, late>>

Complete(cmd, ok) ==
  /\ cmd \in ctrl.busy /\ Next1(ctrl.post) # cq_head
  /\ cq' = [cq EXCEPT ![ctrl.post] = [command |-> cmd, ok |-> ok, phase |-> ctrl.phase]]
  /\ ctrl' = [ctrl EXCEPT !.post = Next1(@), !.busy = @ \ {cmd},
                          !.phase = IF Next1(ctrl.post) = 0 THEN 1 - @ ELSE @]
  /\ posted' = Append(posted, [command |-> cmd, ok |-> ok])
  /\ UNCHANGED <<sq, sq_tail, cq_head, phase, waiting, spun, calls, answered, late>>

NvmeNext ==
  \/ Submit \/ TakeAnswer \/ Spin \/ GiveUp \/ Fetch
  \/ \E cmd \in ctrl.busy, ok \in BOOLEAN : Complete(cmd, ok)

NvmeSpec == NvmeInit /\ [][NvmeNext]_nvme

(***************************************************************************)
(* The phase bit tells what is new: a completion is seen at the head       *)
(* exactly when one was posted and not taken, it is the oldest of those,   *)
(* and none is taken twice or lost, also when the queue wraps and after    *)
(* timeouts.  Hence, until a call has timed out, a call returns the status *)
(* of its own command, although nvme_read and nvme_write do not look at    *)
(* the identifier.                                                         *)
(***************************************************************************)
AnswersMatch ==
  /\ Arrived <=> posted # <<>>
  /\ Arrived => /\ cq[cq_head].command = posted[1].command
                /\ cq[cq_head].ok = posted[1].ok
  /\ ~late => answered.call = answered.command
=============================================================================
