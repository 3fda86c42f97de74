----------------------------- MODULE Scheduler -----------------------------
(***************************************************************************)
(* Processes, threads and the five-level scheduler of                      *)
(* kernel/sched/process.c.                                                 *)
(*                                                                         *)
(* A ready queue is the chain of threads that starts at ready_queues[i]    *)
(* and follows thread->next; it is represented by the sequence of thread   *)
(* slots on that chain.  The next field of a thread that is on no queue is *)
(* NULL (scheduler_add_thread and scheduler_pick_next both leave it so),   *)
(* hence `next' needs no variable of its own: see NextOf.  Registers,      *)
(* stacks and names are left out.                                          *)
(*                                                                         *)
(* Scheduler functions run to completion: a timer interrupt is taken       *)
(* between them, not inside one.                                           *)
(*                                                                         *)
(* A definition marked "slip" is a wrong version of a definition after it, *)
(* used only to confirm that a property would notice the mistake.          *)
(***************************************************************************)
EXTENDS Integers, Sequences, FiniteSets

CONSTANTS
  MAX_PROCESSES,  \* slots of processes[] (1024)
  MAX_THREADS,    \* slots of threads[] (8192)
  TIME_SLICE,     \* ticks given to a dispatched thread (10)
  SLICE_MOD,      \* time_slice is unsigned: arithmetic modulo 2^64
  Priorities,     \* the priorities callers pass to process_create (any int)
  MaxPid          \* bound on next_pid, which failed creations also advance

ASSUME SchedulerAssumption ==
  /\ MAX_PROCESSES \in Nat \ {0}
  /\ MAX_THREADS \in Nat \ {0}
  /\ TIME_SLICE \in Nat \ {0}
  /\ SLICE_MOD \in Nat /\ SLICE_MOD > TIME_SLICE
  /\ Priorities \subseteq Int
  /\ MaxPid \in Nat

NULL == 0
ProcSlot == 1 .. MAX_PROCESSES
ThreadSlot == 1 .. MAX_THREADS
Level == 0 .. 4

RUNNING == "running"
READY   == "ready"
ZOMBIE  == "zombie"

VARIABLES
  processes,      \* slot -> [pid, state, priority, threads, thread_count]
  threads,        \* slot -> [tid, pid, state, priority, time_slice]
  ready_queues,   \* level -> sequence of thread slots
  current_thread, \* thread slot or NULL
  next_pid,
  next_tid

vars == <<processes, threads, ready_queues, current_thread, next_pid, next_tid>>

Process == [pid : Nat, state : {READY, ZOMBIE}, priority : Int,
            threads : ThreadSlot \cup {NULL}, thread_count : Nat]
Thread  == [tid : Nat, pid : Nat, state : {RUNNING, READY, ZOMBIE},
            priority : Int, time_slice : Nat]

TypeOK ==
  /\ processes \in [ProcSlot -> Process]
  /\ threads \in [ThreadSlot -> Thread]
  /\ ready_queues \in [Level -> Seq(ThreadSlot)]
  /\ current_thread \in ThreadSlot \cup {NULL}
  /\ next_pid \in Nat \ {0}
  /\ next_tid \in Nat \ {0}

\* process_init, which calls scheduler_init.  A slot is free when its pid
\* (tid) is 0; the other fields of a free slot are never read.
Init ==
  /\ processes = [i \in ProcSlot |-> [pid |-> 0, state |-> READY, priority |-> 0,
                                      threads |-> NULL, thread_count |-> 0]]
  /\ threads = [i \in ThreadSlot |-> [tid |-> 0, pid |-> 0, state |-> READY,
                                      priority |-> 0, time_slice |-> 0]]
  /\ ready_queues = [l \in Level |-> << >>]
  /\ current_thread = NULL
  /\ next_pid = 1
  /\ next_tid = 1

(***************************************************************************)
(* The ready queues.                                                       *)
(***************************************************************************)

\* The level a priority is queued at.
LevelOf(priority) ==
  IF priority < 0 THEN 0 ELSE IF priority > 4 THEN 4 ELSE priority

OnQueue(q, t) == \E i \in 1 .. Len(q) : q[i] = t

NoRepeat(q) == \A i, j \in 1 .. Len(q) : q[i] = q[j] => i = j

Enqueue_atHead(q, t) == <<t>> \o q                  \* slip: pushed at the front

\* Walk to the end of chain q, hang t there and end the chain at t.  If t is
\* on the chain already, setting t->next to NULL cuts off what followed it.
Enqueue(q, t) ==
  IF OnQueue(q, t)
  THEN SubSeq(q, 1, CHOOSE i \in 1 .. Len(q) : q[i] = t)
  ELSE Append(q, t)

\* scheduler_add_thread's effect on the queues.
AddToQueue(rq, priority, t) ==
  [rq EXCEPT ![LevelOf(priority)] = Enqueue(@, t)]

Idle == \A l \in Level : ready_queues[l] = << >>

TopLevel_lowest == CHOOSE l \in Level : /\ ready_queues[l] # << >>    \* slip: scans from 4 down
                                        /\ \A k \in Level : k > l => ready_queues[k] = << >>

\* The first nonempty queue, where scheduler_pick_next stops.
TopLevel == CHOOSE l \in Level : /\ ready_queues[l] # << >>
                                 /\ \A k \in Level : k < l => ready_queues[k] = << >>

(***************************************************************************)
(* scheduler_yield, entered with thread table th (scheduler_tick and       *)
(* sys_exit change the current thread before they call it).                *)
(***************************************************************************)

Dispatch_forgetsOld(th) ==                          \* slip: old thread not queued again
  LET new == Head(ready_queues[TopLevel])
  IN  /\ ~ Idle
      /\ threads' = [t \in ThreadSlot |->
           CASE t = new -> [th[t] EXCEPT !.time_slice = TIME_SLICE, !.state = RUNNING]
             [] t = current_thread /\ t # new /\ th[t].state = RUNNING ->
                  [th[t] EXCEPT !.state = READY]
             [] OTHER -> th[t]]
      /\ ready_queues' = [ready_queues EXCEPT ![TopLevel] = Tail(@)]
      /\ current_thread' = new

Dispatch_anyState(th) ==                            \* slip: old queued again whatever its state
  LET new  == Head(ready_queues[TopLevel])
      rest == [ready_queues EXCEPT ![TopLevel] = Tail(@)]
      old  == current_thread
  IN  /\ ~ Idle
      /\ threads' = [t \in ThreadSlot |->
           CASE t = new -> [th[t] EXCEPT !.time_slice = TIME_SLICE, !.state = RUNNING]
             [] t = old /\ t # new -> [th[t] EXCEPT !.state = READY]
             [] OTHER -> th[t]]
      /\ ready_queues' = IF old # NULL THEN AddToQueue(rest, th[old].priority, old) ELSE rest
      /\ current_thread' = new

\* The new thread is taken off its queue before the old one is put back, so
\* the old thread is not a candidate however high its priority is.
Dispatch(th) ==
  LET new     == Head(ready_queues[TopLevel])
      rest    == [ready_queues EXCEPT ![TopLevel] = Tail(@)]
      old     == current_thread
      requeue == old # NULL /\ th[old].state = RUNNING
  IN  /\ ~ Idle
      /\ threads' = [t \in ThreadSlot |->
           CASE t = new -> [th[t] EXCEPT !.time_slice = TIME_SLICE, !.state = RUNNING]
             [] t = old /\ t # new /\ requeue -> [th[t] EXCEPT !.state = READY]
             [] OTHER -> th[t]]
      /\ ready_queues' = IF requeue THEN AddToQueue(rest, th[old].priority, old) ELSE rest
      /\ current_thread' = new

\* With nothing ready, hlt and return: the caller goes on running.
NoSwitch(th) ==
  /\ Idle
  /\ threads' = th
  /\ UNCHANGED <<ready_queues, current_thread>>

Yield(th) == Dispatch(th) \/ NoSwitch(th)

\* scheduler_yield called by the running thread or, before the first switch,
\* by the boot code.
SchedulerYield ==
  /\ Yield(threads)
  /\ UNCHANGED <<processes, next_pid, next_tid>>

\* The decrement of the unsigned time_slice.
Ticked(t) == [threads EXCEPT ![t].time_slice = (@ - 1) % SLICE_MOD]

\* scheduler_tick, from the timer.
SchedulerTick ==
  /\ current_thread # NULL
  /\ LET th == Ticked(current_thread)
     IN  IF th[current_thread].time_slice = 0
         THEN Yield(th)
         ELSE threads' = th /\ UNCHANGED <<ready_queues, current_thread>>
  /\ UNCHANGED <<processes, next_pid, next_tid>>

\* sys_exit: mark the thread and the first process with its pid, then yield.
\* Unless another thread is ready the call returns to its caller.
SysExit ==
  /\ current_thread # NULL
  /\ processes' = [p \in ProcSlot |->
       IF processes[p].pid = threads[current_thread].pid
       THEN [processes[p] EXCEPT !.state = ZOMBIE] ELSE processes[p]]
  /\ Yield([threads EXCEPT ![current_thread].state = ZOMBIE])
  /\ UNCHANGED <<next_pid, next_tid>>

(***************************************************************************)
(* Creation.                                                               *)
(***************************************************************************)

FreeProcs   == {p \in ProcSlot : processes[p].pid = 0}
FreeThreads == {t \in ThreadSlot : threads[t].tid = 0}
FirstOf(S)  == CHOOSE x \in S : \A y \in S : x <= y

\* thread_create for process slot p with pid and priority given, on a
\* process table ps.  The thread becomes the head of proc->threads.
NewThread_noCount(ps, p, pid, priority) ==          \* slip: thread_count not advanced
  LET t == FirstOf(FreeThreads)
  IN  /\ FreeThreads # {}
      /\ threads' = [threads EXCEPT ![t] =
           [tid |-> next_tid, pid |-> pid, state |-> READY, priority |-> priority,
            time_slice |-> TIME_SLICE]]
      /\ processes' = [ps EXCEPT ![p].threads = t]
      /\ ready_queues' = AddToQueue(ready_queues, priority, t)
      /\ next_tid' = next_tid + 1
      /\ UNCHANGED current_thread

NewThread(ps, p, pid, priority) ==
  LET t == FirstOf(FreeThreads)
  IN  /\ FreeThreads # {}
      /\ threads' = [threads EXCEPT ![t] =
           [tid |-> next_tid, pid |-> pid, state |-> READY, priority |-> priority,
            time_slice |-> TIME_SLICE]]
      /\ processes' = [ps EXCEPT ![p].threads = t, ![p].thread_count = @ + 1]
      /\ ready_queues' = AddToQueue(ready_queues, priority, t)
      /\ next_tid' = next_tid + 1
      /\ UNCHANGED current_thread

\* The process table once slot p was initialised for a new process.
Initialised(p, priority) ==
  [processes EXCEPT ![p].pid = next_pid, ![p].state = READY, ![p].priority = priority]

\* process_create succeeds.
ProcessCreate(priority) ==
  LET p == FirstOf(FreeProcs)
  IN  /\ next_pid < MaxPid
      /\ FreeProcs # {}
      /\ NewThread(Initialised(p, priority), p, next_pid, priority)
      /\ next_pid' = next_pid + 1

\* process_create finds a slot but gets no address space, which can happen at
\* any time, or no thread slot: the pid is spent and the slot is free again,
\* with the state and the priority of the failed attempt left in it.
ProcessCreateFails(priority) ==
  LET p == FirstOf(FreeProcs)
  IN  /\ next_pid < MaxPid
      /\ FreeProcs # {}
      /\ processes' = [Initialised(p, priority) EXCEPT ![p].pid = 0]
      /\ next_pid' = next_pid + 1
      /\ UNCHANGED <<threads, ready_queues, current_thread, next_tid>>

\* thread_create for an existing process.
ThreadCreate(p) ==
  /\ processes[p].pid # 0
  /\ NewThread(processes, p, processes[p].pid, processes[p].priority)
  /\ UNCHANGED next_pid

\* kernel_main passes the thread that thread_create has just queued to
\* scheduler_add_thread once more.
ThreadCreateAndAdd(p) ==
  LET t == FirstOf(FreeThreads)
      priority == processes[p].priority
  IN  /\ processes[p].pid # 0
      /\ FreeThreads # {}
      /\ threads' = [threads EXCEPT ![t] =
           [tid |-> next_tid, pid |-> processes[p].pid, state |-> READY,
            priority |-> priority, time_slice |-> TIME_SLICE]]
      /\ processes' = [processes EXCEPT ![p].threads = t, ![p].thread_count = @ + 1]
      /\ ready_queues' = AddToQueue(AddToQueue(ready_queues, priority, t), priority, t)
      /\ next_tid' = next_tid + 1
      /\ UNCHANGED <<current_thread, next_pid>>

Next ==
  \/ \E priority \in Priorities : ProcessCreate(priority) \/ ProcessCreateFails(priority)
  \/ \E p \in ProcSlot : ThreadCreate(p) \/ ThreadCreateAndAdd(p)
  \/ SchedulerYield
  \/ SchedulerTick
  \/ SysExit

Spec == Init /\ [][Next]_vars

(***************************************************************************)
(* Properties.                                                             *)
(***************************************************************************)

Created(t) == threads[t].tid # 0

\* No thread is lost or queued twice: a created thread is READY exactly when
\* it is on the queue of its level, once, and on no other; the thread that
\* runs, and one that has exited, are on none.
QueuesMatchStates ==
  /\ \A t \in ThreadSlot : Created(t) /\ threads[t].state = READY =>
       OnQueue(ready_queues[LevelOf(threads[t].priority)], t)
  /\ \A t \in ThreadSlot, l \in Level : OnQueue(ready_queues[l], t) =>
       Created(t) /\ threads[t].state = READY /\ l = LevelOf(threads[t].priority)
  /\ \A l \in Level : NoRepeat(ready_queues[l])

\* The thread the scheduler believes it runs is the only RUNNING one, and a
\* current thread that is not RUNNING is one whose sys_exit found nobody to
\* switch to.
OneRunning ==
  /\ \A t \in ThreadSlot : Created(t) /\ threads[t].state = RUNNING => t = current_thread
  /\ current_thread # NULL =>
       Created(current_thread) /\ threads[current_thread].state \in {RUNNING, ZOMBIE}

\* Every thread belongs to exactly one process slot in use, and thread_count is
\* the number of threads a process has: no failure path of process_create
\* leaves a thread or a half-made process behind.  The process may be a zombie:
\* sys_exit ends it while its other threads stay READY.
ThreadsBelong ==
  /\ \A t \in ThreadSlot : Created(t) =>
       \E p \in ProcSlot : processes[p].pid = threads[t].pid /\ threads[t].pid # 0
  /\ \A p, q \in ProcSlot : processes[p].pid = processes[q].pid =>
       p = q \/ processes[p].pid = 0
  /\ \A p \in ProcSlot : processes[p].pid # 0 =>
       /\ processes[p].thread_count > 0
       /\ processes[p].thread_count =
            Cardinality({t \in ThreadSlot : Created(t) /\ threads[t].pid = processes[p].pid})

\* A switch never passes over a waiting thread of a more urgent level; only
\* the thread that gave up the processor may be more urgent than its successor.
UrgentFirst ==
  [][current_thread' # current_thread =>
       \A t \in ThreadSlot :
         Created(t) /\ threads[t].state = READY /\ t # current_thread' =>
           LevelOf(threads[t].priority) >= LevelOf(threads[current_thread'].priority)]_vars

\* The threads before t on queue q.
Ahead(q, t) == {s \in ThreadSlot : \E i, j \in 1 .. Len(q) : i < j /\ q[i] = s /\ q[j] = t}

\* Round robin within a level: a waiting thread stays on its queue until it is
\* dispatched, nobody gets before it there, and each switch made while its
\* level is the most urgent one that waits moves it forward.  So it has the
\* processor after as many such switches as threads were ahead of it, plus
\* one; when the switches come is another matter, see SlicesAreShared.
InTurn ==
  [][\A l \in Level, t \in ThreadSlot : OnQueue(ready_queues[l], t) =>
       \/ current_thread' = t
       \/ /\ OnQueue(ready_queues'[l], t)
          /\ Ahead(ready_queues'[l], t) \subseteq Ahead(ready_queues[l], t)
          /\ current_thread' # current_thread
                /\ (\A k \in Level : k < l => ready_queues[k] = << >>) =>
               Ahead(ready_queues'[l], t) # Ahead(ready_queues[l], t)]_vars

\* "Round-robin scheduling within each priority level with 10ms time slices."
\* (docs/en/ARCHITECTURE.md:93): a thread that runs while another of its level
\* waits has at most one slice left.  scheduler_tick goes on counting down the
\* slice of a thread that nobody could take over from, so that the unsigned
\* counter passes 0, and a peer that comes then waits for the rest of 2^64.
SlicesAreShared ==
  \A t \in ThreadSlot, l \in Level :
    /\ current_thread # NULL
    /\ threads[current_thread].state = RUNNING
    /\ LevelOf(threads[current_thread].priority) = l
    /\ OnQueue(ready_queues[l], t)
    => threads[current_thread].time_slice <= TIME_SLICE

\* Every step of the scheduler is a step of the life of at most one thread
\* that gains and one that loses the processor, or changes no life at all.
Life == INSTANCE ThreadLife WITH
          ThreadId <- ThreadSlot,
          life <- [t \in ThreadSlot |-> IF threads[t].tid = 0 THEN "none" ELSE threads[t].state]

RefinesThreadLife == Life!Spec
=============================================================================
