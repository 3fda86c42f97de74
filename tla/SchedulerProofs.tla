-------------------------- MODULE SchedulerProofs --------------------------
(***************************************************************************)
(* The ready queues of kernel/sched/process.c hold each waiting thread     *)
(* once, and the scheduler implements ThreadLife, for every number of      *)
(* processes, threads and priorities and every length of the time slice.   *)
(* The clock of kernel/time.c follows the calendar at every time from 1970 *)
(* on.                                                                     *)
(***************************************************************************)
EXTENDS Scheduler, Clock, WellFoundedInduction, FiniteSetTheorems, TLAPS

\* A nonempty set of naturals has a least element.
LEMMA LeastNat ==
  ASSUME NEW S \in SUBSET Nat, S # {}
  PROVE  \E m \in S : \A k \in S : m <= k
<1>1. IsWellFoundedOn({ss \in Nat \X Nat : ss[1] < ss[2]}, Nat)
  BY NatLessThanWellFounded, Zenon DEF OpToRel
<1>2. PICK m \in S : \A k \in S : <<k, m>> \notin {ss \in Nat \X Nat : ss[1] < ss[2]}
  BY <1>1, WFMin, Zenon
<1>3. \A k \in S : k \in Nat /\ m \in Nat /\ ~ (k < m)
  BY <1>2, Zenon
<1>4. QED
  BY <1>3

\* Clamping gives a level.
LEMMA LevelOfLevel ==
  ASSUME NEW priority \in Int
  PROVE  LevelOf(priority) \in Level
  BY DEF LevelOf, Level

\* The first free slot is a free slot.
LEMMA FirstOfMember ==
  ASSUME NEW S \in SUBSET Nat, S # {}
  PROVE  FirstOf(S) \in S
  BY LeastNat DEF FirstOf

\* scheduler_pick_next finds the front of a nonempty queue.
LEMMA TopLevelNonempty ==
  ASSUME ~ Idle, TypeOK
  PROVE  /\ TopLevel \in Level /\ ready_queues[TopLevel] # << >>
         /\ \A k \in Level : k < TopLevel => ready_queues[k] = << >>
<1> DEFINE S == {l \in Level : ready_queues[l] # << >>}
<1>1. S \in SUBSET Nat /\ S # {}
  BY DEF Idle, Level
<1>2. PICK m \in S : \A k \in S : m <= k
  BY <1>1, LeastNat
<1>3. /\ m \in Level /\ ready_queues[m] # << >>
      /\ \A k \in Level : k < m => ready_queues[k] = << >>
  BY <1>2 DEF Level
<1>4. QED
  BY <1>3 DEF TopLevel

\* Appending to a queue a thread that is not on it.
LEMMA EnqueueFresh ==
  ASSUME NEW q \in Seq(ThreadSlot), NEW t \in ThreadSlot, ~ OnQueue(q, t)
  PROVE  /\ Enqueue(q, t) \in Seq(ThreadSlot)
         /\ Len(Enqueue(q, t)) = Len(q) + 1
         /\ Enqueue(q, t)[Len(q) + 1] = t
         /\ \A i \in 1 .. Len(q) : Enqueue(q, t)[i] = q[i]
  BY DEF Enqueue

\* Adding the thread at the end of a queue once more changes nothing.
LEMMA EnqueueAgain ==
  ASSUME NEW q \in Seq(ThreadSlot), NEW t \in ThreadSlot, ~ OnQueue(q, t)
  PROVE  Enqueue(Enqueue(q, t), t) = Enqueue(q, t)
<1> DEFINE e == Enqueue(q, t)
<1>1. /\ e \in Seq(ThreadSlot) /\ Len(e) = Len(q) + 1 /\ e[Len(q) + 1] = t
      /\ \A i \in 1 .. Len(q) : e[i] = q[i]
  BY EnqueueFresh
<1> HIDE DEF e
<1>2. \A i \in 1 .. Len(e) : e[i] = t => i = Len(e)
  BY <1>1 DEF OnQueue
<1>3. Len(e) \in 1 .. Len(e) /\ e[Len(e)] = t
  BY <1>1
<1>4. (CHOOSE i \in 1 .. Len(e) : e[i] = t) = Len(e)
  BY <1>2, <1>3
<1>5. SubSeq(e, 1, Len(e)) = e
  BY <1>1
<1>6. OnQueue(e, t)
  BY <1>3 DEF OnQueue
<1>7. Enqueue(e, t) = e
  BY <1>4, <1>5, <1>6 DEF Enqueue
<1>8. QED
  BY <1>7 DEF e

\* Popping the front of a queue.
LEMMA PopFront ==
  ASSUME NEW q \in Seq(ThreadSlot), q # << >>
  PROVE  /\ Head(q) \in ThreadSlot /\ Head(q) = q[1] /\ Len(q) >= 1
         /\ Tail(q) \in Seq(ThreadSlot) /\ Len(Tail(q)) = Len(q) - 1
         /\ \A i \in 1 .. Len(q) - 1 : Tail(q)[i] = q[i + 1]
  OBVIOUS

\* The threads on a queue after a thread was added.
LEMMA EnqueueContents ==
  ASSUME NEW q \in Seq(ThreadSlot), NEW t \in ThreadSlot, ~ OnQueue(q, t), NoRepeat(q)
  PROVE  /\ Enqueue(q, t) \in Seq(ThreadSlot)
         /\ NoRepeat(Enqueue(q, t))
         /\ \A u \in ThreadSlot : OnQueue(Enqueue(q, t), u) <=> OnQueue(q, u) \/ u = t
<1> DEFINE e == Enqueue(q, t)
<1>1. /\ e \in Seq(ThreadSlot) /\ Len(e) = Len(q) + 1 /\ e[Len(q) + 1] = t
      /\ \A i \in 1 .. Len(q) : e[i] = q[i]
  BY EnqueueFresh
<1> HIDE DEF e
<1>2. Len(q) \in Nat
  OBVIOUS
<1>3. \A i \in 1 .. Len(e) : i = Len(q) + 1 \/ i \in 1 .. Len(q)
  BY <1>1, <1>2
<1>4. NoRepeat(e)
  BY <1>1, <1>2, <1>3 DEF NoRepeat, OnQueue
<1>5. ASSUME NEW u \in ThreadSlot
      PROVE  OnQueue(e, u) <=> OnQueue(q, u) \/ u = t
  <2>1. ASSUME OnQueue(q, u) PROVE OnQueue(e, u)
    BY <2>1, <1>1, <1>2 DEF OnQueue
  <2>2. ASSUME u = t PROVE OnQueue(e, u)
    BY <2>2, <1>1, <1>2 DEF OnQueue
  <2>3. ASSUME OnQueue(e, u) PROVE OnQueue(q, u) \/ u = t
    BY <2>3, <1>1, <1>3 DEF OnQueue
  <2>4. QED
    BY <2>1, <2>2, <2>3
<1>6. QED
  BY <1>1, <1>4, <1>5 DEF e

\* The threads on a queue after its front was taken off.
LEMMA PopContents ==
  ASSUME NEW q \in Seq(ThreadSlot), q # << >>, NoRepeat(q)
  PROVE  /\ Head(q) \in ThreadSlot /\ OnQueue(q, Head(q))
         /\ Tail(q) \in Seq(ThreadSlot)
         /\ NoRepeat(Tail(q))
         /\ \A u \in ThreadSlot : OnQueue(Tail(q), u) <=> OnQueue(q, u) /\ u # Head(q)
<1> DEFINE r == Tail(q)
           h == Head(q)
<1>1. /\ h \in ThreadSlot /\ h = q[1] /\ Len(q) >= 1 /\ Len(q) \in Nat
      /\ r \in Seq(ThreadSlot) /\ Len(r) = Len(q) - 1
      /\ \A i \in 1 .. Len(q) - 1 : r[i] = q[i + 1]
  BY PopFront
<1> HIDE DEF r, h
<1>2. OnQueue(q, h)
  BY <1>1 DEF OnQueue
<1>3. NoRepeat(r)
  <2> SUFFICES ASSUME NEW i \in 1 .. Len(r), NEW j \in 1 .. Len(r), r[i] = r[j] PROVE i = j
    BY DEF NoRepeat
  <2>1. i + 1 \in 1 .. Len(q) /\ j + 1 \in 1 .. Len(q) /\ q[i + 1] = q[j + 1]
    BY <1>1
  <2>2. i + 1 = j + 1
    BY <2>1 DEF NoRepeat
  <2>3. QED
    BY <2>2
<1>4. ASSUME NEW u \in ThreadSlot
      PROVE  OnQueue(r, u) <=> OnQueue(q, u) /\ u # h
  <2>1. ASSUME OnQueue(r, u) PROVE OnQueue(q, u) /\ u # h
    <3>1. PICK i \in 1 .. Len(r) : r[i] = u
      BY <2>1 DEF OnQueue
    <3>2. i + 1 \in 1 .. Len(q) /\ q[i + 1] = u /\ 1 \in 1 .. Len(q) /\ i + 1 # 1
      BY <1>1, <3>1
    <3>3. u # h
      BY <1>1, <3>2 DEF NoRepeat
    <3>4. QED
      BY <3>2, <3>3 DEF OnQueue
  <2>2. ASSUME OnQueue(q, u), u # h PROVE OnQueue(r, u)
    <3>1. PICK i \in 1 .. Len(q) : q[i] = u
      BY <2>2 DEF OnQueue
    <3>2. i # 1
      BY <1>1, <2>2, <3>1
    <3>3. i - 1 \in 1 .. Len(r) /\ (i - 1) + 1 = i /\ i - 1 \in 1 .. Len(q) - 1
      BY <1>1, <3>1, <3>2
    <3>4. r[i - 1] = u
      BY <1>1, <3>1, <3>3
    <3>5. QED
      BY <3>3, <3>4 DEF OnQueue
  <2>3. QED
    BY <2>1, <2>2
<1>5. QED
  BY <1>1, <1>2, <1>3, <1>4 DEF r, h

(***************************************************************************)
(* The inductive invariant.                                                *)
(***************************************************************************)
SchedInv == TypeOK /\ QueuesMatchStates /\ OneRunning

\* A thread that is not READY is on no queue.
LEMMA NotReadyNotQueued ==
  ASSUME SchedInv, NEW t \in ThreadSlot, ~ Created(t) \/ threads[t].state # READY,
         NEW l \in Level
  PROVE  ~ OnQueue(ready_queues[l], t)
  BY DEF SchedInv, QueuesMatchStates

LEMMA InitSchedInv == Init => SchedInv
<1> SUFFICES ASSUME Init PROVE SchedInv
  OBVIOUS
<1>1. TypeOK
  BY SchedulerAssumption
     DEF Init, TypeOK, Process, Thread, ProcSlot, ThreadSlot, Level, NULL, READY
<1>2. QueuesMatchStates
  <2>1. \A l \in Level : Len(ready_queues[l]) = 0
    BY DEF Init
  <2>2. \A t \in ThreadSlot : ~ Created(t)
    BY DEF Init, Created
  <2>3. QED
    BY <2>1, <2>2 DEF QueuesMatchStates, OnQueue, NoRepeat
<1>3. OneRunning
  BY DEF Init, OneRunning, Created, NULL
<1>4. QED
  BY <1>1, <1>2, <1>3 DEF SchedInv

\* th is the thread table as scheduler_yield finds it: only the current
\* thread may differ from the table before the call, and it has not become
\* READY.
EntersYield(th) ==
  /\ th \in [ThreadSlot -> Thread]
  /\ \A t \in ThreadSlot : th[t].tid = threads[t].tid /\ th[t].priority = threads[t].priority
  /\ \A t \in ThreadSlot \ {current_thread} : th[t].state = threads[t].state
  /\ current_thread # NULL => th[current_thread].state \in {RUNNING, ZOMBIE}

\* What a switch does, thread by thread and queue by queue.
LEMMA DispatchEffect ==
  ASSUME SchedInv, NEW th, EntersYield(th), Dispatch(th)
  PROVE  LET new == Head(ready_queues[TopLevel])
             old == current_thread
             requeue == old # NULL /\ th[old].state = RUNNING
         IN  /\ new \in ThreadSlot /\ new # old /\ Created(new)
             /\ threads[new].state = READY /\ current_thread' = new
             /\ TopLevel = LevelOf(threads[new].priority)
             /\ threads' \in [ThreadSlot -> Thread]
             /\ threads'[new].state = RUNNING
             /\ requeue => threads'[old].state = READY
             /\ \A t \in ThreadSlot :
                  threads'[t].tid = threads[t].tid /\ threads'[t].priority = threads[t].priority
             /\ \A t \in ThreadSlot : t # new /\ ~ (t = old /\ requeue) =>
                  threads'[t].state = th[t].state
             /\ ready_queues' \in [Level -> Seq(ThreadSlot)]
             /\ \A l \in Level : NoRepeat(ready_queues'[l])
             /\ \A l \in Level, t \in ThreadSlot :
                  OnQueue(ready_queues'[l], t) <=>
                    \/ OnQueue(ready_queues[l], t) /\ t # new
                    \/ requeue /\ t = old /\ l = LevelOf(threads[old].priority)
<1> DEFINE top == TopLevel
           new == Head(ready_queues[top])
           rest == [ready_queues EXCEPT ![top] = Tail(@)]
           old == current_thread
           requeue == old # NULL /\ th[old].state = RUNNING
<1>1. top \in Level /\ ready_queues[top] # << >> /\ ready_queues[top] \in Seq(ThreadSlot)
  BY TopLevelNonempty DEF Dispatch, SchedInv, TypeOK
<1>2. /\ new \in ThreadSlot /\ OnQueue(ready_queues[top], new)
      /\ Tail(ready_queues[top]) \in Seq(ThreadSlot)
      /\ NoRepeat(Tail(ready_queues[top]))
      /\ \A u \in ThreadSlot :
           OnQueue(Tail(ready_queues[top]), u) <=> OnQueue(ready_queues[top], u) /\ u # new
  BY <1>1, PopContents DEF SchedInv, QueuesMatchStates
<1>3. Created(new) /\ threads[new].state = READY /\ top = LevelOf(threads[new].priority)
  BY <1>1, <1>2 DEF SchedInv, QueuesMatchStates
<1>4. new # old
  BY <1>2, <1>3, SchedulerAssumption
     DEF SchedInv, OneRunning, RUNNING, READY, ZOMBIE, NULL, ThreadSlot
<1>5. /\ rest \in [Level -> Seq(ThreadSlot)]
      /\ \A l \in Level : NoRepeat(rest[l])
      /\ \A l \in Level, u \in ThreadSlot :
           OnQueue(rest[l], u) <=> OnQueue(ready_queues[l], u) /\ u # new
  <2>1. rest[top] = Tail(ready_queues[top]) /\ \A l \in Level \ {top} : rest[l] = ready_queues[l]
    BY <1>1 DEF SchedInv, TypeOK
  <2>2. rest \in [Level -> Seq(ThreadSlot)]
    BY <1>1, <1>2 DEF SchedInv, TypeOK
  <2> HIDE DEF rest, new
  <2>3. \A l \in Level \ {top} : ~ OnQueue(ready_queues[l], new)
    BY <1>2, <1>3 DEF SchedInv, QueuesMatchStates
  <2>4. QED
    BY <1>2, <2>1, <2>2, <2>3 DEF SchedInv, QueuesMatchStates
<1>6. /\ current_thread' = new
      /\ threads' = [t \in ThreadSlot |->
           CASE t = new -> [th[t] EXCEPT !.time_slice = TIME_SLICE, !.state = RUNNING]
             [] t = old /\ t # new /\ requeue -> [th[t] EXCEPT !.state = READY]
             [] OTHER -> th[t]]
      /\ ready_queues' = IF requeue THEN AddToQueue(rest, th[old].priority, old) ELSE rest
  BY DEF Dispatch
<1> HIDE DEF new, rest, top
<1>7. /\ threads' \in [ThreadSlot -> Thread]
      /\ threads'[new].state = RUNNING
      /\ requeue => threads'[old].state = READY
      /\ \A t \in ThreadSlot :
           threads'[t].tid = threads[t].tid /\ threads'[t].priority = threads[t].priority
      /\ \A t \in ThreadSlot : t # new /\ ~ (t = old /\ requeue) =>
           threads'[t].state = th[t].state
  <2>1. TIME_SLICE \in Nat
    BY SchedulerAssumption
  <2>2. requeue => old \in ThreadSlot
    BY DEF SchedInv, TypeOK
  <2>3. QED
    BY <1>2, <1>4, <1>6, <2>1, <2>2 DEF EntersYield, Thread, RUNNING, READY, ZOMBIE
<1>8. /\ ready_queues' \in [Level -> Seq(ThreadSlot)]
      /\ \A l \in Level : NoRepeat(ready_queues'[l])
      /\ \A l \in Level, t \in ThreadSlot :
           OnQueue(ready_queues'[l], t) <=>
             \/ OnQueue(ready_queues[l], t) /\ t # new
             \/ requeue /\ t = old /\ l = LevelOf(threads[old].priority)
  <2>1. CASE ~ requeue
    BY <2>1, <1>5, <1>6
  <2>2. CASE requeue
    <3> DEFINE k == LevelOf(threads[old].priority)
    <3>1. /\ old \in ThreadSlot /\ Created(old) /\ threads[old].state # READY
          /\ threads[old].priority \in Int /\ th[old].priority = threads[old].priority
      BY <2>2 DEF SchedInv, TypeOK, OneRunning, EntersYield, Thread, RUNNING, READY, ZOMBIE
    <3>2. k \in Level
      BY <3>1, LevelOfLevel
    <3>3. \A l \in Level : ~ OnQueue(rest[l], old)
      BY <1>5, <3>1, NotReadyNotQueued
    <3>4. ready_queues' = [rest EXCEPT ![k] = Enqueue(@, old)]
      BY <1>6, <2>2, <3>1 DEF AddToQueue
    <3> HIDE DEF k
    <3>5. /\ Enqueue(rest[k], old) \in Seq(ThreadSlot)
          /\ NoRepeat(Enqueue(rest[k], old))
          /\ \A u \in ThreadSlot :
               OnQueue(Enqueue(rest[k], old), u) <=> OnQueue(rest[k], u) \/ u = old
      BY <1>5, <3>1, <3>2, <3>3, EnqueueContents
    <3>6. /\ ready_queues'[k] = Enqueue(rest[k], old)
          /\ \A l \in Level \ {k} : ready_queues'[l] = rest[l]
          /\ ready_queues' \in [Level -> Seq(ThreadSlot)]
      BY <1>5, <3>2, <3>4, <3>5
    <3>7. QED
      BY <1>5, <2>2, <3>2, <3>5, <3>6 DEF k
  <2>3. QED
    BY <2>1, <2>2
<1>9. QED
  BY <1>2, <1>3, <1>4, <1>6, <1>7, <1>8 DEF new, top

\* scheduler_yield preserves the part of the invariant that it can disturb.
LEMMA YieldSchedInv ==
  ASSUME SchedInv, NEW th, EntersYield(th), Yield(th)
  PROVE  /\ threads' \in [ThreadSlot -> Thread]
         /\ ready_queues' \in [Level -> Seq(ThreadSlot)]
         /\ current_thread' \in ThreadSlot \cup {NULL}
         /\ QueuesMatchStates' /\ OneRunning'
<1>1. CASE NoSwitch(th)
  <2>1. threads' = th /\ ready_queues' = ready_queues /\ current_thread' = current_thread
    BY <1>1 DEF NoSwitch
  <2>2. \A t \in ThreadSlot :
          /\ th[t].tid = threads[t].tid /\ th[t].priority = threads[t].priority
          /\ (th[t].state = READY) <=> (threads[t].state = READY)
    BY DEF EntersYield, SchedInv, OneRunning, RUNNING, READY, ZOMBIE, NULL, ThreadSlot
  <2>3. QueuesMatchStates'
    BY <2>1, <2>2 DEF SchedInv, QueuesMatchStates, Created
  <2>4. OneRunning'
    BY <2>1 DEF SchedInv, OneRunning, Created, EntersYield, NULL, ThreadSlot, TypeOK
  <2>5. QED
    BY <2>1, <2>3, <2>4 DEF EntersYield, SchedInv, TypeOK
<1>2. CASE Dispatch(th)
  <2> DEFINE new == Head(ready_queues[TopLevel])
             old == current_thread
             requeue == old # NULL /\ th[old].state = RUNNING
  <2>1. /\ new \in ThreadSlot /\ new # old /\ Created(new)
        /\ threads[new].state = READY /\ current_thread' = new
        /\ TopLevel = LevelOf(threads[new].priority)
        /\ threads' \in [ThreadSlot -> Thread]
        /\ threads'[new].state = RUNNING
        /\ requeue => threads'[old].state = READY
        /\ \A t \in ThreadSlot :
             threads'[t].tid = threads[t].tid /\ threads'[t].priority = threads[t].priority
        /\ \A t \in ThreadSlot : t # new /\ ~ (t = old /\ requeue) =>
             threads'[t].state = th[t].state
        /\ ready_queues' \in [Level -> Seq(ThreadSlot)]
        /\ \A l \in Level : NoRepeat(ready_queues'[l])
        /\ \A l \in Level, t \in ThreadSlot :
             OnQueue(ready_queues'[l], t) <=>
               \/ OnQueue(ready_queues[l], t) /\ t # new
               \/ requeue /\ t = old /\ l = LevelOf(threads[old].priority)
    BY <1>2, DispatchEffect
  <2> HIDE DEF new
  <2>2. \A t \in ThreadSlot : threads[t].priority \in Int /\ LevelOf(threads[t].priority) \in Level
    BY LevelOfLevel DEF SchedInv, TypeOK, Thread
  <2>3. old # NULL => old \in ThreadSlot /\ Created(old) /\ threads[old].state # READY
    BY DEF SchedInv, TypeOK, OneRunning, RUNNING, READY, ZOMBIE
  <2>4. ASSUME NEW t \in ThreadSlot, threads'[t].tid # 0, threads'[t].state = READY
        PROVE  OnQueue(ready_queues'[LevelOf(threads'[t].priority)], t)
    <3>1. t # new
      BY <2>1, <2>4 DEF READY, RUNNING
    <3>2. CASE t = old /\ requeue
      BY <3>2, <2>1, <2>2
    <3>3. CASE ~ (t = old /\ requeue)
      <4>1. th[t].state = READY
        BY <2>1, <2>4, <3>1, <3>3
      <4>2. t # old
        BY <4>1, SchedulerAssumption DEF EntersYield, READY, RUNNING, ZOMBIE, NULL, ThreadSlot
      <4>3. threads[t].state = READY /\ Created(t)
        BY <2>1, <2>4, <4>1, <4>2 DEF EntersYield, Created
      <4>4. OnQueue(ready_queues[LevelOf(threads[t].priority)], t)
        BY <4>3 DEF SchedInv, QueuesMatchStates
      <4>5. QED
        BY <2>1, <2>2, <3>1, <4>4
    <3>4. QED
      BY <3>2, <3>3
  <2>5. ASSUME NEW t \in ThreadSlot, NEW l \in Level, OnQueue(ready_queues'[l], t)
        PROVE  /\ threads'[t].tid # 0 /\ threads'[t].state = READY
               /\ l = LevelOf(threads'[t].priority)
    <3>1. CASE requeue /\ t = old /\ l = LevelOf(threads[old].priority)
      BY <3>1, <2>1, <2>3 DEF Created
    <3>2. CASE OnQueue(ready_queues[l], t) /\ t # new
      <4>1. Created(t) /\ threads[t].state = READY /\ l = LevelOf(threads[t].priority)
        BY <3>2 DEF SchedInv, QueuesMatchStates
      <4>2. t # old
        BY <2>3, <4>1, SchedulerAssumption DEF NULL, ThreadSlot
      <4>3. QED
        BY <2>1, <3>2, <4>1, <4>2 DEF EntersYield, Created
    <3>3. QED
      BY <2>1, <2>5, <3>1, <3>2
  <2>6. QueuesMatchStates'
    BY <2>1, <2>4, <2>5 DEF QueuesMatchStates, Created
  <2>7. OneRunning'
    <3>1. ASSUME NEW t \in ThreadSlot, threads'[t].tid # 0, threads'[t].state = RUNNING
          PROVE  t = new
      <4> SUFFICES ASSUME t # new PROVE FALSE
        OBVIOUS
      <4>1. ~ (t = old /\ requeue)
        BY <2>1, <3>1 DEF READY, RUNNING
      <4>2. th[t].state = RUNNING
        BY <2>1, <3>1, <4>1
      <4>3. t # old
        BY <4>1, <4>2, SchedulerAssumption DEF NULL, ThreadSlot
      <4>4. QED
        BY <2>1, <3>1, <4>2, <4>3 DEF EntersYield, SchedInv, OneRunning, Created
    <3>2. QED
      BY <2>1, <3>1 DEF OneRunning, Created
  <2>8. QED
    BY <2>1, <2>6, <2>7
<1>3. QED
  BY <1>1, <1>2 DEF Yield

\* The thread tables with which scheduler_tick and sys_exit enter the yield.
LEMMA EntersYieldCases ==
  ASSUME SchedInv
  PROVE  /\ EntersYield(threads)
         /\ current_thread # NULL => EntersYield(Ticked(current_thread))
         /\ current_thread # NULL =>
              EntersYield([threads EXCEPT ![current_thread].state = ZOMBIE])
<1>1. EntersYield(threads)
  BY DEF EntersYield, SchedInv, TypeOK, OneRunning
<1>2. ASSUME current_thread # NULL PROVE EntersYield(Ticked(current_thread))
  <2>1. \A n \in Nat : (n - 1) % SLICE_MOD \in Nat
    BY SchedulerAssumption
  <2>2. QED
    BY <1>2, <2>1 DEF EntersYield, SchedInv, TypeOK, OneRunning, Ticked, Thread
<1>3. ASSUME current_thread # NULL
      PROVE  EntersYield([threads EXCEPT ![current_thread].state = ZOMBIE])
  BY <1>3 DEF EntersYield, SchedInv, TypeOK, OneRunning, Thread, ZOMBIE, RUNNING, READY
<1>4. QED
  BY <1>1, <1>2, <1>3

\* thread_create filled the first free slot and queued it, once or twice.
ThreadAdded(pid, priority) ==
  LET t == FirstOf(FreeThreads)
  IN  /\ FreeThreads # {}
      /\ threads' = [threads EXCEPT ![t] =
           [tid |-> next_tid, pid |-> pid, state |-> READY, priority |-> priority,
            time_slice |-> TIME_SLICE]]
      /\ \/ ready_queues' = AddToQueue(ready_queues, priority, t)
         \/ ready_queues' = AddToQueue(AddToQueue(ready_queues, priority, t), priority, t)
      /\ current_thread' = current_thread

\* The new thread was on no queue, and is now on the queue of its level.
LEMMA NewThreadSchedInv ==
  ASSUME SchedInv, NEW pid \in Nat, NEW priority \in Int, ThreadAdded(pid, priority)
  PROVE  /\ FirstOf(FreeThreads) \in ThreadSlot
         /\ ~ Created(FirstOf(FreeThreads))
         /\ threads' \in [ThreadSlot -> Thread]
         /\ ready_queues' \in [Level -> Seq(ThreadSlot)]
         /\ QueuesMatchStates' /\ OneRunning'
<1> DEFINE t == FirstOf(FreeThreads)
           k == LevelOf(priority)
           q == ready_queues[k]
<1>1. t \in ThreadSlot /\ threads[t].tid = 0
  <2>1. FreeThreads \in SUBSET Nat
    BY DEF FreeThreads, ThreadSlot
  <2>2. QED
    BY <2>1, FirstOfMember DEF FreeThreads, ThreadAdded
<1> HIDE DEF t
<1>2. k \in Level /\ q \in Seq(ThreadSlot) /\ NoRepeat(q)
  BY LevelOfLevel DEF SchedInv, TypeOK, QueuesMatchStates
<1>3. \A l \in Level : ~ OnQueue(ready_queues[l], t)
  BY <1>1, NotReadyNotQueued DEF Created
<1>4. /\ Enqueue(q, t) \in Seq(ThreadSlot)
      /\ NoRepeat(Enqueue(q, t))
      /\ \A u \in ThreadSlot : OnQueue(Enqueue(q, t), u) <=> OnQueue(q, u) \/ u = t
      /\ Enqueue(Enqueue(q, t), t) = Enqueue(q, t)
  BY <1>1, <1>2, <1>3, EnqueueContents, EnqueueAgain
<1>5. ready_queues' = [ready_queues EXCEPT ![k] = Enqueue(q, t)]
  <2>1. ready_queues \in [Level -> Seq(ThreadSlot)]
    BY DEF SchedInv, TypeOK
  <2>2. AddToQueue(ready_queues, priority, t) = [ready_queues EXCEPT ![k] = Enqueue(q, t)]
    BY DEF AddToQueue
  <2>3. AddToQueue([ready_queues EXCEPT ![k] = Enqueue(q, t)], priority, t)
          = [ready_queues EXCEPT ![k] = Enqueue(q, t)]
    BY <1>2, <1>4, <2>1 DEF AddToQueue
  <2>4. QED
    BY <2>2, <2>3 DEF t, ThreadAdded
<1>6. /\ ready_queues'[k] = Enqueue(q, t)
      /\ \A l \in Level \ {k} : ready_queues'[l] = ready_queues[l]
      /\ ready_queues' \in [Level -> Seq(ThreadSlot)]
  BY <1>2, <1>4, <1>5 DEF SchedInv, TypeOK
<1>7. /\ threads' \in [ThreadSlot -> Thread]
      /\ threads'[t].tid # 0 /\ threads'[t].state = READY /\ threads'[t].priority = priority
      /\ \A u \in ThreadSlot \ {t} : threads'[u] = threads[u]
  <2>1. threads' = [threads EXCEPT ![t] =
                  [tid |-> next_tid, pid |-> pid, state |-> READY, priority |-> priority,
                   time_slice |-> TIME_SLICE]]
    BY DEF t, ThreadAdded
  <2>2. QED
    BY <1>1, <2>1, SchedulerAssumption DEF SchedInv, TypeOK, Thread
<1> HIDE DEF k, q
<1>8. QueuesMatchStates'
  <2>1. ASSUME NEW u \in ThreadSlot, threads'[u].tid # 0, threads'[u].state = READY
        PROVE  OnQueue(ready_queues'[LevelOf(threads'[u].priority)], u)
    <3>1. CASE u = t
      BY <3>1, <1>1, <1>4, <1>6, <1>7 DEF k
    <3>2. CASE u # t
      <4>1. /\ OnQueue(ready_queues[LevelOf(threads[u].priority)], u)
            /\ LevelOf(threads[u].priority) \in Level
            /\ threads'[u].priority = threads[u].priority
        BY <2>1, <3>2, <1>7, LevelOfLevel
           DEF SchedInv, QueuesMatchStates, Created, TypeOK, Thread
      <4>2. QED
        BY <4>1, <1>4, <1>6 DEF q
    <3>3. QED
      BY <3>1, <3>2
  <2>2. ASSUME NEW u \in ThreadSlot, NEW l \in Level, OnQueue(ready_queues'[l], u)
        PROVE  /\ threads'[u].tid # 0 /\ threads'[u].state = READY
               /\ l = LevelOf(threads'[u].priority)
    <3>1. CASE u = t
      BY <3>1, <2>2, <1>3, <1>6, <1>7 DEF k
    <3>2. CASE u # t
      <4>1. OnQueue(ready_queues[l], u)
        BY <2>2, <3>2, <1>4, <1>6 DEF q
      <4>2. QED
        BY <4>1, <3>2, <1>7 DEF SchedInv, QueuesMatchStates, Created
    <3>3. QED
      BY <3>1, <3>2
  <2>3. \A l \in Level : NoRepeat(ready_queues'[l])
    BY <1>4, <1>6 DEF SchedInv, QueuesMatchStates
  <2>4. QED
    BY <2>1, <2>2, <2>3 DEF QueuesMatchStates, Created
<1>9. OneRunning'
  <2>1. current_thread # t
    BY <1>1, SchedulerAssumption DEF SchedInv, OneRunning, Created, NULL, ThreadSlot
  <2>2. QED
    BY <1>7, <2>1
       DEF SchedInv, OneRunning, Created, TypeOK, READY, RUNNING, ThreadAdded
<1>10. QED
  BY <1>1, <1>6, <1>7, <1>8, <1>9 DEF t, Created

\* The processes table keeps its type.
LEMMA ProcessesType ==
  ASSUME SchedInv, [Next]_vars
  PROVE  processes' \in [ProcSlot -> Process]
<1> USE DEF SchedInv, TypeOK
<1>1. FreeProcs # {} => FirstOf(FreeProcs) \in ProcSlot
  <2>1. FreeProcs \in SUBSET Nat
    BY DEF FreeProcs, ProcSlot
  <2>2. QED
    BY <2>1, FirstOfMember DEF FreeProcs
<1>2. FreeThreads # {} => FirstOf(FreeThreads) \in ThreadSlot
  <2>1. FreeThreads \in SUBSET Nat
    BY DEF FreeThreads, ThreadSlot
  <2>2. QED
    BY <2>1, FirstOfMember DEF FreeThreads
<1>3. ASSUME NEW ps \in [ProcSlot -> Process], NEW p \in ProcSlot, NEW t \in ThreadSlot
      PROVE  [ps EXCEPT ![p].threads = t, ![p].thread_count = @ + 1] \in [ProcSlot -> Process]
  <2> DEFINE a == [ps EXCEPT ![p].threads = t]
  <2>1. a \in [ProcSlot -> Process]
    BY DEF Process
  <2>2. a[p].thread_count + 1 \in Nat
    BY <2>1 DEF Process
  <2> HIDE DEF a
  <2>3. [a EXCEPT ![p].thread_count = @ + 1] \in [ProcSlot -> Process]
    BY <2>1, <2>2 DEF Process
  <2>4. QED
    BY <2>3 DEF a
<1>4. ASSUME NEW ps \in [ProcSlot -> Process], NEW p \in ProcSlot
      PROVE  [ps EXCEPT ![p].pid = 0] \in [ProcSlot -> Process]
  BY DEF Process
<1>5. ASSUME NEW priority \in Priorities
      PROVE  FreeProcs # {} =>
               Initialised(FirstOf(FreeProcs), priority) \in [ProcSlot -> Process]
  BY <1>1, SchedulerAssumption DEF Initialised, Process, READY, ZOMBIE
<1>6. ASSUME NEW priority \in Priorities, ProcessCreate(priority)
      PROVE  processes' \in [ProcSlot -> Process]
  BY <1>1, <1>2, <1>3, <1>5, <1>6 DEF ProcessCreate, NewThread
<1>7. ASSUME NEW priority \in Priorities, ProcessCreateFails(priority)
      PROVE  processes' \in [ProcSlot -> Process]
  BY <1>1, <1>4, <1>5, <1>7 DEF ProcessCreateFails
<1>8. ASSUME NEW p \in ProcSlot, ThreadCreate(p)
      PROVE  processes' \in [ProcSlot -> Process]
  BY <1>2, <1>3, <1>8 DEF ThreadCreate, NewThread
<1>9. ASSUME NEW p \in ProcSlot, ThreadCreateAndAdd(p)
      PROVE  processes' \in [ProcSlot -> Process]
  BY <1>2, <1>3, <1>9 DEF ThreadCreateAndAdd
<1>10. CASE SysExit
  BY <1>10 DEF SysExit, Process, READY, ZOMBIE
<1>11. QED
  BY <1>6, <1>7, <1>8, <1>9, <1>10 DEF Next, SchedulerYield, SchedulerTick, vars

\* Every step of the scheduler preserves the invariant.
LEMMA StepSchedInv ==
  ASSUME SchedInv, [Next]_vars
  PROVE  SchedInv'
<1>1. processes' \in [ProcSlot -> Process]
  BY ProcessesType
<1> DEFINE Rest ==
      /\ threads' \in [ThreadSlot -> Thread]
      /\ ready_queues' \in [Level -> Seq(ThreadSlot)]
      /\ current_thread' \in ThreadSlot \cup {NULL}
      /\ next_pid' \in Nat \ {0} /\ next_tid' \in Nat \ {0}
      /\ QueuesMatchStates' /\ OneRunning'
<1>2. /\ next_pid \in Nat \ {0} /\ next_tid \in Nat \ {0}
      /\ current_thread \in ThreadSlot \cup {NULL}
  BY DEF SchedInv, TypeOK
<1>3. ASSUME NEW priority \in Priorities, ProcessCreate(priority) PROVE Rest
  <2>1. priority \in Int /\ next_pid \in Nat
    BY <1>2, SchedulerAssumption
  <2>2. ThreadAdded(next_pid, priority)
    BY <1>3 DEF ProcessCreate, NewThread, ThreadAdded
  <2>3. /\ current_thread' = current_thread
        /\ next_pid' = next_pid + 1 /\ next_tid' = next_tid + 1
    BY <1>3 DEF ProcessCreate, NewThread
  <2>4. QED
    BY <1>2, <2>1, <2>2, <2>3, NewThreadSchedInv
<1>4. ASSUME NEW priority \in Priorities, ProcessCreateFails(priority) PROVE Rest
  BY <1>2, <1>4
     DEF ProcessCreateFails, SchedInv, TypeOK, QueuesMatchStates, OneRunning, Created
<1>5. ASSUME NEW p \in ProcSlot, ThreadCreate(p) \/ ThreadCreateAndAdd(p) PROVE Rest
  <2>1. processes[p].pid \in Nat /\ processes[p].priority \in Int
    BY DEF SchedInv, TypeOK, Process
  <2>2. ThreadAdded(processes[p].pid, processes[p].priority)
    BY <1>5 DEF ThreadCreate, ThreadCreateAndAdd, NewThread, ThreadAdded
  <2>3. /\ current_thread' = current_thread
        /\ next_pid' = next_pid /\ next_tid' = next_tid + 1
    BY <1>5 DEF ThreadCreate, ThreadCreateAndAdd, NewThread
  <2>4. QED
    BY <1>2, <2>1, <2>2, <2>3, NewThreadSchedInv
<1>6. ASSUME NEW th, EntersYield(th), Yield(th), UNCHANGED <<next_pid, next_tid>> PROVE Rest
  BY <1>2, <1>6, YieldSchedInv
<1>7. ASSUME SchedulerYield PROVE Rest
  BY <1>6, <1>7, EntersYieldCases DEF SchedulerYield
<1>8. ASSUME SchedulerTick PROVE Rest
  <2> DEFINE th == Ticked(current_thread)
  <2>1. EntersYield(th) /\ UNCHANGED <<next_pid, next_tid>>
    BY <1>8, EntersYieldCases DEF SchedulerTick
  <2>2. ASSUME Yield(th) PROVE Rest
    BY <1>6, <2>1, <2>2
  <2>3. ASSUME threads' = th, UNCHANGED <<ready_queues, current_thread>> PROVE Rest
    <3> HIDE DEF th
    <3>1. \A t \in ThreadSlot :
            /\ th[t].tid = threads[t].tid /\ th[t].priority = threads[t].priority
            /\ th[t].state = threads[t].state
      BY <1>8 DEF SchedulerTick, Ticked, th, SchedInv, TypeOK, Thread
    <3>2. QueuesMatchStates'
      BY <2>3, <3>1 DEF SchedInv, QueuesMatchStates, Created
    <3>3. OneRunning'
      BY <2>3, <3>1 DEF SchedInv, OneRunning, Created, TypeOK
    <3>4. QED
      BY <1>2, <2>1, <2>3, <3>2, <3>3 DEF EntersYield, SchedInv, TypeOK
  <2>4. Yield(th) \/ (threads' = th /\ UNCHANGED <<ready_queues, current_thread>>)
    BY <1>8 DEF SchedulerTick
  <2>5. QED
    BY <2>2, <2>3, <2>4
<1>9. ASSUME SysExit PROVE Rest
  <2>1. EntersYield([threads EXCEPT ![current_thread].state = ZOMBIE])
    BY <1>9, EntersYieldCases DEF SysExit
  <2>2. QED
    BY <1>6, <1>9, <2>1 DEF SysExit
<1>10. ASSUME UNCHANGED vars PROVE Rest
  BY <1>10 DEF vars, SchedInv, TypeOK, QueuesMatchStates, OneRunning, Created
<1> HIDE DEF Rest
<1>11. Rest
  BY <1>3, <1>4, <1>5, <1>7, <1>8, <1>9, <1>10 DEF Next
<1>12. QED
  BY <1>1, <1>11 DEF SchedInv, TypeOK, Rest

\* The queues, the states of the threads and current_thread always agree.
THEOREM SchedulerInvariant == Spec => []SchedInv
<1>1. SchedInv /\ [Next]_vars => SchedInv'
  BY StepSchedInv
<1>2. QED
  BY <1>1, InitSchedInv, PTL DEF Spec

\* Type correctness.
THEOREM SchedulerTypeOK == Spec => []TypeOK
<1>1. SchedInv => TypeOK
  BY DEF SchedInv
<1>2. QED
  BY <1>1, SchedulerInvariant, PTL

\* No thread is lost or queued twice.
THEOREM SchedulerQueuesMatchStates == Spec => []QueuesMatchStates
<1>1. SchedInv => QueuesMatchStates
  BY DEF SchedInv
<1>2. QED
  BY <1>1, SchedulerInvariant, PTL

\* At most one thread runs: the current one.
THEOREM SchedulerOneRunning == Spec => []OneRunning
<1>1. SchedInv => OneRunning
  BY DEF SchedInv
<1>2. QED
  BY <1>1, SchedulerInvariant, PTL

(***************************************************************************)
(* Urgency.                                                                *)
(***************************************************************************)
LEMMA DispatchUrgent ==
  ASSUME SchedInv, NEW th, EntersYield(th), Dispatch(th),
         NEW t \in ThreadSlot, Created(t), threads[t].state = READY
  PROVE  LevelOf(threads[t].priority) >= LevelOf(threads[current_thread'].priority)
<1> DEFINE l == LevelOf(threads[t].priority)
<1>1. l \in Level /\ OnQueue(ready_queues[l], t)
  BY LevelOfLevel DEF SchedInv, TypeOK, QueuesMatchStates, Thread
<1>2. ready_queues[l] # << >>
  BY <1>1 DEF OnQueue
<1>3. TopLevel \in Level /\ \A k \in Level : k < TopLevel => ready_queues[k] = << >>
  BY TopLevelNonempty DEF Dispatch, SchedInv
<1>4. TopLevel = LevelOf(threads[current_thread'].priority)
  BY DispatchEffect
<1> HIDE DEF l
<1>5. l >= TopLevel
  BY <1>1, <1>2, <1>3 DEF Level
<1>6. QED
  BY <1>4, <1>5 DEF l

\* scheduler_pick_next takes from the most urgent level that has a thread.
THEOREM SchedulerUrgentFirst == Spec => UrgentFirst
<1>1. ASSUME SchedInv, [Next]_vars
      PROVE  [current_thread' # current_thread =>
                \A t \in ThreadSlot :
                  Created(t) /\ threads[t].state = READY /\ t # current_thread' =>
                    LevelOf(threads[t].priority) >= LevelOf(threads[current_thread'].priority)]_vars
  <2>1. ASSUME NEW th, EntersYield(th), Yield(th), current_thread' # current_thread,
               NEW t \in ThreadSlot, Created(t), threads[t].state = READY
        PROVE  LevelOf(threads[t].priority) >= LevelOf(threads[current_thread'].priority)
    BY <1>1, <2>1, DispatchUrgent DEF Yield, NoSwitch
  <2>2. CASE SchedulerYield
    BY <1>1, <2>1, <2>2, EntersYieldCases DEF SchedulerYield
  <2>3. CASE SchedulerTick
    <3>1. /\ EntersYield(Ticked(current_thread))
          /\ Yield(Ticked(current_thread)) \/ current_thread' = current_thread
      BY <1>1, <2>3, EntersYieldCases DEF SchedulerTick
    <3>2. QED
      BY <2>1, <3>1
  <2>4. CASE SysExit
    <3>1. /\ EntersYield([threads EXCEPT ![current_thread].state = ZOMBIE])
          /\ Yield([threads EXCEPT ![current_thread].state = ZOMBIE])
      BY <1>1, <2>4, EntersYieldCases DEF SysExit
    <3>2. QED
      BY <2>1, <3>1
  <2>5. CASE ~ (SchedulerYield \/ SchedulerTick \/ SysExit)
    BY <1>1, <2>5
       DEF Next, ProcessCreate, ProcessCreateFails, ThreadCreate, ThreadCreateAndAdd, NewThread, vars
  <2>6. QED
    BY <2>2, <2>3, <2>4, <2>5
<1>2. QED
  BY <1>1, SchedulerInvariant, PTL DEF Spec, UrgentFirst

(***************************************************************************)
(* Round robin.                                                            *)
(***************************************************************************)

\* A thread hung at the end of a queue gets before nobody.
LEMMA AheadOfEnqueue ==
  ASSUME NEW q \in Seq(ThreadSlot), NEW t \in ThreadSlot, ~ OnQueue(q, t),
         NEW u \in ThreadSlot, OnQueue(q, u)
  PROVE  Ahead(Enqueue(q, t), u) = Ahead(q, u)
<1> DEFINE e == Enqueue(q, t)
<1>1. /\ Len(e) = Len(q) + 1 /\ Len(q) \in Nat /\ e[Len(q) + 1] = t
      /\ \A i \in 1 .. Len(q) : e[i] = q[i]
  BY EnqueueFresh
<1> HIDE DEF e
<1>2. u # t
  OBVIOUS
<1>3. \A i \in 1 .. Len(q) : i \in 1 .. Len(e)
  BY <1>1
<1>4. \A i, j \in 1 .. Len(e) : i < j /\ e[j] = u => i \in 1 .. Len(q) /\ j \in 1 .. Len(q)
  <2> SUFFICES ASSUME NEW i \in 1 .. Len(e), NEW j \in 1 .. Len(e), i < j, e[j] = u
               PROVE  i \in 1 .. Len(q) /\ j \in 1 .. Len(q)
    OBVIOUS
  <2>1. j # Len(q) + 1
    BY <1>1, <1>2
  <2>2. QED
    BY <1>1, <2>1
<1>5. \A s \in ThreadSlot :
        (\E i, j \in 1 .. Len(e) : i < j /\ e[i] = s /\ e[j] = u)
          <=> (\E i, j \in 1 .. Len(q) : i < j /\ q[i] = s /\ q[j] = u)
  BY <1>1, <1>3, <1>4
<1>6. QED
  BY <1>5 DEF Ahead, e

\* Taking off the front of a queue moves everybody else forward.
LEMMA AheadOfTail ==
  ASSUME NEW q \in Seq(ThreadSlot), NoRepeat(q), NEW u \in ThreadSlot, OnQueue(q, u), u # Head(q)
  PROVE  /\ Ahead(Tail(q), u) \subseteq Ahead(q, u)
         /\ Ahead(Tail(q), u) # Ahead(q, u)
<1> DEFINE r == Tail(q)
           h == Head(q)
<1>0. q # << >>
  BY DEF OnQueue
<1>1. /\ h \in ThreadSlot /\ h = q[1] /\ Len(q) >= 1 /\ Len(q) \in Nat
      /\ Len(r) = Len(q) - 1
      /\ \A i \in 1 .. Len(q) - 1 : r[i] = q[i + 1]
  BY <1>0, PopFront
<1>2. ~ OnQueue(r, h)
  BY <1>0, PopContents
<1> HIDE DEF r, h
<1>3. \A i \in 1 .. Len(r) : i + 1 \in 1 .. Len(q) /\ r[i] = q[i + 1]
  BY <1>1
<1>4. Ahead(r, u) \subseteq Ahead(q, u)
  <2> SUFFICES ASSUME NEW s \in ThreadSlot, NEW i \in 1 .. Len(r), NEW j \in 1 .. Len(r),
                      i < j, r[i] = s, r[j] = u
               PROVE  s \in Ahead(q, u)
    BY DEF Ahead
  <2>1. i + 1 \in 1 .. Len(q) /\ j + 1 \in 1 .. Len(q) /\ i + 1 < j + 1
    BY <1>3
  <2>2. QED
    BY <1>3, <2>1 DEF Ahead
<1>5. h \in Ahead(q, u)
  <2>1. PICK j \in 1 .. Len(q) : q[j] = u
    BY DEF OnQueue
  <2>2. 1 \in 1 .. Len(q) /\ 1 < j
    BY <1>1, <2>1 DEF h
  <2>3. QED
    BY <1>1, <2>1, <2>2 DEF Ahead
<1>6. h \notin Ahead(r, u)
  BY <1>2 DEF Ahead, OnQueue
<1>7. QED
  BY <1>4, <1>5, <1>6 DEF r

\* What a step may do to a waiting thread.
Waits(l, t) ==
  \/ current_thread' = t
  \/ /\ OnQueue(ready_queues'[l], t)
     /\ Ahead(ready_queues'[l], t) \subseteq Ahead(ready_queues[l], t)
     /\ current_thread' # current_thread
           /\ (\A k \in Level : k < l => ready_queues[k] = << >>) =>
          Ahead(ready_queues'[l], t) # Ahead(ready_queues[l], t)

LEMMA DispatchInTurn ==
  ASSUME SchedInv, NEW th, EntersYield(th), Dispatch(th),
         NEW l \in Level, NEW t \in ThreadSlot, OnQueue(ready_queues[l], t)
  PROVE  Waits(l, t)
<1> DEFINE top == TopLevel
           new == Head(ready_queues[top])
           rest == [ready_queues EXCEPT ![top] = Tail(@)]
           old == current_thread
           requeue == old # NULL /\ th[old].state = RUNNING
           k == LevelOf(th[old].priority)
<1>0. ~ Idle /\ TypeOK
  BY Zenon DEF Dispatch, SchedInv
<1>1. /\ top \in Level /\ ready_queues[top] # << >>
      /\ \A m \in Level : m < top => ready_queues[m] = << >>
  BY <1>0, TopLevelNonempty, Zenon
<1>2. ready_queues \in [Level -> Seq(ThreadSlot)] /\ \A m \in Level : NoRepeat(ready_queues[m])
  BY DEF SchedInv, TypeOK, QueuesMatchStates
<1>3. current_thread' = new
  BY Zenon DEF Dispatch
<1>4. SUFFICES ASSUME t # new PROVE Waits(l, t)
  BY <1>3 DEF Waits
<1>5. /\ rest \in [Level -> Seq(ThreadSlot)]
      /\ rest[top] = Tail(ready_queues[top])
      /\ \A m \in Level \ {top} : rest[m] = ready_queues[m]
  BY <1>1, <1>2, PopFront
<1>6. ready_queues' = IF requeue THEN AddToQueue(rest, th[old].priority, old) ELSE rest
  BY Zenon DEF Dispatch
<1>7. ready_queues[l] # << >>
  BY DEF OnQueue
<1>8. ASSUME \A m \in Level : m < l => ready_queues[m] = << >> PROVE l = top
  BY <1>1, <1>7, <1>8 DEF Level
<1>9. OnQueue(rest[l], t)
  <2>1. CASE l = top
    BY <1>1, <1>2, <1>4, <1>5, <2>1, PopContents
  <2>2. CASE l # top
    BY <1>5, <2>2
  <2>3. QED
    BY <2>1, <2>2
<1>10. /\ Ahead(rest[l], t) \subseteq Ahead(ready_queues[l], t)
       /\ l = top => Ahead(rest[l], t) # Ahead(ready_queues[l], t)
  <2>1. CASE l = top
    BY <1>2, <1>4, <1>5, <2>1, AheadOfTail
  <2>2. CASE l # top
    BY <1>5, <2>2
  <2>3. QED
    BY <2>1, <2>2
<1>11. requeue => old \in ThreadSlot /\ ~ OnQueue(ready_queues[l], old) /\ ~ OnQueue(rest[l], old)
  <2> SUFFICES ASSUME requeue
               PROVE old \in ThreadSlot /\ ~ OnQueue(ready_queues[l], old) /\ ~ OnQueue(rest[l], old)
    OBVIOUS
  <2>1. old \in ThreadSlot /\ threads[old].state # READY
    BY DEF SchedInv, TypeOK, OneRunning, RUNNING, READY, ZOMBIE
  <2>2. ~ OnQueue(ready_queues[l], old)
    BY <2>1, NotReadyNotQueued
  <2>3. l = top => ~ OnQueue(rest[l], old)
    BY <1>1, <1>2, <1>5, <2>1, <2>2, PopContents
  <2>4. QED
    BY <1>5, <2>1, <2>2, <2>3
<1> HIDE DEF rest, new, top
<1>12. OnQueue(ready_queues'[l], t) /\ Ahead(ready_queues'[l], t) = Ahead(rest[l], t)
  <2>1. CASE ~ requeue
    BY <1>6, <1>9, <2>1
  <2>2. ASSUME requeue PROVE OnQueue(ready_queues'[l], t) /\ Ahead(ready_queues'[l], t) = Ahead(rest[l], t)
    <3>1. ready_queues'[l] = IF l = k THEN Enqueue(rest[l], old) ELSE rest[l]
      BY <1>5, <1>6, <2>2 DEF AddToQueue
    <3>2. ~ OnQueue(rest[l], old) /\ old \in ThreadSlot /\ rest[l] \in Seq(ThreadSlot)
      BY <1>5, <1>11, <2>2
    <3>3. NoRepeat(rest[l])
      <4>1. l = top => NoRepeat(rest[l])
        BY <1>1, <1>2, <1>5, PopContents
      <4>2. QED
        BY <1>2, <1>5, <4>1
    <3> HIDE DEF k, old
    <3>4. OnQueue(Enqueue(rest[l], old), t) /\ Ahead(Enqueue(rest[l], old), t) = Ahead(rest[l], t)
      BY <1>9, <3>2, <3>3, EnqueueContents, AheadOfEnqueue
    <3>5. QED
      BY <1>9, <3>1, <3>4
  <2>3. QED
    BY <2>1, <2>2
<1>13. QED
  BY <1>8, <1>10, <1>12 DEF Waits

\* A step that leaves the queue of a level and the processor alone, or hangs a
\* new thread at the end of a queue.
LEMMA AddedInTurn ==
  ASSUME SchedInv, NEW pid \in Nat, NEW priority \in Int, ThreadAdded(pid, priority),
         NEW l \in Level, NEW t \in ThreadSlot, OnQueue(ready_queues[l], t)
  PROVE  Waits(l, t)
<1> DEFINE n == FirstOf(FreeThreads)
           q == ready_queues[l]
<1>1. n \in ThreadSlot /\ ~ Created(n)
  BY NewThreadSchedInv
<1>2. q \in Seq(ThreadSlot) /\ NoRepeat(q) /\ ~ OnQueue(q, n)
  BY <1>1, NotReadyNotQueued DEF SchedInv, TypeOK, QueuesMatchStates
<1>3. ready_queues \in [Level -> Seq(ThreadSlot)] /\ LevelOf(priority) \in Level
  BY LevelOfLevel DEF SchedInv, TypeOK
<1>4. \/ ready_queues' = AddToQueue(ready_queues, priority, n)
      \/ ready_queues' = AddToQueue(AddToQueue(ready_queues, priority, n), priority, n)
  BY DEF ThreadAdded
<1> HIDE DEF n
<1>5. ready_queues'[l] \in {q, Enqueue(q, n), Enqueue(Enqueue(q, n), n)}
  BY <1>3, <1>4 DEF AddToQueue
<1>6. Enqueue(Enqueue(q, n), n) = Enqueue(q, n)
  BY <1>1, <1>2, EnqueueAgain
<1>7. OnQueue(Enqueue(q, n), t) /\ Ahead(Enqueue(q, n), t) = Ahead(q, t)
  BY <1>1, <1>2, EnqueueContents, AheadOfEnqueue
<1>8. current_thread' = current_thread
  BY DEF ThreadAdded
<1>9. QED
  BY <1>5, <1>6, <1>7, <1>8 DEF Waits

\* A waiting thread keeps its turn on its queue.
THEOREM SchedulerInTurn == Spec => InTurn
<1>1. ASSUME SchedInv, [Next]_vars
      PROVE  [\A l \in Level, t \in ThreadSlot : OnQueue(ready_queues[l], t) => Waits(l, t)]_vars
  <2> SUFFICES ASSUME Next, NEW l \in Level, NEW t \in ThreadSlot, OnQueue(ready_queues[l], t)
               PROVE  Waits(l, t)
    BY <1>1
  <2>1. ASSUME UNCHANGED <<ready_queues, current_thread>> PROVE Waits(l, t)
    BY <2>1 DEF Waits
  <2>2. ASSUME NEW th, EntersYield(th), Yield(th) PROVE Waits(l, t)
    BY <1>1, <2>1, <2>2, DispatchInTurn DEF Yield, NoSwitch
  <2>3. ASSUME NEW priority \in Priorities, ProcessCreate(priority) PROVE Waits(l, t)
    <3>1. priority \in Int /\ next_pid \in Nat
      BY <1>1, SchedulerAssumption DEF SchedInv, TypeOK
    <3>2. ThreadAdded(next_pid, priority)
      BY <2>3 DEF ProcessCreate, NewThread, ThreadAdded
    <3>3. QED
      BY <1>1, <3>1, <3>2, AddedInTurn
  <2>4. ASSUME NEW priority \in Priorities, ProcessCreateFails(priority) PROVE Waits(l, t)
    BY <2>1, <2>4 DEF ProcessCreateFails
  <2>5. ASSUME NEW p \in ProcSlot, ThreadCreate(p) \/ ThreadCreateAndAdd(p) PROVE Waits(l, t)
    <3>1. processes[p].pid \in Nat /\ processes[p].priority \in Int
      BY <1>1 DEF SchedInv, TypeOK, Process
    <3>2. ThreadAdded(processes[p].pid, processes[p].priority)
      BY <2>5 DEF ThreadCreate, ThreadCreateAndAdd, NewThread, ThreadAdded
    <3>3. QED
      BY <1>1, <3>1, <3>2, AddedInTurn
  <2>6. CASE SchedulerYield
    BY <1>1, <2>2, <2>6, EntersYieldCases DEF SchedulerYield
  <2>7. CASE SchedulerTick
    <3>1. /\ EntersYield(Ticked(current_thread))
          /\ Yield(Ticked(current_thread)) \/ UNCHANGED <<ready_queues, current_thread>>
      BY <1>1, <2>7, EntersYieldCases DEF SchedulerTick
    <3>2. QED
      BY <2>1, <2>2, <3>1
  <2>8. CASE SysExit
    <3>1. /\ EntersYield([threads EXCEPT ![current_thread].state = ZOMBIE])
          /\ Yield([threads EXCEPT ![current_thread].state = ZOMBIE])
      BY <1>1, <2>8, EntersYieldCases DEF SysExit
    <3>2. QED
      BY <2>2, <3>1
  <2>9. QED
    BY <2>3, <2>4, <2>5, <2>6, <2>7, <2>8 DEF Next
<1>2. QED
  BY <1>1, SchedulerInvariant, PTL DEF Spec, InTurn, Waits

(***************************************************************************)
(* Whose threads they are.                                                 *)
(***************************************************************************)
ThreadsOf(th, pid) == {t \in ThreadSlot : th[t].tid # 0 /\ th[t].pid = pid}

\* Pids are spent in order, and a slot that is free has no threads: what
\* thread_create raises in it starts from 0.
PidsSpent ==
  \A p \in ProcSlot : /\ processes[p].pid < next_pid
                      /\ processes[p].pid = 0 => processes[p].thread_count = 0

\* ThreadsBelong without that every process has a thread, which follows.
Belonging ==
  /\ \A t \in ThreadSlot : Created(t) =>
       \E p \in ProcSlot : processes[p].pid = threads[t].pid /\ threads[t].pid # 0
  /\ \A p, q \in ProcSlot : processes[p].pid = processes[q].pid => p = q \/ processes[p].pid = 0
  /\ \A p \in ProcSlot : processes[p].pid # 0 =>
       /\ processes[p].thread_count > 0
       /\ processes[p].thread_count = Cardinality(ThreadsOf(threads, processes[p].pid))

BelongInv == SchedInv /\ PidsSpent /\ Belonging

LEMMA ThreadsOfFinite ==
  ASSUME NEW th, NEW pid
  PROVE  IsFiniteSet(ThreadsOf(th, pid)) /\ Cardinality(ThreadsOf(th, pid)) \in Nat
<1>1. IsFiniteSet(ThreadSlot)
  BY FS_Interval, SchedulerAssumption DEF ThreadSlot
<1>2. ThreadsOf(th, pid) \in SUBSET ThreadSlot
  BY DEF ThreadsOf
<1>3. QED
  BY <1>1, <1>2, FS_Subset, FS_CardinalityType

\* A step that neither makes threads nor processes.
LEMMA SamePidsBelong ==
  ASSUME BelongInv, SchedInv', next_pid' = next_pid,
         \A t \in ThreadSlot : threads'[t].tid = threads[t].tid /\ threads'[t].pid = threads[t].pid,
         \A p \in ProcSlot : /\ processes'[p].pid = processes[p].pid
                             /\ processes'[p].thread_count = processes[p].thread_count
  PROVE  BelongInv'
<1>1. \A pid : ThreadsOf(threads', pid) = ThreadsOf(threads, pid)
  BY DEF ThreadsOf
<1>2. PidsSpent'
  BY DEF BelongInv, PidsSpent
<1>3. Belonging'
  BY <1>1 DEF BelongInv, Belonging, Created
<1>4. QED
  BY <1>2, <1>3 DEF BelongInv

\* A thread is added to the process in slot p, which may have just been made.
LEMMA NewThreadBelongs ==
  ASSUME BelongInv, SchedInv', NEW p \in ProcSlot, NEW t \in ThreadSlot, ~ Created(t),
         NEW pid \in Nat \ {0},
         threads'[t].tid # 0, threads'[t].pid = pid,
         \A u \in ThreadSlot \ {t} : threads'[u] = threads[u],
         processes'[p].pid = pid, processes'[p].thread_count = processes[p].thread_count + 1,
         \A q \in ProcSlot \ {p} : processes'[q] = processes[q],
         \/ processes[p].pid = pid /\ next_pid' = next_pid
         \/ processes[p].pid = 0 /\ pid = next_pid /\ next_pid' = next_pid + 1
  PROVE  BelongInv'
<1>1. /\ \A q \in ProcSlot : processes[q].pid \in Nat /\ processes[q].thread_count \in Nat
      /\ next_pid \in Nat
  BY DEF BelongInv, SchedInv, TypeOK, Process
<1>2. PidsSpent'
  BY <1>1 DEF BelongInv, PidsSpent
<1>3. ASSUME NEW q \in ProcSlot \ {p}
      PROVE  /\ processes[q].pid # pid /\ processes'[q] = processes[q]
             /\ ThreadsOf(threads', processes[q].pid) = ThreadsOf(threads, processes[q].pid)
  <2>1. processes[q].pid # pid
    BY <1>1, <1>3 DEF BelongInv, PidsSpent, Belonging
  <2>2. QED
    BY <2>1 DEF ThreadsOf, Created
<1>4. /\ ThreadsOf(threads', pid) = ThreadsOf(threads, pid) \cup {t}
      /\ t \notin ThreadsOf(threads, pid)
  BY DEF ThreadsOf, Created
<1>5. Cardinality(ThreadsOf(threads, pid)) = processes[p].thread_count
  <2>1. CASE processes[p].pid = pid
    BY <2>1 DEF BelongInv, Belonging
  <2>2. CASE processes[p].pid = 0 /\ pid = next_pid
    <3>1. ThreadsOf(threads, pid) = {}
      <4>1. ASSUME NEW u \in ThreadSlot, Created(u)
            PROVE  threads[u].pid # pid
        BY <1>1, <2>2, <4>1 DEF BelongInv, PidsSpent, Belonging
      <4>2. QED
        BY <4>1 DEF ThreadsOf, Created
    <3>2. QED
      BY <2>2, <3>1, FS_EmptySet DEF BelongInv, PidsSpent
  <2>3. QED
    BY <2>1, <2>2
<1>6. Cardinality(ThreadsOf(threads', pid)) = processes'[p].thread_count
  <2> DEFINE S == ThreadsOf(threads, pid)
  <2>1. IsFiniteSet(S) /\ t \notin S
    BY <1>4, ThreadsOfFinite
  <2> HIDE DEF S
  <2>2. Cardinality(S \cup {t}) = Cardinality(S) + 1
    BY <2>1, FS_AddElement
  <2>3. QED
    BY <1>4, <1>5, <2>2 DEF S
<1>7. ASSUME NEW u \in ThreadSlot, threads'[u].tid # 0
      PROVE  \E q \in ProcSlot : processes'[q].pid = threads'[u].pid /\ threads'[u].pid # 0
  <2>1. CASE u = t
    BY <2>1
  <2>2. CASE u # t
    <3>1. PICK q \in ProcSlot : processes[q].pid = threads[u].pid /\ threads[u].pid # 0
      BY <1>7, <2>2 DEF BelongInv, Belonging, Created
    <3>2. processes'[q].pid = processes[q].pid
      BY <3>1
    <3>3. QED
      BY <2>2, <3>1, <3>2
  <2>3. QED
    BY <2>1, <2>2
<1>8. \A q, r \in ProcSlot : processes'[q].pid = processes'[r].pid => q = r \/ processes'[q].pid = 0
  BY <1>3 DEF BelongInv, Belonging
<1>9. ASSUME NEW q \in ProcSlot, processes'[q].pid # 0
      PROVE  /\ processes'[q].thread_count > 0
             /\ processes'[q].thread_count = Cardinality(ThreadsOf(threads', processes'[q].pid))
  <2>1. CASE q = p
    BY <1>1, <1>6, <2>1
  <2>2. CASE q # p
    BY <1>3, <1>9, <2>2 DEF BelongInv, Belonging
  <2>3. QED
    BY <2>1, <2>2
<1>10. Belonging'
  BY <1>7, <1>8, <1>9 DEF Belonging, Created
<1>11. QED
  BY <1>2, <1>10 DEF BelongInv

LEMMA InitBelongs == Init => BelongInv
<1> SUFFICES ASSUME Init PROVE PidsSpent /\ Belonging
  BY InitSchedInv DEF BelongInv
<1>1. PidsSpent
  BY DEF Init, PidsSpent
<1>2. Belonging
  BY DEF Init, Belonging, Created
<1>3. QED
  BY <1>1, <1>2

\* A dispatch, or the lack of one, moves no thread to another process.
LEMMA YieldKeepsPids ==
  ASSUME SchedInv, NEW th, EntersYield(th), Yield(th),
         \A t \in ThreadSlot : th[t].pid = threads[t].pid
  PROVE  \A t \in ThreadSlot : threads'[t].tid = threads[t].tid /\ threads'[t].pid = threads[t].pid
<1>1. CASE Dispatch(th)
  <2> DEFINE new == Head(ready_queues[TopLevel])
  <2>1. \A t \in ThreadSlot : threads'[t].tid = threads[t].tid
    BY <1>1, DispatchEffect
  <2>2. \A t \in ThreadSlot : th[t] \in Thread
    BY DEF EntersYield
  <2>3. \A t \in ThreadSlot : threads'[t] \in
          {[th[t] EXCEPT !.time_slice = TIME_SLICE, !.state = RUNNING],
           [th[t] EXCEPT !.state = READY], th[t]}
    BY <1>1 DEF Dispatch
  <2>4. \A t \in ThreadSlot : threads'[t].pid = th[t].pid
    BY <2>2, <2>3 DEF Thread
  <2>5. QED
    BY <2>1, <2>4
<1>2. CASE NoSwitch(th)
  BY <1>2 DEF NoSwitch, EntersYield
<1>3. QED
  BY <1>1, <1>2 DEF Yield

\* The first free slot of a process table that has one.
LEMMA FreeProcIsFree ==
  ASSUME FreeProcs # {}
  PROVE  FirstOf(FreeProcs) \in ProcSlot /\ processes[FirstOf(FreeProcs)].pid = 0
<1>1. FreeProcs \in SUBSET Nat
  BY DEF FreeProcs, ProcSlot
<1>2. QED
  BY <1>1, FirstOfMember DEF FreeProcs

LEMMA StepBelongs ==
  ASSUME BelongInv, [Next]_vars
  PROVE  BelongInv'
<1>1. SchedInv /\ SchedInv'
  BY StepSchedInv DEF BelongInv
<1>2. /\ threads \in [ThreadSlot -> Thread] /\ processes \in [ProcSlot -> Process]
      /\ next_pid \in Nat \ {0} /\ next_tid \in Nat \ {0}
      /\ current_thread \in ThreadSlot \cup {NULL}
  BY <1>1 DEF SchedInv, TypeOK
<1>3. ASSUME NEW p \in ProcSlot, NEW t, NEW pid \in Nat \ {0}, NEW priority \in Int,
             FreeThreads # {}, t = FirstOf(FreeThreads), ThreadAdded(pid, priority),
             processes'[p].pid = pid,
             processes'[p].thread_count = processes[p].thread_count + 1,
             \A q \in ProcSlot \ {p} : processes'[q] = processes[q],
             \/ processes[p].pid = pid /\ next_pid' = next_pid
             \/ processes[p].pid = 0 /\ pid = next_pid /\ next_pid' = next_pid + 1
      PROVE  BelongInv'
  <2>1. t \in ThreadSlot /\ ~ Created(t)
    BY <1>1, <1>3, NewThreadSchedInv
  <2>2. threads' = [threads EXCEPT ![t] =
           [tid |-> next_tid, pid |-> pid, state |-> READY, priority |-> priority,
            time_slice |-> TIME_SLICE]]
    BY <1>3 DEF ThreadAdded
  <2>3. /\ threads'[t].tid # 0 /\ threads'[t].pid = pid
        /\ \A u \in ThreadSlot \ {t} : threads'[u] = threads[u]
    BY <1>2, <2>1, <2>2
  <2>4. QED
    BY <1>1, <1>3, <2>1, <2>3, NewThreadBelongs
<1>4. ASSUME NEW priority \in Priorities, ProcessCreate(priority) PROVE BelongInv'
  <2> DEFINE p == FirstOf(FreeProcs)
             ps == Initialised(p, priority)
  <2>1. p \in ProcSlot /\ processes[p].pid = 0
    BY <1>4, FreeProcIsFree DEF ProcessCreate
  <2>2. priority \in Int
    BY SchedulerAssumption
  <2>3. /\ ThreadAdded(next_pid, priority) /\ FreeThreads # {}
        /\ next_pid' = next_pid + 1
        /\ processes' = [ps EXCEPT ![p].threads = FirstOf(FreeThreads), ![p].thread_count = @ + 1]
    BY <1>4 DEF ProcessCreate, NewThread, ThreadAdded
  <2> HIDE DEF p
  <2>4. /\ ps \in [ProcSlot -> Process] /\ ps[p].pid = next_pid
        /\ ps[p].thread_count = processes[p].thread_count
        /\ \A q \in ProcSlot \ {p} : ps[q] = processes[q]
    BY <1>2, <2>1, <2>2 DEF Initialised, Process, READY, ZOMBIE
  <2> HIDE DEF ps
  <2>5. /\ processes'[p].pid = next_pid
        /\ processes'[p].thread_count = processes[p].thread_count + 1
        /\ \A q \in ProcSlot \ {p} : processes'[q] = processes[q]
    BY <2>1, <2>3, <2>4 DEF Process
  <2>6. QED
    BY <1>2, <1>3, <2>1, <2>2, <2>3, <2>5
<1>5. ASSUME NEW priority \in Priorities, ProcessCreateFails(priority) PROVE BelongInv'
  <2> DEFINE p == FirstOf(FreeProcs)
             ps == Initialised(p, priority)
  <2>1. p \in ProcSlot /\ processes[p].pid = 0
    BY <1>5, FreeProcIsFree DEF ProcessCreateFails
  <2>2. priority \in Int
    BY SchedulerAssumption
  <2>3. /\ processes' = [ps EXCEPT ![p].pid = 0] /\ next_pid' = next_pid + 1
        /\ threads' = threads
    BY <1>5 DEF ProcessCreateFails
  <2> HIDE DEF p
  <2>4. /\ ps \in [ProcSlot -> Process]
        /\ ps[p].thread_count = processes[p].thread_count
        /\ \A q \in ProcSlot \ {p} : ps[q] = processes[q]
    BY <1>2, <2>1, <2>2 DEF Initialised, Process, READY, ZOMBIE
  <2> HIDE DEF ps
  <2>5. \A q \in ProcSlot : /\ processes'[q].pid = processes[q].pid
                            /\ processes'[q].thread_count = processes[q].thread_count
    BY <2>1, <2>3, <2>4 DEF Process
  <2>6. PidsSpent'
    BY <1>2, <2>3, <2>5 DEF BelongInv, PidsSpent, Process
  <2>7. \A pid : ThreadsOf(threads', pid) = ThreadsOf(threads, pid)
    BY <2>3
  <2>8. Belonging'
    BY <2>3, <2>5, <2>7 DEF BelongInv, Belonging, Created
  <2>9. QED
    BY <1>1, <2>6, <2>8 DEF BelongInv
<1>6. ASSUME NEW p \in ProcSlot, ThreadCreate(p) \/ ThreadCreateAndAdd(p) PROVE BelongInv'
  <2> DEFINE priority == processes[p].priority
             pid == processes[p].pid
  <2>1. pid \in Nat \ {0} /\ priority \in Int
    BY <1>2, <1>6 DEF ThreadCreate, ThreadCreateAndAdd, Process
  <2>2. /\ ThreadAdded(pid, priority) /\ FreeThreads # {} /\ next_pid' = next_pid
        /\ processes' = [processes EXCEPT ![p].threads = FirstOf(FreeThreads), ![p].thread_count = @ + 1]
    BY <1>6 DEF ThreadCreate, ThreadCreateAndAdd, NewThread, ThreadAdded
  <2>3. /\ processes'[p].pid = pid
        /\ processes'[p].thread_count = processes[p].thread_count + 1
        /\ \A q \in ProcSlot \ {p} : processes'[q] = processes[q]
    BY <1>2, <2>2 DEF Process
  <2> HIDE DEF pid, priority
  <2>4. processes[p].pid = pid
    BY DEF pid
  <2>5. QED
    BY <1>3, <2>1, <2>2, <2>3, <2>4
<1>7. ASSUME NEW th, EntersYield(th), Yield(th) \/ threads' = th, next_pid' = next_pid,
             \A t \in ThreadSlot : th[t].pid = threads[t].pid,
             \A p \in ProcSlot : /\ processes'[p].pid = processes[p].pid
                                 /\ processes'[p].thread_count = processes[p].thread_count
      PROVE  BelongInv'
  <2>1. \A t \in ThreadSlot : threads'[t].tid = threads[t].tid /\ threads'[t].pid = threads[t].pid
    BY <1>1, <1>7, YieldKeepsPids DEF EntersYield
  <2>2. QED
    BY <1>1, <1>7, <2>1, SamePidsBelong
<1>8. CASE SchedulerYield
  BY <1>1, <1>7, <1>8, EntersYieldCases DEF SchedulerYield
<1>9. CASE SchedulerTick
  <2> DEFINE th == Ticked(current_thread)
  <2>1. EntersYield(th) /\ (Yield(th) \/ threads' = th)
    BY <1>1, <1>9, EntersYieldCases DEF SchedulerTick
  <2>2. \A t \in ThreadSlot : th[t].pid = threads[t].pid
    BY <1>2 DEF Ticked, Thread
  <2>3. next_pid' = next_pid /\ processes' = processes
    BY <1>9 DEF SchedulerTick
  <2> HIDE DEF th
  <2>4. QED
    BY <1>7, <2>1, <2>2, <2>3
<1>10. CASE SysExit
  <2> DEFINE th == [threads EXCEPT ![current_thread].state = ZOMBIE]
  <2>1. EntersYield(th) /\ Yield(th) /\ next_pid' = next_pid
    BY <1>1, <1>10, EntersYieldCases DEF SysExit
  <2>2. \A t \in ThreadSlot : th[t].pid = threads[t].pid
    BY <1>2 DEF Thread
  <2>3. \A p \in ProcSlot : processes'[p] \in {processes[p], [processes[p] EXCEPT !.state = ZOMBIE]}
    BY <1>10 DEF SysExit
  <2>4. \A p \in ProcSlot : /\ processes'[p].pid = processes[p].pid
                            /\ processes'[p].thread_count = processes[p].thread_count
    BY <1>2, <2>3 DEF Process
  <2> HIDE DEF th
  <2>5. QED
    BY <1>7, <2>1, <2>2, <2>4
<1>11. CASE UNCHANGED vars
  <2>1. /\ next_pid' = next_pid /\ threads' = threads /\ processes' = processes
    BY <1>11 DEF vars
  <2>2. QED
    BY <1>1, <2>1, SamePidsBelong
<1>12. QED
  BY <1>4, <1>5, <1>6, <1>8, <1>9, <1>10, <1>11 DEF Next

\* Every thread belongs to exactly one live process, which counts it.
THEOREM SchedulerThreadsBelong == Spec => []ThreadsBelong
<1>1. BelongInv => ThreadsBelong
  BY DEF BelongInv, Belonging, ThreadsBelong, ThreadsOf, Created
<1>2. BelongInv /\ [Next]_vars => BelongInv'
  BY StepBelongs
<1>3. QED
  BY <1>1, <1>2, InitBelongs, PTL DEF Spec

(***************************************************************************)
(* The scheduler implements ThreadLife.                                    *)
(***************************************************************************)
LifeOf == [t \in ThreadSlot |-> IF threads[t].tid = 0 THEN "none" ELSE threads[t].state]

\* A switch after the current thread was left RUNNING, or had exited before.
LEMMA DispatchIsSwitch ==
  ASSUME SchedInv, NEW th, EntersYield(th), Dispatch(th),
         \A t \in ThreadSlot : th[t].state = threads[t].state
  PROVE  Life!Next
<1> DEFINE new == Head(ready_queues[TopLevel])
           old == current_thread
           requeue == old # NULL /\ th[old].state = RUNNING
<1>1. /\ new \in ThreadSlot /\ new # old /\ Created(new)
      /\ threads[new].state = READY
      /\ threads'[new].state = RUNNING
      /\ requeue => threads'[old].state = READY
      /\ \A t \in ThreadSlot : threads'[t].tid = threads[t].tid
      /\ \A t \in ThreadSlot : t # new /\ ~ (t = old /\ requeue) =>
           threads'[t].state = th[t].state
  BY DispatchEffect
<1> HIDE DEF new
<1>2. LifeOf[new] = "ready"
  BY <1>1 DEF LifeOf, Created, READY
<1>3. ASSUME NEW u \in ThreadSlot
      PROVE  LifeOf'[u] = IF u = new THEN "running"
                          ELSE IF LifeOf[u] = "running" THEN "ready" ELSE LifeOf[u]
  <2>1. CASE u = new
    BY <1>1, <2>1 DEF LifeOf, Created, RUNNING
  <2>2. CASE u # new /\ u = old /\ requeue
    <3>1. Created(u) /\ threads[u].state = RUNNING
      BY <2>2 DEF SchedInv, OneRunning, Created
    <3>2. QED
      BY <1>1, <2>2, <3>1 DEF LifeOf, Created, RUNNING, READY
  <2>3. CASE u # new /\ ~ (u = old /\ requeue)
    <3>1. threads'[u].state = threads[u].state
      BY <1>1, <2>3
    <3>2. ~ (Created(u) /\ threads[u].state = RUNNING)
      BY <2>3, SchedulerAssumption DEF SchedInv, OneRunning, NULL, ThreadSlot
    <3>3. QED
      BY <1>1, <2>3, <3>1, <3>2 DEF LifeOf, Created, RUNNING
  <2>4. QED
    BY <2>1, <2>2, <2>3
<1>4. LifeOf' = [u \in ThreadSlot |->
                  IF u = new THEN "running"
                  ELSE IF LifeOf[u] = "running" THEN "ready" ELSE LifeOf[u]]
  BY <1>3 DEF LifeOf
<1>5. Life!Switch(new)
  BY <1>2, <1>4 DEF Life!Switch, LifeOf
<1>6. QED
  BY <1>1, <1>5 DEF Life!Next, Life!Create, Life!Switch, Life!Exit, Life!ExitTo

\* thread_create makes one thread ready.
LEMMA ThreadAddedIsCreate ==
  ASSUME SchedInv, NEW pid \in Nat, NEW priority \in Int, ThreadAdded(pid, priority)
  PROVE  Life!Next
<1> DEFINE t == FirstOf(FreeThreads)
<1>1. t \in ThreadSlot /\ threads[t].tid = 0
  BY NewThreadSchedInv DEF Created
<1>2. threads' = [threads EXCEPT ![t] =
           [tid |-> next_tid, pid |-> pid, state |-> READY, priority |-> priority,
            time_slice |-> TIME_SLICE]]
  BY DEF ThreadAdded
<1> HIDE DEF t
<1>3. /\ threads'[t].tid # 0 /\ threads'[t].state = READY
      /\ \A u \in ThreadSlot \ {t} : threads'[u] = threads[u]
  BY <1>1, <1>2 DEF SchedInv, TypeOK
<1>4. LifeOf[t] = "none" /\ LifeOf' = [LifeOf EXCEPT ![t] = "ready"]
  BY <1>1, <1>3 DEF LifeOf, READY
<1>5. Life!Create(t)
  BY <1>4 DEF Life!Create, LifeOf
<1>6. QED
  BY <1>1, <1>5 DEF Life!Next, Life!Create, Life!Switch, Life!Exit, Life!ExitTo

\* sys_exit ends the life of the running thread, and may start another's turn.
LEMMA ExitIsExit ==
  ASSUME SchedInv, SysExit
  PROVE  Life!Next \/ LifeOf' = LifeOf
<1> DEFINE old == current_thread
           th == [threads EXCEPT ![old].state = ZOMBIE]
<1>1. EntersYield(th) /\ old \in ThreadSlot /\ Created(old)
  BY EntersYieldCases DEF SysExit, SchedInv, OneRunning, TypeOK
<1>2. /\ th[old].state = ZOMBIE /\ th[old].tid = threads[old].tid
      /\ \A t \in ThreadSlot \ {old} : th[t] = threads[t]
  BY <1>1 DEF SchedInv, TypeOK, Thread
<1>3. Dispatch(th) \/ NoSwitch(th)
  BY DEF SysExit, Yield
<1> HIDE DEF th
<1>4. CASE threads[old].state = ZOMBIE
  <2>1. \A t \in ThreadSlot : th[t].state = threads[t].state
    BY <1>2, <1>4
  <2>2. CASE Dispatch(th)
    BY <1>1, <2>1, <2>2, DispatchIsSwitch
  <2>3. CASE NoSwitch(th)
    BY <1>2, <2>1, <2>3 DEF NoSwitch, LifeOf
  <2>4. QED
    BY <1>3, <2>2, <2>3
<1>5. CASE threads[old].state = RUNNING
  <2>1. LifeOf[old] = "running"
    BY <1>1, <1>5 DEF LifeOf, Created, RUNNING
  <2>2. CASE NoSwitch(th)
    <3>1. LifeOf' = [LifeOf EXCEPT ![old] = "zombie"]
      BY <1>1, <1>2, <2>2 DEF NoSwitch, LifeOf, Created, ZOMBIE
    <3>2. Life!Exit(old)
      BY <2>1, <3>1 DEF Life!Exit, LifeOf
    <3>3. QED
      BY <1>1, <3>2 DEF Life!Next, Life!Create, Life!Switch, Life!Exit, Life!ExitTo
  <2>3. CASE Dispatch(th)
    <3> DEFINE new == Head(ready_queues[TopLevel])
    <3>1. /\ new \in ThreadSlot /\ new # old /\ Created(new)
          /\ threads[new].state = READY
          /\ threads'[new].state = RUNNING
          /\ \A t \in ThreadSlot : threads'[t].tid = threads[t].tid
          /\ \A t \in ThreadSlot : t # new /\ ~ (t = old /\ th[old].state = RUNNING) =>
               threads'[t].state = th[t].state
      BY <1>1, <2>3, DispatchEffect
    <3> HIDE DEF new
    <3>2. \A t \in ThreadSlot \ {new} : threads'[t].state = th[t].state
      BY <1>2, <3>1 DEF ZOMBIE, RUNNING
    <3>3. LifeOf[new] = "ready"
      BY <3>1 DEF LifeOf, Created, READY
    <3>4. LifeOf' = [LifeOf EXCEPT ![old] = "zombie", ![new] = "running"]
      BY <1>1, <1>2, <3>1, <3>2 DEF LifeOf, Created, ZOMBIE, RUNNING
    <3>5. Life!ExitTo(old, new)
      BY <2>1, <3>3, <3>4 DEF Life!ExitTo, LifeOf
    <3>6. QED
      BY <1>1, <3>1, <3>5 DEF Life!Next, Life!Create, Life!Switch, Life!Exit, Life!ExitTo
  <2>4. QED
    BY <1>3, <2>2, <2>3
<1>6. QED
  BY <1>1, <1>4, <1>5 DEF SchedInv, OneRunning, NULL, ThreadSlot

\* The scheduler with its queues, priorities and ticks implements ThreadLife.
THEOREM SchedulerImplementsThreadLife == Spec => RefinesThreadLife
<1>1. Init => Life!Init
  BY DEF Init, Life!Init
<1>2. SchedInv /\ [Next]_vars => Life!Next \/ LifeOf' = LifeOf
  <2> SUFFICES ASSUME SchedInv, [Next]_vars PROVE Life!Next \/ LifeOf' = LifeOf
    OBVIOUS
  <2>1. ASSUME NEW priority \in Priorities, ProcessCreate(priority) PROVE Life!Next
    <3>1. priority \in Int /\ next_pid \in Nat /\ ThreadAdded(next_pid, priority)
      BY <2>1, SchedulerAssumption DEF ProcessCreate, NewThread, ThreadAdded, SchedInv, TypeOK
    <3>2. QED
      BY <3>1, ThreadAddedIsCreate
  <2>2. ASSUME NEW p \in ProcSlot, ThreadCreate(p) \/ ThreadCreateAndAdd(p) PROVE Life!Next
    <3>1. /\ processes[p].pid \in Nat /\ processes[p].priority \in Int
          /\ ThreadAdded(processes[p].pid, processes[p].priority)
      BY <2>2 DEF ThreadCreate, ThreadCreateAndAdd, NewThread, ThreadAdded, SchedInv,
                  TypeOK, Process
    <3>2. QED
      BY <3>1, ThreadAddedIsCreate
  <2>3. ASSUME NEW priority \in Priorities, ProcessCreateFails(priority)
        PROVE  LifeOf' = LifeOf
    BY <2>3 DEF ProcessCreateFails, LifeOf
  <2>4. ASSUME NEW th, EntersYield(th), Yield(th),
               \A t \in ThreadSlot : th[t].state = threads[t].state
        PROVE  Life!Next \/ LifeOf' = LifeOf
    <3>1. CASE Dispatch(th)
      BY <2>4, <3>1, DispatchIsSwitch
    <3>2. CASE NoSwitch(th)
      BY <2>4, <3>2 DEF NoSwitch, LifeOf, EntersYield
    <3>3. QED
      BY <2>4, <3>1, <3>2 DEF Yield
  <2>5. CASE SchedulerYield
    BY <2>4, <2>5, EntersYieldCases DEF SchedulerYield
  <2>6. CASE SchedulerTick
    <3> DEFINE th == Ticked(current_thread)
    <3>1. EntersYield(th)
      BY <2>6, EntersYieldCases DEF SchedulerTick
    <3>2. \A t \in ThreadSlot : th[t].state = threads[t].state /\ th[t].tid = threads[t].tid
      BY <2>6 DEF SchedulerTick, Ticked, SchedInv, TypeOK, Thread
    <3>3. Yield(th) \/ threads' = th
      BY <2>6 DEF SchedulerTick
    <3> HIDE DEF th
    <3>4. CASE threads' = th
      BY <3>2, <3>4 DEF LifeOf
    <3>5. QED
      BY <2>4, <3>1, <3>2, <3>3, <3>4
  <2>7. CASE SysExit
    BY <2>7, ExitIsExit
  <2>8. CASE UNCHANGED vars
    BY <2>8 DEF vars, LifeOf
  <2>9. QED
    BY <2>1, <2>2, <2>3, <2>5, <2>6, <2>7, <2>8 DEF Next
<1>3. SchedInv /\ [Next]_vars =>
        [Life!Next]_([t \in ThreadSlot |->
                        IF threads[t].tid = 0 THEN "none" ELSE threads[t].state])
  BY <1>2 DEF LifeOf
<1>4. QED
  BY <1>1, <1>3, SchedulerInvariant, PTL DEF Spec, RefinesThreadLife, Life!Spec

-----------------------------------------------------------------------------
(***************************************************************************)
(* The clock.                                                              *)
(***************************************************************************)

\* The days from the first of January of the year 1 to that of a later one.
DaysTo(year) ==
  365 * year + ((year - 1) \div 4) - ((year - 1) \div 100) + ((year - 1) \div 400)

\* A quotient grows by one where the divisor divides, and stays everywhere else.
LEMMA QuotientSteps ==
  ASSUME NEW y \in Nat
  PROVE  /\ y \div 4 = IF y % 4 = 0 THEN (y - 1) \div 4 + 1 ELSE (y - 1) \div 4
         /\ y \div 100 = IF y % 100 = 0 THEN (y - 1) \div 100 + 1 ELSE (y - 1) \div 100
         /\ y \div 400 = IF y % 400 = 0 THEN (y - 1) \div 400 + 1 ELSE (y - 1) \div 400
         /\ (y % 400 = 0 => y % 100 = 0) /\ (y % 100 = 0 => y % 4 = 0)
  OBVIOUS

\* A year is as long as unix_to_datetime makes it.
LEMMA YearAfterYear ==
  ASSUME NEW y \in Nat
  PROVE  /\ DaysTo(y) \in Int /\ DaysInYear(y) \in {365, 366}
         /\ DaysTo(y + 1) = DaysTo(y) + DaysInYear(y)
<1>1. (y + 1) - 1 = y
  OBVIOUS
<1>2. DaysTo(y + 1) = 365 * (y + 1) + (y \div 4) - (y \div 100) + (y \div 400)
  BY <1>1 DEF DaysTo
<1>3. QED
  BY <1>2, QuotientSteps DEF DaysTo, DaysInYear, Leap

\* Later years begin later.
LEMMA YearsGrow ==
  ASSUME NEW y \in Nat, NEW z \in Nat, z > y
  PROVE  DaysTo(z) >= DaysTo(y + 1)
<1> DEFINE S == {k \in Nat : k > y /\ ~ DaysTo(k) >= DaysTo(y + 1)}
<1>1. SUFFICES ASSUME S # {} PROVE FALSE
  OBVIOUS
<1>2. PICK k \in S : \A j \in S : k <= j
  BY <1>1, LeastNat
<1>3. DaysTo(y + 1) \in Int
  BY YearAfterYear
<1>4. k # y + 1
  BY <1>2, <1>3
<1>5. k - 1 \in Nat /\ k - 1 > y /\ k - 1 \notin S
  BY <1>2, <1>4
<1>6. DaysTo(k - 1) >= DaysTo(y + 1)
  BY <1>5
<1>7. DaysTo(k - 1) \in Int /\ DaysTo((k - 1) + 1) >= DaysTo(k - 1) /\ DaysTo((k - 1) + 1) \in Int
  BY <1>5, YearAfterYear
<1>8. (k - 1) + 1 = k
  BY <1>2
<1>9. DaysTo(k) >= DaysTo(y + 1)
  BY <1>3, <1>6, <1>7, <1>8
<1>10. QED
  BY <1>2, <1>9

\* A day lies in one year only.
LEMMA OneYear ==
  ASSUME NEW y \in Nat, NEW z \in Nat, NEW n \in Int,
         DaysTo(y) <= n, n < DaysTo(y + 1), DaysTo(z) <= n, n < DaysTo(z + 1)
  PROVE  y = z
<1>1. /\ DaysTo(y) \in Int /\ DaysTo(z) \in Int /\ DaysTo(y + 1) \in Int /\ DaysTo(z + 1) \in Int
  BY YearAfterYear
<1>2. ~ z > y
  BY <1>1, YearsGrow
<1>3. ~ y > z
  BY <1>1, YearsGrow
<1>4. QED
  BY <1>2, <1>3

\* And in one it lies.
LEMMA SomeYear ==
  ASSUME NEW y \in Nat, NEW n \in Int, DaysTo(y) <= n
  PROVE  \E z \in Nat : z >= y /\ DaysTo(z) <= n /\ n < DaysTo(z + 1)
<1> DEFINE S == {k \in Nat : k >= y /\ n < DaysTo(k + 1)}
<1>1. DaysTo(y) \in Int /\ DaysTo(y) >= -1
  BY DEF DaysTo
<1>2. n + 1 \in Nat /\ n + 1 + y \in Nat /\ n + 1 + y >= y
  BY <1>1
<1>3. DaysTo((n + 1 + y) + 1) > n
  BY <1>2 DEF DaysTo
<1>4. S # {}
  BY <1>2, <1>3
<1>5. PICK z \in S : \A j \in S : z <= j
  BY <1>4, LeastNat
<1>6. CASE z = y
  BY <1>5, <1>6
<1>7. CASE z # y
  <2>1. z - 1 \in Nat /\ z - 1 >= y /\ z - 1 \notin S /\ (z - 1) + 1 = z
    BY <1>5, <1>7
  <2>2. ~ n < DaysTo(z)
    BY <2>1
  <2>3. DaysTo(z) \in Int
    BY <1>5, YearAfterYear
  <2>4. QED
    BY <1>5, <2>2, <2>3
<1>8. QED
  BY <1>6, <1>7

\* A look at the loop over the years from a year and a number of days: it ends.
EndsIn(s, y) ==
  y >= s.year /\ DaysTo(y) <= s.days + DaysTo(s.year) /\ s.days + DaysTo(s.year) < DaysTo(y + 1)

YearEnd ==
  [s \in Years |->
     IF s.days < DaysInYear(s.year) THEN s
     ELSE LET y == CHOOSE y \in Nat : EndsIn(s, y)
          IN  [year |-> y, days |-> (s.days + DaysTo(s.year)) - DaysTo(y)]]

YearAfter(s) == [year |-> s.year + 1, days |-> s.days - DaysInYear(s.year)]

\* There is one place to end.
LEMMA YearEndOf ==
  ASSUME NEW s \in Years, ~ s.days < DaysInYear(s.year), NEW y \in Nat, EndsIn(s, y)
  PROVE  YearEnd[s] = [year |-> y, days |-> (s.days + DaysTo(s.year)) - DaysTo(y)]
<1>1. s.year \in Nat /\ s.days \in Int /\ DaysTo(s.year) \in Int
  BY YearAfterYear DEF Years
<1>2. s.days + DaysTo(s.year) \in Int
  BY <1>1
<1>3. \A z \in Nat : EndsIn(s, z) => z = y
  BY <1>2, OneYear DEF EndsIn
<1>4. (CHOOSE z \in Nat : EndsIn(s, z)) = y
  BY <1>3, Zenon
<1>5. QED
  BY <1>4 DEF YearEnd

\* What the loop ends with does not change when its body is done once.
LEMMA YearEndSteps ==
  ASSUME NEW s \in Years
  PROVE  YearEnd[s] = IF s.days < DaysInYear(s.year) THEN s ELSE YearEnd[YearAfter(s)]
<1>1. s.year \in Nat /\ s.days \in Int /\ DaysTo(s.year) \in Int /\ DaysInYear(s.year) \in {365, 366}
      /\ DaysTo(s.year + 1) = DaysTo(s.year) + DaysInYear(s.year)
  BY YearAfterYear DEF Years
<1>2. CASE s.days < DaysInYear(s.year)
  BY <1>2 DEF YearEnd
<1>3. CASE ~ s.days < DaysInYear(s.year)
  <2> DEFINE t == YearAfter(s)
  <2>1. t \in Years /\ t.year = s.year + 1 /\ t.days = s.days - DaysInYear(s.year)
    BY <1>1, <1>3 DEF YearAfter, Years
  <2>2. t.days + DaysTo(t.year) = s.days + DaysTo(s.year)
    BY <1>1, <2>1
  <2>3. DaysTo(t.year) <= t.days + DaysTo(t.year) /\ t.year \in Nat /\ t.days + DaysTo(t.year) \in Int
    BY <1>1, <1>3, <2>1
  <2>4. PICK y \in Nat : y >= t.year /\ DaysTo(y) <= t.days + DaysTo(t.year)
                          /\ t.days + DaysTo(t.year) < DaysTo(y + 1)
    BY <2>3, SomeYear
  <2>5. EndsIn(t, y) /\ EndsIn(s, y)
    BY <1>1, <2>1, <2>2, <2>4 DEF EndsIn
  <2>6. YearEnd[s] = [year |-> y, days |-> (s.days + DaysTo(s.year)) - DaysTo(y)]
    BY <1>3, <2>5, YearEndOf
  <2>7. ASSUME t.days < DaysInYear(t.year) PROVE YearEnd[t] = YearEnd[s]
    <3>1. DaysTo(t.year + 1) = DaysTo(t.year) + DaysInYear(t.year) /\ DaysTo(t.year) \in Int
            /\ DaysInYear(t.year) \in {365, 366}
      BY <2>3, YearAfterYear
    <3>2. t.days + DaysTo(t.year) < DaysTo(t.year + 1)
      BY <2>1, <1>1, <2>7, <3>1
    <3>3. y = t.year
      BY <2>3, <2>4, <3>2, OneYear
    <3>4. YearEnd[t] = t
      BY <2>1, <2>7 DEF YearEnd
    <3>5. (s.days + DaysTo(s.year)) - DaysTo(y) = t.days
      BY <1>1, <2>1, <2>2, <3>1, <3>3
    <3>6. t = [year |-> s.year + 1, days |-> s.days - DaysInYear(s.year)]
      BY DEF YearAfter
    <3>7. QED
      BY <2>1, <2>6, <3>3, <3>4, <3>5, <3>6
  <2>8. ASSUME ~ t.days < DaysInYear(t.year) PROVE YearEnd[t] = YearEnd[s]
    <3>1. YearEnd[t] = [year |-> y, days |-> (t.days + DaysTo(t.year)) - DaysTo(y)]
      <4> HIDE DEF t
      <4>1. QED
        BY <2>1, <2>5, <2>8, YearEndOf
    <3>2. (t.days + DaysTo(t.year)) - DaysTo(y) = (s.days + DaysTo(s.year)) - DaysTo(y)
      BY <2>2, Zenon
    <3>3. QED
      BY <2>6, <3>1, <3>2, Zenon
  <2>9. QED
    BY <1>3, <2>7, <2>8
<1>4. QED
  BY <1>2, <1>3

\* The loop over the years does what its body does once, then as from there.
LEMMA YearLoopSteps ==
  ASSUME NEW s \in Years
  PROVE  YearLoop[s] = IF s.days < DaysInYear(s.year) THEN s ELSE YearLoop[YearAfter(s)]
<1> DEFINE Body(f, r) == IF r.days < DaysInYear(r.year) THEN r ELSE f[YearAfter(r)]
           Loops(f) == f = [r \in Years |-> Body(f, r)]
<1>1. \A r \in Years : YearEnd[r] = Body(YearEnd, r)
  BY YearEndSteps
<1>2. YearEnd = [r \in Years |-> YearEnd[r]]
  BY DEF YearEnd
<1>3. Loops(YearEnd)
  BY <1>1, <1>2
<1>4. YearLoop = CHOOSE f : Loops(f)
  BY DEF YearLoop, YearAfter
<1> HIDE DEF Loops
<1>5. Loops(YearLoop)
  BY <1>3, <1>4, Zenon
<1>6. QED
  BY <1>5 DEF Loops

\* Where the loop over the years ends: in the year the day lies in.
YearFound(s) ==
  LET y == YearLoop[s]
  IN  /\ y \in Years /\ y.days >= 0 /\ y.days < DaysInYear(y.year) /\ y.year >= s.year
      /\ DaysTo(y.year) + y.days = DaysTo(s.year) + s.days

LEMMA YearLoopEnds ==
  ASSUME NEW s \in Years, s.days >= 0
  PROVE  YearFound(s)
<1> DEFINE S == {k \in Nat : \E r \in Years : r.days = k /\ ~ YearFound(r)}
<1>1. SUFFICES ASSUME S # {} PROVE FALSE
  BY DEF Years
<1>2. PICK k \in S : \A j \in S : k <= j
  BY <1>1, LeastNat
<1>3. PICK r \in Years : r.days = k /\ ~ YearFound(r)
  BY <1>2
<1>4. r.year \in Nat /\ k \in Nat /\ DaysInYear(r.year) \in {365, 366} /\ DaysTo(r.year) \in Int
        /\ DaysTo(r.year + 1) = DaysTo(r.year) + DaysInYear(r.year)
  BY <1>2, <1>3, YearAfterYear DEF Years
<1>5. CASE k < DaysInYear(r.year)
  <2>1. YearLoop[r] = r
    BY <1>3, <1>5, YearLoopSteps
  <2>2. QED
    BY <1>3, <1>4, <1>5, <2>1 DEF YearFound
<1>6. CASE ~ k < DaysInYear(r.year)
  <2> DEFINE t == YearAfter(r)
  <2>1. t \in Years /\ t.year = r.year + 1 /\ t.days = k - DaysInYear(r.year)
    BY <1>3, <1>4, <1>6 DEF YearAfter, Years
  <2>2. t.days \in Nat /\ t.days < k
    BY <1>4, <1>6, <2>1
  <2>3. YearFound(t)
    BY <1>2, <1>4, <2>1, <2>2
  <2>4. YearLoop[r] = YearLoop[t]
    BY <1>3, <1>6, YearLoopSteps
  <2>5. DaysTo(t.year) + t.days = DaysTo(r.year) + r.days
    BY <1>3, <1>4, <2>1
  <2>6. QED
    BY <1>3, <1>4, <2>1, <2>3, <2>4, <2>5 DEF YearFound, Years
<1>7. QED
  BY <1>5, <1>6

\* The days of a year before each month.
Before(year) ==
  LET leap == IF Leap(year) THEN 1 ELSE 0
  IN  <<0, 31, 59 + leap, 90 + leap, 120 + leap, 151 + leap, 181 + leap, 212 + leap,
        243 + leap, 273 + leap, 304 + leap, 334 + leap, 365 + leap>>

Follows(y, m) ==
  /\ Before(y)[m] \in 0 .. 335 /\ DaysInMonth(y)[m] \in 28 .. 31
  /\ Before(y)[m + 1] = Before(y)[m] + DaysInMonth(y)[m]

\* A month begins when the one before it is over.
LEMMA MonthAfterMonth ==
  ASSUME NEW y \in Nat, NEW m \in 1 .. 12
  PROVE  Follows(y, m)
  BY DEF Follows, Before, DaysInMonth

\* The twelve months make a year.
LEMMA YearOfMonths ==
  ASSUME NEW y \in Nat
  PROVE  Before(y)[1] = 0 /\ Before(y)[13] = DaysInYear(y)
  BY DEF Before, DaysInYear

\* What the loop over the months has left in each.
LEMMA DaysLeftIs ==
  ASSUME NEW y, y.days \in Int, y.year \in Nat, NEW m \in 1 .. 12
  PROVE  DaysLeft(y)[m] = y.days - Before(y.year)[m]
<1> DEFINE Body(f, k) == IF k = 1 THEN y.days ELSE f[k - 1] - DaysInMonth(y.year)[k - 1]
           Left(f) == f = [k \in 1 .. 12 |-> Body(f, k)]
           G == [k \in 1 .. 12 |-> y.days - Before(y.year)[k]]
<1>0. y.year \in Nat
  OBVIOUS
<1>1. ASSUME NEW k \in 1 .. 12 PROVE G[k] = Body(G, k)
  <2>1. CASE k = 1
    BY <2>1, YearOfMonths
  <2>2. CASE k # 1
    <3>1. PICK j \in 1 .. 12 : k = j + 1 /\ k - 1 = j
      BY <2>2
    <3>2. Follows(y.year, j)
      BY <1>0, MonthAfterMonth, Zenon
    <3>3. G[k] = y.days - Before(y.year)[k] /\ G[j] = y.days - Before(y.year)[j]
      OBVIOUS
    <3>4. G[k] = G[j] - DaysInMonth(y.year)[j]
      <4> HIDE DEF G
      <4> DEFINE d == DaysInMonth(y.year)[j]
                 b == Before(y.year)[j]
                 c == Before(y.year)[k]
      <4>1. b \in Int /\ d \in Int /\ c = b + d
        BY <3>1, <3>2 DEF Follows
      <4> HIDE DEF b, c, d
      <4>2. G[k] = y.days - c /\ G[j] = y.days - b
        BY <3>3 DEF b, c
      <4>3. G[k] = G[j] - d
        BY <4>1, <4>2
      <4>4. QED
        BY <4>3 DEF d
    <3>5. QED
      BY <2>2, <3>1, <3>4
  <2>3. QED
    BY <2>1, <2>2
<1>2. Left(G)
  BY <1>1
<1>3. DaysLeft(y) = CHOOSE f : Left(f)
  BY DEF DaysLeft
<1> HIDE DEF Left
<1>4. Left(DaysLeft(y))
  BY <1>2, <1>3, Zenon
<1>5. \A k \in 1 .. 12 : DaysLeft(y)[k] = Body(DaysLeft(y), k)
  BY <1>4 DEF Left
<1> DEFINE S == {k \in Nat : k \in 1 .. 12 /\ DaysLeft(y)[k] # G[k]}
<1>6. SUFFICES ASSUME S # {} PROVE FALSE
  OBVIOUS
<1>7. PICK k \in S : \A j \in S : k <= j
  BY <1>6, LeastNat
<1>8. CASE k = 1
  BY <1>1, <1>5, <1>7, <1>8
<1>9. CASE k # 1
  <2>1. k - 1 \in 1 .. 12 /\ DaysLeft(y)[k - 1] = G[k - 1]
    BY <1>7, <1>9
  <2>2. DaysLeft(y)[k] = G[k]
    BY <1>1, <1>5, <1>7, <1>9, <2>1
  <2>3. QED
    BY <1>7, <2>2
<1>10. QED
  BY <1>8, <1>9

\* Where the loop over the months ends: in the month the day lies in.
LEMMA MonthLoopEnds ==
  ASSUME NEW y \in Years, y.days >= 0, y.days < DaysInYear(y.year)
  PROVE  /\ MonthLoop(y) \in 1 .. 12
         /\ DaysLeft(y)[MonthLoop(y)] = y.days - Before(y.year)[MonthLoop(y)]
         /\ 0 <= y.days - Before(y.year)[MonthLoop(y)]
         /\ y.days - Before(y.year)[MonthLoop(y)] < DaysInMonth(y.year)[MonthLoop(y)]
<1> DEFINE Ends(m) == ~ Filled(y, m) /\ \A k \in 1 .. m - 1 : Filled(y, k)
           S == {m \in Nat : m \in 1 .. 12 /\ ~ Filled(y, m)}
<1>0. y.year \in Nat /\ y.days \in Int
  BY DEF Years
<1>1. \A m \in 1 .. 12 : /\ Before(y.year)[m] \in Int /\ DaysInMonth(y.year)[m] \in Int
                         /\ DaysLeft(y)[m] = y.days - Before(y.year)[m]
                         /\ Before(y.year)[m + 1] = Before(y.year)[m] + DaysInMonth(y.year)[m]
  <2>1. TAKE m \in 1 .. 12
  <2>2. Follows(y.year, m)
    BY <1>0, MonthAfterMonth, Zenon
  <2>3. DaysLeft(y)[m] = y.days - Before(y.year)[m]
    BY <1>0, DaysLeftIs, Zenon
  <2>4. QED
    BY <2>2, <2>3 DEF Follows
<1>2. \A m \in 1 .. 12 : Filled(y, m) <=> y.days >= Before(y.year)[m + 1]
  <2>1. TAKE m \in 1 .. 12
  <2>2. QED
    BY <1>0, <1>1 DEF Filled
<1>3. 12 \in S
  <2>1. 12 \in 1 .. 12 /\ 12 + 1 = 13 /\ ~ y.days >= DaysInYear(y.year)
    BY <1>0, YearAfterYear
  <2>2. Before(y.year)[12 + 1] = DaysInYear(y.year)
    BY <1>0, <2>1, YearOfMonths
  <2>3. ~ Filled(y, 12)
    BY <1>2, <2>1, <2>2
  <2>4. QED
    BY <2>1, <2>3
<1>4. PICK m \in S : \A j \in S : m <= j
  BY <1>3, LeastNat
<1>5. m \in 1 .. 12 /\ Ends(m)
  BY <1>4
<1> DEFINE month == MonthLoop(y)
<1> HIDE DEF S
<1>6. month \in 1 .. 12 /\ Ends(month)
  BY <1>5, Zenon DEF MonthLoop
<1> HIDE DEF month
<1>7. CASE month = 1
  <2>1. Before(y.year)[month] = 0
    BY <1>0, <1>7, YearOfMonths
  <2>2. QED
    BY <1>0, <1>1, <1>6, <2>1 DEF Filled, month
<1>8. CASE month # 1
  <2>1. month - 1 \in 1 .. 12 /\ month - 1 \in 1 .. month - 1 /\ (month - 1) + 1 = month
    BY <1>6, <1>8
  <2>2. y.days >= Before(y.year)[month]
    BY <1>2, <1>6, <2>1
  <2>3. QED
    BY <1>0, <1>1, <1>6, <2>2 DEF Filled, month
<1>9. QED
  BY <1>7, <1>8

\* The dates of the calendar, and the days from the first of January of the year 1.
IsDate(d) ==
  /\ d \in [year : Nat, month : 1 .. 12, day : Nat]
  /\ 1 <= d.day /\ d.day <= DaysInMonth(d.year)[d.month]

DayNumber(d) == (DaysTo(d.year) + Before(d.year)[d.month]) + (d.day - 1)

\* Later months begin later.
LEMMA MonthsGrow ==
  ASSUME NEW y \in Nat, NEW m \in 1 .. 12, NEW k \in 1 .. 13, m < k
  PROVE  Before(y)[m + 1] <= Before(y)[k]
<1>1. CASE ~ Leap(y)
  BY <1>1 DEF Before
<1>2. CASE Leap(y)
  BY <1>2 DEF Before
<1>3. QED
  BY <1>1, <1>2

\* The months of the code are as long as those of the calendar.
LEMMA LengthOfMonth ==
  ASSUME NEW y \in Nat, NEW m \in 1 .. 12
  PROVE  DaysInMonth(y)[m] = LengthOf(m, y)
<1>1. y % 400 = 0 => y % 100 = 0
  BY QuotientSteps
<1>2. Leap(y) <=> y % 400 = 0 \/ (y % 4 = 0 /\ y % 100 # 0)
  BY <1>1, QuotientSteps DEF Leap
<1>3. QED
  BY <1>2 DEF DaysInMonth, LengthOf, Thirty

\* A date lies in its year.
LEMMA DateInYear ==
  ASSUME NEW d, IsDate(d)
  PROVE  /\ d.year \in Nat /\ d.month \in 1 .. 12 /\ d.day \in Nat
         /\ DayNumber(d) \in Int /\ DaysTo(d.year) \in Int
         /\ DaysTo(d.year) <= DayNumber(d) /\ DayNumber(d) < DaysTo(d.year + 1)
<1> DEFINE b == Before(d.year)[d.month]
           l == DaysInMonth(d.year)[d.month]
           e == Before(d.year)[d.month + 1]
           y == DaysInYear(d.year)
<1>1. d.year \in Nat /\ d.month \in 1 .. 12 /\ d.day \in Nat /\ 1 <= d.day /\ d.day <= l
  BY DEF IsDate
<1>2. Follows(d.year, d.month)
  BY <1>1, MonthAfterMonth, Zenon
<1>3. b \in 0 .. 335 /\ l \in 28 .. 31 /\ e = b + l
  BY <1>2, Zenon DEF Follows
<1>4. Before(d.year)[13] = y
  BY <1>1, YearOfMonths
<1>5. d.month + 1 = 13 \/ (d.month + 1 \in 1 .. 12 /\ d.month < 13)
  BY <1>1
<1>6. e <= y
  BY <1>1, <1>3, <1>4, MonthsGrow
<1>7. DaysTo(d.year) \in Int /\ y \in {365, 366} /\ DaysTo(d.year + 1) = DaysTo(d.year) + y
  BY <1>1, YearAfterYear
<1>8. DayNumber(d) = (DaysTo(d.year) + b) + (d.day - 1)
  BY DEF DayNumber
<1> HIDE DEF b, e, l, y
<1>9. QED
  BY <1>1, <1>3, <1>6, <1>7, <1>8

\* No two dates are the same day.
LEMMA OneDate ==
  ASSUME NEW d, IsDate(d), NEW e, IsDate(e), DayNumber(d) = DayNumber(e)
  PROVE  d = e
<1> DEFINE y == d.year
<1>1. /\ d.year \in Nat /\ d.month \in 1 .. 12 /\ d.day \in Nat /\ DayNumber(d) \in Int
      /\ DaysTo(d.year) \in Int
      /\ DaysTo(d.year) <= DayNumber(d) /\ DayNumber(d) < DaysTo(d.year + 1)
  BY DateInYear
<1>2. /\ e.year \in Nat /\ e.month \in 1 .. 12 /\ e.day \in Nat
      /\ DaysTo(e.year) <= DayNumber(e) /\ DayNumber(e) < DaysTo(e.year + 1)
  BY DateInYear
<1>3. e.year = y
  BY <1>1, <1>2, OneYear
<1>4. Follows(y, d.month) /\ Follows(y, e.month)
  BY <1>1, <1>2, MonthAfterMonth, Zenon
<1>5. /\ Before(y)[d.month] \in Int /\ Before(y)[e.month] \in Int
      /\ d.day <= DaysInMonth(y)[d.month] /\ e.day <= DaysInMonth(y)[e.month]
      /\ DaysInMonth(y)[d.month] \in Int /\ DaysInMonth(y)[e.month] \in Int
      /\ Before(y)[d.month + 1] = Before(y)[d.month] + DaysInMonth(y)[d.month]
      /\ Before(y)[e.month + 1] = Before(y)[e.month] + DaysInMonth(y)[e.month]
      /\ d.day >= 1 /\ e.day >= 1
  BY <1>3, <1>4 DEF Follows, IsDate
<1>6. Before(y)[d.month] + (d.day - 1) = Before(y)[e.month] + (e.day - 1)
  BY <1>1, <1>2, <1>3, <1>5 DEF DayNumber
<1>7. ~ d.month < e.month
  <2>1. SUFFICES ASSUME d.month < e.month PROVE FALSE
    OBVIOUS
  <2>2. Before(y)[d.month + 1] <= Before(y)[e.month]
    BY <1>1, <1>2, <2>1, MonthsGrow
  <2>3. QED
    BY <1>1, <1>2, <1>5, <1>6, <2>2
<1>8. ~ e.month < d.month
  <2>1. SUFFICES ASSUME e.month < d.month PROVE FALSE
    OBVIOUS
  <2>2. Before(y)[e.month + 1] <= Before(y)[d.month]
    BY <1>1, <1>2, <2>1, MonthsGrow
  <2>3. QED
    BY <1>1, <1>2, <1>5, <1>6, <2>2
<1>9. d.month = e.month
  BY <1>1, <1>2, <1>7, <1>8
<1>10. d.day = e.day
  BY <1>1, <1>2, <1>5, <1>6, <1>9
<1>11. QED
  BY <1>3, <1>9, <1>10 DEF IsDate

\* The calendar's next date is the next day.
LEMMA NextDateIs ==
  ASSUME NEW d, IsDate(d)
  PROVE  IsDate(NextDate(d)) /\ DayNumber(NextDate(d)) = DayNumber(d) + 1
<1> DEFINE b == Before(d.year)[d.month]
           l == DaysInMonth(d.year)[d.month]
           e == Before(d.year)[d.month + 1]
<1>1. d.year \in Nat /\ d.month \in 1 .. 12 /\ d.day \in Nat /\ 1 <= d.day /\ d.day <= l
      /\ d = [year |-> d.year, month |-> d.month, day |-> d.day]
  BY DEF IsDate
<1>2. Follows(d.year, d.month)
  BY <1>1, MonthAfterMonth, Zenon
<1>3. b \in 0 .. 335 /\ l \in 28 .. 31 /\ e = b + l
  BY <1>2, Zenon DEF Follows
<1>4. l = LengthOf(d.month, d.year)
  BY <1>1, LengthOfMonth
<1>5. DaysTo(d.year) \in Int /\ DaysInYear(d.year) \in {365, 366}
        /\ DaysTo(d.year + 1) = DaysTo(d.year) + DaysInYear(d.year)
  BY <1>1, YearAfterYear
<1>6. CASE d.day < l
  <2> DEFINE n == [year |-> d.year, month |-> d.month, day |-> d.day + 1]
  <2>1. NextDate(d) = n
    BY <1>1, <1>4, <1>6 DEF NextDate
  <2>2. IsDate(n)
    BY <1>1, <1>3, <1>6 DEF IsDate
  <2>3. DayNumber(n) = DayNumber(d) + 1
    <3>1. DayNumber(n) = (DaysTo(d.year) + b) + ((d.day + 1) - 1)
      BY DEF DayNumber
    <3>2. DayNumber(d) = (DaysTo(d.year) + b) + (d.day - 1)
      BY DEF DayNumber
    <3> HIDE DEF b, n
    <3>3. QED
      BY <1>1, <1>3, <1>5, <3>1, <3>2
  <2>4. QED
    BY <2>1, <2>2, <2>3
<1>7. CASE d.day = l /\ d.month < 12
  <2> DEFINE n == [year |-> d.year, month |-> d.month + 1, day |-> 1]
  <2>1. NextDate(d) = n
    <3>1. ~ d.day < LengthOf(d.month, d.year) /\ d.month < 12
      BY <1>1, <1>3, <1>4, <1>7
    <3>2. NextDate(d) = [d EXCEPT !.day = 1, !.month = @ + 1]
      BY <3>1, Zenon DEF NextDate
    <3>3. d \in [year : Nat, month : 1 .. 12, day : Nat]
      BY DEF IsDate
    <3>4. QED
      BY <3>2, <3>3
  <2>2. IsDate(n)
    <3>1. d.month + 1 \in 1 .. 12
      BY <1>1, <1>7
    <3>2. Follows(d.year, d.month + 1)
      BY <1>1, <3>1, MonthAfterMonth, Zenon
    <3>3. QED
      BY <1>1, <3>1, <3>2 DEF IsDate, Follows
  <2>3. DayNumber(n) = DayNumber(d) + 1
    <3>1. DayNumber(n) = (DaysTo(d.year) + e) + (1 - 1)
      BY DEF DayNumber
    <3>2. DayNumber(d) = (DaysTo(d.year) + b) + (d.day - 1)
      BY DEF DayNumber
    <3> HIDE DEF b, e, n
    <3>3. QED
      BY <1>1, <1>3, <1>5, <1>7, <3>1, <3>2
  <2>4. QED
    BY <2>1, <2>2, <2>3
<1>8. CASE d.day = l /\ d.month = 12
  <2> DEFINE n == [year |-> d.year + 1, month |-> 1, day |-> 1]
  <2>1. NextDate(d) = n
    <3>1. ~ d.day < LengthOf(d.month, d.year) /\ ~ d.month < 12
      BY <1>1, <1>3, <1>4, <1>8
    <3>2. NextDate(d) = [d EXCEPT !.day = 1, !.month = 1, !.year = @ + 1]
      BY <3>1, Zenon DEF NextDate
    <3>3. d \in [year : Nat, month : 1 .. 12, day : Nat]
      BY DEF IsDate
    <3>4. QED
      BY <3>2, <3>3
  <2>2. IsDate(n)
    <3>1. 1 \in 1 .. 12 /\ d.year + 1 \in Nat
      BY <1>1
    <3>2. Follows(d.year + 1, 1)
      BY <3>1, MonthAfterMonth, Zenon
    <3>3. QED
      BY <3>1, <3>2 DEF IsDate, Follows
  <2>3. DayNumber(n) = DayNumber(d) + 1
    <3>1. Before(d.year + 1)[1] = 0 /\ e = DaysInYear(d.year)
      BY <1>1, <1>8, YearOfMonths
    <3>2. DayNumber(n) = (DaysTo(d.year + 1) + 0) + (1 - 1)
      BY <3>1 DEF DayNumber
    <3>3. DayNumber(d) = (DaysTo(d.year) + b) + (d.day - 1)
      BY DEF DayNumber
    <3> HIDE DEF b, e, n
    <3>4. QED
      BY <1>1, <1>3, <1>5, <1>8, <3>1, <3>2, <3>3
  <2>4. QED
    BY <2>1, <2>2, <2>3
<1>9. QED
  BY <1>1, <1>3, <1>6, <1>7, <1>8

\* Division as in C is that of the calendar where nothing is negative.
LEMMA QuotNat ==
  ASSUME NEW a \in Nat, NEW b
  PROVE  Quot(a, b) = a \div b
  BY DEF Quot

\* And so is the remainder, by the divisors the clock uses.
LEMMA RemNat ==
  ASSUME NEW a \in Nat
  PROVE  Rem(a, 7) = a % 7 /\ Rem(a, 60) = a % 60 /\ Rem(a, Day) = a % Day
  BY QuotNat DEF Rem, Day

\* get_day_of_week is right for every date: day 0 of the week is a Sunday, as the first of
\* January of the year 1 was a Monday.
LEMMA WeekdayIs ==
  ASSUME NEW d, IsDate(Date(d)), d.year >= 1
  PROVE  DayOfWeek(d) = DayNumber(Date(d)) % 7
<1> DEFINE year == d.year
           month == d.month
           b == Before(year)[month]
           m == IF month < 3 THEN month + 12 ELSE month
           y == IF month < 3 THEN year - 1 ELSE year
           q == (13 * (m + 1)) \div 5
           z == d.day + q + y + (y \div 4) - (y \div 100) + (y \div 400)
           n == DayNumber(Date(d))
<1>1. year \in Nat /\ month \in 1 .. 12 /\ d.day \in Nat /\ d.day >= 1 /\ n \in Int
  BY DateInYear DEF IsDate, Date
<1>2. n = (DaysTo(year) + b) + (d.day - 1)
  BY DEF DayNumber, Date
<1>3. m \in Nat /\ 13 * (m + 1) \in Nat /\ y \in Nat /\ q \in Nat /\ z \in Nat
  BY <1>1
<1>4. /\ Quot(13 * (m + 1), 5) = q
      /\ Quot(y, 4) = y \div 4 /\ Quot(y, 100) = y \div 100 /\ Quot(y, 400) = y \div 400
  BY <1>3, QuotNat
<1>5. DayOfWeek(d) = Rem(Rem(z, 7) + 6, 7)
  <2>1. DayOfWeek(d)
          = Rem(Rem(d.day + Quot(13 * (m + 1), 5) + y + Quot(y, 4) - Quot(y, 100) + Quot(y, 400), 7) + 6, 7)
    BY Zenon DEF DayOfWeek
  <2> HIDE DEF y, q, m
  <2>2. QED
    BY <1>4, <2>1
<1>6. DayOfWeek(d) = ((z % 7) + 6) % 7
  BY <1>3, <1>5, RemNat
<1>7. (n - z - 6) % 7 = 0
  <2>1. DaysTo(year) = 365 * year + ((year - 1) \div 4) - ((year - 1) \div 100) + ((year - 1) \div 400)
    BY DEF DaysTo
  <2>2. CASE month < 3
    <3>1. q = (IF month = 1 THEN 36 ELSE 39) /\ b = (IF month = 1 THEN 0 ELSE 31) /\ y = year - 1
      BY <1>1, <2>2 DEF Before
    <3> HIDE DEF q, b, y
    <3>2. QED
      BY <1>1, <1>2, <1>3, <2>1, <2>2, <3>1
  <2>3. CASE ~ month < 3
    <3>1. DaysTo(year + 1) = DaysTo(year) + DaysInYear(year) /\ (year + 1) - 1 = year
      BY <1>1, YearAfterYear
    <3>2. y = year
      BY <1>1, <2>3
    <3>3. b - q = 49 + 28 * (month - 3) + (DaysInYear(year) - 365)
      BY <1>1, <2>3 DEF Before, DaysInYear
    <3>4. DaysTo(year + 1) = 365 * (year + 1) + (year \div 4) - (year \div 100) + (year \div 400)
      <4>1. DaysTo(year + 1) = 365 * (year + 1) + (((year + 1) - 1) \div 4) - (((year + 1) - 1) \div 100)
                                 + (((year + 1) - 1) \div 400)
        BY DEF DaysTo
      <4>2. QED
        BY <1>1, <4>1
    <3>5. /\ DaysInYear(year) \in {365, 366} /\ DaysTo(year) \in Int
      BY <1>1, YearAfterYear
    <3> DEFINE leaps == (year \div 4) - (year \div 100) + (year \div 400)
    <3>6. leaps \in Int /\ DaysTo(year) = 365 * (year + 1) + leaps - DaysInYear(year)
      BY <1>1, <3>1, <3>4, <3>5
    <3>7. b \in 0 .. 335
      <4>1. Follows(year, month)
        BY <1>1, MonthAfterMonth, Zenon
      <4>2. QED
        BY <4>1, Zenon DEF Follows, b
    <3>8. z = d.day + q + year + leaps
      BY <1>1, <1>3, <3>2
    <3> HIDE DEF q, b, y, z, n, leaps
    <3>9. n - z - 6 = 7 * (52 * year + 6 + 4 * (month - 3))
      BY <1>1, <1>2, <1>3, <3>3, <3>5, <3>6, <3>7, <3>8
    <3>10. QED
      BY <1>1, <3>9
  <2>4. QED
    BY <2>2, <2>3
<1> HIDE DEF n, z
<1>8. ((z % 7) + 6) % 7 = n % 7
  BY <1>1, <1>3, <1>7
<1>9. QED
  BY <1>6, <1>8 DEF n

\* What unix_to_datetime makes of a local time from 1970 on: the date of its day, and the time
\* since midnight.
LEMMA DateOfIs ==
  ASSUME NEW local \in Nat
  PROVE  /\ IsDate(Date(DateOf(local))) /\ DateOf(local).year >= 1
         /\ DayNumber(Date(DateOf(local))) = DaysTo(1970) + (local \div Day)
         /\ local % Day = DateOf(local).hour * 60 + DateOf(local).minute
         /\ DateOf(local).hour \in 0 .. 23 /\ DateOf(local).minute \in 0 .. 59
<1> DEFINE s == [year |-> 1970, days |-> Quot(local, Day)]
           y == YearLoop[s]
           m == MonthLoop(y)
           d == DateOf(local)
<1>1. Quot(local, Day) = local \div Day /\ local \div Day \in Nat
  BY QuotNat DEF Day
<1>2. s \in Years /\ s.days >= 0 /\ s.year = 1970 /\ s.days = local \div Day
  BY <1>1 DEF Years
<1>3. YearFound(s)
  BY <1>2, YearLoopEnds
<1>4. /\ y \in Years /\ y.days >= 0 /\ y.days < DaysInYear(y.year) /\ y.year >= 1970
      /\ DaysTo(y.year) + y.days = DaysTo(1970) + (local \div Day)
  BY <1>2, <1>3 DEF YearFound
<1>5. y.year \in Nat /\ y.days \in Int
  BY <1>4 DEF Years
<1> HIDE DEF y
<1>6. /\ m \in 1 .. 12 /\ DaysLeft(y)[m] = y.days - Before(y.year)[m]
      /\ 0 <= y.days - Before(y.year)[m] /\ y.days - Before(y.year)[m] < DaysInMonth(y.year)[m]
  BY <1>4, MonthLoopEnds
<1>7. /\ d.year = y.year /\ d.month = m /\ d.day = (y.days - Before(y.year)[m]) + 1
      /\ d.hour = Quot(Rem(local, Day), 60) /\ d.minute = Rem(Rem(local, Day), 60)
  BY <1>6 DEF DateOf, y
<1> HIDE DEF m, d
<1>8. Follows(y.year, m)
  BY <1>5, <1>6, MonthAfterMonth, Zenon
<1>9. Before(y.year)[m] \in 0 .. 335 /\ DaysInMonth(y.year)[m] \in 28 .. 31
  BY <1>8, Zenon DEF Follows
<1>10. Date(d) = [year |-> y.year, month |-> m, day |-> (y.days - Before(y.year)[m]) + 1]
  BY <1>7 DEF Date
<1>11. IsDate(Date(d))
  <2> DEFINE b == Before(y.year)[m]
             k == (y.days - b) + 1
             l == DaysInMonth(y.year)[m]
  <2>1. k \in Nat /\ 1 <= k /\ k <= l
    <3>1. b \in 0 .. 335 /\ l \in 28 .. 31 /\ 0 <= y.days - b /\ y.days - b < l
      BY <1>6, <1>9, Zenon
    <3> HIDE DEF b, l
    <3>2. QED
      BY <1>5, <3>1
  <2>2. Date(d) = [year |-> y.year, month |-> m, day |-> k]
    BY <1>10
  <2> HIDE DEF k, l
  <2>3. IsDate([year |-> y.year, month |-> m, day |-> k])
    BY <1>5, <1>6, <2>1 DEF IsDate, l
  <2>4. QED
    BY <2>2, <2>3, Zenon
<1>12. DayNumber(Date(d)) = DaysTo(1970) + (local \div Day)
  <2>1. DayNumber(Date(d)) = (DaysTo(y.year) + Before(y.year)[m]) + (((y.days - Before(y.year)[m]) + 1) - 1)
    BY <1>10 DEF DayNumber
  <2>2. DaysTo(y.year) \in Int
    BY <1>5, YearAfterYear
  <2>3. DayNumber(Date(d)) = DaysTo(y.year) + y.days
    BY <1>5, <1>9, <2>1, <2>2
  <2>4. QED
    BY <1>4, <2>3
<1> DEFINE k == local % Day
<1>13. k \in 0 .. 1439 /\ k \in Nat
  BY DEF Day
<1>14. Rem(local, Day) = k
  BY RemNat, Zenon
<1> HIDE DEF k
<1>15. Quot(k, 60) = k \div 60 /\ Rem(k, 60) = k % 60
  <2>1. k \in Nat
    BY <1>13
  <2>2. QED
    BY <2>1, QuotNat, RemNat, Zenon
<1>16. d.hour = k \div 60 /\ d.minute = k % 60
  BY <1>7, <1>14, <1>15, Zenon
<1>17. k = (k \div 60) * 60 + (k % 60) /\ k \div 60 \in 0 .. 23 /\ k % 60 \in 0 .. 59
  BY <1>13
<1>18. k = d.hour * 60 + d.minute /\ d.hour \in 0 .. 23 /\ d.minute \in 0 .. 59
  BY <1>16, <1>17, Zenon
<1>19. d.year >= 1
  BY <1>4, <1>5, <1>7
<1>20. QED
  BY <1>11, <1>12, <1>18, <1>19 DEF d, k

\* The clock keeps whole numbers.
ClockTypeOK == system_time \in Nat /\ unix_timestamp \in Int /\ timezone_offset_minutes \in Int

\* Ticks, time zones and ntp_sync leave whole numbers.
THEOREM ClockTypeCorrect == ClockSpec => []ClockTypeOK
<1>1. ClockInit => ClockTypeOK
  BY DEF ClockInit, ClockTypeOK
<1>2. ClockTypeOK /\ [ClockNext]_clock => ClockTypeOK'
  BY ClockAssumption DEF ClockTypeOK, ClockNext, clock, TimerTicks, NtpSync, TimeInit, DhcpSetTimezone
<1>3. QED
  BY <1>1, <1>2, PTL DEF ClockSpec

\* A midnight later, the date is the next and the weekday too.
LEMMA MidnightPasses ==
  ASSUME NEW a \in Nat, NEW b \in Nat, b \div Day = a \div Day + 1
  PROVE  /\ Date(DateOf(b)) = NextDate(Date(DateOf(a)))
         /\ DayOfWeek(DateOf(b)) = (DayOfWeek(DateOf(a)) + 1) % 7
<1> DEFINE d == DateOf(a)
           e == DateOf(b)
<1>1. IsDate(Date(d)) /\ d.year >= 1 /\ DayNumber(Date(d)) = DaysTo(1970) + (a \div Day)
  BY DateOfIs
<1>2. IsDate(Date(e)) /\ e.year >= 1 /\ DayNumber(Date(e)) = DaysTo(1970) + (b \div Day)
  BY DateOfIs
<1>3. a \div Day \in Nat /\ DaysTo(1970) \in Int
  BY YearAfterYear DEF Day
<1> HIDE DEF d, e
<1>4. DayNumber(Date(e)) = DayNumber(Date(d)) + 1 /\ DayNumber(Date(d)) \in Int
  BY <1>1, <1>2, <1>3
<1>5. IsDate(NextDate(Date(d))) /\ DayNumber(NextDate(Date(d))) = DayNumber(Date(d)) + 1
  BY <1>1, NextDateIs
<1>6. Date(e) = NextDate(Date(d))
  BY <1>2, <1>4, <1>5, OneDate
<1>7. DayOfWeek(d) = DayNumber(Date(d)) % 7 /\ DayOfWeek(e) = DayNumber(Date(e)) % 7
  BY <1>1, <1>2, WeekdayIs
<1>8. DayOfWeek(e) = (DayOfWeek(d) + 1) % 7
  BY <1>4, <1>7
<1>9. QED
  BY <1>6, <1>8 DEF d, e

\* On the same day, both stay.
LEMMA SameDay ==
  ASSUME NEW a \in Nat, NEW b \in Nat, b \div Day = a \div Day
  PROVE  Date(DateOf(b)) = Date(DateOf(a)) /\ DayOfWeek(DateOf(b)) = DayOfWeek(DateOf(a))
<1> DEFINE d == DateOf(a)
           e == DateOf(b)
<1>1. IsDate(Date(d)) /\ d.year >= 1 /\ DayNumber(Date(d)) = DaysTo(1970) + (a \div Day)
  BY DateOfIs
<1>2. IsDate(Date(e)) /\ e.year >= 1 /\ DayNumber(Date(e)) = DaysTo(1970) + (b \div Day)
  BY DateOfIs
<1> HIDE DEF d, e
<1>3. DayNumber(Date(e)) = DayNumber(Date(d))
  BY <1>1, <1>2
<1>4. Date(e) = Date(d)
  BY <1>1, <1>2, <1>3, OneDate
<1>5. DayOfWeek(d) = DayNumber(Date(d)) % 7 /\ DayOfWeek(e) = DayNumber(Date(e)) % 7
  BY <1>1, <1>2, WeekdayIs
<1>6. QED
  BY <1>3, <1>4, <1>5 DEF d, e

\* The sum of the parts of a local time from 1970 on.
LEMMA SumIsNat ==
  ASSUME NEW t \in Int, NEW s \in Nat, NEW z \in Int, (t + s) + z >= 0
  PROVE  (t + s) + z \in Nat
  OBVIOUS

\* unix_to_datetime and get_day_of_week follow the calendar: whenever a midnight goes by in local
\* time, the date becomes the next one and the weekday the next one, over leap years, ends of
\* months and centuries, and within a day the hours and minutes are those since midnight.
THEOREM ClockDatesFollow == ClockSpec => DatesFollow
<1> DEFINE Follow(old, new, a, b) ==
             /\ b \div Day = a \div Day + 1 =>
                  /\ Date(new) = NextDate(Date(old))
                  /\ DayOfWeek(new) = (DayOfWeek(old) + 1) % 7
             /\ b \div Day = a \div Day =>
                  Date(new) = Date(old) /\ DayOfWeek(new) = DayOfWeek(old)
             /\ b % Day = new.hour * 60 + new.minute
             /\ new.hour \in 0 .. 23 /\ new.minute \in 0 .. 59
           Step == Local' # Local /\ Local >= 0 /\ Local' >= 0 => Follow(CurrentTime, CurrentTime', Local, Local')
<1>1. CurrentTime = DateOf(Local) /\ CurrentTime' = DateOf(Local')
  BY DEF CurrentTime, DateTime, Local, Now
<1>2. ASSUME NEW a \in Nat, NEW b \in Nat
      PROVE  Follow(DateOf(a), DateOf(b), a, b)
  BY MidnightPasses, SameDay, DateOfIs
<1>3. ClockTypeOK /\ ClockTypeOK' => Step
  <2>1. SUFFICES ASSUME ClockTypeOK, ClockTypeOK', Local >= 0, Local' >= 0
                 PROVE  Follow(CurrentTime, CurrentTime', Local, Local')
    OBVIOUS
  <2>2. Local \in Nat /\ Local' \in Nat
    <3>1. system_time \in Nat /\ unix_timestamp \in Int /\ timezone_offset_minutes \in Int
      BY <2>1 DEF ClockTypeOK
    <3>2. system_time' \in Nat /\ unix_timestamp' \in Int /\ timezone_offset_minutes' \in Int
      BY <2>1 DEF ClockTypeOK
    <3>3. Local = (unix_timestamp + system_time) + timezone_offset_minutes
            /\ Local' = (unix_timestamp' + system_time') + timezone_offset_minutes'
      BY DEF Local, Now
    <3>4. (unix_timestamp + system_time) + timezone_offset_minutes >= 0
            /\ (unix_timestamp' + system_time') + timezone_offset_minutes' >= 0
      BY <2>1, <3>3, Zenon
    <3>5. (unix_timestamp + system_time) + timezone_offset_minutes \in Nat
            /\ (unix_timestamp' + system_time') + timezone_offset_minutes' \in Nat
      BY <3>1, <3>2, <3>4, SumIsNat, Zenon
    <3>6. QED
      BY <3>3, <3>5, Zenon
  <2> HIDE DEF Follow
  <2>3. QED
    BY <1>1, <1>2, <2>2
<1>4. ClockTypeOK /\ ClockTypeOK' => [Step]_clock
  BY <1>3
<1>5. QED
  BY <1>4, ClockTypeCorrect, PTL DEF DatesFollow
=============================================================================
