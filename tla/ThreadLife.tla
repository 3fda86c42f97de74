----------------------------- MODULE ThreadLife -----------------------------
(***************************************************************************)
(* What the scheduler promises of the life of a thread, without queues,    *)
(* priorities or ticks: one thread runs at a time, the processor goes only *)
(* to a thread that is ready, and exit is final.                           *)
(***************************************************************************)
CONSTANT ThreadId     \* the threads there can be

VARIABLE life         \* thread -> "none", "ready", "running" or "zombie"

Init == life = [t \in ThreadId |-> "none"]

\* A thread is made ready to run.
Create(t) == life[t] = "none" /\ life' = [life EXCEPT ![t] = "ready"]

\* The processor goes to t; whoever ran waits again.
Switch(t) ==
  /\ life[t] = "ready"
  /\ life' = [u \in ThreadId |->
                IF u = t THEN "running" ELSE IF life[u] = "running" THEN "ready" ELSE life[u]]

\* The running thread exits, with nobody to take over.
Exit(t) == life[t] = "running" /\ life' = [life EXCEPT ![t] = "zombie"]

\* The running thread t exits and u takes over.
ExitTo(t, u) ==
  /\ life[t] = "running" /\ life[u] = "ready"
  /\ life' = [life EXCEPT ![t] = "zombie", ![u] = "running"]

Next == \E t \in ThreadId : \/ Create(t) \/ Switch(t) \/ Exit(t)
                            \/ \E u \in ThreadId : ExitTo(t, u)

Spec == Init /\ [][Next]_life
=============================================================================
