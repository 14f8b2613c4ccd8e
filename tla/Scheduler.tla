----------------------------- MODULE Scheduler -----------------------------
(***************************************************************************)
(* What TaskScheduler promises its clients (TaskScheduler.hpp): tasks are  *)
(* run one after the other in the order of their times, each as often as   *)
(* it was scheduled, never before its time, and none is begun once the     *)
(* scheduler is being destroyed; what is due is run when nothing is        *)
(* running.  Time is what remains to wait, in ticks.                       *)
(***************************************************************************)
EXTENDS Naturals, Sequences

CONSTANTS Task,       \* what can be scheduled
          Longest     \* bound: the longest delay, in ticks

VARIABLES queue,      \* the pending tasks, the earliest first
          busy,       \* a task is running
          open        \* the scheduler is not being destroyed

schedulerVars == <<queue, busy, open>>

Entry == [task : Task, wait : 0 .. Longest]

Init == queue = <<>> /\ busy = FALSE /\ open = TRUE

\* A task is added: without it the queue is what it was, and it stands among
\* those of its time.
Add ==
  /\ \E w \in Task, d \in 0 .. Longest, n \in 1 .. Len(queue) + 1 :
       /\ \A i \in DOMAIN queue : IF i < n THEN queue[i].wait <= d ELSE queue[i].wait >= d
       /\ queue' = SubSeq(queue, 1, n - 1) \o <<[task |-> w, wait |-> d]>>
                     \o SubSeq(queue, n, Len(queue))
  /\ UNCHANGED <<busy, open>>

Closer(n) == IF n = 0 THEN 0 ELSE n - 1

Tick ==
  /\ queue' = [i \in DOMAIN queue |-> [queue[i] EXCEPT !.wait = Closer(@)]]
  /\ UNCHANGED <<busy, open>>

Begin ==
  /\ open /\ ~busy
  /\ queue # <<>> /\ Head(queue).wait = 0
  /\ queue' = Tail(queue)
  /\ busy' = TRUE
  /\ UNCHANGED open

Finish == busy /\ busy' = FALSE /\ UNCHANGED <<queue, open>>

Shut == open /\ open' = FALSE /\ UNCHANGED <<queue, busy>>

Next == Add \/ Tick \/ Begin \/ Finish \/ Shut

Spec == Init /\ [][Next]_schedulerVars /\ WF_schedulerVars(Begin)
=============================================================================
