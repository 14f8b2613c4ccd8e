--------------------------- MODULE TaskScheduler ---------------------------
(***************************************************************************)
(* TaskScheduler.cpp: a thread runs tasks at their time, out of a priority *)
(* queue under a mutex, waiting on a condition variable first for a task   *)
(* and then for the time of the earliest one.  Clients insert under the    *)
(* mutex and notify after they have released it.                           *)
(*                                                                         *)
(* What the thread does from one wait to the next, mutex held, is one      *)
(* step.  Time is what remains to wait, in ticks.  The priority queue is   *)
(* the sequence of its tasks in the order it gives them out: tasks due in  *)
(* the same tick are in any order, those already late keep theirs.         *)
(***************************************************************************)
EXTENDS Naturals, Sequences, SequencesExt

CONSTANTS Task,       \* what can be scheduled
          Period,     \* Period[w]: of a task given to scheduleEvery, else 0
          Longest,    \* bound: the longest delay, in ticks
          Client,     \* the threads that schedule, beside the scheduler's own
          Loop,       \* the thread of schedulerLoop
          Owner,      \* the thread that runs the destructor
          NoTask

ASSUME SchedulerAssumption ==
  /\ Longest \in Nat
  /\ Period \in [Task -> 0 .. Longest]
  /\ NoTask \notin Task
  /\ Loop # Owner /\ Loop \notin Client /\ Owner \notin Client

VARIABLES
  queue,      \* queue_: the pending tasks, the earliest first
  done,       \* done_
  loop,       \* where the thread is in schedulerLoop
  deadline,   \* what remains of its wait_until while it is in it, else 0
  current,    \* the task it runs
  toNotify,   \* the threads between releasing the mutex and notify_one
  joined      \* the destructor has returned

schedulerVars == <<queue, done, loop, deadline, current, toNotify, joined>>

Entry == [task : Task, wait : 0 .. Longest]
Threads == Client \cup {Loop, Owner}

SchedulerTypeOK ==
  /\ queue \in Seq(Entry)
  /\ done \in BOOLEAN
  /\ loop \in {"outer", "idle", "inner", "timed", "begin", "run", "left"}
  /\ deadline \in 0 .. Longest
  /\ current \in Task \cup {NoTask}
  /\ toNotify \subseteq Threads
  /\ joined \in BOOLEAN

SchedulerInit ==
  /\ queue = <<>>
  /\ done = FALSE
  /\ loop = "outer"
  /\ deadline = 0
  /\ current = NoTask
  /\ toNotify = {}
  /\ joined = FALSE
-----------------------------------------------------------------------------
\* What emplace may make of the queue q: the task w comes after the earlier
\* and before the later ones.
WithTask(q, w, d) ==
  {InsertAt(q, p, [task |-> w, wait |-> d]) :
     p \in {n \in 1 .. Len(q) + 1 :
             /\ \A i \in 1 .. n - 1 : q[i].wait <= d
             /\ \A i \in n .. Len(q) : q[i].wait >= d}}

\* Bug: the thread is notified only of the first task in the queue.
ScheduleAfter_Bug(t, d, w) ==
  /\ t \notin toNotify
  /\ queue' \in WithTask(queue, w, d)
  /\ toNotify' = IF queue = <<>> THEN toNotify \cup {t} ELSE toNotify
  /\ UNCHANGED <<done, loop, deadline, current, joined>>

\* scheduleAt and scheduleAfter: the insertion under the mutex; notify_one
\* follows when the mutex has been released.
ScheduleAfter(t, d, w) ==
  /\ t \notin toNotify
  /\ queue' \in WithTask(queue, w, d)
  /\ toNotify' = toNotify \cup {t}
  /\ UNCHANGED <<done, loop, deadline, current, joined>>

\* A waiting thread goes on to test its loop's condition again.
WakeLoop ==
  /\ loop' = CASE loop = "idle" -> "outer"
               [] loop = "timed" -> "inner"
               [] OTHER -> loop
  /\ deadline' = 0

NotifyOne(t) ==
  /\ t \in toNotify
  /\ toNotify' = toNotify \ {t}
  /\ WakeLoop
  /\ UNCHANGED <<queue, done, current, joined>>

\* Bug: "if" instead of "while" before the first wait.
SpuriousWakeup_Bug ==
  /\ loop \in {"idle", "timed"}
  /\ loop' = "inner"
  /\ deadline' = 0
  /\ UNCHANGED <<queue, done, current, toNotify, joined>>

SpuriousWakeup ==
  /\ loop \in {"idle", "timed"}
  /\ WakeLoop
  /\ UNCHANGED <<queue, done, current, toNotify, joined>>

TimeOut ==
  /\ loop = "timed" /\ deadline = 0
  /\ WakeLoop
  /\ UNCHANGED <<queue, done, current, toNotify, joined>>

\* Bug: done_ is tested after the first wait only.
Leave_Bug ==
  /\ loop = "outer" /\ done
  /\ loop' = "left"
  /\ UNCHANGED <<queue, done, deadline, current, toNotify, joined>>

\* schedulerLoop with the mutex held: it leaves, waits for a task, waits for
\* the earliest one's time, or takes it.
Leave ==
  /\ loop \in {"outer", "inner"} /\ done
  /\ loop' = "left"
  /\ UNCHANGED <<queue, done, deadline, current, toNotify, joined>>

WaitForTask ==
  /\ loop = "outer" /\ ~done /\ queue = <<>>
  /\ loop' = "idle"
  /\ UNCHANGED <<queue, done, deadline, current, toNotify, joined>>

WaitForTime ==
  /\ loop \in {"outer", "inner"} /\ ~done
  /\ queue # <<>> /\ Head(queue).wait > 0
  /\ deadline' = Head(queue).wait
  /\ loop' = "timed"
  /\ UNCHANGED <<queue, done, current, toNotify, joined>>

\* Bug: the time is not tested again after a wake-up.
Take_Bug ==
  /\ loop \in {"outer", "inner"} /\ ~done
  /\ queue # <<>> /\ (loop = "inner" \/ Head(queue).wait = 0)
  /\ queue' = Tail(queue)
  /\ current' = Head(queue).task
  /\ loop' = "begin"
  /\ UNCHANGED <<done, deadline, toNotify, joined>>

Take ==
  /\ loop \in {"outer", "inner"} /\ ~done
  /\ queue # <<>> /\ Head(queue).wait = 0
  /\ queue' = Tail(queue)
  /\ current' = Head(queue).task
  /\ loop' = "begin"
  /\ UNCHANGED <<done, deadline, toNotify, joined>>

\* The wrapper of scheduleEvery schedules its next run before it does the
\* work; any other task starts its work at once.
Begin ==
  /\ loop = "begin"
  /\ loop' = "run"
  /\ IF Period[current] = 0
       THEN UNCHANGED <<queue, toNotify>>
       ELSE /\ queue' \in WithTask(queue, current, Period[current])
            /\ toNotify' = toNotify \cup {Loop}
  /\ UNCHANGED <<done, deadline, current, joined>>

Finish ==
  /\ loop = "run" /\ Loop \notin toNotify
  /\ loop' = "outer"
  /\ current' = NoTask
  /\ UNCHANGED <<queue, done, deadline, toNotify, joined>>

RaiseDone ==
  /\ ~done
  /\ done' = TRUE
  /\ toNotify' = toNotify \cup {Owner}
  /\ UNCHANGED <<queue, loop, deadline, current, joined>>

Join ==
  /\ done /\ Owner \notin toNotify /\ loop = "left" /\ ~joined
  /\ joined' = TRUE
  /\ UNCHANGED <<queue, done, loop, deadline, current, toNotify>>

Closer(n) == IF n = 0 THEN 0 ELSE n - 1

\* A tick passes: each pending task and the deadline are one tick closer.
Tick ==
  /\ queue' = [i \in DOMAIN queue |-> [queue[i] EXCEPT !.wait = Closer(@)]]
  /\ deadline' = Closer(deadline)
  /\ UNCHANGED <<done, loop, current, toNotify, joined>>

LoopStep == Leave \/ WaitForTask \/ WaitForTime \/ Take \/ Begin

SchedulerNext ==
  \/ \E t \in Client, w \in Task, d \in 0 .. Longest :
       ~done /\ ScheduleAfter(t, d, w)
  \/ \E w \in Task, d \in 0 .. Longest :
       loop = "run" /\ ScheduleAfter(Loop, d, w)
  \/ \E t \in Threads : NotifyOne(t)
  \/ SpuriousWakeup \/ TimeOut
  \/ LoopStep \/ Finish
  \/ RaiseDone \/ Join
  \/ Tick

-----------------------------------------------------------------------------
\* The thread never waits beyond what it waits for: whenever it waits while
\* there is a task earlier than its deadline, or any task while it waits for
\* one, or the destructor wants it, somebody is about to notify it
\* (schedulerLoop, whose clients notify without the mutex).
NoOversleep ==
  /\ loop = "idle" /\ toNotify = {} => queue = <<>> /\ ~done
  /\ loop = "timed" /\ toNotify = {} =>
       ~done /\ queue # <<>> /\ deadline <= Head(queue).wait

\* queue_.top() is never called of an empty queue: nobody else takes tasks
\* while the thread waits for the time of one.
TopIsThere == loop \in {"inner", "timed"} => queue # <<>>

Abstract == INSTANCE Scheduler WITH busy <- current # NoTask, open <- ~done

\* A scheduler with wait times, wake-ups and a mutex runs every task once, at
\* its time and one at a time, and does not sleep through a due one
\* (TaskScheduler.hpp).
ImplementsScheduler == Abstract!Spec

-----------------------------------------------------------------------------
SchedulerSpec == SchedulerInit /\ [][SchedulerNext]_schedulerVars
=============================================================================
