------------------------- MODULE NotificationProofs -------------------------
(***************************************************************************)
(* Theorems about the task scheduler, for any tasks, delays and clients    *)
(* that schedule at any moment, and about the notification controllers on  *)
(* it, for any controllers, contacts and delays.                           *)
(***************************************************************************)
EXTENDS Notification, FiniteSetTheorems, TLAPS

SchedulerInv ==
  /\ SchedulerTypeOK
  /\ current # NoTask <=> loop \in {"begin", "run"}
  /\ NoOversleep
  /\ TopIsThere

\* Where an insertion puts the new task.
LEMMA InsertedBetween ==
  ASSUME NEW q \in Seq(Entry), NEW w \in Task, NEW d \in 0 .. Longest,
         NEW r \in WithTask(q, w, d)
  PROVE  \E n \in 1 .. Len(q) + 1 :
           /\ \A i \in DOMAIN q : IF i < n THEN q[i].wait <= d ELSE q[i].wait >= d
           /\ r = SubSeq(q, 1, n - 1) \o <<[task |-> w, wait |-> d]>>
                    \o SubSeq(q, n, Len(q))
<1>1. PICK n \in 1 .. Len(q) + 1 :
        /\ \A i \in 1 .. n - 1 : q[i].wait <= d
        /\ \A i \in n .. Len(q) : q[i].wait >= d
        /\ r = InsertAt(q, n, [task |-> w, wait |-> d])
  BY DEF WithTask
<1>2. r = SubSeq(q, 1, n - 1) \o <<[task |-> w, wait |-> d]>> \o SubSeq(q, n, Len(q))
  BY <1>1 DEF InsertAt
<1>3. DOMAIN q = 1 .. Len(q) /\ Len(q) \in Nat
  OBVIOUS
<1>4. \A i \in DOMAIN q : IF i < n THEN q[i].wait <= d ELSE q[i].wait >= d
  BY <1>1, <1>3
<1> QED
  BY <1>2, <1>4

\* Where an insertion leaves the others.
LEMMA InsertedPlaces ==
  ASSUME NEW q \in Seq(Entry), NEW w \in Task, NEW d \in 0 .. Longest,
         NEW r \in WithTask(q, w, d)
  PROVE  \E n \in 1 .. Len(q) + 1 :
           /\ r \in Seq(Entry) /\ DOMAIN r = 1 .. Len(q) + 1
           /\ r[n] = [task |-> w, wait |-> d]
           /\ \A i \in DOMAIN r : /\ i < n => i \in DOMAIN q /\ r[i] = q[i]
                                  /\ i > n => i - 1 \in DOMAIN q /\ r[i] = q[i - 1]
<1> DEFINE new == [task |-> w, wait |-> d]
<1>1. PICK n \in 1 .. Len(q) + 1 :
        r = SubSeq(q, 1, n - 1) \o <<new>> \o SubSeq(q, n, Len(q))
  BY InsertedBetween
<1>2. new \in Entry /\ new.task = w
  BY DEF Entry
<1> HIDE DEF new
<1>3. r = SubSeq(q, 1, n - 1) \o <<new>> \o SubSeq(q, n, Len(q))
  BY <1>1
<1>4. Len(q) \in Nat /\ DOMAIN q = 1 .. Len(q) /\ n \in Nat
  OBVIOUS
<1>5. /\ SubSeq(q, 1, n - 1) \in Seq(Entry) /\ Len(SubSeq(q, 1, n - 1)) = n - 1
      /\ \A i \in 1 .. n - 1 : SubSeq(q, 1, n - 1)[i] = q[i]
  BY <1>4
<1>6. /\ SubSeq(q, n, Len(q)) \in Seq(Entry) /\ Len(SubSeq(q, n, Len(q))) = Len(q) - n + 1
      /\ \A i \in 1 .. Len(q) - n + 1 : SubSeq(q, n, Len(q))[i] = q[n + i - 1]
  BY <1>4
<1> DEFINE a == SubSeq(q, 1, n - 1)
           z == SubSeq(q, n, Len(q))
<1> HIDE DEF a, z
<1>7. /\ r \in Seq(Entry) /\ Len(r) = Len(q) + 1 /\ DOMAIN r = 1 .. Len(q) + 1
      /\ \A i \in 1 .. n - 1 : r[i] = a[i]
      /\ r[n] = new
      /\ \A i \in n + 1 .. Len(q) + 1 : r[i] = z[i - n]
  <2>1. a \in Seq(Entry) /\ Len(a) = n - 1 /\ z \in Seq(Entry) /\ Len(z) = Len(q) - n + 1
    BY <1>5, <1>6 DEF a, z
  <2>2. r = a \o <<new>> \o z /\ <<new>> \in Seq(Entry)
    BY <1>2, <1>3 DEF a, z
  <2> DEFINE b == a \o <<new>>
  <2>3. /\ b \in Seq(Entry) /\ Len(b) = n
        /\ \A i \in 1 .. n - 1 : b[i] = a[i]
        /\ b[n] = new
    <3>1. Len(<<new>>) = 1 /\ <<new>>[1] = new
      OBVIOUS
    <3>2. b \in Seq(Entry) /\ Len(b) = n
      BY <2>1, <2>2, <3>1, <1>4
    <3>3. \A i \in 1 .. n - 1 : b[i] = a[i]
      BY <2>1, <2>2, <3>1, <1>4
    <3>4. b[n] = new
      BY <2>1, <2>2, <3>1, <1>4
    <3> QED
      BY <3>2, <3>3, <3>4
  <2>4. r = b \o z
    BY <2>2
  <2> HIDE DEF b
  <2>5. r \in Seq(Entry) /\ Len(r) = Len(q) + 1
    BY <2>1, <2>3, <2>4, <1>4
  <2>6. \A i \in 1 .. n : r[i] = b[i]
    BY <2>1, <2>3, <2>4, <1>4
  <2>7. \A i \in n + 1 .. Len(q) + 1 : r[i] = z[i - n]
    BY <2>1, <2>3, <2>4, <1>4
  <2> QED
    BY <2>3, <2>5, <2>6, <2>7, <1>4
<1>8. ASSUME NEW i \in DOMAIN r
      PROVE  /\ i < n => i \in DOMAIN q /\ r[i] = q[i]
             /\ i > n => i - 1 \in DOMAIN q /\ r[i] = q[i - 1]
  <2>1. CASE i < n
    <3>1. i \in 1 .. n - 1 /\ i \in DOMAIN q
      BY <2>1, <1>4, <1>7
    <3> QED
      BY <2>1, <3>1, <1>4, <1>5, <1>7 DEF a
  <2>2. CASE i > n
    <3>1. i - n \in 1 .. Len(q) - n + 1 /\ i - 1 \in DOMAIN q /\ n + (i - n) - 1 = i - 1
      BY <2>2, <1>4, <1>7
    <3> QED
      BY <2>2, <3>1, <1>4, <1>6, <1>7 DEF z
  <2> QED
    BY <2>1, <2>2, <1>4, <1>7
<1> QED
  BY <1>7, <1>8 DEF new

\* What is in the queue after an insertion.
LEMMA Inserted ==
  ASSUME NEW q \in Seq(Entry), NEW w \in Task, NEW d \in 0 .. Longest,
         NEW r \in WithTask(q, w, d)
  PROVE  r \in Seq(Entry) /\ r # <<>>
<1>1. r \in Seq(Entry) /\ DOMAIN r = 1 .. Len(q) + 1
  BY InsertedPlaces
<1>2. Len(q) \in Nat
  OBVIOUS
<1> QED
  BY <1>1, <1>2

-----------------------------------------------------------------------------
\* Where a task is in a queue, and how often.
Places(c, q) == {i \in DOMAIN q : q[i].task = c}

LEMMA PlacesFinite ==
  ASSUME NEW c, NEW q \in Seq(Entry)
  PROVE  IsFiniteSet(Places(c, q)) /\ Cardinality(Places(c, q)) \in Nat
<1>1. DOMAIN q = 1 .. Len(q) /\ Len(q) \in Nat
  OBVIOUS
<1>2. IsFiniteSet(1 .. Len(q))
  BY <1>1, FS_Interval
<1>3. Places(c, q) \in SUBSET (1 .. Len(q))
  BY <1>1 DEF Places
<1>. QED
  BY <1>2, <1>3, FS_Subset, FS_CardinalityType

\* An insertion adds one place of the task inserted, and no other.
LEMMA InsertedCount ==
  ASSUME NEW c, NEW q \in Seq(Entry), NEW w \in Task, NEW d \in 0 .. Longest,
         NEW r \in WithTask(q, w, d)
  PROVE  Cardinality(Places(c, r)) <= Cardinality(Places(c, q)) + (IF c = w THEN 1 ELSE 0)
<1>1. PICK n \in 1 .. Len(q) + 1 :
        /\ r \in Seq(Entry) /\ DOMAIN r = 1 .. Len(q) + 1
        /\ r[n] = [task |-> w, wait |-> d]
        /\ \A i \in DOMAIN r : /\ i < n => i \in DOMAIN q /\ r[i] = q[i]
                               /\ i > n => i - 1 \in DOMAIN q /\ r[i] = q[i - 1]
  BY InsertedPlaces
<1>. DEFINE others == Places(c, r) \ {n}
            f == [i \in others |-> IF i < n THEN i ELSE i - 1]
<1>2. n \in Int /\ others \subseteq DOMAIN r /\ others \subseteq Int
  BY <1>1 DEF Places
<1>3. f \in [others -> Places(c, q)]
  <2>1. ASSUME NEW i \in others PROVE f[i] \in Places(c, q)
    <3>1. i \in DOMAIN r /\ i # n /\ r[i].task = c /\ i \in Int
      BY <1>2, <2>1 DEF Places
    <3>2. CASE i < n
      <4>1. i \in DOMAIN q /\ r[i] = q[i]
        BY <1>1, <3>1, <3>2
      <4>. QED
        BY <2>1, <3>1, <3>2, <4>1 DEF Places
    <3>3. CASE i > n
      <4>1. i - 1 \in DOMAIN q /\ r[i] = q[i - 1]
        BY <1>1, <3>1, <3>3
      <4>2. ~(i < n)
        BY <1>2, <3>1, <3>3
      <4>. QED
        BY <2>1, <3>1, <4>1, <4>2 DEF Places
    <3>. QED
      BY <1>2, <3>1, <3>2, <3>3
  <2>. QED
    BY <2>1
<1>4. \A i, j \in others : f[i] = f[j] => i = j
  <2>. TAKE i, j \in others
  <2>1. i \in Int /\ j \in Int /\ i # n /\ j # n
    BY <1>2
  <2>. QED
    BY <1>2, <2>1
<1>5. f \in Injection(others, Places(c, q))
  BY <1>3, <1>4 DEF Injection, IsInjective
<1>. HIDE DEF f
<1>6. /\ IsFiniteSet(others)
      /\ Cardinality(others) <= Cardinality(Places(c, q))
  BY <1>5, PlacesFinite, FS_Injection
<1>7. Cardinality(others) \in Nat /\ Cardinality(Places(c, q)) \in Nat
  BY <1>6, PlacesFinite, FS_CardinalityType
<1>8. CASE c = w
  <2>1. Places(c, r) \in SUBSET (others \cup {n})
    OBVIOUS
  <2>2. /\ IsFiniteSet(others \cup {n})
        /\ Cardinality(others \cup {n}) <= Cardinality(others) + 1
        /\ Cardinality(others \cup {n}) \in Nat
    <3>1. n \notin others
      OBVIOUS
    <3>. HIDE DEF others
    <3>2. /\ IsFiniteSet(others \cup {n})
          /\ Cardinality(others \cup {n}) = Cardinality(others) + 1
      BY <1>6, <3>1, FS_AddElement, Zenon
    <3>. QED
      BY <1>7, <3>2
  <2>3. /\ Cardinality(Places(c, r)) <= Cardinality(others \cup {n})
        /\ Cardinality(Places(c, r)) \in Nat
    BY <1>1, <2>1, <2>2, FS_Subset, PlacesFinite
  <2>. QED
    BY <1>6, <1>7, <1>8, <2>2, <2>3
<1>9. CASE c # w
  <2>1. r[n].task # c
    BY <1>1, <1>9
  <2>2. n \notin Places(c, r)
    BY <2>1 DEF Places
  <2>3. Places(c, r) = others
    BY <2>2
  <2>. HIDE DEF others
  <2>. QED
    BY <1>6, <1>7, <1>9, <2>3
<1>. QED
  BY <1>8, <1>9

\* Taking a task adds none.
LEMMA TakenCount ==
  ASSUME NEW c, NEW q \in Seq(Entry), q # <<>>
  PROVE  Cardinality(Places(c, Tail(q))) <= Cardinality(Places(c, q))
<1>. DEFINE f == [i \in Places(c, Tail(q)) |-> i + 1]
<1>1. /\ Tail(q) \in Seq(Entry)
      /\ \A i \in DOMAIN Tail(q) : i \in Int /\ i + 1 \in DOMAIN q /\ Tail(q)[i] = q[i + 1]
  OBVIOUS
<1>2. f \in [Places(c, Tail(q)) -> Places(c, q)]
  BY <1>1 DEF Places
<1>3. \A i, j \in Places(c, Tail(q)) : f[i] = f[j] => i = j
  BY <1>1 DEF Places
<1>4. f \in Injection(Places(c, Tail(q)), Places(c, q))
  BY <1>2, <1>3 DEF Injection, IsInjective
<1>. HIDE DEF f
<1>. QED
  BY <1>4, PlacesFinite, FS_Injection

-----------------------------------------------------------------------------
LEMMA SchedulerInitial == SchedulerInit => SchedulerInv
<1> SUFFICES ASSUME SchedulerInit PROVE SchedulerInv
  OBVIOUS
<1>1. queue \in Seq(Entry) /\ 0 \in 0 .. Longest
  BY SchedulerAssumption DEF SchedulerInit
<1>2. SchedulerTypeOK
  BY <1>1 DEF SchedulerInit, SchedulerTypeOK
<1>3. loop = "outer" /\ current = NoTask
  BY DEF SchedulerInit
<1> QED
  BY <1>2, <1>3 DEF SchedulerInv, NoOversleep, TopIsThere

\* Somebody schedules a task.
LEMMA KeepsScheduleAfter ==
  ASSUME SchedulerInv, NEW t \in Threads, NEW w \in Task, NEW d \in 0 .. Longest,
         ScheduleAfter(t, d, w)
  PROVE  SchedulerInv'
<1>1. queue' \in Seq(Entry) /\ queue' # <<>> /\ toNotify' # {} /\ toNotify' \subseteq Threads
  BY Inserted DEF ScheduleAfter, SchedulerInv, SchedulerTypeOK
<1> QED
  BY <1>1 DEF ScheduleAfter, SchedulerInv, SchedulerTypeOK, NoOversleep, TopIsThere

LEMMA KeepsWakes ==
  ASSUME SchedulerInv, SpuriousWakeup \/ TimeOut \/ \E t \in Threads : NotifyOne(t)
  PROVE  SchedulerInv'
BY SchedulerAssumption
   DEF SpuriousWakeup, TimeOut, NotifyOne, WakeLoop, SchedulerInv, SchedulerTypeOK,
       NoOversleep, TopIsThere

\* The thread runs from one wait to the next.
LEMMA KeepsLoopStep ==
  ASSUME SchedulerInv, LoopStep
  PROVE  SchedulerInv'
<1> USE SchedulerAssumption
        DEF SchedulerInv, SchedulerTypeOK, NoOversleep, TopIsThere
<1>1. CASE Leave
  BY <1>1 DEF Leave
<1>2. CASE WaitForTask
  BY <1>2 DEF WaitForTask
<1>3. CASE WaitForTime
  <2>1. Head(queue) \in Entry
    BY <1>3 DEF WaitForTime
  <2>2. Head(queue).wait \in 0 .. Longest
    BY <2>1 DEF Entry
  <2> QED
    BY <1>3, <2>2 DEF WaitForTime
<1>4. CASE Take
  <2>1. Head(queue) \in Entry /\ Tail(queue) \in Seq(Entry)
    BY <1>4 DEF Take
  <2>2. Head(queue).task \in Task
    BY <2>1 DEF Entry
  <2> QED
    BY <1>4, <2>1, <2>2 DEF Take
<1>5. CASE Begin
  <2>1. current \in Task
    BY <1>5 DEF Begin
  <2>2. queue' \in Seq(Entry)
    BY <1>5, <2>1, Inserted DEF Begin
  <2> QED
    BY <1>5, <2>1, <2>2 DEF Begin, Threads
<1> QED
  BY <1>1, <1>2, <1>3, <1>4, <1>5 DEF LoopStep

LEMMA KeepsEnds ==
  ASSUME SchedulerInv, Finish \/ RaiseDone \/ Join \/ UNCHANGED schedulerVars
  PROVE  SchedulerInv'
<1> USE DEF SchedulerInv, SchedulerTypeOK, NoOversleep, TopIsThere
<1>1. CASE Finish
  BY <1>1 DEF Finish
<1>2. CASE RaiseDone
  <2>1. Owner \in toNotify' /\ toNotify' \subseteq Threads
    BY <1>2 DEF RaiseDone, Threads
  <2> QED
    BY <1>2, <2>1 DEF RaiseDone
<1>3. CASE Join
  BY <1>3 DEF Join
<1>4. CASE UNCHANGED schedulerVars
  BY <1>4 DEF schedulerVars
<1> QED
  BY <1>1, <1>2, <1>3, <1>4

\* A tick brings the deadline and the tasks closer alike.
LEMMA KeepsTick ==
  ASSUME SchedulerInv, Tick
  PROVE  SchedulerInv'
<1>1. /\ queue \in Seq(Entry) /\ Len(queue) \in Nat /\ DOMAIN queue = 1 .. Len(queue)
      /\ \A i \in DOMAIN queue : queue[i] \in Entry
  BY DEF SchedulerInv, SchedulerTypeOK
<1>2. \A i \in DOMAIN queue :
        /\ [queue[i] EXCEPT !.wait = Closer(@)] \in Entry
        /\ [queue[i] EXCEPT !.wait = Closer(@)].wait = Closer(queue[i].wait)
  <2> TAKE i \in DOMAIN queue
  <2>1. /\ queue[i] = [task |-> queue[i].task, wait |-> queue[i].wait]
        /\ queue[i].task \in Task /\ queue[i].wait \in 0 .. Longest
    BY <1>1 DEF Entry
  <2>2. Closer(queue[i].wait) \in 0 .. Longest
    BY <2>1, SchedulerAssumption DEF Closer
  <2>3. [queue[i] EXCEPT !.wait = Closer(@)]
          = [task |-> queue[i].task, wait |-> Closer(queue[i].wait)]
    <3> DEFINE e == queue[i]
               c == Closer(queue[i].wait)
    <3>1. e = [task |-> e.task, wait |-> e.wait]
      BY <2>1
    <3> HIDE DEF e, c
    <3>2. [e EXCEPT !.wait = c] = [task |-> e.task, wait |-> c]
      BY <3>1
    <3>3. [queue[i] EXCEPT !.wait = Closer(@)] = [e EXCEPT !.wait = c]
      BY DEF e, c
    <3> QED
      BY <3>2, <3>3 DEF e, c
  <2> QED
    BY <2>1, <2>2, <2>3 DEF Entry
<1>3. /\ queue' \in Seq(Entry) /\ DOMAIN queue' = DOMAIN queue
      /\ \A i \in DOMAIN queue : queue'[i].wait = Closer(queue[i].wait)
  <2>1. queue' \in [1 .. Len(queue) -> Entry]
    BY <1>1, <1>2 DEF Tick
  <2>2. \A i \in DOMAIN queue : queue'[i] = [queue[i] EXCEPT !.wait = Closer(@)]
    BY DEF Tick
  <2>3. queue' \in Seq(Entry) /\ DOMAIN queue' = DOMAIN queue
    BY <1>1, <2>1
  <2> QED
    BY <1>2, <2>2, <2>3
<1>4. queue # <<>> => /\ queue' # <<>>
                      /\ Head(queue) \in Entry
                      /\ Head(queue').wait = Closer(Head(queue).wait)
  BY <1>1, <1>3
<1>5. queue = <<>> => queue' = <<>>
  BY <1>1, <1>3
<1>6. SchedulerTypeOK'
  BY <1>3, SchedulerAssumption DEF SchedulerInv, SchedulerTypeOK, Tick, Closer
<1>7. NoOversleep'
  <2>1. ASSUME loop = "timed", toNotify = {}
        PROVE  deadline' <= Head(queue').wait
    <3>1. Head(queue).wait \in Nat /\ deadline \in Nat /\ deadline <= Head(queue).wait
      BY <2>1, <1>4, SchedulerAssumption
         DEF SchedulerInv, SchedulerTypeOK, NoOversleep, Entry
    <3> QED
      BY <2>1, <3>1, <1>4 DEF Tick, Closer, SchedulerInv, NoOversleep
  <2> QED
    BY <2>1, <1>4, <1>5 DEF SchedulerInv, NoOversleep, Tick
<1> QED
  BY <1>4, <1>6, <1>7 DEF SchedulerInv, TopIsThere, Tick

LEMMA SchedulerStep == SchedulerInv /\ [SchedulerNext]_schedulerVars => SchedulerInv'
<1> SUFFICES ASSUME SchedulerInv, [SchedulerNext]_schedulerVars PROVE SchedulerInv'
  OBVIOUS
<1>1. ASSUME NEW t \in Client, NEW w \in Task, NEW d \in 0 .. Longest, ScheduleAfter(t, d, w)
      PROVE  SchedulerInv'
  BY <1>1, KeepsScheduleAfter DEF Threads
<1>2. ASSUME NEW w \in Task, NEW d \in 0 .. Longest, ScheduleAfter(Loop, d, w)
      PROVE  SchedulerInv'
  BY <1>2, KeepsScheduleAfter DEF Threads
<1> QED
  BY <1>1, <1>2, KeepsWakes, KeepsLoopStep, KeepsEnds, KeepsTick DEF SchedulerNext

\* The scheduler's variables keep their types, a task is current exactly while
\* one runs, and the thread neither oversleeps nor takes from an empty queue,
\* whatever its clients schedule (schedulerLoop).
THEOREM SchedulerCorrect == SchedulerSpec => []SchedulerInv
BY SchedulerInitial, SchedulerStep, PTL DEF SchedulerSpec

\* The thread never waits beyond what it waits for (schedulerLoop, scheduleAfter).
THEOREM NeverOversleeps == SchedulerSpec => []NoOversleep
<1>1. SchedulerInv => NoOversleep
  BY DEF SchedulerInv
<1> QED
  BY <1>1, SchedulerCorrect, PTL

\* queue_.top() is never called of an empty queue (schedulerLoop).
THEOREM TopSafe == SchedulerSpec => []TopIsThere
<1>1. SchedulerInv => TopIsThere
  BY DEF SchedulerInv
<1> QED
  BY <1>1, SchedulerCorrect, PTL

-----------------------------------------------------------------------------
(***************************************************************************)
(* The scheduler implements its abstract specification: every step is one  *)
(* of it or is invisible.                                                  *)
(***************************************************************************)
LEMMA RefinedInit == SchedulerInit => Abstract!Init
BY DEF SchedulerInit, Abstract!Init

LEMMA RefinedAdd ==
  ASSUME SchedulerInv, NEW w \in Task, NEW d \in 0 .. Longest,
         queue' \in WithTask(queue, w, d), UNCHANGED <<current, done>>
  PROVE  Abstract!Next
<1>1. queue \in Seq(Entry)
  BY DEF SchedulerInv, SchedulerTypeOK
<1>2. PICK n \in 1 .. Len(queue) + 1 :
        /\ \A i \in DOMAIN queue : IF i < n THEN queue[i].wait <= d ELSE queue[i].wait >= d
        /\ queue' = SubSeq(queue, 1, n - 1) \o <<[task |-> w, wait |-> d]>>
                      \o SubSeq(queue, n, Len(queue))
  BY <1>1, InsertedBetween
<1> QED
  BY <1>2 DEF Abstract!Next, Abstract!Add

LEMMA RefinedStep ==
  SchedulerInv /\ [SchedulerNext]_schedulerVars => [Abstract!Next]_(Abstract!schedulerVars)
<1> SUFFICES ASSUME SchedulerInv, [SchedulerNext]_schedulerVars
             PROVE  Abstract!Next \/ UNCHANGED <<queue, current, done>>
  BY DEF Abstract!schedulerVars
<1>1. ASSUME NEW t, NEW w \in Task, NEW d \in 0 .. Longest, ScheduleAfter(t, d, w)
      PROVE  Abstract!Next
  BY <1>1, RefinedAdd DEF ScheduleAfter
<1>2. ASSUME Begin
      PROVE  Abstract!Next \/ UNCHANGED <<queue, current, done>>
  <2>1. current \in Task
    BY <1>2 DEF Begin, SchedulerInv, SchedulerTypeOK
  <2>2. Period[current] \in 0 .. Longest
    BY <2>1, SchedulerAssumption
  <2> QED
    BY <1>2, <2>1, <2>2, RefinedAdd DEF Begin
<1>3. ASSUME Take
      PROVE  Abstract!Begin
  <2>1. current = NoTask /\ ~done /\ queue # <<>> /\ Head(queue).wait = 0
    BY <1>3 DEF Take, SchedulerInv
  <2>2. current' # NoTask
    <3>1. Head(queue) \in Entry
      BY <2>1 DEF SchedulerInv, SchedulerTypeOK
    <3> QED
      BY <1>3, <3>1, SchedulerAssumption DEF Take, Entry
  <2> QED
    BY <1>3, <2>1, <2>2 DEF Take, Abstract!Begin
<1>4. ASSUME Finish
      PROVE  Abstract!Finish
  BY <1>4 DEF Finish, Abstract!Finish, SchedulerInv
<1>5. ASSUME RaiseDone
      PROVE  Abstract!Shut
  BY <1>5 DEF RaiseDone, Abstract!Shut
<1>6. ASSUME Tick
      PROVE  Abstract!Tick
  BY <1>6 DEF Tick, Closer, Abstract!Tick, Abstract!Closer
<1>7. ASSUME \/ \E t \in Threads : NotifyOne(t)
             \/ SpuriousWakeup \/ TimeOut \/ Leave \/ WaitForTask \/ WaitForTime
             \/ Join \/ UNCHANGED schedulerVars
      PROVE  UNCHANGED <<queue, current, done>>
  BY <1>7 DEF NotifyOne, SpuriousWakeup, TimeOut, Leave, WaitForTask, WaitForTime, Join,
              schedulerVars
<1> QED
  BY <1>1, <1>2, <1>3, <1>4, <1>5, <1>6, <1>7 DEF SchedulerNext, LoopStep, Abstract!Next

\* But for fairness the scheduler implements its abstract specification: the
\* tasks run one at a time, each as often as it was scheduled, at its time and
\* in order, and none begins once the destructor has (TaskScheduler.hpp).
THEOREM SchedulerRefined ==
  SchedulerSpec => Abstract!Init /\ [][Abstract!Next]_(Abstract!schedulerVars)
BY RefinedInit, RefinedStep, SchedulerCorrect, PTL DEF SchedulerSpec
-----------------------------------------------------------------------------

\* Where the camera thread is decides what may be left of the controllers, a
\* result that it is about to get is there, who is late is where it can
\* schedule, and the destructor has left nothing in a controller's future.
CallsInv ==
  /\ toCall # <<>> => owner = "alive"
  /\ done \/ alive # Channels => owner = "stopping"
  /\ reading[Camera] # Nobody =>
       /\ toCall # <<>> /\ event = "NO_ALARM"
       /\ reading[Camera] = Called
       /\ work[Called] # "running"
  /\ late[Camera] # Nobody =>
       toCall # <<>> /\ event = "NO_ALARM" /\ reading[Camera] = Nobody
  /\ late[Loop] # Nobody => loop = "run" /\ ~worked /\ reading[Loop] = Nobody
  /\ \A c \in Channels \ alive : work[c] = "none"

NotificationInv == TypeOK /\ DOMAIN toTell = Channels /\ CallsInv

\* The constants' names for the threads and the tasks.
LEMMA Names ==
  /\ Channels \subseteq Task /\ {FirstDay, EveryDay} \subseteq Task
  /\ {FirstDay, EveryDay} \cap Channels = {}
  /\ Camera \in Client /\ Starter \in Client /\ Camera # Loop
  /\ {Camera, Starter, Loop} \subseteq Threads
  /\ {Recheck, Tomorrow, Day} \subseteq 0 .. Longest
  /\ Observers \in Seq(Channels) /\ MinDelay \in Nat /\ Nobody \notin Channels
  /\ \A c \in Channels : Period[c] = 0
BY NotificationAssumption, SchedulerAssumption DEF Threads

-----------------------------------------------------------------------------
\* Nobody uses the scheduler but as it may be used: whatever the controllers,
\* the recording and the owner do is a step of it or does not touch it.
LEMMA UsesScheduler ==
  NotificationInv /\ [Next]_vars => [SchedulerNext]_schedulerVars
<1> SUFFICES ASSUME NotificationInv, [Next]_vars
             PROVE  SchedulerNext \/ UNCHANGED schedulerVars
  OBVIOUS
<1> USE Names DEF NotificationInv, CallsInv
<1>1. ASSUME Build
      PROVE  SchedulerNext
  BY <1>1 DEF Build, SchedulerNext
<1>2. ASSUME CameraReschedules
      PROVE  SchedulerNext
  <2>1. late[Camera] \in Channels /\ ~done
    BY <1>2 DEF CameraReschedules, ScheduleRecheck, TypeOK
  <2>. QED
    BY <1>2, <2>1 DEF CameraReschedules, ScheduleRecheck, SchedulerNext
<1>3. ASSUME TaskReschedules
      PROVE  SchedulerNext
  <2>1. late[Loop] \in Channels /\ loop = "run"
    BY <1>3 DEF TaskReschedules, ScheduleRecheck, TypeOK
  <2>. QED
    BY <1>3, <2>1 DEF TaskReschedules, ScheduleRecheck, SchedulerNext
<1>4. ASSUME TaskMaintains
      PROVE  SchedulerNext \/ UNCHANGED schedulerVars
  BY <1>4 DEF TaskMaintains, Running, SchedulerNext
<1>5. ASSUME TaskEnds \/ DestroyScheduler \/ (\E t \in Threads : Wakes(t)) \/ WakesByItself
             \/ LoopRuns \/ TimePasses
      PROVE  SchedulerNext
  BY <1>5 DEF TaskEnds, DestroyScheduler, Wakes, WakesByItself, LoopRuns, TimePasses,
              SchedulerNext
<1>6. ASSUME \/ \E s \in {"ALARM", "NO_ALARM"} : Change(s)
             \/ NotifyContacts \/ CameraLooks \/ CameraGets \/ TaskGets \/ TaskCrashes
             \/ StopMonitor
             \/ \E c \in Channels : TaskLooks(c) \/ Send(c) \/ DestroyController(c)
      PROVE  UNCHANGED schedulerVars
  BY <1>6 DEF Change, NotifyContacts, CameraLooks, CameraGets, TaskLooks, TaskGets, Get,
              TaskCrashes, StopMonitor, Send, TellOne, TellAll, Tell, DestroyController
<1>7. CASE UNCHANGED vars
  BY <1>7 DEF vars
<1>. QED
  BY <1>1, <1>2, <1>3, <1>4, <1>5, <1>6, <1>7
     DEF Next, CameraStep, TaskStep, OwnerStep

\* The types of the scheduler's variables follow.
LEMMA SchedulerPart ==
  SchedulerInv /\ NotificationInv /\ [Next]_vars => SchedulerInv'
BY UsesScheduler, SchedulerStep

-----------------------------------------------------------------------------
\* What the steps make of the notifications themselves.
LEMMA CallsStep ==
  ASSUME SchedulerInv, NotificationInv, [Next]_vars
  PROVE  NotificationInv'
<1> USE Names DEF NotificationInv, CallsInv, TypeOK
<1>0. SchedulerTypeOK'
  BY SchedulerPart DEF SchedulerInv
<1>1. CASE Build
  BY <1>0, <1>1 DEF Build, ScheduleAfter, futureVars, cameraVars, lookVars, Called
<1>2. ASSUME NEW s \in {"ALARM", "NO_ALARM"}, Change(s)
      PROVE  NotificationInv'
  BY <1>0, <1>2 DEF Change, schedulerVars, futureVars, lookVars, lifeVars, Called
<1>3. CASE NotifyContacts
  <2>1. Called \in Channels /\ Tail(toCall) \in Seq(Channels) /\ toCall # <<>>
    BY <1>3 DEF NotifyContacts, CameraIsIn, Called
  <2>2. reading[Camera] = Nobody /\ late[Camera] = Nobody /\ Channels \ alive = {}
    BY <1>3 DEF NotifyContacts, CameraIsIn
  <2>3. /\ work' \in [Channels -> {"none", "running", "ready"}]
        /\ \A c \in Channels : toTell'[c] \subseteq Contacts[c]
        /\ DOMAIN toTell' = Channels
        /\ sinceLast' \in [Channels -> 0 .. MinDelay]
        /\ calm' \in [Channels -> BOOLEAN]
    <3>1. CASE UNCHANGED futureVars
      BY <3>1 DEF futureVars
    <3>2. CASE ~UNCHANGED futureVars
      <4>1. /\ work' = [work EXCEPT ![Called] = "running"]
            /\ toTell' = [toTell EXCEPT ![Called] = Contacts[Called]]
            /\ sinceLast' = [sinceLast EXCEPT ![Called] = 0]
            /\ calm' = [calm EXCEPT ![Called] = FALSE]
        BY <1>3, <3>2 DEF NotifyContacts
      <4>2. 0 \in 0 .. MinDelay
        OBVIOUS
      <4>. QED
        BY <4>1, <4>2, <2>1
    <3>. QED
      BY <3>1, <3>2
  <2>. QED
    BY <1>0, <1>3, <2>1, <2>2, <2>3 DEF NotifyContacts, Return, schedulerVars, lookVars, lifeVars
<1>4. CASE CameraLooks
  <2>1. Called \in Channels /\ Tail(toCall) \in Seq(Channels) /\ toCall # <<>>
    BY <1>4 DEF CameraLooks, CameraIsIn, Called
  <2>2. /\ reading' \in [{Camera, Loop} -> Channels \cup {Nobody}]
        /\ late' \in [{Camera, Loop} -> Channels \cup {Nobody}]
        /\ reading'[Loop] = reading[Loop] /\ late'[Loop] = late[Loop]
    BY <1>4, <2>1 DEF CameraLooks, LookForResult
  <2>3. calm' \in [Channels -> BOOLEAN]
    BY <1>4, <2>1 DEF CameraLooks
  <2>4. reading'[Camera] # Nobody => toCall' = toCall /\ reading'[Camera] = Called
                                       /\ work[Called] # "running"
    BY <1>4, <2>1 DEF CameraLooks, LookForResult, Busy
  <2>5. late'[Camera] # Nobody => toCall' = toCall /\ reading'[Camera] = Nobody
    BY <1>4, <2>1 DEF CameraLooks, LookForResult, Busy
  <2>. QED
    BY <1>0, <1>4, <2>1, <2>2, <2>3, <2>4, <2>5
       DEF CameraLooks, CameraIsIn, Return, schedulerVars, lifeVars, Called
<1>5. CASE CameraGets
  <2>1. toCall # <<>> /\ Tail(toCall) \in Seq(Channels)
    BY <1>5 DEF CameraGets, Get
  <2>. QED
    BY <1>0, <1>5, <2>1 DEF CameraGets, Get, Return, schedulerVars, lifeVars
<1>6. CASE CameraReschedules
  <2>1. toCall # <<>> /\ Tail(toCall) \in Seq(Channels) /\ reading[Camera] = Nobody
    BY <1>6 DEF CameraReschedules, ScheduleRecheck
  <2>2. /\ late' \in [{Camera, Loop} -> Channels \cup {Nobody}]
        /\ late'[Camera] = Nobody /\ late'[Loop] = late[Loop]
    BY <1>6 DEF CameraReschedules, ScheduleRecheck
  <2>3. done' = done /\ loop' = loop
    BY <1>6 DEF CameraReschedules, ScheduleRecheck, ScheduleAfter
  <2>. QED
    BY <1>0, <1>6, <2>1, <2>2, <2>3
       DEF CameraReschedules, ScheduleRecheck, Return, futureVars, lifeVars
<1>7. ASSUME NEW c \in Channels, Send(c)
      PROVE  NotificationInv'
  <2>1. PICK contacts \in SUBSET toTell[c] : Tell(c, contacts)
    BY <1>7 DEF Send, TellOne, TellAll
  <2>2. /\ work' \in [Channels -> {"none", "running", "ready"}]
        /\ \A d \in Channels : work[d] # "running" => work'[d] = work[d]
    BY <2>1 DEF Tell
  <2>3. /\ \A d \in Channels : toTell'[d] \subseteq Contacts[d]
        /\ DOMAIN toTell' = Channels
    BY <2>1 DEF Tell
  <2>4. toCall # <<>> => Called \in Channels
    BY DEF Called
  <2>. QED
    BY <1>0, <2>1, <2>2, <2>3, <2>4
       DEF Tell, schedulerVars, cameraVars, lookVars, lifeVars, Called
<1>8. ASSUME NEW c \in Channels, TaskLooks(c)
      PROVE  NotificationInv'
  <2>1. /\ reading' \in [{Camera, Loop} -> Channels \cup {Nobody}]
        /\ late' \in [{Camera, Loop} -> Channels \cup {Nobody}]
        /\ reading'[Camera] = reading[Camera] /\ late'[Camera] = late[Camera]
    BY <1>8 DEF TaskLooks, LookForResult
  <2>2. late'[Loop] # Nobody => reading'[Loop] = Nobody /\ ~worked'
    BY <1>8, <2>1 DEF TaskLooks, Running, Busy, LookForResult
  <2>3. worked' \in BOOLEAN /\ loop = "run"
    BY <1>8 DEF TaskLooks, Running, Busy
  <2>. QED
    BY <1>0, <1>8, <2>1, <2>2, <2>3
       DEF TaskLooks, schedulerVars, futureVars, cameraVars, lifeVars, Called
<1>9. CASE TaskGets
  <2>1. /\ reading' \in [{Camera, Loop} -> Channels \cup {Nobody}]
        /\ reading'[Camera] = reading[Camera] /\ late' = late /\ late[Loop] = Nobody
    BY <1>9 DEF TaskGets, Get
  <2>2. /\ work' \in [Channels -> {"none", "running", "ready"}]
        /\ \A d \in Channels : work[d] # "running" => work'[d] # "running"
        /\ \A d \in Channels : work[d] = "none" => work'[d] = "none"
    BY <1>9 DEF TaskGets, Get
  <2>3. toCall # <<>> => Called \in Channels
    BY DEF Called
  <2>. QED
    BY <1>0, <1>9, <2>1, <2>2, <2>3 DEF TaskGets, Get, schedulerVars, lifeVars, Called
<1>10. CASE TaskReschedules
  <2>1. /\ late' \in [{Camera, Loop} -> Channels \cup {Nobody}]
        /\ late'[Loop] = Nobody /\ late'[Camera] = late[Camera]
    BY <1>10 DEF TaskReschedules, ScheduleRecheck
  <2>2. done' = done
    BY <1>10 DEF TaskReschedules, ScheduleRecheck, ScheduleAfter
  <2>. QED
    BY <1>0, <1>10, <2>1, <2>2
       DEF TaskReschedules, ScheduleRecheck, futureVars, lifeVars, Called
<1>11. CASE TaskCrashes
  BY <1>0, <1>11
     DEF TaskCrashes, schedulerVars, futureVars, cameraVars, lookVars, lifeVars, Called
<1>12. CASE TaskMaintains
  <2>1. done' = done /\ late[Loop] = Nobody
    BY <1>12 DEF TaskMaintains, ScheduleAfter, schedulerVars, Running, Busy
  <2>. QED
    BY <1>0, <1>12, <2>1 DEF TaskMaintains, futureVars, cameraVars, lookVars, lifeVars, Called
<1>13. CASE TaskEnds
  BY <1>0, <1>13 DEF TaskEnds, Finish, futureVars, cameraVars, lookVars, lifeVars, Called
<1>14. CASE StopMonitor
  BY <1>0, <1>14 DEF StopMonitor, schedulerVars, futureVars, cameraVars, lookVars, Called
<1>15. ASSUME NEW c \in Channels, DestroyController(c)
       PROVE  NotificationInv'
  <2>1. toCall = <<>> /\ reading[Camera] = Nobody /\ late[Camera] = Nobody
    BY <1>15 DEF DestroyController
  <2>2. /\ work' \in [Channels -> {"none", "running", "ready"}]
        /\ \A d \in Channels \ alive' : work'[d] = "none"
    BY <1>15 DEF DestroyController
  <2>. QED
    BY <1>0, <1>15, <2>1, <2>2 DEF DestroyController, schedulerVars, cameraVars, lookVars
<1>16. CASE DestroyScheduler
  <2>1. toCall = <<>> /\ reading[Camera] = Nobody /\ late[Camera] = Nobody
    BY <1>16 DEF DestroyScheduler
  <2>2. loop' = loop
    BY <1>16 DEF DestroyScheduler, RaiseDone, Join
  <2>. QED
    BY <1>0, <1>16, <2>1, <2>2 DEF DestroyScheduler, futureVars, cameraVars, lookVars, lifeVars
<1>17. CASE (\E t \in Threads : Wakes(t)) \/ WakesByItself \/ LoopRuns
  <2>1. UNCHANGED <<futureVars, cameraVars, lookVars, worked, lifeVars, crashed>>
    BY <1>17 DEF Wakes, WakesByItself, LoopRuns, OthersWait
  <2>2. done' = done /\ (loop = "run" => loop' = "run")
    BY <1>17 DEF Wakes, WakesByItself, LoopRuns, NotifyOne, SpuriousWakeup, TimeOut, LoopStep,
                 Leave, WaitForTask, WaitForTime, Take, Begin, WakeLoop
  <2>. QED
    BY <1>0, <2>1, <2>2 DEF futureVars, cameraVars, lookVars, lifeVars, Called
<1>18. CASE TimePasses
  <2>1. sinceLast' \in [Channels -> 0 .. MinDelay]
    BY <1>18 DEF TimePasses
  <2>. QED
    BY <1>0, <1>18, <2>1 DEF TimePasses, Tick, cameraVars, lookVars, lifeVars, Called
<1>19. CASE UNCHANGED vars
  BY <1>0, <1>19 DEF vars, schedulerVars, futureVars, cameraVars, lookVars, lifeVars, Called
<1>. QED
  BY <1>1, <1>2, <1>3, <1>4, <1>5, <1>6, <1>7, <1>8, <1>9, <1>10, <1>11, <1>12, <1>13,
     <1>14, <1>15, <1>16, <1>17, <1>18, <1>19
     DEF Next, CameraStep, TaskStep, OwnerStep

-----------------------------------------------------------------------------
\* The variables keep their types, and the camera thread is in a controller
\* only while the MonitorController lives and the result that it is about to
\* get is there (Whatsapp- and MailNotificationController.cpp).
THEOREM NotificationCorrect == Spec => [](SchedulerInv /\ NotificationInv)
<1>1. Init => SchedulerInv /\ NotificationInv
  <2> SUFFICES ASSUME Init PROVE SchedulerInv /\ NotificationInv
    OBVIOUS
  <2>1. SchedulerInv
    BY SchedulerInitial DEF Init
  <2>2. NotificationInv
    <3>1. SchedulerTypeOK /\ ~done
      BY <2>1 DEF Init, SchedulerInv, SchedulerInit
    <3>2. /\ \A c \in Channels : toTell[c] = {}
          /\ DOMAIN toTell = Channels
          /\ sinceLast \in [Channels -> 0 .. MinDelay]
          /\ toCall \in Seq(Channels)
      BY Names DEF Init
    <3>3. TypeOK
      BY <3>1, <3>2 DEF Init, TypeOK
    <3>4. CallsInv
      BY <3>1 DEF Init, CallsInv
    <3>. QED
      BY <3>2, <3>3, <3>4 DEF NotificationInv
  <2>. QED
    BY <2>1, <2>2
<1>2. SchedulerInv /\ NotificationInv /\ [Next]_vars => (SchedulerInv /\ NotificationInv)'
  BY SchedulerPart, CallsStep
<1>. QED
  BY <1>1, <1>2, PTL DEF Spec

\* What is proved of the scheduler with any clients holds with these.
THEOREM NotificationsUseScheduler == Spec => SchedulerSpec
<1>1. Init => SchedulerInit
  BY DEF Init
<1>. QED
  BY <1>1, UsesScheduler, NotificationCorrect, PTL DEF Spec, SchedulerSpec

\* The scheduler's thread does not sleep through a recheck or the maintenance,
\* nor take from an empty queue (schedulerLoop).
THEOREM RechecksAreNotSleptThrough == Spec => [](NoOversleep /\ TopIsThere)
BY NotificationsUseScheduler, NeverOversleeps, TopSafe, PTL

\* But for fairness, the scheduler with its waits and wake-ups is the abstract
\* one to the controllers (ImplementsScheduler; TaskScheduler.hpp).
THEOREM ControllersSeeScheduler ==
  Spec => Abstract!Init /\ [][Abstract!Next]_(Abstract!schedulerVars)
BY NotificationsUseScheduler, SchedulerRefined, PTL

\* The camera thread never blocks in get() (processNotificationResults).
THEOREM CameraIsNeverHeldUp == Spec => []CameraNeverWaits
<1>1. NotificationInv => CameraNeverWaits
  BY DEF NotificationInv, CallsInv, CameraNeverWaits
<1>. QED
  BY <1>1, NotificationCorrect, PTL

-----------------------------------------------------------------------------
\* Somebody schedules a task.
LEMMA ScheduledCount ==
  ASSUME SchedulerInv, NEW c, NEW w \in Task, NEW d \in 0 .. Longest,
         queue' \in WithTask(queue, w, d)
  PROVE  Cardinality(Places(c, queue'))
           <= Cardinality(Places(c, queue)) + (IF c = w THEN 1 ELSE 0)
BY InsertedCount DEF SchedulerInv, SchedulerTypeOK

\* The scheduler itself schedules no controller.
LEMMA LoopCount ==
  ASSUME SchedulerInv, NEW c \in Channels,
         LoopStep \/ TimeOut \/ Tick \/ Finish \/ Join \/ RaiseDone \/ SpuriousWakeup
           \/ (\E t \in Threads : NotifyOne(t))
  PROVE  Cardinality(Places(c, queue')) <= Cardinality(Places(c, queue))
<1>1. /\ queue \in Seq(Entry)
      /\ Cardinality(Places(c, queue)) \in Nat
  BY PlacesFinite DEF SchedulerInv, SchedulerTypeOK
<1>2. CASE Take
  BY <1>1, <1>2, TakenCount DEF Take
<1>3. CASE Begin
  <2>1. current \in Task
    BY <1>3 DEF Begin, SchedulerInv, SchedulerTypeOK
  <2>2. CASE Period[current] = 0
    BY <1>1, <1>3, <2>2 DEF Begin
  <2>3. CASE Period[current] # 0
    <3>1. current # c /\ Period[current] \in 0 .. Longest
      BY <2>1, <2>3, Names, SchedulerAssumption
    <3>2. queue' \in WithTask(queue, current, Period[current])
      BY <1>3, <2>3 DEF Begin
    <3>3. Cardinality(Places(c, queue'))
            <= Cardinality(Places(c, queue)) + (IF c = current THEN 1 ELSE 0)
      BY <2>1, <3>1, <3>2, ScheduledCount
    <3>. QED
      BY <1>1, <3>1, <3>3
  <2>. QED
    BY <2>2, <2>3
<1>4. CASE Tick
  <2>1. DOMAIN queue' = DOMAIN queue
    BY <1>4 DEF Tick
  <2>2. \A i \in DOMAIN queue : queue'[i].task = queue[i].task
    <3>. TAKE i \in DOMAIN queue
    <3>1. queue[i] \in Entry
      BY <1>1
    <3>. QED
      BY <1>4, <3>1 DEF Tick, Entry
  <2>3. Places(c, queue') = Places(c, queue)
    BY <2>1, <2>2 DEF Places
  <2>. QED
    BY <1>1, <2>3
<1>5. CASE \/ Leave \/ WaitForTask \/ WaitForTime \/ TimeOut \/ Finish \/ Join \/ RaiseDone
           \/ SpuriousWakeup \/ (\E t \in Threads : NotifyOne(t))
  <2>1. queue' = queue
    BY <1>5 DEF Leave, WaitForTask, WaitForTime, TimeOut, Finish, Join, RaiseDone,
                SpuriousWakeup, NotifyOne
  <2>. QED
    BY <1>1, <2>1
<1>. QED
  BY <1>2, <1>3, <1>4, <1>5 DEF LoopStep

\* The threads about to schedule a look at c, by what late says.
Lookers(c, l) == {t \in DOMAIN l : l[t] = c}

LEMMA LookersFinite ==
  ASSUME NEW c, NEW l \in [{Camera, Loop} -> Channels \cup {Nobody}]
  PROVE  IsFiniteSet(Lookers(c, l)) /\ Cardinality(Lookers(c, l)) \in Nat
<1>1. IsFiniteSet({Camera}) /\ {Camera, Loop} = {Camera} \cup {Loop}
  BY FS_Singleton
<1>2. IsFiniteSet({Camera} \cup {Loop})
  BY <1>1, FS_AddElement, Zenon
<1>3. Lookers(c, l) \in SUBSET {Camera, Loop}
  BY DEF Lookers
<1>4. IsFiniteSet(Lookers(c, l))
  BY <1>1, <1>2, <1>3, FS_Subset, Zenon
<1>. QED
  BY <1>4, FS_CardinalityType

LEMMA RechecksStep ==
  ASSUME SchedulerInv, NotificationInv, [Next]_vars, NEW c \in Channels \ alive
  PROVE  Rechecks(c)' <= Rechecks(c)
<1>. USE Names
<1>. DEFINE places == Cardinality(Places(c, queue))
            placesNext == Cardinality(Places(c, queue'))
            lookers == Cardinality(Lookers(c, late))
            lookersNext == Cardinality(Lookers(c, late'))
<1>1. owner = "stopping" /\ toCall = <<>> /\ work[c] = "none" /\ c # Nobody
  BY DEF NotificationInv, CallsInv
<1>2. Rechecks(c) = places + lookers /\ Rechecks(c)' = placesNext + lookersNext
  BY DEF Rechecks, Places, Lookers
<1>3. /\ late \in [{Camera, Loop} -> Channels \cup {Nobody}]
      /\ late' \in [{Camera, Loop} -> Channels \cup {Nobody}]
  BY CallsStep DEF NotificationInv, TypeOK
<1>4. places \in Nat /\ placesNext \in Nat /\ lookers \in Nat /\ lookersNext \in Nat
  <2>1. queue \in Seq(Entry) /\ queue' \in Seq(Entry)
    BY SchedulerPart DEF SchedulerInv, SchedulerTypeOK
  <2>. QED
    BY <1>3, <2>1, PlacesFinite, LookersFinite
<1>. HIDE DEF places, placesNext, lookers, lookersNext
<1>5. ASSUME NEW b \in Channels, TaskLooks(b)
      PROVE  placesNext = places /\ lookersNext <= lookers
  <2>1. queue' = queue
    BY <1>5 DEF TaskLooks, schedulerVars
  <2>2. late' = late \/ (b # c /\ late' = [late EXCEPT ![Loop] = b])
    <3>1. late' = IF work[b] = "running" THEN [late EXCEPT ![Loop] = b] ELSE late
      BY <1>5 DEF TaskLooks, LookForResult
    <3>2. b = c => work[b] # "running"
      BY <1>1
    <3>. QED
      BY <3>1, <3>2
  <2>3. Lookers(c, late') \in SUBSET Lookers(c, late)
    BY <1>3, <2>2 DEF Lookers
  <2>4. lookersNext <= lookers
    BY <1>3, <2>3, LookersFinite, FS_Subset DEF lookers, lookersNext
  <2>. QED
    BY <2>1, <2>4 DEF places, placesNext
<1>6. ASSUME TaskReschedules
      PROVE  placesNext + lookersNext <= places + lookers
  <2>1. /\ late[Loop] \in Channels /\ Recheck \in 0 .. Longest
        /\ queue' \in WithTask(queue, late[Loop], Recheck)
        /\ late' = [late EXCEPT ![Loop] = Nobody]
    BY <1>3, <1>6 DEF TaskReschedules, ScheduleRecheck, ScheduleAfter
  <2>2. placesNext <= places + (IF c = late[Loop] THEN 1 ELSE 0)
    BY <2>1, ScheduledCount DEF places, placesNext
  <2>3. Lookers(c, late') = Lookers(c, late) \ {Loop}
    BY <1>1, <1>3, <2>1 DEF Lookers
  <2>4. Loop \in Lookers(c, late) <=> c = late[Loop]
    BY <1>3 DEF Lookers
  <2>5. IsFiniteSet(Lookers(c, late))
    BY <1>3, LookersFinite
  <2>6. Cardinality(Lookers(c, late) \ {Loop})
          = IF Loop \in Lookers(c, late) THEN Cardinality(Lookers(c, late)) - 1
                                         ELSE Cardinality(Lookers(c, late))
    BY <2>5, FS_RemoveElement
  <2>7. lookersNext = IF c = late[Loop] THEN lookers - 1 ELSE lookers
    BY <2>3, <2>4, <2>6 DEF lookers, lookersNext
  <2>. QED
    BY <1>4, <2>2, <2>7
<1>7. ASSUME TaskMaintains
      PROVE  placesNext <= places /\ lookersNext = lookers
  <2>1. late' = late
    BY <1>7 DEF TaskMaintains, lookVars
  <2>2. CASE ScheduleAfter(Loop, Day, EveryDay)
    <3>1. /\ EveryDay \in Task /\ c # EveryDay /\ Day \in 0 .. Longest
          /\ queue' \in WithTask(queue, EveryDay, Day)
      BY <2>2 DEF ScheduleAfter
    <3>2. placesNext <= places + (IF c = EveryDay THEN 1 ELSE 0)
      BY <3>1, ScheduledCount DEF places, placesNext
    <3>. QED
      BY <1>4, <2>1, <3>1, <3>2 DEF lookers, lookersNext
  <2>3. CASE UNCHANGED schedulerVars
    BY <1>4, <2>1, <2>3 DEF schedulerVars, places, placesNext, lookers, lookersNext
  <2>. QED
    BY <1>7, <2>2, <2>3 DEF TaskMaintains
<1>8. ASSUME TaskEnds \/ DestroyScheduler \/ (\E t \in Threads : Wakes(t)) \/ WakesByItself
             \/ LoopRuns \/ TimePasses
      PROVE  placesNext <= places /\ lookersNext = lookers
  <2>1. late' = late
    BY <1>8 DEF TaskEnds, DestroyScheduler, Wakes, WakesByItself, LoopRuns, TimePasses,
                OthersWait, lookVars
  <2>2. LoopStep \/ TimeOut \/ Tick \/ Finish \/ Join \/ RaiseDone \/ SpuriousWakeup
          \/ (\E t \in Threads : NotifyOne(t))
    BY <1>8 DEF TaskEnds, DestroyScheduler, Wakes, WakesByItself, LoopRuns, TimePasses
  <2>3. placesNext <= places
    BY <2>2, LoopCount DEF places, placesNext
  <2>. QED
    BY <2>1, <2>3 DEF lookers, lookersNext
<1>9. ASSUME \/ NotifyContacts \/ CameraGets \/ TaskGets \/ TaskCrashes \/ StopMonitor
             \/ \E b \in Channels : Send(b) \/ DestroyController(b)
             \/ UNCHANGED vars
      PROVE  placesNext = places /\ lookersNext = lookers
  <2>1. queue' = queue /\ late' = late
    BY <1>9 DEF NotifyContacts, CameraGets, TaskGets, Get, TaskCrashes, StopMonitor, Send,
                TellOne, TellAll, Tell, DestroyController, vars, schedulerVars, lookVars
  <2>. QED
    BY <2>1 DEF places, placesNext, lookers, lookersNext
<1>10. /\ ~Build /\ ~CameraLooks /\ ~CameraReschedules
       /\ \A s \in {"ALARM", "NO_ALARM"} : ~Change(s)
  <2>1. late[Camera] = Nobody
    BY <1>1 DEF NotificationInv, CallsInv
  <2>. QED
    BY <1>1, <2>1 DEF Build, CameraLooks, CameraIsIn, CameraReschedules, ScheduleRecheck, Change
<1>11. placesNext + lookersNext <= places + lookers
  BY <1>4, <1>5, <1>6, <1>7, <1>8, <1>9, <1>10 DEF Next, CameraStep, TaskStep, OwnerStep
<1>. QED
  BY <1>2, <1>11

\* A look that finds its controller destroyed schedules no other: what is left
\* of its rechecks runs out (~MailNotificationController,
\* processNotificationResults).
THEOREM DeadControllersStayQuiet == Spec => RechecksRunOut
<1>1. SchedulerInv /\ NotificationInv /\ [Next]_vars =>
        [\A c \in Channels \ alive : Rechecks(c)' <= Rechecks(c)]_vars
  BY RechecksStep
<1>. QED
  BY <1>1, NotificationCorrect, PTL DEF Spec, RechecksRunOut
=============================================================================
