----------------------------- MODULE SpScQueue -----------------------------
(***************************************************************************)
(* concurrency/SpScQueue.hpp: a lock-free ring (folly's                    *)
(* ProducerConsumerQueue) between one producer thread and one worker       *)
(* thread that sleeps in a binary semaphore when there is nothing to do.   *)
(* The flag working_ tells the producer whether the worker must be woken.  *)
(*                                                                         *)
(* One action per access to a shared atomic; the atomics are sequentially  *)
(* consistent (see the README for what that rests on).                     *)
(***************************************************************************)
EXTENDS Integers, Sequences

CONSTANTS Items,    \* values given to enqueue
          NoItem,   \* content of a destroyed or never constructed record
          Size      \* size_ of the ring: Size - 1 values fit

ASSUME SizeAssumption == Size \in Nat /\ Size >= 2
ASSUME NoItemAssumption == NoItem \notin Items

VARIABLES
  records,      \* the ring's slots
  writeIndex, readIndex,
  working,      \* std::atomic_flag working_
  done,         \* std::atomic<bool> done_
  semaphore,    \* count_ of the binsem: 0 or 1
  pcProducer,   \* where the producer is inside enqueue
  item,         \* the value enqueue was called with
  pcWorker,     \* where the worker is inside work
  drain,        \* which of the two inner loops of work it is in
  value,        \* work's local variable
  pcDestroy     \* where the owner is inside the destructor

ring == <<records, writeIndex, readIndex>>
producer == <<pcProducer, item>>
worker == <<pcWorker, drain, value>>
vars == <<ring, working, done, semaphore, producer, worker, pcDestroy>>

Slots == 0 .. Size - 1
Advance(i) == IF i + 1 = Size THEN 0 ELSE i + 1

(* Mutated forms of the definitions below are named ..._Bug: the run on     *)
(* this module shows each property failing with one of them.               *)
TypeOK ==
  /\ records \in [Slots -> Items \cup {NoItem}]
  /\ writeIndex \in Slots
  /\ readIndex \in Slots
  /\ working \in BOOLEAN
  /\ done \in BOOLEAN
  /\ semaphore \in {0, 1}
  /\ pcProducer \in {"idle", "load", "store", "publish", "flag", "signal"}
  /\ item \in Items \cup {NoItem}
  /\ pcWorker \in {"loop", "wait", "check", "read", "move", "release",
                   "work", "clear", "exit"}
  /\ drain \in {1, 2}
  /\ value \in Items \cup {NoItem}
  /\ pcDestroy \in {"alive", "signal", "join", "gone"}

Init ==
  /\ records = [i \in Slots |-> NoItem]
  /\ writeIndex = 0
  /\ readIndex = 0
  /\ working = FALSE
  /\ done = FALSE
  /\ semaphore = 0
  /\ pcProducer = "idle"
  /\ item = NoItem
  /\ pcWorker = "loop"
  /\ drain = 1
  /\ value = NoItem
  /\ pcDestroy = "alive"

(* binsem: both operations hold m_ throughout, and the waiter tests count_ *)
(* under m_, so each is one step.                                          *)
Signal == semaphore' = 1
Acquire == semaphore = 1 /\ semaphore' = 0

-----------------------------------------------------------------------------
(* enqueue, on the producer's thread                                       *)

(* A client calls enqueue, which nobody may do once destruction started.   *)
Enqueue ==
  /\ pcDestroy = "alive"
  /\ pcProducer = "idle"
  /\ item' \in Items
  /\ pcProducer' = "load"
  /\ UNCHANGED <<ring, working, done, semaphore, worker, pcDestroy>>

LoadIndices_Bug ==   \* the ring is never found full
  /\ pcProducer = "load"
  /\ pcProducer' = "store"
  /\ UNCHANGED <<ring, item, working, done, semaphore, worker, pcDestroy>>

(* write: the ring is full when the next index is the reader's.            *)
LoadIndices ==
  /\ pcProducer = "load"
  /\ pcProducer' = IF Advance(writeIndex) # readIndex THEN "store" ELSE "flag"
  /\ UNCHANGED <<ring, item, working, done, semaphore, worker, pcDestroy>>

StoreRecord ==
  /\ pcProducer = "store"
  /\ records' = [records EXCEPT ![writeIndex] = item]
  /\ pcProducer' = "publish"
  /\ UNCHANGED <<writeIndex, readIndex, item, working, done, semaphore,
                 worker, pcDestroy>>

PublishWrite ==
  /\ pcProducer = "publish"
  /\ writeIndex' = Advance(writeIndex)
  /\ pcProducer' = "flag"
  /\ UNCHANGED <<records, readIndex, item, working, done, semaphore,
                 worker, pcDestroy>>

TestAndSet_Bug ==   \* if (working_.test_and_set()): the negation is missing
  /\ pcProducer = "flag"
  /\ working' = TRUE
  /\ pcProducer' = IF working THEN "signal" ELSE "idle"
  /\ UNCHANGED <<ring, item, done, semaphore, worker, pcDestroy>>

(* working_.test_and_set(), taken whether or not the value was accepted.   *)
TestAndSet ==
  /\ pcProducer = "flag"
  /\ working' = TRUE
  /\ pcProducer' = IF working THEN "idle" ELSE "signal"
  /\ UNCHANGED <<ring, item, done, semaphore, worker, pcDestroy>>

WakeWorker ==
  /\ pcProducer = "signal"
  /\ Signal
  /\ pcProducer' = "idle"
  /\ UNCHANGED <<ring, item, working, done, worker, pcDestroy>>

Producing == LoadIndices \/ StoreRecord \/ PublishWrite \/ TestAndSet \/ WakeWorker

-----------------------------------------------------------------------------
(* work, on the worker's thread                                            *)

OuterLoop ==
  /\ pcWorker = "loop"
  /\ pcWorker' = IF done THEN "exit" ELSE "wait"
  /\ UNCHANGED <<ring, producer, working, done, semaphore, drain, value, pcDestroy>>

WaitSemaphore ==
  /\ pcWorker = "wait"
  /\ Acquire
  /\ pcWorker' = "check"
  /\ drain' = 1
  /\ UNCHANGED <<ring, producer, working, done, value, pcDestroy>>

LeaveDrain == pcWorker' = IF drain = 1 THEN "clear" ELSE "loop"

CheckDone_Bug ==   \* while (queueRead(value)) without the test of done_
  /\ pcWorker = "check"
  /\ pcWorker' = "read"
  /\ UNCHANGED <<ring, producer, working, done, semaphore, drain, value, pcDestroy>>

(* !done_ && ...                                                           *)
CheckDone ==
  /\ pcWorker = "check"
  /\ \/ ~done /\ pcWorker' = "read"
     \/ done /\ LeaveDrain
  /\ UNCHANGED <<ring, producer, working, done, semaphore, drain, value, pcDestroy>>

(* ... queueRead(value): nothing to read when the indices are equal.       *)
ReadIndices ==
  /\ pcWorker = "read"
  /\ \/ readIndex # writeIndex /\ pcWorker' = "move"
     \/ readIndex = writeIndex /\ LeaveDrain
  /\ UNCHANGED <<ring, producer, working, done, semaphore, drain, value, pcDestroy>>

MoveRecord ==
  /\ pcWorker = "move"
  /\ value' = records[readIndex]
  /\ records' = [records EXCEPT ![readIndex] = NoItem]
  /\ pcWorker' = "release"
  /\ UNCHANGED <<writeIndex, readIndex, producer, working, done, semaphore,
                 drain, pcDestroy>>

PublishRead ==
  /\ pcWorker = "release"
  /\ readIndex' = Advance(readIndex)
  /\ pcWorker' = "work"
  /\ UNCHANGED <<records, writeIndex, producer, working, done, semaphore,
                 drain, value, pcDestroy>>

(* workFunc_(value) returns.                                               *)
FinishWork ==
  /\ pcWorker = "work"
  /\ pcWorker' = "check"
  /\ UNCHANGED <<ring, producer, working, done, semaphore, drain, value, pcDestroy>>

ClearFlag_Bug ==   \* no second look at the ring after working_.clear()
  /\ pcWorker = "clear"
  /\ working' = FALSE
  /\ pcWorker' = "loop"
  /\ UNCHANGED <<ring, producer, done, semaphore, drain, value, pcDestroy>>

ClearFlag ==
  /\ pcWorker = "clear"
  /\ working' = FALSE
  /\ drain' = 2
  /\ pcWorker' = "check"
  /\ UNCHANGED <<ring, producer, done, semaphore, value, pcDestroy>>

Working ==
  \/ OuterLoop \/ WaitSemaphore \/ CheckDone \/ ReadIndices \/ MoveRecord
  \/ PublishRead \/ FinishWork \/ ClearFlag

-----------------------------------------------------------------------------
(* ~SpScQueue, on the owner's thread, when no enqueue is under way         *)

RaiseDone ==
  /\ pcDestroy = "alive"
  /\ pcProducer = "idle"
  /\ done' = TRUE
  /\ pcDestroy' = "signal"
  /\ UNCHANGED <<ring, producer, working, semaphore, worker>>

SignalWorker_Bug ==   \* done_ is raised but the worker is not woken
  /\ pcDestroy = "signal"
  /\ pcDestroy' = "join"
  /\ UNCHANGED <<ring, producer, working, done, semaphore, worker>>

SignalWorker ==
  /\ pcDestroy = "signal"
  /\ Signal
  /\ pcDestroy' = "join"
  /\ UNCHANGED <<ring, producer, working, done, worker>>

JoinWorker ==
  /\ pcDestroy = "join"
  /\ pcWorker = "exit"
  /\ pcDestroy' = "gone"
  /\ UNCHANGED <<ring, producer, working, done, semaphore, worker>>

(* The object is gone; stuttering here is not a deadlock.                  *)
Destroyed == pcDestroy = "gone" /\ UNCHANGED vars

Destroying == SignalWorker \/ JoinWorker

-----------------------------------------------------------------------------
Next == Enqueue \/ Producing \/ Working \/ RaiseDone \/ Destroying \/ Destroyed

(* Threads that can run do run, and workFunc_ returns.  Nobody is obliged  *)
(* to enqueue or to destroy the queue.                                     *)
Fairness == WF_vars(Producing) /\ WF_vars(Working) /\ WF_vars(Destroying)

Spec == Init /\ [][Next]_vars
FairSpec == Spec /\ Fairness

-----------------------------------------------------------------------------
(* The queue as a client sees it                                           *)

Distance(i, j) == IF i <= j THEN j - i ELSE j - i + Size
Nth(i, n) == IF i + n < Size THEN i + n ELSE i + n - Size

(* The first slot still to be taken: the one after readIndex while the     *)
(* worker has moved a record out but not yet released its slot.            *)
Front == IF pcWorker = "release" THEN Advance(readIndex) ELSE readIndex

Pending ==
  [n \in 1 .. Distance(Front, writeIndex) |-> records[Nth(Front, n - 1)]]

Phase ==
  IF ~done THEN "open"
  ELSE IF pcWorker \in {"read", "move"} THEN "closing" ELSE "closed"

Abstract == INSTANCE FifoQueue WITH
  Capacity <- Size - 1, queue <- Pending, taken <- value, phase <- Phase

-----------------------------------------------------------------------------
(* Correctness                                                             *)

(* Placement new never lands on a live record and the worker never moves   *)
(* from a dead one: producer and worker are never in the same slot.        *)
(* (ProducerConsumerQueue::write and read, run without a lock.)            *)
SlotDiscipline ==
  /\ pcProducer = "store" =>
       /\ records[writeIndex] = NoItem
       /\ ~(pcWorker \in {"move", "release"} /\ readIndex = writeIndex)
  /\ pcWorker = "move" => records[readIndex] # NoItem

(* The worker never sleeps over an accepted value that nobody is about to  *)
(* wake it for, although working_ and the ring are read and written        *)
(* separately by both threads (enqueue and work).                          *)
NoLostWakeup ==
  (pcWorker = "wait" /\ semaphore = 0 /\ readIndex # writeIndex /\ ~done) =>
    pcProducer \in {"flag", "signal"}

(* Seen from its clients the queue is a bounded first-in first-out queue.  *)
ImplementsFifo == Abstract!Fifo

(* Values that wait are worked on, again and again, unless the queue is    *)
(* destroyed: the wake-up protocol loses no signal.                        *)
AcceptedIsWorked == (readIndex # writeIndex) ~> (pcWorker = "work" \/ done)

(* The destructor's join returns: the worker cannot miss done_ and go back *)
(* to sleep (~SpScQueue).                                                  *)
JoinReturns == done ~> (pcDestroy = "gone")
=============================================================================
