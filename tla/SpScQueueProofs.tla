-------------------------- MODULE SpScQueueProofs --------------------------
(***************************************************************************)
(* Theorems about concurrency/SpScQueue.hpp, for every ring size and every *)
(* set of values.                                                          *)
(***************************************************************************)
EXTENDS SpScQueue, SequenceTheorems, TLAPS

(* A record is alive from its construction by write to its move by read.   *)
Live(i) ==
  \/ /\ Distance(readIndex, i) < Distance(readIndex, writeIndex)
     /\ ~(i = readIndex /\ pcWorker = "release")
  \/ i = writeIndex /\ pcProducer = "publish"

RingInv ==
  /\ \A i \in Slots : records[i] # NoItem <=> Live(i)
  /\ pcProducer \in {"store", "publish"} => Advance(writeIndex) # readIndex
  /\ pcProducer # "idle" => item \in Items
  /\ pcWorker \in {"move", "release"} => readIndex # writeIndex

DestroyInv ==
  /\ done <=> pcDestroy # "alive"
  /\ done => pcProducer = "idle"
  /\ pcWorker = "exit" => done

FirstDrain ==
  \/ pcWorker = "clear"
  \/ drain = 1 /\ pcWorker \in {"check", "read", "move", "release", "work"}

(* While the worker is in its first drain, working_ is set and no signal   *)
(* is pending or coming.  Otherwise working_ says that exactly one is.     *)
WakeInv ==
  ~done =>
    /\ FirstDrain => working /\ semaphore = 0 /\ pcProducer # "signal"
    /\ ~FirstDrain => (working <=> (semaphore = 1 \/ pcProducer = "signal"))
    /\ ~(semaphore = 1 /\ pcProducer = "signal")
    /\ (pcWorker \in {"loop", "wait"} /\ ~working /\ readIndex # writeIndex)
         => pcProducer = "flag"

IInv == TypeOK /\ RingInv /\ DestroyInv /\ WakeInv
-----------------------------------------------------------------------------
(* Arithmetic of the ring.                                                 *)

LEMMA AdvanceType == ASSUME NEW i \in Slots PROVE Advance(i) \in Slots
  BY SizeAssumption DEF Slots, Advance

LEMMA DistanceType ==
  ASSUME NEW i \in Slots, NEW j \in Slots
  PROVE  /\ Distance(i, j) \in Slots
         /\ Distance(i, j) = 0 <=> i = j
  BY SizeAssumption DEF Slots, Distance

-----------------------------------------------------------------------------
LEMMA TypeStep == TypeOK /\ [Next]_vars => TypeOK'
<1> SUFFICES ASSUME TypeOK, [Next]_vars PROVE TypeOK'
  OBVIOUS
<1> USE DEF TypeOK, ring, producer, worker, Signal, Acquire, LeaveDrain
<1>1. CASE Enqueue
  BY <1>1 DEF Enqueue
<1>2. CASE LoadIndices
  BY <1>2 DEF LoadIndices
<1>3. CASE StoreRecord
  BY <1>3 DEF StoreRecord
<1>4. CASE PublishWrite
  BY <1>4, AdvanceType DEF PublishWrite
<1>5. CASE TestAndSet
  BY <1>5 DEF TestAndSet
<1>6. CASE WakeWorker
  BY <1>6 DEF WakeWorker
<1>7. CASE OuterLoop
  BY <1>7 DEF OuterLoop
<1>8. CASE WaitSemaphore
  BY <1>8 DEF WaitSemaphore
<1>9. CASE CheckDone
  BY <1>9 DEF CheckDone
<1>10. CASE ReadIndices
  BY <1>10 DEF ReadIndices
<1>11. CASE MoveRecord
  BY <1>11 DEF MoveRecord
<1>12. CASE PublishRead
  BY <1>12, AdvanceType DEF PublishRead
<1>13. CASE FinishWork
  BY <1>13 DEF FinishWork
<1>14. CASE ClearFlag
  BY <1>14 DEF ClearFlag
<1>15. CASE RaiseDone
  BY <1>15 DEF RaiseDone
<1>16. CASE SignalWorker
  BY <1>16 DEF SignalWorker
<1>17. CASE JoinWorker
  BY <1>17 DEF JoinWorker
<1>18. CASE UNCHANGED vars
  BY <1>18 DEF vars
<1>. QED
  BY <1>1, <1>2, <1>3, <1>4, <1>5, <1>6, <1>7, <1>8, <1>9, <1>10, <1>11,
     <1>12, <1>13, <1>14, <1>15, <1>16, <1>17, <1>18
     DEF Next, Producing, Working, Destroying, Destroyed

LEMMA InitType == Init => TypeOK
<1>1. 0 \in Slots
  BY SizeAssumption DEF Slots
<1>. QED
  BY <1>1 DEF Init, TypeOK

(* Every variable keeps its type: indices stay inside the ring, count_ of  *)
(* the semaphore stays below its maximum of 1.                             *)
THEOREM TypeCorrect == Spec => []TypeOK
  BY InitType, TypeStep, PTL DEF Spec
-----------------------------------------------------------------------------
(* The strengthening is inductive.                                         *)

LEMMA DestroyStep == TypeOK /\ DestroyInv /\ [Next]_vars => DestroyInv'
  <1> SUFFICES ASSUME TypeOK, DestroyInv, [Next]_vars PROVE DestroyInv'
    OBVIOUS
  <1> USE DEF TypeOK, DestroyInv, ring, producer, worker, LeaveDrain
<1>1. CASE Enqueue
  BY <1>1 DEF Enqueue
<1>2. CASE LoadIndices
  BY <1>2 DEF LoadIndices
<1>3. CASE StoreRecord
  BY <1>3 DEF StoreRecord
<1>4. CASE PublishWrite
  BY <1>4 DEF PublishWrite
<1>5. CASE TestAndSet
  BY <1>5 DEF TestAndSet
<1>6. CASE WakeWorker
  BY <1>6 DEF WakeWorker
<1>7. CASE OuterLoop
  BY <1>7 DEF OuterLoop
<1>8. CASE WaitSemaphore
  BY <1>8 DEF WaitSemaphore
<1>9. CASE CheckDone
  BY <1>9 DEF CheckDone
<1>10. CASE ReadIndices
  BY <1>10 DEF ReadIndices
<1>11. CASE MoveRecord
  BY <1>11 DEF MoveRecord
<1>12. CASE PublishRead
  BY <1>12 DEF PublishRead
<1>13. CASE FinishWork
  BY <1>13 DEF FinishWork
<1>14. CASE ClearFlag
  BY <1>14 DEF ClearFlag
<1>15. CASE RaiseDone
  BY <1>15 DEF RaiseDone
<1>16. CASE SignalWorker
  BY <1>16 DEF SignalWorker
<1>17. CASE JoinWorker
  BY <1>17 DEF JoinWorker
<1>18. CASE UNCHANGED vars
  BY <1>18 DEF vars
<1>. QED
  BY <1>1, <1>2, <1>3, <1>4, <1>5, <1>6, <1>7, <1>8, <1>9, <1>10, <1>11,
     <1>12, <1>13, <1>14, <1>15, <1>16, <1>17, <1>18
     DEF Next, Producing, Working, Destroying, Destroyed

LEMMA WakeStep ==
  TypeOK /\ DestroyInv /\ WakeInv /\ [Next]_vars => WakeInv'
  <1> SUFFICES ASSUME TypeOK, DestroyInv, WakeInv, [Next]_vars PROVE WakeInv'
    OBVIOUS
  <1> USE
     DEF TypeOK, DestroyInv, WakeInv, FirstDrain, ring, producer, worker,
         LeaveDrain, Signal, Acquire
<1>1. CASE Enqueue
  BY <1>1 DEF Enqueue
<1>2. CASE LoadIndices
  BY <1>2 DEF LoadIndices
<1>3. CASE StoreRecord
  BY <1>3 DEF StoreRecord
<1>4. CASE PublishWrite
  BY <1>4 DEF PublishWrite
<1>5. CASE TestAndSet
  BY <1>5 DEF TestAndSet
<1>6. CASE WakeWorker
  BY <1>6 DEF WakeWorker
<1>7. CASE OuterLoop
  BY <1>7 DEF OuterLoop
<1>8. CASE WaitSemaphore
  BY <1>8 DEF WaitSemaphore
<1>9. CASE CheckDone
  BY <1>9 DEF CheckDone
<1>10. CASE ReadIndices
  BY <1>10 DEF ReadIndices
<1>11. CASE MoveRecord
  BY <1>11 DEF MoveRecord
<1>12. CASE PublishRead
  BY <1>12 DEF PublishRead
<1>13. CASE FinishWork
  BY <1>13 DEF FinishWork
<1>14. CASE ClearFlag
  BY <1>14 DEF ClearFlag
<1>15. CASE RaiseDone
  BY <1>15 DEF RaiseDone
<1>16. CASE SignalWorker
  BY <1>16 DEF SignalWorker
<1>17. CASE JoinWorker
  BY <1>17 DEF JoinWorker
<1>18. CASE UNCHANGED vars
  BY <1>18 DEF vars
<1>. QED
  BY <1>1, <1>2, <1>3, <1>4, <1>5, <1>6, <1>7, <1>8, <1>9, <1>10, <1>11,
     <1>12, <1>13, <1>14, <1>15, <1>16, <1>17, <1>18
     DEF Next, Producing, Working, Destroying, Destroyed

LEMMA RingStep ==
  TypeOK /\ DestroyInv /\ RingInv /\ [Next]_vars => RingInv'
  <1> SUFFICES ASSUME TypeOK, DestroyInv, RingInv, [Next]_vars PROVE RingInv'
    OBVIOUS
  <1> USE SizeAssumption, NoItemAssumption
     DEF TypeOK, DestroyInv, RingInv, Live, Distance, Slots, Advance, ring,
         producer, worker, LeaveDrain
<1>1. CASE Enqueue
  BY <1>1 DEF Enqueue
<1>2. CASE LoadIndices
  BY <1>2 DEF LoadIndices
<1>3. CASE StoreRecord
  BY <1>3 DEF StoreRecord
<1>4. CASE PublishWrite
  BY <1>4 DEF PublishWrite
<1>5. CASE TestAndSet
  BY <1>5 DEF TestAndSet
<1>6. CASE WakeWorker
  BY <1>6 DEF WakeWorker
<1>7. CASE OuterLoop
  BY <1>7 DEF OuterLoop
<1>8. CASE WaitSemaphore
  BY <1>8 DEF WaitSemaphore
<1>9. CASE CheckDone
  BY <1>9 DEF CheckDone
<1>10. CASE ReadIndices
  BY <1>10 DEF ReadIndices
<1>11. CASE MoveRecord
  BY <1>11 DEF MoveRecord
<1>12. CASE PublishRead
  BY <1>12 DEF PublishRead
<1>13. CASE FinishWork
  BY <1>13 DEF FinishWork
<1>14. CASE ClearFlag
  BY <1>14 DEF ClearFlag
<1>15. CASE RaiseDone
  BY <1>15 DEF RaiseDone
<1>16. CASE SignalWorker
  BY <1>16 DEF SignalWorker
<1>17. CASE JoinWorker
  BY <1>17 DEF JoinWorker
<1>18. CASE UNCHANGED vars
  BY <1>18 DEF vars
<1>. QED
  BY <1>1, <1>2, <1>3, <1>4, <1>5, <1>6, <1>7, <1>8, <1>9, <1>10, <1>11,
     <1>12, <1>13, <1>14, <1>15, <1>16, <1>17, <1>18
     DEF Next, Producing, Working, Destroying, Destroyed

(* The invariant the safety theorems follow from: which slots are alive,   *)
(* and what working_ says about the semaphore, at every step of the code.  *)
THEOREM InvariantCorrect == Spec => []IInv
<1>1. Init => IInv
  <2> SUFFICES ASSUME Init PROVE IInv
    OBVIOUS
  <2>1. RingInv
    BY SizeAssumption DEF Init, RingInv, Live, Distance, Slots
  <2>2. DestroyInv /\ WakeInv
    BY DEF Init, DestroyInv, WakeInv, FirstDrain
  <2>. QED
    BY InitType, <2>1, <2>2 DEF IInv
<1>2. IInv /\ [Next]_vars => IInv'
  BY TypeStep, RingStep, DestroyStep, WakeStep DEF IInv
<1>3. QED
  BY <1>1, <1>2, PTL DEF Spec

(* Producer and worker are never in the same slot of the ring: no record   *)
(* is overwritten before it was moved out, none is moved out twice.        *)
THEOREM SlotsSafe == Spec => []SlotDiscipline
<1>1. IInv => SlotDiscipline
  BY SizeAssumption, NoItemAssumption
     DEF IInv, TypeOK, RingInv, Live, Distance, Slots, Advance, SlotDiscipline
<1>2. QED
  BY <1>1, InvariantCorrect, PTL

(* No signal is lost: the worker does not sleep over an accepted value     *)
(* that nobody is about to wake it for.                                    *)
THEOREM WakeupSafe == Spec => []NoLostWakeup
<1>1. IInv => NoLostWakeup
  BY DEF IInv, TypeOK, WakeInv, FirstDrain, NoLostWakeup
<1>2. QED
  BY <1>1, InvariantCorrect, PTL

-----------------------------------------------------------------------------
(* Refinement: the ring, seen through Pending, is a sequence.              *)

PendingOK ==
  /\ Front \in Slots
  /\ Distance(Front, writeIndex) \in Nat
  /\ Pending \in Seq(Items)
  /\ Len(Pending) = Distance(Front, writeIndex)

LEMMA PendingSeq == IInv => PendingOK
<1> SUFFICES ASSUME IInv PROVE PendingOK
  OBVIOUS
<1>1. Front \in Slots
  BY AdvanceType DEF IInv, TypeOK, Front
<1>2. Distance(Front, writeIndex) \in Nat
  BY <1>1, DistanceType DEF IInv, TypeOK, Slots
<1>3. ASSUME NEW n \in 1 .. Distance(Front, writeIndex)
      PROVE  records[Nth(Front, n - 1)] \in Items
  BY <1>1, <1>2, <1>3, SizeAssumption, NoItemAssumption
     DEF IInv, TypeOK, RingInv, Live, Distance, Slots, Advance, Front, Nth
<1>4. QED
  BY <1>1, <1>2, <1>3 DEF Pending, PendingOK

LEMMA PendingSeqNext == IInv' => PendingOK'
  BY PendingSeq, PTL DEF PendingOK

(* A step that leaves the records alone, and neither index as seen through *)
(* Front, leaves the abstract queue alone.                                 *)
LEMMA PendingUnchanged ==
  ASSUME records' = records, writeIndex' = writeIndex, Front' = Front
  PROVE  Pending' = Pending
  BY DEF Pending, Distance, Nth

LEMMA PutMaps == IInv /\ IInv' /\ PublishWrite => Abstract!Put
<1> SUFFICES ASSUME IInv, IInv', PublishWrite PROVE Abstract!Put
  OBVIOUS
<1>1. /\ Front' = Front
      /\ records' = records
      /\ Front \in Slots /\ writeIndex \in Slots /\ readIndex \in Slots
      /\ Advance(writeIndex) # readIndex
      /\ pcWorker = "release" => readIndex # writeIndex
  BY PendingSeq
     DEF PendingOK, IInv, TypeOK, RingInv, PublishWrite, worker, Front
<1>2. Advance(writeIndex) # Front
  BY <1>1, SizeAssumption DEF Slots, Advance, Front
<1>3. /\ Distance(Front, writeIndex)' = Distance(Front, writeIndex) + 1
      /\ Distance(Front, writeIndex) < Size - 1
      /\ Nth(Front, Distance(Front, writeIndex)) = writeIndex
  BY <1>1, <1>2, SizeAssumption DEF Slots, Advance, Distance, Nth, PublishWrite
<1>4. records[writeIndex] \in Items
  BY <1>1, NoItemAssumption DEF IInv, TypeOK, RingInv, Live, PublishWrite
<1>5. Pending' = Append(Pending, records[writeIndex])
  <2>1. Pending' \in Seq(Items) /\ Len(Pending') = Len(Pending) + 1
    BY <1>3, PendingSeq, PendingSeqNext DEF PendingOK
  <2>2. Append(Pending, records[writeIndex]) \in Seq(Items)
    BY <1>4, PendingSeq DEF PendingOK
  <2>3. ASSUME NEW n \in 1 .. Len(Pending) + 1
        PROVE  Pending'[n] = Append(Pending, records[writeIndex])[n]
    <3>1. Pending'[n] = records[Nth(Front, n - 1)]
      BY <1>1, <1>3, <2>1, PendingSeq DEF PendingOK, Pending, Nth
    <3>2. CASE n = Len(Pending) + 1
      BY <1>3, <3>1, <3>2, PendingSeq DEF PendingOK
    <3>3. CASE n \in 1 .. Len(Pending)
      BY <3>1, <3>3, PendingSeq DEF PendingOK, Pending
    <3>. QED
      BY <3>2, <3>3, PendingSeq DEF PendingOK
  <2>. QED
    BY <2>1, <2>2, <2>3, PendingSeq, SeqEqual DEF PendingOK
<1>6. Phase = "open" /\ Phase' = "open" /\ value' = value
  BY DEF IInv, DestroyInv, PublishWrite, Phase, worker
<1>. QED
  BY <1>3, <1>4, <1>5, <1>6, PendingSeq DEF PendingOK, Abstract!Put

LEMMA TakeMaps == IInv /\ IInv' /\ MoveRecord => Abstract!Take
<1> SUFFICES ASSUME IInv, IInv', MoveRecord PROVE Abstract!Take
  OBVIOUS
<1>1. /\ Front = readIndex /\ Front' = Advance(readIndex)
      /\ writeIndex' = writeIndex
      /\ readIndex \in Slots /\ writeIndex \in Slots
      /\ readIndex # writeIndex
  BY DEF IInv, TypeOK, RingInv, MoveRecord, Front, worker
<1>2. /\ Distance(Front, writeIndex)' = Distance(Front, writeIndex) - 1
      /\ Distance(Front, writeIndex) > 0
  BY <1>1, SizeAssumption DEF Slots, Advance, Distance
<1>3. value' = Head(Pending) /\ Pending # << >>
  BY <1>1, <1>2, PendingSeq, SizeAssumption
     DEF PendingOK, Pending, Nth, MoveRecord, Slots
<1>4. Pending' = Tail(Pending)
  <2>1. Pending' \in Seq(Items) /\ Len(Pending') = Len(Pending) - 1
    BY <1>2, PendingSeq, PendingSeqNext DEF PendingOK
  <2>2. Tail(Pending) \in Seq(Items) /\ Len(Tail(Pending)) = Len(Pending) - 1
    BY <1>3, PendingSeq DEF PendingOK
  <2>3. ASSUME NEW n \in 1 .. Len(Pending) - 1
        PROVE  Pending'[n] = Tail(Pending)[n]
    <3>1. Pending'[n] = records'[Nth(Advance(readIndex), n - 1)]
      BY <1>1, <1>2, <2>1, PendingSeq, PendingSeqNext
         DEF PendingOK, Pending, Nth
    <3>2. Tail(Pending)[n] = records[Nth(readIndex, n)]
      BY <1>1, <1>3, <2>2, PendingSeq DEF PendingOK, Pending
    <3>3. /\ Nth(Advance(readIndex), n - 1) = Nth(readIndex, n)
          /\ Nth(readIndex, n) \in Slots /\ Nth(readIndex, n) # readIndex
      BY <1>1, <1>2, <2>1, PendingSeq, SizeAssumption
         DEF PendingOK, Nth, Advance, Slots, Distance
    <3>. QED
      BY <3>1, <3>2, <3>3 DEF MoveRecord, IInv, TypeOK
  <2>. QED
    BY <2>1, <2>2, <2>3, PendingSeq, SeqEqual DEF PendingOK
<1>5. Phase # "closed" /\ Phase' = IF Phase = "open" THEN "open" ELSE "closed"
  BY DEF MoveRecord, Phase
<1>. QED
  BY <1>3, <1>4, <1>5 DEF Abstract!Take

LEMMA StoreMaps == IInv /\ StoreRecord => UNCHANGED <<Pending, value, Phase>>
<1> SUFFICES ASSUME IInv, StoreRecord PROVE UNCHANGED <<Pending, value, Phase>>
  OBVIOUS
<1>1. Front' = Front /\ writeIndex' = writeIndex /\ UNCHANGED <<value, Phase>>
  BY DEF StoreRecord, Front, Phase, worker
<1>2. ASSUME NEW n \in 1 .. Distance(Front, writeIndex)
      PROVE  records'[Nth(Front, n - 1)] = records[Nth(Front, n - 1)]
  <2>1. Nth(Front, n - 1) \in Slots /\ Nth(Front, n - 1) # writeIndex
    <3>1. Front \in Slots /\ writeIndex \in Slots
      BY PendingSeq DEF PendingOK, IInv, TypeOK
    <3>. QED
      BY <3>1, SizeAssumption DEF Slots, Nth, Distance
  <2>. QED
    BY <2>1 DEF StoreRecord, IInv, TypeOK
<1>3. Pending' = Pending
  BY <1>1, <1>2 DEF Pending, Nth, Distance
<1>. QED
  BY <1>1, <1>3

(* To its clients the ring with its flag and semaphore is a bounded        *)
(* first-in first-out queue: values accepted by enqueue reach the work     *)
(* function in order and once, and after done_ is raised at most one more  *)
(* value does.                                                             *)
THEOREM FifoImplemented == Spec => ImplementsFifo
<1>1. Init => Abstract!AbstractInit
  BY DEF Init, Abstract!AbstractInit, Pending, Distance, Front, Phase
<1>2. IInv /\ IInv' /\ [Next]_vars =>
        [Abstract!AbstractNext]_(Abstract!abstractVars)
  <2> SUFFICES ASSUME IInv, IInv', [Next]_vars
               PROVE  Abstract!AbstractNext \/ UNCHANGED <<Pending, value, Phase>>
    BY DEF Abstract!abstractVars
  <2> USE
     DEF IInv, TypeOK, RingInv, DestroyInv, Front, Phase, ring, producer,
         worker, LeaveDrain
  <2>1. CASE Enqueue
    BY <2>1, PendingUnchanged DEF Enqueue
  <2>2. CASE LoadIndices
    BY <2>2, PendingUnchanged DEF LoadIndices
  <2>3. CASE StoreRecord
    BY <2>3, StoreMaps
  <2>4. CASE PublishWrite
    BY <2>4, PutMaps DEF Abstract!AbstractNext
  <2>5. CASE TestAndSet
    BY <2>5, PendingUnchanged DEF TestAndSet
  <2>6. CASE WakeWorker
    BY <2>6, PendingUnchanged DEF WakeWorker
  <2>7. CASE OuterLoop
    BY <2>7, PendingUnchanged DEF OuterLoop
  <2>8. CASE WaitSemaphore
    BY <2>8, PendingUnchanged DEF WaitSemaphore
  <2>9. CASE CheckDone
    BY <2>9, PendingUnchanged DEF CheckDone
  <2>10. CASE ReadIndices
    BY <2>10, PendingUnchanged
       DEF ReadIndices, Abstract!AbstractNext, Abstract!Leave
  <2>11. CASE MoveRecord
    BY <2>11, TakeMaps DEF Abstract!AbstractNext
  <2>12. CASE PublishRead
    BY <2>12, PendingUnchanged DEF PublishRead
  <2>13. CASE FinishWork
    BY <2>13, PendingUnchanged DEF FinishWork
  <2>14. CASE ClearFlag
    BY <2>14, PendingUnchanged DEF ClearFlag
  <2>15. CASE RaiseDone
    BY <2>15, PendingUnchanged
       DEF RaiseDone, Abstract!AbstractNext, Abstract!Close
  <2>16. CASE SignalWorker
    BY <2>16, PendingUnchanged DEF SignalWorker
  <2>17. CASE JoinWorker
    BY <2>17, PendingUnchanged DEF JoinWorker
  <2>18. CASE UNCHANGED vars
    BY <2>18, PendingUnchanged DEF vars
  <2>. QED
    BY <2>1, <2>2, <2>3, <2>4, <2>5, <2>6, <2>7, <2>8, <2>9, <2>10, <2>11,
       <2>12, <2>13, <2>14, <2>15, <2>16, <2>17, <2>18
       DEF Next, Producing, Working, Destroying, Destroyed
<1>3. QED
  BY <1>1, <1>2, InvariantCorrect, PTL
     DEF Spec, ImplementsFifo, Abstract!Fifo
=============================================================================
