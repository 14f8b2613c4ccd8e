----------------------- MODULE CameraControllerProofs -----------------------
(***************************************************************************)
(* Theorems about CameraController.cpp and meta/Observer.hpp, for any      *)
(* number of clients, registrations and periods.                           *)
(***************************************************************************)
EXTENDS CameraController, TLAPS

(* regM_ is held by whoever is between its lock and its unlock, so a walk  *)
(* over the observers excludes every change to them.                       *)
LockInv ==
  /\ pcCamera \in {"call", "handle", "release"} <=> regM = Camera
  /\ toNotify # {} => pcCamera = "call"
  /\ \A c \in Clients : pcClient[c] \in {"insert", "remove"} <=> regM = c

(* Ids are given once; a queued registration is not done yet.              *)
IdInv ==
  /\ \A id \in observers \cup finished : id < nextFreeId
  /\ \A k \in DOMAIN registrationQueue :
       /\ registrationQueue[k].id < nextFreeId
       /\ registrationQueue[k].type = "REGISTRATION" =>
            registrationQueue[k].id \notin observers

IsAdding(c) == pcClient[c] \in {"insert", "queue", "period", "wake"}

(* The client that will unregister this id, and has not begun to.          *)
Owns(c, id) ==
  \/ pcClient[c] \in {"in", "remove", "queueRemoval"} /\ id = registration[c]
  \/ pcClient[c] \in {"period", "wake"} /\ id = currentId

OwnerInv ==
  /\ \A c, d \in Clients : IsAdding(c) /\ IsAdding(d) => c = d
  /\ \A c, d \in Clients : \A id \in 0 .. MaxId : Owns(c, id) /\ Owns(d, id) => c = d
  /\ \A c \in Clients : \A id \in 0 .. MaxId : Owns(c, id) =>
       /\ id \in Ids /\ id < nextFreeId /\ id \notin finished
       /\ \A k \in DOMAIN registrationQueue :
            registrationQueue[k] # [type |-> "UNREGISTRATION", id |-> id]

(* Whoever registered is among the desired periods, and stays there.       *)
PeriodInv ==
  /\ \A id \in Ids : desiredPeriods[id] # 0 => cycleTime <= desiredPeriods[id]
  /\ \A c \in Clients :
       /\ pcClient[c] = "wake" => desiredPeriods[currentId] # 0
       /\ pcClient[c] \in {"in", "remove", "queueRemoval"} =>
            desiredPeriods[registration[c]] # 0

IInv == TypeOK /\ LockInv /\ IdInv /\ OwnerInv /\ TrueClearIsFinal /\ PeriodInv

-----------------------------------------------------------------------------
(* The program starts with nobody registered and regM_ free.               *)
LEMMA InitIInv == Init => IInv
<1> SUFFICES ASSUME Init PROVE IInv
  OBVIOUS
<1> USE ThreadsAssumption, PeriodsAssumption DEF Init, SubjectInit, Ids
<1>1. TypeOK
  <2>1. SubjectTypeOK(Clients \cup {Camera})
    BY DEF SubjectTypeOK
  <2>2. /\ pcClient \in [Clients -> {"out"}]
        /\ registration \in [Clients -> 0 .. MaxId]
        /\ desiredPeriods \in [Ids -> Periods \cup {0}]
    OBVIOUS
  <2>. QED
    BY <2>1, <2>2 DEF TypeOK
<1>2. LockInv /\ IdInv /\ TrueClearIsFinal
  BY DEF LockInv, IdInv, TrueClearIsFinal
<1>3. OwnerInv /\ PeriodInv
  BY DEF OwnerInv, Owns, IsAdding, PeriodInv
<1>. QED
  BY <1>1, <1>2, <1>3 DEF IInv

-----------------------------------------------------------------------------
(* What the operators of the model do.                                     *)

(* Appending an operation keeps all that were queued before.               *)
LEMMA QueueAppended ==
  ASSUME TypeOK, NEW op \in Operations,
         registrationQueue' = Append(registrationQueue, op)
  PROVE  /\ registrationQueue' \in Seq(Operations)
         /\ \A k \in DOMAIN registrationQueue' :
              \/ k \in DOMAIN registrationQueue
                 /\ registrationQueue'[k] = registrationQueue[k]
              \/ registrationQueue'[k] = op
  BY DEF TypeOK, SubjectTypeOK

(* A queued registration is the last entry and carries the next id.        *)
LEMMA RegisterLaterQueue ==
  ASSUME TypeOK, RegisterLater
  PROVE  /\ registrationQueue' \in Seq(Operations)
         /\ \A k \in DOMAIN registrationQueue' :
              \/ k \in DOMAIN registrationQueue
                 /\ registrationQueue'[k] = registrationQueue[k]
              \/ registrationQueue'[k] = [type |-> "REGISTRATION", id |-> nextFreeId]
<1> DEFINE op == [type |-> "REGISTRATION", id |-> nextFreeId]
<1>1. op \in Operations /\ registrationQueue' = Append(registrationQueue, op)
  BY DEF RegisterLater, Operations
<1> HIDE DEF op
<1>2. /\ registrationQueue' \in Seq(Operations)
      /\ \A k \in DOMAIN registrationQueue' :
           \/ k \in DOMAIN registrationQueue
              /\ registrationQueue'[k] = registrationQueue[k]
           \/ registrationQueue'[k] = op
  BY <1>1, QueueAppended
<1>. QED
  BY <1>2 DEF op

(* A queued unregistration is the last entry and carries its id.           *)
LEMMA UnregisterLaterQueue ==
  ASSUME TypeOK, NEW id \in Ids, UnregisterLater(id)
  PROVE  /\ registrationQueue' \in Seq(Operations)
         /\ \A k \in DOMAIN registrationQueue' :
              \/ k \in DOMAIN registrationQueue
                 /\ registrationQueue'[k] = registrationQueue[k]
              \/ registrationQueue'[k] = [type |-> "UNREGISTRATION", id |-> id]
<1> DEFINE op == [type |-> "UNREGISTRATION", id |-> id]
<1>1. op \in Operations /\ registrationQueue' = Append(registrationQueue, op)
  BY DEF UnregisterLater, Operations
<1> HIDE DEF op
<1>2. /\ registrationQueue' \in Seq(Operations)
      /\ \A k \in DOMAIN registrationQueue' :
           \/ k \in DOMAIN registrationQueue
              /\ registrationQueue'[k] = registrationQueue[k]
           \/ registrationQueue'[k] = op
  BY <1>1, QueueAppended
<1>. QED
  BY <1>2 DEF op

(* Ids, wherever they stand, can be compared.                              *)
LEMMA IdsAreNumbers ==
  ASSUME TypeOK
  PROVE  /\ nextFreeId \in Nat /\ observers \cup finished \subseteq Nat
         /\ \A k \in DOMAIN registrationQueue : registrationQueue[k].id \in Nat
<1>1. \A k \in DOMAIN registrationQueue : registrationQueue[k] \in Operations
  BY DEF TypeOK, SubjectTypeOK
<1>2. \A k \in DOMAIN registrationQueue : registrationQueue[k].id \in Nat
  BY <1>1, ThreadsAssumption DEF Operations, Ids
<1>3. nextFreeId \in Nat /\ observers \subseteq Nat /\ finished \subseteq Nat
  BY ThreadsAssumption DEF TypeOK, SubjectTypeOK, Ids
<1>. QED
  BY <1>2, <1>3

(* updatePeriodFromDesired takes the shortest of the desired periods.      *)
LEMMA PeriodUpdated ==
  ASSUME desiredPeriods' \in [Ids -> Periods \cup {0}], UpdatePeriodFromDesired
  PROVE  /\ cycleTime' \in Periods \cup {MaxPeriod}
         /\ \A i \in Ids : desiredPeriods'[i] # 0 => cycleTime' <= desiredPeriods'[i]
  BY PeriodsAssumption DEF UpdatePeriodFromDesired

(* A client about to clear its registration has one, and it is its own.    *)
LEMMA OwnRegistration ==
  ASSUME TypeOK, OwnerInv, NEW c \in Clients,
         pcClient[c] \in {"in", "remove", "queueRemoval"}
  PROVE  /\ registration[c] \in Ids
         /\ registration[c] < nextFreeId
         /\ registration[c] \notin finished
         /\ \A k \in DOMAIN registrationQueue : registrationQueue[k] #
              [type |-> "UNREGISTRATION", id |-> registration[c]]
         /\ \A d \in Clients \ {c} : ~Owns(d, registration[c])
<1>1. registration[c] \in 0 .. MaxId /\ Owns(c, registration[c])
  BY DEF TypeOK, Owns
<1>. QED
  BY <1>1 DEF OwnerInv

(* An id that was never given is in no list.                               *)
LEMMA FreshId ==
  ASSUME TypeOK, IdInv, OwnerInv
  PROVE  /\ nextFreeId \notin observers \cup finished
         /\ \A k \in DOMAIN registrationQueue : registrationQueue[k].id # nextFreeId
         /\ \A c \in Clients : ~Owns(c, nextFreeId)
<1>1. nextFreeId \in Nat
  BY ThreadsAssumption DEF TypeOK, SubjectTypeOK
<1>2. nextFreeId \notin observers \cup finished
  BY <1>1 DEF IdInv
<1>3. \A k \in DOMAIN registrationQueue : registrationQueue[k].id # nextFreeId
  BY <1>1 DEF IdInv
<1>4. ASSUME NEW c \in Clients, Owns(c, nextFreeId) PROVE FALSE
  <2>1. CASE nextFreeId = registration[c]
    BY <1>1, <1>4, <2>1 DEF OwnerInv, TypeOK
  <2>2. CASE nextFreeId = currentId
    BY <1>1, <2>2 DEF currentId
  <2>. QED
    BY <1>4, <2>1, <2>2 DEF Owns
<1>. QED
  BY <1>2, <1>3, <1>4

-----------------------------------------------------------------------------
(* Every action keeps every part of the invariant.                         *)

(* Types, and that the walk is over registered observers.                  *)
LEMMA TypeStep ==
  TypeOK /\ LockInv /\ OwnerInv /\ [Next]_vars => TypeOK'
<1> SUFFICES ASSUME TypeOK, LockInv, OwnerInv, [Next]_vars
             PROVE  TypeOK'
  OBVIOUS
<1> USE ThreadsAssumption, PeriodsAssumption DEF TypeOK, SubjectTypeOK, Ids,
      subjectVars, cameraVars, periodVars, clientVars, ownerVars
<1>1. ASSUME NEW c \in Clients, BeginAdd(c) PROVE TypeOK'
  BY <1>1 DEF BeginAdd, TryLock, LockBusy, Goto
<1>2. ASSUME NEW c \in Clients, AddRegister(c) PROVE TypeOK'
  <2>1. CASE RegisterNow(c) /\ Goto(c, "insert", "period")
    BY <1>2, <2>1 DEF AddRegister, RegisterNow, Goto
  <2>2. CASE RegisterLater /\ Goto(c, "queue", "period")
    BY <1>2, <2>2, RegisterLaterQueue DEF AddRegister, RegisterLater, Goto
  <2>. QED
    BY <1>2, <2>1, <2>2 DEF AddRegister
<1>3. ASSUME NEW c \in Clients, AddPeriod(c) PROVE TypeOK'
  <2>1. PICK p \in Periods : AddToDesiredPeriods(currentId, p)
    BY <1>3 DEF AddPeriod
  <2>2. desiredPeriods' \in [Ids -> Periods \cup {0}]
    BY <2>1 DEF AddToDesiredPeriods
  <2>3. cycleTime' \in Periods \cup {MaxPeriod}
    BY <2>1, <2>2, PeriodUpdated DEF AddToDesiredPeriods
  <2>. QED
    BY <1>3, <2>2, <2>3 DEF AddPeriod, Goto
<1>4. ASSUME NEW c \in Clients, AddWake(c) PROVE TypeOK'
  <2>1. currentId \in 0 .. MaxId
    BY DEF currentId
  <2>. QED
    BY <1>4, <2>1 DEF AddWake, NotifyCv, Goto
<1>5. ASSUME NEW c \in Clients, BeginClear(c) PROVE TypeOK'
  <2>1. /\ regM' \in {regM, c}
        /\ UNCHANGED <<observers, registrationQueue, nextFreeId, toNotify>>
    BY <1>5 DEF BeginClear, TryLock, LockBusy
  <2>2. \E l \in {"remove", "queueRemoval"} : pcClient' = [pcClient EXCEPT ![c] = l]
    BY <1>5 DEF BeginClear, Goto
  <2>. QED
    BY <1>5, <2>1, <2>2 DEF BeginClear
<1>6. ASSUME NEW c \in Clients, EndClear(c) PROVE TypeOK'
  <2>1. CASE Goto(c, "remove", "out")
    <3>1. PICK found \in BOOLEAN :
            /\ UnregisterNow(c, registration[c], found)
            /\ finished' = IF found THEN finished \cup {registration[c]} ELSE finished
      BY <1>6, <2>1 DEF EndClear, Goto
    <3>2. registration[c] \in Ids /\ toNotify = {}
      BY <2>1, <3>1, OwnRegistration DEF Goto, LockInv, UnregisterNow
    <3>3. /\ observers' \subseteq Ids /\ toNotify' = {} /\ regM' = Nobody
          /\ UNCHANGED <<registrationQueue, nextFreeId>> /\ finished' \subseteq Ids
      BY <3>1, <3>2 DEF UnregisterNow
    <3>4. pcClient' = [pcClient EXCEPT ![c] = "out"]
      BY <2>1 DEF Goto
    <3>. QED
      BY <1>6, <3>3, <3>4 DEF EndClear
  <2>2. CASE Goto(c, "queueRemoval", "out") /\ UnregisterLater(registration[c])
    <3>1. registration[c] \in Ids
      BY <2>2, OwnRegistration DEF Goto
    <3>2. /\ registrationQueue' \in Seq(Operations)
          /\ UNCHANGED <<observers, nextFreeId, regM, toNotify>>
      BY <2>2, <3>1, UnregisterLaterQueue DEF UnregisterLater
    <3>3. finished' \subseteq Ids
      BY <1>6, <2>2, <3>1 DEF EndClear, Goto
    <3>4. pcClient' = [pcClient EXCEPT ![c] = "out"]
      BY <2>2 DEF Goto
    <3>. QED
      BY <1>6, <3>2, <3>3, <3>4 DEF EndClear
  <2>. QED
    BY <1>6, <2>1, <2>2 DEF EndClear
<1>7. CASE TestObservers
  BY <1>7 DEF TestObservers, CameraGoto
<1>8. CASE FallAsleep
  BY <1>8 DEF FallAsleep, CameraGoto
<1>9. CASE SpuriousWakeup
  BY <1>9 DEF SpuriousWakeup, CameraGoto
<1>10. CASE TakePicture
  BY <1>10 DEF TakePicture, CameraGoto
<1>11. CASE LockObservers
  BY <1>11 DEF LockObservers, NotifyBegin, CameraGoto
<1>12. CASE CallObserver
  <2>1. /\ desiredPeriods' \in [Ids -> Periods \cup {0}]
        /\ cycleTime' \in Periods \cup {MaxPeriod}
    <3>1. CASE UNCHANGED periodVars
      BY <3>1
    <3>2. ASSUME NEW c \in Clients, NEW p \in Periods,
                 SetDesiredPeriod(registration[c], p)
          PROVE  /\ desiredPeriods' \in [Ids -> Periods \cup {0}]
                 /\ cycleTime' \in Periods \cup {MaxPeriod}
      <4>1. CASE UNCHANGED periodVars
        BY <4>1
      <4>2. CASE AddToDesiredPeriods(registration[c], p)
        <5>1. desiredPeriods' \in [Ids -> Periods \cup {0}]
          BY <4>2 DEF AddToDesiredPeriods
        <5>. QED
          BY <4>2, <5>1, PeriodUpdated DEF AddToDesiredPeriods
      <4>. QED
        BY <3>2, <4>1, <4>2 DEF SetDesiredPeriod
    <3>. QED
      BY <1>12, <3>1, <3>2 DEF CallObserver
  <2>. QED
    BY <1>12, <2>1 DEF CallObserver, NotifyOne, CameraGoto
<1>13. CASE EndCalls
  BY <1>13 DEF EndCalls, CameraGoto
<1>14. CASE HandleQueue
  <2>1. toNotify = {} /\ registrationQueue' \in Seq(Operations)
    BY <1>14 DEF HandleQueue, HandleRegistrationQueue, CameraGoto, LockInv
  <2>. QED
    BY <1>14, <2>1 DEF HandleQueue, HandleRegistrationQueue, Handled, CameraGoto
<1>15. CASE UnlockObservers
  BY <1>15 DEF UnlockObservers, NotifyEnd, CameraGoto
<1>16. CASE Again
  BY <1>16 DEF Again, CameraGoto
<1>17. CASE RaiseDone
  BY <1>17 DEF RaiseDone
<1>18. CASE WakeCamera
  BY <1>18 DEF WakeCamera, NotifyCv
<1>19. CASE JoinCamera
  BY <1>19 DEF JoinCamera
<1>20. CASE UNCHANGED vars
  BY <1>20 DEF vars
<1>. QED
  BY <1>1, <1>2, <1>3, <1>4, <1>5, <1>6, <1>7, <1>8, <1>9, <1>10, <1>11,
     <1>12, <1>13, <1>14, <1>15, <1>16, <1>17, <1>18, <1>19, <1>20
     DEF Next, Adding, CameraStep, Destroyed

(* regM_ is held exactly between a lock and its unlock.                    *)
LEMMA LockStep ==
  TypeOK /\ LockInv /\ [Next]_vars => LockInv'
<1> SUFFICES ASSUME TypeOK, LockInv, [Next]_vars
             PROVE  LockInv'
  OBVIOUS
<1> USE ThreadsAssumption DEF TypeOK, SubjectTypeOK, Ids, LockInv,
      subjectVars, cameraVars, periodVars, clientVars, ownerVars
<1>1. ASSUME NEW c \in Clients, BeginAdd(c) PROVE LockInv'
  BY <1>1 DEF BeginAdd, TryLock, LockBusy, Goto
<1>2. ASSUME NEW c \in Clients, AddRegister(c) PROVE LockInv'
  <2>1. CASE RegisterNow(c) /\ Goto(c, "insert", "period")
    BY <1>2, <2>1 DEF AddRegister, RegisterNow, Goto
  <2>2. CASE RegisterLater /\ Goto(c, "queue", "period")
    BY <1>2, <2>2 DEF AddRegister, RegisterLater, Goto
  <2>. QED
    BY <1>2, <2>1, <2>2 DEF AddRegister
<1>3. ASSUME NEW c \in Clients, AddPeriod(c) PROVE LockInv'
  BY <1>3 DEF AddPeriod, AddToDesiredPeriods, UpdatePeriodFromDesired, Goto
<1>4. ASSUME NEW c \in Clients, AddWake(c) PROVE LockInv'
  BY <1>4 DEF AddWake, NotifyCv, Goto
<1>5. ASSUME NEW c \in Clients, BeginClear(c) PROVE LockInv'
  BY <1>5 DEF BeginClear, TryLock, LockBusy, Goto
<1>6. ASSUME NEW c \in Clients, EndClear(c) PROVE LockInv'
  <2>1. UNCHANGED <<pcCamera, toNotify>> /\ pcClient' = [pcClient EXCEPT ![c] = "out"]
    BY <1>6 DEF EndClear, UnregisterNow, UnregisterLater, Goto
  <2>2. CASE pcClient[c] = "remove"
    BY <1>6, <2>1, <2>2 DEF EndClear, UnregisterNow, Goto
  <2>3. CASE pcClient[c] = "queueRemoval"
    BY <1>6, <2>1, <2>3 DEF EndClear, UnregisterLater, Goto
  <2>. QED
    BY <1>6, <2>2, <2>3 DEF EndClear, Goto
<1>7. CASE TestObservers
  BY <1>7 DEF TestObservers, CameraGoto
<1>8. CASE FallAsleep
  BY <1>8 DEF FallAsleep, CameraGoto
<1>9. CASE SpuriousWakeup
  BY <1>9 DEF SpuriousWakeup, CameraGoto
<1>10. CASE TakePicture
  BY <1>10 DEF TakePicture, CameraGoto
<1>11. CASE LockObservers
  BY <1>11 DEF LockObservers, NotifyBegin, CameraGoto
<1>12. CASE CallObserver
  BY <1>12 DEF CallObserver, NotifyOne, CameraGoto, SetDesiredPeriod,
     AddToDesiredPeriods, UpdatePeriodFromDesired
<1>13. CASE EndCalls
  BY <1>13 DEF EndCalls, CameraGoto
<1>14. CASE HandleQueue
  BY <1>14 DEF HandleQueue, HandleRegistrationQueue, Handled, CameraGoto
<1>15. CASE UnlockObservers
  BY <1>15 DEF UnlockObservers, NotifyEnd, CameraGoto
<1>16. CASE Again
  BY <1>16 DEF Again, CameraGoto
<1>17. CASE RaiseDone
  BY <1>17 DEF RaiseDone
<1>18. CASE WakeCamera
  BY <1>18 DEF WakeCamera, NotifyCv
<1>19. CASE JoinCamera
  BY <1>19 DEF JoinCamera
<1>20. CASE UNCHANGED vars
  BY <1>20 DEF vars
<1>. QED
  BY <1>1, <1>2, <1>3, <1>4, <1>5, <1>6, <1>7, <1>8, <1>9, <1>10, <1>11,
     <1>12, <1>13, <1>14, <1>15, <1>16, <1>17, <1>18, <1>19, <1>20
     DEF Next, Adding, CameraStep, Destroyed

(* No id is given twice, and a registration is queued once.                *)
LEMMA IdStep ==
  TypeOK /\ LockInv /\ IdInv /\ OwnerInv /\ [Next]_vars => IdInv'
<1> SUFFICES ASSUME TypeOK, LockInv, IdInv, OwnerInv, [Next]_vars
             PROVE  IdInv'
  OBVIOUS
<1> USE ThreadsAssumption DEF IdInv, subjectVars, cameraVars, periodVars,
      clientVars, ownerVars
<1>1. ASSUME NEW c \in Clients, BeginAdd(c) PROVE IdInv'
  BY <1>1 DEF BeginAdd, TryLock, LockBusy, Goto
<1>2. ASSUME NEW c \in Clients, AddRegister(c) PROVE IdInv'
  <2>1. /\ observers' \subseteq observers \cup {nextFreeId}
        /\ nextFreeId' = nextFreeId + 1
        /\ UNCHANGED finished
    BY <1>2 DEF AddRegister, RegisterNow, RegisterLater
  <2>2. \A id \in observers' \cup finished' : id < nextFreeId'
    BY <2>1, IdsAreNumbers
  <2>3. CASE RegisterNow(c)
    BY <2>1, <2>2, <2>3, FreshId, IdsAreNumbers DEF RegisterNow
  <2>4. CASE RegisterLater
    BY <2>1, <2>2, <2>4, FreshId, RegisterLaterQueue, IdsAreNumbers DEF RegisterLater
  <2>. QED
    BY <1>2, <2>3, <2>4 DEF AddRegister
<1>3. ASSUME NEW c \in Clients, AddPeriod(c) PROVE IdInv'
  BY <1>3 DEF AddPeriod, AddToDesiredPeriods, UpdatePeriodFromDesired, Goto
<1>4. ASSUME NEW c \in Clients, AddWake(c) PROVE IdInv'
  BY <1>4 DEF AddWake, NotifyCv, Goto
<1>5. ASSUME NEW c \in Clients, BeginClear(c) PROVE IdInv'
  BY <1>5 DEF BeginClear, TryLock, LockBusy, Goto
<1>6. ASSUME NEW c \in Clients, EndClear(c) PROVE IdInv'
  <2>1. /\ pcClient[c] \in {"remove", "queueRemoval"}
        /\ UNCHANGED nextFreeId
        /\ observers' \subseteq observers
        /\ finished' \subseteq finished \cup {registration[c]}
    BY <1>6 DEF EndClear, Goto, UnregisterNow, UnregisterLater
  <2>2. registration[c] \in Ids /\ registration[c] < nextFreeId
    BY <2>1, OwnRegistration
  <2>3. CASE UNCHANGED registrationQueue
    BY <2>1, <2>2, <2>3
  <2>4. CASE UnregisterLater(registration[c])
    BY <2>1, <2>2, <2>4, UnregisterLaterQueue
  <2>. QED
    BY <1>6, <2>3, <2>4 DEF EndClear, UnregisterNow
<1>7. CASE TestObservers
  BY <1>7 DEF TestObservers, CameraGoto
<1>8. CASE FallAsleep
  BY <1>8 DEF FallAsleep, CameraGoto
<1>9. CASE SpuriousWakeup
  BY <1>9 DEF SpuriousWakeup, CameraGoto
<1>10. CASE TakePicture
  BY <1>10 DEF TakePicture, CameraGoto
<1>11. CASE LockObservers
  BY <1>11 DEF LockObservers, NotifyBegin, CameraGoto
<1>12. CASE CallObserver
  BY <1>12 DEF CallObserver, NotifyOne, CameraGoto, SetDesiredPeriod,
     AddToDesiredPeriods, UpdatePeriodFromDesired
<1>13. CASE EndCalls
  BY <1>13 DEF EndCalls, CameraGoto
<1>14. CASE HandleQueue
  BY <1>14 DEF HandleQueue, HandleRegistrationQueue, Handled, CameraGoto
<1>15. CASE UnlockObservers
  BY <1>15 DEF UnlockObservers, NotifyEnd, CameraGoto
<1>16. CASE Again
  BY <1>16 DEF Again, CameraGoto
<1>17. CASE RaiseDone
  BY <1>17 DEF RaiseDone
<1>18. CASE WakeCamera
  BY <1>18 DEF WakeCamera, NotifyCv
<1>19. CASE JoinCamera
  BY <1>19 DEF JoinCamera
<1>20. CASE UNCHANGED vars
  BY <1>20 DEF vars
<1>. QED
  BY <1>1, <1>2, <1>3, <1>4, <1>5, <1>6, <1>7, <1>8, <1>9, <1>10, <1>11,
     <1>12, <1>13, <1>14, <1>15, <1>16, <1>17, <1>18, <1>19, <1>20
     DEF Next, Adding, CameraStep, Destroyed

(* Each id has one client that unregisters it, once.                       *)
LEMMA OwnerStep ==
  TypeOK /\ LockInv /\ IdInv /\ OwnerInv /\ [Next]_vars => OwnerInv'
<1> SUFFICES ASSUME TypeOK, LockInv, IdInv, OwnerInv, [Next]_vars
             PROVE  OwnerInv'
  OBVIOUS
<1> USE ThreadsAssumption DEF TypeOK, SubjectTypeOK, Ids, OwnerInv, Owns,
      IsAdding, currentId, subjectVars, cameraVars, periodVars, clientVars,
      ownerVars
<1>1. ASSUME NEW c \in Clients, BeginAdd(c) PROVE OwnerInv'
  BY <1>1 DEF BeginAdd, TryLock, LockBusy, Goto
<1>2. ASSUME NEW c \in Clients, AddRegister(c) PROVE OwnerInv'
  <2>1. /\ IsAdding(c) /\ \A d \in Clients \ {c} : ~IsAdding(d)
        /\ \A d \in Clients : IsAdding(d)' <=> IsAdding(d)
    BY <1>2 DEF AddRegister, Goto
  <2>2. /\ nextFreeId \in Ids /\ nextFreeId' = nextFreeId + 1
        /\ UNCHANGED <<finished, registration>>
    BY <1>2 DEF AddRegister, RegisterNow, RegisterLater
  <2>3. \A d \in Clients, id \in 0 .. MaxId :
          Owns(d, id)' <=> (Owns(d, id) \/ (d = c /\ id = nextFreeId))
    BY <1>2, <2>1, <2>2 DEF AddRegister, Goto
  <2>4. \A d \in Clients : ~Owns(d, nextFreeId)
    BY FreshId
  <2>5. \A d \in Clients, id \in 0 .. MaxId : Owns(d, id)' =>
          \A k \in DOMAIN registrationQueue' :
            registrationQueue'[k] # [type |-> "UNREGISTRATION", id |-> id]
    <3>1. \A d \in Clients, id \in 0 .. MaxId : Owns(d, id)' =>
            \A k \in DOMAIN registrationQueue :
              registrationQueue[k] # [type |-> "UNREGISTRATION", id |-> id]
      BY <2>3, FreshId DEF OwnerInv
    <3>2. CASE UNCHANGED registrationQueue
      BY <3>1, <3>2
    <3>3. CASE RegisterLater
      <4>1. \A id : [type |-> "REGISTRATION", id |-> nextFreeId]
                     # [type |-> "UNREGISTRATION", id |-> id]
        OBVIOUS
      <4>2. \A k \in DOMAIN registrationQueue' :
              \/ k \in DOMAIN registrationQueue
                 /\ registrationQueue'[k] = registrationQueue[k]
              \/ registrationQueue'[k] = [type |-> "REGISTRATION", id |-> nextFreeId]
        BY <3>3, RegisterLaterQueue
      <4>. QED
        BY <3>1, <4>1, <4>2
    <3>. QED
      BY <1>2, <3>2, <3>3 DEF AddRegister, RegisterNow
  <2>6. nextFreeId \notin finished
    BY FreshId
  <2> HIDE DEF Owns, IsAdding
  <2>7. \A d, e \in Clients : IsAdding(d)' /\ IsAdding(e)' => d = e
    BY <2>1
  <2>8. \A d, e \in Clients, id \in 0 .. MaxId : Owns(d, id)' /\ Owns(e, id)' => d = e
    BY <2>3, <2>4
  <2>9. \A d \in Clients, id \in 0 .. MaxId : Owns(d, id)' =>
          id \in Ids /\ id < nextFreeId' /\ id \notin finished'
    BY <2>2, <2>3, <2>6
  <2>. QED
    BY <2>5, <2>7, <2>8, <2>9
<1>3. ASSUME NEW c \in Clients, AddPeriod(c) PROVE OwnerInv'
  BY <1>3 DEF AddPeriod, AddToDesiredPeriods, UpdatePeriodFromDesired, Goto
<1>4. ASSUME NEW c \in Clients, AddWake(c) PROVE OwnerInv'
  BY <1>4 DEF AddWake, NotifyCv, Goto
<1>5. ASSUME NEW c \in Clients, BeginClear(c) PROVE OwnerInv'
  <2>1. /\ pcClient[c] = "in" /\ pcClient'[c] \in {"remove", "queueRemoval"}
        /\ \A d \in Clients \ {c} : pcClient'[d] = pcClient[d]
    BY <1>5 DEF BeginClear, Goto
  <2>2. UNCHANGED <<registrationQueue, nextFreeId, finished, registration>>
    BY <1>5 DEF BeginClear, TryLock, LockBusy
  <2>3. /\ \A d \in Clients, id \in 0 .. MaxId : Owns(d, id)' <=> Owns(d, id)
        /\ \A d \in Clients : IsAdding(d)' <=> IsAdding(d)
    <3> SUFFICES ASSUME NEW d \in Clients, NEW id \in 0 .. MaxId
                 PROVE  (Owns(d, id)' <=> Owns(d, id)) /\ (IsAdding(d)' <=> IsAdding(d))
      BY ThreadsAssumption
    <3>. QED
      BY <2>1, <2>2
  <2> HIDE DEF Owns, IsAdding
  <2>. QED
    BY <2>2, <2>3
<1>6. ASSUME NEW c \in Clients, EndClear(c) PROVE OwnerInv'
  <2>1. /\ pcClient[c] \in {"remove", "queueRemoval"}
        /\ pcClient' = [pcClient EXCEPT ![c] = "out"]
        /\ UNCHANGED <<nextFreeId, registration>>
        /\ finished' \subseteq finished \cup {registration[c]}
    BY <1>6 DEF EndClear, Goto, UnregisterNow, UnregisterLater
  <2>2. /\ \A d \in Clients, id \in 0 .. MaxId : Owns(d, id)' => Owns(d, id) /\ d # c
        /\ \A d \in Clients : IsAdding(d)' => IsAdding(d)
    BY <2>1
  <2>3. /\ registration[c] \in Ids
        /\ \A d \in Clients \ {c} : ~Owns(d, registration[c])
    BY <2>1, OwnRegistration
  <2>4. \A d \in Clients, id \in 0 .. MaxId : Owns(d, id)' =>
          /\ id \notin finished'
          /\ \A k \in DOMAIN registrationQueue' :
               registrationQueue'[k] # [type |-> "UNREGISTRATION", id |-> id]
    <3> SUFFICES ASSUME NEW d \in Clients, NEW id \in 0 .. MaxId, Owns(d, id)'
                 PROVE  /\ id \notin finished'
                        /\ \A k \in DOMAIN registrationQueue' :
                             registrationQueue'[k] #
                               [type |-> "UNREGISTRATION", id |-> id]
      OBVIOUS
    <3>1. Owns(d, id) /\ id # registration[c]
      BY <2>2, <2>3
    <3>2. /\ id \notin finished
          /\ \A k \in DOMAIN registrationQueue :
               registrationQueue[k] # [type |-> "UNREGISTRATION", id |-> id]
      BY <3>1 DEF OwnerInv
    <3>3. CASE UNCHANGED registrationQueue
      BY <2>1, <3>1, <3>2, <3>3
    <3>4. CASE UnregisterLater(registration[c])
      BY <2>1, <2>3, <3>1, <3>2, <3>4, UnregisterLaterQueue
    <3>. QED
      BY <1>6, <3>3, <3>4 DEF EndClear, UnregisterNow
  <2> HIDE DEF Owns, IsAdding
  <2>. QED
    BY <2>1, <2>2, <2>4
<1>7. CASE TestObservers
  BY <1>7 DEF TestObservers, CameraGoto
<1>8. CASE FallAsleep
  BY <1>8 DEF FallAsleep, CameraGoto
<1>9. CASE SpuriousWakeup
  BY <1>9 DEF SpuriousWakeup, CameraGoto
<1>10. CASE TakePicture
  BY <1>10 DEF TakePicture, CameraGoto
<1>11. CASE LockObservers
  BY <1>11 DEF LockObservers, NotifyBegin, CameraGoto
<1>12. CASE CallObserver
  BY <1>12 DEF CallObserver, NotifyOne, CameraGoto, SetDesiredPeriod,
     AddToDesiredPeriods, UpdatePeriodFromDesired
<1>13. CASE EndCalls
  BY <1>13 DEF EndCalls, CameraGoto
<1>14. CASE HandleQueue
  BY <1>14 DEF HandleQueue, HandleRegistrationQueue, Handled, CameraGoto
<1>15. CASE UnlockObservers
  BY <1>15 DEF UnlockObservers, NotifyEnd, CameraGoto
<1>16. CASE Again
  BY <1>16 DEF Again, CameraGoto
<1>17. CASE RaiseDone
  BY <1>17 DEF RaiseDone
<1>18. CASE WakeCamera
  BY <1>18 DEF WakeCamera, NotifyCv
<1>19. CASE JoinCamera
  BY <1>19 DEF JoinCamera
<1>20. CASE UNCHANGED vars
  BY <1>20 DEF vars
<1>. QED
  BY <1>1, <1>2, <1>3, <1>4, <1>5, <1>6, <1>7, <1>8, <1>9, <1>10, <1>11,
     <1>12, <1>13, <1>14, <1>15, <1>16, <1>17, <1>18, <1>19, <1>20
     DEF Next, Adding, CameraStep, Destroyed

(* A finished id is in no list, and nothing queued brings it back.         *)
LEMMA ClearStep ==
  TypeOK /\ LockInv /\ IdInv /\ OwnerInv /\ TrueClearIsFinal /\ [Next]_vars
    => TrueClearIsFinal'
<1> SUFFICES ASSUME TypeOK, LockInv, IdInv, OwnerInv, TrueClearIsFinal,
                   [Next]_vars
             PROVE  TrueClearIsFinal'
  OBVIOUS
<1> USE ThreadsAssumption DEF TypeOK, SubjectTypeOK, LockInv,
      TrueClearIsFinal, subjectVars, cameraVars, periodVars, clientVars,
      ownerVars
<1>1. ASSUME NEW c \in Clients, BeginAdd(c) PROVE TrueClearIsFinal'
  BY <1>1 DEF BeginAdd, TryLock, LockBusy, Goto
<1>2. ASSUME NEW c \in Clients, AddRegister(c) PROVE TrueClearIsFinal'
  <2>1. CASE RegisterNow(c)
    BY <1>2, <2>1, FreshId DEF AddRegister, RegisterNow
  <2>2. CASE RegisterLater
    BY <1>2, <2>2, FreshId, RegisterLaterQueue DEF AddRegister, RegisterLater
  <2>. QED
    BY <1>2, <2>1, <2>2 DEF AddRegister
<1>3. ASSUME NEW c \in Clients, AddPeriod(c) PROVE TrueClearIsFinal'
  BY <1>3 DEF AddPeriod, AddToDesiredPeriods, UpdatePeriodFromDesired, Goto
<1>4. ASSUME NEW c \in Clients, AddWake(c) PROVE TrueClearIsFinal'
  BY <1>4 DEF AddWake, NotifyCv, Goto
<1>5. ASSUME NEW c \in Clients, BeginClear(c) PROVE TrueClearIsFinal'
  BY <1>5 DEF BeginClear, TryLock, LockBusy, Goto
<1>6. ASSUME NEW c \in Clients, EndClear(c) PROVE TrueClearIsFinal'
  <2>1. CASE Goto(c, "remove", "out")
    <3>1. PICK found \in BOOLEAN :
            /\ UnregisterNow(c, registration[c], found)
            /\ finished' = IF found THEN finished \cup {registration[c]} ELSE finished
      BY <1>6, <2>1 DEF EndClear, Goto
    <3>2. CASE ~found
      BY <3>1, <3>2 DEF UnregisterNow
    <3>3. CASE found
      <4>1. registration[c] \in observers /\ toNotify = {}
        BY <2>1, <3>1, <3>3 DEF Goto, UnregisterNow
      <4>2. \A k \in DOMAIN registrationQueue :
              registrationQueue[k].id # registration[c]
        <5> SUFFICES ASSUME NEW k \in DOMAIN registrationQueue,
                            registrationQueue[k].id = registration[c]
                     PROVE  FALSE
          OBVIOUS
        <5>1. registrationQueue[k] \in Operations
          OBVIOUS
        <5>2. registrationQueue[k] = [type |-> "UNREGISTRATION", id |-> registration[c]]
          BY <4>1, <5>1 DEF IdInv, Operations
        <5>. QED
          BY <2>1, <5>2, OwnRegistration DEF Goto
      <4>. QED
        BY <3>1, <3>3, <4>1, <4>2 DEF UnregisterNow
    <3>. QED
      BY <3>2, <3>3
  <2>2. CASE /\ Goto(c, "queueRemoval", "out")
             /\ UnregisterLater(registration[c])
             /\ UNCHANGED finished
    <3>1. registration[c] \in Ids /\ registration[c] \notin finished
      BY <2>2, OwnRegistration DEF Goto
    <3>. QED
      BY <2>2, <3>1, UnregisterLaterQueue DEF UnregisterLater
  <2>. QED
    BY <1>6, <2>1, <2>2 DEF EndClear
<1>7. CASE TestObservers
  BY <1>7 DEF TestObservers, CameraGoto
<1>8. CASE FallAsleep
  BY <1>8 DEF FallAsleep, CameraGoto
<1>9. CASE SpuriousWakeup
  BY <1>9 DEF SpuriousWakeup, CameraGoto
<1>10. CASE TakePicture
  BY <1>10 DEF TakePicture, CameraGoto
<1>11. CASE LockObservers
  BY <1>11 DEF LockObservers, NotifyBegin, CameraGoto
<1>12. CASE CallObserver
  BY <1>12 DEF CallObserver, NotifyOne, CameraGoto, SetDesiredPeriod,
     AddToDesiredPeriods, UpdatePeriodFromDesired
<1>13. CASE EndCalls
  BY <1>13 DEF EndCalls, CameraGoto
<1>14. CASE HandleQueue
  BY <1>14 DEF HandleQueue, HandleRegistrationQueue, Handled, CameraGoto
<1>15. CASE UnlockObservers
  BY <1>15 DEF UnlockObservers, NotifyEnd, CameraGoto
<1>16. CASE Again
  BY <1>16 DEF Again, CameraGoto
<1>17. CASE RaiseDone
  BY <1>17 DEF RaiseDone
<1>18. CASE WakeCamera
  BY <1>18 DEF WakeCamera, NotifyCv
<1>19. CASE JoinCamera
  BY <1>19 DEF JoinCamera
<1>20. CASE UNCHANGED vars
  BY <1>20 DEF vars
<1>. QED
  BY <1>1, <1>2, <1>3, <1>4, <1>5, <1>6, <1>7, <1>8, <1>9, <1>10, <1>11,
     <1>12, <1>13, <1>14, <1>15, <1>16, <1>17, <1>18, <1>19, <1>20
     DEF Next, Adding, CameraStep, Destroyed

(* The cycle time never exceeds a desired period.                          *)
LEMMA PeriodStep ==
  TypeOK /\ IdInv /\ OwnerInv /\ PeriodInv /\ [Next]_vars => PeriodInv'
<1> SUFFICES ASSUME TypeOK, IdInv, OwnerInv, PeriodInv, [Next]_vars
             PROVE  PeriodInv'
  OBVIOUS
<1> USE ThreadsAssumption, PeriodsAssumption DEF TypeOK, SubjectTypeOK,
      IdInv, OwnerInv, Owns, IsAdding, currentId, Ids, PeriodInv,
      subjectVars, cameraVars, periodVars, clientVars, ownerVars
<1>1. ASSUME NEW c \in Clients, BeginAdd(c) PROVE PeriodInv'
  BY <1>1 DEF BeginAdd, TryLock, LockBusy, Goto
<1>2. ASSUME NEW c \in Clients, AddRegister(c) PROVE PeriodInv'
  BY <1>2 DEF AddRegister, RegisterNow, RegisterLater, Goto
<1>3. ASSUME NEW c \in Clients, AddPeriod(c) PROVE PeriodInv'
  BY <1>3 DEF AddPeriod, AddToDesiredPeriods, UpdatePeriodFromDesired, Goto
<1>4. ASSUME NEW c \in Clients, AddWake(c) PROVE PeriodInv'
  BY <1>4 DEF AddWake, NotifyCv, Goto
<1>5. ASSUME NEW c \in Clients, BeginClear(c) PROVE PeriodInv'
  BY <1>5 DEF BeginClear, TryLock, LockBusy, Goto
<1>6. ASSUME NEW c \in Clients, EndClear(c) PROVE PeriodInv'
  BY <1>6 DEF EndClear, UnregisterNow, UnregisterLater, Goto
<1>7. CASE TestObservers
  BY <1>7 DEF TestObservers, CameraGoto
<1>8. CASE FallAsleep
  BY <1>8 DEF FallAsleep, CameraGoto
<1>9. CASE SpuriousWakeup
  BY <1>9 DEF SpuriousWakeup, CameraGoto
<1>10. CASE TakePicture
  BY <1>10 DEF TakePicture, CameraGoto
<1>11. CASE LockObservers
  BY <1>11 DEF LockObservers, NotifyBegin, CameraGoto
<1>12. CASE CallObserver
  BY <1>12 DEF CallObserver, NotifyOne, CameraGoto, SetDesiredPeriod,
     AddToDesiredPeriods, UpdatePeriodFromDesired
<1>13. CASE EndCalls
  BY <1>13 DEF EndCalls, CameraGoto
<1>14. CASE HandleQueue
  BY <1>14 DEF HandleQueue, HandleRegistrationQueue, Handled, CameraGoto
<1>15. CASE UnlockObservers
  BY <1>15 DEF UnlockObservers, NotifyEnd, CameraGoto
<1>16. CASE Again
  BY <1>16 DEF Again, CameraGoto
<1>17. CASE RaiseDone
  BY <1>17 DEF RaiseDone
<1>18. CASE WakeCamera
  BY <1>18 DEF WakeCamera, NotifyCv
<1>19. CASE JoinCamera
  BY <1>19 DEF JoinCamera
<1>20. CASE UNCHANGED vars
  BY <1>20 DEF vars
<1>. QED
  BY <1>1, <1>2, <1>3, <1>4, <1>5, <1>6, <1>7, <1>8, <1>9, <1>10, <1>11,
     <1>12, <1>13, <1>14, <1>15, <1>16, <1>17, <1>18, <1>19, <1>20
     DEF Next, Adding, CameraStep, Destroyed

-----------------------------------------------------------------------------
(* The invariant holds in every reachable state.                           *)
THEOREM InvariantCorrect == Spec => []IInv
<1>1. IInv /\ [Next]_vars => IInv'
  BY TypeStep, LockStep, IdStep, OwnerStep, ClearStep, PeriodStep DEF IInv
<1>. QED
  BY <1>1, InitIInv, PTL DEF Spec

(* Every variable keeps its type, and a walk is always over registered     *)
(* observers.                                                              *)
THEOREM TypeCorrect == Spec => []TypeOK
<1>1. IInv => TypeOK
  BY DEF IInv
<1>. QED
  BY <1>1, InvariantCorrect, PTL

(* After clear() returned true the observer is in no list and is not       *)
(* called any more, for any number of clients and registrations.           *)
THEOREM ClearIsFinal == Spec => []TrueClearIsFinal
<1>1. IInv => TrueClearIsFinal
  BY DEF IInv
<1>. QED
  BY <1>1, InvariantCorrect, PTL

(* The camera is at least as fast as every registered observer asked for.  *)
THEOREM RateSound == Spec => []RateSuitsObservers
<1>1. IInv => RateSuitsObservers
  BY OwnRegistration DEF IInv, PeriodInv, RateSuitsObservers
<1>. QED
  BY <1>1, InvariantCorrect, PTL

(* Nobody changes the observers while notify walks them.                   *)
THEOREM WalkSafe == Spec => WalkIsUndisturbed
<1>1. IInv /\ [Next]_vars => [toNotify # {} => observers' = observers]_vars
  <2> SUFFICES ASSUME IInv, Next, toNotify # {} PROVE observers' = observers
    OBVIOUS
  <2>1. pcCamera = "call" /\ \A c \in Clients : regM # c
    BY ThreadsAssumption DEF IInv, LockInv
  <2> USE DEF subjectVars
  <2>2. ASSUME NEW c \in Clients, BeginAdd(c) \/ Adding(c)
        PROVE  observers' = observers
    BY <2>1, <2>2 DEF BeginAdd, TryLock, LockBusy, Adding, AddRegister, RegisterNow,
       RegisterLater, AddPeriod, AddWake
  <2>3. ASSUME NEW c \in Clients, BeginClear(c) \/ EndClear(c)
        PROVE  observers' = observers
    BY <2>1, <2>3 DEF BeginClear, TryLock, LockBusy, EndClear, UnregisterNow,
       UnregisterLater
  <2>4. CASE CameraStep \/ SpuriousWakeup
    BY <2>1, <2>4 DEF CameraStep, SpuriousWakeup, CameraGoto, TestObservers, FallAsleep,
       TakePicture, LockObservers, CallObserver, NotifyOne, EndCalls, HandleQueue,
       UnlockObservers, Again
  <2>5. CASE RaiseDone \/ WakeCamera \/ JoinCamera \/ Destroyed
    BY <2>5 DEF RaiseDone, WakeCamera, JoinCamera, Destroyed, vars
  <2>. QED
    BY <2>2, <2>3, <2>4, <2>5 DEF Next
<1>. QED
  BY <1>1, InvariantCorrect, PTL DEF Spec, WalkIsUndisturbed
=============================================================================
