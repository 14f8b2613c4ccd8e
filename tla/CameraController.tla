-------------------------- MODULE CameraController --------------------------
(***************************************************************************)
(* CameraController.cpp: a thread that takes pictures and notifies them as *)
(* long as there is an observer, and sleeps on a condition variable when   *)
(* there is none; its two clients, the monitor and the live view, register *)
(* and unregister while it runs (Antifurto.cpp registerMonitor,            *)
(* registerLiveView).  Registrations are made one at a time: both callers  *)
(* hold Antifurto's m_.  Unregistrations are not: the live view's runs on  *)
(* a thread of its own.                                                    *)
(***************************************************************************)
EXTENDS Subject

CONSTANTS Clients,        \* who observes the camera
          Periods,        \* cycle times that clients ask for, shortest = 1
          MaxPeriod,      \* numeric_limits<int>::max()
          Camera          \* the thread of controllerLoop

ASSUME PeriodsAssumption ==
  /\ Periods \subseteq Nat \ {0}
  /\ MaxPeriod \in Nat
  /\ \A p \in Periods : p < MaxPeriod
ASSUME ThreadsAssumption ==
  /\ MaxId \in Nat
  /\ Camera \notin Clients
  /\ Nobody \notin Clients \cup {Camera}

VARIABLES
  pcClient,         \* where each client is in addObserver or clear
  registration,     \* the id of each client's Registration, 0 at first
  pcCamera,         \* where the camera thread is in controllerLoop
  notified,         \* the result of notify
  done,             \* done_
  pcOwner,          \* where the owner is in ~CameraController
  desiredPeriods,   \* desiredPeriods_: period wanted for each id, 0 if none
  cycleTime,        \* of the metronome
  finished          \* history: ids whose clear() returned true

cameraVars == <<pcCamera, notified>>
periodVars == <<desiredPeriods, cycleTime>>
clientVars == <<pcClient, registration, finished>>
ownerVars == <<done, pcOwner>>
vars == <<subjectVars, cameraVars, periodVars, clientVars, ownerVars>>

TypeOK ==
  /\ SubjectTypeOK(Clients \cup {Camera})
  /\ pcClient \in [Clients -> {"out", "insert", "queue", "period", "wake",
                               "in", "remove", "queueRemoval"}]
  /\ registration \in [Clients -> 0 .. MaxId]
  /\ pcCamera \in {"test", "sleepy", "asleep", "take", "notify", "call",
                   "handle", "release", "again", "exit"}
  /\ notified \in BOOLEAN
  /\ done \in BOOLEAN
  /\ pcOwner \in {"alive", "wake", "join", "gone"}
  /\ desiredPeriods \in [Ids -> Periods \cup {0}]
  /\ cycleTime \in Periods \cup {MaxPeriod}
  /\ finished \subseteq Ids

Init ==
  /\ SubjectInit
  /\ pcClient = [c \in Clients |-> "out"]
  /\ registration = [c \in Clients |-> 0]
  /\ pcCamera = "test"
  /\ notified = FALSE
  /\ done = FALSE
  /\ pcOwner = "alive"
  /\ desiredPeriods = [i \in Ids |-> 0]
  /\ cycleTime \in Periods
  /\ finished = {}

-----------------------------------------------------------------------------
(* Capture rate                                                            *)

(* min_element; the thread sleeps MaxPeriod when nobody asked for anything. *)
UpdatePeriodFromDesired ==
  LET wanted == ({desiredPeriods'[i] : i \in Ids} \cup {MaxPeriod}) \ {0}
  IN  /\ cycleTime' \in wanted
      /\ \A p \in wanted : cycleTime' <= p

AddToDesiredPeriods(id, p) ==
  /\ desiredPeriods' = [desiredPeriods EXCEPT ![id] = p]
  /\ UpdatePeriodFromDesired

(* Ids that were never added are not found and nothing changes.            *)
SetDesiredPeriod(id, p) ==
  IF id \in Ids /\ desiredPeriods[id] # 0
  THEN AddToDesiredPeriods(id, p)
  ELSE UNCHANGED periodVars

-----------------------------------------------------------------------------
(* addObserver, on a client's thread                                       *)

Goto(c, from, to) ==
  /\ pcClient[c] = from
  /\ pcClient' = [pcClient EXCEPT ![c] = to]

(* cv_.notify_one(), which has no effect when nobody waits.                *)
NotifyCv ==
  pcCamera' = IF pcCamera = "asleep" THEN "test" ELSE pcCamera

BeginAdd(c) ==
  /\ pcOwner = "alive"
  /\ nextFreeId \in Ids
  /\ \A d \in Clients : pcClient[d] \notin {"insert", "queue", "period", "wake"}
  /\ \/ TryLock(c) /\ Goto(c, "out", "insert")
     \/ LockBusy /\ Goto(c, "out", "queue")
  /\ UNCHANGED <<cameraVars, periodVars, registration, finished, ownerVars>>

AddRegister(c) ==
  /\ \/ RegisterNow(c) /\ Goto(c, "insert", "period")
     \/ RegisterLater /\ Goto(c, "queue", "period")
  /\ UNCHANGED <<cameraVars, periodVars, registration, finished, ownerVars>>

(* The id just given: nobody else adds before this call returns.           *)
currentId == nextFreeId - 1

AddPeriod_Bug(c) ==   \* updatePeriodFromDesired is forgotten
  /\ Goto(c, "period", "wake")
  /\ \E p \in Periods : desiredPeriods' = [desiredPeriods EXCEPT ![currentId] = p]
  /\ UNCHANGED <<subjectVars, cameraVars, cycleTime, registration, finished, ownerVars>>

AddPeriod(c) ==
  /\ Goto(c, "period", "wake")
  /\ \E p \in Periods : AddToDesiredPeriods(currentId, p)
  /\ UNCHANGED <<subjectVars, cameraVars, registration, finished, ownerVars>>

(* The Registration returned replaces the client's old one.                *)
AddWake(c) ==
  /\ Goto(c, "wake", "in")
  /\ NotifyCv
  /\ registration' = [registration EXCEPT ![c] = currentId]
  /\ UNCHANGED <<subjectVars, notified, periodVars, finished, ownerVars>>

-----------------------------------------------------------------------------
(* Registration::clear, on a client's thread                               *)

BeginClear(c) ==
  /\ \/ TryLock(c) /\ Goto(c, "in", "remove")
     \/ LockBusy /\ Goto(c, "in", "queueRemoval")
  /\ UNCHANGED <<cameraVars, periodVars, registration, finished, ownerVars>>

EndClear_Bug(c) ==   \* clear returns true although the removal is only queued
  /\ \/ /\ Goto(c, "remove", "out")
        /\ \E found \in BOOLEAN :
             /\ UnregisterNow(c, registration[c], found)
             /\ finished' = IF found THEN finished \cup {registration[c]} ELSE finished
     \/ /\ Goto(c, "queueRemoval", "out")
        /\ UnregisterLater(registration[c])
        /\ finished' = finished \cup {registration[c]}
  /\ UNCHANGED <<cameraVars, periodVars, registration, ownerVars>>

(* Clear returns true if the observer was found, false otherwise.          *)
EndClear(c) ==
  /\ \/ /\ Goto(c, "remove", "out")
        /\ \E found \in BOOLEAN :
             /\ UnregisterNow(c, registration[c], found)
             /\ finished' = IF found THEN finished \cup {registration[c]} ELSE finished
     \/ /\ Goto(c, "queueRemoval", "out")
        /\ UnregisterLater(registration[c])
        /\ UNCHANGED finished
  /\ UNCHANGED <<cameraVars, periodVars, registration, ownerVars>>

Adding(c) == AddRegister(c) \/ AddPeriod(c) \/ AddWake(c)

-----------------------------------------------------------------------------
(* controllerLoop, on the camera thread                                    *)

CameraGoto(from, to) == pcCamera = from /\ pcCamera' = to

(* Under cvm_, which stays locked until wait releases it in FallAsleep.    *)
TestObservers ==
  /\ \/ done /\ CameraGoto("test", "exit")
     \/ ~done /\ observers = {} /\ CameraGoto("test", "sleepy")
     \/ ~done /\ observers # {} /\ CameraGoto("test", "take")
  /\ UNCHANGED <<subjectVars, notified, periodVars, clientVars, ownerVars>>

FallAsleep ==
  /\ CameraGoto("sleepy", "asleep")
  /\ UNCHANGED <<subjectVars, notified, periodVars, clientVars, ownerVars>>

SpuriousWakeup ==
  /\ CameraGoto("asleep", "test")
  /\ UNCHANGED <<subjectVars, notified, periodVars, clientVars, ownerVars>>

(* metronome_.checkpoint() and camera_.takePicture() return.               *)
TakePicture ==
  /\ CameraGoto("take", "notify")
  /\ UNCHANGED <<subjectVars, notified, periodVars, clientVars, ownerVars>>

LockObservers ==
  /\ CameraGoto("notify", "call")
  /\ NotifyBegin(Camera)
  /\ UNCHANGED <<notified, periodVars, clientVars, ownerVars>>

(* An observer is called; the monitor's may ask for another period for the *)
(* registration it holds at that moment.                                   *)
CallObserver ==
  /\ CameraGoto("call", "call")
  /\ \E id \in toNotify : NotifyOne(id)
  /\ \/ UNCHANGED periodVars
     \/ \E c \in Clients, p \in Periods : SetDesiredPeriod(registration[c], p)
  /\ UNCHANGED <<notified, clientVars, ownerVars>>

EndCalls ==
  /\ CameraGoto("call", "handle")
  /\ toNotify = {}
  /\ notified' = (observers # {})
  /\ UNCHANGED <<subjectVars, periodVars, clientVars, ownerVars>>

HandleQueue ==
  /\ CameraGoto("handle", "release")
  /\ HandleRegistrationQueue
  /\ UNCHANGED <<notified, periodVars, clientVars, ownerVars>>

UnlockObservers ==
  /\ CameraGoto("release", "again")
  /\ NotifyEnd
  /\ UNCHANGED <<notified, periodVars, clientVars, ownerVars>>

Again ==
  /\ \/ notified /\ ~done /\ CameraGoto("again", "take")
     \/ ~(notified /\ ~done) /\ CameraGoto("again", "test")
  /\ UNCHANGED <<subjectVars, notified, periodVars, clientVars, ownerVars>>

CameraStep ==
  \/ TestObservers \/ FallAsleep \/ TakePicture \/ LockObservers
  \/ CallObserver \/ EndCalls \/ HandleQueue \/ UnlockObservers \/ Again

-----------------------------------------------------------------------------
(* ~CameraController, when no client uses it (handleCameraControllerNeed)  *)

RaiseDone_Bug ==   \* done_ is raised without taking cvm_
  /\ pcOwner = "alive"
  /\ \A c \in Clients : pcClient[c] = "out"
  /\ done' = TRUE
  /\ pcOwner' = "wake"
  /\ UNCHANGED <<subjectVars, cameraVars, periodVars, clientVars>>

(* The owner waits for cvm_, held between the test and the wait.           *)
RaiseDone ==
  /\ pcOwner = "alive"
  /\ \A c \in Clients : pcClient[c] = "out"
  /\ pcCamera # "sleepy"
  /\ done' = TRUE
  /\ pcOwner' = "wake"
  /\ UNCHANGED <<subjectVars, cameraVars, periodVars, clientVars>>

WakeCamera ==
  /\ pcOwner = "wake"
  /\ pcOwner' = "join"
  /\ NotifyCv
  /\ UNCHANGED <<subjectVars, notified, periodVars, clientVars, done>>

JoinCamera ==
  /\ pcOwner = "join"
  /\ pcCamera = "exit"
  /\ pcOwner' = "gone"
  /\ UNCHANGED <<subjectVars, cameraVars, periodVars, clientVars, done>>

Destroyed == pcOwner = "gone" /\ UNCHANGED vars

-----------------------------------------------------------------------------
Next ==
  \/ \E c \in Clients : BeginAdd(c) \/ Adding(c) \/ BeginClear(c) \/ EndClear(c)
  \/ CameraStep \/ SpuriousWakeup
  \/ RaiseDone \/ WakeCamera \/ JoinCamera \/ Destroyed

Spec == Init /\ [][Next]_vars

(* Threads that can run do run; a call that was begun is finished.  Nobody *)
(* is obliged to register or unregister, and no wait wakes by itself.      *)
Fairness ==
  /\ WF_vars(CameraStep)
  /\ SF_vars(LockObservers)   \* try_lock holders are brief: the lock is got
  /\ WF_vars(WakeCamera \/ JoinCamera)
  /\ \A c \in Clients : WF_vars(Adding(c)) /\ WF_vars(EndClear(c))

FairSpec == Spec /\ Fairness

-----------------------------------------------------------------------------
(* Correctness                                                             *)

(* "true if the unregistration is completed synchronously": once clear()   *)
(* returned true the observer is in no list any more, and no notification  *)
(* under way still means to call it (SubjectRegistration::clear).          *)
TrueClearIsFinal ==
  \A id \in finished :
    /\ id \notin observers /\ id \notin toNotify
    /\ \A k \in DOMAIN registrationQueue : registrationQueue[k].id # id

(* The camera is never slower than any registered observer asked for.      *)
RateSuitsObservers ==
  \A c \in Clients :
    pcClient[c] = "in" => cycleTime <= desiredPeriods[registration[c]]

(* The destructor never waits for ever: done_ and the wait cannot miss     *)
(* each other (~CameraController, controllerLoop).                         *)
JoinReturns == done ~> (pcOwner = "gone")

(* notify walks the vector of observers: nobody inserts or erases while it *)
(* does, whatever the clients try meanwhile (Subject::notify).             *)
WalkIsUndisturbed == [][toNotify # {} => observers' = observers]_vars

(* CameraController.hpp:30, "Add an observer to the pictures flow": an     *)
(* observer that stays registered is called.                               *)
Registered(id) == \E c \in Clients : pcClient[c] = "in" /\ registration[c] = id

ObserverGetsPictures ==
  \A id \in Ids : Registered(id) ~> (id \in toNotify \/ ~Registered(id))
=============================================================================
