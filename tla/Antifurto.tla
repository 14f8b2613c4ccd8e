----------------------------- MODULE Antifurto -----------------------------
(***************************************************************************)
(* Antifurto.cpp and LiveViewController.cpp: who creates and destroys the  *)
(* camera, and who registers with it.  Four kinds of threads meet here:    *)
(*   - Main obeys the commands that arrive as signals, under m_;           *)
(*   - the starter waits, then starts the monitor, under m_;               *)
(*   - a stopper runs LiveViewController::stop's work, without m_;         *)
(*   - each camera's thread calls the observers, without m_.               *)
(*                                                                         *)
(* The camera controller is seen from outside: its notifications, and its  *)
(* destructor joining its thread.  CameraController looks inside it.  What *)
(* ends the program (a null or dangling pointer, an exception that nobody  *)
(* catches) is recorded in failure, and nothing happens after it.          *)
(***************************************************************************)
EXTENDS Integers

CONSTANTS Commands,   \* which commands the user gives
          Cameras,    \* bound: as many camera controllers at once
          Stoppers,   \* bound: as many threads of stop's work at once
          Main, Starter,
          None,       \* no camera, no future, m_ is free
          Dangling    \* points to a camera that was destroyed

ASSUME CommandsAssumption ==
  Commands \subseteq {"startMonitoring", "stopMonitoring", "startLiveView", "stopLiveView"}
ASSUME ThreadsAssumption ==   \* all of them are different
  /\ Cameras \cap Stoppers = {}
  /\ {Main, Starter, None, Dangling} \cap (Cameras \cup Stoppers) = {}
  /\ Main # Starter /\ None \notin {Main, Starter, Dangling}

Threads == {Main} \cup Stoppers \cup Cameras
Clients == {"monitor", "liveView"}
NoWish == [c \in Clients |-> "none"]

VARIABLES
  m,                  \* who holds m_
  monitorActive, liveViewActive, stopMonitorRequest,
  monitor,            \* monitor_ is not null
  camera,             \* camera_
  registration,       \* monitorRegistration_, liveViewRegistration_
  starter,            \* startMonitorFuture_ and its thread
  status,             \* LiveViewController::status_
  liveView,           \* LiveViewController::liveView_ is not null
  stopWork,           \* LiveViewController::stopWork_
  pc,                 \* where each thread is
  back,               \* where Main goes on after the call it is in
  arg,                \* the camera it destroys or the stopper it spawned
  observers, queue,   \* of each camera: observers_, registrationQueue_
  toCall,             \* of each camera: whom notify has still to call
  done,               \* of each camera: done_
  failure

flags == <<monitorActive, liveViewActive>>
control == <<pc, back, arg>>
cameraVars == <<observers, queue, toCall, done>>
startVars == <<starter, stopMonitorRequest, monitor>>
stopVars == <<status, liveView, stopWork>>
vars == <<m, flags, startVars, camera, registration, stopVars, control,
          cameraVars, failure>>

(* Main holds m_ throughout a command, except where stopMonitoring waits.  *)
HolderOK ==
  m = IF pc[Main] \notin {"idle", "get", "relock"} THEN Main
      ELSE IF starter = "registering" THEN Starter ELSE None

FlagsOK ==
  /\ {monitorActive, liveViewActive, stopMonitorRequest, monitor, liveView}
       \subseteq BOOLEAN
  /\ camera \in Cameras \cup {None}
  /\ registration \in [Clients -> Cameras \cup {None, Dangling}]
  /\ starter \in {"invalid", "waiting", "locking", "registering", "ready"}
  /\ status \in {"STARTED", "STOPPING", "STOPPED"}
  /\ stopWork \in Stoppers \cup {None}
  /\ failure \in {"none", "null camera", "null live view", "dead camera", "no future"}

ControlOK ==
  /\ pc \in [Threads -> {"off", "idle", "need", "create", "destroy", "join",
                         "launch", "get", "relock", "clear", "unlock", "period",
                         "start", "wait", "open", "register", "started",
                         "stop", "spawn", "assign", "discard",
                         "inactive", "close", "calling", "exit"}]
  /\ back \in {"idle", "launch", "unlock", "period"}
  /\ arg \in [Threads -> Cameras \cup Stoppers \cup {None}]

SubjectsOK ==
  /\ observers \in [Cameras -> SUBSET Clients]
  /\ queue \in [Cameras -> [Clients -> {"none", "add", "remove"}]]
  /\ toCall \in [Cameras -> SUBSET Clients]
  /\ done \in [Cameras -> BOOLEAN]

TypeOK == HolderOK /\ FlagsOK /\ ControlOK /\ SubjectsOK

Init ==
  /\ m = None
  /\ monitorActive = FALSE /\ liveViewActive = FALSE
  /\ stopMonitorRequest = FALSE /\ monitor = FALSE
  /\ camera = None
  /\ registration = [c \in Clients |-> None]
  /\ starter = "invalid"
  /\ status = "STOPPED" /\ liveView = FALSE /\ stopWork = None
  /\ pc = [t \in Threads |-> IF t = Main THEN "idle" ELSE "off"]
  /\ back = "idle"
  /\ arg = [t \in Threads |-> None]
  /\ observers = [k \in Cameras |-> {}]
  /\ queue = [k \in Cameras |-> NoWish]
  /\ toCall = [k \in Cameras |-> {}]
  /\ done = [k \in Cameras |-> FALSE]
  /\ failure = "none"

-----------------------------------------------------------------------------
(* Control                                                                 *)

At(t, label) == failure = "none" /\ pc[t] = label
Goto(t, label) == pc' = [pc EXCEPT ![t] = label]
Call(label, return) == Goto(Main, label) /\ back' = return
Back(t) ==
  IF t = Main THEN back ELSE IF t \in Cameras THEN "calling" ELSE "close"
Returned(t) == back' = IF t = Main THEN "idle" ELSE back
Return(t) == Goto(t, Back(t)) /\ Returned(t)
LockM(t) == m = None /\ m' = t
UnlockM == m' = None

Fail(what) ==
  /\ failure' = what
  /\ UNCHANGED <<m, flags, startVars, camera, registration, stopVars, control, cameraVars>>

-----------------------------------------------------------------------------
(* Registrations, as in Subject: at once between two notifications, queued *)
(* during one.                                                             *)

Notifying(k) == pc[k] \in {"calling", "stop", "spawn", "assign", "discard"}

(* wish[k][c]: what is asked of camera k's subject for client c.  In the    *)
(* queue the last operation on a client is the one that counts.            *)
Over(wish, old) == [c \in Clients |-> IF wish[c] = "none" THEN old[c] ELSE wish[c]]
Apply(wish, obs) ==
  {c \in Clients : wish[c] = "add" \/ (c \in obs /\ wish[c] # "remove")}

Submit(wish) ==
  /\ queue' = [k \in Cameras |-> IF Notifying(k) THEN Over(wish[k], queue[k]) ELSE queue[k]]
  /\ observers' = [k \in Cameras |->
       IF Notifying(k) THEN observers[k] ELSE Apply(wish[k], observers[k])]
  /\ UNCHANGED <<toCall, done>>

(* The old Registration is cleared when the new one is assigned.  An id is *)
(* a client here, so nothing changes when the camera is the same.          *)
AddObserver(c) ==
  /\ camera # None
  /\ registration[c] # Dangling
  /\ Submit([k \in Cameras |-> [NoWish EXCEPT
       ![c] = IF k = camera THEN "add" ELSE IF k = registration[c] THEN "remove" ELSE "none"]])
  /\ registration' = [registration EXCEPT ![c] = camera]

ClearRegistration(c) ==
  /\ registration[c] # Dangling
  /\ Submit([k \in Cameras |-> [NoWish EXCEPT
       ![c] = IF k = registration[c] THEN "remove" ELSE "none"]])
  /\ registration' = [registration EXCEPT ![c] = None]

-----------------------------------------------------------------------------
(* handleCameraControllerNeed, called by Main and by the stoppers          *)

NeedTest(t) ==
  /\ At(t, "need")
  /\ \/ (liveViewActive \/ monitorActive) /\ camera = None /\ Goto(t, "create")
        /\ UNCHANGED back
     \/ ~liveViewActive /\ ~monitorActive /\ Goto(t, "destroy") /\ UNCHANGED back
     \/ (liveViewActive \/ monitorActive) /\ camera # None /\ Return(t)
  /\ UNCHANGED <<m, flags, startVars, camera, registration, stopVars, arg,
                 cameraVars, failure>>

(* unique_ptr::reset changes the pointer first, then deletes the old one,  *)
(* if any: ~CameraController raises done_ and joins the thread.            *)
Replace(t, k) ==
  /\ camera' = k
  /\ arg' = [arg EXCEPT ![t] = camera]
  /\ done' = [j \in Cameras |-> IF j = camera THEN TRUE ELSE IF j = k THEN FALSE ELSE done[j]]

NeedCreate(t) ==
  /\ At(t, "create")
  /\ \E k \in Cameras :
       /\ pc[k] = "off"
       /\ Replace(t, k)
       /\ pc' = [pc EXCEPT ![k] = "idle", ![t] = IF camera = None THEN Back(t) ELSE "join"]
  /\ IF camera = None THEN Returned(t) ELSE UNCHANGED back
  /\ UNCHANGED <<m, flags, startVars, registration, stopVars, observers,
                 queue, toCall, failure>>

NeedDestroy_Bug(t) ==   \* the camera's thread is not joined
  /\ At(t, "destroy")
  /\ Replace(t, None)
  /\ Return(t)
  /\ UNCHANGED <<m, flags, startVars, registration, stopVars, observers,
                 queue, toCall, failure>>

NeedDestroy(t) ==
  /\ At(t, "destroy")
  /\ Replace(t, None)
  /\ IF camera = None THEN Return(t) ELSE Goto(t, "join") /\ UNCHANGED back
  /\ UNCHANGED <<m, flags, startVars, registration, stopVars, observers,
                 queue, toCall, failure>>

NeedJoin(t) ==
  /\ At(t, "join")
  /\ pc[arg[t]] = "exit"
  /\ LET k == arg[t] IN
       /\ pc' = [pc EXCEPT ![k] = "off", ![t] = Back(t)]
       /\ registration' = [c \in Clients |->
                             IF registration[c] = k THEN Dangling ELSE registration[c]]
       /\ observers' = [observers EXCEPT ![k] = {}]
       /\ queue' = [queue EXCEPT ![k] = NoWish]
       /\ toCall' = [toCall EXCEPT ![k] = {}]
       /\ done' = [done EXCEPT ![k] = FALSE]
  /\ arg' = [arg EXCEPT ![t] = None]
  /\ Returned(t)
  /\ UNCHANGED <<m, flags, startVars, camera, stopVars, failure>>

HandleCameraControllerNeed(t) ==
  NeedTest(t) \/ NeedCreate(t) \/ NeedDestroy(t) \/ NeedJoin(t)

-----------------------------------------------------------------------------
(* startMonitoring and stopMonitoring.  Commands that have nothing to do   *)
(* return at once and are left out.                                        *)

StartMonitoring ==
  /\ "startMonitoring" \in Commands
  /\ At(Main, "idle")
  /\ LockM(Main)
  /\ ~monitorActive
  /\ monitorActive' = TRUE
  /\ Call("need", "launch")
  /\ UNCHANGED <<liveViewActive, startVars, camera, registration, stopVars, arg,
                 cameraVars, failure>>

LaunchStarter_Bug ==   \* an old request is not forgotten
  /\ At(Main, "launch")
  /\ starter' = "waiting"
  /\ UnlockM
  /\ Goto(Main, "idle")
  /\ UNCHANGED <<flags, stopMonitorRequest, monitor, camera, registration, stopVars,
                 back, arg, cameraVars, failure>>

LaunchStarter ==
  /\ At(Main, "launch")
  /\ stopMonitorRequest' = FALSE
  /\ starter' = "waiting"
  /\ UnlockM
  /\ Goto(Main, "idle")
  /\ UNCHANGED <<flags, monitor, camera, registration, stopVars, back, arg,
                 cameraVars, failure>>

(* The start-up delay has passed or the thread has seen stopMonitorRequest_. *)
StarterWaited ==
  /\ failure = "none" /\ starter = "waiting"
  /\ starter' = "locking"
  /\ UNCHANGED <<m, flags, stopMonitorRequest, monitor, camera, registration,
                 stopVars, control, cameraVars, failure>>

StarterAborts ==
  /\ failure = "none" /\ starter = "locking" /\ m = None
  /\ stopMonitorRequest
  /\ stopMonitorRequest' = FALSE
  /\ starter' = "ready"
  /\ UNCHANGED <<m, flags, monitor, camera, registration, stopVars, control,
                 cameraVars, failure>>

StarterProceeds_Bug ==   \* the shutdown request is not looked at
  /\ failure = "none" /\ starter = "locking"
  /\ LockM(Starter)
  /\ monitor' = TRUE
  /\ starter' = "registering"
  /\ UNCHANGED <<flags, stopMonitorRequest, camera, registration, stopVars,
                 control, cameraVars, failure>>

StarterProceeds ==
  /\ failure = "none" /\ starter = "locking"
  /\ LockM(Starter)
  /\ ~stopMonitorRequest
  /\ monitor' = TRUE
  /\ starter' = "registering"
  /\ UNCHANGED <<flags, stopMonitorRequest, camera, registration, stopVars,
                 control, cameraVars, failure>>

StarterRegisters ==
  /\ failure = "none" /\ starter = "registering"
  /\ \/ camera = None /\ Fail("null camera")
     \/ camera # None /\ registration["monitor"] = Dangling /\ Fail("dead camera")
     \/ /\ AddObserver("monitor")
        /\ UnlockM
        /\ starter' = "ready"
        /\ UNCHANGED <<flags, stopMonitorRequest, monitor, camera, stopVars,
                       control, failure>>

Starting == StarterWaited \/ StarterAborts \/ StarterProceeds \/ StarterRegisters

StopMonitoring_Locked ==   \* the future is waited for under m_
  /\ "stopMonitoring" \in Commands
  /\ At(Main, "idle")
  /\ LockM(Main)
  /\ monitorActive
  /\ monitorActive' = FALSE
  /\ stopMonitorRequest' = TRUE
  /\ Goto(Main, "get")
  /\ UNCHANGED <<liveViewActive, starter, monitor, camera, registration,
                 stopVars, back, arg, cameraVars, failure>>

StopMonitoring_Bug ==   \* the future is not waited for
  /\ "stopMonitoring" \in Commands
  /\ At(Main, "idle")
  /\ m = None
  /\ monitorActive
  /\ monitorActive' = FALSE
  /\ stopMonitorRequest' = TRUE
  /\ Goto(Main, "relock")
  /\ UNCHANGED <<m, liveViewActive, starter, monitor, camera, registration,
                 stopVars, back, arg, cameraVars, failure>>

(* m_ is taken and given back before the future is waited for.             *)
StopMonitoring ==
  /\ "stopMonitoring" \in Commands
  /\ At(Main, "idle")
  /\ m = None
  /\ monitorActive
  /\ monitorActive' = FALSE
  /\ IF starter # "invalid"
     THEN stopMonitorRequest' = TRUE /\ Goto(Main, "get")
     ELSE Goto(Main, "relock") /\ UNCHANGED stopMonitorRequest
  /\ UNCHANGED <<m, liveViewActive, starter, monitor, camera, registration,
                 stopVars, back, arg, cameraVars, failure>>

GetStarter ==
  /\ At(Main, "get")
  /\ starter = "ready"
  /\ starter' = "invalid"
  /\ Goto(Main, "relock")
  /\ UNCHANGED <<m, flags, stopMonitorRequest, monitor, camera, registration,
                 stopVars, back, arg, cameraVars, failure>>

Relock ==
  /\ At(Main, "relock")
  /\ LockM(Main)
  /\ Call(IF monitor THEN "clear" ELSE "need", "unlock")
  /\ UNCHANGED <<flags, startVars, camera, registration, stopVars, arg,
                 cameraVars, failure>>

StopMonitor_Bug ==   \* the registration is not cleared
  /\ At(Main, "clear")
  /\ Goto(Main, "need")
  /\ UNCHANGED <<m, flags, startVars, camera, registration, stopVars, back, arg,
                 cameraVars, failure>>

StopMonitor ==
  /\ At(Main, "clear")
  /\ \/ registration["monitor"] = Dangling /\ Fail("dead camera")
     \/ /\ ClearRegistration("monitor")
        /\ Goto(Main, "need")
        /\ UNCHANGED <<m, flags, startVars, camera, stopVars, back, arg, failure>>

Unlock ==
  /\ At(Main, "unlock")
  /\ UnlockM
  /\ Goto(Main, "idle")
  /\ UNCHANGED <<flags, startVars, camera, registration, stopVars, back, arg,
                 cameraVars, failure>>

-----------------------------------------------------------------------------
(* startLiveView, with LiveViewController::start                           *)

StartLiveView ==
  /\ "startLiveView" \in Commands
  /\ At(Main, "idle")
  /\ LockM(Main)
  /\ ~liveViewActive
  /\ liveViewActive' = TRUE
  /\ Call("need", "period")
  /\ UNCHANGED <<monitorActive, startVars, camera, registration, stopVars, arg,
                 cameraVars, failure>>

(* setMonitorPeriod dereferences camera_.                                  *)
SetPeriod ==
  /\ At(Main, "period")
  /\ \/ camera = None /\ Fail("null camera")
     \/ /\ camera # None
        /\ Goto(Main, "start")
        /\ UNCHANGED <<m, flags, startVars, camera, registration, stopVars, back,
                       arg, cameraVars, failure>>

StartTest ==
  /\ At(Main, "start")
  /\ Goto(Main, CASE status = "STARTED" -> "unlock"
                  [] status = "STOPPING" -> "wait"
                  [] status = "STOPPED" -> "open")
  /\ UNCHANGED <<m, flags, startVars, camera, registration, stopVars, back, arg,
                 cameraVars, failure>>

(* stopWork_.get() throws when the future has been read already.           *)
WaitForStop ==
  /\ At(Main, "wait")
  /\ \/ stopWork = None /\ Fail("no future")
     \/ /\ stopWork # None
        /\ pc[stopWork] = "off"
        /\ stopWork' = None
        /\ Goto(Main, "open")
        /\ UNCHANGED <<m, flags, startVars, camera, registration, status, liveView,
                       back, arg, cameraVars, failure>>

OpenLiveView ==
  /\ At(Main, "open")
  /\ liveView' = TRUE
  /\ Goto(Main, "register")
  /\ UNCHANGED <<m, flags, startVars, camera, registration, status, stopWork,
                 back, arg, cameraVars, failure>>

RegisterLiveView ==
  /\ At(Main, "register")
  /\ \/ camera = None /\ Fail("null camera")
     \/ camera # None /\ registration["liveView"] = Dangling /\ Fail("dead camera")
     \/ /\ AddObserver("liveView")
        /\ Goto(Main, "started")
        /\ UNCHANGED <<m, flags, startVars, camera, stopVars, back, arg, failure>>

LiveViewStarted ==
  /\ At(Main, "started")
  /\ status' = "STARTED"
  /\ Goto(Main, "unlock")
  /\ UNCHANGED <<m, flags, startVars, camera, registration, liveView, stopWork,
                 back, arg, cameraVars, failure>>

-----------------------------------------------------------------------------
(* stopLiveView, and LiveViewController::stop, which a camera calls too    *)

StopLiveView ==
  /\ "stopLiveView" \in Commands
  /\ At(Main, "idle")
  /\ LockM(Main)
  /\ liveViewActive
  /\ liveViewActive' = FALSE
  /\ Call("stop", "unlock")
  /\ UNCHANGED <<monitorActive, startVars, camera, registration, stopVars, arg,
                 cameraVars, failure>>

StopTest(t) ==
  /\ At(t, "stop")
  /\ IF status = "STARTED" THEN Goto(t, "spawn") /\ UNCHANGED back ELSE Return(t)
  /\ UNCHANGED <<m, flags, startVars, camera, registration, stopVars, arg,
                 cameraVars, failure>>

StopSpawn(t) ==
  /\ At(t, "spawn")
  /\ status' = "STOPPING"
  /\ \E s \in Stoppers :
       /\ pc[s] = "off" /\ s # stopWork /\ \A u \in Threads : arg[u] # s
       /\ pc' = [pc EXCEPT ![s] = "clear", ![t] = "assign"]
       /\ arg' = [arg EXCEPT ![t] = s]
  /\ UNCHANGED <<m, flags, startVars, camera, registration, liveView, stopWork,
                 back, cameraVars, failure>>

StopAssign(t) ==
  /\ At(t, "assign")
  /\ stopWork' = arg[t]
  /\ arg' = [arg EXCEPT ![t] = stopWork]
  /\ IF stopWork = None THEN Return(t) ELSE Goto(t, "discard") /\ UNCHANGED back
  /\ UNCHANGED <<m, flags, startVars, camera, registration, status, liveView,
                 cameraVars, failure>>

(* Letting go of a future of std::async waits for its thread.              *)
StopDiscard(t) ==
  /\ At(t, "discard")
  /\ pc[arg[t]] = "off"
  /\ arg' = [arg EXCEPT ![t] = None]
  /\ Return(t)
  /\ UNCHANGED <<m, flags, startVars, camera, registration, stopVars, cameraVars,
                 failure>>

Stop(t) == StopTest(t) \/ StopSpawn(t) \/ StopAssign(t) \/ StopDiscard(t)

(* The work itself: regFunc_(false), then the rest.                        *)
StopperUnregisters(s) ==
  /\ At(s, "clear")
  /\ \/ registration["liveView"] = Dangling /\ Fail("dead camera")
     \/ /\ ClearRegistration("liveView")
        /\ Goto(s, "inactive")
        /\ UNCHANGED <<m, flags, startVars, camera, stopVars, back, arg, failure>>

StopperDeactivates(s) ==
  /\ At(s, "inactive")
  /\ liveViewActive' = FALSE
  /\ Goto(s, "need")
  /\ UNCHANGED <<m, monitorActive, startVars, camera, registration, stopVars, back,
                 arg, cameraVars, failure>>

StopperCloses(s) ==
  /\ At(s, "close")
  /\ liveView' = FALSE
  /\ Goto(s, "exit")
  /\ UNCHANGED <<m, flags, startVars, camera, registration, status, stopWork,
                 back, arg, cameraVars, failure>>

StopperEnds(s) ==
  /\ At(s, "exit")
  /\ status' = "STOPPED"
  /\ Goto(s, "off")
  /\ UNCHANGED <<m, flags, startVars, camera, registration, liveView, stopWork,
                 back, arg, cameraVars, failure>>

Stopping(s) ==
  \/ StopperUnregisters(s) \/ StopperDeactivates(s) \/ HandleCameraControllerNeed(s)
  \/ StopperCloses(s) \/ StopperEnds(s)

-----------------------------------------------------------------------------
(* A camera's thread: notify, with the observers' work                     *)

CameraExits(k) ==
  /\ At(k, "idle")
  /\ done[k]
  /\ Goto(k, "exit")
  /\ UNCHANGED <<m, flags, startVars, camera, registration, stopVars, back, arg,
                 cameraVars, failure>>

Notify(k) ==
  /\ At(k, "idle")
  /\ ~done[k]
  /\ observers[k] # {}
  /\ toCall' = [toCall EXCEPT ![k] = observers[k]]
  /\ Goto(k, "calling")
  /\ UNCHANGED <<m, flags, startVars, camera, registration, stopVars, back, arg,
                 observers, queue, done, failure>>

Called(k, c) ==
  /\ c \in toCall[k]
  /\ toCall' = [toCall EXCEPT ![k] = @ \ {c}]
  /\ UNCHANGED <<m, flags, startVars, camera, registration, stopVars, back, arg,
                 observers, queue, done, failure>>

(* examinePicture; when the alarm state changes, setMonitorPeriod.         *)
CallMonitor(k) ==
  /\ At(k, "calling")
  /\ \/ Called(k, "monitor") /\ UNCHANGED pc
     \/ "monitor" \in toCall[k] /\ camera = None /\ Fail("null camera")

(* addPicture: nobody asked for a picture for too long, or not.            *)
CallLiveView(k) ==
  /\ At(k, "calling")
  /\ \/ liveView /\ Called(k, "liveView") /\ (UNCHANGED pc \/ Goto(k, "stop"))
     \/ "liveView" \in toCall[k] /\ ~liveView /\ Fail("null live view")

EndNotify(k) ==
  /\ At(k, "calling")
  /\ toCall[k] = {}
  /\ observers' = [observers EXCEPT ![k] = Apply(queue[k], @)]
  /\ queue' = [queue EXCEPT ![k] = NoWish]
  /\ Goto(k, "idle")
  /\ UNCHANGED <<m, flags, startVars, camera, registration, stopVars, back, arg,
                 toCall, done, failure>>

CameraStep(k) ==
  \/ CameraExits(k) \/ Notify(k) \/ CallMonitor(k) \/ CallLiveView(k)
  \/ EndNotify(k) \/ Stop(k)

-----------------------------------------------------------------------------
MainStep ==
  \/ HandleCameraControllerNeed(Main)
  \/ LaunchStarter \/ GetStarter \/ Relock \/ StopMonitor \/ Unlock
  \/ SetPeriod \/ StartTest \/ WaitForStop \/ OpenLiveView \/ RegisterLiveView
  \/ LiveViewStarted \/ Stop(Main)

Command == StartMonitoring \/ StopMonitoring \/ StartLiveView \/ StopLiveView

(* Nothing happens any more, or no command has anything to do.             *)
Rest == (failure # "none" \/ pc[Main] = "idle") /\ UNCHANGED vars

Next ==
  \/ Command \/ MainStep \/ Starting
  \/ \E s \in Stoppers : Stopping(s)
  \/ \E k \in Cameras : CameraStep(k)
  \/ Rest

Spec == Init /\ [][Next]_vars

(* Threads that can run do run.  m_ is asked for by the starter and, after *)
(* get(), by Main; between two commands it stays free.                     *)
Fairness ==
  /\ WF_vars(MainStep)
  /\ SF_vars(Starting)
  /\ \A s \in Stoppers : WF_vars(Stopping(s))
  /\ \A k \in Cameras : WF_vars(CameraStep(k))

FairSpec == Spec /\ Fairness

-----------------------------------------------------------------------------
(* Correctness                                                             *)

(* Once stopMonitoring has returned the monitor is not registered and no   *)
(* start is under way, whenever the command fell into the start-up delay.  *)
StoppedMeansStopped ==
  (pc[Main] = "idle" /\ ~monitorActive) =>
    registration["monitor"] = None /\ starter = "invalid"

(* A start that was cancelled registers nothing (startMonitoring's thread, *)
(* stopMonitorRequest_).                                                   *)
CancelledStartIsCancelled ==
  [][registration["monitor"] = None /\ registration'["monitor"] # None
       => monitorActive]_vars

(* The starter never registers a monitor that is registered already, or    *)
(* was with a camera that is gone: no observer is left behind at a camera  *)
(* with nobody to remove it (registerMonitor, stopMonitoring).             *)
NoMonitorLeftBehind ==
  [][starter = "registering" /\ starter' = "ready" =>
       registration["monitor"] = None]_vars

(* A start that is not cancelled takes effect.                             *)
StartTakesEffect ==
  monitorActive ~> (registration["monitor"] # None \/ ~monitorActive \/ failure # "none")

(* LiveViewController.hpp:16, "starting and stopping LiveView in a         *)
(* gracefully way": no order of starts and stops ends the program.         *)
CameraIsThere == failure # "null camera"

(* Only one CameraController at a time has the camera device.              *)
OneCamera == \A j, k \in Cameras : (pc[j] # "off" /\ pc[k] # "off") => j = k
=============================================================================
