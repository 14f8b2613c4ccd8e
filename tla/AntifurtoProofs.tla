-------------------------- MODULE AntifurtoProofs --------------------------
(***************************************************************************)
(* Theorems about Antifurto.cpp and LiveViewController.cpp, for any number *)
(* of camera controllers and stop works at once and whatever commands are  *)
(* given; then about the program whose commands come from its signals, for *)
(* any numbers of these and any configuration: it is one of Antifurto's    *)
(* users, it forgets no signal, and it never has two cameras.              *)
(***************************************************************************)
EXTENDS Signals, TLAPS

(* Main is in a call exactly when it has somewhere to go on afterwards,    *)
(* and the starter registers only while Main does not hold m_.             *)
InCall == {"need", "create", "destroy", "join", "clear",
           "stop", "spawn", "assign", "discard"}

CallInv ==
  /\ pc[Main] \in InCall <=> back # "idle"
  /\ starter = "registering" => pc[Main] \in {"idle", "get", "relock"}
  /\ \A t \in Threads : /\ pc[t] = "assign" => arg[t] \in Stoppers
                        /\ pc[t] = "join" => arg[t] \in Cameras

(* What the monitor's flag, registration, starter and request say of each  *)
(* other at each place where Main may be.                                  *)
MonitorInv ==
  /\ registration["monitor"] # None => monitor
  /\ (~monitorActive /\ pc[Main] \notin {"get", "relock", "clear"}) =>
       registration["monitor"] = None
  /\ (~monitorActive /\ pc[Main] # "get") => starter = "invalid"
  /\ (pc[Main] = "launch" \/ back = "launch") =>
       monitorActive /\ registration["monitor"] = None /\ starter = "invalid"
  /\ starter \in {"waiting", "locking", "registering"} =>
       registration["monitor"] = None
  /\ (~monitorActive /\ starter \in {"waiting", "locking"}) => stopMonitorRequest
  /\ starter = "registering" => monitorActive /\ monitor

IInv == TypeOK /\ CallInv /\ MonitorInv

-----------------------------------------------------------------------------
(* What the registrations' operators do.                                   *)

(* Registering and unregistering keep the subjects well formed.            *)
LEMMA SubmitType ==
  ASSUME SubjectsOK, NEW wish \in [Cameras -> [Clients -> {"none", "add", "remove"}]],
         Submit(wish)
  PROVE  SubjectsOK'
<1>1. queue' \in [Cameras -> [Clients -> {"none", "add", "remove"}]]
  <2>1. \A k \in Cameras : Over(wish[k], queue[k]) \in [Clients -> {"none", "add", "remove"}]
    BY DEF SubjectsOK, Over
  <2>. QED
    BY <2>1 DEF Submit, SubjectsOK
<1>2. observers' \in [Cameras -> SUBSET Clients]
  BY DEF Submit, SubjectsOK, Apply
<1>. QED
  BY <1>1, <1>2 DEF Submit, SubjectsOK, cameraVars

(* addObserver changes the registration of its client alone.               *)
LEMMA AddObserverType ==
  ASSUME TypeOK, NEW c \in Clients, AddObserver(c)
  PROVE  /\ SubjectsOK'
         /\ registration' \in [Clients -> Cameras \cup {None, Dangling}]
         /\ \A d \in Clients \ {c} : registration'[d] = registration[d]
<1> DEFINE wish == [k \in Cameras |-> [NoWish EXCEPT
       ![c] = IF k = camera THEN "add" ELSE IF k = registration[c] THEN "remove" ELSE "none"]]
<1>1. wish \in [Cameras -> [Clients -> {"none", "add", "remove"}]]
  BY DEF NoWish
<1>2. Submit(wish) /\ camera \in Cameras
  BY DEF AddObserver, TypeOK, FlagsOK
<1>3. registration' = [registration EXCEPT ![c] = camera]
  BY DEF AddObserver
<1> HIDE DEF wish
<1>. QED
  BY <1>1, <1>2, <1>3, SubmitType DEF TypeOK, FlagsOK

(* clear empties the registration of its client and changes no other.      *)
LEMMA ClearRegistrationType ==
  ASSUME TypeOK, NEW c \in Clients, ClearRegistration(c)
  PROVE  /\ SubjectsOK'
         /\ registration' \in [Clients -> Cameras \cup {None, Dangling}]
         /\ registration'[c] = None
         /\ \A d \in Clients \ {c} : registration'[d] = registration[d]
<1> DEFINE wish == [k \in Cameras |-> [NoWish EXCEPT
       ![c] = IF k = registration[c] THEN "remove" ELSE "none"]]
<1>1. wish \in [Cameras -> [Clients -> {"none", "add", "remove"}]]
  BY DEF NoWish
<1>2. Submit(wish)
  BY DEF ClearRegistration
<1>3. registration' = [registration EXCEPT ![c] = None]
  BY DEF ClearRegistration
<1> HIDE DEF wish
<1>. QED
  BY <1>1, <1>2, <1>3, SubmitType DEF TypeOK, FlagsOK

(* A notification that goes on calls one client less.                      *)
LEMMA CalledType ==
  ASSUME SubjectsOK, NEW k \in Cameras, NEW c \in Clients, Called(k, c)
  PROVE  SubjectsOK'
<1>1. toCall' \in [Cameras -> SUBSET Clients]
  BY DEF SubjectsOK, Called
<1>2. UNCHANGED <<observers, queue, done>>
  BY DEF Called
<1>. QED
  BY <1>1, <1>2 DEF SubjectsOK

(* The monitor and the live view are clients.                              *)
LEMMA TwoClients == "monitor" \in Clients /\ "liveView" \in Clients
  BY DEF Clients

-----------------------------------------------------------------------------
(* Every action keeps every part of the invariant.                         *)

(* m_ is held exactly where the code locks it.                             *)
LEMMA HolderStep == TypeOK /\ CallInv /\ [Next]_vars => HolderOK'
<1> SUFFICES ASSUME TypeOK, CallInv, [Next]_vars PROVE HolderOK'
  OBVIOUS
<1> USE ThreadsAssumption DEF TypeOK, HolderOK, ControlOK, CallInv, InCall,
      Threads, At, Goto, Call, Back, Returned, Return, LockM, UnlockM, Fail,
      flags, control, cameraVars, startVars, stopVars
<1>1. CASE StartMonitoring
  BY <1>1 DEF StartMonitoring
<1>2. CASE StopMonitoring
  BY <1>2 DEF StopMonitoring
<1>3. CASE StartLiveView
  BY <1>3 DEF StartLiveView
<1>4. CASE StopLiveView
  BY <1>4 DEF StopLiveView
<1>5. CASE LaunchStarter
  BY <1>5 DEF LaunchStarter
<1>6. CASE GetStarter
  BY <1>6 DEF GetStarter
<1>7. CASE Relock
  BY <1>7 DEF Relock
<1>8. CASE StopMonitor
  BY <1>8 DEF StopMonitor, ClearRegistration, Submit
<1>9. CASE Unlock
  BY <1>9 DEF Unlock
<1>10. CASE SetPeriod
  BY <1>10 DEF SetPeriod
<1>11. CASE StartTest
  <2>1. pc' = [pc EXCEPT ![Main] = pc'[Main]]
        /\ pc'[Main] \in {"unlock", "wait", "open"}
    BY <1>11 DEF StartTest, FlagsOK
  <2>. QED
    BY <1>11, <2>1 DEF StartTest
<1>12. CASE WaitForStop
  BY <1>12 DEF WaitForStop
<1>13. CASE OpenLiveView
  BY <1>13 DEF OpenLiveView
<1>14. CASE RegisterLiveView
  BY <1>14 DEF RegisterLiveView, AddObserver, Submit
<1>15. CASE LiveViewStarted
  BY <1>15 DEF LiveViewStarted
<1>16. CASE StarterWaited
  BY <1>16 DEF StarterWaited
<1>17. CASE StarterAborts
  BY <1>17 DEF StarterAborts
<1>18. CASE StarterProceeds
  BY <1>18 DEF StarterProceeds
<1>19. CASE StarterRegisters
  BY <1>19 DEF StarterRegisters, AddObserver, Submit
<1>20. ASSUME NEW t \in {Main} \cup Stoppers, NeedTest(t) PROVE HolderOK'
  BY <1>20 DEF NeedTest
<1>21. ASSUME NEW t \in {Main} \cup Stoppers, NeedCreate(t) PROVE HolderOK'
  BY <1>21 DEF NeedCreate, Replace
<1>22. ASSUME NEW t \in {Main} \cup Stoppers, NeedDestroy(t) PROVE HolderOK'
  BY <1>22 DEF NeedDestroy, Replace
<1>23. ASSUME NEW t \in {Main} \cup Stoppers, NeedJoin(t) PROVE HolderOK'
  BY <1>23 DEF NeedJoin
<1>24. ASSUME NEW t \in {Main} \cup Cameras, StopTest(t) PROVE HolderOK'
  BY <1>24 DEF StopTest
<1>25. ASSUME NEW t \in {Main} \cup Cameras, StopSpawn(t) PROVE HolderOK'
  BY <1>25 DEF StopSpawn
<1>26. ASSUME NEW t \in {Main} \cup Cameras, StopAssign(t) PROVE HolderOK'
  BY <1>26 DEF StopAssign
<1>27. ASSUME NEW t \in {Main} \cup Cameras, StopDiscard(t) PROVE HolderOK'
  BY <1>27 DEF StopDiscard
<1>28. ASSUME NEW t \in Stoppers, StopperUnregisters(t) PROVE HolderOK'
  BY <1>28 DEF StopperUnregisters, ClearRegistration, Submit
<1>29. ASSUME NEW t \in Stoppers, StopperDeactivates(t) PROVE HolderOK'
  BY <1>29 DEF StopperDeactivates
<1>30. ASSUME NEW t \in Stoppers, StopperCloses(t) PROVE HolderOK'
  BY <1>30 DEF StopperCloses
<1>31. ASSUME NEW t \in Stoppers, StopperEnds(t) PROVE HolderOK'
  BY <1>31 DEF StopperEnds
<1>32. ASSUME NEW t \in Cameras, CameraExits(t) PROVE HolderOK'
  BY <1>32 DEF CameraExits
<1>33. ASSUME NEW t \in Cameras, Notify(t) PROVE HolderOK'
  BY <1>33 DEF Notify
<1>34. ASSUME NEW t \in Cameras, CallMonitor(t) PROVE HolderOK'
  BY <1>34 DEF CallMonitor, Called
<1>35. ASSUME NEW t \in Cameras, CallLiveView(t) PROVE HolderOK'
  BY <1>35 DEF CallLiveView, Called
<1>36. ASSUME NEW t \in Cameras, EndNotify(t) PROVE HolderOK'
  BY <1>36 DEF EndNotify
<1>37. CASE UNCHANGED vars
  BY <1>37 DEF vars
<1>. QED
  BY <1>1, <1>2, <1>3, <1>4, <1>5, <1>6, <1>7, <1>8, <1>9, <1>10, <1>11,
     <1>12, <1>13, <1>14, <1>15, <1>16, <1>17, <1>18, <1>19, <1>20, <1>21,
     <1>22, <1>23, <1>24, <1>25, <1>26, <1>27, <1>28, <1>29, <1>30, <1>31,
     <1>32, <1>33, <1>34, <1>35, <1>36, <1>37
     DEF Next, Command, MainStep, Starting, Stopping, CameraStep,
         HandleCameraControllerNeed, Stop, Rest

(* Types of the flags, pointers and futures.                               *)
LEMMA FlagsStep == TypeOK /\ CallInv /\ [Next]_vars => FlagsOK'
<1> SUFFICES ASSUME TypeOK, CallInv, [Next]_vars PROVE FlagsOK'
  OBVIOUS
<1> USE ThreadsAssumption DEF TypeOK, FlagsOK, ControlOK, CallInv, Threads,
      Clients, At, Goto, Call, Back, Returned, Return, LockM, UnlockM, Fail,
      flags, control, cameraVars, startVars, stopVars
<1>1. CASE StartMonitoring
  BY <1>1 DEF StartMonitoring
<1>2. CASE StopMonitoring
  BY <1>2 DEF StopMonitoring
<1>3. CASE StartLiveView
  BY <1>3 DEF StartLiveView
<1>4. CASE StopLiveView
  BY <1>4 DEF StopLiveView
<1>5. CASE LaunchStarter
  BY <1>5 DEF LaunchStarter
<1>6. CASE GetStarter
  BY <1>6 DEF GetStarter
<1>7. CASE Relock
  BY <1>7 DEF Relock
<1>8. CASE StopMonitor
  <2>1. CASE UNCHANGED registration
    BY <1>8, <2>1 DEF StopMonitor
  <2>2. CASE ClearRegistration("monitor")
    BY <1>8, <2>2, TwoClients, ClearRegistrationType DEF StopMonitor
  <2>. QED
    BY <1>8, <2>1, <2>2 DEF StopMonitor
<1>9. CASE Unlock
  BY <1>9 DEF Unlock
<1>10. CASE SetPeriod
  BY <1>10 DEF SetPeriod
<1>11. CASE StartTest
  BY <1>11 DEF StartTest
<1>12. CASE WaitForStop
  BY <1>12 DEF WaitForStop
<1>13. CASE OpenLiveView
  BY <1>13 DEF OpenLiveView
<1>14. CASE RegisterLiveView
  <2>1. CASE UNCHANGED registration
    BY <1>14, <2>1 DEF RegisterLiveView
  <2>2. CASE AddObserver("liveView")
    BY <1>14, <2>2, TwoClients, AddObserverType DEF RegisterLiveView
  <2>. QED
    BY <1>14, <2>1, <2>2 DEF RegisterLiveView
<1>15. CASE LiveViewStarted
  BY <1>15 DEF LiveViewStarted
<1>16. CASE StarterWaited
  BY <1>16 DEF StarterWaited
<1>17. CASE StarterAborts
  BY <1>17 DEF StarterAborts
<1>18. CASE StarterProceeds
  BY <1>18 DEF StarterProceeds
<1>19. CASE StarterRegisters
  <2>1. CASE UNCHANGED registration
    BY <1>19, <2>1 DEF StarterRegisters
  <2>2. CASE AddObserver("monitor")
    BY <1>19, <2>2, TwoClients, AddObserverType DEF StarterRegisters
  <2>. QED
    BY <1>19, <2>1, <2>2 DEF StarterRegisters
<1>20. ASSUME NEW t \in {Main} \cup Stoppers, NeedTest(t) PROVE FlagsOK'
  BY <1>20 DEF NeedTest
<1>21. ASSUME NEW t \in {Main} \cup Stoppers, NeedCreate(t) PROVE FlagsOK'
  BY <1>21 DEF NeedCreate, Replace
<1>22. ASSUME NEW t \in {Main} \cup Stoppers, NeedDestroy(t) PROVE FlagsOK'
  BY <1>22 DEF NeedDestroy, Replace
<1>23. ASSUME NEW t \in {Main} \cup Stoppers, NeedJoin(t) PROVE FlagsOK'
  BY <1>23 DEF NeedJoin
<1>24. ASSUME NEW t \in {Main} \cup Cameras, StopTest(t) PROVE FlagsOK'
  BY <1>24 DEF StopTest
<1>25. ASSUME NEW t \in {Main} \cup Cameras, StopSpawn(t) PROVE FlagsOK'
  BY <1>25 DEF StopSpawn
<1>26. ASSUME NEW t \in {Main} \cup Cameras, StopAssign(t) PROVE FlagsOK'
  <2>1. arg[t] \in Stoppers
    BY <1>26 DEF StopAssign
  <2>. QED
    BY <1>26, <2>1 DEF StopAssign
<1>27. ASSUME NEW t \in {Main} \cup Cameras, StopDiscard(t) PROVE FlagsOK'
  BY <1>27 DEF StopDiscard
<1>28. ASSUME NEW t \in Stoppers, StopperUnregisters(t) PROVE FlagsOK'
  <2>1. /\ UNCHANGED <<flags, startVars, camera, stopVars>>
        /\ failure' \in {failure, "dead camera"}
        /\ UNCHANGED registration \/ ClearRegistration("liveView")
    BY <1>28 DEF StopperUnregisters
  <2>2. CASE ClearRegistration("liveView")
    <3>1. registration' \in [Clients -> Cameras \cup {None, Dangling}]
      BY <2>2, TwoClients, ClearRegistrationType
    <3>. QED
      BY <2>1, <3>1
  <2>. QED
    BY <2>1, <2>2
<1>29. ASSUME NEW t \in Stoppers, StopperDeactivates(t) PROVE FlagsOK'
  BY <1>29 DEF StopperDeactivates
<1>30. ASSUME NEW t \in Stoppers, StopperCloses(t) PROVE FlagsOK'
  BY <1>30 DEF StopperCloses
<1>31. ASSUME NEW t \in Stoppers, StopperEnds(t) PROVE FlagsOK'
  BY <1>31 DEF StopperEnds
<1>32. ASSUME NEW t \in Cameras, CameraExits(t) PROVE FlagsOK'
  BY <1>32 DEF CameraExits
<1>33. ASSUME NEW t \in Cameras, Notify(t) PROVE FlagsOK'
  BY <1>33 DEF Notify
<1>34. ASSUME NEW t \in Cameras, CallMonitor(t) PROVE FlagsOK'
  BY <1>34 DEF CallMonitor, Called
<1>35. ASSUME NEW t \in Cameras, CallLiveView(t) PROVE FlagsOK'
  BY <1>35 DEF CallLiveView, Called
<1>36. ASSUME NEW t \in Cameras, EndNotify(t) PROVE FlagsOK'
  BY <1>36 DEF EndNotify
<1>37. CASE UNCHANGED vars
  BY <1>37 DEF vars
<1>. QED
  BY <1>1, <1>2, <1>3, <1>4, <1>5, <1>6, <1>7, <1>8, <1>9, <1>10, <1>11,
     <1>12, <1>13, <1>14, <1>15, <1>16, <1>17, <1>18, <1>19, <1>20, <1>21,
     <1>22, <1>23, <1>24, <1>25, <1>26, <1>27, <1>28, <1>29, <1>30, <1>31,
     <1>32, <1>33, <1>34, <1>35, <1>36, <1>37
     DEF Next, Command, MainStep, Starting, Stopping, CameraStep,
         HandleCameraControllerNeed, Stop, Rest

(* Types of what the threads are doing.                                    *)
LEMMA ControlStep == TypeOK /\ CallInv /\ [Next]_vars => ControlOK'
<1> SUFFICES ASSUME TypeOK, CallInv, [Next]_vars PROVE ControlOK'
  OBVIOUS
<1> USE ThreadsAssumption DEF TypeOK, FlagsOK, ControlOK, Threads, At, Goto,
      Call, Back, Returned, Return, LockM, UnlockM, Fail, flags, control,
      cameraVars, startVars, stopVars
<1>1. CASE StartMonitoring
  BY <1>1 DEF StartMonitoring
<1>2. CASE StopMonitoring
  BY <1>2 DEF StopMonitoring
<1>3. CASE StartLiveView
  BY <1>3 DEF StartLiveView
<1>4. CASE StopLiveView
  BY <1>4 DEF StopLiveView
<1>5. CASE LaunchStarter
  BY <1>5 DEF LaunchStarter
<1>6. CASE GetStarter
  BY <1>6 DEF GetStarter
<1>7. CASE Relock
  BY <1>7 DEF Relock
<1>8. CASE StopMonitor
  BY <1>8 DEF StopMonitor, ClearRegistration, Submit
<1>9. CASE Unlock
  BY <1>9 DEF Unlock
<1>10. CASE SetPeriod
  BY <1>10 DEF SetPeriod
<1>11. CASE StartTest
  BY <1>11 DEF StartTest
<1>12. CASE WaitForStop
  BY <1>12 DEF WaitForStop
<1>13. CASE OpenLiveView
  BY <1>13 DEF OpenLiveView
<1>14. CASE RegisterLiveView
  BY <1>14 DEF RegisterLiveView, AddObserver, Submit
<1>15. CASE LiveViewStarted
  BY <1>15 DEF LiveViewStarted
<1>16. CASE StarterWaited
  BY <1>16 DEF StarterWaited
<1>17. CASE StarterAborts
  BY <1>17 DEF StarterAborts
<1>18. CASE StarterProceeds
  BY <1>18 DEF StarterProceeds
<1>19. CASE StarterRegisters
  BY <1>19 DEF StarterRegisters, AddObserver, Submit
<1>20. ASSUME NEW t \in {Main} \cup Stoppers, NeedTest(t) PROVE ControlOK'
  BY <1>20 DEF NeedTest
<1>21. ASSUME NEW t \in {Main} \cup Stoppers, NeedCreate(t) PROVE ControlOK'
  BY <1>21 DEF NeedCreate, Replace
<1>22. ASSUME NEW t \in {Main} \cup Stoppers, NeedDestroy(t) PROVE ControlOK'
  BY <1>22 DEF NeedDestroy, Replace
<1>23. ASSUME NEW t \in {Main} \cup Stoppers, NeedJoin(t) PROVE ControlOK'
  BY <1>23 DEF NeedJoin
<1>24. ASSUME NEW t \in {Main} \cup Cameras, StopTest(t) PROVE ControlOK'
  BY <1>24 DEF StopTest
<1>25. ASSUME NEW t \in {Main} \cup Cameras, StopSpawn(t) PROVE ControlOK'
  BY <1>25 DEF StopSpawn
<1>26. ASSUME NEW t \in {Main} \cup Cameras, StopAssign(t) PROVE ControlOK'
  BY <1>26 DEF StopAssign
<1>27. ASSUME NEW t \in {Main} \cup Cameras, StopDiscard(t) PROVE ControlOK'
  BY <1>27 DEF StopDiscard
<1>28. ASSUME NEW t \in Stoppers, StopperUnregisters(t) PROVE ControlOK'
  <2>1. UNCHANGED <<back, arg>> /\ (UNCHANGED pc \/ Goto(t, "inactive"))
    BY <1>28 DEF StopperUnregisters
  <2>. QED
    BY <2>1
<1>29. ASSUME NEW t \in Stoppers, StopperDeactivates(t) PROVE ControlOK'
  BY <1>29 DEF StopperDeactivates
<1>30. ASSUME NEW t \in Stoppers, StopperCloses(t) PROVE ControlOK'
  BY <1>30 DEF StopperCloses
<1>31. ASSUME NEW t \in Stoppers, StopperEnds(t) PROVE ControlOK'
  BY <1>31 DEF StopperEnds
<1>32. ASSUME NEW t \in Cameras, CameraExits(t) PROVE ControlOK'
  BY <1>32 DEF CameraExits
<1>33. ASSUME NEW t \in Cameras, Notify(t) PROVE ControlOK'
  BY <1>33 DEF Notify
<1>34. ASSUME NEW t \in Cameras, CallMonitor(t) PROVE ControlOK'
  BY <1>34 DEF CallMonitor, Called
<1>35. ASSUME NEW t \in Cameras, CallLiveView(t) PROVE ControlOK'
  BY <1>35 DEF CallLiveView, Called
<1>36. ASSUME NEW t \in Cameras, EndNotify(t) PROVE ControlOK'
  BY <1>36 DEF EndNotify
<1>37. CASE UNCHANGED vars
  BY <1>37 DEF vars
<1>. QED
  BY <1>1, <1>2, <1>3, <1>4, <1>5, <1>6, <1>7, <1>8, <1>9, <1>10, <1>11,
     <1>12, <1>13, <1>14, <1>15, <1>16, <1>17, <1>18, <1>19, <1>20, <1>21,
     <1>22, <1>23, <1>24, <1>25, <1>26, <1>27, <1>28, <1>29, <1>30, <1>31,
     <1>32, <1>33, <1>34, <1>35, <1>36, <1>37
     DEF Next, Command, MainStep, Starting, Stopping, CameraStep,
         HandleCameraControllerNeed, Stop, Rest

(* Types of the cameras' observers and queues.                             *)
LEMMA SubjectsStep == TypeOK /\ CallInv /\ [Next]_vars => SubjectsOK'
<1> SUFFICES ASSUME TypeOK, CallInv, [Next]_vars PROVE SubjectsOK'
  OBVIOUS
<1> USE ThreadsAssumption DEF TypeOK, FlagsOK, SubjectsOK, At, Goto, Call,
      Back, Returned, Return, LockM, UnlockM, Fail, flags, control,
      cameraVars, startVars, stopVars
<1>1. CASE StartMonitoring
  BY <1>1 DEF StartMonitoring
<1>2. CASE StopMonitoring
  BY <1>2 DEF StopMonitoring
<1>3. CASE StartLiveView
  BY <1>3 DEF StartLiveView
<1>4. CASE StopLiveView
  BY <1>4 DEF StopLiveView
<1>5. CASE LaunchStarter
  BY <1>5 DEF LaunchStarter
<1>6. CASE GetStarter
  BY <1>6 DEF GetStarter
<1>7. CASE Relock
  BY <1>7 DEF Relock
<1>8. CASE StopMonitor
  <2>1. CASE UNCHANGED cameraVars
    BY <2>1
  <2>2. CASE ClearRegistration("monitor")
    BY <2>2, TwoClients, ClearRegistrationType
  <2>. QED
    BY <1>8, <2>1, <2>2 DEF StopMonitor
<1>9. CASE Unlock
  BY <1>9 DEF Unlock
<1>10. CASE SetPeriod
  BY <1>10 DEF SetPeriod
<1>11. CASE StartTest
  BY <1>11 DEF StartTest
<1>12. CASE WaitForStop
  BY <1>12 DEF WaitForStop
<1>13. CASE OpenLiveView
  BY <1>13 DEF OpenLiveView
<1>14. CASE RegisterLiveView
  <2>1. CASE UNCHANGED cameraVars
    BY <2>1
  <2>2. CASE AddObserver("liveView")
    BY <2>2, TwoClients, AddObserverType
  <2>. QED
    BY <1>14, <2>1, <2>2 DEF RegisterLiveView
<1>15. CASE LiveViewStarted
  BY <1>15 DEF LiveViewStarted
<1>16. CASE StarterWaited
  BY <1>16 DEF StarterWaited
<1>17. CASE StarterAborts
  BY <1>17 DEF StarterAborts
<1>18. CASE StarterProceeds
  BY <1>18 DEF StarterProceeds
<1>19. CASE StarterRegisters
  <2>1. CASE UNCHANGED cameraVars
    BY <2>1
  <2>2. CASE AddObserver("monitor")
    BY <2>2, TwoClients, AddObserverType
  <2>. QED
    BY <1>19, <2>1, <2>2 DEF StarterRegisters
<1>20. ASSUME NEW t \in {Main} \cup Stoppers, NeedTest(t) PROVE SubjectsOK'
  BY <1>20 DEF NeedTest
<1>21. ASSUME NEW t \in {Main} \cup Stoppers, NeedCreate(t) PROVE SubjectsOK'
  BY <1>21 DEF NeedCreate, Replace
<1>22. ASSUME NEW t \in {Main} \cup Stoppers, NeedDestroy(t) PROVE SubjectsOK'
  BY <1>22 DEF NeedDestroy, Replace
<1>23. ASSUME NEW t \in {Main} \cup Stoppers, NeedJoin(t) PROVE SubjectsOK'
  <2>1. NoWish \in [Clients -> {"none", "add", "remove"}]
    BY DEF NoWish
  <2>. QED
    BY <1>23, <2>1 DEF NeedJoin
<1>24. ASSUME NEW t \in {Main} \cup Cameras, StopTest(t) PROVE SubjectsOK'
  BY <1>24 DEF StopTest
<1>25. ASSUME NEW t \in {Main} \cup Cameras, StopSpawn(t) PROVE SubjectsOK'
  BY <1>25 DEF StopSpawn
<1>26. ASSUME NEW t \in {Main} \cup Cameras, StopAssign(t) PROVE SubjectsOK'
  BY <1>26 DEF StopAssign
<1>27. ASSUME NEW t \in {Main} \cup Cameras, StopDiscard(t) PROVE SubjectsOK'
  BY <1>27 DEF StopDiscard
<1>28. ASSUME NEW t \in Stoppers, StopperUnregisters(t) PROVE SubjectsOK'
  <2>1. CASE UNCHANGED cameraVars
    BY <2>1
  <2>2. CASE ClearRegistration("liveView")
    BY <2>2, TwoClients, ClearRegistrationType
  <2>. QED
    BY <1>28, <2>1, <2>2 DEF StopperUnregisters
<1>29. ASSUME NEW t \in Stoppers, StopperDeactivates(t) PROVE SubjectsOK'
  BY <1>29 DEF StopperDeactivates
<1>30. ASSUME NEW t \in Stoppers, StopperCloses(t) PROVE SubjectsOK'
  BY <1>30 DEF StopperCloses
<1>31. ASSUME NEW t \in Stoppers, StopperEnds(t) PROVE SubjectsOK'
  BY <1>31 DEF StopperEnds
<1>32. ASSUME NEW t \in Cameras, CameraExits(t) PROVE SubjectsOK'
  BY <1>32 DEF CameraExits
<1>33. ASSUME NEW t \in Cameras, Notify(t) PROVE SubjectsOK'
  BY <1>33 DEF Notify
<1>34. ASSUME NEW t \in Cameras, CallMonitor(t) PROVE SubjectsOK'
  <2>1. Called(t, "monitor") \/ UNCHANGED cameraVars
    BY <1>34 DEF CallMonitor
  <2>2. CASE Called(t, "monitor")
    BY <2>2, TwoClients, CalledType
  <2>. QED
    BY <2>1, <2>2
<1>35. ASSUME NEW t \in Cameras, CallLiveView(t) PROVE SubjectsOK'
  <2>1. Called(t, "liveView") \/ UNCHANGED cameraVars
    BY <1>35 DEF CallLiveView
  <2>2. CASE Called(t, "liveView")
    BY <2>2, TwoClients, CalledType
  <2>. QED
    BY <2>1, <2>2
<1>36. ASSUME NEW t \in Cameras, EndNotify(t) PROVE SubjectsOK'
  <2>1. Apply(queue[t], observers[t]) \subseteq Clients
    BY DEF Apply
  <2>2. NoWish \in [Clients -> {"none", "add", "remove"}]
    BY DEF NoWish
  <2>3. /\ observers' = [observers EXCEPT ![t] = Apply(queue[t], observers[t])]
        /\ queue' = [queue EXCEPT ![t] = NoWish]
    BY <1>36 DEF EndNotify
  <2>4. UNCHANGED <<toCall, done>>
    BY <1>36 DEF EndNotify
  <2>. QED
    BY <2>1, <2>2, <2>3, <2>4
<1>37. CASE UNCHANGED vars
  BY <1>37 DEF vars
<1>. QED
  BY <1>1, <1>2, <1>3, <1>4, <1>5, <1>6, <1>7, <1>8, <1>9, <1>10, <1>11,
     <1>12, <1>13, <1>14, <1>15, <1>16, <1>17, <1>18, <1>19, <1>20, <1>21,
     <1>22, <1>23, <1>24, <1>25, <1>26, <1>27, <1>28, <1>29, <1>30, <1>31,
     <1>32, <1>33, <1>34, <1>35, <1>36, <1>37
     DEF Next, Command, MainStep, Starting, Stopping, CameraStep,
         HandleCameraControllerNeed, Stop, Rest

(* Main is in a call exactly when it has somewhere to return to.           *)
LEMMA CallStep == TypeOK /\ CallInv /\ [Next]_vars => CallInv'
<1> SUFFICES ASSUME TypeOK, CallInv, [Next]_vars PROVE CallInv'
  OBVIOUS
<1> USE ThreadsAssumption DEF TypeOK, HolderOK, FlagsOK, ControlOK, CallInv,
      InCall, Threads, At, Goto, Call, Back, Returned, Return, LockM,
      UnlockM, Fail, flags, control, cameraVars, startVars, stopVars
<1>1. CASE StartMonitoring
  BY <1>1 DEF StartMonitoring
<1>2. CASE StopMonitoring
  BY <1>2 DEF StopMonitoring
<1>3. CASE StartLiveView
  BY <1>3 DEF StartLiveView
<1>4. CASE StopLiveView
  BY <1>4 DEF StopLiveView
<1>5. CASE LaunchStarter
  BY <1>5 DEF LaunchStarter
<1>6. CASE GetStarter
  BY <1>6 DEF GetStarter
<1>7. CASE Relock
  BY <1>7 DEF Relock
<1>8. CASE StopMonitor
  BY <1>8 DEF StopMonitor, ClearRegistration, Submit
<1>9. CASE Unlock
  BY <1>9 DEF Unlock
<1>10. CASE SetPeriod
  BY <1>10 DEF SetPeriod
<1>11. CASE StartTest
  <2>1. pc' = [pc EXCEPT ![Main] = pc'[Main]]
        /\ pc'[Main] \in {"unlock", "wait", "open"}
    BY <1>11 DEF StartTest, FlagsOK
  <2>. QED
    BY <1>11, <2>1 DEF StartTest
<1>12. CASE WaitForStop
  BY <1>12 DEF WaitForStop
<1>13. CASE OpenLiveView
  BY <1>13 DEF OpenLiveView
<1>14. CASE RegisterLiveView
  BY <1>14 DEF RegisterLiveView, AddObserver, Submit
<1>15. CASE LiveViewStarted
  BY <1>15 DEF LiveViewStarted
<1>16. CASE StarterWaited
  BY <1>16 DEF StarterWaited
<1>17. CASE StarterAborts
  BY <1>17 DEF StarterAborts
<1>18. CASE StarterProceeds
  BY <1>18 DEF StarterProceeds
<1>19. CASE StarterRegisters
  BY <1>19 DEF StarterRegisters, AddObserver, Submit
<1>20. ASSUME NEW t \in {Main} \cup Stoppers, NeedTest(t) PROVE CallInv'
  BY <1>20 DEF NeedTest
<1>21. ASSUME NEW t \in {Main} \cup Stoppers, NeedCreate(t) PROVE CallInv'
  BY <1>21 DEF NeedCreate, Replace
<1>22. ASSUME NEW t \in {Main} \cup Stoppers, NeedDestroy(t) PROVE CallInv'
  BY <1>22 DEF NeedDestroy, Replace
<1>23. ASSUME NEW t \in {Main} \cup Stoppers, NeedJoin(t) PROVE CallInv'
  BY <1>23 DEF NeedJoin
<1>24. ASSUME NEW t \in {Main} \cup Cameras, StopTest(t) PROVE CallInv'
  BY <1>24 DEF StopTest
<1>25. ASSUME NEW t \in {Main} \cup Cameras, StopSpawn(t) PROVE CallInv'
  BY <1>25 DEF StopSpawn
<1>26. ASSUME NEW t \in {Main} \cup Cameras, StopAssign(t) PROVE CallInv'
  BY <1>26 DEF StopAssign
<1>27. ASSUME NEW t \in {Main} \cup Cameras, StopDiscard(t) PROVE CallInv'
  BY <1>27 DEF StopDiscard
<1>28. ASSUME NEW t \in Stoppers, StopperUnregisters(t) PROVE CallInv'
  BY <1>28 DEF StopperUnregisters, ClearRegistration, Submit
<1>29. ASSUME NEW t \in Stoppers, StopperDeactivates(t) PROVE CallInv'
  BY <1>29 DEF StopperDeactivates
<1>30. ASSUME NEW t \in Stoppers, StopperCloses(t) PROVE CallInv'
  BY <1>30 DEF StopperCloses
<1>31. ASSUME NEW t \in Stoppers, StopperEnds(t) PROVE CallInv'
  BY <1>31 DEF StopperEnds
<1>32. ASSUME NEW t \in Cameras, CameraExits(t) PROVE CallInv'
  BY <1>32 DEF CameraExits
<1>33. ASSUME NEW t \in Cameras, Notify(t) PROVE CallInv'
  BY <1>33 DEF Notify
<1>34. ASSUME NEW t \in Cameras, CallMonitor(t) PROVE CallInv'
  BY <1>34 DEF CallMonitor, Called
<1>35. ASSUME NEW t \in Cameras, CallLiveView(t) PROVE CallInv'
  BY <1>35 DEF CallLiveView, Called
<1>36. ASSUME NEW t \in Cameras, EndNotify(t) PROVE CallInv'
  BY <1>36 DEF EndNotify
<1>37. CASE UNCHANGED vars
  BY <1>37 DEF vars
<1>. QED
  BY <1>1, <1>2, <1>3, <1>4, <1>5, <1>6, <1>7, <1>8, <1>9, <1>10, <1>11,
     <1>12, <1>13, <1>14, <1>15, <1>16, <1>17, <1>18, <1>19, <1>20, <1>21,
     <1>22, <1>23, <1>24, <1>25, <1>26, <1>27, <1>28, <1>29, <1>30, <1>31,
     <1>32, <1>33, <1>34, <1>35, <1>36, <1>37
     DEF Next, Command, MainStep, Starting, Stopping, CameraStep,
         HandleCameraControllerNeed, Stop, Rest

(* The monitor's flag, registration, starter and request keep in step.     *)
LEMMA MonitorStep == TypeOK /\ CallInv /\ MonitorInv /\ [Next]_vars => MonitorInv'
<1> SUFFICES ASSUME TypeOK, CallInv, MonitorInv, [Next]_vars PROVE MonitorInv'
  OBVIOUS
<1> USE ThreadsAssumption DEF TypeOK, HolderOK, FlagsOK, ControlOK, CallInv,
      InCall, Threads, Clients, MonitorInv, At, Goto, Call, Back, Returned,
      Return, LockM, UnlockM, Fail, flags, control, cameraVars, startVars,
      stopVars
<1>1. CASE StartMonitoring
  BY <1>1 DEF StartMonitoring
<1>2. CASE StopMonitoring
  BY <1>2 DEF StopMonitoring
<1>3. CASE StartLiveView
  BY <1>3 DEF StartLiveView
<1>4. CASE StopLiveView
  BY <1>4 DEF StopLiveView
<1>5. CASE LaunchStarter
  BY <1>5 DEF LaunchStarter
<1>6. CASE GetStarter
  BY <1>6 DEF GetStarter
<1>7. CASE Relock
  BY <1>7 DEF Relock
<1>8. CASE StopMonitor
  BY <1>8 DEF StopMonitor, ClearRegistration, Submit
<1>9. CASE Unlock
  BY <1>9 DEF Unlock
<1>10. CASE SetPeriod
  BY <1>10 DEF SetPeriod
<1>11. CASE StartTest
  BY <1>11 DEF StartTest
<1>12. CASE WaitForStop
  BY <1>12 DEF WaitForStop
<1>13. CASE OpenLiveView
  BY <1>13 DEF OpenLiveView
<1>14. CASE RegisterLiveView
  BY <1>14 DEF RegisterLiveView, AddObserver, Submit
<1>15. CASE LiveViewStarted
  BY <1>15 DEF LiveViewStarted
<1>16. CASE StarterWaited
  BY <1>16 DEF StarterWaited
<1>17. CASE StarterAborts
  BY <1>17 DEF StarterAborts
<1>18. CASE StarterProceeds
  BY <1>18 DEF StarterProceeds
<1>19. CASE StarterRegisters
  <2>1. CASE UNCHANGED registration
    BY <1>19, <2>1 DEF StarterRegisters, AddObserver
  <2>2. CASE AddObserver("monitor")
    BY <1>19, <2>2, AddObserverType DEF StarterRegisters
  <2>. QED
    BY <1>19, <2>1, <2>2 DEF StarterRegisters
<1>20. ASSUME NEW t \in {Main} \cup Stoppers, NeedTest(t) PROVE MonitorInv'
  BY <1>20 DEF NeedTest
<1>21. ASSUME NEW t \in {Main} \cup Stoppers, NeedCreate(t) PROVE MonitorInv'
  BY <1>21 DEF NeedCreate, Replace
<1>22. ASSUME NEW t \in {Main} \cup Stoppers, NeedDestroy(t) PROVE MonitorInv'
  BY <1>22 DEF NeedDestroy, Replace
<1>23. ASSUME NEW t \in {Main} \cup Stoppers, NeedJoin(t) PROVE MonitorInv'
  <2>1. arg[t] \in Cameras
    BY <1>23 DEF NeedJoin
  <2>2. registration' = [c \in Clients |->
                           IF registration[c] = arg[t] THEN Dangling ELSE registration[c]]
    BY <1>23 DEF NeedJoin
  <2>3. registration["monitor"] = None <=> registration'["monitor"] = None
    BY <2>1, <2>2, TwoClients
  <2>. QED
    BY <1>23, <2>3 DEF NeedJoin
<1>24. ASSUME NEW t \in {Main} \cup Cameras, StopTest(t) PROVE MonitorInv'
  BY <1>24 DEF StopTest
<1>25. ASSUME NEW t \in {Main} \cup Cameras, StopSpawn(t) PROVE MonitorInv'
  BY <1>25 DEF StopSpawn
<1>26. ASSUME NEW t \in {Main} \cup Cameras, StopAssign(t) PROVE MonitorInv'
  BY <1>26 DEF StopAssign
<1>27. ASSUME NEW t \in {Main} \cup Cameras, StopDiscard(t) PROVE MonitorInv'
  BY <1>27 DEF StopDiscard
<1>28. ASSUME NEW t \in Stoppers, StopperUnregisters(t) PROVE MonitorInv'
  <2>1. UNCHANGED <<flags, startVars, back>> /\ pc'[Main] = pc[Main]
    BY <1>28 DEF StopperUnregisters
  <2>2. registration'["monitor"] = registration["monitor"]
    BY <1>28 DEF StopperUnregisters, ClearRegistration
  <2>. QED
    BY <2>1, <2>2
<1>29. ASSUME NEW t \in Stoppers, StopperDeactivates(t) PROVE MonitorInv'
  BY <1>29 DEF StopperDeactivates
<1>30. ASSUME NEW t \in Stoppers, StopperCloses(t) PROVE MonitorInv'
  BY <1>30 DEF StopperCloses
<1>31. ASSUME NEW t \in Stoppers, StopperEnds(t) PROVE MonitorInv'
  BY <1>31 DEF StopperEnds
<1>32. ASSUME NEW t \in Cameras, CameraExits(t) PROVE MonitorInv'
  BY <1>32 DEF CameraExits
<1>33. ASSUME NEW t \in Cameras, Notify(t) PROVE MonitorInv'
  BY <1>33 DEF Notify
<1>34. ASSUME NEW t \in Cameras, CallMonitor(t) PROVE MonitorInv'
  BY <1>34 DEF CallMonitor, Called
<1>35. ASSUME NEW t \in Cameras, CallLiveView(t) PROVE MonitorInv'
  <2>1. UNCHANGED <<flags, startVars, registration, back>> /\ pc'[Main] = pc[Main]
    BY <1>35 DEF CallLiveView, Called
  <2>. QED
    BY <2>1
<1>36. ASSUME NEW t \in Cameras, EndNotify(t) PROVE MonitorInv'
  BY <1>36 DEF EndNotify
<1>37. CASE UNCHANGED vars
  BY <1>37 DEF vars
<1>. QED
  BY <1>1, <1>2, <1>3, <1>4, <1>5, <1>6, <1>7, <1>8, <1>9, <1>10, <1>11,
     <1>12, <1>13, <1>14, <1>15, <1>16, <1>17, <1>18, <1>19, <1>20, <1>21,
     <1>22, <1>23, <1>24, <1>25, <1>26, <1>27, <1>28, <1>29, <1>30, <1>31,
     <1>32, <1>33, <1>34, <1>35, <1>36, <1>37
     DEF Next, Command, MainStep, Starting, Stopping, CameraStep,
         HandleCameraControllerNeed, Stop, Rest

-----------------------------------------------------------------------------
(* The invariant holds in every reachable state.                           *)
THEOREM InvariantCorrect == Spec => []IInv
<1>1. Init => IInv
  <2> SUFFICES ASSUME Init PROVE IInv
    OBVIOUS
  <2> USE ThreadsAssumption DEF Init
  <2>1. HolderOK /\ FlagsOK
    BY DEF HolderOK, FlagsOK, Threads
  <2>2. ControlOK /\ SubjectsOK
    BY DEF ControlOK, SubjectsOK, NoWish
  <2>3. CallInv
    BY DEF CallInv, InCall, Threads
  <2>4. MonitorInv
    BY TwoClients DEF MonitorInv, Threads
  <2>. QED
    BY <2>1, <2>2, <2>3, <2>4 DEF IInv, TypeOK
<1>2. IInv /\ [Next]_vars => IInv'
  BY HolderStep, FlagsStep, ControlStep, SubjectsStep, CallStep, MonitorStep
     DEF IInv, TypeOK
<1>. QED
  BY <1>1, <1>2, PTL DEF Spec

(* Every variable keeps its type, and m_ is held exactly where the code    *)
(* locks it.                                                               *)
THEOREM TypeCorrect == Spec => []TypeOK
<1>1. IInv => TypeOK
  BY DEF IInv
<1>. QED
  BY <1>1, InvariantCorrect, PTL

(* Between two commands, when monitoring is off, the monitor is not        *)
(* registered and no start is under way.                                   *)
THEOREM StopIsComplete == Spec => []StoppedMeansStopped
<1>1. IInv => StoppedMeansStopped
  BY DEF IInv, MonitorInv, StoppedMeansStopped
<1>. QED
  BY <1>1, InvariantCorrect, PTL

(* Only the starter registers the monitor.                                 *)
LEMMA OnlyStarterRegisters ==
  ASSUME IInv, Next, registration["monitor"] = None, registration'["monitor"] # None
  PROVE  StarterRegisters
<1> SUFFICES ASSUME ~StarterRegisters PROVE FALSE
  OBVIOUS
<1> USE TwoClients, ThreadsAssumption
<1>1. TypeOK /\ registration' # registration
  BY DEF IInv
<1>2. ~Command
  BY <1>1 DEF Command, StartMonitoring, StopMonitoring, StartLiveView, StopLiveView
<1>3. ~Starting
  BY <1>1 DEF Starting, StarterWaited, StarterAborts, StarterProceeds
<1>4. ASSUME NEW t \in Threads PROVE ~HandleCameraControllerNeed(t)
  <2>1. ~NeedTest(t) /\ ~NeedCreate(t) /\ ~NeedDestroy(t)
    BY <1>1 DEF NeedTest, NeedCreate, NeedDestroy
  <2>2. ASSUME NeedJoin(t) PROVE FALSE
    <3>1. arg[t] \in Cameras
      BY <2>2 DEF NeedJoin, At, IInv, CallInv
    <3>2. registration' = [c \in Clients |->
                             IF registration[c] = arg[t] THEN Dangling ELSE registration[c]]
      BY <2>2 DEF NeedJoin
    <3>. QED
      BY <3>1, <3>2
  <2>. QED
    BY <2>1, <2>2 DEF HandleCameraControllerNeed
<1>5. ASSUME NEW t \in Threads PROVE ~Stop(t)
  BY <1>1 DEF Stop, StopTest, StopSpawn, StopAssign, StopDiscard
<1>6. ASSUME NEW c \in Clients PROVE ~ClearRegistration(c)
  BY <1>1, ClearRegistrationType
<1>7. ~AddObserver("liveView")
  BY <1>1, AddObserverType
<1>8. ~MainStep
  <2>1. ~StopMonitor
    BY <1>1, <1>6 DEF StopMonitor, Fail
  <2>2. ~RegisterLiveView
    BY <1>1, <1>7 DEF RegisterLiveView, Fail
  <2>3. ~(\/ LaunchStarter \/ GetStarter \/ Relock \/ Unlock \/ StartTest
          \/ OpenLiveView \/ LiveViewStarted)
    BY <1>1 DEF LaunchStarter, GetStarter, Relock, Unlock, StartTest, OpenLiveView,
                LiveViewStarted
  <2>4. ~(SetPeriod \/ WaitForStop)
    BY <1>1 DEF SetPeriod, WaitForStop, Fail
  <2>. QED
    BY <1>4, <1>5, <2>1, <2>2, <2>3, <2>4 DEF MainStep, Threads
<1>9. ASSUME NEW s \in Stoppers PROVE ~Stopping(s)
  <2>1. ~StopperUnregisters(s)
    BY <1>1, <1>6 DEF StopperUnregisters, Fail
  <2>2. ~(StopperDeactivates(s) \/ StopperCloses(s) \/ StopperEnds(s))
    BY <1>1 DEF StopperDeactivates, StopperCloses, StopperEnds
  <2>. QED
    BY <1>4, <2>1, <2>2 DEF Stopping, Threads
<1>10. ASSUME NEW k \in Cameras PROVE ~CameraStep(k)
  <2>1. ~(CameraExits(k) \/ Notify(k) \/ EndNotify(k))
    BY <1>1 DEF CameraExits, Notify, EndNotify
  <2>2. ~(CallMonitor(k) \/ CallLiveView(k))
    BY <1>1 DEF CallMonitor, CallLiveView, Called, Fail
  <2>. QED
    BY <1>5, <2>1, <2>2 DEF CameraStep, Threads
<1>11. ~Rest
  BY <1>1 DEF Rest, vars
<1>. QED
  BY <1>2, <1>3, <1>8, <1>9, <1>10, <1>11 DEF Next

(* A start that was cancelled registers nothing.                           *)
THEOREM CancelIsRespected == Spec => CancelledStartIsCancelled
<1>1. IInv /\ [Next]_vars =>
        [registration["monitor"] = None /\ registration'["monitor"] # None
           => monitorActive]_vars
  BY OnlyStarterRegisters DEF IInv, MonitorInv, StarterRegisters
<1>. QED
  BY <1>1, InvariantCorrect, PTL DEF Spec, CancelledStartIsCancelled

(* The starter finds no registration of an earlier session.                *)
THEOREM NothingLeftBehind == Spec => NoMonitorLeftBehind
<1>1. IInv /\ [Next]_vars =>
        [starter = "registering" /\ starter' = "ready" =>
           registration["monitor"] = None]_vars
  BY DEF IInv, MonitorInv
<1>. QED
  BY <1>1, InvariantCorrect, PTL DEF Spec, NoMonitorLeftBehind
-----------------------------------------------------------------------------
(* Whatever the main thread does about its signals is a step of Antifurto  *)
(* or does not touch it.                                                   *)
LEMMA CommandStep == [SignalNext]_allVars => [Next]_vars
<1> SUFFICES ASSUME [SignalNext]_allVars PROVE Next \/ UNCHANGED vars
  OBVIOUS
<1>1. CASE Construct
  BY <1>1 DEF Construct, Next, Command
<1>2. CASE Obey
  BY <1>2 DEF Obey, NothingToDo, Next, Command
<1>3. CASE Destroy
  BY <1>3 DEF Destroy, NothingToDo, Next, Command
<1>4. CASE ThreadsStep
  BY <1>4 DEF ThreadsStep, Next
<1>5. CASE \/ ParseCmdLine \/ ParseConfigFile \/ EnterSignalHandlingLoop \/ Look \/ Lower
           \/ Obeyed \/ LeaveSignalHandlingLoop \/ EndRound \/ Exit
           \/ \E s \in Signal : Send(s)
  BY <1>5 DEF ParseCmdLine, ParseConfigFile, EnterSignalHandlingLoop, Look, Lower, Obeyed,
              LeaveSignalHandlingLoop, EndRound, Exit, Send
<1>6. CASE UNCHANGED allVars
  BY <1>6 DEF allVars
<1>. QED
  BY <1>1, <1>2, <1>3, <1>4, <1>5, <1>6 DEF SignalNext, SignalStep

(* Signals make the program a user of Antifurto like any other: what is    *)
(* proved of every order of commands holds of the orders that signals,     *)
(* flags and the polling loop let through (main.cpp, SignalHandler.cpp).   *)
THEOREM SignalsAreCommands == SignalSpec => Spec
<1>1. SignalInit => Init
  BY DEF SignalInit
<1>. QED
  BY <1>1, CommandStep, PTL DEF SignalSpec, Spec

(* When SIGUSR2, or the end of the program, has stopped the monitoring,    *)
(* nothing of it is left (onSignal, ~AntifurtoImpl, stopMonitoring).       *)
THEOREM SignalledStopIsComplete == SignalSpec => []StoppedMeansStopped
BY SignalsAreCommands, StopIsComplete, PTL

-----------------------------------------------------------------------------
(* The loop is only left for a termination, and no handler is installed    *)
(* before it is entered.                                                   *)
OwedInv ==
  /\ NoSignalLost
  /\ at \in {"command line", "file", "construct", "built"} => owed = {}

LEMMA OwedStep == OwedInv /\ [SignalNext]_allVars => OwedInv'
<1> SUFFICES ASSUME OwedInv, [SignalNext]_allVars PROVE OwedInv'
  OBVIOUS
<1> USE DEF OwedInv, NoSignalLost
<1>1. CASE ParseCmdLine
  BY <1>1 DEF ParseCmdLine
<1>2. CASE ParseConfigFile
  BY <1>2 DEF ParseConfigFile
<1>3. CASE Construct
  BY <1>3 DEF Construct
<1>4. CASE EnterSignalHandlingLoop
  BY <1>4 DEF EnterSignalHandlingLoop
<1>5. CASE Look
  BY <1>5 DEF Look
<1>6. CASE Lower
  <2>1. This' = This
    BY <1>6 DEF Lower, This
  <2>. QED
    BY <1>6, <2>1 DEF Lower
<1>7. CASE Obey
  BY <1>7 DEF Obey
<1>8. CASE Obeyed
  BY <1>8 DEF Obeyed
<1>9. CASE LeaveSignalHandlingLoop
  BY <1>9 DEF LeaveSignalHandlingLoop
<1>10. CASE EndRound
  BY <1>10 DEF EndRound
<1>11. CASE Destroy
  BY <1>11 DEF Destroy
<1>12. CASE Exit
  BY <1>12 DEF Exit
<1>13. ASSUME NEW s \in Signal, Send(s) PROVE OwedInv'
  <2>1. This' = This
    BY <1>13 DEF Send, This
  <2>. QED
    BY <1>13, <2>1 DEF Send
<1>14. CASE UNCHANGED signalVars
  <2>1. This' = This
    BY <1>14 DEF signalVars, This
  <2>. QED
    BY <1>14, <2>1 DEF signalVars
<1>. QED
  BY <1>1, <1>2, <1>3, <1>4, <1>5, <1>6, <1>7, <1>8, <1>9, <1>10, <1>11, <1>12, <1>13, <1>14
     DEF SignalNext, SignalStep, ThreadsStep, allVars

(* A signal that is owed has its flag up, or is the one about to be        *)
(* obeyed, or is a second termination when the loop has been left: no      *)
(* order of signals, flags and handlers loses one (signalHandlingLoop).    *)
THEOREM NoSignalIsLost == SignalSpec => []NoSignalLost
<1>1. SignalInit => OwedInv
  BY DEF SignalInit, OwedInv, NoSignalLost
<1>2. OwedInv => NoSignalLost
  BY DEF OwedInv
<1>. QED
  BY <1>1, <1>2, OwedStep, PTL DEF SignalSpec

-----------------------------------------------------------------------------
(* Without the live view no stopper runs, and a camera's thread is that of *)
(* camera_ or of the one that the main thread is destroying.               *)
OnlyMonitor ==
  \A k \in Cameras :
    /\ observers[k] \subseteq {"monitor"} /\ toCall[k] \subseteq {"monitor"}
    /\ queue[k]["liveView"] = "none"

Alone ==
  /\ ~liveViewActive
  /\ status = "STOPPED"
  /\ \A s \in Stoppers : pc[s] = "off"
  /\ pc[Main] \in {"idle", "need", "create", "destroy", "join", "launch", "get",
                   "relock", "clear", "unlock"}
  /\ back # "period"
  /\ \A k \in Cameras : pc[k] \in {"off", "idle", "calling", "exit"}
  /\ OnlyMonitor

OneCameraInv ==
  /\ Alone
  /\ pc[Main] = "create" => camera = None
  /\ \A k \in Cameras : pc[k] # "off" =>
       IF pc[Main] = "join" THEN camera = None /\ k = arg[Main] ELSE k = camera

\* The commands are those of the monitoring.
MonitorNext ==
  \/ StartMonitoring \/ StopMonitoring
  \/ MainStep \/ Starting
  \/ \E k \in Cameras : CameraStep(k)

LEMMA MonitorCommandStep == [SignalNext]_allVars => [MonitorNext]_vars
<1> SUFFICES ASSUME [SignalNext]_allVars PROVE MonitorNext \/ UNCHANGED vars
  OBVIOUS
<1>1. CASE Construct
  BY <1>1 DEF Construct, MonitorNext
<1>2. CASE Obey
  BY <1>2 DEF Obey, NothingToDo, MonitorNext
<1>3. CASE Destroy
  BY <1>3 DEF Destroy, NothingToDo, MonitorNext
<1>4. CASE ThreadsStep
  BY <1>4 DEF ThreadsStep, MonitorNext
<1>5. CASE \/ ParseCmdLine \/ ParseConfigFile \/ EnterSignalHandlingLoop \/ Look \/ Lower
           \/ Obeyed \/ LeaveSignalHandlingLoop \/ EndRound \/ Exit
           \/ \E s \in Signal : Send(s)
  BY <1>5 DEF ParseCmdLine, ParseConfigFile, EnterSignalHandlingLoop, Look, Lower, Obeyed,
              LeaveSignalHandlingLoop, EndRound, Exit, Send
<1>6. CASE UNCHANGED allVars
  BY <1>6 DEF allVars
<1>. QED
  BY <1>1, <1>2, <1>3, <1>4, <1>5, <1>6 DEF SignalNext, SignalStep

(* Nobody registers but the monitor.                                       *)
LEMMA OnlyMonitorSubmits ==
  ASSUME TypeOK, OnlyMonitor,
         NEW wish \in [Cameras -> [Clients -> {"none", "add", "remove"}]],
         \A k \in Cameras : wish[k]["liveView"] = "none",
         Submit(wish)
  PROVE  OnlyMonitor'
<1> SUFFICES ASSUME NEW k \in Cameras
             PROVE  /\ observers'[k] \subseteq {"monitor"} /\ toCall'[k] \subseteq {"monitor"}
                    /\ queue'[k]["liveView"] = "none"
  BY DEF OnlyMonitor
<1>1. queue'[k] = IF Notifying(k) THEN Over(wish[k], queue[k]) ELSE queue[k]
  BY DEF Submit
<1>2. queue'[k]["liveView"] = "none"
  BY <1>1, TwoClients DEF Over, OnlyMonitor
<1>3. observers'[k] \subseteq {"monitor"}
  <2>1. Apply(wish[k], observers[k]) \subseteq {"monitor"}
    BY TwoClients DEF Apply, OnlyMonitor, Clients
  <2>. QED
    BY <2>1 DEF Submit, OnlyMonitor
<1>4. toCall'[k] \subseteq {"monitor"}
  BY DEF Submit, OnlyMonitor
<1>. QED
  BY <1>2, <1>3, <1>4

LEMMA OnlyMonitorObserves ==
  ASSUME TypeOK, OnlyMonitor, AddObserver("monitor") \/ ClearRegistration("monitor")
  PROVE  OnlyMonitor'
<1>1. CASE AddObserver("monitor")
  <2> DEFINE wish == [k \in Cameras |-> [NoWish EXCEPT
        !["monitor"] = IF k = camera THEN "add"
                       ELSE IF k = registration["monitor"] THEN "remove" ELSE "none"]]
  <2>1. wish \in [Cameras -> [Clients -> {"none", "add", "remove"}]]
    BY TwoClients DEF NoWish
  <2>2. \A k \in Cameras : wish[k]["liveView"] = "none"
    BY TwoClients DEF NoWish
  <2>3. Submit(wish)
    BY <1>1 DEF AddObserver
  <2> HIDE DEF wish
  <2>. QED
    BY <2>1, <2>2, <2>3, OnlyMonitorSubmits
<1>2. CASE ClearRegistration("monitor")
  <2> DEFINE wish == [k \in Cameras |-> [NoWish EXCEPT
        !["monitor"] = IF k = registration["monitor"] THEN "remove" ELSE "none"]]
  <2>1. wish \in [Cameras -> [Clients -> {"none", "add", "remove"}]]
    BY TwoClients DEF NoWish
  <2>2. \A k \in Cameras : wish[k]["liveView"] = "none"
    BY TwoClients DEF NoWish
  <2>3. Submit(wish)
    BY <1>2 DEF ClearRegistration
  <2> HIDE DEF wish
  <2>. QED
    BY <2>1, <2>2, <2>3, OnlyMonitorSubmits
<1>. QED
  BY <1>1, <1>2

(* A call only takes its observer off the list.                            *)
LEMMA FewerToCall ==
  ASSUME TypeOK, NEW k \in Cameras,
         toCall' = toCall \/ toCall' = [toCall EXCEPT ![k] = @ \ {"monitor"}]
  PROVE  \A j \in Cameras : toCall'[j] \subseteq toCall[j]
BY DEF TypeOK, SubjectsOK

LEMMA OneCameraStep == TypeOK /\ CallInv /\ OneCameraInv /\ [MonitorNext]_vars => OneCameraInv'
<1> SUFFICES ASSUME TypeOK, CallInv, OneCameraInv, [MonitorNext]_vars PROVE OneCameraInv'
  OBVIOUS
<1> USE ThreadsAssumption, TwoClients
        DEF TypeOK, FlagsOK, ControlOK, SubjectsOK, Threads, CallInv, InCall,
            OneCameraInv, Alone, At, Goto, Call, Back, Returned, Return, LockM, UnlockM, Fail,
            flags, control, cameraVars, startVars, stopVars
<1>1. CASE StartMonitoring
  BY <1>1 DEF StartMonitoring, OnlyMonitor
<1>2. CASE StopMonitoring
  BY <1>2 DEF StopMonitoring, OnlyMonitor
<1>3. CASE NeedTest(Main)
  BY <1>3 DEF NeedTest, OnlyMonitor
<1>4. CASE NeedCreate(Main)
  BY <1>4 DEF NeedCreate, Replace, OnlyMonitor
<1>5. CASE NeedDestroy(Main)
  BY <1>5 DEF NeedDestroy, Replace, OnlyMonitor
<1>6. CASE NeedJoin(Main)
  <2>1. OnlyMonitor'
    BY <1>6 DEF NeedJoin, NoWish, OnlyMonitor
  <2>2. Main \notin Cameras /\ arg[Main] \in Cameras
    BY <1>6 DEF NeedJoin
  <2>3. pc' = [pc EXCEPT ![arg[Main]] = "off", ![Main] = back]
    BY <1>6 DEF NeedJoin
  <2>4. \A k \in Cameras : pc'[k] = "off"
    BY <1>6, <2>2, <2>3 DEF NeedJoin
  <2>. QED
    BY <1>6, <2>1, <2>2, <2>3, <2>4 DEF NeedJoin
<1>7. CASE LaunchStarter
  BY <1>7 DEF LaunchStarter, OnlyMonitor
<1>8. CASE GetStarter
  BY <1>8 DEF GetStarter, OnlyMonitor
<1>9. CASE Relock
  BY <1>9 DEF Relock, OnlyMonitor
<1>10. CASE StopMonitor
  <2>1. OnlyMonitor' /\ UNCHANGED <<liveViewActive, status, camera, back, arg>>
    BY <1>10, OnlyMonitorObserves DEF StopMonitor, OnlyMonitor
  <2>2. UNCHANGED pc \/ pc' = [pc EXCEPT ![Main] = "need"]
    BY <1>10 DEF StopMonitor
  <2>. QED
    BY <1>10, <2>1, <2>2 DEF StopMonitor
<1>11. CASE Unlock
  BY <1>11 DEF Unlock, OnlyMonitor
<1>12. CASE Starting
  <2>1. OnlyMonitor'
    BY <1>12, OnlyMonitorObserves
       DEF Starting, StarterWaited, StarterAborts, StarterProceeds, StarterRegisters, OnlyMonitor
  <2>2. UNCHANGED <<liveViewActive, status, pc, camera, back, arg>>
    BY <1>12
       DEF Starting, StarterWaited, StarterAborts, StarterProceeds, StarterRegisters
  <2>. QED
    BY <2>1, <2>2
<1>13. ASSUME NEW k \in Cameras, CameraExits(k) PROVE OneCameraInv'
  BY <1>13 DEF CameraExits, OnlyMonitor
<1>14. ASSUME NEW k \in Cameras, Notify(k) PROVE OneCameraInv'
  BY <1>14 DEF Notify, OnlyMonitor
<1>15. ASSUME NEW k \in Cameras, CallMonitor(k) PROVE OneCameraInv'
  <2>1. UNCHANGED <<liveViewActive, status, pc, camera, back, arg, observers, queue>>
    BY <1>15 DEF CallMonitor, Called
  <2>2. toCall' = toCall \/ toCall' = [toCall EXCEPT ![k] = @ \ {"monitor"}]
    BY <1>15 DEF CallMonitor, Called
  <2>3. \A j \in Cameras : toCall'[j] \subseteq toCall[j]
    BY <2>2, FewerToCall
  <2>4. OnlyMonitor'
    BY <2>1, <2>3 DEF OnlyMonitor
  <2>. QED
    BY <2>1, <2>4
<1>16. ASSUME NEW k \in Cameras, EndNotify(k) PROVE OneCameraInv'
  <2>1. OnlyMonitor'
    BY <1>16 DEF EndNotify, Apply, NoWish, OnlyMonitor, Clients
  <2>. QED
    BY <1>16, <2>1 DEF EndNotify
<1>17. \A k \in Cameras : ~CallLiveView(k)
  <2>1. \A k \in Cameras : "liveView" \notin toCall[k]
    BY DEF OnlyMonitor
  <2>. QED
    BY <2>1 DEF CallLiveView, Called
<1>18. \A t \in {Main} \cup Cameras : ~Stop(t)
  BY DEF Stop, StopTest, StopSpawn, StopAssign, StopDiscard
<1>19. ~(SetPeriod \/ StartTest \/ WaitForStop \/ OpenLiveView \/ RegisterLiveView
         \/ LiveViewStarted)
  BY DEF SetPeriod, StartTest, WaitForStop, OpenLiveView, RegisterLiveView, LiveViewStarted
<1>20. CASE UNCHANGED vars
  BY <1>20 DEF vars, OnlyMonitor
<1>. QED
  BY <1>1, <1>2, <1>3, <1>4, <1>5, <1>6, <1>7, <1>8, <1>9, <1>10, <1>11, <1>12, <1>13, <1>14,
     <1>15, <1>16, <1>17, <1>18, <1>19, <1>20
     DEF MonitorNext, MainStep, CameraStep, HandleCameraControllerNeed

(* While only the monitoring is started and stopped there is never a       *)
(* second camera controller on the device, whenever the commands come and  *)
(* however long the old one's thread takes to end                          *)
(* (handleCameraControllerNeed, ~CameraController).                        *)
THEOREM OneCameraAtATime == SignalSpec => []OneCamera
<1>1. SignalInit => OneCameraInv
  <2> SUFFICES ASSUME Init PROVE OneCameraInv
    BY DEF SignalInit
  <2>1. OnlyMonitor
    BY TwoClients DEF Init, OnlyMonitor, NoWish
  <2>2. pc[Main] = "idle" /\ \A t \in Cameras \cup Stoppers : pc[t] = "off"
    BY ThreadsAssumption DEF Init, Threads
  <2>. QED
    BY <2>1, <2>2 DEF Init, OneCameraInv, Alone
<1>2. TypeOK /\ CallInv /\ OneCameraInv /\ [SignalNext]_allVars => OneCameraInv'
  BY OneCameraStep, MonitorCommandStep
<1>3. SignalSpec => [](TypeOK /\ CallInv)
  <2>1. IInv => TypeOK /\ CallInv
    BY DEF IInv
  <2>. QED
    BY <2>1, SignalsAreCommands, InvariantCorrect, PTL
<1>4. OneCameraInv => OneCamera
  BY DEF OneCameraInv, OneCamera
<1>. QED
  BY <1>1, <1>2, <1>3, <1>4, PTL DEF SignalSpec
=============================================================================
