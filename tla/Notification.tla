---------------------------- MODULE Notification ----------------------------
(***************************************************************************)
(* MonitorController's notification controllers (Whatsapp- and             *)
(* MailNotificationController.cpp) on the task scheduler they share with   *)
(* the recording's daily maintenance, from the construction of the         *)
(* MonitorController to the end of its destruction.                        *)
(*                                                                         *)
(* The camera thread calls the observers of the motion detector one after  *)
(* the other; an ALARM starts an asynchronous notification, a NO_ALARM     *)
(* looks for its result, and looks again later, on the scheduler's thread, *)
(* if it is not there yet.  Nothing but the scheduler's queue is locked:   *)
(* between the look at a future and what is done about it, the other       *)
(* thread may look too, and the owner may destroy the controller.          *)
(* A controller without contacts does not observe and does nothing; it is  *)
(* left out.                                                               *)
(*                                                                         *)
(* A controller that is used after its destruction is undefined behaviour: *)
(* the call finds the members still in memory as the destructor left them, *)
(* or the program crashes ("crashed").  A future that another thread has   *)
(* emptied throws, which is caught.                                        *)
(***************************************************************************)
EXTENDS TaskScheduler, FiniteSets

CONSTANTS Observers,     \* the controllers in the order they observe
          Contacts,      \* Contacts[c]: who a controller's notifications go to
          AtOnce,        \* the controllers that tell all contacts in one send
          FirstDay, EveryDay,   \* RecordingController's maintenance tasks
          Camera, Starter,      \* the camera thread, the constructing thread
          Nobody,
          MinDelay,      \* config::minNotificationDelay(), in ticks
          Recheck,       \* delay of the next look at a result, in ticks
          Tomorrow,      \* what remains of this day, in ticks
          Day,           \* 24 hours, in ticks
          MaxPending     \* bound: rechecks of one controller in the queue

Channels == ToSet(Observers)

ASSUME NotificationAssumption ==
  /\ Observers \in Seq(Channels)
  /\ \A c \in Channels : Contacts[c] # {}
  /\ FirstDay # EveryDay /\ {FirstDay, EveryDay} \cap Channels = {}
  /\ Task = Channels \cup {FirstDay, EveryDay}
  /\ Client = {Camera, Starter}
  /\ {MinDelay, Recheck, Day, MaxPending} \subseteq Nat
  /\ {Recheck, Tomorrow, Day} \subseteq 0 .. Longest
  /\ \A w \in Task : Period[w] = IF w = EveryDay THEN Day ELSE 0
  /\ Nobody \notin Channels /\ AtOnce \subseteq Channels

VARIABLES
  work,      \* notificationWork_: no future, or one "running" or "ready"
  toTell,    \* the contacts its notification has still to try
  sinceLast, \* ticks since lastNotificationTime_, at most MinDelay
  calm,      \* history: a NO_ALARM was handled since the work began
  toCall,    \* the observers the camera thread has still to call
  event,     \* the state it calls them with
  reading,   \* the controller whose result each thread is about to get
  late,      \* the controller each thread is about to schedule a recheck of
  worked,    \* the scheduler's task has done its work
  owner,     \* the life of the MonitorController
  alive,     \* the controllers not destroyed
  crashed

futureVars == <<work, toTell, sinceLast, calm>>
cameraVars == <<toCall, event>>
lifeVars == <<owner, alive>>
lookVars == <<reading, late>>
vars == <<schedulerVars, futureVars, cameraVars, lookVars, worked, lifeVars, crashed>>

TypeOK ==
  /\ SchedulerTypeOK
  /\ work \in [Channels -> {"none", "running", "ready"}]
  /\ \A c \in Channels : toTell[c] \subseteq Contacts[c]
  /\ sinceLast \in [Channels -> 0 .. MinDelay]
  /\ calm \in [Channels -> BOOLEAN]
  /\ toCall \in Seq(Channels)
  /\ event \in {"ALARM", "NO_ALARM"}
  /\ reading \in [{Camera, Loop} -> Channels \cup {Nobody}]
  /\ late \in [{Camera, Loop} -> Channels \cup {Nobody}]
  /\ worked \in BOOLEAN
  /\ owner \in {"building", "alive", "stopping"}
  /\ alive \subseteq Channels
  /\ crashed \in BOOLEAN

Init ==
  /\ SchedulerInit
  /\ work = [c \in Channels |-> "none"]
  /\ toTell = [c \in Channels |-> {}]
  /\ sinceLast = [c \in Channels |-> MinDelay]
  /\ calm = [c \in Channels |-> FALSE]
  /\ toCall = <<>> /\ event = "NO_ALARM"
  /\ reading = [t \in {Camera, Loop} |-> Nobody]
  /\ late = [t \in {Camera, Loop} |-> Nobody]
  /\ worked = FALSE
  /\ owner = "building" /\ alive = Channels
  /\ crashed = FALSE
-----------------------------------------------------------------------------
\* The recording schedules its maintenance when it is built.
Build ==
  /\ owner = "building"
  /\ ScheduleAfter(Starter, Tomorrow, FirstDay)
  /\ owner' = "alive"
  /\ UNCHANGED <<futureVars, cameraVars, lookVars, worked, alive, crashed>>

\* The detector's state changes: every controller is called.
Change(s) ==
  /\ owner = "alive" /\ toCall = <<>> /\ Camera \notin toNotify
  /\ \A c \in Channels : Len(SelectSeq(queue, LAMBDA e : e.task = c)) < MaxPending
  /\ toCall' = Observers
  /\ event' = s
  /\ UNCHANGED <<schedulerVars, futureVars, lookVars, worked, lifeVars, crashed>>

Called == Head(toCall)
Return == toCall' = Tail(toCall)

CameraIsIn(s) == toCall # <<>> /\ event = s /\ Camera \notin toNotify

\* notifyContacts
NotifyContacts ==
  /\ CameraIsIn("ALARM")
  /\ IF sinceLast[Called] < MinDelay \/ work[Called] # "none"
       THEN UNCHANGED futureVars
       ELSE /\ work' = [work EXCEPT ![Called] = "running"]
            /\ toTell' = [toTell EXCEPT ![Called] = Contacts[Called]]
            /\ sinceLast' = [sinceLast EXCEPT ![Called] = 0]
            /\ calm' = [calm EXCEPT ![Called] = FALSE]
  /\ Return
  /\ UNCHANGED <<schedulerVars, event, lookVars, worked, lifeVars, crashed>>

\* The asynchronous work ends when every contact was tried.
Tell(c, contacts) ==
  /\ work[c] = "running"
  /\ toTell' = [toTell EXCEPT ![c] = @ \ contacts]
  /\ work' = IF toTell'[c] = {} THEN [work EXCEPT ![c] = "ready"] ELSE work
  /\ UNCHANGED <<schedulerVars, sinceLast, calm, cameraVars, lookVars, worked, lifeVars, crashed>>

\* WhatsApp: contact after contact.  A send that fails throws, is caught and
\* logged; the others are still tried.
TellOne(c) == c \notin AtOnce /\ \E k \in toTell[c] : Tell(c, {k})

\* Mail: one message to all, which is sent or not.
TellAll(c) == c \in AtOnce /\ Tell(c, toTell[c])

Send(c) == TellOne(c) \/ TellAll(c)

\* Bug: the result is fetched without asking whether it is there.
LookForResult_Bug(t, c) ==
  /\ reading' = IF work[c] = "none" THEN reading ELSE [reading EXCEPT ![t] = c]
  /\ UNCHANGED late

\* Bug: a recheck that comes too early does not schedule the next one.
LookForResult_Once(t, c) ==
  /\ reading' = IF work[c] = "ready" THEN [reading EXCEPT ![t] = c] ELSE reading
  /\ late' = IF work[c] = "running" /\ t # Loop THEN [late EXCEPT ![t] = c] ELSE late

\* processNotificationResults up to what wait_for says, by thread t.
LookForResult(t, c) ==
  /\ reading' = IF work[c] = "ready" THEN [reading EXCEPT ![t] = c] ELSE reading
  /\ late' = IF work[c] = "running" THEN [late EXCEPT ![t] = c] ELSE late

\* Thread t is between its look and what it does about it.
Busy(t) == reading[t] # Nobody \/ late[t] # Nobody

CameraLooks ==
  /\ CameraIsIn("NO_ALARM") /\ ~Busy(Camera)
  /\ LookForResult(Camera, Called)
  /\ calm' = [calm EXCEPT ![Called] = TRUE]
  /\ IF Busy(Camera)' THEN UNCHANGED toCall ELSE Return
  /\ UNCHANGED <<schedulerVars, work, toTell, sinceLast, event, worked, lifeVars, crashed>>

\* get(): it blocks while the work is running, and empties the future.
Get(t) ==
  /\ reading[t] # Nobody
  /\ work[reading[t]] # "running"
  /\ work' = [work EXCEPT ![reading[t]] = "none"]
  /\ reading' = [reading EXCEPT ![t] = Nobody]
  /\ UNCHANGED <<schedulerVars, toTell, sinceLast, calm, event, late, lifeVars, crashed>>

CameraGets == Get(Camera) /\ Return /\ UNCHANGED worked
TaskGets == Get(Loop) /\ worked' = TRUE /\ UNCHANGED toCall

\* The result was not there: the next look is scheduled, whatever has become
\* of the work, or of the controller, meanwhile.
ScheduleRecheck(t) ==
  /\ late[t] # Nobody
  /\ ScheduleAfter(t, Recheck, late[t])
  /\ late' = [late EXCEPT ![t] = Nobody]
  /\ UNCHANGED <<futureVars, event, reading, lifeVars, crashed>>

CameraReschedules == ScheduleRecheck(Camera) /\ Return /\ UNCHANGED worked
TaskReschedules == ScheduleRecheck(Loop) /\ worked' = TRUE /\ UNCHANGED toCall

Running(w) == loop = "run" /\ current = w /\ ~worked /\ ~Busy(Loop)

\* The scheduled look at a result, whose controller may be gone.
TaskLooks(c) ==
  /\ Running(c)
  /\ LookForResult(Loop, c)
  /\ worked' = ~Busy(Loop)'
  /\ UNCHANGED <<schedulerVars, futureVars, cameraVars, lifeVars, crashed>>

\* Its other outcome, at any point from which the controller is gone.
TaskCrashes ==
  /\ loop = "run" /\ ~worked
  /\ current \in Channels \ alive
  /\ crashed' = TRUE
  /\ UNCHANGED <<schedulerVars, futureVars, cameraVars, lookVars, worked, lifeVars>>

\* The first maintenance sets up the daily one, which is rescheduled by
\* scheduleEvery; the maintenance itself concerns the archive only.
TaskMaintains ==
  /\ \/ Running(FirstDay) /\ ScheduleAfter(Loop, Day, EveryDay)
     \/ Running(EveryDay) /\ UNCHANGED schedulerVars
  /\ worked' = TRUE
  /\ UNCHANGED <<futureVars, cameraVars, lookVars, lifeVars, crashed>>

TaskEnds ==
  /\ worked /\ Finish
  /\ worked' = FALSE
  /\ UNCHANGED <<futureVars, cameraVars, lookVars, lifeVars, crashed>>

\* The owner destroys the MonitorController when the camera has been told to
\* leave it alone: the controllers, last built first, each waiting for its
\* work, and then the scheduler.
StopMonitor ==
  /\ owner = "alive" /\ toCall = <<>> /\ toNotify \cap Client = {}
  /\ owner' = "stopping"
  /\ UNCHANGED <<schedulerVars, futureVars, cameraVars, lookVars, worked, alive, crashed>>

LastAlive(c) ==
  \E i \in DOMAIN Observers :
    /\ c = Observers[i]
    /\ c \in alive
    /\ \A j \in i + 1 .. Len(Observers) : Observers[j] \notin alive

\* Bug: the destructor leaves the notification to itself.
DestroyController_Bug(c) ==
  /\ owner = "stopping" /\ LastAlive(c)
  /\ alive' = alive \ {c}
  /\ UNCHANGED <<schedulerVars, futureVars, cameraVars, lookVars, worked, owner, crashed>>

DestroyController(c) ==
  /\ owner = "stopping" /\ LastAlive(c)
  /\ work[c] # "running"
  /\ work' = [work EXCEPT ![c] = "none"]
  /\ alive' = alive \ {c}
  /\ UNCHANGED <<schedulerVars, toTell, sinceLast, calm, cameraVars, lookVars, worked, owner, crashed>>

DestroyScheduler ==
  /\ owner = "stopping" /\ alive = {}
  /\ RaiseDone \/ Join
  /\ UNCHANGED <<futureVars, cameraVars, lookVars, worked, lifeVars, crashed>>

\* What the scheduler's own code does between the clients' calls.
OthersWait == UNCHANGED <<futureVars, cameraVars, lookVars, worked, lifeVars, crashed>>
Wakes(t) == NotifyOne(t) /\ OthersWait
WakesByItself == SpuriousWakeup /\ OthersWait
LoopRuns == (TimeOut \/ LoopStep) /\ OthersWait

TimePasses ==
  /\ Tick
  /\ sinceLast' = [c \in Channels |-> IF sinceLast[c] < MinDelay
                                        THEN sinceLast[c] + 1 ELSE MinDelay]
  /\ UNCHANGED <<work, toTell, calm, cameraVars, lookVars, worked, lifeVars, crashed>>

CameraStep == NotifyContacts \/ CameraLooks \/ CameraGets \/ CameraReschedules
TaskStep ==
  \/ \E c \in Channels : TaskLooks(c)
  \/ TaskGets \/ TaskReschedules \/ TaskCrashes \/ TaskMaintains \/ TaskEnds
OwnerStep ==
  \/ \E c \in Channels : DestroyController(c)
  \/ DestroyScheduler

Next ==
  /\ ~crashed
  /\ \/ Build
     \/ \E s \in {"ALARM", "NO_ALARM"} : Change(s)
     \/ CameraStep
     \/ \E c \in Channels : Send(c)
     \/ TaskStep
     \/ StopMonitor
     \/ OwnerStep
     \/ \E t \in Threads : Wakes(t)
     \/ WakesByItself
     \/ LoopRuns
     \/ TimePasses

Spec == Init /\ [][Next]_vars

\* Every thread goes on, time passes, and the programs that send end: nothing
\* in the code makes them (the FIXME in the destructors).
Fairness ==
  /\ WF_vars(~crashed /\ CameraStep)
  /\ WF_vars(~crashed /\ TaskStep)
  /\ WF_vars(~crashed /\ OwnerStep)
  /\ WF_vars(~crashed /\ LoopRuns)
  /\ WF_vars(~crashed /\ TimePasses)
  /\ WF_vars(~crashed /\ \E t \in Threads : Wakes(t))
  /\ \A c \in Channels : WF_vars(~crashed /\ Send(c))

FairSpec == Spec /\ Fairness
-----------------------------------------------------------------------------
\* Between wait_for and get in processNotificationResults another thread may
\* take the result, but the camera thread never blocks in get for the length
\* of a notification.
CameraNeverWaits ==
  reading[Camera] # Nobody => work[reading[Camera]] # "running"

\* A notification that was still running at a NO_ALARM has its result fetched
\* once it has ended, so that it does not suppress the next alarm's: the chain
\* of rechecks does not break (processNotificationResults).
ResultIsFetched ==
  \A c \in Channels :
    (calm[c] /\ work[c] = "ready") ~> (work[c] = "none" \/ crashed)

\* How often c will still be scheduled by what was found already, or looked at.
Rechecks(c) ==
  Cardinality({i \in DOMAIN queue : queue[i].task = c})
  + Cardinality({t \in DOMAIN late : late[t] = c})

\* A destroyed controller is looked at no more often than was scheduled, or
\* just about to be, when it died: a look that finds it gone schedules no other,
\* since the destructor has emptied its future
\* (~MailNotificationController, processNotificationResults).
RechecksRunOut ==
  [][\A c \in Channels \ alive : Rechecks(c)' <= Rechecks(c)]_vars

\* The destructors of the controllers and of the scheduler return.
StopReturns == (owner = "stopping") ~> (joined \/ crashed)
=============================================================================
