# TLA+ model of antifurto

Antifurto is a surveillance program for a Raspberry Pi.  One process watches a
camera, decides whether something moves, records pictures, uploads them, notifies
its owner, and serves a live view to a web page.  This directory holds TLA+ modules
translated from its C++ source, TLC configurations that check them on small
instances, and TLAPS proofs for every value of the constants.

Paths below are relative to the repository's root.  `PROJECT.json` maps every
definition to the lines it stands for.

## 1. The system

```
 web page --signal--> SignalHandler --start/stop--> Antifurto
                                                     |  m_
       +---------------------------------------------+---------------+
       | creates/destroys        registers            registers      |
       v                                                             v
 CameraController ==notify==> MonitorController          LiveViewController
 (camera thread)              |                           | LiveView
                              | MotionDetector            | SpScQueue -> socket
                              v alarm states              v
                   RecordingController              frontend (lazy pirate)
                   MailNotificationController
                   WhatsappNotificationController
                        | SpScQueue (record, upload), TaskScheduler
                        v
                   PictureArchive, DropboxUploader, notifiers
```

### Components, their state, operations and what makes them correct

| Component | Source | State | Operations | Correct when |
|---|---|---|---|---|
| Queue with a sleeping worker | `src/concurrency/SpScQueue.hpp`, `binsem.hpp`, folly's `ProducerConsumerQueue.hpp` | ring, two indices, `working_`, `done_`, semaphore | `enqueue`, `work`, destructor | first in first out, no wake-up lost, the destructor returns |
| Motion detector | `src/MotionDetector.cpp` | last picture and difference, alarm state, two counters | `examinePicture`, `reset` | alarms begin and end after the runs of motion and stillness the thresholds ask for |
| Observer subject | `src/meta/Observer.hpp` | observers, queue of changes, two mutexes | register, unregister, `notify` | the list is not changed while it is walked; a synchronous unregistration is final |
| Camera controller | `src/CameraController.cpp`, `src/meta/Metronome.hpp` | `done_`, condition variable, desired periods | `addObserver`, `clear`, `setDesiredPeriod`, loop, destructor | observers get pictures, fast enough; the destructor returns |
| Application and live view lifecycle | `src/Antifurto.cpp`, `src/LiveViewController.cpp` | active flags, `camera_`, registrations, start future, stop future, `status_` | start and stop of monitoring and of the live view, live view time-out | stopping is complete, a cancelled start starts nothing, no pointer is used after its object is gone, commands return |
| Live view server | `src/LiveView.cpp`, `LiveViewController.cpp`, `frontend/fcgi` | queue of pictures, socket, `running_`, time of the last picture accepted; each front end's socket | `addPicture`, `write`, destructor; request with time-out and retry | requests and answers alternate, the view stops exactly when nobody asks, a stop returns |
| Recording, archive, upload | `src/RecordingController.cpp`, `PictureArchive.cpp`, `DropboxUploader.cpp` | record buffer, current folder, two queues, files put aside | `addPicture`, `startSaving`, `stopSaving`, upload, retry, maintenance | pictures around an alarm are kept, no file lost or uploaded twice, the folder in use is not removed |
| Notification controllers | `src/MailNotificationController.cpp`, `WhatsappNotificationController.cpp` | future of the running notification | on alarm, on no alarm, scheduled check, destructor | every result is fetched, the camera thread never waits for one, the rechecks of a destroyed controller run out |
| Task scheduler | `src/concurrency/TaskScheduler.cpp` | ordered tasks, `done_`, condition variable | `scheduleAt`, `scheduleAfter`, `scheduleEvery`, loop, destructor | a task runs once, not before its time, earliest first; no due task is slept through |
| Signals | `src/main.cpp`, `src/ipc/PosixSignalHandler.cpp`, `SignalHandler.cpp` | one flag per signal, `run_` | handler, poll, `main` from the command line to the exit | every signal is obeyed, by a run of the handler that begins after it |
| Cameras | `src/PiCamera.cpp`, `lib/picam/camera.cpp` | components, ports, three buffers, a queue of frames | start, stop, the callback, `takePicture` | each buffer has one owner, frames are recent and keep coming, nothing is left behind |
| Configuration | `src/Config.cpp` | the options stored | command line, configuration file, defaults | the command line wins over the file, the switches over both |
| Notifiers and subprocesses | `src/MailNotifier.cpp`, `WhatsappNotifier.cpp`, `ipc` | | | seen by their users as a call that ends, well or not |
| Text, files, log, web pages | see `PROJECT.json` | | | wording, paths and layout: not modelled |

### How they interact

* **Commands.** Signals set flags; the main thread polls and calls Antifurto's four
  commands one at a time, each under `m_`.
* **The camera thread** of `CameraController` calls the observers.  On it run
  `MonitorController::examinePicture` (motion detector, recording, notification) and
  `LiveViewController::addPicture`.  It never takes `m_`.
* **The start-up thread** of `startMonitoring` waits the configured delay, then takes
  `m_` and registers the monitor.
* **The stop work** of `LiveViewController::stop` runs on a thread of its own, without
  `m_`, and may destroy the camera controller.
* **Workers** of the three queues (record, upload, live view) and the scheduler's thread
  take work from the camera thread.

### What is hard

Nearly everything above is concurrent and little of it is covered by the unit tests,
which are sequential.  The hard behaviours: two threads on a lock-free ring with a
sleeping consumer; observers that come and go while they are called; a condition
variable whose predicate changes outside its mutex; a start that is cancelled during its
delay; objects destroyed by one thread while another is about to use them; a destructor
that joins a thread that is in the middle of something; counters that start
uninitialised and wrap; time-outs that race with late answers; a start of a dozen calls each of
which may fail; queues that fill up and work that is put aside and retried.  `PROJECT.json` lists them as hazards, at their lines.

## 2. The modules

| Module | What it is | Checked by | Proved in |
|---|---|---|---|
| `FifoQueue` | abstract specification: a bounded FIFO that can be closed | through `SpScQueue` | |
| `SpScQueue` | the queue, one action per access to a shared atomic | `MCSpScQueue` | `SpScQueueProofs` |
| `MotionDetector` | the alarm state machine with its picture comparison | `MCMotionDetector` | `MotionDetectorProofs` |
| `Subject` | pieces of `meta::Subject` between two shared accesses | through `CameraController` | `CameraControllerProofs` |
| `CameraController` | extends `Subject` with the camera thread, two clients and the owner | `MCCameraController` | `CameraControllerProofs` |
| `Antifurto` | `AntifurtoImpl` and `LiveViewController` with all their threads | `MCAntifurto` | `AntifurtoProofs` |
| `Configuration` | the sources of options and what is made of them | through `Signals` | |
| `Signals` | extends `Antifurto` and `Configuration` with `main`, the signals and the polling loop | `MCSignals` | `AntifurtoProofs` |
| `Scheduler` | abstract specification: tasks in the order of their times, one at a time | through `TaskScheduler` | |
| `TaskScheduler` | the scheduler's thread, mutex, waits and wake-ups | through `Notification` | `NotificationProofs` |
| `Notification` | extends `TaskScheduler` with its clients: the notification controllers and the maintenance | `MCNotification` | `NotificationProofs` |
| `Recording` | pictures on their way to disk and to the uploader, on three threads | `MCRecording` | `RecordingProofs` |
| `LiveServer` | the live view's queue, worker and socket, and its front ends | `MCLiveServer` | `LiveServerProofs` |
| `PiCam` | the Raspberry Pi's camera: start, stop, error paths, buffers | `MCPiCam` | `PiCamProofs` |

Operators named `..._Bug` (or `_OffByOne`, `_Locked`, and so on) are mutated forms of the
definition below them, each a plausible mistake at that place.  They are used by no
specification; each shows that one property can fail.

### SpScQueue, FifoQueue

The producer's `enqueue` is `Enqueue`, then `LoadIndices` (the ring is full or not),
`StoreRecord`, `PublishWrite`, `TestAndSet` on `working_`, and `WakeWorker` when the flag
was clear.  The worker's `work` is its two nested loops: `OuterLoop`, `WaitSemaphore`,
`CheckDone`, `ReadIndices`, `MoveRecord`, `PublishRead`, `FinishWork`, and between the two
drains `ClearFlag`; `drain` says which one it is in.  The destructor is `RaiseDone`,
`SignalWorker`, `JoinWorker`.  The semaphore's operations hold a mutex for their whole
length and are single steps.

The refinement mapping of `ImplementsFifo` reads the abstract queue off the ring
(`Pending`), skipping the slot whose record was moved out but not released yet, and the
abstract phase off `done` and the worker's position: a worker that has passed the test of
`done_` may still take one value after the destructor has begun.

What this rests on:

* *Sequential consistency.*  The source uses release stores and acquire loads on the
  indices and sequentially consistent operations on `working_` and `done_`.  The one
  place where less than that could matter is the producer's store to `writeIndex_`
  followed by its `test_and_set`, and the worker's `clear` followed by its load of
  `writeIndex_`.  The read-modify-write is a full barrier on x86; the sequentially
  consistent accesses are compiled with barriers on the ARMv7 of the Raspberry Pi.  A
  build for a weaker mapping is not covered.
* *One producer.*  `Enqueue` is only possible when `pcProducer` is idle.  The recording
  controller's upload queue has several producers: see `Recording`.
* *`workFunc_` returns*, for the liveness properties.  `LiveView::write` may wait in
  `recv` for as long as the live view runs.
* The boost variant of the ring is not modelled.

### MotionDetector

A picture is the set of its bright pixels: `absdiff` is the symmetric difference,
`bitwise_and` the intersection, and "at least `MIN_MOTION_PIXELS` pixels" a cardinality.
Blurring and thresholding are part of what makes a picture such a set.  `ExaminePicture`
has one disjunct for each early return; `Reset` is `MotionDetector::reset`, called when
monitoring starts again, which keeps the state and the counters.  `consecutiveNoMotion_`
is not initialised by the constructor, so `Init` lets it be any unsigned number, and both
counters wrap at `MaxUnsigned`.  The variables `seen`, `verdict`, `motionRun` and `stillRun`
record what happened, so that the properties need not repeat the counters.

### Subject, CameraController

An observer is its registration id; ids are never reused.  Registration and
unregistration try `regM_` and otherwise append to `registrationQueue_`; that a client
found the lock busy and that it appends are two steps, since the lock may be released
between them.  `notify` is `LockObservers`, `CallObserver` for each observer,
`EndCalls`, `HandleQueue`, `UnlockObservers`; that `HandleQueue` and
`UnlockObservers` are two steps is where an entry can stay in the queue until the next
notification.

The camera thread's test of `done_` and `hasObservers()` is `TestObservers`, under `cvm_`;
the mutex stays locked until `FallAsleep` releases it, so `RaiseDone`, which locks it,
cannot happen between the two, and `AddWake`, which does not lock it, can.  Waits may
return by themselves (`SpuriousWakeup`), but nothing relies on it: it has no fairness.
`hasObservers()` and `done_` are read without the lock that writers hold in places: the
models take the old or the new value, as on any machine where a word is written at once.
Addition is serialised, because both callers hold Antifurto's `m_`; unregistration is not.
`desiredPeriods_` keeps the periods of removed observers, as in the code, where
`onObserverRemoved` is never called.

### Antifurto

Four kinds of threads: Main runs the commands, the starter runs the lambda of
`startMonitoring`, stoppers run the lambda of `LiveViewController::stop`, and each camera
controller has its thread.  `handleCameraControllerNeed` is called by Main and by the
stoppers: its two tests and the two halves of `unique_ptr::reset` (the pointer is changed,
then the old object is destroyed, which joins its thread) are separate steps
`NeedTest`, `NeedCreate`, `NeedDestroy`, `NeedJoin`.  `LiveViewController::stop` can be
entered by Main and by the camera thread (the live view's time-out) at once; the
assignment to `stopWork_` waits for the thread of the future it replaces (`StopDiscard`).
A registration points to the subject it was made with and becomes `Dangling` when that
camera is destroyed.

The camera controller is seen from outside here: its thread notifies, calls, applies
the queued changes, and exits when `done_` is raised.  Its inner races are
`CameraController`'s and not repeated.  The queue of changes is one wish per client,
because an id is a client and the last entry on a client decides.

Using a null or destroyed object, or an exception nobody catches, sets `failure` and
stops everything.  Such states are reachable: see the findings.

### Configuration, Signals

A source of options is a function from the options it gives to their values.  What is
stored first stays, so that the command line wins over the file; the lists of contacts
grow (`Store`).  An option unknown to a source refuses it: the switches `--monitor` and
`--live-view` cannot stand in the file.  The file is parsed after `--help` too.  Of the
values only those that decide how the program starts are told apart.

`at` is where the main thread is in `main` and in `signalHandlingLoop`.  The handler of
a signal (`Send`) may run at any moment once it is installed; it raises a flag, so that
signals of one kind merge.  The loop looks at the flags in the order of the signals'
numbers (SIGINT is 2, then SIGUSR1, SIGUSR2 and SIGTERM), one step to test a flag
(`Look`), one to lower it (`Lower`) and one to call the handler (`Obey`).  A command goes on with the
steps of `Antifurto`, whose variables `Signals` shares, and the main thread is back in the
loop when the call has returned (`Obeyed`).  The termination signals end the loop after the round;
`Destroy` is `~AntifurtoImpl`, which stops the monitoring, and `Exit` the end of the
program, when no thread is left.  The live view's two signals take the same way and are
left to `Antifurto`, whose user may give every command at any moment; signals that come
after the loop are given up at the exit.

### Scheduler, TaskScheduler

The scheduler's thread runs from one wait to the next with the mutex held, which is one
step: `Leave`, `WaitForTask`, `WaitForTime`, `Take`.  Clients insert under the mutex
(`ScheduleAfter`) and call `notify_one` after they have released it (`NotifyOne`): between
the two the thread may have looked at the queue, and waits may return by themselves.  Time
is what remains to wait, in ticks; tasks of the same tick come out in any order, as from
a priority queue.  The wrapper of `scheduleEvery` schedules the next run before the
work (`Begin`).  The abstract `Scheduler` has the queue and two flags: whether a task runs, and
whether the destructor has begun.

### Notification

`MailNotificationController` and `WhatsappNotificationController` have the same structure;
they differ in how they send, to all contacts at once or one after the other.  Both live
in `MonitorController` with the recording, whose daily maintenance shares the scheduler.
The camera thread calls the controllers one after the other, in the order they registered
with the motion detector; an alarm starts the asynchronous work unless one is valid or
the last is too recent, and no alarm looks for its result.  The look (`LookForResult`) and what
follows from it, to fetch the result (`Get`) or to schedule a recheck (`ScheduleRecheck`), are two
steps, since nothing locks the future or the controller.  In between the other thread may fetch the result, which
throws for the one that comes late and is caught; and the owner may destroy the controller that the
scheduler's thread has looked at, which is then scheduled again all the same.  `reading`
and `late` say who is between the two steps, and with which controller.  The owner's destructors come last:
controllers in the reverse order of their construction, each waiting for its work, then
the scheduler.  A recheck that is still scheduled may so run on a destroyed controller: undefined
behaviour that may go unnoticed (`TaskLooks`, which finds the future that the destructor has
emptied) or crash, at any point from which the controller is gone (`TaskCrashes`).  Every property allows for
it.  A controller without contacts does nothing and is left out.

### Recording

The camera thread gives pictures to the recording worker (`AddPicture`) and, when the
motion detector's state changes, starts and stops saving.  The worker keeps the picture in the
record buffer or saves it; a saved file goes to the upload worker's queue or, if that is
full, into `toUploadAfterQueue_` under its mutex.  `enqueueOlderPictures` moves files from there
at the end of an alarm, on the camera thread, and as a scheduled retry.  The maintenance counts
directories (`CountFolders`) and then lists and removes the oldest (`DeleteFolders`), two steps
on the scheduler's thread between which a day's directory may be made.  Both subtract `MaxDays`, an
`unsigned` that the configuration does not check, and keep the difference in an `int`: `AsInt`, with
`MaxInt` the largest one.  `saved` are the files given to `imwrite`, whose result the code ignores.  Both workers are
`SpScQueue`s, here the bounded FIFOs which that module shows them to be.

Neither the archive nor the producers of the upload queue are synchronised: the camera
thread can walk the buffer while the recording worker adds to it, write the current folder's name
while the worker reads it, and two threads can be in `ProducerConsumerQueue::write` at once.
All three races are reachable.  With a `MaxDays` that the `int` wraps, the maintenance can in
addition step past the directories it has listed.  All of this is undefined behaviour, so the model records
which it was in `undefined` and goes no further; the properties say what holds up to it.

### LiveServer

Pictures are counted.  The worker takes one, receives a request and sends the picture
as its answer; `recv` and `send` time out and look at `running_` (a `recv` that times out
while the view runs is tried again and is no step).  A front end sends a request, polls
for the answer, and when that does not come throws its socket away and tries again or answers
503.  What an old socket had sent is "stale": the server may still spend a picture on it, and the
answer is lost.  A REQ or REP socket that is used out of turn throws; ZeroMQ is modelled
from this use.  `addPicture` notes the time of a picture the queue accepted and asks for the
stop when the queue was full for longer than the inactivity time-out; that the controller then
stops only once, on which thread, is `Antifurto`'s.  A second `send` after one that was
interrupted would send the message that the first had emptied; an answer is an answer here,
whatever it holds.

### PiCam

`Start` and the steps of `Starting` are the calls of `CCamera::Init` and
`CCameraOutput::Init`, in their order, each with its own error path; `alive` holds the MMAL
objects that exist.  A failure after the connection exists releases an output whose port is
null or whose component was just destroyed: undefined, recorded in `undefined`, and the model
goes no further.  MMAL fills a buffer at the port and gives it to the callback, on its own
thread; the callback's test of the queue's length, its removal of the oldest frame, its return of a
buffer to the port and its insertion are separate steps, and so are the reader's
`BeginReadFrame`, `EndReadFrame` and the return of a buffer (`ResendBuffer`).  `takePicture`
ignores that there is no frame yet ("no frame").  When the port is disabled, it gives all buffers
back through the callback.  There is one output, with or without a resizer, and one camera at a
time, so that `ALREADY_CREATED` does not occur.

## 3. The runs

| Run | Bounds | States | Shows |
|---|---|---|---|
| `spsc_queue` | 2 values, ring of 4 slots | 27 537 | `SlotDiscipline`, `NoLostWakeup`, `ImplementsFifo`, and under fairness `AcceptedIsWorked` and `JoinReturns` |
| `motion` | 2 pixels, thresholds 3, 2, 4, unsigned up to 5 | 2 595 | alarms begin and end after the runs they should, verdicts are about three pictures of one session, stillness ends an alarm |
| `motion_test` | the test's thresholds 3, 4, 20 | | *violation*: the unit test's expectation |
| `camera` | 2 clients, 3 registrations, 2 periods | 400 522 | `WalkIsUndisturbed`, `TrueClearIsFinal`, `RateSuitsObservers`, `JoinReturns` |
| `camera_lost_wakeup` | 1 client, 1 registration | | *violation*: a registered observer gets no pictures |
| `lifecycle` | 2 cameras, 2 stop works, all commands | 2 337 841 | stopping the monitor is complete; a cancelled start registers nothing; no monitor is left behind |
| `live_view_crash` | the same, live view commands only | | *violation*: a null `camera_` is used |
| `monitoring_only` | the program from its command line to its exit, 4 signals, 4 command lines, 3 files | 119 907 | `NoSignalLost`, `OneCamera`, and under fairness `SignalsObeyed` and `StartTakesEffect` |
| `notification` | 2 controllers with a contact each, delays up to 2 ticks, 1 recheck of a controller in the queue | 280 820 | `NoOversleep`, `TopIsThere`, `ImplementsScheduler`, `CameraNeverWaits`, `RechecksRunOut`, and under fairness `ResultIsFetched`, `StopReturns` |
| `recording` | 4 pictures, buffer of 2, queues of 2 and 1, 3 days of which 1 is kept, 2 retries | 810 227 | `EachFileOnce`, `RecentKept`, `RecordingFolderSurvives`, and under fairness `OlderPicturesUploaded` |
| `live_server` | 2 front ends, 2 attempts, queue of 2, 1 tick of inactivity, 1 failure | 234 087 | `RequestsAlternate`, `StopsIfIdle`, and under fairness `InactiveStops`, `StopReturns` |
| `picam` | 3 buffers, as in the code, 2 failing calls | 17 913 | `OneOwner`, `FrameIsRecent`, `CleansUp`, and under fairness `FramesKeepComing` |

Why the bounds are enough.  A ring of four slots holds three values, so that it fills,
wraps, and has values on both sides of the wrap; two values are enough to see an exchange
of order, and the proofs cover every size.  Unsigned numbers up to 5 wrap within a run
of stillness that is longer than every threshold; the proofs cover every width.  Three
registrations let one client come twice while the other stays.  Two cameras are the old
one that is joined and the new one; two stop works are the one that is being waited
for and the one that replaces it.  A third of either is refused by the guards of
`NeedCreate` and `StopSpawn`; a behaviour that needs one stops there.

Two controllers let one be called, sending or destroyed while the other is rechecked; the
proofs cover any number, with any delays.  With one recheck of a controller in the queue no
state of the detector changes before it has run (`MaxPending`): rechecks of two controllers and
the maintenance meet in the queue; of one controller a recheck meets only the one being made
beside it, and two in the queue are left to the proofs (with two the run takes too long).  Delays of up to
two ticks make tasks that are earlier, later and at the same time as the one waited for.
Four pictures fill a record buffer of two and still overflow an upload queue of one, so that files
are put aside; with three days and one kept there is a directory too many while another can still be
made between the count and the removal.  An `int` up to 3 does not wrap with these: what `MaxDays = 0` and one
that wraps do is said in section 5.  Two front ends with two attempts make
stale requests overtake live ones; `MaxInbox` bounds what waits at the server, which the
code leaves to ZeroMQ.  Frames are at most two newer in `FrameIsRecent`, so that ages above 4
need not be told apart; two failures hit a start twice, or a start and the return of a buffer.

Fairness.  Every thread that can run eventually runs (weak fairness of its steps).  Two
steps wait for a mutex that others take again and again, but only briefly
(`LockObservers`, and the starter for `m_`): they are strongly fair, as the operating
system's mutexes are in practice.  No client is obliged to call anything, except to
finish the call it is in, and no wait returns by itself.  A camera delivers pictures while
monitoring is on, and frames while it is started and has buffers.  Time passes (`Tick`,
`TimePasses`).  The external programs that send and upload are assumed to end: nothing in the code makes them
(the FIXME in the controllers' destructors), and a destructor waits for them for ever if they do not.
A front end answers or times out.  No picture is obliged to be encodable (`MaxFailures`
bounds how many are not: a view whose pictures can never be encoded uses them up and never stops for inactivity).
`lifecycle` and `live_view_crash` check safety only and assume no fairness.

Deadlock is checked in `spsc_queue`, `motion`, `camera` and `live_server`.  In `lifecycle` the code
can really stop (section 5); `monitoring_only` ends with the program, `notification` with the
scheduler's destruction or a crash, `recording` at an undefined behaviour or when the instance's pictures and days
are used up, and `picam` at an undefined behaviour.

## 4. The proofs

`SpScQueueProofs`, for every ring size of at least two and every set of values:
type correctness, `SlotDiscipline`, `NoLostWakeup`, and that the queue implements the FIFO
(`FifoImplemented`: the initial state maps to the initial state, every step to a step or a
stutter).  None of these is inductive alone.  The invariant adds `RingInv`, which says
that exactly the records between the indices are alive, but for the one being written and
the one being taken; `DestroyInv`, which ties `done_` to the destructor; and
`WakeInv`: outside the worker's first drain, `working_` is set exactly when one signal is
pending in the semaphore or about to be given.  Once the destructor has begun it also
signals, and `WakeInv` says nothing more.

`MotionDetectorProofs`, for all pictures, every width of unsigned (at least 2) and all
thresholds the constructor accepts: type correctness, `VerdictFromThreePictures`,
`PreAlarmIsYoung`, `AlarmNeedsMotion`, `AlarmOutlastsMotion`.  The invariant
(`CountersInv`, `PicturesInv`) says that a counter about to be compared equals the length of
the current run: the garbage of the initialisation and the wrapping fall into states where
the counter is not read before it is reset.

`CameraControllerProofs`, for any number of clients and registrations and any set of
periods: type correctness, `WalkIsUndisturbed`, `TrueClearIsFinal`, `RateSuitsObservers`.
The invariant is the conjunction of `LockInv` (`regM_` is held exactly by who is between its
lock and its unlock), `IdInv` (an id is below `nextFreeId`, and a queued registration is not in
the list yet), `OwnerInv` (an id that is in use has one client that will unregister it, and no
unregistration of it is queued before), `PeriodInv` (who registered is among the
desired periods) and `TrueClearIsFinal` itself.  `OwnerInv` is what makes a clear that returned
true final: without it the queue might hold the registration that brings the id back.

`AntifurtoProofs`, for any number of camera controllers and stop works: type correctness,
with `m_` held exactly where the code locks it, `StoppedMeansStopped`,
`CancelledStartIsCancelled` and `NoMonitorLeftBehind`.  `CallInv` says that Main is in a call
exactly when it has somewhere to return to, and what the threads hold in hand;
`MonitorInv` says what the flag `monitorActive_`, the monitor's registration, the starter
and `stopMonitorRequest_` say of each other at each place where Main may be: while monitoring is
off and Main is not in `get()` there is no starter, a starter on its way finds no registration,
and once monitoring is off the request is up until the starter has seen it.

The second half of `AntifurtoProofs` is about `Signals`, for any numbers of the signals, any
sources of the configuration and any number of cameras: the program that signals drive refines `Antifurto` (`SignalsAreCommands`), so that
what is proved of it with any user holds of the whole program
(`SignalledStopIsComplete`); `NoSignalLost`, with the fact that nothing is owed before the loop is
entered; and `OneCamera`, from an invariant saying that without the live view's commands no
stopper runs, nobody but the monitor observes, and a camera's thread is that of `camera_`
or, while the main thread joins it, the one it is destroying, `camera_` being null.

`NotificationProofs` first takes the scheduler, for any tasks, delays and clients: type correctness,
`NoOversleep`, `TopIsThere`, and that every step is one of the abstract `Scheduler` or a stutter
(`SchedulerRefined`).  With the types the two properties are all but inductive; what has to be added is that a
task is current exactly while one runs, which the mapping needs as well.  Then, for any controllers,
contacts and delays, the clients: they use the scheduler
only as it allows (`NotificationsUseScheduler`, from which the scheduler's theorems hold for them),
`CameraNeverWaits` and `RechecksRunOut`.  `CallsInv` says that the camera thread is in a controller only while the
`MonitorController` is alive, that a controller is destroyed only when it is being stopped, that
the result the camera thread is about to get belongs to the controller it is in and is not being worked on,
where a thread is that is about to schedule a recheck, and that a destroyed controller has an empty future.
From the last a look at a destroyed controller leads to no recheck.  That what is scheduled is then only used
up is counted: `InsertedCount` and `TakenCount` say how an insertion and a removal change the
number of a task's places in the queue, `LookersFinite` that the threads about to schedule can be counted.

`LiveServerProofs`, for any number of front ends and attempts, any queue and time-out: `StopsIfIdle`,
from the invariant that a full queue was last written to no longer ago than the worker last took a
picture (`FullInv`), and `RequestsAlternate`.  The latter needs to know where a request may be, given the
position of its front end: nowhere unless that waits for an answer, and then in at most one of the
wire, the server's inbox, the worker's hand and the way back, while what is stale is nobody's.

`RecordingProofs`, for any capacities of the two queues, any length of the record buffer, any numbers of
pictures, days and retries: type correctness, `EachFileOnce`, `RecentKept` and
`RecordingFolderSurvives`.  None is inductive alone.  All of them hold until the behaviour is undefined, and so
does what the invariant adds.  `RecordingFolderSurvives` says what it does for a `MaxDays` of at least one
that an `int` holds; the rest is proved for every `MaxDays`.

* `PlacesInv` says where each thread can be and what it then has in hand: the recording worker the picture
  that was last taken from its queue, and no other.
* `LockInv` says that who is between the lock and the unlock of the files put aside holds
  the mutex (`HolderInv`), that who is about to move such a file finds one (`OlderThere`),
  and that at most one thread is in the write of the upload queue and finds room there (`OneProducer`).
  The last one is what a race on the queue would break, and why a file in a writer's
  hand is not lost.
* `NumbersInv` says that pictures pass the record queue in the order of their numbers and that
  nothing above the last one taken has been saved.  So the picture that the worker is about to
  save is in no other place yet.
* `BufferInv` says that the record buffer increases and that its entry at distance k from the end is at
  least k behind the last picture handled: what the full buffer pushes out is too
  old for `RecentKept` (`Kept` is that property written for the proof).  While `startSaving`
  walks the buffer, what is in hand is what remains to save (`WalksAlong`), and at other times nothing
  in the buffer is saved (`Unsaved`): an alarm saves no picture twice.
* `FoldersInv` says that no directory is newer than the current folder, which with such a `MaxDays` is among
  them, and that the maintenance finds at least the directories it has counted, so that the oldest ones it removes, all
  but `MaxDays` of those counted, never include the newest.

The place of a file is a sum of what two sequences, the threads' hands and the uploader hold of it.  The
lemmas `CountAppend`, `CountTail` and `CountIf` say how the two ends of a queue change that sum; the
proof of `EachFileOnce` has one step per action on top of them.

`PiCamProofs`, for any number of failing calls and any bound on the ages: type correctness, `OneOwner`,
`FrameIsRecent` and `CleansUp`.  The invariant holds until there is undefined behaviour: `ObjectsInv`
says which MMAL objects exist at each place of the start and the stop, `ThreadsInv` that the callback
runs only between a start that succeeded and the end of the flush, that a reader has a buffer locked exactly
while it reads, and `QueueInv` that the queue has at most two frames, of which the i-th
last is at most i - 1 frames old, one more while the callback brings in a new one.  From `QueueInv` a reader's
frame is recent, however its thread and the callback interleave.  `OneOwner` counts places with
the same lemmas, which `PiCamProofs` states for itself; it needs `ThreadsInv`, since a
hand that is not empty is one of the places.

The assumptions are the `ASSUME`s of the modules: the ring has a slot to spare and
an empty slot is no value; thresholds are unsigned and in the order the constructor demands;
periods are positive and shorter than the longest; threads, tasks, messages and signals are told apart;
delays are within the longest; a controller has contacts; the live view is not asked for by the
sources of `Signals`; the days to keep are an `unsigned`, of which an `int` holds half; the recording has at
least one day, on which the program starts, and no more than an `int` counts; the camera's pool has three
buffers, as in the code.  TLC evaluates them in the runs.

Every safety invariant and every action property that the runs check is a theorem.  Only model-checked are the
liveness properties (`AcceptedIsWorked`, both `JoinReturns`, `StillnessEndsAlarm`,
`StartTakesEffect`, `SignalsObeyed`, `ResultIsFetched`, both `StopReturns`, `OlderPicturesUploaded`,
`InactiveStops`, `FramesKeepComing`) and the fairness of `ImplementsScheduler`, whose steps are proved: what
rests on fairness is out of the prover's reach.

## 5. Findings

* **A lost wake-up** (`camera_lost_wakeup`).  `CameraController::addObserver` notifies the
  condition variable without its mutex; between the camera thread's test of
  `hasObservers()` and its wait, the notification goes unheard and no picture is taken
  until someone else registers.
* **The crash of the TODO file** (`live_view_crash`): "if start is called between
  'stopping live view' and 'live view stopped', a crash occur".  The stop work clears
  `liveViewActive_` and destroys the camera without `m_`, behind the back of the
  `startLiveView` that goes on to use it.
* **A test that expects something else** (`motion_test`).
  `test/antifurto_unit.cpp:158` expects "no alarm after 4 equal frames"; the code goes to
  `NO_MOTION` and ends the alarm only after `numNoMotionToStopAlarm_`.

Seen in the models and not made a run, since nothing in the repository says otherwise.  With the
live view commands a command may never return (a second stop waits for a stop work that
joins the camera thread that waits in the second stop), `OneCamera` fails (a camera is
created while the old one is still being joined), and a picture can reach a live view that
was deleted.  Stopping the monitoring destroys `camera_` while its thread may still be in
`setMonitorPeriod`, which uses it.  A scheduled recheck can run on a destroyed notification controller; it can even be
scheduled after the destruction, by a look that began before it (`MailNotificationController.cpp:91`).  With
`recording.max-days=0` the maintenance removes every directory, the one in use included; with 2^31 or more
`toDelete` can wrap, and the loop runs past the directories listed (`MCRecording` with `MaxDays` 0 and 7
shows both).  The
record buffer, the current folder and the upload queue are used by two threads at once.  A
camera start that fails late, or whose first frame comes late, uses what is not there; and a failure of
the video port is reported as one of the preview port.  Seen in the source only:
`DropboxUploader.cpp:36` tests `!stdout.find("DONE")`, which is true when the text
*begins* with DONE; `reset` keeps an alarm, so a restart during one notifies nobody.

## 6. Not modelled

* The live view's signals in `Signals`, and `~AntifurtoImpl` while the live view is on: the
  stop work it would meet is in `Antifurto`, whose violations of `CameraIsThere` leave little to say
  after them.
* Exceptions from opening the camera, the socket or the log, and from the file system; they end
  the program or are caught where nothing depends on them.
* The destructor of `RecordingController`, and the maintenance-only `RecordingController` that
  the constructor of Antifurto makes: it removes old directories once, before there is
  any other thread.
* An observer that stays behind when an unregistration overtakes its queued registration
  (`Observer.hpp:123`): `Subject` has the behaviour, and no document promises otherwise.
* The boost variant of the ring, `CvCamera`, the second output and the level of detail of `picam`,
  and `cameracontrol.cpp`, which sets parameters one after the other.
* Starting external programs, parsing their output, wording, log, paths, the web pages, and vendored
  code.

Worth proving next: that only the races recorded can happen to `Recording`, which means saying which pairs
of threads are where at each access, and for `Antifurto` with the live view's commands what remains true of
`camera_` until the crash of the TODO file.
