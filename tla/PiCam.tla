------------------------------- MODULE PiCam -------------------------------
(***************************************************************************)
(* PiCamera.cpp on lib/picam/camera.cpp: the camera is started by a series *)
(* of calls any of which may fail, hands frames over to a reader through a *)
(* queue of buffers that must find their way back to the camera's port,    *)
(* and is stopped.                                                         *)
(*                                                                         *)
(* MMAL is modelled from its use: it fills a buffer that was sent to the   *)
(* port and gives it to the callback on a thread of its own, one at a      *)
(* time; disabling the port gives back what it holds in the same way; its  *)
(* queues may be used by several threads.  There is one output, with or    *)
(* without a resizer; the level of detail is not modelled, nor are the     *)
(* formats and parameters, whose settings cannot fail visibly.             *)
(*                                                                         *)
(* Where the code uses a null pointer, a destroyed component or an         *)
(* uninitialised one the model records what it was and goes no further.    *)
(***************************************************************************)
EXTENDS Naturals, Sequences, FiniteSets, SequencesExt

CONSTANTS Buffer,       \* the buffers of the pool
          NoBuffer,
          Oldest,       \* bound: an age that stands for all higher ones
          MaxFailures   \* bound: calls of MMAL that fail

ASSUME PiCamAssumption ==
  /\ IsFiniteSet(Buffer) /\ Cardinality(Buffer) = 3
  /\ NoBuffer \notin Buffer
  /\ {Oldest, MaxFailures} \subseteq Nat

VARIABLES
  step,        \* where the owner is in starting or stopping the camera
  resizes,     \* the output converts or resizes
  alive,       \* the MMAL objects that exist
  port,        \* BufferPort: "null", "live" or "freed", with its component
  enabled,     \* the port is enabled
  lastError,   \* g_last_error
  failures,
  atPort, pool, queue,  \* the buffers at the port, in BufferPool, OutputQueue
  locked,      \* LockedBuffer
  hand,        \* the buffer the callback was given
  lost,        \* buffers that were taken from the pool and could not be sent
  age,         \* how many frames came after the one in a buffer
  callback,    \* where MMAL's thread is in OnVideoBufferCallback
  reader,      \* where the camera thread is in PiCamera::takePicture
  undefined    \* what undefined behaviour there was, if any

objectVars == <<resizes, alive, port, enabled>>
errorVars == <<lastError, failures>>
poolVars == <<atPort, pool, lost>>
frameVars == <<queue, locked, hand, age>>
vars == <<step, objectVars, errorVars, poolVars, frameVars, callback, reader, undefined>>

Objects == {"camera", "splitter", "connection", "resizer", "resizerConnection", "pool", "queue"}

CameraErrors ==
  {"CAM_COMP_FAILED", "NO_OUTPUT_PORTS", "CANNOT_ENABLE_PORT", "CANNOT_SET_PREVIEW_PORT",
   "CANNOT_SET_STILL_PORT", "CANNOT_ENABLE_CAMERA"}

SplitterErrors ==
  {"FAILED_SPLITTER_CREATE", "WRONG_SPLITTER_PORTS", "CANNOT_SET_RESIZER_PORT_FORMAT"}

ConnectionErrors == {"FAILED_CREATE_CONNECTION", "FAILED_ENABLE_CONNECTION"}

Errors ==
  CameraErrors \cup SplitterErrors \cup ConnectionErrors \cup
  {"NO_ERROR", "FAILED_INITIALIZE_OUTPUT", "FAILED_START_CAPTURE",
   "FAILED_RETURN_BUFFER_TO_PORT"}

Started == step = "started"

OwnerTypes ==
  /\ step \in {"none", "camera", "splitter", "connect", "resizer", "port", "queue",
               "capture", "started", "flush", "release"}
  /\ resizes \in BOOLEAN /\ enabled \in BOOLEAN
  /\ alive \subseteq Objects
  /\ port \in {"null", "live", "freed"}
  /\ lastError \in Errors /\ failures \in 0 .. MaxFailures
  /\ undefined \in {"none", "null port", "freed component", "null resizer", "no frame"}

FrameTypes ==
  /\ atPort \subseteq Buffer /\ pool \subseteq Buffer /\ lost \subseteq Buffer
  /\ queue \in Seq(Buffer)
  /\ locked \in Buffer \cup {NoBuffer} /\ hand \in Buffer \cup {NoBuffer}
  /\ age \in [Buffer -> 0 .. Oldest]
  /\ callback \in {"idle", "length", "drop", "return", "put"}
  /\ reader \in {"idle", "reading", "return"}

TypeOK == OwnerTypes /\ FrameTypes

Init ==
  /\ step = "none" /\ resizes = FALSE /\ alive = {} /\ port = "null" /\ enabled = FALSE
  /\ lastError = "NO_ERROR" /\ failures = 0
  /\ atPort = {} /\ pool = {} /\ lost = {} /\ queue = <<>>
  /\ locked = NoBuffer /\ hand = NoBuffer /\ age = [b \in Buffer |-> 0]
  /\ callback = "idle" /\ reader = "idle" /\ undefined = "none"

Running == UNCHANGED <<poolVars, frameVars, callback, reader>>
-----------------------------------------------------------------------------
\* The constructor of PiCamera calls picam_start_camera.
Start ==
  /\ step = "none"
  /\ step' = "camera"
  /\ resizes' \in BOOLEAN
  /\ UNCHANGED <<alive, port, enabled, errorVars, undefined>> /\ Running

\* A call succeeds and has created the objects new.
Succeeds(at, new, next) ==
  /\ step = at
  /\ alive' = alive \cup new
  /\ step' = next
  /\ lastError' = "NO_ERROR"
  /\ UNCHANGED <<resizes, failures, undefined>>

\* The error path of CCamera::Init: connection, camera and splitter are
\* destroyed, and then the output, if there is one, is released: its port is
\* disabled first.  The caller deletes the camera and has no other.
InitFails(error, output) ==
  /\ failures < MaxFailures
  /\ failures' = failures + 1
  /\ step' = "none"
  /\ lastError' = error
  /\ alive' = alive \ {"connection", "camera", "splitter"}
  /\ undefined' = IF ~output THEN "none"
                  ELSE IF port = "null" THEN "null port" ELSE "freed component"
  /\ UNCHANGED <<resizes, port, enabled>> /\ Running

\* Bug: the camera component is not destroyed.
CreateSplitter_Bug ==
  \/ /\ Succeeds("splitter", {"splitter"}, "connect")
     /\ UNCHANGED <<port, enabled>> /\ Running
  \/ /\ step = "splitter" /\ failures < MaxFailures
     /\ failures' = failures + 1
     /\ step' = "none"
     /\ lastError' = "FAILED_SPLITTER_CREATE"
     /\ UNCHANGED <<objectVars, undefined>> /\ Running

\* CreateCameraComponentAndSetupPorts destroys the component it fails to set up.
CreateCamera ==
  \/ /\ Succeeds("camera", {"camera"}, "splitter")
     /\ UNCHANGED <<port, enabled>> /\ Running
  \/ /\ step = "camera"
     /\ \E e \in CameraErrors : InitFails(e, FALSE)

CreateSplitter ==
  \/ /\ Succeeds("splitter", {"splitter"}, "connect")
     /\ UNCHANGED <<port, enabled>> /\ Running
  \/ /\ step = "splitter"
     /\ \E e \in SplitterErrors : InitFails(e, FALSE)

\* The output is created, empty, when the connection is enabled.
Connect ==
  \/ /\ Succeeds("connect", {"connection"}, IF resizes THEN "resizer" ELSE "port")
     /\ port' = IF resizes THEN "null" ELSE "live"
     /\ UNCHANGED enabled /\ Running
  \/ /\ step = "connect"
     /\ \E e \in ConnectionErrors : InitFails(e, FALSE)

\* CCameraOutput::Init: the resizer and its connection, then the port.
CreateResizer ==
  \/ /\ Succeeds("resizer", {"resizer", "resizerConnection"}, "port")
     /\ port' = "live"
     /\ UNCHANGED enabled /\ Running
  \/ /\ step = "resizer" /\ InitFails("FAILED_INITIALIZE_OUTPUT", TRUE)

\* EnablePortCallbackAndCreateBufferPool: every buffer is sent to the port.
EnablePort ==
  \/ /\ Succeeds("port", {"pool"}, "queue")
     /\ atPort' = Buffer /\ enabled' = TRUE
     /\ UNCHANGED <<port, pool, lost, frameVars, callback, reader>>
  \/ /\ step = "port" /\ InitFails("FAILED_INITIALIZE_OUTPUT", TRUE)

\* The error path for the queue destroys the pool at the resizer's port.
CreateQueue ==
  \/ /\ Succeeds("queue", {"queue"}, "capture")
     /\ UNCHANGED <<port, enabled>> /\ Running
  \/ /\ step = "queue" /\ failures < MaxFailures
     /\ failures' = failures + 1
     /\ undefined' = IF resizes THEN "freed component" ELSE "null resizer"
     /\ UNCHANGED <<step, objectVars, lastError>> /\ Running

StartCapture ==
  \/ /\ Succeeds("capture", {}, "started")
     /\ UNCHANGED <<port, enabled>> /\ Running
  \/ /\ step = "capture" /\ InitFails("FAILED_START_CAPTURE", TRUE)

Starting == \/ CreateCamera \/ CreateSplitter \/ Connect \/ CreateResizer
            \/ EnablePort \/ CreateQueue \/ StartCapture
-----------------------------------------------------------------------------
\* The threads use the port, the pool and the queue only.
Flowing == UNCHANGED <<step, objectVars, undefined>>

Older(n) == IF n < Oldest THEN n + 1 ELSE n

\* MMAL fills a buffer at the port, or gives it back from the disabled one.
Frame ==
  /\ Started \/ step = "flush"
  /\ callback = "idle"
  /\ \E b \in atPort :
       /\ hand' = b
       /\ atPort' = atPort \ {b}
       /\ age' = [c \in Buffer |-> IF c = b THEN 0 ELSE Older(age[c])]
  /\ callback' = "length"
  /\ UNCHANGED <<errorVars, pool, lost, queue, locked, reader>> /\ Flowing

\* Bug: old frames are dropped when all three buffers wait.
TestLength_Bug ==
  /\ callback = "length"
  /\ callback' = IF Len(queue) >= 3 THEN "drop" ELSE "put"
  /\ UNCHANGED <<errorVars, poolVars, frameVars, reader>> /\ Flowing

\* OnVideoBufferCallback.
TestLength ==
  /\ callback = "length"
  /\ callback' = IF Len(queue) >= 2 THEN "drop" ELSE "put"
  /\ UNCHANGED <<errorVars, poolVars, frameVars, reader>> /\ Flowing

\* Bug: the last frame is dropped instead of the oldest.
DropFrame_Bug ==
  /\ callback = "drop"
  /\ IF queue = <<>>
       THEN callback' = "put" /\ UNCHANGED <<queue, pool>>
       ELSE /\ pool' = pool \cup {Last(queue)}
            /\ queue' = Front(queue)
            /\ callback' = IF enabled THEN "return" ELSE "put"
  /\ UNCHANGED <<errorVars, atPort, lost, locked, hand, age, reader>> /\ Flowing

\* The oldest frame, unless the reader has taken the frames since.
DropFrame ==
  /\ callback = "drop"
  /\ IF queue = <<>>
       THEN callback' = "put" /\ UNCHANGED <<queue, pool>>
       ELSE /\ pool' = pool \cup {Head(queue)}
            /\ queue' = Tail(queue)
            /\ callback' = IF enabled THEN "return" ELSE "put"
  /\ UNCHANGED <<errorVars, atPort, lost, locked, hand, age, reader>> /\ Flowing

\* A buffer of the pool is sent to the port; one that cannot be, as when the
\* port is being disabled, is in neither, and nobody refers to it any more.
SendBuffer ==
  IF pool = {}
    THEN UNCHANGED <<failures, poolVars>>
    ELSE \E b \in pool :
           /\ pool' = pool \ {b}
           /\ \/ /\ enabled
                 /\ atPort' = atPort \cup {b}
                 /\ UNCHANGED <<failures, lost>>
              \/ /\ ~enabled \/ failures < MaxFailures
                 /\ failures' = IF enabled THEN failures + 1 ELSE failures
                 /\ lost' = lost \cup {b}
                 /\ UNCHANGED atPort

ReturnBuffer ==
  /\ callback = "return"
  /\ SendBuffer
  /\ callback' = "put"
  /\ UNCHANGED <<lastError, frameVars, reader>> /\ Flowing

PutFrame ==
  /\ callback = "put"
  /\ queue' = Append(queue, hand)
  /\ hand' = NoBuffer
  /\ callback' = "idle"
  /\ UNCHANGED <<errorVars, poolVars, locked, age, reader>> /\ Flowing

Callback == TestLength \/ DropFrame \/ ReturnBuffer \/ PutFrame
-----------------------------------------------------------------------------
\* takePicture ignores that there is no frame, and copies from nowhere.
BeginReadFrame ==
  /\ Started /\ reader = "idle"
  /\ IF queue = <<>>
       THEN undefined' = "no frame" /\ UNCHANGED <<queue, locked, reader, lastError>>
       ELSE /\ locked' = Head(queue)
            /\ queue' = Tail(queue)
            /\ reader' = "reading"
            /\ lastError' = "NO_ERROR"
            /\ UNCHANGED undefined
  /\ UNCHANGED <<step, objectVars, failures, poolVars, hand, age, callback>>

\* Bug: LockedBuffer is not reset.
EndReadFrame_Bug ==
  /\ reader = "reading"
  /\ pool' = pool \cup {locked}
  /\ reader' = "return"
  /\ UNCHANGED <<errorVars, atPort, lost, frameVars, callback>> /\ Flowing

\* EndReadFrame: the buffer goes back to the pool and one to the port, which
\* is enabled as long as somebody may read.
EndReadFrame ==
  /\ reader = "reading"
  /\ pool' = pool \cup {locked}
  /\ locked' = NoBuffer
  /\ reader' = "return"
  /\ UNCHANGED <<errorVars, atPort, lost, queue, hand, age, callback>> /\ Flowing

ResendBuffer ==
  /\ reader = "return"
  /\ SendBuffer
  /\ lastError' = IF atPort' = atPort THEN "FAILED_RETURN_BUFFER_TO_PORT" ELSE "NO_ERROR"
  /\ reader' = "idle"
  /\ UNCHANGED <<frameVars, callback>> /\ Flowing

Reading == EndReadFrame \/ ResendBuffer
-----------------------------------------------------------------------------
\* picam_stop_camera, by the destructor of PiCamera: the output first.
DisablePort ==
  /\ Started /\ reader = "idle"
  /\ enabled' = FALSE
  /\ step' = "flush"
  /\ UNCHANGED <<resizes, alive, port, errorVars, undefined>> /\ Running

\* mmal_port_disable returns when the port has given everything back.
ReleaseOutput ==
  /\ step = "flush" /\ atPort = {} /\ callback = "idle"
  /\ alive' = alive \ {"queue", "pool", "resizerConnection", "resizer"}
  /\ port' = "null"
  /\ queue' = <<>> /\ pool' = {} /\ lost' = {}
  /\ step' = "release"
  /\ UNCHANGED <<resizes, enabled, errorVars, atPort, locked, hand, age, callback, reader,
                 undefined>>

ReleaseCamera ==
  /\ step = "release"
  /\ alive' = alive \ {"connection", "camera", "splitter"}
  /\ step' = "none"
  /\ UNCHANGED <<resizes, port, enabled, errorVars, undefined>> /\ Running

Next ==
  /\ undefined = "none"
  /\ \/ Start \/ Starting
     \/ Frame \/ Callback
     \/ BeginReadFrame \/ Reading
     \/ DisablePort \/ ReleaseOutput \/ ReleaseCamera

Spec == Init /\ [][Next]_vars

\* A camera that runs delivers frames to the buffers at its port; the threads
\* run.  Nothing makes anybody start, stop or read.
FairSpec ==
  /\ Spec
  /\ WF_vars(undefined = "none" /\ Frame)
  /\ WF_vars(undefined = "none" /\ Callback)
  /\ WF_vars(undefined = "none" /\ Reading)
-----------------------------------------------------------------------------
Places(b) ==
  Cardinality({i \in DOMAIN queue : queue[i] = b})
  + Cardinality({s \in {1, 2, 3} : b \in <<atPort, pool, lost>>[s]})
  + Cardinality({s \in {1, 2} : b = <<locked, hand>>[s]})

\* While there is a pool each buffer of it is in one place, so that nobody
\* writes a frame that somebody reads, and without one no buffer is anywhere
\* (OnVideoBufferCallback and EndReadFrame, which run concurrently).
OneOwner ==
  undefined = "none" =>
    \A b \in Buffer : Places(b) = IF "pool" \in alive THEN 1 ELSE 0

\* The frame a reader gets has at most two newer ones, however long it has
\* not read (OnVideoBufferCallback: "to handle the user not reading frames").
FrameIsRecent ==
  [][BeginReadFrame /\ queue # <<>> => age[Head(queue)] <= 2]_vars

\* Frames keep coming although nobody reads them, as long as no buffer could
\* not be returned to the port.
FramesKeepComing ==
  []<>(callback = "put" \/ ~Started \/ lost # {} \/ undefined # "none")

\* A start that fails before the output exists, and every stop, leaves no
\* component behind, and a failed start leaves its reason
\* (picam_start_camera, CCamera::Init and Release).
CleansUp ==
  [][undefined' = "none" /\ step' = "none" =>
       /\ alive' = {} /\ atPort' = {} /\ callback' = "idle"
       /\ step # "release" => lastError' # "NO_ERROR"]_vars
=============================================================================
