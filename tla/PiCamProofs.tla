----------------------------- MODULE PiCamProofs -----------------------------
(***************************************************************************)
(* Theorems about PiCamera.cpp and lib/picam/camera.cpp, whatever call of  *)
(* MMAL fails: no buffer has two owners, a reader's frame is recent, and   *)
(* nothing is left behind by a start that fails early or by a stop.        *)
(***************************************************************************)
EXTENDS PiCam, FunctionTheorems, FiniteSetTheorems, TLAPS

(* What the owner's place in starting and stopping the camera says of the  *)
(* objects that exist and of the threads that use them.                    *)
ObjectsInv ==
  /\ step \in {"none", "camera"} => alive = {}
  /\ step = "splitter" => alive = {"camera"}
  /\ step \in {"connect", "release"} => alive \subseteq {"camera", "splitter", "connection"}
  /\ "pool" \in alive <=> step \in {"queue", "capture", "started", "flush"}

ThreadsInv ==
  /\ callback # "idle" => step \in {"started", "flush"}
  /\ reader # "idle" => step = "started"
  /\ hand = NoBuffer <=> callback = "idle"
  /\ locked = NoBuffer <=> reader # "reading"

(* The frames that wait are the last ones, but for those that a reader has *)
(* taken or that were dropped, and while one comes in it is the newest.    *)
QueueInv ==
  /\ Len(queue) <= 2
  /\ callback \in {"return", "put"} => Len(queue) <= 1
  /\ \A i \in 1 .. Len(queue) :
       age[queue[i]] <= Len(queue) - i + (IF callback = "idle" THEN 0 ELSE 1)
  /\ hand # NoBuffer => age[hand] = 0

IInv ==
  /\ TypeOK
  /\ undefined = "none" => ObjectsInv /\ ThreadsInv /\ QueueInv /\ OneOwner
-----------------------------------------------------------------------------
(* Counting: how often b is in a sequence, and where it is.                *)
In(b, S) == IF b \in S THEN 1 ELSE 0
Count(b, s) == Cardinality({i \in DOMAIN s : s[i] = b})

LEMMA CountIf ==
  ASSUME NEW S, IsFiniteSet(S), NEW x, x \notin S, NEW b, NEW A,
         NEW T, T = IF b \in A THEN S \cup {x} ELSE S
  PROVE  IsFiniteSet(T) /\ Cardinality(T) = Cardinality(S) + In(b, A)
<1>1. Cardinality(S) \in Nat
  BY FS_CardinalityType
<1>2. CASE b \in A
  BY <1>1, <1>2, FS_AddElement DEF In
<1>3. CASE b \notin A
  BY <1>1, <1>3 DEF In
<1>. QED
  BY <1>2, <1>3

LEMMA CountType ==
  ASSUME NEW S, NEW s \in Seq(S), NEW b
  PROVE  /\ IsFiniteSet({i \in DOMAIN s : s[i] = b})
         /\ Count(b, s) \in Nat
<1>1. IsFiniteSet(1 .. Len(s))
  BY FS_Interval
<1>2. {i \in DOMAIN s : s[i] = b} \in SUBSET (1 .. Len(s))
  OBVIOUS
<1>. QED
  BY <1>1, <1>2, FS_Subset, FS_CardinalityType DEF Count

LEMMA CountAppend ==
  ASSUME NEW S, NEW s \in Seq(S), NEW e \in S, NEW b
  PROVE  Count(b, Append(s, e)) = Count(b, s) + In(b, {e})
<1>. DEFINE at == {i \in DOMAIN s : s[i] = b}
            new == {i \in DOMAIN Append(s, e) : Append(s, e)[i] = b}
<1>1. IsFiniteSet(at) /\ Cardinality(at) \in Nat
  BY CountType DEF Count
<1>2. Len(s) + 1 \notin at
  OBVIOUS
<1>3. new = IF b \in {e} THEN at \cup {Len(s) + 1} ELSE at
  OBVIOUS
<1>4. Count(b, s) = Cardinality(at) /\ Count(b, Append(s, e)) = Cardinality(new)
  BY DEF Count
<1>. HIDE DEF at, new
<1>5. Cardinality(new) = Cardinality(at) + In(b, {e})
  BY <1>1, <1>2, <1>3, CountIf
<1>. QED
  BY <1>4, <1>5

LEMMA CountTail ==
  ASSUME NEW S, NEW s \in Seq(S), s # <<>>, NEW b
  PROVE  Count(b, s) = Count(b, Tail(s)) + In(b, {Head(s)})
<1>. DEFINE at == {i \in DOMAIN Tail(s) : Tail(s)[i] = b}
            later == {i \in 2 .. Len(s) : s[i] = b}
            all == {i \in DOMAIN s : s[i] = b}
<1>1. Tail(s) \in Seq(S) /\ Len(Tail(s)) = Len(s) - 1 /\ Len(s) \in Nat \ {0}
  OBVIOUS
<1>2. IsFiniteSet(at) /\ Cardinality(at) \in Nat
  BY <1>1, CountType DEF Count
<1>3. ExistsBijection(at, later)
  <2>. DEFINE f == [i \in at |-> i + 1]
  <2>1. f \in Bijection(at, later)
    <3>1. f \in [at -> later]
      BY <1>1
    <3>2. \A i, j \in at : f[i] = f[j] => i = j
      BY <1>1
    <3>3. \A j \in later : \E i \in at : f[i] = j
      <4>. SUFFICES ASSUME NEW j \in later PROVE j - 1 \in at /\ f[j - 1] = j
        OBVIOUS
      <4>. QED
        BY <1>1
    <3>. QED
      BY <3>1, <3>2, <3>3, Fun_IsBij
  <2>. QED
    BY <2>1 DEF ExistsBijection
<1>4. IsFiniteSet(later) /\ Cardinality(later) = Cardinality(at)
  BY <1>2, <1>3, FS_Bijection
<1>5. 1 \notin later /\ all = IF b \in {Head(s)} THEN later \cup {1} ELSE later
  BY <1>1
<1>6. Count(b, Tail(s)) = Cardinality(at) /\ Count(b, s) = Cardinality(all)
  BY DEF Count
<1>. HIDE DEF at, later, all
<1>7. Cardinality(all) = Cardinality(later) + In(b, {Head(s)})
  BY <1>4, <1>5, CountIf
<1>. QED
  BY <1>4, <1>6, <1>7

LEMMA CountEmpty == \A b : Count(b, <<>>) = 0
BY FS_EmptySet DEF Count

LEMMA CountSets ==
  ASSUME NEW b, NEW A, NEW P, NEW L
  PROVE  Cardinality({s \in {1, 2, 3} : b \in <<A, P, L>>[s]})
           = In(b, A) + In(b, P) + In(b, L)
<1>. DEFINE a == IF b \in A THEN {} \cup {1} ELSE {}
            ap == IF b \in P THEN a \cup {2} ELSE a
            apl == IF b \in L THEN ap \cup {3} ELSE ap
<1>1. {s \in {1, 2, 3} : b \in <<A, P, L>>[s]} = apl
  OBVIOUS
<1>2. 2 \notin a /\ 3 \notin ap
  OBVIOUS
<1>3. In(b, A) \in Nat /\ In(b, P) \in Nat /\ In(b, L) \in Nat
  BY DEF In
<1>4. IsFiniteSet(a) /\ Cardinality(a) = In(b, A)
  <2>1. IsFiniteSet(a) /\ Cardinality(a) = Cardinality({}) + In(b, A)
    BY CountIf, FS_EmptySet
  <2>. QED
    BY <1>3, <2>1, FS_EmptySet
<1>. HIDE DEF a
<1>5. IsFiniteSet(ap) /\ Cardinality(ap) = Cardinality(a) + In(b, P)
  BY <1>2, <1>4, CountIf
<1>. HIDE DEF ap
<1>6. Cardinality(apl) = Cardinality(ap) + In(b, L)
  BY <1>2, <1>5, CountIf
<1>. HIDE DEF apl
<1>. QED
  BY <1>1, <1>3, <1>4, <1>5, <1>6

LEMMA CountHands ==
  ASSUME NEW b, NEW l, NEW h
  PROVE  Cardinality({s \in {1, 2} : b = <<l, h>>[s]}) = In(b, {l}) + In(b, {h})
<1>. DEFINE a == IF b \in {l} THEN {} \cup {1} ELSE {}
            ah == IF b \in {h} THEN a \cup {2} ELSE a
<1>1. {s \in {1, 2} : b = <<l, h>>[s]} = ah
  OBVIOUS
<1>2. 2 \notin a
  OBVIOUS
<1>3. In(b, {l}) \in Nat /\ In(b, {h}) \in Nat
  BY DEF In
<1>4. IsFiniteSet(a) /\ Cardinality(a) = In(b, {l})
  <2>1. IsFiniteSet(a) /\ Cardinality(a) = Cardinality({}) + In(b, {l})
    BY CountIf, FS_EmptySet
  <2>. QED
    BY <1>3, <2>1, FS_EmptySet
<1>. HIDE DEF a
<1>5. Cardinality(ah) = Cardinality(a) + In(b, {h})
  BY <1>2, <1>4, CountIf
<1>. HIDE DEF ah
<1>. QED
  BY <1>1, <1>3, <1>4, <1>5

(* The places of a buffer, as a sum.                                       *)
LEMMA PlacesSum ==
  ASSUME NEW b, NEW q, NEW A, NEW P, NEW L, NEW l, NEW h
  PROVE  Cardinality({i \in DOMAIN q : q[i] = b})
         + Cardinality({s \in {1, 2, 3} : b \in <<A, P, L>>[s]})
         + Cardinality({s \in {1, 2} : b = <<l, h>>[s]})
         = Count(b, q) + (In(b, A) + In(b, P) + In(b, L)) + (In(b, {l}) + In(b, {h}))
<1>1. Cardinality({s \in {1, 2, 3} : b \in <<A, P, L>>[s]}) = In(b, A) + In(b, P) + In(b, L)
  BY CountSets
<1>2. Cardinality({s \in {1, 2} : b = <<l, h>>[s]}) = In(b, {l}) + In(b, {h})
  BY CountHands
<1>3. Count(b, q) = Cardinality({i \in DOMAIN q : q[i] = b})
  BY DEF Count
<1>. QED
  BY <1>1, <1>2, <1>3
-----------------------------------------------------------------------------
LEMMA ErrorNames ==
  /\ CameraErrors \cup SplitterErrors \cup ConnectionErrors \subseteq Errors
  /\ {"NO_ERROR", "FAILED_INITIALIZE_OUTPUT", "FAILED_START_CAPTURE",
      "FAILED_RETURN_BUFFER_TO_PORT"} \subseteq Errors
  /\ "NO_ERROR" \notin CameraErrors \cup SplitterErrors \cup ConnectionErrors
BY DEF Errors, CameraErrors, SplitterErrors, ConnectionErrors

(* The owner works where the threads do not, and the other way round.      *)
OwnerStep == Start \/ Starting \/ DisablePort \/ ReleaseCamera
ThreadStep == Frame \/ Callback \/ Reading

LEMMA OwnerLeavesFrames ==
  OwnerStep => /\ UNCHANGED <<frameVars, callback, reader>>
               /\ \/ /\ UNCHANGED poolVars
                     /\ undefined' = "none" => ("pool" \in alive' <=> "pool" \in alive)
                  \/ /\ step = "port" /\ step' = "queue"
                     /\ alive' = alive \cup {"pool"} /\ UNCHANGED undefined
                     /\ atPort' = Buffer /\ UNCHANGED <<pool, lost>>
BY DEF OwnerStep, Starting, Start, CreateCamera, CreateSplitter, Connect, CreateResizer, EnablePort,
       CreateQueue, StartCapture, DisablePort, ReleaseCamera, Succeeds, InitFails, Running,
       poolVars, objectVars

LEMMA ThreadLeavesObjects ==
  ThreadStep => UNCHANGED <<step, resizes, alive, port, enabled, undefined>>
BY DEF ThreadStep, Frame, Callback, Reading, TestLength, DropFrame, ReturnBuffer, PutFrame,
       EndReadFrame, ResendBuffer, Flowing, objectVars

LEMMA FailuresCounted ==
  Next => \/ UNCHANGED failures
          \/ failures < MaxFailures /\ failures' = failures + 1
<1>. SUFFICES ASSUME Next PROVE UNCHANGED failures \/ (failures < MaxFailures /\ failures' = failures + 1)
  OBVIOUS
<1>1. CASE OwnerStep
  BY <1>1 DEF OwnerStep, Start, DisablePort, ReleaseCamera, errorVars, Starting, CreateCamera, CreateSplitter, Connect,
        CreateResizer, EnablePort, CreateQueue, StartCapture, Succeeds, InitFails
<1>2. CASE ThreadStep \/ BeginReadFrame \/ ReleaseOutput
  BY <1>2 DEF ThreadStep, Frame, Callback, Reading, TestLength, DropFrame, ReturnBuffer,
        PutFrame, BeginReadFrame, EndReadFrame, ResendBuffer, SendBuffer, ReleaseOutput, errorVars
<1>. QED
  BY <1>1, <1>2 DEF Next, OwnerStep, ThreadStep

LEMMA OwnerTypesStep == OwnerTypes /\ undefined = "none" /\ Next => OwnerTypes'
<1>. SUFFICES ASSUME OwnerTypes, undefined = "none", Next PROVE OwnerTypes'
  OBVIOUS
<1>1. failures' \in 0 .. MaxFailures
  <2>1. failures \in 0 .. MaxFailures /\ MaxFailures \in Nat
    BY PiCamAssumption DEF OwnerTypes
  <2>. QED
    BY <2>1, FailuresCounted
<1>2. lastError' \in Errors
  <2>1. lastError \in Errors
    BY DEF OwnerTypes
  <2>2. CASE OwnerStep
    BY <2>1, <2>2, ErrorNames
       DEF OwnerStep, Start, DisablePort, ReleaseCamera, errorVars, Starting, CreateCamera,
           CreateSplitter, Connect, CreateResizer, EnablePort, CreateQueue, StartCapture,
           Succeeds, InitFails
  <2>3. CASE ThreadStep \/ BeginReadFrame \/ ReleaseOutput
    BY <2>1, <2>3, ErrorNames
       DEF ThreadStep, Frame, Callback, Reading, TestLength, DropFrame, ReturnBuffer, PutFrame,
           BeginReadFrame, EndReadFrame, ResendBuffer, ReleaseOutput, errorVars
  <2>. QED
    BY <2>2, <2>3 DEF Next, OwnerStep, ThreadStep
<1>. DEFINE Rest ==
       /\ step \in {"none", "camera", "splitter", "connect", "resizer", "port", "queue",
                    "capture", "started", "flush", "release"}
       /\ resizes \in BOOLEAN /\ enabled \in BOOLEAN
       /\ alive \subseteq Objects
       /\ port \in {"null", "live", "freed"}
       /\ undefined \in {"none", "null port", "freed component", "null resizer", "no frame"}
<1>3. Rest
  BY DEF OwnerTypes
<1>4. (Start \/ DisablePort) => Rest'
  BY <1>3 DEF Start, DisablePort
<1>5. (CreateCamera \/ CreateSplitter) => Rest'
  BY <1>3 DEF CreateCamera, CreateSplitter, Succeeds, InitFails, Objects
<1>6. (Connect \/ CreateResizer) => Rest'
  BY <1>3 DEF Connect, CreateResizer, Succeeds, InitFails, Objects
<1>7. (EnablePort \/ CreateQueue \/ StartCapture) => Rest'
  BY <1>3 DEF EnablePort, CreateQueue, StartCapture, Succeeds, InitFails, Objects, objectVars
<1>8. (ReleaseOutput \/ ReleaseCamera) => Rest'
  BY <1>3 DEF ReleaseOutput, ReleaseCamera
<1>9. (ThreadStep \/ BeginReadFrame) => Rest'
  BY <1>3, ThreadLeavesObjects DEF BeginReadFrame, objectVars
<1>10. Rest'
  BY <1>4, <1>5, <1>6, <1>7, <1>8, <1>9 DEF Next, Starting, ThreadStep
<1>. QED
  BY <1>1, <1>2, <1>10 DEF OwnerTypes

LEMMA OlderType == \A n \in 0 .. Oldest : Older(n) \in 0 .. Oldest /\ Older(n) <= n + 1
BY PiCamAssumption DEF Older

LEMMA FrameTypesStep == FrameTypes /\ ThreadsInv /\ Next => FrameTypes'
<1>. SUFFICES ASSUME FrameTypes, ThreadsInv, Next PROVE FrameTypes'
  OBVIOUS
<1>. USE DEF FrameTypes
<1>1. CASE OwnerStep
  BY <1>1, OwnerLeavesFrames DEF frameVars, poolVars
<1>2. CASE Frame
  <2>1. age' \in [Buffer -> 0 .. Oldest]
    BY <1>2, OlderType, PiCamAssumption DEF Frame
  <2>. QED
    BY <1>2, <2>1 DEF Frame
<1>3. CASE TestLength
  BY <1>3 DEF TestLength, poolVars, frameVars
<1>4. CASE DropFrame
  <2>1. CASE queue = <<>>
    BY <1>4, <2>1 DEF DropFrame
  <2>2. CASE queue # <<>>
    <3>1. Head(queue) \in Buffer /\ Tail(queue) \in Seq(Buffer)
      BY <2>2
    <3>. QED
      BY <1>4, <2>2, <3>1 DEF DropFrame
  <2>. QED
    BY <2>1, <2>2
<1>5. CASE ReturnBuffer \/ ResendBuffer
  <2>1. atPort' \subseteq Buffer /\ pool' \subseteq Buffer /\ lost' \subseteq Buffer
    BY <1>5 DEF ReturnBuffer, ResendBuffer, SendBuffer, poolVars
  <2>2. UNCHANGED frameVars /\ callback' \in {callback, "put"} /\ reader' \in {reader, "idle"}
    BY <1>5 DEF ReturnBuffer, ResendBuffer
  <2>. QED
    BY <2>1, <2>2 DEF frameVars
<1>6. CASE PutFrame
  <2>1. hand \in Buffer
    BY <1>6 DEF PutFrame, ThreadsInv
  <2>2. Append(queue, hand) \in Seq(Buffer)
    BY <2>1
  <2>. QED
    BY <1>6, <2>2 DEF PutFrame, poolVars
<1>7. CASE BeginReadFrame
  <2>1. CASE queue = <<>>
    BY <1>7, <2>1 DEF BeginReadFrame, poolVars
  <2>2. CASE queue # <<>>
    <3>1. Head(queue) \in Buffer /\ Tail(queue) \in Seq(Buffer)
      BY <2>2
    <3>. QED
      BY <1>7, <2>2, <3>1 DEF BeginReadFrame, poolVars
  <2>. QED
    BY <2>1, <2>2
<1>8. CASE EndReadFrame
  BY <1>8 DEF EndReadFrame, ThreadsInv
<1>9. CASE ReleaseOutput
  BY <1>9 DEF ReleaseOutput
<1>. QED
  BY <1>1, <1>2, <1>3, <1>4, <1>5, <1>6, <1>7, <1>8, <1>9 DEF Next, OwnerStep, Callback, Reading
-----------------------------------------------------------------------------
LEMMA ObjectsStep ==
  OwnerTypes /\ ObjectsInv /\ undefined = "none" /\ Next => (undefined' = "none" => ObjectsInv')
<1>. SUFFICES ASSUME OwnerTypes, ObjectsInv, undefined = "none", Next, undefined' = "none"
              PROVE  ObjectsInv'
  OBVIOUS
<1>. USE DEF ObjectsInv
<1>1. CASE Start \/ DisablePort
  BY <1>1 DEF Start, DisablePort, Started
<1>2. CASE CreateCamera \/ CreateSplitter
  BY <1>2 DEF CreateCamera, CreateSplitter, Succeeds, InitFails
<1>3. CASE Connect \/ CreateResizer
  BY <1>3 DEF Connect, CreateResizer, Succeeds, InitFails
<1>4. CASE EnablePort \/ CreateQueue \/ StartCapture
  BY <1>4 DEF EnablePort, CreateQueue, StartCapture, Succeeds, InitFails
<1>5. CASE ReleaseOutput \/ ReleaseCamera
  BY <1>5 DEF ReleaseOutput, ReleaseCamera, OwnerTypes, Objects
<1>6. CASE ThreadStep \/ BeginReadFrame
  BY <1>6, ThreadLeavesObjects DEF BeginReadFrame, objectVars
<1>. QED
  BY <1>1, <1>2, <1>3, <1>4, <1>5, <1>6 DEF Next, Starting, ThreadStep

LEMMA ThreadsStep ==
  FrameTypes /\ ThreadsInv /\ undefined = "none" /\ Next => (undefined' = "none" => ThreadsInv')
<1>. SUFFICES ASSUME FrameTypes, ThreadsInv, undefined = "none", Next, undefined' = "none"
              PROVE  ThreadsInv'
  OBVIOUS
<1>. USE PiCamAssumption DEF ThreadsInv
<1>1. CASE Start \/ DisablePort \/ ReleaseCamera
  BY <1>1, OwnerLeavesFrames DEF OwnerStep, Start, DisablePort, ReleaseCamera, Started, frameVars
<1>2. CASE Starting
  <2>1. step \notin {"started", "flush"}
    BY <1>2 DEF Starting, CreateCamera, CreateSplitter, Connect, CreateResizer, EnablePort,
                CreateQueue, StartCapture, Succeeds
  <2>. QED
    BY <1>2, <2>1, OwnerLeavesFrames DEF OwnerStep, frameVars
<1>3. CASE Frame
  BY <1>3, ThreadLeavesObjects DEF ThreadStep, Frame, Started, FrameTypes
<1>4. CASE TestLength \/ DropFrame \/ PutFrame
  BY <1>4, ThreadLeavesObjects DEF ThreadStep, Callback, TestLength, DropFrame, PutFrame, frameVars
<1>5. CASE ReturnBuffer \/ ResendBuffer
  BY <1>5, ThreadLeavesObjects DEF ThreadStep, Callback, Reading, ReturnBuffer, ResendBuffer, frameVars
<1>6. CASE BeginReadFrame
  <2>1. queue # <<>> /\ Head(queue) \in Buffer
    BY <1>6 DEF BeginReadFrame, FrameTypes
  <2>. QED
    BY <1>6, <2>1 DEF BeginReadFrame, Started
<1>7. CASE EndReadFrame
  BY <1>7, ThreadLeavesObjects DEF ThreadStep, Reading, EndReadFrame
<1>8. CASE ReleaseOutput
  BY <1>8 DEF ReleaseOutput
<1>. QED
  BY <1>1, <1>2, <1>3, <1>4, <1>5, <1>6, <1>7, <1>8 DEF Next, Callback, Reading
-----------------------------------------------------------------------------
(* What waits is recent.                                                   *)
LEMMA QueueStep ==
  FrameTypes /\ ThreadsInv /\ QueueInv /\ Next => QueueInv'
<1>. SUFFICES ASSUME FrameTypes, ThreadsInv, QueueInv, Next
              PROVE  QueueInv'
  OBVIOUS
<1>1. /\ queue \in Seq(Buffer) /\ Len(queue) \in Nat /\ DOMAIN queue = 1 .. Len(queue)
      /\ age \in [Buffer -> 0 .. Oldest] /\ 0 .. Oldest \subseteq Nat
      /\ \A i \in 1 .. Len(queue) : queue[i] \in Buffer /\ age[queue[i]] \in 0 .. Oldest
  BY PiCamAssumption DEF FrameTypes
<1>2. CASE OwnerStep \/ TestLength \/ ReturnBuffer \/ Reading
  <2>1. UNCHANGED <<queue, age, hand>>
    BY <1>2, OwnerLeavesFrames
       DEF TestLength, ReturnBuffer, Reading, EndReadFrame, ResendBuffer, frameVars
  <2>2. \/ UNCHANGED callback
        \/ callback = "length" /\ callback' = "drop"
        \/ callback = "length" /\ callback' = "put" /\ Len(queue) <= 1
        \/ callback = "return" /\ callback' = "put"
    BY <1>1, <1>2, OwnerLeavesFrames
       DEF TestLength, ReturnBuffer, Reading, EndReadFrame, ResendBuffer
  <2>. QED
    BY <2>1, <2>2 DEF QueueInv
<1>3. CASE Frame
  <2>. PICK b \in atPort : hand' = b /\ age' = [c \in Buffer |-> IF c = b THEN 0 ELSE Older(age[c])]
    BY <1>3 DEF Frame
  <2>1. b \in Buffer /\ age'[b] = 0
    BY DEF FrameTypes
  <2>2. callback = "idle" /\ callback' = "length" /\ UNCHANGED queue
    BY <1>3 DEF Frame
  <2>3. ASSUME NEW i \in 1 .. Len(queue)
        PROVE  age'[queue[i]] <= Len(queue) - i + 1
    <3>1. age[queue[i]] <= Len(queue) - i /\ queue[i] \in Buffer /\ age[queue[i]] \in 0 .. Oldest
      BY <1>1, <2>2 DEF QueueInv
    <3>2. age'[queue[i]] = IF queue[i] = b THEN 0 ELSE Older(age[queue[i]])
      BY <3>1
    <3>3. Older(age[queue[i]]) \in Nat /\ Older(age[queue[i]]) <= age[queue[i]] + 1
      BY <1>1, <3>1, OlderType
    <3>4. age[queue[i]] \in Nat
      BY <1>1, <3>1
    <3>. QED
      BY <1>1, <3>1, <3>2, <3>3, <3>4
  <2>. QED
    BY <2>1, <2>2, <2>3 DEF QueueInv
<1>4. CASE DropFrame \/ BeginReadFrame
  <2>1. CASE queue = <<>>
    <3>1. Len(queue) = 0 /\ UNCHANGED <<queue, hand, age>>
      BY <1>4, <2>1 DEF DropFrame, BeginReadFrame
    <3>. QED
      BY <3>1 DEF QueueInv
  <2>2. CASE queue # <<>>
    <3>0. queue' = Tail(queue)
      BY <1>4, <2>2 DEF DropFrame, BeginReadFrame
    <3>1. /\ Len(queue') = Len(queue) - 1
          /\ \A i \in 1 .. Len(queue') : queue'[i] = queue[i + 1] /\ i + 1 \in 1 .. Len(queue)
      BY <1>1, <2>2, <3>0
    <3>2. /\ UNCHANGED <<hand, age>>
          /\ callback # "idle" <=> callback' # "idle"
          /\ callback' \in {"return", "put"} => callback \in {"drop", "return", "put"}
      BY <1>4 DEF DropFrame, BeginReadFrame
    <3>3. ASSUME NEW i \in 1 .. Len(queue')
          PROVE  age'[queue'[i]] <= Len(queue') - i + (IF callback' = "idle" THEN 0 ELSE 1)
      BY <1>1, <3>1, <3>2 DEF QueueInv
    <3>. QED
      BY <1>1, <3>1, <3>2, <3>3 DEF QueueInv
  <2>. QED
    BY <2>1, <2>2
<1>5. CASE PutFrame
  <2>1. hand \in Buffer /\ age[hand] = 0 /\ callback = "put"
    BY <1>5 DEF PutFrame, ThreadsInv, FrameTypes, QueueInv
  <2>2. /\ queue' = Append(queue, hand) /\ hand' = NoBuffer /\ callback' = "idle"
        /\ UNCHANGED age
    BY <1>5 DEF PutFrame
  <2>3. /\ Len(queue') = Len(queue) + 1 /\ queue'[Len(queue) + 1] = hand
        /\ \A i \in 1 .. Len(queue) : queue'[i] = queue[i]
    BY <1>1, <2>1, <2>2
  <2>4. ASSUME NEW i \in 1 .. Len(queue')
        PROVE  age'[queue'[i]] <= Len(queue') - i
    <3>1. CASE i \in 1 .. Len(queue)
      BY <1>1, <2>1, <2>2, <2>3, <3>1 DEF QueueInv
    <3>2. CASE i = Len(queue) + 1
      BY <1>1, <2>1, <2>2, <2>3, <3>2
    <3>. QED
      BY <1>1, <2>3, <3>1, <3>2
  <2>. QED
    BY <1>1, <2>1, <2>2, <2>3, <2>4 DEF QueueInv
<1>6. CASE ReleaseOutput
  BY <1>6 DEF ReleaseOutput, QueueInv
<1>. QED
  BY <1>2, <1>3, <1>4, <1>5, <1>6 DEF Next, OwnerStep, Callback
-----------------------------------------------------------------------------
(* Each buffer has one owner.                                              *)
Owners(b) ==
  Count(b, queue) + (In(b, atPort) + In(b, pool) + In(b, lost))
  + (In(b, {locked}) + In(b, {hand}))

LEMMA OwnersSum == \A b : Places(b) = Owners(b) /\ Places(b)' = Owners(b)'
<1>. TAKE b
<1>1. Places(b) = Owners(b)
  BY PlacesSum DEF Owners, Places
<1>2. Places(b)' = Owners(b)'
  BY PlacesSum DEF Owners, Places
<1>. QED
  BY <1>1, <1>2

LEMMA InType == \A b, S : In(b, S) \in {0, 1} /\ (In(b, S) = 1 <=> b \in S)
BY DEF In

LEMMA OwnersStep ==
  /\ OwnerTypes /\ FrameTypes /\ ObjectsInv /\ ThreadsInv /\ OneOwner
  /\ undefined = "none" /\ undefined' = "none" /\ Next
  => OneOwner'
<1>. SUFFICES ASSUME OwnerTypes, FrameTypes, ObjectsInv, ThreadsInv, OneOwner,
                     undefined = "none", undefined' = "none", Next, NEW b \in Buffer
              PROVE  Owners(b)' = IF "pool" \in alive' THEN 1 ELSE 0
  BY OwnersSum DEF OneOwner
<1>1. Owners(b) = IF "pool" \in alive THEN 1 ELSE 0
  BY OwnersSum DEF OneOwner
<1>2. /\ Count(b, queue) \in Nat /\ b # NoBuffer
      /\ \A S : In(b, S) \in {0, 1} /\ (In(b, S) = 1 <=> b \in S)
  BY CountType, InType, PiCamAssumption DEF FrameTypes
<1>3. CASE OwnerStep
  <2>1. UNCHANGED <<queue, locked, hand>>
    BY <1>3, OwnerLeavesFrames DEF frameVars
  <2>2. CASE UNCHANGED poolVars /\ ("pool" \in alive' <=> "pool" \in alive)
    BY <1>1, <2>1, <2>2 DEF Owners, poolVars
  <2>3. CASE step = "port" /\ "pool" \in alive' /\ atPort' = Buffer /\ UNCHANGED <<pool, lost>>
    <3>1. "pool" \notin alive
      BY <2>3 DEF ObjectsInv
    <3>2. In(b, atPort) = 0 /\ Owners(b) = 0 /\ In(b, atPort') = 1
      BY <1>1, <1>2, <2>3, <3>1 DEF Owners
    <3>. QED
      BY <1>2, <2>1, <2>3, <3>2 DEF Owners
  <2>. QED
    BY <1>3, <2>2, <2>3, OwnerLeavesFrames
<1>. DEFINE There == "pool" \in alive /\ Owners(b) = 1
<1>4. CASE Frame
  <2>1. There /\ "pool" \in alive' /\ hand = NoBuffer
    BY <1>1, <1>4, ThreadLeavesObjects DEF ThreadStep, Frame, Started, ObjectsInv, ThreadsInv
  <2>2. PICK c \in atPort : hand' = c /\ atPort' = atPort \ {c}
    BY <1>4 DEF Frame
  <2>3. UNCHANGED <<queue, pool, lost, locked>>
    BY <1>4 DEF Frame
  <2>4. In(b, atPort') + In(b, {hand'}) = In(b, atPort) + In(b, {hand})
    BY <1>2, <2>1, <2>2 DEF In
  <2>. QED
    BY <1>2, <2>1, <2>3, <2>4 DEF Owners
<1>5. CASE TestLength
  BY <1>1, <1>5, ThreadLeavesObjects DEF ThreadStep, Callback, TestLength, Owners, poolVars, frameVars
<1>6. CASE DropFrame
  <2>1. "pool" \in alive' /\ Owners(b) = 1
    BY <1>1, <1>6, ThreadLeavesObjects
       DEF ThreadStep, Callback, DropFrame, ObjectsInv, ThreadsInv
  <2>2. UNCHANGED <<atPort, lost, locked, hand>>
    BY <1>6 DEF DropFrame
  <2>3. CASE queue = <<>>
    BY <1>6, <2>1, <2>2, <2>3 DEF DropFrame, Owners
  <2>4. CASE queue # <<>>
    <3>1. /\ Count(b, queue) = Count(b, Tail(queue)) + In(b, {Head(queue)})
          /\ Count(b, Tail(queue)) \in Nat
      <4>1. queue \in Seq(Buffer) /\ Tail(queue) \in Seq(Buffer)
        BY <2>4 DEF FrameTypes
      <4>2. Count(b, Tail(queue)) \in Nat
        BY <4>1, CountType
      <4>. QED
        BY <2>4, <4>1, <4>2, CountTail
    <3>2. queue' = Tail(queue) /\ pool' = pool \cup {Head(queue)}
      BY <1>6, <2>4 DEF DropFrame
    <3>3. In(b, pool') = In(b, pool) + In(b, {Head(queue)})
      <4>1. In(b, {Head(queue)}) = 1 => In(b, pool) = 0
        BY <1>2, <2>1, <3>1 DEF Owners
      <4>. QED
        BY <3>2, <4>1 DEF In
    <3>. QED
      BY <1>2, <2>1, <2>2, <3>1, <3>2, <3>3 DEF Owners
  <2>. QED
    BY <2>3, <2>4
<1>7. CASE ReturnBuffer \/ ResendBuffer
  <2>1. UNCHANGED <<frameVars, alive>> /\ SendBuffer
    BY <1>7, ThreadLeavesObjects
       DEF ThreadStep, Callback, Reading, ReturnBuffer, ResendBuffer
  <2>2. Owners(b) = 1
    BY <1>1, <1>7 DEF ReturnBuffer, ResendBuffer, ObjectsInv, ThreadsInv
  <2>3. In(b, atPort') + In(b, pool') + In(b, lost') = In(b, atPort) + In(b, pool) + In(b, lost)
    <3>1. In(b, pool) = 1 => In(b, atPort) = 0 /\ In(b, lost) = 0
      BY <1>2, <2>2 DEF Owners
    <3>2. CASE pool = {}
      BY <2>1, <3>2 DEF SendBuffer, poolVars
    <3>3. CASE pool # {}
      <4>1. PICK c \in pool : /\ pool' = pool \ {c}
                              /\ \/ atPort' = atPort \cup {c} /\ UNCHANGED lost
                                 \/ lost' = lost \cup {c} /\ UNCHANGED atPort
        BY <2>1, <3>3 DEF SendBuffer
      <4>2. CASE b = c
        BY <3>1, <4>1, <4>2 DEF In
      <4>3. CASE b # c
        BY <4>1, <4>3 DEF In
      <4>. QED
        BY <4>2, <4>3
    <3>. QED
      BY <3>2, <3>3
  <2>. QED
    BY <1>1, <1>2, <2>1, <2>3 DEF Owners, frameVars
<1>8. CASE PutFrame
  <2>1. hand \in Buffer
    BY <1>8 DEF PutFrame, ThreadsInv, FrameTypes
  <2>2. Count(b, Append(queue, hand)) = Count(b, queue) + In(b, {hand})
    BY <2>1, CountAppend DEF FrameTypes
  <2>3. /\ queue' = Append(queue, hand) /\ hand' = NoBuffer
        /\ UNCHANGED <<poolVars, locked, alive>>
    BY <1>8, ThreadLeavesObjects DEF ThreadStep, Callback, PutFrame
  <2>4. In(b, {hand'}) = 0
    BY <1>2, <2>3
  <2>. QED
    BY <1>1, <1>2, <2>2, <2>3, <2>4 DEF Owners, poolVars
<1>9. CASE BeginReadFrame
  <2>1. queue # <<>> /\ locked = NoBuffer
    BY <1>9 DEF BeginReadFrame, ThreadsInv
  <2>2. /\ Count(b, queue) = Count(b, Tail(queue)) + In(b, {Head(queue)})
        /\ Count(b, Tail(queue)) \in Nat
    <3>1. queue \in Seq(Buffer) /\ Tail(queue) \in Seq(Buffer)
      BY <2>1 DEF FrameTypes
    <3>2. Count(b, Tail(queue)) \in Nat
      BY <3>1, CountType
    <3>. QED
      BY <2>1, <3>1, <3>2, CountTail
  <2>3. /\ queue' = Tail(queue) /\ locked' = Head(queue)
        /\ UNCHANGED <<poolVars, hand, alive>>
    BY <1>9, <2>1 DEF BeginReadFrame, objectVars
  <2>4. In(b, {locked}) = 0
    BY <1>2, <2>1
  <2>. QED
    BY <1>1, <1>2, <2>2, <2>3, <2>4 DEF Owners, poolVars
<1>10. CASE EndReadFrame
  <2>1. /\ pool' = pool \cup {locked} /\ locked' = NoBuffer
        /\ UNCHANGED <<atPort, lost, queue, hand, alive>>
    BY <1>10, ThreadLeavesObjects DEF ThreadStep, Reading, EndReadFrame
  <2>2. Owners(b) = 1
    BY <1>1, <1>10 DEF EndReadFrame, ObjectsInv, ThreadsInv
  <2>3. In(b, {locked'}) = 0
    BY <1>2, <2>1
  <2>4. In(b, pool') = In(b, pool) + In(b, {locked})
    <3>1. In(b, {locked}) = 1 => In(b, pool) = 0
      BY <1>2, <2>2 DEF Owners
    <3>. QED
      BY <2>1, <3>1 DEF In
  <2>. QED
    BY <1>1, <1>2, <2>1, <2>3, <2>4 DEF Owners
<1>11. CASE ReleaseOutput
  <2>1. hand' = NoBuffer /\ locked' = NoBuffer /\ "pool" \notin alive'
    BY <1>11 DEF ReleaseOutput, ThreadsInv
  <2>2. In(b, {hand'}) = 0 /\ In(b, {locked'}) = 0
    BY <1>2, <2>1
  <2>3. queue' = <<>> /\ atPort' = {} /\ pool' = {} /\ lost' = {}
    BY <1>11 DEF ReleaseOutput
  <2>4. Count(b, queue') = 0 /\ In(b, atPort') = 0 /\ In(b, pool') = 0 /\ In(b, lost') = 0
    BY <2>3, CountEmpty DEF In
  <2>. QED
    BY <2>1, <2>2, <2>4 DEF Owners
<1>. QED
  BY <1>3, <1>4, <1>5, <1>6, <1>7, <1>8, <1>9, <1>10, <1>11
     DEF Next, OwnerStep, Callback, Reading
-----------------------------------------------------------------------------
(* The invariant, and what follows from it.                                *)
LEMMA StutterStep == IInv /\ UNCHANGED vars => IInv'
<1>. SUFFICES ASSUME IInv, UNCHANGED vars PROVE IInv'
  OBVIOUS
<1>. USE DEF vars, objectVars, errorVars, poolVars, frameVars
<1>0. OwnerTypes /\ FrameTypes
  BY DEF IInv, TypeOK
<1>1. OwnerTypes' /\ FrameTypes'
  <2>1. OwnerTypes'
    BY <1>0 DEF OwnerTypes
  <2>2. FrameTypes'
    BY <1>0 DEF FrameTypes
  <2>. QED
    BY <2>1, <2>2
<1>2. undefined' = "none" => ObjectsInv' /\ ThreadsInv'
  BY DEF IInv, ObjectsInv, ThreadsInv
<1>3. undefined' = "none" => QueueInv'
  BY DEF IInv, QueueInv
<1>4. \A b \in Buffer : Places(b)' = Places(b)
  BY DEF Places
<1>5. undefined' = "none" => OneOwner'
  BY <1>4 DEF IInv, OneOwner
<1>. QED
  BY <1>1, <1>2, <1>3, <1>5 DEF IInv, TypeOK

(* What is going on with the camera's objects, frames and buffers, from    *)
(* any start to the stop (camera.cpp, PiCamera.cpp).                       *)
THEOREM InvariantCorrect == Spec => []IInv
<1>1. Init => IInv
  <2>. SUFFICES ASSUME Init PROVE IInv
    OBVIOUS
  <2>1. OwnerTypes
    <3>1. /\ step = "none" /\ resizes = FALSE /\ enabled = FALSE /\ alive = {} /\ port = "null"
          /\ lastError \in Errors /\ undefined = "none"
      BY ErrorNames DEF Init
    <3>2. failures \in 0 .. MaxFailures
      BY PiCamAssumption DEF Init
    <3>. QED
      BY <3>1, <3>2 DEF OwnerTypes
  <2>2. FrameTypes /\ ObjectsInv /\ ThreadsInv
    BY PiCamAssumption DEF Init, FrameTypes, ObjectsInv, ThreadsInv
  <2>3. QueueInv
    BY DEF Init, QueueInv
  <2>4. ASSUME NEW b \in Buffer
        PROVE  Places(b) = 0
    <3>1. b # NoBuffer
      BY PiCamAssumption
    <3>2. Count(b, queue) = 0 /\ In(b, atPort) = 0 /\ In(b, pool) = 0 /\ In(b, lost) = 0
      BY CountEmpty DEF Init, In
    <3>3. In(b, {locked}) = 0 /\ In(b, {hand}) = 0
      BY <3>1 DEF Init, In
    <3>4. Owners(b) = 0
      BY <3>2, <3>3 DEF Owners
    <3>. QED
      BY <3>4, OwnersSum
  <2>. QED
    BY <2>1, <2>2, <2>3, <2>4 DEF IInv, TypeOK, OneOwner, ObjectsInv, Init
<1>2. IInv /\ [Next]_vars => IInv'
  <2>. SUFFICES ASSUME IInv, Next PROVE IInv'
    BY StutterStep
  <2>1. undefined = "none"
    BY DEF Next
  <2>2. OwnerTypes /\ FrameTypes /\ ObjectsInv /\ ThreadsInv /\ QueueInv /\ OneOwner
    BY <2>1 DEF IInv, TypeOK
  <2>. QED
    BY <2>1, <2>2, OwnerTypesStep, FrameTypesStep, ObjectsStep, ThreadsStep, QueueStep, OwnersStep
       DEF IInv, TypeOK, OneOwner
<1>. QED
  BY <1>1, <1>2, PTL DEF Spec

(* Types.                                                                  *)
THEOREM TypeCorrect == Spec => []TypeOK
BY InvariantCorrect, PTL DEF IInv

(* No buffer is at once with MMAL, the callback or the reader, or in the   *)
(* queue or the pool twice, and none is forgotten but by a failure.        *)
THEOREM BuffersHaveOneOwner == Spec => []OneOwner
<1>1. IInv => OneOwner
  BY DEF IInv, OneOwner
<1>. QED
  BY <1>1, InvariantCorrect, PTL

(* A reader gets a frame with at most two newer ones (BeginReadFrame).     *)
THEOREM FramesAreRecent == Spec => FrameIsRecent
<1>1. IInv /\ [Next]_vars => [BeginReadFrame /\ queue # <<>> => age[Head(queue)] <= 2]_vars
  <2>. SUFFICES ASSUME IInv, Next, BeginReadFrame, queue # <<>>
                PROVE  age[Head(queue)] <= 2
    OBVIOUS
  <2>1. undefined = "none"
    BY DEF Next
  <2>2. FrameTypes /\ QueueInv
    BY <2>1 DEF IInv, TypeOK
  <2>3. /\ (Len(queue) = 1 \/ Len(queue) = 2) /\ Head(queue) = queue[1] /\ queue[1] \in Buffer
        /\ age[queue[1]] \in Nat
    <3>1. queue \in Seq(Buffer) /\ age \in [Buffer -> 0 .. Oldest] /\ Len(queue) <= 2
      BY <2>2 DEF FrameTypes, QueueInv
    <3>2. (Len(queue) = 1 \/ Len(queue) = 2) /\ Head(queue) = queue[1] /\ queue[1] \in Buffer
      <4>1. queue # <<>> /\ Len(queue) \in Nat
        BY <3>1
      <4>2. Len(queue) = 1 \/ Len(queue) = 2
        <5>1. \A n \in Nat : n # 0 /\ n <= 2 => n = 1 \/ n = 2
          OBVIOUS
        <5>2. Len(queue) # 0
          BY <3>1, <4>1
        <5>. QED
          BY <3>1, <4>1, <5>1, <5>2
      <4>3. 1 \in DOMAIN queue /\ Head(queue) = queue[1]
        BY <3>1, <4>1, <4>2
      <4>4. queue[1] \in Buffer
        BY <3>1, <4>3
      <4>. QED
        BY <4>2, <4>3, <4>4
    <3>3. age[queue[1]] \in Nat
      BY <3>1, <3>2, PiCamAssumption
    <3>. QED
      BY <3>2, <3>3
  <2>4. age[queue[1]] <= Len(queue) - 1 + (IF callback = "idle" THEN 0 ELSE 1)
    <3>1. 1 \in 1 .. Len(queue)
      BY <2>3
    <3>. QED
      BY <2>2, <3>1 DEF QueueInv
  <2>5. Len(queue) - 1 + (IF callback = "idle" THEN 0 ELSE 1) <= 2
    <3>1. (IF callback = "idle" THEN 0 ELSE 1) \in {0, 1}
      OBVIOUS
    <3>2. \A n \in {1, 2}, m \in {0, 1} : n - 1 + m <= 2
      OBVIOUS
    <3>. QED
      BY <2>3, <3>1, <3>2
  <2>6. age[queue[1]] <= 2
    BY <2>3, <2>4, <2>5
  <2>. QED
    BY <2>3, <2>6
<1>. QED
  BY <1>1, InvariantCorrect, PTL DEF Spec, FrameIsRecent

(* A start that fails before the output exists, and every stop, destroys   *)
(* everything, and the failure says why (CCamera::Init, Release).          *)
THEOREM NothingLeftBehind == Spec => CleansUp
<1>. DEFINE Clean ==
       undefined' = "none" /\ step' = "none" =>
         /\ alive' = {} /\ atPort' = {} /\ callback' = "idle"
         /\ step # "release" => lastError' # "NO_ERROR"
<1>1. IInv /\ IInv' /\ [Next]_vars => [Clean]_vars
  <2>. SUFFICES ASSUME IInv, IInv', Next, undefined' = "none", step' = "none"
                PROVE  Clean
    OBVIOUS
  <2>1. undefined = "none"
    BY DEF Next
  <2>2. ObjectsInv' /\ ThreadsInv' /\ OneOwner' /\ FrameTypes'
    BY <2>1 DEF IInv, TypeOK
  <2>3. alive' = {} /\ callback' = "idle"
    BY <2>2 DEF ObjectsInv, ThreadsInv
  <2>4. atPort' = {}
    <3>. SUFFICES ASSUME NEW b \in atPort' PROVE FALSE
      OBVIOUS
    <3>1. b \in Buffer /\ Owners(b)' = 0
      BY <2>2, <2>3, OwnersSum DEF FrameTypes, OneOwner
    <3>2. Count(b, queue') \in Nat /\ \A S : In(b, S) \in {0, 1}
      BY <2>2, CountType, InType DEF FrameTypes
    <3>3. In(b, atPort') = 1
      BY InType
    <3>. QED
      BY <3>1, <3>2, <3>3 DEF Owners
  <2>5. step # "release" => lastError' # "NO_ERROR"
    <3>. SUFFICES ASSUME step # "release" PROVE lastError' # "NO_ERROR"
      OBVIOUS
    <3>1. ~(Start \/ DisablePort \/ ReleaseOutput \/ ReleaseCamera)
      BY DEF Start, DisablePort, ReleaseOutput, ReleaseCamera
    <3>2. ~(ThreadStep \/ BeginReadFrame)
      <4>1. SUFFICES ASSUME ThreadStep \/ BeginReadFrame PROVE step' # "none"
        OBVIOUS
      <4>2. UNCHANGED step
        BY <4>1, ThreadLeavesObjects DEF BeginReadFrame
      <4>3. step # "none"
        BY <2>1, <4>1 DEF IInv, ThreadsInv, ThreadStep, Frame, Callback, Reading, TestLength, DropFrame,
               ReturnBuffer, PutFrame, BeginReadFrame, EndReadFrame, ResendBuffer, Started
      <4>. QED
        BY <4>2, <4>3
    <3>3. Starting
      BY <3>1, <3>2 DEF Next, ThreadStep
    <3>4. \E e \in CameraErrors \cup SplitterErrors \cup ConnectionErrors : lastError' = e
      BY <2>1, <3>3
         DEF Starting, CreateCamera, CreateSplitter, Connect, CreateResizer, EnablePort, CreateQueue,
             StartCapture, Succeeds, InitFails
    <3>. QED
      BY <3>4, ErrorNames
  <2>. QED
    BY <2>3, <2>4, <2>5
<1>. QED
  BY <1>1, InvariantCorrect, PTL DEF Spec, CleansUp
=============================================================================
