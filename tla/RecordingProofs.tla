--------------------------- MODULE RecordingProofs ---------------------------
(***************************************************************************)
(* Theorems about RecordingController.cpp and PictureArchive.cpp, for any  *)
(* capacities, numbers of pictures, days and retries: as long as nobody    *)
(* has raced, no file is lost or uploaded twice, the last pictures are     *)
(* kept, and the folder in use is not removed if any days are to be kept.  *)
(***************************************************************************)
EXTENDS Recording, FunctionTheorems, FiniteSetTheorems, TLAPS

AtFile == {"save", "publish", "defer"}
AtOlder == {"lock", "older", "move", "again"}
Writing == {"publish", "move"}
WithLock == {"older", "move", "again"}
Taken == pictures - Len(toRecord)
Handled == Taken - Len(hand[Recorder])
Walking == pc[Camera] \in {"walk"} \cup AtFile

PlacesInv ==
  /\ pc[Recorder] \in {"idle", "keep"} \cup AtFile
  /\ pc[Scheduler] \in {"idle", "delete"} \cup AtOlder
  /\ pc[Camera] \in {"idle", "folder", "walk"} \cup AtFile \cup AtOlder
  /\ hand[Recorder] = IF pc[Recorder] = "idle" THEN <<>> ELSE <<Taken>>
  /\ pc[Camera] \in AtFile => hand[Camera] # <<>>

HolderInv == \A t \in Threads : pc[t] \in WithLock <=> holder = t

OlderThere == \A t \in Threads : pc[t] = "move" => after # <<>>

OneProducer ==
  \A t \in Threads : pc[t] \in Writing =>
    /\ Len(toUpload) < UploadCapacity
    /\ \A u \in Threads \ {t} : pc[u] \notin Writing

Trying(t) == IF pc[t] \in AtOlder THEN 1 ELSE 0
RetriesInv == retries + Trying(Camera) + Trying(Scheduler) <= MaxRetries

LockInv == HolderInv /\ OlderThere /\ OneProducer /\ RetriesInv

NumbersInv ==
  /\ Len(toRecord) <= pictures
  /\ \A i \in 1 .. Len(toRecord) : toRecord[i] = Taken + i
  /\ \A p \in saved : p <= Taken
  /\ pc[Recorder] \in {"save", "keep"} => Taken \notin saved
  /\ pc[Recorder] \in {"publish", "defer"} => Taken \in saved

Increases(s) == \A i, j \in 1 .. Len(s) : i < j => s[i] < s[j]

BuffersOld ==
  /\ Increases(buffer)
  /\ \A i \in 1 .. Len(buffer) : buffer[i] <= Handled - (Len(buffer) - i)

Unsaved == \A i \in 1 .. Len(buffer) : buffer[i] \notin saved

WalksAlong ==
  /\ Increases(hand[Camera])
  /\ \A i \in 1 .. Len(hand[Camera]) :
       /\ hand[Camera][i] <= Handled
       /\ hand[Camera][i] \in saved <=> (i = 1 /\ pc[Camera] \in {"publish", "defer"})
  /\ \A i \in 1 .. Len(buffer) :
       buffer[i] \in saved \/ \E j \in 1 .. Len(hand[Camera]) : buffer[i] = hand[Camera][j]

BufferInv == BuffersOld /\ (IF Walking THEN WalksAlong ELSE Unsaved)

Kept ==
  \A p \in Pictures :
    p <= Handled /\ p > Handled - RecordBuffer =>
      p \in saved \/ \E i \in 1 .. Len(buffer) : buffer[i] = p

FoldersInv ==
  /\ folder # 0 /\ MaxDays \in 1 .. MaxInt => folder \in folders
  /\ \A d \in folders : d <= folder
  /\ folder <= today
  /\ recording => folder # 0 \/ pc[Camera] = "folder"
  /\ pc[Scheduler] = "delete" => counted <= Cardinality(folders)

IInv ==
  /\ TypeOK
  /\ undefined = "none" =>
       PlacesInv /\ LockInv /\ NumbersInv /\ BufferInv /\ Kept /\ FoldersInv /\ EachFileOnce
-----------------------------------------------------------------------------
(* Counting, as in PiCamProofs: how often b is in a sequence.              *)
In(b, S) == IF b \in S THEN 1 ELSE 0

LEMMA CountIf ==
  ASSUME NEW S, IsFiniteSet(S), NEW x, x \notin S, NEW b, NEW A,
         NEW T, T = IF b \in A THEN S \cup {x} ELSE S
  PROVE  IsFiniteSet(T) /\ Cardinality(T) = Cardinality(S) + In(b, A)
<1>1. Cardinality(S) \in Nat
  BY FS_CardinalityType
<1>2. CASE b \in A
  BY <1>1, <1>2, FS_AddElement DEF In
<1>3. CASE b \notin A
  BY <1>1, <1>3 DEF In
<1>. QED
  BY <1>2, <1>3

LEMMA CountType ==
  ASSUME NEW S, NEW s \in Seq(S), NEW b
  PROVE  /\ IsFiniteSet({i \in DOMAIN s : s[i] = b})
         /\ CountOf(b, s) \in Nat
<1>1. IsFiniteSet(1 .. Len(s))
  BY FS_Interval
<1>2. {i \in DOMAIN s : s[i] = b} \in SUBSET (1 .. Len(s))
  OBVIOUS
<1>. QED
  BY <1>1, <1>2, FS_Subset, FS_CardinalityType DEF CountOf

LEMMA CountAppend ==
  ASSUME NEW S, NEW s \in Seq(S), NEW e \in S, NEW b
  PROVE  CountOf(b, Append(s, e)) = CountOf(b, s) + In(b, {e})
<1>. DEFINE at == {i \in DOMAIN s : s[i] = b}
            new == {i \in DOMAIN Append(s, e) : Append(s, e)[i] = b}
<1>1. IsFiniteSet(at) /\ Cardinality(at) \in Nat
  BY CountType DEF CountOf
<1>2. Len(s) + 1 \notin at
  OBVIOUS
<1>3. new = IF b \in {e} THEN at \cup {Len(s) + 1} ELSE at
  OBVIOUS
<1>4. CountOf(b, s) = Cardinality(at) /\ CountOf(b, Append(s, e)) = Cardinality(new)
  BY DEF CountOf
<1>. HIDE DEF at, new
<1>5. Cardinality(new) = Cardinality(at) + In(b, {e})
  BY <1>1, <1>2, <1>3, CountIf
<1>. QED
  BY <1>4, <1>5

LEMMA CountTail ==
  ASSUME NEW S, NEW s \in Seq(S), s # <<>>, NEW b
  PROVE  CountOf(b, s) = CountOf(b, Tail(s)) + In(b, {Head(s)})
<1>. DEFINE at == {i \in DOMAIN Tail(s) : Tail(s)[i] = b}
            later == {i \in 2 .. Len(s) : s[i] = b}
            all == {i \in DOMAIN s : s[i] = b}
<1>1. Tail(s) \in Seq(S) /\ Len(Tail(s)) = Len(s) - 1 /\ Len(s) \in Nat \ {0}
  OBVIOUS
<1>2. IsFiniteSet(at) /\ Cardinality(at) \in Nat
  BY <1>1, CountType DEF CountOf
<1>3. ExistsBijection(at, later)
  <2>. DEFINE f == [i \in at |-> i + 1]
  <2>1. f \in Bijection(at, later)
    <3>1. f \in [at -> later]
      BY <1>1
    <3>2. \A i, j \in at : f[i] = f[j] => i = j
      BY <1>1
    <3>3. \A j \in later : \E i \in at : f[i] = j
      <4>. SUFFICES ASSUME NEW j \in later PROVE j - 1 \in at /\ f[j - 1] = j
        OBVIOUS
      <4>. QED
        BY <1>1
    <3>. QED
      BY <3>1, <3>2, <3>3, Fun_IsBij
  <2>. QED
    BY <2>1 DEF ExistsBijection
<1>4. IsFiniteSet(later) /\ Cardinality(later) = Cardinality(at)
  BY <1>2, <1>3, FS_Bijection
<1>5. 1 \notin later /\ all = IF b \in {Head(s)} THEN later \cup {1} ELSE later
  BY <1>1
<1>6. CountOf(b, Tail(s)) = Cardinality(at) /\ CountOf(b, s) = Cardinality(all)
  BY DEF CountOf
<1>. HIDE DEF at, later, all
<1>7. Cardinality(all) = Cardinality(later) + In(b, {Head(s)})
  BY <1>4, <1>5, CountIf
<1>. QED
  BY <1>4, <1>6, <1>7

LEMMA CountEmpty == \A b : CountOf(b, <<>>) = 0
BY FS_EmptySet DEF CountOf
-----------------------------------------------------------------------------
LEMMA ConstantTypes ==
  /\ RecordCapacity \in Nat \ {0} /\ UploadCapacity \in Nat \ {0} /\ MaxDays \in Nat /\ MaxInt \in Nat
  /\ LastDay \in Nat \ {0} /\ RecordBuffer \in Nat /\ MaxPictures \in Nat /\ MaxRetries \in Nat
BY RecordingAssumption

LEMMA DistinctThreads ==
  /\ Camera # Recorder /\ Camera # Scheduler /\ Recorder # Scheduler
  /\ Nobody \notin Threads
<1>1. ASSUME NEW a, NEW b, NEW c
      PROVE  IsFiniteSet({a, b, c}) /\ Cardinality({a, b, c}) <= 3
  <2>1. IsFiniteSet({a}) /\ Cardinality({a}) = 1
    BY FS_Singleton
  <2>2. {a, b} = {a} \cup {b} /\ {a, b, c} = {a, b} \cup {c}
    OBVIOUS
  <2>3. IsFiniteSet({a, b}) /\ (Cardinality({a, b}) = 1 \/ Cardinality({a, b}) = 2)
    BY <2>1, <2>2, FS_AddElement
  <2>4. /\ IsFiniteSet({a, b, c})
        /\ \/ Cardinality({a, b, c}) = 1 \/ Cardinality({a, b, c}) = 2
           \/ Cardinality({a, b, c}) = 3
    BY <2>2, <2>3, FS_AddElement
  <2>. QED
    BY <2>4
<1>. DEFINE all == {Camera, Recorder, Scheduler, Nobody}
<1>2. ASSUME NEW a, NEW b, NEW c, all = {a, b, c} PROVE FALSE
  <2>1. Cardinality(all) = 4
    BY RecordingAssumption
  <2>2. Cardinality(all) <= 3
    BY <1>1, <1>2
  <2>. QED
    BY <2>1, <2>2
<1>3. Camera = Recorder => all = {Camera, Scheduler, Nobody}
  OBVIOUS
<1>4. Camera = Scheduler => all = {Camera, Recorder, Nobody}
  OBVIOUS
<1>5. Recorder = Scheduler => all = {Camera, Recorder, Nobody}
  OBVIOUS
<1>6. Nobody \in Threads => all = {Camera, Recorder, Scheduler}
  BY DEF Threads
<1>. HIDE DEF all
<1>. QED
  BY <1>2, <1>3, <1>4, <1>5, <1>6

(* Only the thread that goes on is somewhere else afterwards.              *)
LEMMA GotoMoves ==
  ASSUME TypeOK, NEW t \in Threads, NEW label, Goto(t, label)
  PROVE  /\ pc'[t] = label
         /\ \A u \in Threads \ {t} : pc'[u] = pc[u]
         /\ DOMAIN pc' = Threads
BY DEF TypeOK, Goto

(* What is not about pictures and files leaves them alone.                 *)
QuietStep ==
  \/ StopSaving \/ EndAlarm \/ StartSaving \/ MovesOlder(Camera)
  \/ SchedulerStep \/ UploadFile \/ Midnight

LEMMA QuietLeaves ==
  TypeOK /\ PlacesInv /\ QuietStep =>
    /\ UNCHANGED <<pictures, toRecord, good, hand, saved, buffer>>
    /\ UNCHANGED pc[Recorder]
    /\ UNCHANGED pc[Camera] \/ (~Walking /\ ~Walking')
<1>. SUFFICES ASSUME TypeOK, PlacesInv, QuietStep
              PROVE  /\ UNCHANGED <<pictures, toRecord, good, hand, saved, buffer>>
                     /\ UNCHANGED pc[Recorder]
                     /\ UNCHANGED pc[Camera] \/ (~Walking /\ ~Walking')
  OBVIOUS
<1>1. UNCHANGED <<pictures, toRecord, good, hand, saved, buffer>>
  <2>. USE DEF archiveVars, cameraVars
  <2>1. CASE StopSaving \/ EndAlarm \/ StartSaving
    BY <2>1 DEF StopSaving, EndAlarm, StartSaving, threadVars
  <2>2. ASSUME NEW t, MovesOlder(t)
        PROVE  UNCHANGED <<pictures, toRecord, good, hand, saved, buffer>>
    BY <2>2 DEF MovesOlder, LockOlder, OlderRound, MoveOlder, ScheduleRetry
  <2>3. CASE Retry \/ CountFolders \/ DeleteFolders \/ UploadFile \/ Midnight
    BY <2>3 DEF Retry, CountFolders, DeleteFolders, UploadFile, Midnight, threadVars
  <2>. QED
    BY <2>1, <2>2, <2>3 DEF QuietStep, SchedulerStep
<1>2. \/ UNCHANGED pc
      \/ \E label : Goto(Scheduler, label)
      \/ /\ pc[Camera] \in {"idle"} \cup AtOlder
         /\ \E label \in {"lock", "folder", "idle", "older", "move", "again"} : Goto(Camera, label)
  BY DEF QuietStep, MovesOlder, SchedulerStep, StopSaving, EndAlarm, StartSaving, LockOlder,
         OlderRound, MoveOlder, ScheduleRetry, Retry, CountFolders, DeleteFolders, UploadFile,
         Midnight, threadVars, BeginWrite, AtOlder
<1>3. ASSUME NEW label, Goto(Scheduler, label)
      PROVE  UNCHANGED pc[Recorder] /\ UNCHANGED pc[Camera]
  BY <1>3, GotoMoves, DistinctThreads DEF Threads
<1>4. ASSUME NEW label \in {"lock", "folder", "idle", "older", "move", "again"},
             pc[Camera] \in {"idle"} \cup AtOlder, Goto(Camera, label)
      PROVE  UNCHANGED pc[Recorder] /\ ~Walking /\ ~Walking'
  <2>1. pc'[Camera] = label /\ pc'[Recorder] = pc[Recorder]
    BY <1>4, GotoMoves, DistinctThreads DEF Threads
  <2>. QED
    BY <1>4, <2>1 DEF Walking, AtFile, AtOlder
<1>. QED
  BY <1>1, <1>2, <1>3, <1>4

(* What dealing with a file comes to: it is saved, then maybe handed on.   *)
Saving(t) == pc[t] = "save" /\ saved' = saved \cup {Head(hand[t])}
HandingOn(t) == pc[t] \in {"publish", "defer"} /\ UNCHANGED saved

LEMMA SavesComesTo ==
  ASSUME TypeOK, NEW t \in {Camera, Recorder}, Saves(t)
  PROVE  /\ UNCHANGED <<pictures, toRecord, buffer, good>>
         /\ \A u \in Threads \ {t} : pc'[u] = pc[u]
         /\ \/ Saving(t) /\ UNCHANGED hand /\ undefined' # "none"
            \/ Saving(t) /\ UNCHANGED hand /\ pc'[t] \in {"publish", "defer"} /\ good
            \/ /\ (Saving(t) /\ ~good) \/ HandingOn(t)
               /\ hand' = [hand EXCEPT ![t] = Tail(@)]
               /\ pc'[t] = AfterFile(t)
<1>. t \in Threads
  BY DEF Threads
<1>1. CASE SavePicture(t)
  <2>1. UNCHANGED <<pictures, toRecord, buffer, good>> /\ Saving(t)
    BY <1>1 DEF SavePicture, Saving, cameraVars, archiveVars
  <2>2. CASE t = Recorder /\ pc[Camera] = "folder"
    <3>1. undefined' = "folder" /\ UNCHANGED <<pc, hand>>
      BY <1>1, <2>2 DEF SavePicture, threadVars
    <3>. QED
      BY <2>1, <3>1
  <2>3. CASE ~(t = Recorder /\ pc[Camera] = "folder") /\ good
    <3>1. UNCHANGED hand /\ \E label \in {"publish", "defer"} : Goto(t, label)
      BY <1>1, <2>3 DEF SavePicture, BeginWrite
    <3>. QED
      BY <2>1, <2>3, <3>1, GotoMoves
  <2>4. CASE ~(t = Recorder /\ pc[Camera] = "folder") /\ ~good
    <3>1. hand' = [hand EXCEPT ![t] = Tail(@)] /\ Goto(t, AfterFile(t))
      BY <1>1, <2>4 DEF SavePicture
    <3>. QED
      BY <2>1, <2>4, <3>1, GotoMoves
  <2>. QED
    BY <2>2, <2>3, <2>4
<1>2. CASE PublishFile(t) \/ DeferFile(t)
  <2>1. /\ UNCHANGED <<pictures, toRecord, buffer, good>> /\ HandingOn(t)
        /\ hand' = [hand EXCEPT ![t] = Tail(@)] /\ Goto(t, AfterFile(t))
    BY <1>2 DEF PublishFile, DeferFile, HandingOn, cameraVars, archiveVars
  <2>. QED
    BY <2>1, GotoMoves
<1>. QED
  BY <1>1, <1>2 DEF Saves

LEMMA NextCases ==
  Next => \/ QuietStep \/ AddPicture \/ PrepareCurrentFolder \/ WalkBuffer \/ TakePicture
          \/ KeepPicture \/ \E t \in {Camera, Recorder} : Saves(t)
BY DEF Next, QuietStep, CameraEvent, CameraStep, RecorderStep, SchedulerStep
-----------------------------------------------------------------------------
LEMMA PlacesStep ==
  TypeOK /\ PlacesInv /\ NumbersInv /\ Next => (undefined' = "none" => PlacesInv')
<1>. SUFFICES ASSUME TypeOK, PlacesInv, NumbersInv, Next, undefined' = "none"
              PROVE  PlacesInv'
  OBVIOUS
<1>. USE DistinctThreads DEF PlacesInv
<1>0. /\ Camera \in Threads /\ Recorder \in Threads /\ Scheduler \in Threads
      /\ toRecord \in Seq(Pictures) /\ Len(toRecord) \in Nat /\ pictures \in Nat
      /\ hand \in [Threads -> Seq(Pictures)]
  BY ConstantTypes DEF Threads, TypeOK
<1>1. CASE QuietStep
  <2>1. /\ UNCHANGED <<pictures, toRecord, hand, pc[Recorder]>>
        /\ UNCHANGED pc[Camera] \/ ~Walking'
    BY <1>1, QuietLeaves
  <2>2. /\ pc'[Scheduler] \in {"idle", "delete"} \cup AtOlder
        /\ pc'[Camera] \in {"idle", "folder", "walk"} \cup AtFile \cup AtOlder
    <3>1. \/ UNCHANGED pc
          \/ \E label \in {"idle", "delete"} \cup AtOlder : Goto(Scheduler, label)
          \/ \E label \in {"idle", "folder"} \cup AtOlder : Goto(Camera, label)
      <4>1. CASE StopSaving \/ EndAlarm \/ StartSaving
        BY <4>1 DEF StopSaving, EndAlarm, StartSaving, threadVars, AtOlder
      <4>2. CASE Retry \/ CountFolders \/ DeleteFolders \/ UploadFile \/ Midnight
        BY <4>2 DEF Retry, CountFolders, DeleteFolders, UploadFile, Midnight, threadVars, AtOlder
      <4>3. ASSUME NEW t, MovesOlder(t)
            PROVE  \E label \in {"idle"} \cup AtOlder : Goto(t, label)
        BY <4>3 DEF MovesOlder, LockOlder, OlderRound, MoveOlder, ScheduleRetry, BeginWrite, AtOlder
      <4>. QED
        BY <1>1, <4>1, <4>2, <4>3 DEF QuietStep, SchedulerStep
    <3>. QED
      BY <1>0, <3>1, GotoMoves
  <2>. QED
    BY <2>1, <2>2 DEF Walking, Taken
<1>2. CASE AddPicture
  <2>1. Taken' = Taken
    BY <1>0, <1>2 DEF AddPicture, Taken
  <2>. QED
    BY <1>2, <2>1 DEF AddPicture, threadVars
<1>3. CASE PrepareCurrentFolder
  <2>1. /\ pc'[Camera] = "walk" /\ pc'[Recorder] = pc[Recorder] /\ pc'[Scheduler] = pc[Scheduler]
    BY <1>0, <1>3, GotoMoves DEF PrepareCurrentFolder
  <2>2. hand'[Recorder] = hand[Recorder] /\ Taken' = Taken
    BY <1>0, <1>3 DEF PrepareCurrentFolder, cameraVars, Taken
  <2>. QED
    BY <2>1, <2>2 DEF AtFile
<1>4. CASE WalkBuffer
  <2>1. /\ hand[Camera] = <<>> => pc'[Camera] = "idle"
        /\ hand[Camera] # <<>> => pc'[Camera] = "save"
        /\ pc'[Recorder] = pc[Recorder] /\ pc'[Scheduler] = pc[Scheduler]
    BY <1>0, <1>4, GotoMoves DEF WalkBuffer
  <2>2. hand' = hand /\ Taken' = Taken
    BY <1>4 DEF WalkBuffer, cameraVars, Taken
  <2>. QED
    BY <2>1, <2>2 DEF AtFile
<1>5. CASE TakePicture
  <2>1. /\ pc'[Recorder] \in {"save", "keep"}
        /\ pc'[Camera] = pc[Camera] /\ pc'[Scheduler] = pc[Scheduler]
    BY <1>0, <1>5, GotoMoves DEF TakePicture
  <2>2. /\ Len(toRecord') = Len(toRecord) - 1 /\ pictures' = pictures
        /\ hand'[Recorder] = <<toRecord[1]>> /\ hand'[Camera] = hand[Camera]
        /\ 1 \in 1 .. Len(toRecord)
    BY <1>0, <1>5 DEF TakePicture, cameraVars
  <2>3. toRecord[1] = Taken + 1 /\ Taken' = Taken + 1
    <3>1. toRecord[1] = Taken + 1
      BY <2>2 DEF NumbersInv
    <3>2. Taken' = Taken + 1
      BY <1>0, <2>2 DEF Taken
    <3>. QED
      BY <3>1, <3>2
  <2>. QED
    BY <2>1, <2>2, <2>3 DEF AtFile
<1>6. CASE KeepPicture
  <2>1. /\ pc'[Recorder] = "idle"
        /\ pc'[Camera] = pc[Camera] /\ pc'[Scheduler] = pc[Scheduler]
    BY <1>0, <1>6, GotoMoves DEF KeepPicture
  <2>2. hand'[Recorder] = <<>> /\ hand'[Camera] = hand[Camera]
    BY <1>0, <1>6 DEF KeepPicture
  <2>. QED
    BY <2>1, <2>2
<1>7. ASSUME NEW t \in {Camera, Recorder}, Saves(t)
      PROVE  PlacesInv'
  <2>1. Taken' = Taken /\ \A u \in Threads \ {t} : pc'[u] = pc[u]
    BY <1>7, SavesComesTo DEF Taken
  <2>2. CASE UNCHANGED hand /\ pc'[t] \in {"publish", "defer"} /\ pc[t] = "save"
    BY <1>0, <2>1, <2>2 DEF AtFile
  <2>3. CASE /\ hand' = [hand EXCEPT ![t] = Tail(@)] /\ pc'[t] = AfterFile(t)
             /\ pc[t] \in AtFile
    <3>1. CASE t = Camera
      BY <1>0, <2>1, <2>3, <3>1 DEF AfterFile, AtFile
    <3>2. CASE t = Recorder
      <4>1. hand[Recorder] = <<Taken>>
        BY <2>3, <3>2 DEF AtFile
      <4>2. hand'[Recorder] = <<>> /\ hand'[Camera] = hand[Camera] /\ pc'[Recorder] = "idle"
        <5>1. Tail(<<Taken>>) = <<>>
          OBVIOUS
        <5>2. hand'[Recorder] = Tail(hand[Recorder]) /\ hand'[Camera] = hand[Camera]
          BY <1>0, <2>3, <3>2
        <5>. QED
          BY <2>3, <3>2, <4>1, <5>1, <5>2 DEF AfterFile
      <4>. QED
        BY <1>0, <2>1, <3>2, <4>2
    <3>. QED
      BY <3>1, <3>2
  <2>. QED
    BY <1>7, <2>2, <2>3, SavesComesTo DEF Saving, HandingOn, AtFile
<1>. QED
  BY <1>1, <1>2, <1>3, <1>4, <1>5, <1>6, <1>7, NextCases

LEMMA NumbersStep ==
  TypeOK /\ PlacesInv /\ NumbersInv /\ BufferInv /\ Next => (undefined' = "none" => NumbersInv')
<1>. SUFFICES ASSUME TypeOK, PlacesInv, NumbersInv, BufferInv, Next, undefined' = "none"
              PROVE  NumbersInv'
  OBVIOUS
<1>. USE DistinctThreads
<1>0. /\ Camera \in Threads /\ Recorder \in Threads /\ Scheduler \in Threads
      /\ toRecord \in Seq(Pictures) /\ Len(toRecord) \in Nat /\ pictures \in Nat
      /\ hand \in [Threads -> Seq(Pictures)] /\ saved \subseteq Nat
      /\ Len(toRecord) <= pictures /\ Taken \in Nat
  BY ConstantTypes DEF Threads, TypeOK, Pictures, NumbersInv, Taken
<1>1. CASE QuietStep
  BY <1>1, QuietLeaves DEF NumbersInv, Taken
<1>2. CASE AddPicture
  <2>1. /\ pictures' = pictures + 1 /\ toRecord' = Append(toRecord, pictures + 1)
        /\ UNCHANGED <<saved, pc>>
    BY <1>2 DEF AddPicture, threadVars
  <2>2. Len(toRecord') = Len(toRecord) + 1 /\ Taken' = Taken
    BY <1>0, <2>1 DEF Taken
  <2>3. ASSUME NEW i \in 1 .. Len(toRecord') PROVE toRecord'[i] = Taken' + i
    <3>1. CASE i \in 1 .. Len(toRecord)
      BY <1>0, <2>1, <2>2, <3>1 DEF NumbersInv
    <3>2. CASE i = Len(toRecord) + 1
      BY <1>0, <2>1, <2>2, <3>2 DEF Taken
    <3>. QED
      BY <1>0, <2>2, <3>1, <3>2
  <2>. QED
    BY <1>0, <2>1, <2>2, <2>3 DEF NumbersInv
<1>3. CASE PrepareCurrentFolder \/ WalkBuffer
  <2>1. UNCHANGED <<pictures, toRecord, saved>> /\ pc'[Recorder] = pc[Recorder]
    BY <1>0, <1>3, GotoMoves DEF PrepareCurrentFolder, WalkBuffer, cameraVars
  <2>. QED
    BY <2>1 DEF NumbersInv, Taken
<1>4. CASE TakePicture
  <2>1. /\ toRecord' = Tail(toRecord) /\ toRecord # <<>> /\ UNCHANGED <<pictures, saved>>
        /\ pc'[Recorder] \in {"save", "keep"}
    BY <1>0, <1>4, GotoMoves DEF TakePicture, cameraVars
  <2>2. /\ Len(toRecord') = Len(toRecord) - 1 /\ Len(toRecord') \in Nat
        /\ \A i \in 1 .. Len(toRecord') : toRecord'[i] = toRecord[i + 1]
    BY <1>0, <2>1
  <2>3. Taken' = Taken + 1
    BY <1>0, <2>1, <2>2 DEF Taken
  <2>4. ASSUME NEW i \in 1 .. Len(toRecord') PROVE toRecord'[i] = Taken' + i
    <3>1. i + 1 \in 1 .. Len(toRecord)
      BY <1>0, <2>2
    <3>2. toRecord[i + 1] = Taken + (i + 1)
      BY <3>1 DEF NumbersInv
    <3>. QED
      BY <1>0, <2>2, <2>3, <3>2
  <2>5. \A p \in saved : p <= Taken /\ p \in Nat
    BY <1>0 DEF NumbersInv
  <2>. QED
    BY <1>0, <2>1, <2>2, <2>3, <2>4, <2>5 DEF NumbersInv
<1>5. CASE KeepPicture
  <2>1. UNCHANGED <<pictures, toRecord, saved>> /\ pc'[Recorder] = "idle"
    BY <1>0, <1>5, GotoMoves DEF KeepPicture, cameraVars
  <2>. QED
    BY <2>1 DEF NumbersInv, Taken
<1>6. ASSUME NEW t \in {Camera, Recorder}, Saves(t)
      PROVE  NumbersInv'
  <2>1. /\ UNCHANGED <<pictures, toRecord>> /\ Taken' = Taken
        /\ \A u \in Threads \ {t} : pc'[u] = pc[u]
    BY <1>6, SavesComesTo DEF Taken
  <2>2. CASE t = Camera
    <3>1. pc'[Recorder] = pc[Recorder]
      BY <1>0, <2>1, <2>2
    <3>2. CASE UNCHANGED saved
      BY <2>1, <3>1, <3>2 DEF NumbersInv
    <3>3. CASE Saving(Camera)
      <4>1. /\ saved' = saved \cup {hand[Camera][1]} /\ hand[Camera] # <<>>
            /\ 1 \in 1 .. Len(hand[Camera]) /\ hand[Camera][1] \in Nat
        <5>1. hand[Camera] # <<>> /\ hand[Camera] \in Seq(Pictures)
          BY <1>0, <3>3 DEF Saving, PlacesInv, AtFile
        <5>2. Head(hand[Camera]) = hand[Camera][1] /\ 1 \in 1 .. Len(hand[Camera])
          BY <5>1
        <5>3. hand[Camera][1] \in Pictures
          BY <5>1, <5>2
        <5>. QED
          BY <3>3, <5>1, <5>2, <5>3 DEF Saving, Pictures
      <4>2. hand[Camera][1] <= Handled
        BY <3>3, <4>1 DEF BufferInv, WalksAlong, Walking, AtFile, Saving
      <4>3. /\ Handled <= Taken
            /\ pc[Recorder] # "idle" => Handled < Taken
        BY <1>0 DEF Handled, PlacesInv
      <4>4. Handled \in Int
        BY <1>0 DEF Handled
      <4>5. /\ hand[Camera][1] <= Taken
            /\ pc[Recorder] # "idle" => hand[Camera][1] # Taken
        BY <1>0, <4>1, <4>2, <4>3, <4>4
      <4>. QED
        BY <2>1, <3>1, <4>1, <4>5 DEF NumbersInv
    <3>. QED
      BY <1>6, <2>2, <3>2, <3>3, SavesComesTo DEF HandingOn
  <2>3. CASE t = Recorder
    <3>1. CASE UNCHANGED hand /\ pc'[Recorder] \in {"publish", "defer"} /\ Saving(Recorder)
      <4>1. saved' = saved \cup {Taken}
        BY <3>1 DEF Saving, PlacesInv
      <4>. QED
        BY <1>0, <2>1, <3>1, <4>1 DEF NumbersInv
    <3>2. CASE pc'[Recorder] = "idle" /\ (Saving(Recorder) \/ HandingOn(Recorder))
      <4>1. saved' \subseteq saved \cup {Taken}
        BY <3>2 DEF Saving, HandingOn, PlacesInv
      <4>. QED
        BY <1>0, <2>1, <3>2, <4>1 DEF NumbersInv
    <3>. QED
      BY <1>6, <2>3, <3>1, <3>2, SavesComesTo DEF AfterFile
  <2>. QED
    BY <2>2, <2>3
<1>. QED
  BY <1>1, <1>2, <1>3, <1>4, <1>5, <1>6, NextCases

(* How many pictures were taken from the queue and how many are dealt with. *)
LEMMA HandledIs ==
  TypeOK /\ PlacesInv /\ NumbersInv =>
    /\ Taken \in Nat /\ Handled \in Int
    /\ Handled = IF pc[Recorder] = "idle" THEN Taken ELSE Taken - 1
    /\ saved \subseteq Nat
    /\ buffer \in Seq(Nat) /\ Len(buffer) \in Nat
    /\ hand[Camera] \in Seq(Nat) /\ Len(hand[Camera]) \in Nat
    /\ \A i \in 1 .. Len(buffer) : buffer[i] \in Nat
    /\ \A i \in 1 .. Len(hand[Camera]) : hand[Camera][i] \in Nat
<1>. SUFFICES ASSUME TypeOK, PlacesInv, NumbersInv
              PROVE  /\ Taken \in Nat /\ Handled \in Int
                     /\ Handled = IF pc[Recorder] = "idle" THEN Taken ELSE Taken - 1
                     /\ saved \subseteq Nat
                     /\ buffer \in Seq(Nat) /\ hand[Camera] \in Seq(Nat)
  <2>1. \A s \in Seq(Nat) : Len(s) \in Nat /\ \A i \in 1 .. Len(s) : s[i] \in Nat
    OBVIOUS
  <2>. QED
    BY <2>1
<1>1. /\ toRecord \in Seq(Pictures) /\ buffer \in Seq(Pictures) /\ saved \subseteq Pictures
      /\ hand[Camera] \in Seq(Pictures) /\ pictures \in Nat
  BY ConstantTypes DEF TypeOK, Threads
<1>2. Pictures \subseteq Nat
  BY ConstantTypes DEF Pictures
<1>3. Taken \in Nat
  BY <1>1 DEF NumbersInv, Taken
<1>4. Handled = IF pc[Recorder] = "idle" THEN Taken ELSE Taken - 1
  <2>1. Len(<<>>) = 0 /\ Len(<<Taken>>) = 1
    OBVIOUS
  <2>. QED
    BY <1>3, <2>1 DEF PlacesInv, Handled
<1>5. buffer \in Seq(Nat) /\ hand[Camera] \in Seq(Nat) /\ saved \subseteq Nat
  <2>1. ASSUME NEW s \in Seq(Pictures) PROVE s \in Seq(Nat)
    <3>1. s \in [1 .. Len(s) -> Pictures] /\ Len(s) \in Nat
      OBVIOUS
    <3>2. s \in [1 .. Len(s) -> Nat]
      BY <1>2, <3>1
    <3>. QED
      BY <3>1, <3>2
  <2>. QED
    BY <1>1, <1>2, <2>1
<1>6. Handled \in Int
  BY <1>3, <1>4
<1>. QED
  BY <1>3, <1>4, <1>5, <1>6

LEMMA HandledStep ==
  ASSUME TypeOK, PlacesInv, NumbersInv
  PROVE  /\ QuietStep \/ AddPicture \/ PrepareCurrentFolder \/ WalkBuffer \/ TakePicture
            \/ Saves(Camera)
              => Handled' = Handled
         /\ KeepPicture => Handled' = Handled + 1 /\ Handled + 1 = Taken
         /\ Saves(Recorder) => Handled + 1 = Taken /\ Handled' \in {Handled, Handled + 1}
<1>0. /\ Camera \in Threads /\ Recorder \in Threads /\ Camera # Recorder
      /\ toRecord \in Seq(Pictures) /\ Len(toRecord) \in Nat /\ pictures \in Nat
      /\ hand \in [Threads -> Seq(Pictures)]
  BY DistinctThreads, ConstantTypes DEF Threads, TypeOK
<1>1. /\ Taken \in Nat /\ Handled \in Int
      /\ Handled = IF pc[Recorder] = "idle" THEN Taken ELSE Taken - 1
  BY HandledIs
<1>2. ASSUME UNCHANGED <<Taken, hand[Recorder]>> PROVE Handled' = Handled
  BY <1>2 DEF Handled
<1>3. ASSUME QuietStep PROVE Handled' = Handled
  BY <1>2, <1>3, QuietLeaves DEF Taken
<1>4. ASSUME AddPicture PROVE Handled' = Handled
  <2>1. Taken' = Taken /\ UNCHANGED hand
    BY <1>0, <1>4 DEF AddPicture, Taken, threadVars
  <2>. QED
    BY <1>2, <2>1
<1>5. ASSUME PrepareCurrentFolder \/ WalkBuffer PROVE Handled' = Handled
  <2>1. UNCHANGED <<pictures, toRecord, hand[Recorder]>>
    BY <1>0, <1>5 DEF PrepareCurrentFolder, WalkBuffer, cameraVars
  <2>. QED
    BY <1>2, <2>1 DEF Taken
<1>6. ASSUME TakePicture PROVE Handled' = Handled
  <2>1. /\ pc[Recorder] = "idle" /\ pictures' = pictures
        /\ hand'[Recorder] = <<Head(toRecord)>> /\ Len(toRecord') = Len(toRecord) - 1
    BY <1>0, <1>6 DEF TakePicture, cameraVars
  <2>2. Len(hand'[Recorder]) = 1
    BY <2>1
  <2>3. Taken' = Taken + 1 /\ Handled = Taken
    BY <1>0, <1>1, <2>1 DEF Taken
  <2>4. Handled' = Taken' - 1
    BY <2>2 DEF Handled
  <2>. QED
    BY <1>1, <2>3, <2>4
<1>7. ASSUME Saves(Camera) PROVE Handled' = Handled
  <2>1. UNCHANGED <<pictures, toRecord, hand[Recorder]>>
    BY <1>0, <1>7, SavesComesTo
  <2>. QED
    BY <1>2, <2>1 DEF Taken
<1>8. ASSUME KeepPicture PROVE Handled' = Handled + 1 /\ Handled + 1 = Taken
  <2>1. pc[Recorder] = "keep" /\ UNCHANGED <<pictures, toRecord>> /\ hand'[Recorder] = <<>>
    BY <1>0, <1>8 DEF KeepPicture, cameraVars
  <2>2. Len(hand'[Recorder]) = 0
    BY <2>1
  <2>3. Handled' = Taken' - 0 /\ Taken' = Taken
    BY <2>1, <2>2 DEF Handled, Taken
  <2>. QED
    BY <1>1, <2>1, <2>3
<1>9. ASSUME Saves(Recorder)
      PROVE  Handled + 1 = Taken /\ Handled' \in {Handled, Handled + 1}
  <2>1. Taken' = Taken /\ pc[Recorder] \in AtFile
    BY <1>9, SavesComesTo DEF Saving, HandingOn, AtFile, Taken
  <2>2. hand[Recorder] = <<Taken>> /\ Handled = Taken - 1
    BY <1>1, <2>1 DEF PlacesInv, AtFile
  <2>3. hand'[Recorder] = <<Taken>> \/ hand'[Recorder] = <<>>
    <3>1. hand' = hand \/ hand' = [hand EXCEPT ![Recorder] = Tail(@)]
      BY <1>9, SavesComesTo
    <3>2. Tail(<<Taken>>) = <<>>
      OBVIOUS
    <3>. QED
      BY <1>0, <2>2, <3>1, <3>2
  <2>4. Len(<<Taken>>) = 1 /\ Len(<<>>) = 0
    OBVIOUS
  <2>5. Handled' = Taken - Len(hand'[Recorder])
    BY <2>1 DEF Handled
  <2>6. Handled' = Taken - 1 \/ Handled' = Taken - 0
    BY <2>3, <2>4, <2>5
  <2>. QED
    BY <1>1, <2>2, <2>6
<1>. QED
  BY <1>3, <1>4, <1>5, <1>6, <1>7, <1>8, <1>9

LEMMA BufferStep ==
  TypeOK /\ PlacesInv /\ NumbersInv /\ BufferInv /\ Next => (undefined' = "none" => BufferInv')
<1>. SUFFICES ASSUME TypeOK, PlacesInv, NumbersInv, BufferInv, Next, undefined' = "none"
              PROVE  BufferInv'
  OBVIOUS
<1>. USE DistinctThreads
<1>0. /\ Camera \in Threads /\ Recorder \in Threads /\ Scheduler \in Threads
      /\ toRecord \in Seq(Pictures) /\ Len(toRecord) \in Nat /\ pictures \in Nat
      /\ hand \in [Threads -> Seq(Pictures)]
  BY ConstantTypes DEF Threads, TypeOK
<1>1. /\ Taken \in Nat /\ Handled \in Int
      /\ Handled = IF pc[Recorder] = "idle" THEN Taken ELSE Taken - 1
      /\ saved \subseteq Nat
      /\ buffer \in Seq(Nat) /\ Len(buffer) \in Nat
      /\ hand[Camera] \in Seq(Nat) /\ Len(hand[Camera]) \in Nat
      /\ \A i \in 1 .. Len(buffer) : buffer[i] \in Nat
      /\ \A i \in 1 .. Len(hand[Camera]) : hand[Camera][i] \in Nat
  BY HandledIs
<1>2. \A i \in 1 .. Len(buffer) : buffer[i] <= Handled
  BY <1>1 DEF BufferInv, BuffersOld
<1>3. CASE QuietStep
  <2>1. UNCHANGED <<buffer, saved, hand, Handled>>
    BY <1>3, QuietLeaves, HandledStep
  <2>2. UNCHANGED pc[Camera] \/ (~Walking /\ ~Walking')
    BY <1>3, QuietLeaves
  <2>. QED
    BY <2>1, <2>2 DEF BufferInv, BuffersOld, Walking, WalksAlong, Unsaved, Increases
<1>4. CASE AddPicture
  <2>2. UNCHANGED <<buffer, saved, hand, pc, Handled>>
    BY <1>4, HandledStep DEF AddPicture, threadVars, archiveVars
  <2>. QED
    BY <2>2 DEF BufferInv, BuffersOld, Walking, WalksAlong, Unsaved, Increases
<1>5. CASE PrepareCurrentFolder
  <2>1. /\ pc[Camera] = "folder" /\ pc'[Camera] = "walk"
        /\ hand'[Camera] = buffer /\ hand'[Recorder] = hand[Recorder]
        /\ UNCHANGED <<buffer, saved>>
    BY <1>0, <1>5, GotoMoves DEF PrepareCurrentFolder
  <2>2. Handled' = Handled
    BY <1>5, HandledStep
  <2>3. ~Walking /\ Walking'
    BY <2>1 DEF Walking, AtFile
  <2>4. Unsaved /\ BuffersOld
    BY <2>3 DEF BufferInv
  <2>5. BuffersOld'
    BY <2>1, <2>2, <2>4 DEF BuffersOld, Increases
  <2>6. WalksAlong'
    BY <1>2, <2>1, <2>2, <2>4 DEF WalksAlong, Unsaved, BuffersOld, Increases
  <2>. QED
    BY <2>3, <2>5, <2>6 DEF BufferInv
<1>6. CASE WalkBuffer
  <2>1. UNCHANGED <<hand, saved, Handled>> /\ pc[Camera] = "walk"
    BY <1>6, HandledStep DEF WalkBuffer
  <2>2. CASE hand[Camera] = <<>>
    <3>1. buffer' = <<>> /\ pc'[Camera] = "idle"
      BY <1>0, <1>6, <2>2, GotoMoves DEF WalkBuffer
    <3>2. ~Walking' /\ Len(buffer') = 0
      BY <3>1 DEF Walking, AtFile
    <3>. QED
      BY <3>2 DEF BufferInv, BuffersOld, Unsaved, Increases
  <2>3. CASE hand[Camera] # <<>>
    <3>1. buffer' = buffer /\ pc'[Camera] = "save"
      BY <1>0, <1>6, <2>3, GotoMoves DEF WalkBuffer
    <3>2. Walking /\ Walking'
      BY <2>1, <3>1 DEF Walking, AtFile
    <3>. QED
      BY <2>1, <3>1, <3>2 DEF BufferInv, BuffersOld, WalksAlong, Increases
  <2>. QED
    BY <2>2, <2>3
<1>7. CASE TakePicture
  <2>1. /\ UNCHANGED <<buffer, saved>> /\ pc'[Camera] = pc[Camera]
        /\ hand'[Camera] = hand[Camera]
    BY <1>0, <1>7, GotoMoves DEF TakePicture, archiveVars
  <2>3. Handled' = Handled
    BY <1>7, HandledStep
  <2>. QED
    BY <2>1, <2>3 DEF BufferInv, BuffersOld, Walking, WalksAlong, Unsaved, Increases
<1>8. CASE KeepPicture
  <2>1. /\ pc[Recorder] = "keep" /\ UNCHANGED saved /\ ~Walking
        /\ pc'[Camera] = pc[Camera] /\ hand'[Recorder] = <<>>
    BY <1>0, <1>8, GotoMoves DEF KeepPicture, Walking, AtFile
  <2>2. Handled' = Handled + 1 /\ Handled + 1 = Taken /\ Taken \notin saved
    BY <1>8, <2>1, HandledStep DEF NumbersInv
  <2>. DEFINE longer == Append(buffer, Taken)
  <2>3. \/ buffer' = longer
        \/ buffer' = Tail(longer)
    <3>1. buffer \o <<Taken>> = longer
      BY <1>1
    <3>. QED
      BY <1>8, <2>1, <3>1 DEF KeepPicture, PlacesInv
  <2>4. /\ Len(longer) = Len(buffer) + 1 /\ longer \in Seq(Nat) /\ longer # <<>>
        /\ \A i \in 1 .. Len(buffer) : longer[i] = buffer[i]
        /\ longer[Len(buffer) + 1] = Taken
    <3>1. \A s \in Seq(Nat), n \in Nat :
            /\ Append(s, n) \in Seq(Nat) /\ Append(s, n) # <<>> /\ Len(Append(s, n)) = Len(s) + 1
            /\ \A i \in 1 .. Len(s) : Append(s, n)[i] = s[i]
            /\ Append(s, n)[Len(s) + 1] = n
      OBVIOUS
    <3>. QED
      BY <1>1, <3>1
  <2>5. ASSUME NEW i \in 1 .. Len(longer)
        PROVE  /\ longer[i] \in Nat /\ longer[i] \notin saved
               /\ longer[i] <= Handled' - (Len(longer) - i)
               /\ \A j \in 1 .. Len(longer) : i < j => longer[i] < longer[j]
    <3>1. CASE i \in 1 .. Len(buffer)
      <4>1. /\ longer[i] = buffer[i] /\ buffer[i] \in Nat /\ buffer[i] \notin saved
            /\ buffer[i] <= Handled - (Len(buffer) - i)
        BY <1>1, <2>1, <2>4, <3>1 DEF BufferInv, BuffersOld, Unsaved
      <4>2. buffer[i] < Taken
        BY <1>1, <1>2, <2>2, <3>1
      <4>3. ASSUME NEW j \in 1 .. Len(longer), i < j PROVE longer[i] < longer[j]
        <5>1. CASE j \in 1 .. Len(buffer)
          BY <2>4, <3>1, <4>3, <5>1 DEF BufferInv, BuffersOld, Increases
        <5>2. CASE j = Len(buffer) + 1
          BY <2>4, <4>1, <4>2, <5>2
        <5>. QED
          BY <1>1, <2>4, <5>1, <5>2
      <4>4. buffer[i] <= Handled' - (Len(longer) - i)
        BY <1>1, <2>2, <2>4, <3>1, <4>1
      <4>. QED
        BY <4>1, <4>3, <4>4
    <3>2. CASE i = Len(buffer) + 1
      BY <1>1, <2>2, <2>4, <3>2
    <3>. QED
      <4>1. i \in 1 .. Len(buffer) \/ i = Len(buffer) + 1
        BY <1>1, <2>4
      <4>. QED
        BY <3>1, <3>2, <4>1
  <2>. HIDE DEF longer
  <2>6. ~Walking'
    BY <2>1 DEF Walking
  <2>7. CASE buffer' = longer
    <3>1. Unsaved' /\ Increases(buffer)'
      BY <2>1, <2>5, <2>7 DEF Unsaved, Increases
    <3>2. \A i \in 1 .. Len(buffer') : buffer'[i] <= Handled' - (Len(buffer') - i)
      BY <2>5, <2>7
    <3>. QED
      BY <2>6, <3>1, <3>2 DEF BufferInv, BuffersOld
  <2>8. CASE buffer' = Tail(longer)
    <3>1. /\ Len(buffer') = Len(longer) - 1 /\ Len(buffer') \in Nat
          /\ \A i \in 1 .. Len(buffer') : i + 1 \in 1 .. Len(longer) /\ buffer'[i] = longer[i + 1]
      BY <1>1, <2>4, <2>8
    <3>2. Unsaved' /\ Increases(buffer)'
      <4>1. Unsaved'
        BY <2>1, <2>5, <3>1 DEF Unsaved
      <4>2. ASSUME NEW i \in 1 .. Len(buffer'), NEW j \in 1 .. Len(buffer'), i < j
            PROVE  buffer'[i] < buffer'[j]
        <5>1. i + 1 \in 1 .. Len(longer) /\ j + 1 \in 1 .. Len(longer) /\ i + 1 < j + 1
          BY <3>1, <4>2
        <5>2. longer[i + 1] < longer[j + 1]
          BY <2>5, <5>1
        <5>. QED
          BY <3>1, <5>2
      <4>. QED
        BY <4>1, <4>2 DEF Increases
    <3>3. ASSUME NEW i \in 1 .. Len(buffer')
          PROVE  buffer'[i] <= Handled' - (Len(buffer') - i)
      <4>1. longer[i + 1] <= Handled' - (Len(longer) - (i + 1)) /\ longer[i + 1] \in Nat
        BY <2>5, <3>1
      <4>. QED
        BY <1>1, <2>2, <3>1, <4>1
    <3>. QED
      BY <2>6, <3>2, <3>3 DEF BufferInv, BuffersOld
  <2>. QED
    BY <2>3, <2>7, <2>8
<1>9. ASSUME Saves(Recorder)
      PROVE  BufferInv'
  <2>1. /\ UNCHANGED buffer /\ pc'[Camera] = pc[Camera] /\ hand'[Camera] = hand[Camera]
        /\ Taken' = Taken /\ pc[Recorder] \in AtFile
    BY <1>0, <1>9, SavesComesTo DEF Saving, HandingOn, AtFile, Taken
  <2>2. saved \subseteq saved' /\ saved' \subseteq saved \cup {Taken}
    BY <1>9, SavesComesTo DEF Saving, HandingOn, PlacesInv
  <2>3. Handled + 1 = Taken /\ Handled' \in {Handled, Handled + 1}
    BY <1>9, HandledStep
  <2>4. Handled' \in {Handled, Handled + 1} /\ Handled = Taken - 1
    BY <1>1, <2>3
  <2>5. \A i \in 1 .. Len(buffer) : buffer[i] \in saved' <=> buffer[i] \in saved
    BY <1>1, <1>2, <2>2, <2>4
  <2>6. BuffersOld'
    <3>1. ASSUME NEW i \in 1 .. Len(buffer)
          PROVE  buffer[i] <= Handled' - (Len(buffer) - i)
      <4>1. buffer[i] <= Handled - (Len(buffer) - i) /\ buffer[i] \in Nat
        BY <1>1 DEF BufferInv, BuffersOld
      <4>. QED
        BY <1>1, <2>4, <4>1
    <3>. QED
      BY <2>1, <3>1 DEF BufferInv, BuffersOld, Increases
  <2>7. Walking' <=> Walking
    BY <2>1 DEF Walking
  <2>8. ~Walking => Unsaved'
    BY <2>1, <2>5 DEF BufferInv, Unsaved
  <2>9. ASSUME Walking PROVE WalksAlong'
    <3>1. WalksAlong
      BY <2>9 DEF BufferInv
    <3>2. ASSUME NEW i \in 1 .. Len(hand[Camera])
          PROVE  /\ hand[Camera][i] <= Handled'
                 /\ hand[Camera][i] \in saved' <=> hand[Camera][i] \in saved
      <4>1. hand[Camera][i] <= Handled /\ hand[Camera][i] \in Nat
        BY <1>1, <3>1 DEF WalksAlong
      <4>. QED
        BY <1>1, <2>2, <2>4, <4>1
    <3>. QED
      BY <2>1, <2>5, <3>1, <3>2 DEF WalksAlong, Increases
  <2>. QED
    BY <2>6, <2>7, <2>8, <2>9 DEF BufferInv
<1>10. ASSUME Saves(Camera)
       PROVE  BufferInv'
  <2>1. /\ UNCHANGED buffer /\ pc'[Recorder] = pc[Recorder] /\ hand'[Recorder] = hand[Recorder]
        /\ Taken' = Taken /\ pc[Camera] \in AtFile /\ pc'[Camera] \in {"walk", "publish", "defer"}
    BY <1>0, <1>10, SavesComesTo DEF Saving, HandingOn, AtFile, Taken, AfterFile
  <2>2. Handled' = Handled
    BY <1>10, HandledStep
  <2>3. Walking /\ Walking' /\ BuffersOld' /\ WalksAlong
    BY <2>1, <2>2 DEF BufferInv, BuffersOld, Walking, AtFile, Increases
  <2>. DEFINE first == hand[Camera][1]
  <2>4. /\ hand[Camera] # <<>> /\ Head(hand[Camera]) = first /\ 1 \in 1 .. Len(hand[Camera])
        /\ first \in Nat
        /\ \A i \in 1 .. Len(hand[Camera]) : i # 1 => hand[Camera][i] # first
    <3>1. hand[Camera] # <<>>
      BY <2>1 DEF PlacesInv
    <3>2. \A s \in Seq(Nat) : s # <<>> => Head(s) = s[1] /\ 1 \in 1 .. Len(s)
      OBVIOUS
    <3>3. Head(hand[Camera]) = first /\ 1 \in 1 .. Len(hand[Camera])
      BY <1>1, <3>1, <3>2
    <3>4. ASSUME NEW i \in 1 .. Len(hand[Camera]), i # 1 PROVE first < hand[Camera][i]
      BY <1>1, <2>3, <3>3, <3>4 DEF WalksAlong, Increases
    <3>5. first \in Nat /\ \A i \in 1 .. Len(hand[Camera]) : hand[Camera][i] \in Nat
      BY <1>1, <3>3
    <3>. QED
      BY <3>1, <3>3, <3>4, <3>5
  <2>. HIDE DEF first
  <2>5. CASE Saving(Camera) /\ UNCHANGED hand /\ pc'[Camera] \in {"publish", "defer"}
    <3>1. saved' = saved \cup {first} /\ pc[Camera] = "save"
      BY <2>4, <2>5 DEF Saving
    <3>2. \A i \in 1 .. Len(hand[Camera]) : hand[Camera][i] \in saved' <=> i = 1
      BY <2>3, <2>4, <3>1 DEF WalksAlong, first
    <3>3. WalksAlong'
      BY <2>1, <2>2, <2>3, <2>5, <3>1, <3>2 DEF WalksAlong, Increases
    <3>. QED
      BY <2>3, <3>3 DEF BufferInv
  <2>6. CASE /\ Saving(Camera) \/ HandingOn(Camera)
             /\ hand'[Camera] = Tail(hand[Camera]) /\ pc'[Camera] = "walk"
    <3>. DEFINE rest == hand'[Camera]
    <3>1. saved' = saved \cup {first}
      BY <2>3, <2>4, <2>6 DEF Saving, HandingOn, WalksAlong, first
    <3>2. /\ Len(rest) = Len(hand[Camera]) - 1 /\ Len(rest) \in Nat
          /\ \A i \in 1 .. Len(rest) : i + 1 \in 1 .. Len(hand[Camera]) /\ rest[i] = hand[Camera][i + 1]
      <4>1. \A s \in Seq(Nat) :
              s # <<>> =>
                /\ Len(Tail(s)) = Len(s) - 1 /\ Len(Tail(s)) \in Nat
                /\ \A i \in 1 .. Len(Tail(s)) : i + 1 \in 1 .. Len(s) /\ Tail(s)[i] = s[i + 1]
        OBVIOUS
      <4>. QED
        BY <1>1, <2>4, <2>6, <4>1
    <3>. HIDE DEF rest
    <3>3. ASSUME NEW i \in 1 .. Len(rest)
          PROVE  rest[i] <= Handled /\ rest[i] \notin saved'
      <4>1. i + 1 \in 1 .. Len(hand[Camera]) /\ i + 1 # 1 /\ rest[i] = hand[Camera][i + 1]
        BY <3>2
      <4>2. hand[Camera][i + 1] <= Handled /\ hand[Camera][i + 1] \notin saved
        BY <2>3, <4>1 DEF WalksAlong
      <4>. QED
        BY <2>4, <3>1, <4>1, <4>2
    <3>4. Increases(rest)
      <4>1. ASSUME NEW i \in 1 .. Len(rest), NEW j \in 1 .. Len(rest), i < j
            PROVE  rest[i] < rest[j]
        <5>1. i + 1 \in 1 .. Len(hand[Camera]) /\ j + 1 \in 1 .. Len(hand[Camera]) /\ i + 1 < j + 1
          BY <3>2, <4>1
        <5>2. hand[Camera][i + 1] < hand[Camera][j + 1]
          BY <2>3, <5>1 DEF WalksAlong, Increases
        <5>. QED
          BY <3>2, <5>2
      <4>. QED
        BY <4>1 DEF Increases
    <3>5. ASSUME NEW i \in 1 .. Len(buffer), buffer[i] \notin saved'
          PROVE  \E j \in 1 .. Len(rest) : buffer[i] = rest[j]
      <4>1. PICK j \in 1 .. Len(hand[Camera]) : buffer[i] = hand[Camera][j]
        BY <2>3, <3>1, <3>5 DEF WalksAlong
      <4>2. j # 1
        BY <3>1, <3>5, <4>1 DEF first
      <4>3. j - 1 \in 1 .. Len(rest) /\ (j - 1) + 1 = j
        BY <1>1, <3>2, <4>2
      <4>4. rest[j - 1] = hand[Camera][j]
        BY <3>2, <4>3
      <4>. QED
        BY <4>1, <4>3, <4>4
    <3>6. WalksAlong'
      BY <2>1, <2>2, <2>6, <3>3, <3>4, <3>5 DEF WalksAlong, rest, Increases
    <3>. QED
      BY <2>3, <3>6 DEF BufferInv
  <2>. QED
    BY <1>0, <1>10, <2>5, <2>6, SavesComesTo DEF AfterFile
<1>. QED
  BY <1>3, <1>4, <1>5, <1>6, <1>7, <1>8, <1>9, <1>10, NextCases

(* The last pictures dealt with are not forgotten.                         *)
LEMMA KeptStep ==
  TypeOK /\ PlacesInv /\ NumbersInv /\ BufferInv /\ Kept /\ Next => (undefined' = "none" => Kept')
<1>. SUFFICES ASSUME TypeOK, PlacesInv, NumbersInv, BufferInv, Kept, Next, undefined' = "none",
                     NEW p \in Pictures, p <= Handled', p > Handled' - RecordBuffer
              PROVE  p \in saved' \/ \E i \in 1 .. Len(buffer') : buffer'[i] = p
  BY DEF Kept
<1>1. /\ Taken \in Nat /\ Handled \in Int /\ buffer \in Seq(Nat) /\ Len(buffer) \in Nat
      /\ \A i \in 1 .. Len(buffer) : buffer[i] \in Nat
      /\ Len(buffer) <= RecordBuffer /\ RecordBuffer \in Nat /\ p \in Nat
  BY HandledIs, ConstantTypes DEF TypeOK, Pictures
<1>2. ASSUME Handled' = Handled, saved \subseteq saved',
             buffer' = buffer \/ \A i \in 1 .. Len(buffer) : buffer[i] \in saved
      PROVE  p \in saved' \/ \E i \in 1 .. Len(buffer') : buffer'[i] = p
  BY <1>2 DEF Kept
<1>3. CASE QuietStep \/ AddPicture \/ PrepareCurrentFolder \/ TakePicture
  <2>1. UNCHANGED <<buffer, saved>>
    BY <1>3, QuietLeaves DEF AddPicture, PrepareCurrentFolder, TakePicture, archiveVars
  <2>. QED
    BY <1>2, <1>3, <2>1, HandledStep
<1>4. CASE WalkBuffer
  <2>1. UNCHANGED saved /\ pc[Camera] = "walk" /\ Walking
    BY <1>4 DEF WalkBuffer, Walking
  <2>2. CASE hand[Camera] = <<>>
    <3>1. Len(hand[Camera]) = 0
      BY <2>2
    <3>2. \A i \in 1 .. Len(buffer) : buffer[i] \in saved
      BY <2>1, <3>1 DEF BufferInv, WalksAlong
    <3>. QED
      BY <1>2, <1>4, <2>1, <3>2, HandledStep
  <2>3. CASE hand[Camera] # <<>>
    BY <1>2, <1>4, <2>1, <2>3, HandledStep DEF WalkBuffer
  <2>. QED
    BY <2>2, <2>3
<1>5. CASE Saves(Camera)
  <2>1. UNCHANGED buffer /\ saved \subseteq saved'
    BY <1>5, SavesComesTo DEF Saving, HandingOn
  <2>. QED
    BY <1>2, <1>5, <2>1, HandledStep
<1>6. CASE Saves(Recorder)
  <2>1. UNCHANGED buffer /\ saved \subseteq saved'
    BY <1>6, SavesComesTo DEF Saving, HandingOn
  <2>2. Taken \in saved'
    BY <1>6, SavesComesTo DEF Saving, HandingOn, PlacesInv, NumbersInv
  <2>3. Handled + 1 = Taken /\ (Handled' = Handled \/ Handled' = Handled + 1)
    BY <1>6, HandledStep
  <2>4. CASE p = Taken
    BY <2>2, <2>4
  <2>5. CASE p # Taken
    <3>1. p <= Handled /\ p > Handled - RecordBuffer
      BY <1>1, <2>3, <2>5
    <3>. QED
      BY <2>1, <3>1 DEF Kept
  <2>. QED
    BY <2>4, <2>5
<1>7. CASE KeepPicture
  <2>1. Handled' = Handled + 1 /\ Handled + 1 = Taken
    BY <1>7, HandledStep
  <2>. DEFINE longer == Append(buffer, Taken)
  <2>2. /\ UNCHANGED saved
        /\ buffer' = IF Len(longer) > RecordBuffer THEN Tail(longer) ELSE longer
    <3>1. buffer \o <<Taken>> = longer
      BY <1>1
    <3>2. hand[Recorder] = <<Taken>>
      BY <1>7 DEF KeepPicture, PlacesInv
    <3>. QED
      BY <1>7, <3>1, <3>2 DEF KeepPicture
  <2>3. /\ Len(longer) = Len(buffer) + 1 /\ longer \in Seq(Nat)
        /\ \A i \in 1 .. Len(buffer) : longer[i] = buffer[i]
        /\ longer[Len(buffer) + 1] = Taken
    <3>1. \A s \in Seq(Nat), n \in Nat :
            /\ Append(s, n) \in Seq(Nat) /\ Len(Append(s, n)) = Len(s) + 1
            /\ \A i \in 1 .. Len(s) : Append(s, n)[i] = s[i]
            /\ Append(s, n)[Len(s) + 1] = n
      OBVIOUS
    <3>. QED
      BY <1>1, <3>1
  <2>. HIDE DEF longer
  <2>4. p \in saved \/ \E i \in 1 .. Len(longer) : longer[i] = p
    <3>1. CASE p = Taken
      BY <1>1, <2>3, <3>1
    <3>2. CASE p # Taken
      <4>1. p <= Handled /\ p > Handled - RecordBuffer
        BY <1>1, <2>1, <3>2
      <4>2. CASE p \in saved
        BY <4>2
      <4>3. ASSUME NEW i \in 1 .. Len(buffer), buffer[i] = p PROVE \E j \in 1 .. Len(longer) : longer[j] = p
        <5>1. i \in 1 .. Len(longer) /\ longer[i] = p
          BY <1>1, <2>3, <4>3
        <5>. QED
          BY <5>1
      <4>. QED
        BY <4>1, <4>2, <4>3 DEF Kept
    <3>. QED
      BY <3>1, <3>2
  <2>5. CASE p \in saved
    BY <2>2, <2>5
  <2>6. CASE Len(longer) <= RecordBuffer
    <3>1. buffer' = longer
      BY <1>1, <2>2, <2>3, <2>6
    <3>. QED
      BY <2>2, <2>4, <3>1
  <2>7. CASE Len(longer) > RecordBuffer /\ p \notin saved
    <3>1. PICK i \in 1 .. Len(longer) : longer[i] = p
      BY <2>4, <2>7
    <3>2. Len(buffer) = RecordBuffer
      BY <1>1, <2>3, <2>7
    <3>3. i # 1
      <4>1. CASE Len(buffer) = 0
        <5>1. p > Handled'
          BY <1>1, <2>1, <3>2, <4>1
        <5>. QED
          BY <1>1, <2>1, <5>1
      <4>2. CASE Len(buffer) # 0
        <5>1. 1 \in 1 .. Len(buffer)
          BY <1>1, <4>2
        <5>2. longer[1] = buffer[1] /\ buffer[1] <= Handled - (Len(buffer) - 1) /\ buffer[1] \in Nat
          BY <1>1, <2>3, <5>1 DEF BufferInv, BuffersOld
        <5>3. buffer[1] # p
          BY <1>1, <2>1, <3>2, <5>2
        <5>. QED
          BY <3>1, <5>2, <5>3
      <4>. QED
        BY <4>1, <4>2
    <3>4. /\ Len(buffer') = Len(longer) - 1
          /\ \A j \in 1 .. Len(buffer') : buffer'[j] = longer[j + 1]
      <4>1. longer # <<>> /\ buffer' = Tail(longer)
        BY <1>1, <2>2, <2>3, <2>7
      <4>2. \A s \in Seq(Nat) :
              s # <<>> => /\ Len(Tail(s)) = Len(s) - 1
                          /\ \A j \in 1 .. Len(Tail(s)) : Tail(s)[j] = s[j + 1]
        OBVIOUS
      <4>. QED
        BY <2>3, <4>1, <4>2
    <3>5. i - 1 \in 1 .. Len(buffer') /\ (i - 1) + 1 = i
      BY <1>1, <2>3, <3>3, <3>4
    <3>. QED
      BY <3>1, <3>4, <3>5
  <2>. QED
    BY <1>1, <2>3, <2>5, <2>6, <2>7
<1>. QED
  BY <1>3, <1>4, <1>5, <1>6, <1>7, NextCases
-----------------------------------------------------------------------------
(* The maintenance and the folder in use.                                  *)
LEMMA FoldersFinite == TypeOK => IsFiniteSet(folders) /\ Cardinality(folders) \in 0 .. LastDay
<1>. SUFFICES ASSUME TypeOK PROVE IsFiniteSet(folders) /\ Cardinality(folders) \in 0 .. LastDay
  OBVIOUS
<1>1. IsFiniteSet(1 .. LastDay) /\ Cardinality(1 .. LastDay) = LastDay
  BY FS_Interval, ConstantTypes
<1>2. folders \in SUBSET (1 .. LastDay)
  BY DEF TypeOK
<1>3. IsFiniteSet(folders) /\ Cardinality(folders) <= LastDay
  BY <1>1, <1>2, FS_Subset
<1>. QED
  BY <1>3, FS_CardinalityType, ConstantTypes

LEMMA FoldersStep ==
  TypeOK /\ PlacesInv /\ FoldersInv /\ Next => (undefined' = "none" => FoldersInv')
<1>. SUFFICES ASSUME TypeOK, PlacesInv, FoldersInv, Next, undefined' = "none"
              PROVE  FoldersInv'
  OBVIOUS
<1>. USE DistinctThreads
<1>0. /\ Camera \in Threads /\ Recorder \in Threads /\ Scheduler \in Threads
      /\ folder \in 0 .. LastDay /\ folders \subseteq 1 .. LastDay /\ today \in 1 .. LastDay
      /\ counted \in 0 .. LastDay /\ LastDay \in Nat /\ MaxDays \in Nat /\ MaxInt \in Nat
      /\ IsFiniteSet(folders) /\ Cardinality(folders) \in Nat
  BY FoldersFinite, ConstantTypes DEF Threads, TypeOK
<1>. DEFINE Leaves ==
       /\ UNCHANGED <<folder, folders, today, recording, counted>>
       /\ pc[Camera] = "folder" => pc'[Camera] = "folder"
       /\ pc'[Scheduler] = "delete" => pc[Scheduler] = "delete"
<1>1. Leaves => FoldersInv'
  BY DEF FoldersInv
<1>2. CASE AddPicture \/ EndAlarm \/ UploadFile
  <2>1. UNCHANGED <<folder, folders, today, recording, counted>>
    BY <1>2 DEF AddPicture, EndAlarm, UploadFile, archiveVars, dayVars
  <2>2. UNCHANGED pc \/ (pc[Camera] = "idle" /\ Goto(Camera, "lock"))
    BY <1>2 DEF AddPicture, EndAlarm, UploadFile, threadVars
  <2>. QED
    BY <1>0, <1>1, <2>1, <2>2, GotoMoves
<1>3. CASE StopSaving
  BY <1>3 DEF StopSaving, threadVars, dayVars, FoldersInv
<1>4. CASE StartSaving
  <2>1. pc'[Camera] = "folder" /\ pc'[Scheduler] = pc[Scheduler]
    BY <1>0, <1>4, GotoMoves DEF StartSaving
  <2>. QED
    BY <1>4, <2>1 DEF StartSaving, dayVars, FoldersInv
<1>5. CASE PrepareCurrentFolder
  <2>1. pc'[Scheduler] = pc[Scheduler] /\ folder' = today /\ folders' = folders \cup {today}
    BY <1>0, <1>5, GotoMoves DEF PrepareCurrentFolder
  <2>2. UNCHANGED <<today, counted>>
    BY <1>5 DEF PrepareCurrentFolder, dayVars
  <2>3. Cardinality(folders') \in Nat /\ Cardinality(folders) <= Cardinality(folders')
    <3>1. Cardinality(folders') = IF today \in folders THEN Cardinality(folders) ELSE Cardinality(folders) + 1
      BY <1>0, <2>1, FS_AddElement
    <3>. QED
      BY <1>0, <3>1
  <2>4. \A d \in folders' : d <= today
    BY <1>0, <2>1 DEF FoldersInv
  <2>5. folder' # 0 /\ folder' \in folders' /\ folder' <= today'
    BY <1>0, <2>1, <2>2
  <2>. QED
    BY <1>0, <2>1, <2>2, <2>3, <2>4, <2>5 DEF FoldersInv
<1>6. CASE WalkBuffer \/ TakePicture \/ KeepPicture
  <2>1. UNCHANGED <<folder, folders, today, recording, counted>>
    BY <1>6 DEF WalkBuffer, TakePicture, KeepPicture, archiveVars, dayVars
  <2>2. pc[Camera] = "folder" => pc'[Camera] = "folder"
    BY <1>0, <1>6, GotoMoves DEF WalkBuffer, TakePicture, KeepPicture
  <2>3. pc'[Scheduler] = pc[Scheduler]
    BY <1>0, <1>6, GotoMoves DEF WalkBuffer, TakePicture, KeepPicture
  <2>. QED
    BY <1>1, <2>1, <2>2, <2>3
<1>7. ASSUME NEW t \in {Camera, Recorder}, Saves(t)
      PROVE  FoldersInv'
  <2>1. UNCHANGED <<folder, folders, today, recording, counted>>
    BY <1>7 DEF Saves, SavePicture, PublishFile, DeferFile, archiveVars, dayVars
  <2>2. pc[t] # "folder" /\ \A u \in Threads \ {t} : pc'[u] = pc[u]
    BY <1>7, SavesComesTo DEF Saving, HandingOn
  <2>. QED
    BY <1>0, <1>1, <2>1, <2>2
<1>8. ASSUME NEW t \in {Camera, Scheduler}, MovesOlder(t)
      PROVE  FoldersInv'
  <2>1. UNCHANGED <<folder, folders, today, recording, counted>>
    BY <1>8 DEF MovesOlder, LockOlder, OlderRound, MoveOlder, ScheduleRetry, archiveVars, dayVars
  <2>2. pc[t] \in AtOlder /\ \E label \in {"idle", "older", "move", "again"} : Goto(t, label)
    BY <1>8 DEF MovesOlder, LockOlder, OlderRound, MoveOlder, ScheduleRetry, BeginWrite, AtOlder
  <2>. QED
    BY <1>0, <1>1, <2>1, <2>2, GotoMoves DEF AtOlder
<1>9. CASE Retry
  <2>1. pc'[Scheduler] = "lock" /\ pc'[Camera] = pc[Camera]
    BY <1>0, <1>9, GotoMoves DEF Retry
  <2>. QED
    BY <1>1, <1>9, <2>1 DEF Retry, archiveVars, dayVars
<1>10. CASE Midnight
  <2>1. today' = today + 1 /\ UNCHANGED <<folder, folders, recording, counted, pc>>
    BY <1>10 DEF Midnight, archiveVars, threadVars
  <2>2. folder <= today'
    BY <1>0, <2>1 DEF FoldersInv
  <2>. QED
    BY <2>1, <2>2 DEF FoldersInv
<1>11. CASE CountFolders
  <2>1. /\ UNCHANGED <<folder, folders, recording, today>> /\ pc'[Camera] = pc[Camera]
        /\ pc'[Scheduler] = "delete" => counted' = Cardinality(folders)
    <3>1. UNCHANGED <<folder, folders, recording, today>> /\ pc[Scheduler] = "idle"
      BY <1>11 DEF CountFolders, archiveVars
    <3>2. \/ counted' = Cardinality(folders) /\ Goto(Scheduler, "delete")
          \/ UNCHANGED pc
      BY <1>11 DEF CountFolders
    <3>. QED
      BY <1>0, <3>1, <3>2, GotoMoves
  <2>. QED
    BY <1>0, <2>1 DEF FoldersInv
<1>12. CASE DeleteFolders
  <2>. DEFINE removed == Oldest(AsInt(counted - MaxDays))
  <2>1. /\ folders' = folders \/ folders' = folders \ removed
        /\ pc[Scheduler] = "delete"
        /\ UNCHANGED <<folder, recording, today>>
    BY <1>12 DEF DeleteFolders
  <2>2. pc'[Camera] = pc[Camera] /\ pc'[Scheduler] = "idle"
    BY <1>0, <1>12, GotoMoves DEF DeleteFolders
  <2>3. ASSUME folder # 0, MaxDays \in 1 .. MaxInt PROVE folder \notin removed
    <3>1. folder \in folders /\ \A d \in folders : d <= folder
      BY <2>3 DEF FoldersInv
    <3>2. {e \in folders : e < folder} = folders \ {folder}
      <4>1. \A e \in folders : e \in Int /\ folder \in Int /\ (e < folder <=> e # folder)
        BY <1>0, <3>1
      <4>. QED
        BY <4>1
    <3>3. Cardinality(folders \ {folder}) = Cardinality(folders) - 1
      BY <1>0, <3>1, FS_RemoveElement
    <3>4. counted <= Cardinality(folders)
      BY <2>1 DEF FoldersInv
    <3>5. AsInt(counted - MaxDays) = counted - MaxDays
      BY <1>0, <2>3 DEF AsInt
    <3>6. ~(Cardinality({e \in folders : e < folder}) < counted - MaxDays)
      BY <1>0, <2>3, <3>2, <3>3, <3>4
    <3>. QED
      BY <3>5, <3>6 DEF Oldest
  <2>. HIDE DEF removed
  <2>. QED
    BY <2>1, <2>2, <2>3 DEF FoldersInv
<1>. QED
  BY <1>2, <1>3, <1>4, <1>5, <1>6, <1>7, <1>8, <1>9, <1>10, <1>11, <1>12
     DEF Next, CameraEvent, CameraStep, RecorderStep, SchedulerStep
-----------------------------------------------------------------------------
(* The lock, the one producer of the upload queue, and the retries.        *)
LEMMA LockStep ==
  TypeOK /\ PlacesInv /\ LockInv /\ Next => (undefined' = "none" => LockInv')
<1>. SUFFICES ASSUME TypeOK, PlacesInv, LockInv, Next, undefined' = "none"
              PROVE  LockInv'
  OBVIOUS
<1>. USE DistinctThreads
<1>0. /\ Camera \in Threads /\ Recorder \in Threads /\ Scheduler \in Threads
      /\ Threads = {Camera, Recorder, Scheduler}
      /\ retries \in Nat /\ MaxRetries \in Nat
      /\ HolderInv /\ OlderThere /\ OneProducer /\ RetriesInv
  BY ConstantTypes DEF Threads, TypeOK, LockInv
<1>1. /\ toUpload \in Seq(Pictures) /\ Len(toUpload) \in Nat /\ after \in Seq(Pictures)
      /\ UploadCapacity \in Nat
  BY ConstantTypes DEF TypeOK
<1>. DEFINE Moves(t) == \A u \in Threads \ {t} : pc'[u] = pc[u]
            Apart(label) == label \notin AtOlder \cup {"publish"}
<1>2. CASE AddPicture \/ StopSaving \/ Midnight
  <2>1. UNCHANGED <<pc, holder, after, toUpload, retries>>
    BY <1>2 DEF AddPicture, StopSaving, Midnight, threadVars, olderVars, uploadVars
  <2>. QED
    BY <2>1 DEF LockInv, HolderInv, OlderThere, OneProducer, RetriesInv, Trying
<1>3. CASE UploadFile
  <2>1. UNCHANGED <<pc, holder, after, retries>> /\ Len(toUpload') = Len(toUpload) - 1
    BY <1>1, <1>3 DEF UploadFile, threadVars, olderVars
  <2>2. OneProducer'
    BY <1>0, <1>1, <2>1 DEF OneProducer
  <2>. QED
    BY <1>0, <2>1, <2>2 DEF LockInv, HolderInv, OlderThere, RetriesInv, Trying
<1>4. ASSUME NEW t \in Threads, Moves(t), Apart(pc[t]), Apart(pc'[t]),
             UNCHANGED <<holder, after, toUpload, retries>>
      PROVE  LockInv'
  <2>1. HolderInv'
    BY <1>0, <1>4 DEF HolderInv, WithLock, AtOlder
  <2>2. OlderThere' /\ OneProducer'
    BY <1>0, <1>4 DEF OlderThere, OneProducer, Writing, AtOlder
  <2>3. Trying(Camera)' = Trying(Camera) /\ Trying(Scheduler)' = Trying(Scheduler)
    BY <1>0, <1>4 DEF Trying
  <2>. QED
    BY <1>0, <1>4, <2>1, <2>2, <2>3 DEF LockInv, RetriesInv
<1>5. CASE StartSaving \/ PrepareCurrentFolder \/ WalkBuffer
  <2>1. UNCHANGED <<holder, after, toUpload, retries>>
    BY <1>5 DEF StartSaving, PrepareCurrentFolder, WalkBuffer, olderVars, uploadVars
  <2>2. /\ pc[Camera] \in {"idle", "folder", "walk"}
        /\ \E label \in {"idle", "folder", "walk", "save"} : Goto(Camera, label)
    BY <1>5 DEF StartSaving, PrepareCurrentFolder, WalkBuffer
  <2>3. pc'[Camera] \in {"idle", "folder", "walk", "save"} /\ Moves(Camera)
    BY <1>0, <2>2, GotoMoves
  <2>. QED
    BY <1>0, <1>4, <2>1, <2>2, <2>3 DEF AtOlder
<1>6. CASE TakePicture \/ KeepPicture
  <2>1. UNCHANGED <<holder, after, toUpload, retries>>
    BY <1>6 DEF TakePicture, KeepPicture, olderVars, uploadVars
  <2>2. /\ pc[Recorder] \in {"idle", "keep"}
        /\ \E label \in {"idle", "keep", "save"} : Goto(Recorder, label)
    BY <1>6 DEF TakePicture, KeepPicture
  <2>3. pc'[Recorder] \in {"idle", "keep", "save"} /\ Moves(Recorder)
    BY <1>0, <2>2, GotoMoves
  <2>. QED
    BY <1>0, <1>4, <2>1, <2>2, <2>3 DEF AtOlder
<1>7. CASE CountFolders \/ DeleteFolders
  <2>1. UNCHANGED <<holder, after, toUpload, retries>>
    BY <1>7 DEF CountFolders, DeleteFolders, olderVars, uploadVars
  <2>2. /\ pc[Scheduler] \in {"idle", "delete"}
        /\ UNCHANGED pc \/ \E label \in {"idle", "delete"} : Goto(Scheduler, label)
    BY <1>7 DEF CountFolders, DeleteFolders
  <2>3. pc'[Scheduler] \in {"idle", "delete"} /\ Moves(Scheduler)
    BY <1>0, <2>2, GotoMoves
  <2>. QED
    BY <1>0, <1>4, <2>1, <2>2, <2>3 DEF AtOlder
<1>8. CASE EndAlarm
  <2>1. /\ pc[Camera] = "idle" /\ retries + (IF Retrying THEN 1 ELSE 0) < MaxRetries
        /\ UNCHANGED <<holder, after, toUpload, retries>>
    BY <1>8 DEF EndAlarm, olderVars, uploadVars
  <2>2. pc'[Camera] = "lock" /\ Moves(Camera)
    BY <1>0, <1>8, GotoMoves DEF EndAlarm
  <2>3. HolderInv' /\ OlderThere' /\ OneProducer'
    BY <1>0, <2>1, <2>2 DEF HolderInv, OlderThere, OneProducer, Writing, WithLock
  <2>4. RetriesInv'
    <3>1. Trying(Camera)' = 1 /\ Trying(Scheduler)' = Trying(Scheduler)
      BY <1>0, <2>2 DEF Trying, AtOlder
    <3>2. CASE pc[Scheduler] = "idle"
      <4>1. Trying(Scheduler) = 0 /\ retries + 0 < MaxRetries
        BY <2>1, <3>2 DEF Trying, AtOlder, Retrying
      <4>. QED
        BY <1>0, <2>1, <3>1, <4>1 DEF RetriesInv
    <3>3. CASE pc[Scheduler] # "idle"
      <4>1. Trying(Scheduler) \in {0, 1} /\ retries + 1 < MaxRetries
        BY <2>1, <3>3 DEF Trying, Retrying
      <4>. QED
        BY <1>0, <2>1, <3>1, <4>1 DEF RetriesInv
    <3>. QED
      BY <3>2, <3>3
  <2>. QED
    BY <2>3, <2>4 DEF LockInv
<1>9. CASE Retry
  <2>1. /\ pc[Scheduler] = "idle" /\ retries' = retries - 1
        /\ UNCHANGED <<holder, after, toUpload>>
    BY <1>9 DEF Retry, uploadVars
  <2>2. pc'[Scheduler] = "lock" /\ Moves(Scheduler)
    BY <1>0, <1>9, GotoMoves DEF Retry
  <2>3. HolderInv' /\ OlderThere' /\ OneProducer'
    BY <1>0, <2>1, <2>2 DEF HolderInv, OlderThere, OneProducer, Writing, WithLock
  <2>4. /\ Trying(Scheduler) = 0 /\ Trying(Scheduler)' = 1
        /\ Trying(Camera)' = Trying(Camera) /\ Trying(Camera) \in {0, 1}
    BY <1>0, <2>1, <2>2 DEF Trying, AtOlder
  <2>5. RetriesInv'
    BY <1>0, <2>1, <2>4 DEF RetriesInv
  <2>. QED
    BY <2>3, <2>5 DEF LockInv
<1>10. ASSUME NEW t \in {Camera, Recorder}, SavePicture(t)
       PROVE  LockInv'
  <2>1. UNCHANGED <<holder, after, toUpload, retries>> /\ pc[t] = "save"
    BY <1>10 DEF SavePicture, olderVars, uploadVars
  <2>2. CASE Goto(t, "publish") /\ Len(toUpload) < UploadCapacity
             /\ \A u \in Threads \ {t} : pc[u] \notin Writing
    <3>1. pc'[t] = "publish" /\ Moves(t)
      BY <1>0, <2>2, GotoMoves
    <3>2. HolderInv' /\ OlderThere'
      BY <1>0, <2>1, <3>1 DEF HolderInv, OlderThere, WithLock
    <3>3. OneProducer'
      BY <1>0, <2>1, <2>2, <3>1 DEF OneProducer, Writing
    <3>4. Trying(Camera)' = Trying(Camera) /\ Trying(Scheduler)' = Trying(Scheduler)
      BY <1>0, <2>1, <3>1 DEF Trying, AtOlder
    <3>. QED
      BY <1>0, <2>1, <3>2, <3>3, <3>4 DEF LockInv, RetriesInv
  <2>3. CASE \E label \in {"defer", "walk", "idle"} : Goto(t, label)
    <3>1. pc'[t] \in {"defer", "walk", "idle"} /\ Moves(t)
      BY <1>0, <2>3, GotoMoves
    <3>. QED
      BY <1>0, <1>4, <2>1, <3>1 DEF AtOlder
  <2>4. \/ /\ Goto(t, "publish") /\ Len(toUpload) < UploadCapacity
           /\ \A u \in Threads \ {t} : pc[u] \notin {"publish", "move"}
        \/ Goto(t, "defer") \/ Goto(t, AfterFile(t))
    BY <1>10 DEF SavePicture, BeginWrite
  <2>. QED
    BY <2>2, <2>3, <2>4 DEF Writing, AfterFile
<1>11. ASSUME NEW t \in {Camera, Recorder}, PublishFile(t)
       PROVE  LockInv'
  <2>1. UNCHANGED <<holder, after, retries>> /\ pc[t] = "publish"
    BY <1>11 DEF PublishFile, olderVars
  <2>2. pc'[t] \in {"walk", "idle"} /\ Moves(t)
    BY <1>0, <1>11, GotoMoves DEF PublishFile, AfterFile
  <2>3. HolderInv' /\ OlderThere'
    BY <1>0, <2>1, <2>2 DEF HolderInv, OlderThere, WithLock
  <2>4. \A u \in Threads : pc'[u] \notin Writing
    BY <1>0, <2>1, <2>2 DEF OneProducer, Writing
  <2>5. Trying(Camera)' = Trying(Camera) /\ Trying(Scheduler)' = Trying(Scheduler)
    BY <1>0, <2>1, <2>2 DEF Trying, AtOlder
  <2>. QED
    BY <1>0, <2>1, <2>3, <2>4, <2>5 DEF LockInv, OneProducer, RetriesInv
<1>12. ASSUME NEW t \in {Camera, Recorder}, DeferFile(t)
       PROVE  LockInv'
  <2>1. UNCHANGED <<holder, toUpload, retries>> /\ pc[t] = "defer" /\ holder = Nobody
    BY <1>12 DEF DeferFile, uploadVars
  <2>2. pc'[t] \in {"walk", "idle"} /\ Moves(t)
    BY <1>0, <1>12, GotoMoves DEF DeferFile, AfterFile
  <2>3. HolderInv' /\ OneProducer'
    BY <1>0, <2>1, <2>2 DEF HolderInv, OneProducer, Writing, WithLock
  <2>4. \A u \in Threads : pc'[u] # "move"
    BY <1>0, <2>1, <2>2 DEF HolderInv, WithLock
  <2>5. Trying(Camera)' = Trying(Camera) /\ Trying(Scheduler)' = Trying(Scheduler)
    BY <1>0, <2>1, <2>2 DEF Trying, AtOlder
  <2>. QED
    BY <1>0, <2>1, <2>3, <2>4, <2>5 DEF LockInv, OlderThere, RetriesInv
<1>13. ASSUME NEW t \in {Camera, Scheduler}, MovesOlder(t)
       PROVE  LockInv'
  <2>0. t \in Threads /\ Trying(Camera) \in {0, 1} /\ Trying(Scheduler) \in {0, 1}
    BY <1>0 DEF Trying
  <2>1. CASE LockOlder(t)
    <3>1. UNCHANGED <<after, toUpload, retries>> /\ holder = Nobody /\ pc[t] = "lock"
      BY <2>1 DEF LockOlder, uploadVars
    <3>2. /\ \/ pc'[t] = "idle" /\ holder' = holder
             \/ pc'[t] = "older" /\ holder' = t
          /\ Moves(t)
      BY <2>0, <2>1, GotoMoves DEF LockOlder
    <3>3. HolderInv'
      BY <1>0, <2>0, <3>1, <3>2 DEF HolderInv, WithLock
    <3>4. OlderThere' /\ OneProducer'
      BY <1>0, <2>0, <3>1, <3>2 DEF OlderThere, OneProducer, Writing
    <3>5. /\ Trying(Camera)' \in {0, Trying(Camera)} /\ Trying(Scheduler)' \in {0, Trying(Scheduler)}
      BY <1>0, <2>0, <3>1, <3>2 DEF Trying, AtOlder
    <3>. QED
      BY <1>0, <2>0, <3>1, <3>3, <3>4, <3>5 DEF LockInv, RetriesInv
  <2>2. CASE OlderRound(t)
    <3>1. UNCHANGED <<after, toUpload, retries>> /\ pc[t] = "older"
      BY <2>2 DEF OlderRound, uploadVars
    <3>2. holder = t
      BY <2>0, <3>1, <1>0 DEF HolderInv, WithLock
    <3>3. /\ \/ pc'[t] = "idle" /\ holder' = Nobody
             \/ pc'[t] = "again" /\ holder' = holder
             \/ /\ pc'[t] = "move" /\ holder' = holder /\ after # <<>>
                /\ Len(toUpload) < UploadCapacity
                /\ \A u \in Threads \ {t} : pc[u] \notin Writing
          /\ Moves(t)
      <4>1. \/ Goto(t, "idle") /\ holder' = Nobody
            \/ Goto(t, "again") /\ holder' = holder
            \/ /\ Goto(t, "move") /\ holder' = holder /\ after # <<>>
               /\ Len(toUpload) < UploadCapacity
               /\ \A u \in Threads \ {t} : pc[u] \notin {"publish", "move"}
        BY <2>2 DEF OlderRound, BeginWrite
      <4>. QED
        BY <2>0, <4>1, GotoMoves DEF Writing
    <3>4. HolderInv'
      BY <1>0, <2>0, <3>1, <3>2, <3>3 DEF HolderInv, WithLock
    <3>5. OlderThere'
      BY <1>0, <2>0, <3>1, <3>3 DEF OlderThere
    <3>6. OneProducer'
      BY <1>0, <2>0, <3>1, <3>3 DEF OneProducer, Writing
    <3>7. /\ Trying(Camera)' \in {0, Trying(Camera)} /\ Trying(Scheduler)' \in {0, Trying(Scheduler)}
      BY <1>0, <2>0, <3>1, <3>3 DEF Trying, AtOlder
    <3>. QED
      BY <1>0, <2>0, <3>1, <3>4, <3>5, <3>6, <3>7 DEF LockInv, RetriesInv
  <2>3. CASE MoveOlder(t)
    <3>1. UNCHANGED <<holder, retries>> /\ pc[t] = "move"
      BY <2>3 DEF MoveOlder
    <3>2. pc'[t] = "older" /\ Moves(t)
      BY <2>0, <2>3, GotoMoves DEF MoveOlder
    <3>3. HolderInv'
      BY <1>0, <2>0, <3>1, <3>2 DEF HolderInv, WithLock
    <3>4. \A u \in Threads : pc'[u] \notin Writing
      BY <1>0, <2>0, <3>1, <3>2 DEF OneProducer, Writing
    <3>5. Trying(Camera)' = Trying(Camera) /\ Trying(Scheduler)' = Trying(Scheduler)
      BY <1>0, <2>0, <3>1, <3>2 DEF Trying, AtOlder
    <3>. QED
      BY <1>0, <3>1, <3>3, <3>4, <3>5 DEF LockInv, OlderThere, OneProducer, RetriesInv, Writing
  <2>4. CASE ScheduleRetry(t)
    <3>1. /\ UNCHANGED <<after, toUpload>> /\ retries' = retries + 1 /\ holder' = Nobody
          /\ pc[t] = "again"
      BY <2>4 DEF ScheduleRetry, uploadVars
    <3>2. pc'[t] = "idle" /\ Moves(t)
      BY <2>0, <2>4, GotoMoves DEF ScheduleRetry
    <3>3. holder = t
      BY <2>0, <3>1, <1>0 DEF HolderInv, WithLock
    <3>4. HolderInv'
      BY <1>0, <2>0, <3>1, <3>2, <3>3 DEF HolderInv, WithLock
    <3>5. OlderThere' /\ OneProducer'
      BY <1>0, <2>0, <3>1, <3>2 DEF OlderThere, OneProducer, Writing
    <3>6. /\ Trying(t) = 1 /\ Trying(t)' = 0
          /\ \A u \in Threads \ {t} : Trying(u)' = Trying(u)
      BY <1>0, <2>0, <3>1, <3>2 DEF Trying, AtOlder
    <3>7. RetriesInv'
      BY <1>0, <2>0, <3>1, <3>6 DEF RetriesInv
    <3>. QED
      BY <3>4, <3>5, <3>7 DEF LockInv
  <2>. QED
    BY <1>13, <2>1, <2>2, <2>3, <2>4 DEF MovesOlder
<1>. QED
  BY <1>2, <1>3, <1>5, <1>6, <1>7, <1>8, <1>9, <1>10, <1>11, <1>12, <1>13
     DEF Next, CameraEvent, CameraStep, RecorderStep, SchedulerStep, Saves
-----------------------------------------------------------------------------
(* Where the files are.                                                    *)
AtHand(p) == {t \in Threads : pc[t] \in {"publish", "defer"} /\ Head(hand[t]) = p}

LEMMA AtHandFinite == \A p : IsFiniteSet(AtHand(p)) /\ Cardinality(AtHand(p)) \in Nat
<1>. SUFFICES ASSUME NEW p PROVE IsFiniteSet(AtHand(p)) /\ Cardinality(AtHand(p)) \in Nat
  OBVIOUS
<1>1. IsFiniteSet(Threads)
  <2>1. Threads = ({Camera} \cup {Recorder}) \cup {Scheduler}
    BY DEF Threads
  <2>. QED
    BY <2>1, FS_Singleton, FS_AddElement
<1>2. AtHand(p) \in SUBSET Threads
  BY DEF AtHand
<1>. QED
  BY <1>1, <1>2, FS_Subset, FS_CardinalityType

LEMMA OnceStep ==
  TypeOK /\ PlacesInv /\ LockInv /\ NumbersInv /\ BufferInv /\ EachFileOnce
  /\ Next /\ undefined = "none" /\ undefined' = "none"
  => EachFileOnce'
<1>. SUFFICES ASSUME TypeOK, PlacesInv, LockInv, NumbersInv, BufferInv, EachFileOnce, Next,
                     undefined = "none", undefined' = "none", NEW p \in Pictures
              PROVE  OnItsWay(p)' = IF good' /\ p \in saved' THEN 1 ELSE 0
  BY DEF EachFileOnce
<1>. USE DistinctThreads
<1>0. /\ Camera \in Threads /\ Recorder \in Threads /\ Scheduler \in Threads
      /\ Threads = {Camera, Recorder, Scheduler}
      /\ toUpload \in Seq(Pictures) /\ after \in Seq(Pictures)
      /\ tried \in [Pictures -> Nat] /\ hand \in [Threads -> Seq(Pictures)]
  BY DEF Threads, TypeOK
<1>1. /\ CountOf(p, toUpload) \in Nat /\ CountOf(p, after) \in Nat /\ tried[p] \in Nat
      /\ IsFiniteSet(AtHand(p)) /\ Cardinality(AtHand(p)) \in Nat
  BY <1>0, CountType, AtHandFinite
<1>. DEFINE Grows == \A s \in Seq(Pictures), e \in Pictures :
                      CountOf(p, Append(s, e)) = CountOf(p, s) + In(p, {e})
            Shrinks == \A s \in Seq(Pictures) : s # <<>> =>
                         CountOf(p, s) = CountOf(p, Tail(s)) + In(p, {Head(s)})
<1>15. Grows
  BY CountAppend
<1>16. Shrinks
  BY CountTail
<1>2. /\ OnItsWay(p) = CountOf(p, toUpload) + CountOf(p, after) + tried[p] + Cardinality(AtHand(p))
      /\ OnItsWay(p)' =
           CountOf(p, toUpload') + CountOf(p, after') + tried'[p] + Cardinality(AtHand(p)')
      /\ OnItsWay(p) = IF good /\ p \in saved THEN 1 ELSE 0
  BY DEF OnItsWay, AtHand, EachFileOnce, CountOf
<1>3. ASSUME UNCHANGED <<toUpload, after, tried, good, saved>>, AtHand(p)' = AtHand(p)
      PROVE  OnItsWay(p)' = IF good' /\ p \in saved' THEN 1 ELSE 0
  BY <1>2, <1>3
<1>4. ASSUME NEW t \in Threads, pc[t] \notin {"publish", "defer"}, pc'[t] \notin {"publish", "defer"},
             \A u \in Threads \ {t} : pc'[u] = pc[u] /\ hand'[u] = hand[u]
      PROVE  AtHand(p)' = AtHand(p)
  BY <1>4 DEF AtHand
<1>5. CASE AddPicture \/ StopSaving \/ Midnight
  <2>1. UNCHANGED <<toUpload, after, tried, good, saved, pc, hand>>
    BY <1>5 DEF AddPicture, StopSaving, Midnight, uploadVars, olderVars, threadVars
  <2>. QED
    BY <1>3, <2>1 DEF AtHand
<1>6. CASE EndAlarm \/ StartSaving \/ PrepareCurrentFolder \/ WalkBuffer
  <2>1. UNCHANGED <<toUpload, after, tried, good, saved>>
    BY <1>6 DEF EndAlarm, StartSaving, PrepareCurrentFolder, WalkBuffer, uploadVars, olderVars
  <2>2. /\ pc[Camera] \in {"idle", "folder", "walk"}
        /\ \E label \in {"lock", "folder", "walk", "idle", "save"} : Goto(Camera, label)
        /\ \A u \in Threads \ {Camera} : hand'[u] = hand[u]
    BY <1>0, <1>6 DEF EndAlarm, StartSaving, PrepareCurrentFolder, WalkBuffer
  <2>. QED
    BY <1>0, <1>3, <1>4, <2>1, <2>2, GotoMoves
<1>7. CASE TakePicture \/ KeepPicture
  <2>1. UNCHANGED <<toUpload, after, tried, good, saved>>
    BY <1>7 DEF TakePicture, KeepPicture, uploadVars, olderVars
  <2>2. /\ pc[Recorder] \in {"idle", "keep"}
        /\ \E label \in {"keep", "idle", "save"} : Goto(Recorder, label)
        /\ \A u \in Threads \ {Recorder} : hand'[u] = hand[u]
    BY <1>0, <1>7 DEF TakePicture, KeepPicture
  <2>. QED
    BY <1>0, <1>3, <1>4, <2>1, <2>2, GotoMoves
<1>8. CASE Retry \/ CountFolders \/ DeleteFolders
  <2>1. UNCHANGED <<toUpload, after, tried, good, saved, hand>>
    BY <1>8 DEF Retry, CountFolders, DeleteFolders, uploadVars, olderVars
  <2>2. /\ pc[Scheduler] \in {"idle", "delete"}
        /\ UNCHANGED pc \/ \E label \in {"lock", "delete", "idle"} : Goto(Scheduler, label)
    BY <1>8 DEF Retry, CountFolders, DeleteFolders
  <2>3. AtHand(p)' = AtHand(p)
    BY <1>0, <1>4, <2>1, <2>2, GotoMoves
  <2>. QED
    BY <1>3, <2>1, <2>3
<1>9. ASSUME NEW t \in {Camera, Scheduler}, MovesOlder(t), ~MoveOlder(t)
      PROVE  OnItsWay(p)' = IF good' /\ p \in saved' THEN 1 ELSE 0
  <2>1. UNCHANGED <<toUpload, after, tried, good, saved, hand>>
    BY <1>9 DEF MovesOlder, LockOlder, OlderRound, ScheduleRetry, uploadVars
  <2>2. /\ pc[t] \in {"lock", "older", "again"}
        /\ \E label \in {"idle", "older", "move", "again"} : Goto(t, label)
    BY <1>9 DEF MovesOlder, LockOlder, OlderRound, ScheduleRetry, BeginWrite
  <2>3. AtHand(p)' = AtHand(p)
    BY <1>0, <1>4, <2>1, <2>2, GotoMoves
  <2>. QED
    BY <1>3, <2>1, <2>3
<1>10. ASSUME NEW t \in {Camera, Scheduler}, MoveOlder(t)
       PROVE  OnItsWay(p)' = IF good' /\ p \in saved' THEN 1 ELSE 0
  <2>1. /\ toUpload' = Append(toUpload, Head(after)) /\ after' = Tail(after)
        /\ UNCHANGED <<tried, good, saved, hand>> /\ Goto(t, "older") /\ pc[t] = "move"
    BY <1>10 DEF MoveOlder
  <2>2. after # <<>> /\ Head(after) \in Pictures /\ t \in Threads
    <3>1. after # <<>> /\ t \in Threads
      BY <1>0, <2>1 DEF LockInv, OlderThere
    <3>. QED
      BY <1>0, <3>1
  <2>3. AtHand(p)' = AtHand(p)
    BY <1>4, <2>1, <2>2, GotoMoves
  <2>4. CountOf(p, toUpload') = CountOf(p, toUpload) + In(p, {Head(after)})
    BY <1>0, <1>15, <2>1, <2>2
  <2>5. CountOf(p, after) = CountOf(p, after') + In(p, {Head(after)})
    BY <1>0, <1>16, <2>1, <2>2
  <2>6. CountOf(p, after') \in Nat /\ In(p, {Head(after)}) \in Nat
    <3>1. after' \in Seq(Pictures)
      BY <1>0, <2>1, <2>2
    <3>. QED
      BY <3>1, CountType DEF In
  <2>. QED
    BY <1>1, <1>2, <2>1, <2>3, <2>4, <2>5, <2>6
<1>11. CASE UploadFile
  <2>1. /\ toUpload # <<>> /\ toUpload' = Tail(toUpload)
        /\ tried' = [tried EXCEPT ![Head(toUpload)] = @ + 1]
        /\ UNCHANGED <<after, good, saved, pc, hand>>
    BY <1>11 DEF UploadFile, olderVars, threadVars
  <2>2. AtHand(p)' = AtHand(p)
    BY <2>1 DEF AtHand
  <2>3. CountOf(p, toUpload) = CountOf(p, toUpload') + In(p, {Head(toUpload)})
    BY <1>0, <1>16, <2>1
  <2>4. tried'[p] = tried[p] + In(p, {Head(toUpload)})
    <3>1. Head(toUpload) \in Pictures
      BY <1>0, <2>1
    <3>. QED
      BY <1>0, <1>1, <2>1, <3>1 DEF In
  <2>5. CountOf(p, toUpload') \in Nat /\ In(p, {Head(toUpload)}) \in Nat
    <3>1. toUpload' \in Seq(Pictures)
      BY <1>0, <2>1
    <3>. QED
      BY <3>1, CountType DEF In
  <2>6. OnItsWay(p)' = OnItsWay(p)
    BY <1>1, <1>2, <2>1, <2>2, <2>3, <2>4, <2>5
  <2>. QED
    BY <1>2, <2>1, <2>6
<1>12. ASSUME NEW t \in {Camera, Recorder}, Saves(t)
       PROVE  t \in Threads /\ hand[t] # <<>> /\ Head(hand[t]) \in Pictures
  <2>1. t \in Threads /\ pc[t] \in AtFile
    BY <1>0, <1>12, SavesComesTo DEF Saving, HandingOn, AtFile, Saves, SavePicture
  <2>2. hand[t] # <<>>
    <3>1. <<Taken>> # <<>>
      OBVIOUS
    <3>. QED
      BY <1>12, <2>1, <3>1 DEF PlacesInv, AtFile
  <2>3. hand[t] \in Seq(Pictures)
    BY <1>0, <2>1
  <2>. QED
    BY <2>1, <2>2, <2>3
<1>13. ASSUME NEW t \in {Camera, Recorder}, SavePicture(t)
       PROVE  OnItsWay(p)' = IF good' /\ p \in saved' THEN 1 ELSE 0
  <2>. DEFINE file == Head(hand[t])
  <2>0. Saves(t) /\ t \in Threads /\ hand[t] # <<>> /\ file \in Pictures
    BY <1>12, <1>13 DEF Saves
  <2>1. /\ UNCHANGED <<toUpload, after, tried, good>> /\ pc[t] = "save"
        /\ saved' = saved \cup {file}
    BY <1>13 DEF SavePicture, uploadVars, olderVars
  <2>2. /\ \A u \in Threads \ {t} : pc'[u] = pc[u]
        /\ \/ UNCHANGED hand /\ pc'[t] \in {"publish", "defer"} /\ good
           \/ ~good /\ hand' = [hand EXCEPT ![t] = Tail(@)] /\ pc'[t] = AfterFile(t)
    BY <2>0, <2>1, SavesComesTo DEF HandingOn
  <2>3. CASE ~good
    <3>1. /\ pc'[t] \notin {"publish", "defer"} /\ pc[t] \notin {"publish", "defer"}
          /\ \A u \in Threads \ {t} : hand'[u] = hand[u]
      BY <1>0, <2>0, <2>1, <2>2, <2>3 DEF AfterFile
    <3>2. AtHand(p)' = AtHand(p)
      BY <1>4, <2>0, <2>2, <3>1
    <3>. QED
      BY <1>2, <2>1, <2>3, <3>2
  <2>4. CASE good
    <3>1. file \notin saved
      <4>1. CASE t = Recorder
        <5>1. file = Taken
          BY <2>1, <4>1 DEF PlacesInv
        <5>. QED
          BY <2>1, <4>1, <5>1 DEF NumbersInv
      <4>2. CASE t = Camera
        <5>1. hand[Camera] \in Seq(Pictures) /\ hand[Camera] # <<>>
          BY <1>0, <2>0, <4>2
        <5>2. 1 \in 1 .. Len(hand[Camera]) /\ file = hand[Camera][1]
          BY <4>2, <5>1
        <5>3. WalksAlong
          BY <2>1, <4>2 DEF BufferInv, Walking, AtFile
        <5>. QED
          BY <2>1, <4>2, <5>2, <5>3 DEF WalksAlong
      <4>. QED
        BY <4>1, <4>2
    <3>2. t \notin AtHand(p)
      BY <2>1 DEF AtHand
    <3>3. AtHand(p)' = IF p \in {file} THEN AtHand(p) \cup {t} ELSE AtHand(p)
      BY <2>0, <2>1, <2>2, <2>4 DEF AtHand
    <3>4. Cardinality(AtHand(p)') = Cardinality(AtHand(p)) + In(p, {file})
      <4>1. IsFiniteSet(AtHand(p))
        BY <1>1
      <4>. HIDE DEF file
      <4>. QED
        BY <3>2, <3>3, <4>1, CountIf
    <3>5. CASE p = file
      BY <1>1, <1>2, <2>1, <2>4, <3>1, <3>4, <3>5 DEF In
    <3>6. CASE p # file
      BY <1>1, <1>2, <2>1, <2>4, <3>1, <3>4, <3>6 DEF In
    <3>. QED
      BY <3>5, <3>6
  <2>. QED
    BY <2>3, <2>4
<1>14. ASSUME NEW t \in {Camera, Recorder}, PublishFile(t) \/ DeferFile(t)
       PROVE  OnItsWay(p)' = IF good' /\ p \in saved' THEN 1 ELSE 0
  <2>. DEFINE file == Head(hand[t])
  <2>0. Saves(t) /\ t \in Threads /\ hand[t] # <<>> /\ file \in Pictures
    BY <1>12, <1>14 DEF Saves
  <2>1. /\ UNCHANGED <<tried, good, saved>> /\ pc[t] \in {"publish", "defer"}
        /\ hand' = [hand EXCEPT ![t] = Tail(@)] /\ Goto(t, AfterFile(t))
    BY <1>14 DEF PublishFile, DeferFile, uploadVars
  <2>2. /\ pc'[t] \notin {"publish", "defer"}
        /\ \A u \in Threads \ {t} : pc'[u] = pc[u] /\ hand'[u] = hand[u]
    BY <1>0, <2>0, <2>1, GotoMoves DEF AfterFile
  <2>3. t \notin AtHand(p)' /\ AtHand(p) = IF p \in {file} THEN AtHand(p)' \cup {t} ELSE AtHand(p)'
    BY <2>0, <2>1, <2>2 DEF AtHand
  <2>4. IsFiniteSet(AtHand(p)') /\ Cardinality(AtHand(p)') \in Nat
    <3>1. AtHand(p)' \in SUBSET AtHand(p)
      BY <2>3
    <3>. QED
      BY <1>1, <3>1, FS_Subset, FS_CardinalityType
  <2>5. Cardinality(AtHand(p)) = Cardinality(AtHand(p)') + In(p, {file})
    BY <2>3, <2>4, CountIf
  <2>6. /\ In(p, {file}) \in Nat
        /\ CountOf(p, toUpload') + CountOf(p, after')
             = CountOf(p, toUpload) + CountOf(p, after) + In(p, {file})
    <3>1. In(p, {file}) \in Nat
      BY DEF In
    <3>2. CASE PublishFile(t)
      <4>1. toUpload' = Append(toUpload, file) /\ after' = after
        BY <3>2 DEF PublishFile, olderVars
      <4>2. CountOf(p, toUpload') = CountOf(p, toUpload) + In(p, {file})
        BY <1>0, <1>15, <2>0, <4>1
      <4>. QED
        BY <1>1, <3>1, <4>1, <4>2
    <3>3. CASE DeferFile(t)
      <4>1. after' = Append(after, file) /\ toUpload' = toUpload
        BY <3>3 DEF DeferFile, uploadVars
      <4>2. CountOf(p, after') = CountOf(p, after) + In(p, {file})
        BY <1>0, <1>15, <2>0, <4>1
      <4>. QED
        BY <1>1, <3>1, <4>1, <4>2
    <3>. QED
      BY <1>14, <3>2, <3>3
  <2>7. OnItsWay(p)' = OnItsWay(p)
    BY <1>1, <1>2, <2>1, <2>4, <2>5, <2>6
  <2>. QED
    BY <1>2, <2>1, <2>7
<1>. QED
  BY <1>5, <1>6, <1>7, <1>8, <1>9, <1>10, <1>11, <1>13, <1>14
     DEF Next, CameraEvent, CameraStep, RecorderStep, SchedulerStep, Saves
-----------------------------------------------------------------------------
(* Types: which actions change a variable, and to what.                    *)
OlderSteps == MovesOlder(Camera) \/ MovesOlder(Scheduler)
SaveSteps == Saves(Camera) \/ Saves(Recorder)

LEMMA StepCases ==
  Next => \/ AddPicture \/ StopSaving \/ EndAlarm \/ StartSaving
          \/ PrepareCurrentFolder \/ WalkBuffer \/ TakePicture \/ KeepPicture
          \/ Retry \/ CountFolders \/ DeleteFolders \/ UploadFile \/ Midnight
          \/ SaveSteps \/ OlderSteps
BY DEF Next, CameraEvent, CameraStep, RecorderStep, SchedulerStep, SaveSteps, OlderSteps

LEMMA SaveStepsLeave ==
  SaveSteps => UNCHANGED <<pictures, toRecord, alarm, good, archiveVars, dayVars, tried, holder, retries>>
BY DEF SaveSteps, Saves, SavePicture, PublishFile, DeferFile, cameraVars, olderVars, uploadVars

LEMMA OlderStepsLeave ==
  OlderSteps => UNCHANGED <<pictures, toRecord, alarm, good, archiveVars, dayVars, tried, hand, saved>>
BY DEF OlderSteps, MovesOlder, LockOlder, OlderRound, MoveOlder, ScheduleRetry, cameraVars, uploadVars

LEMMA PictureTypes ==
  TypeOK /\ Next =>
    /\ pictures' \in 0 .. MaxPictures
    /\ toRecord' \in Seq(Pictures) /\ Len(toRecord') <= RecordCapacity
<1>. SUFFICES ASSUME TypeOK, Next
              PROVE  /\ pictures' \in 0 .. MaxPictures
                     /\ toRecord' \in Seq(Pictures) /\ Len(toRecord') <= RecordCapacity
  OBVIOUS
<1>1. /\ pictures \in 0 .. MaxPictures /\ MaxPictures \in Nat /\ RecordCapacity \in Nat
      /\ toRecord \in Seq(Pictures) /\ Len(toRecord) <= RecordCapacity
  BY ConstantTypes DEF TypeOK
<1>2. CASE AddPicture
  <2>1. pictures' = pictures + 1 /\ pictures < MaxPictures /\ Len(toRecord) < RecordCapacity
        /\ toRecord' = Append(toRecord, pictures + 1)
    BY <1>2 DEF AddPicture
  <2>2. pictures + 1 \in Pictures
    BY <1>1, <2>1 DEF Pictures
  <2>. QED
    BY <1>1, <2>1, <2>2
<1>3. CASE TakePicture
  <2>1. UNCHANGED pictures /\ toRecord # <<>> /\ toRecord' = Tail(toRecord)
    BY <1>3 DEF TakePicture, cameraVars
  <2>. QED
    BY <1>1, <2>1
<1>4. CASE UNCHANGED <<pictures, toRecord>>
  BY <1>1, <1>4
<1>5. AddPicture \/ TakePicture \/ UNCHANGED <<pictures, toRecord>>
  BY StepCases, SaveStepsLeave, OlderStepsLeave
     DEF StopSaving, EndAlarm, StartSaving, PrepareCurrentFolder, WalkBuffer, KeepPicture,
         Retry, CountFolders, DeleteFolders, UploadFile, Midnight, cameraVars
<1>. QED
  BY <1>2, <1>3, <1>4, <1>5

LEMMA ArchiveTypes ==
  TypeOK /\ PlacesInv /\ Next =>
    /\ alarm' \in {"NO_ALARM", "ALARM", "NO_MOTION"}
    /\ good' \in BOOLEAN /\ recording' \in BOOLEAN
    /\ folder' \in 0 .. LastDay /\ folders' \subseteq 1 .. LastDay
    /\ buffer' \in Seq(Pictures) /\ Len(buffer') <= RecordBuffer
<1>. SUFFICES ASSUME TypeOK, PlacesInv, Next
              PROVE  /\ alarm' \in {"NO_ALARM", "ALARM", "NO_MOTION"}
                     /\ good' \in BOOLEAN /\ recording' \in BOOLEAN
                     /\ folder' \in 0 .. LastDay /\ folders' \subseteq 1 .. LastDay
                     /\ buffer' \in Seq(Pictures) /\ Len(buffer') <= RecordBuffer
  OBVIOUS
<1>1. /\ alarm \in {"NO_ALARM", "ALARM", "NO_MOTION"}
      /\ good \in BOOLEAN /\ recording \in BOOLEAN
      /\ folder \in 0 .. LastDay /\ folders \subseteq 1 .. LastDay
      /\ today \in 1 .. LastDay /\ LastDay \in Nat
  BY ConstantTypes DEF TypeOK
<1>2. alarm' \in {"NO_ALARM", "ALARM", "NO_MOTION"} /\ good' \in BOOLEAN
  BY <1>1, StepCases, SaveStepsLeave, OlderStepsLeave
     DEF AddPicture, StopSaving, EndAlarm, StartSaving, PrepareCurrentFolder, WalkBuffer, TakePicture,
         KeepPicture, Retry, CountFolders, DeleteFolders, UploadFile, Midnight, cameraVars
<1>3. recording' \in BOOLEAN /\ folder' \in 0 .. LastDay /\ folders' \subseteq 1 .. LastDay
  <2>1. CASE StopSaving \/ StartSaving
    BY <1>1, <2>1 DEF StopSaving, StartSaving
  <2>2. CASE PrepareCurrentFolder
    BY <1>1, <2>2 DEF PrepareCurrentFolder
  <2>3. CASE DeleteFolders
    BY <1>1, <2>3 DEF DeleteFolders
  <2>4. CASE UNCHANGED <<recording, folder, folders>>
    BY <1>1, <2>4
  <2>5. StopSaving \/ StartSaving \/ PrepareCurrentFolder \/ DeleteFolders
        \/ UNCHANGED <<recording, folder, folders>>
    BY StepCases, SaveStepsLeave, OlderStepsLeave
       DEF AddPicture, EndAlarm, WalkBuffer, TakePicture, KeepPicture,
           Retry, CountFolders, UploadFile, Midnight, archiveVars
  <2>. QED
    BY <2>1, <2>2, <2>3, <2>4, <2>5
<1>4. buffer' \in Seq(Pictures) /\ Len(buffer') <= RecordBuffer
  <2>1. /\ buffer \in Seq(Pictures) /\ Len(buffer) <= RecordBuffer /\ RecordBuffer \in Nat
        /\ hand \in [Threads -> Seq(Pictures)]
    BY ConstantTypes DEF TypeOK
  <2>2. CASE WalkBuffer
    <3>1. buffer' = <<>> \/ buffer' = buffer
      BY <2>2 DEF WalkBuffer
    <3>2. ASSUME buffer' = <<>> PROVE buffer' \in Seq(Pictures) /\ Len(buffer') = 0
      BY <3>2
    <3>. QED
      BY <2>1, <3>1, <3>2
  <2>3. CASE KeepPicture
    <3>. DEFINE longer == buffer \o hand[Recorder]
    <3>1. /\ buffer' = IF Len(longer) > RecordBuffer THEN Tail(longer) ELSE longer
          /\ hand[Recorder] = <<Taken>>
      BY <2>3 DEF KeepPicture, PlacesInv
    <3>2. hand[Recorder] \in Seq(Pictures) /\ Len(hand[Recorder]) = 1
      BY <2>1, <3>1 DEF Threads
    <3>3. longer \in Seq(Pictures) /\ Len(longer) = Len(buffer) + 1 /\ longer # <<>>
      <4>1. Taken \in Pictures
        BY <3>1, <3>2
      <4>2. longer = Append(buffer, Taken)
        BY <2>1, <3>1, <4>1
      <4>3. longer \in Seq(Pictures) /\ Len(longer) = Len(buffer) + 1
        BY <2>1, <4>1, <4>2
      <4>4. Len(longer) # 0
        BY <2>1, <4>3
      <4>. QED
        BY <4>3, <4>4
    <3>. HIDE DEF longer
    <3>4. Tail(longer) \in Seq(Pictures) /\ Len(Tail(longer)) = Len(buffer)
      BY <2>1, <3>3
    <3>5. CASE Len(longer) > RecordBuffer
      BY <2>1, <3>1, <3>4, <3>5
    <3>6. CASE ~(Len(longer) > RecordBuffer)
      BY <2>1, <3>1, <3>3, <3>6
    <3>. QED
      BY <3>5, <3>6
  <2>4. CASE UNCHANGED buffer
    BY <2>1, <2>4
  <2>5. WalkBuffer \/ KeepPicture \/ UNCHANGED buffer
    BY StepCases, SaveStepsLeave, OlderStepsLeave
       DEF AddPicture, StopSaving, EndAlarm, StartSaving, PrepareCurrentFolder, TakePicture,
           Retry, CountFolders, DeleteFolders, UploadFile, Midnight, archiveVars
  <2>. QED
    BY <2>2, <2>3, <2>4, <2>5
<1>. QED
  BY <1>2, <1>3, <1>4

LEMMA UploadTypes ==
  TypeOK /\ PlacesInv /\ LockInv /\ Next =>
    /\ toUpload' \in Seq(Pictures) /\ Len(toUpload') <= UploadCapacity
    /\ after' \in Seq(Pictures)
    /\ tried' \in [Pictures -> Nat] /\ saved' \subseteq Pictures
<1>. SUFFICES ASSUME TypeOK, PlacesInv, LockInv, Next
              PROVE  /\ toUpload' \in Seq(Pictures) /\ Len(toUpload') <= UploadCapacity
                     /\ after' \in Seq(Pictures)
                     /\ tried' \in [Pictures -> Nat] /\ saved' \subseteq Pictures
  OBVIOUS
<1>1. /\ toUpload \in Seq(Pictures) /\ Len(toUpload) <= UploadCapacity
      /\ after \in Seq(Pictures) /\ UploadCapacity \in Nat
      /\ tried \in [Pictures -> Nat] /\ saved \subseteq Pictures
      /\ hand \in [Threads -> Seq(Pictures)] /\ OneProducer /\ OlderThere
      /\ {Camera, Recorder, Scheduler} \subseteq Threads
  BY ConstantTypes DEF TypeOK, LockInv, Threads
<1>2. ASSUME NEW t \in {Camera, Recorder}, pc[t] \in AtFile
      PROVE  t \in Threads /\ Head(hand[t]) \in Pictures
  <2>1. t \in Threads /\ hand[t] \in Seq(Pictures)
    BY <1>1
  <2>2. <<Taken>> # <<>>
    OBVIOUS
  <2>3. hand[t] # <<>>
    BY <1>2, <2>2 DEF PlacesInv, AtFile
  <2>. QED
    BY <2>1, <2>3
<1>3. CASE UNCHANGED <<toUpload, after, tried, saved>>
  BY <1>1, <1>3
<1>4. CASE UploadFile
  <2>1. /\ toUpload # <<>> /\ toUpload' = Tail(toUpload) /\ UNCHANGED <<after, saved>>
        /\ tried' = [tried EXCEPT ![Head(toUpload)] = @ + 1]
    BY <1>4 DEF UploadFile, olderVars
  <2>2. tried' \in [Pictures -> Nat]
    BY <1>1, <2>1
  <2>3. toUpload' \in Seq(Pictures) /\ Len(toUpload') <= UploadCapacity
    BY <1>1, <2>1
  <2>. QED
    BY <1>1, <2>1, <2>2, <2>3
<1>5. ASSUME NEW t \in {Camera, Recorder}, SavePicture(t)
      PROVE  UNCHANGED <<toUpload, after, tried>> /\ saved' \subseteq Pictures
  <2>1. pc[t] = "save" /\ saved' = saved \cup {Head(hand[t])} /\ UNCHANGED <<toUpload, after, tried>>
    BY <1>5 DEF SavePicture, uploadVars, olderVars
  <2>. QED
    BY <1>1, <1>2, <2>1 DEF AtFile
<1>6. ASSUME NEW t \in {Camera, Recorder}, PublishFile(t)
      PROVE  /\ UNCHANGED <<after, tried, saved>>
             /\ toUpload' \in Seq(Pictures) /\ Len(toUpload') <= UploadCapacity
  <2>1. /\ pc[t] = "publish" /\ toUpload' = Append(toUpload, Head(hand[t]))
        /\ UNCHANGED <<after, tried, saved>>
    BY <1>6 DEF PublishFile, olderVars
  <2>2. Head(hand[t]) \in Pictures /\ Len(toUpload) < UploadCapacity
    BY <1>1, <1>2, <2>1 DEF AtFile, OneProducer, Writing
  <2>. QED
    BY <1>1, <2>1, <2>2
<1>7. ASSUME NEW t \in {Camera, Recorder}, DeferFile(t)
      PROVE  UNCHANGED <<toUpload, tried, saved>> /\ after' \in Seq(Pictures)
  <2>1. /\ pc[t] = "defer" /\ after' = Append(after, Head(hand[t]))
        /\ UNCHANGED <<toUpload, tried, saved>>
    BY <1>7 DEF DeferFile, uploadVars
  <2>2. Head(hand[t]) \in Pictures
    BY <1>2, <2>1 DEF AtFile
  <2>. QED
    BY <1>1, <2>1, <2>2
<1>8. ASSUME NEW t \in {Camera, Scheduler}, MoveOlder(t)
      PROVE  /\ UNCHANGED <<tried, saved>> /\ after' \in Seq(Pictures)
             /\ toUpload' \in Seq(Pictures) /\ Len(toUpload') <= UploadCapacity
  <2>1. /\ pc[t] = "move" /\ toUpload' = Append(toUpload, Head(after)) /\ after' = Tail(after)
        /\ UNCHANGED <<tried, saved>>
    BY <1>8 DEF MoveOlder
  <2>2. after # <<>> /\ Len(toUpload) < UploadCapacity
    BY <1>1, <2>1 DEF OneProducer, OlderThere, Writing
  <2>3. Head(after) \in Pictures /\ Tail(after) \in Seq(Pictures)
    BY <1>1, <2>2
  <2>. QED
    BY <1>1, <2>1, <2>2, <2>3
<1>9. CASE SaveSteps
  BY <1>1, <1>5, <1>6, <1>7, <1>9 DEF SaveSteps, Saves
<1>10. CASE OlderSteps
  <2>1. ASSUME NEW t, MovesOlder(t), ~MoveOlder(t) PROVE UNCHANGED <<toUpload, after, tried, saved>>
    BY <2>1 DEF MovesOlder, LockOlder, OlderRound, ScheduleRetry, uploadVars
  <2>2. CASE MoveOlder(Camera) \/ MoveOlder(Scheduler)
    BY <1>1, <1>8, <2>2
  <2>3. CASE ~MoveOlder(Camera) /\ ~MoveOlder(Scheduler)
    BY <1>3, <1>10, <2>1, <2>3 DEF OlderSteps
  <2>. QED
    BY <2>2, <2>3
<1>11. UNCHANGED <<toUpload, after, tried, saved>> \/ UploadFile \/ SaveSteps \/ OlderSteps
  BY StepCases
     DEF AddPicture, StopSaving, EndAlarm, StartSaving, PrepareCurrentFolder, WalkBuffer, TakePicture,
         KeepPicture, Retry, CountFolders, DeleteFolders, Midnight, uploadVars, olderVars
<1>. QED
  BY <1>3, <1>4, <1>9, <1>10, <1>11

LEMMA DayTypes ==
  TypeOK /\ LockInv /\ Next =>
    /\ today' \in 1 .. LastDay /\ counted' \in 0 .. LastDay /\ maintenance' \in BOOLEAN
    /\ holder' \in Threads \cup {Nobody} /\ retries' \in 0 .. MaxRetries
    /\ undefined' \in {"none", "folder", "buffer", "queue", "range"}
<1>. SUFFICES ASSUME TypeOK, LockInv, Next
              PROVE  /\ today' \in 1 .. LastDay /\ counted' \in 0 .. LastDay
                     /\ maintenance' \in BOOLEAN
                     /\ holder' \in Threads \cup {Nobody} /\ retries' \in 0 .. MaxRetries
                     /\ undefined' \in {"none", "folder", "buffer", "queue", "range"}
  OBVIOUS
<1>1. /\ today \in 1 .. LastDay /\ counted \in 0 .. LastDay /\ maintenance \in BOOLEAN
      /\ holder \in Threads \cup {Nobody} /\ retries \in 0 .. MaxRetries
      /\ undefined \in {"none", "folder", "buffer", "queue", "range"}
      /\ LastDay \in Nat \ {0} /\ MaxRetries \in Nat
  BY ConstantTypes DEF TypeOK
<1>2. today' \in 1 .. LastDay /\ counted' \in 0 .. LastDay /\ maintenance' \in BOOLEAN
  <2>1. CASE Midnight
    BY <1>1, <2>1 DEF Midnight
  <2>2. CASE CountFolders
    BY <1>1, <2>2, FoldersFinite DEF CountFolders
  <2>3. CASE DeleteFolders
    BY <1>1, <2>3 DEF DeleteFolders
  <2>4. CASE UNCHANGED <<today, counted, maintenance>>
    BY <1>1, <2>4
  <2>5. Midnight \/ CountFolders \/ DeleteFolders \/ UNCHANGED <<today, counted, maintenance>>
    BY StepCases, SaveStepsLeave, OlderStepsLeave
       DEF AddPicture, StopSaving, EndAlarm, StartSaving, PrepareCurrentFolder, WalkBuffer,
           TakePicture, KeepPicture, Retry, UploadFile, dayVars
  <2>. QED
    BY <2>1, <2>2, <2>3, <2>4, <2>5
<1>3. ASSUME NEW t \in {Camera, Scheduler}, MovesOlder(t)
      PROVE  holder' \in Threads \cup {Nobody} /\ retries' \in 0 .. MaxRetries
  <2>1. t \in Threads
    BY DEF Threads
  <2>2. CASE ~ScheduleRetry(t)
    <3>1. holder' \in {holder, t, Nobody} /\ UNCHANGED retries
      BY <1>3, <2>2 DEF MovesOlder, LockOlder, OlderRound, MoveOlder
    <3>. QED
      BY <1>1, <2>1, <3>1
  <2>3. CASE ScheduleRetry(t)
    <3>1. holder' = Nobody /\ retries' = retries + 1 /\ pc[t] = "again"
      BY <2>3 DEF ScheduleRetry
    <3>2. Trying(t) = 1 /\ Trying(Camera) \in {0, 1} /\ Trying(Scheduler) \in {0, 1}
      BY <3>1 DEF Trying, AtOlder
    <3>3. retries + 1 <= MaxRetries
      BY <1>1, <3>2 DEF LockInv, RetriesInv
    <3>. QED
      BY <1>1, <3>1, <3>3
  <2>. QED
    BY <2>2, <2>3
<1>4. holder' \in Threads \cup {Nobody} /\ retries' \in 0 .. MaxRetries
  <2>1. CASE Retry
    BY <1>1, <2>1 DEF Retry
  <2>2. CASE UNCHANGED <<holder, retries>>
    BY <1>1, <2>2
  <2>3. OlderSteps \/ Retry \/ UNCHANGED <<holder, retries>>
    BY StepCases, SaveStepsLeave
       DEF AddPicture, StopSaving, EndAlarm, StartSaving, PrepareCurrentFolder, WalkBuffer,
           TakePicture, KeepPicture, CountFolders, DeleteFolders, UploadFile, Midnight, olderVars
  <2>. QED
    BY <1>3, <2>1, <2>2, <2>3 DEF OlderSteps
<1>5. undefined' \in {undefined, "folder", "buffer", "queue", "range"}
  <2>1. ASSUME NEW t, Saves(t) \/ MovesOlder(t) PROVE undefined' \in {undefined, "folder", "queue"}
    BY <2>1 DEF Saves, SavePicture, PublishFile, DeferFile, MovesOlder, LockOlder, OlderRound,
                MoveOlder, ScheduleRetry, BeginWrite
  <2>2. CASE KeepPicture
    BY <2>2 DEF KeepPicture
  <2>. QED
    BY <2>1, <2>2, StepCases
       DEF AddPicture, StopSaving, EndAlarm, StartSaving, PrepareCurrentFolder, WalkBuffer, TakePicture,
           Retry, CountFolders, DeleteFolders, UploadFile, Midnight, SaveSteps, OlderSteps
<1>. QED
  BY <1>1, <1>2, <1>4, <1>5

LEMMA ThreadTypes ==
  TypeOK /\ PlacesInv /\ Next =>
    /\ pc' \in [Threads -> {"idle", "folder", "walk", "save", "keep", "publish", "defer",
                            "lock", "older", "move", "again", "delete"}]
    /\ hand' \in [Threads -> Seq(Pictures)]
<1>. DEFINE Labels == {"idle", "folder", "walk", "save", "keep", "publish", "defer",
                       "lock", "older", "move", "again", "delete"}
<1>. SUFFICES ASSUME TypeOK, PlacesInv, Next
              PROVE  pc' \in [Threads -> Labels] /\ hand' \in [Threads -> Seq(Pictures)]
  OBVIOUS
<1>1. /\ pc \in [Threads -> Labels] /\ hand \in [Threads -> Seq(Pictures)]
      /\ toRecord \in Seq(Pictures) /\ buffer \in Seq(Pictures)
      /\ {Camera, Recorder, Scheduler} \subseteq Threads
  BY DEF TypeOK, Threads
<1>2. ASSUME NEW t \in Threads, NEW label \in Labels, Goto(t, label)
      PROVE  pc' \in [Threads -> Labels]
  BY <1>1, <1>2 DEF Goto
<1>. HIDE DEF Labels
<1>3. \/ pc' = pc
      \/ \E t \in {Camera, Recorder, Scheduler} : \E label \in Labels : Goto(t, label)
  <2>1. CASE AddPicture \/ StopSaving \/ UploadFile \/ Midnight
    BY <2>1 DEF AddPicture, StopSaving, UploadFile, Midnight, threadVars
  <2>2. CASE EndAlarm \/ StartSaving \/ PrepareCurrentFolder \/ WalkBuffer
    BY <2>2 DEF EndAlarm, StartSaving, PrepareCurrentFolder, WalkBuffer, Labels
  <2>3. CASE TakePicture \/ KeepPicture
    BY <2>3 DEF TakePicture, KeepPicture, Labels
  <2>4. CASE Retry \/ CountFolders \/ DeleteFolders
    BY <2>4 DEF Retry, CountFolders, DeleteFolders, Labels
  <2>5. ASSUME NEW t, Saves(t) PROVE pc' = pc \/ \E label \in Labels : Goto(t, label)
    <3>1. "publish" \in Labels /\ "defer" \in Labels /\ AfterFile(t) \in Labels
      BY DEF Labels, AfterFile
    <3>. QED
      BY <2>5, <3>1 DEF Saves, SavePicture, PublishFile, DeferFile, BeginWrite, threadVars
  <2>6. ASSUME NEW t, MovesOlder(t) PROVE \E label \in Labels : Goto(t, label)
    BY <2>6 DEF MovesOlder, LockOlder, OlderRound, MoveOlder, ScheduleRetry, BeginWrite, Labels
  <2>. QED
    BY <2>1, <2>2, <2>3, <2>4, <2>5, <2>6, StepCases DEF SaveSteps, OlderSteps
<1>4. pc' \in [Threads -> Labels]
  BY <1>1, <1>2, <1>3
<1>5. hand' \in [Threads -> Seq(Pictures)]
  <2>1. CASE PrepareCurrentFolder
    BY <1>1, <2>1 DEF PrepareCurrentFolder
  <2>2. CASE TakePicture
    <3>1. Head(toRecord) \in Pictures /\ hand' = [hand EXCEPT ![Recorder] = <<Head(toRecord)>>]
      BY <1>1, <2>2 DEF TakePicture
    <3>2. <<Head(toRecord)>> \in Seq(Pictures)
      BY <3>1
    <3>. QED
      BY <1>1, <3>1, <3>2
  <2>3. CASE KeepPicture
    <3>1. <<>> \in Seq(Pictures)
      OBVIOUS
    <3>. QED
      BY <1>1, <2>3, <3>1 DEF KeepPicture
  <2>4. ASSUME NEW t \in {Camera, Recorder}, Saves(t) PROVE hand' \in [Threads -> Seq(Pictures)]
    <3>1. pc[t] \in AtFile /\ (hand' = hand \/ hand' = [hand EXCEPT ![t] = Tail(@)])
      BY <2>4, SavesComesTo DEF Saving, HandingOn, AtFile
    <3>2. hand[t] # <<>> /\ hand[t] \in Seq(Pictures)
      <4>1. <<Taken>> # <<>>
        OBVIOUS
      <4>. QED
        BY <1>1, <3>1, <4>1 DEF PlacesInv, AtFile
    <3>3. Tail(hand[t]) \in Seq(Pictures)
      BY <3>2
    <3>. QED
      BY <1>1, <3>1, <3>3
  <2>5. CASE hand' = hand
    BY <1>1, <2>5
  <2>6. \/ PrepareCurrentFolder \/ TakePicture \/ KeepPicture \/ SaveSteps
        \/ hand' = hand
    BY StepCases, OlderStepsLeave
       DEF AddPicture, StopSaving, EndAlarm, StartSaving, WalkBuffer, Retry, CountFolders,
           DeleteFolders, UploadFile, Midnight, threadVars
  <2>. QED
    BY <2>1, <2>2, <2>3, <2>4, <2>5, <2>6 DEF SaveSteps
<1>. QED
  BY <1>4, <1>5

LEMMA TypesStep == TypeOK /\ PlacesInv /\ LockInv /\ Next => TypeOK'
<1>. SUFFICES ASSUME TypeOK, PlacesInv, LockInv, Next PROVE TypeOK'
  OBVIOUS
<1>1. /\ pictures' \in 0 .. MaxPictures
      /\ toRecord' \in Seq(Pictures) /\ Len(toRecord') <= RecordCapacity
  BY PictureTypes
<1>2. /\ alarm' \in {"NO_ALARM", "ALARM", "NO_MOTION"}
      /\ good' \in BOOLEAN /\ recording' \in BOOLEAN
      /\ folder' \in 0 .. LastDay /\ folders' \subseteq 1 .. LastDay
      /\ buffer' \in Seq(Pictures) /\ Len(buffer') <= RecordBuffer
  BY ArchiveTypes
<1>3. /\ toUpload' \in Seq(Pictures) /\ Len(toUpload') <= UploadCapacity
      /\ after' \in Seq(Pictures)
      /\ tried' \in [Pictures -> Nat] /\ saved' \subseteq Pictures
  BY UploadTypes
<1>4. /\ today' \in 1 .. LastDay /\ counted' \in 0 .. LastDay /\ maintenance' \in BOOLEAN
      /\ holder' \in Threads \cup {Nobody} /\ retries' \in 0 .. MaxRetries
      /\ undefined' \in {"none", "folder", "buffer", "queue", "range"}
  BY DayTypes
<1>5. /\ pc' \in [Threads -> {"idle", "folder", "walk", "save", "keep", "publish", "defer",
                              "lock", "older", "move", "again", "delete"}]
      /\ hand' \in [Threads -> Seq(Pictures)]
  BY ThreadTypes
<1>. QED
  BY <1>1, <1>2, <1>3, <1>4, <1>5, Zenon DEF TypeOK
-----------------------------------------------------------------------------
(* The invariant, and what follows from it.                                *)
LEMMA Initial == Init => IInv
<1>. SUFFICES ASSUME Init PROVE IInv
  OBVIOUS
<1>0. /\ Camera \in Threads /\ Recorder \in Threads /\ Scheduler \in Threads
      /\ Nobody \notin Threads
      /\ pc[Camera] = "idle" /\ pc[Recorder] = "idle" /\ pc[Scheduler] = "idle"
      /\ \A t \in Threads : pc[t] = "idle" /\ hand[t] = <<>>
  BY DistinctThreads DEF Init, Threads
<1>1. TypeOK
  <2>1. /\ pictures \in 0 .. MaxPictures /\ folder \in 0 .. LastDay /\ today \in 1 .. LastDay
        /\ counted \in 0 .. LastDay /\ retries \in 0 .. MaxRetries
    BY ConstantTypes DEF Init
  <2>2. /\ toRecord \in Seq(Pictures) /\ Len(toRecord) <= RecordCapacity
        /\ toUpload \in Seq(Pictures) /\ Len(toUpload) <= UploadCapacity
        /\ buffer \in Seq(Pictures) /\ Len(buffer) <= RecordBuffer /\ after \in Seq(Pictures)
    <3>1. <<>> \in Seq(Pictures) /\ Len(<<>>) = 0
      OBVIOUS
    <3>. QED
      BY <3>1, ConstantTypes DEF Init
  <2>3. pc \in [Threads -> {"idle", "folder", "walk", "save", "keep", "publish", "defer",
                            "lock", "older", "move", "again", "delete"}]
    BY DEF Init
  <2>4. hand \in [Threads -> Seq(Pictures)] /\ tried \in [Pictures -> Nat]
    BY DEF Init
  <2>5. /\ alarm \in {"NO_ALARM", "ALARM", "NO_MOTION"} /\ good \in BOOLEAN /\ recording \in BOOLEAN
        /\ folders \subseteq 1 .. LastDay /\ saved \subseteq Pictures
        /\ holder \in Threads \cup {Nobody} /\ maintenance \in BOOLEAN
        /\ undefined \in {"none", "folder", "buffer", "queue", "range"}
    BY DEF Init
  <2>. QED
    BY <2>1, <2>2, <2>3, <2>4, <2>5, Zenon DEF TypeOK
<1>2. PlacesInv
  BY <1>0 DEF PlacesInv, AtFile
<1>3. LockInv
  <2>1. HolderInv
    BY <1>0 DEF Init, HolderInv, WithLock
  <2>2. OlderThere /\ OneProducer
    BY <1>0 DEF OlderThere, OneProducer, Writing
  <2>3. RetriesInv
    <3>1. Trying(Camera) = 0 /\ Trying(Scheduler) = 0 /\ retries = 0
      BY <1>0 DEF Trying, AtOlder, Init
    <3>. QED
      BY <3>1, ConstantTypes DEF RetriesInv
  <2>. QED
    BY <2>1, <2>2, <2>3 DEF LockInv
<1>4. Len(toRecord) = 0 /\ Len(buffer) = 0 /\ Len(hand[Recorder]) = 0
  BY <1>0 DEF Init
<1>5. Taken = 0 /\ Handled = 0 /\ ~Walking
  <2>1. pictures = 0
    BY DEF Init
  <2>2. Taken = 0
    BY <1>4, <2>1 DEF Taken
  <2>3. Handled = 0
    BY <1>4, <2>2 DEF Handled
  <2>. QED
    BY <1>0, <2>2, <2>3 DEF Walking, AtFile
<1>6. NumbersInv /\ BufferInv
  BY <1>0, <1>4, <1>5 DEF Init, NumbersInv, BufferInv, BuffersOld, Unsaved, Increases
<1>7. Kept
  BY <1>5, ConstantTypes DEF Kept, Pictures
<1>8. FoldersInv
  BY <1>0 DEF Init, FoldersInv
<1>9. EachFileOnce
  <2>. SUFFICES ASSUME NEW p \in Pictures PROVE OnItsWay(p) = 0
    BY DEF EachFileOnce, Init
  <2>1. CountOf(p, toUpload) = 0 /\ CountOf(p, after) = 0 /\ tried[p] = 0
    BY CountEmpty DEF Init
  <2>2. {t \in Threads : pc[t] \in {"publish", "defer"} /\ Head(hand[t]) = p} = {}
    BY <1>0
  <2>. QED
    BY <2>1, <2>2, FS_EmptySet DEF OnItsWay
<1>. QED
  BY <1>1, <1>2, <1>3, <1>6, <1>7, <1>8, <1>9 DEF IInv

LEMMA StutterStep == IInv /\ UNCHANGED vars => IInv'
<1>. SUFFICES ASSUME IInv, UNCHANGED vars PROVE IInv'
  OBVIOUS
<1>. USE DEF vars, cameraVars, archiveVars, uploadVars, olderVars, dayVars, threadVars
<1>1. TypeOK'
  BY DEF IInv, TypeOK
<1>2. undefined' = "none" => PlacesInv' /\ NumbersInv' /\ BufferInv' /\ Kept'
  BY DEF IInv, PlacesInv, NumbersInv, BufferInv, BuffersOld, Unsaved, WalksAlong, Walking, Kept,
         Taken, Handled, Increases
<1>3. undefined' = "none" => LockInv' /\ FoldersInv'
  BY DEF IInv, LockInv, HolderInv, OlderThere, OneProducer, RetriesInv, Trying, FoldersInv
<1>4. undefined' = "none" => EachFileOnce'
  BY DEF IInv, EachFileOnce, OnItsWay, CountOf
<1>. QED
  BY <1>1, <1>2, <1>3, <1>4 DEF IInv

(* Where the threads, the files, the last pictures and the folders are,    *)
(* from the start of the program until its behaviour is undefined          *)
(* (RecordingController.cpp, PictureArchive.cpp).                          *)
THEOREM InvariantCorrect == Spec => []IInv
<1>1. IInv /\ [Next]_vars => IInv'
  <2>. SUFFICES ASSUME IInv, Next PROVE IInv'
    BY StutterStep
  <2>1. undefined = "none"
    BY DEF Next
  <2>2. /\ TypeOK /\ PlacesInv /\ LockInv /\ NumbersInv /\ BufferInv /\ Kept /\ FoldersInv
        /\ EachFileOnce
    BY <2>1 DEF IInv
  <2>3. TypeOK'
    BY <2>2, TypesStep
  <2>4. undefined' = "none" => PlacesInv' /\ LockInv' /\ NumbersInv' /\ BufferInv'
    BY <2>2, PlacesStep, LockStep, NumbersStep, BufferStep
  <2>5. undefined' = "none" => Kept' /\ FoldersInv' /\ EachFileOnce'
    BY <2>1, <2>2, KeptStep, FoldersStep, OnceStep
  <2>. QED
    BY <2>3, <2>4, <2>5 DEF IInv
<1>. QED
  BY <1>1, Initial, PTL DEF Spec

(* Types: no queue or buffer exceeds its capacity, no lock is lost.        *)
THEOREM TypeCorrect == Spec => []TypeOK
<1>1. IInv => TypeOK
  BY DEF IInv
<1>. QED
  BY <1>1, InvariantCorrect, PTL

(* Every file saved is given to the uploader exactly once, through the     *)
(* queue or through the files put aside (onPictureSaved,                   *)
(* enqueueOlderPictures).                                                  *)
THEOREM FilesUploadedOnce == Spec => []EachFileOnce
<1>1. IInv => EachFileOnce
  BY DEF IInv, EachFileOnce
<1>. QED
  BY <1>1, InvariantCorrect, PTL

(* The last pictures the worker has handled are saved or in the buffer     *)
(* (PictureArchive::enqueue, startSaving).                                 *)
THEOREM LastPicturesKept == Spec => []RecentKept
<1>1. IInv => RecentKept
  <2>. SUFFICES ASSUME IInv, undefined = "none", NEW p \in Pictures,
                       p <= Handled, p > Handled - RecordBuffer
                PROVE  p \in saved \/ p \in ToSet(buffer)
    BY DEF RecentKept, Handled, Taken
  <2>1. Kept /\ buffer \in Seq(Pictures)
    BY DEF IInv, TypeOK
  <2>2. p \in saved \/ \E i \in 1 .. Len(buffer) : buffer[i] = p
    BY <2>1 DEF Kept
  <2>3. DOMAIN buffer = 1 .. Len(buffer)
    BY <2>1
  <2>. QED
    BY <2>2, <2>3 DEF ToSet
<1>. QED
  BY <1>1, InvariantCorrect, PTL

(* The maintenance never removes the folder recorded to, for any positive  *)
(* number of days to keep that fits an int (deleteOlderPictures).          *)
THEOREM RecordedFolderStays == Spec => []RecordingFolderSurvives
<1>1. IInv => RecordingFolderSurvives
  BY DEF IInv, FoldersInv, RecordingFolderSurvives
<1>. QED
  BY <1>1, InvariantCorrect, PTL
=============================================================================
