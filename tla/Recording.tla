----------------------------- MODULE Recording -----------------------------
(***************************************************************************)
(* RecordingController.cpp with PictureArchive.cpp and DropboxUploader.cpp: *)
(* from the pictures of the camera thread to files on disk and in Dropbox. *)
(*                                                                         *)
(* The camera thread hands pictures to the recording worker and, through   *)
(* the motion detector's state, starts and stops the recording.  The       *)
(* worker keeps the last pictures or saves them; every file saved is put   *)
(* into the upload worker's queue or, when that is full, aside until the   *)
(* alarm is over.  The scheduler's thread retries that, and removes old    *)
(* days.  Both workers are SpScQueues, here what that module shows them to *)
(* be: FIFO queues with a bound, if each has one producer.                 *)
(*                                                                         *)
(* Neither the archive nor the producers of the upload queue are           *)
(* synchronised.  Where two threads race, or the maintenance removes more  *)
(* directories than it has listed, the behaviour is undefined: the model   *)
(* records where it was and goes no further.                               *)
(***************************************************************************)
EXTENDS Integers, Sequences, FiniteSets, SequencesExt, FiniteSetsExt

CONSTANTS Camera, Recorder, Scheduler,  \* the threads; the uploader's is implied
          Nobody,
          RecordCapacity,   \* of recordingWorker_, 1024
          UploadCapacity,   \* of uploadWorker_, 150
          RecordBuffer,     \* recordBufferSize_, 5
          MaxDays,          \* config_.maxDays, an unsigned int, as configured
          MaxInt,           \* the largest int
          MaxPictures, LastDay, MaxRetries   \* bounds of the instance

ASSUME RecordingAssumption ==
  /\ {RecordCapacity, UploadCapacity, LastDay} \subseteq Nat \ {0}
  /\ {RecordBuffer, MaxPictures, MaxRetries, MaxInt} \subseteq Nat
  /\ MaxDays \in 0 .. 2 * MaxInt + 1 /\ LastDay <= MaxInt
  /\ Cardinality({Camera, Recorder, Scheduler, Nobody}) = 4

VARIABLES
  pictures,     \* how many pictures were taken: they are numbered
  alarm,        \* the detector's state, NO_ALARM standing for PRE_ALARM too
  toRecord,     \* recordingWorker_: pictures it has still to handle
  good,         \* the uploader works, so that the archive has an observer
  recording,    \* recording_
  buffer,       \* recordBuffer_
  folder,       \* currentFolder_: its day, 0 when there is none yet
  folders,      \* the directories of the archive
  today,
  toUpload,     \* uploadWorker_: files it has still to upload
  after,        \* toUploadAfterQueue_
  holder,       \* who holds toUploadAfterQueueMutex_
  pc,           \* where each thread is
  hand,         \* the pictures it has still to save, or the file it moves
  counted,      \* the directories that the maintenance has counted, 0 when it is done
  maintenance,  \* the maintenance is due
  retries,      \* scheduled calls of enqueueOlderPictures
  saved,        \* history: the files given to imwrite, whatever it says
  tried,        \* history: how often each file was given to the uploader
  undefined     \* where the behaviour has become undefined, if it has

archiveVars == <<recording, buffer, folder, folders>>
uploadVars == <<toUpload, tried>>
olderVars == <<after, holder, retries>>
cameraVars == <<pictures, alarm>>
dayVars == <<today, counted, maintenance>>
threadVars == <<pc, hand>>
vars == <<cameraVars, toRecord, good, archiveVars, uploadVars, olderVars, dayVars,
          threadVars, saved, undefined>>

Threads == {Camera, Recorder, Scheduler}
Pictures == 1 .. MaxPictures

TypeOK ==
  /\ pictures \in 0 .. MaxPictures
  /\ alarm \in {"NO_ALARM", "ALARM", "NO_MOTION"}
  /\ toRecord \in Seq(Pictures) /\ Len(toRecord) <= RecordCapacity
  /\ good \in BOOLEAN /\ recording \in BOOLEAN
  /\ buffer \in Seq(Pictures) /\ Len(buffer) <= RecordBuffer
  /\ folder \in 0 .. LastDay /\ folders \subseteq 1 .. LastDay
  /\ today \in 1 .. LastDay
  /\ toUpload \in Seq(Pictures) /\ Len(toUpload) <= UploadCapacity
  /\ after \in Seq(Pictures)
  /\ holder \in Threads \cup {Nobody}
  /\ pc \in [Threads -> {"idle", "folder", "walk", "save", "keep", "publish", "defer",
                         "lock", "older", "move", "again", "delete"}]
  /\ hand \in [Threads -> Seq(Pictures)]
  /\ counted \in 0 .. LastDay
  /\ maintenance \in BOOLEAN
  /\ retries \in 0 .. MaxRetries
  /\ saved \subseteq Pictures
  /\ tried \in [Pictures -> Nat]
  /\ undefined \in {"none", "folder", "buffer", "queue", "range"}

Init ==
  /\ pictures = 0 /\ alarm = "NO_ALARM"
  /\ toRecord = <<>> /\ good \in BOOLEAN
  /\ recording = FALSE /\ buffer = <<>> /\ folder = 0 /\ folders = {}
  /\ today = 1 /\ counted = 0 /\ maintenance = FALSE
  /\ toUpload = <<>> /\ tried = [p \in Pictures |-> 0]
  /\ after = <<>> /\ holder = Nobody /\ retries = 0
  /\ pc = [t \in Threads |-> "idle"] /\ hand = [t \in Threads |-> <<>>]
  /\ saved = {} /\ undefined = "none"

Goto(t, label) == pc' = [pc EXCEPT ![t] = label]
-----------------------------------------------------------------------------
\* addPicture: the picture goes to the worker; one that comes when the worker
\* is behind by the capacity of its queue is dropped and has no number.
AddPicture ==
  /\ pc[Camera] = "idle" /\ pictures < MaxPictures
  /\ Len(toRecord) < RecordCapacity
  /\ pictures' = pictures + 1
  /\ toRecord' = Append(toRecord, pictures + 1)
  /\ UNCHANGED <<alarm, good, archiveVars, uploadVars, olderVars, dayVars, threadVars,
                 saved, undefined>>

\* onAlarmStateChanged, called by the camera thread.
StopSaving ==
  /\ pc[Camera] = "idle" /\ alarm = "ALARM"
  /\ alarm' = "NO_MOTION"
  /\ recording' = FALSE
  /\ UNCHANGED <<pictures, toRecord, good, buffer, folder, folders, uploadVars, olderVars,
                 dayVars, threadVars, saved, undefined>>

\* The scheduler is at a retry, or at its maintenance.
Retrying == pc[Scheduler] # "idle"

EndAlarm ==
  /\ pc[Camera] = "idle" /\ alarm # "ALARM"
  /\ retries + (IF Retrying THEN 1 ELSE 0) < MaxRetries
  /\ alarm' = "NO_ALARM"
  /\ Goto(Camera, "lock")
  /\ UNCHANGED <<pictures, toRecord, good, archiveVars, uploadVars, olderVars, dayVars,
                 hand, saved, undefined>>

StartSaving ==
  /\ pc[Camera] = "idle" /\ alarm # "ALARM"
  /\ alarm' = "ALARM"
  /\ recording' = TRUE
  /\ Goto(Camera, "folder")
  /\ UNCHANGED <<pictures, toRecord, good, buffer, folder, folders, uploadVars, olderVars,
                 dayVars, hand, saved, undefined>>

PrepareCurrentFolder ==
  /\ pc[Camera] = "folder"
  /\ folder' = today
  /\ folders' = folders \cup {today}
  /\ hand' = [hand EXCEPT ![Camera] = buffer]
  /\ Goto(Camera, "walk")
  /\ UNCHANGED <<cameraVars, toRecord, good, recording, buffer, uploadVars, olderVars,
                 dayVars, saved, undefined>>

\* The loop of startSaving over the buffer, which it clears at the end.
WalkBuffer ==
  /\ pc[Camera] = "walk"
  /\ IF hand[Camera] = <<>>
       THEN buffer' = <<>> /\ Goto(Camera, "idle")
       ELSE UNCHANGED buffer /\ Goto(Camera, "save")
  /\ UNCHANGED <<cameraVars, toRecord, good, recording, folder, folders, uploadVars,
                 olderVars, dayVars, hand, saved, undefined>>
-----------------------------------------------------------------------------
\* The recording worker takes a picture; PictureArchive::addPicture tests
\* recording_ and then saves or keeps the picture.
TakePicture ==
  /\ pc[Recorder] = "idle" /\ toRecord # <<>>
  /\ hand' = [hand EXCEPT ![Recorder] = <<Head(toRecord)>>]
  /\ toRecord' = Tail(toRecord)
  /\ Goto(Recorder, IF recording THEN "save" ELSE "keep")
  /\ UNCHANGED <<cameraVars, good, archiveVars, uploadVars, olderVars, dayVars, saved, undefined>>

\* Bug: the buffer is one picture short.
KeepPicture_Bug ==
  /\ pc[Recorder] = "keep"
  /\ LET longer == buffer \o hand[Recorder]
     IN buffer' = IF Len(longer) >= RecordBuffer THEN Tail(longer) ELSE longer
  /\ undefined' = IF pc[Camera] \in {"walk", "save", "publish", "defer"} THEN "buffer" ELSE undefined
  /\ hand' = [hand EXCEPT ![Recorder] = <<>>]
  /\ Goto(Recorder, "idle")
  /\ UNCHANGED <<cameraVars, toRecord, good, recording, folder, folders, uploadVars,
                 olderVars, dayVars, saved>>

\* PictureArchive::enqueue, whose list the camera thread may be walking.
KeepPicture ==
  /\ pc[Recorder] = "keep"
  /\ LET longer == buffer \o hand[Recorder]
     IN buffer' = IF Len(longer) > RecordBuffer THEN Tail(longer) ELSE longer
  /\ undefined' = IF pc[Camera] \in {"walk", "save", "publish", "defer"} THEN "buffer" ELSE undefined
  /\ hand' = [hand EXCEPT ![Recorder] = <<>>]
  /\ Goto(Recorder, "idle")
  /\ UNCHANGED <<cameraVars, toRecord, good, recording, folder, folders, uploadVars,
                 olderVars, dayVars, saved>>

\* The label where a thread goes when it has dealt with a file.
AfterFile(t) == IF t = Camera THEN "walk" ELSE "idle"

\* ProducerConsumerQueue::write: a second producer must not come in between
\* the test for room and the publication of the index.
BeginWrite(t, published, full) ==
  /\ Goto(t, IF Len(toUpload) < UploadCapacity THEN published ELSE full)
  /\ undefined' = IF \E u \in Threads \ {t} : pc[u] \in {"publish", "move"} THEN "queue" ELSE undefined

\* PictureArchive::save: the file is written to the current folder, which the
\* camera thread may just be naming, and onPictureSaved begins the enqueuing.
SavePicture(t) ==
  /\ pc[t] = "save"
  /\ saved' = saved \cup {Head(hand[t])}
  /\ IF t = Recorder /\ pc[Camera] = "folder"
       THEN undefined' = "folder" /\ UNCHANGED threadVars
       ELSE IF good
         THEN BeginWrite(t, "publish", "defer") /\ UNCHANGED hand
         ELSE /\ hand' = [hand EXCEPT ![t] = Tail(@)]
              /\ Goto(t, AfterFile(t))
              /\ UNCHANGED undefined
  /\ UNCHANGED <<cameraVars, toRecord, good, archiveVars, uploadVars, olderVars, dayVars>>

PublishFile(t) ==
  /\ pc[t] = "publish"
  /\ toUpload' = Append(toUpload, Head(hand[t]))
  /\ hand' = [hand EXCEPT ![t] = Tail(@)]
  /\ Goto(t, AfterFile(t))
  /\ UNCHANGED <<cameraVars, toRecord, good, archiveVars, tried, olderVars, dayVars, saved, undefined>>

\* The queue was full: the file is put aside.
DeferFile(t) ==
  /\ pc[t] = "defer" /\ holder = Nobody
  /\ after' = Append(after, Head(hand[t]))
  /\ hand' = [hand EXCEPT ![t] = Tail(@)]
  /\ Goto(t, AfterFile(t))
  /\ UNCHANGED <<cameraVars, toRecord, good, archiveVars, uploadVars, holder, retries,
                 dayVars, saved, undefined>>
-----------------------------------------------------------------------------
\* enqueueOlderPictures, at the end of an alarm or as a scheduled retry.
LockOlder(t) ==
  /\ pc[t] = "lock" /\ holder = Nobody
  /\ IF after = <<>>
       THEN UNCHANGED holder /\ Goto(t, "idle")
       ELSE holder' = t /\ Goto(t, "older")
  /\ UNCHANGED <<cameraVars, toRecord, good, archiveVars, uploadVars, after, retries,
                 dayVars, hand, saved, undefined>>

\* Its loop ends when there is no file left, or no room for the front one.
OlderRound(t) ==
  /\ pc[t] = "older"
  /\ IF after # <<>>
       THEN BeginWrite(t, "move", "again") /\ UNCHANGED holder
       ELSE Goto(t, "idle") /\ holder' = Nobody /\ UNCHANGED undefined
  /\ UNCHANGED <<after, retries>>
  /\ UNCHANGED <<cameraVars, toRecord, good, archiveVars, uploadVars, dayVars, hand, saved>>

\* Bug: the file is enqueued and not popped.
MoveOlder_Bug(t) ==
  /\ pc[t] = "move"
  /\ toUpload' = Append(toUpload, Head(after))
  /\ Goto(t, "older")
  /\ UNCHANGED <<cameraVars, toRecord, good, archiveVars, tried, olderVars, dayVars, hand,
                 saved, undefined>>

MoveOlder(t) ==
  /\ pc[t] = "move"
  /\ toUpload' = Append(toUpload, Head(after))
  /\ after' = Tail(after)
  /\ Goto(t, "older")
  /\ UNCHANGED <<cameraVars, toRecord, good, archiveVars, tried, holder, retries, dayVars,
                 hand, saved, undefined>>

\* Bug: a retry that does not get rid of all files is the last one.
ScheduleRetry_Bug(t) ==
  /\ pc[t] = "again"
  /\ retries' = IF t = Camera THEN retries + 1 ELSE retries
  /\ holder' = Nobody
  /\ Goto(t, "idle")
  /\ UNCHANGED <<cameraVars, toRecord, good, archiveVars, uploadVars, after, dayVars,
                 hand, saved, undefined>>

\* What is left is retried later.
ScheduleRetry(t) ==
  /\ pc[t] = "again"
  /\ retries' = retries + 1
  /\ holder' = Nobody
  /\ Goto(t, "idle")
  /\ UNCHANGED <<cameraVars, toRecord, good, archiveVars, uploadVars, after, dayVars,
                 hand, saved, undefined>>

Retry ==
  /\ pc[Scheduler] = "idle" /\ retries > 0
  /\ retries' = retries - 1
  /\ Goto(Scheduler, "lock")
  /\ UNCHANGED <<cameraVars, toRecord, good, archiveVars, uploadVars, after, holder,
                 dayVars, hand, saved, undefined>>

\* uploadFile: whatever becomes of the upload, it is not tried again.
UploadFile ==
  /\ toUpload # <<>>
  /\ tried' = [tried EXCEPT ![Head(toUpload)] = @ + 1]
  /\ toUpload' = Tail(toUpload)
  /\ UNCHANGED <<cameraVars, toRecord, good, archiveVars, olderVars, dayVars, threadVars,
                 saved, undefined>>
-----------------------------------------------------------------------------
Midnight ==
  /\ today < LastDay
  /\ today' = today + 1
  /\ maintenance' = TRUE
  /\ UNCHANGED <<cameraVars, toRecord, good, archiveVars, uploadVars, olderVars, counted,
                 threadVars, saved, undefined>>

\* What an int holds after an unsigned difference n of its width.
AsInt(n) == IF n < -(MaxInt + 1) THEN n + 2 * (MaxInt + 1) ELSE n

\* deleteOlderPictures counts the directories,
CountFolders ==
  /\ pc[Scheduler] = "idle" /\ maintenance
  /\ maintenance' = FALSE
  /\ IF AsInt(Cardinality(folders) - MaxDays) > 0
       THEN counted' = Cardinality(folders) /\ Goto(Scheduler, "delete")
       ELSE UNCHANGED <<counted, pc>>
  /\ UNCHANGED <<cameraVars, toRecord, good, archiveVars, uploadVars, olderVars, today,
                 hand, saved, undefined>>

\* Bug: the directories are removed in reverse order.
Oldest_Bug(n) == {d \in folders : Cardinality({e \in folders : e > d}) < n}

\* and then lists and sorts them and removes the first ones, with no look at
\* how many there are.
Oldest(n) == {d \in folders : Cardinality({e \in folders : e < d}) < n}

DeleteFolders ==
  /\ pc[Scheduler] = "delete"
  /\ IF AsInt(counted - MaxDays) <= Cardinality(folders)
       THEN folders' = folders \ Oldest(AsInt(counted - MaxDays)) /\ UNCHANGED undefined
       ELSE undefined' = "range" /\ UNCHANGED folders
  /\ counted' = 0
  /\ Goto(Scheduler, "idle")
  /\ UNCHANGED <<cameraVars, toRecord, good, recording, buffer, folder, uploadVars,
                 olderVars, today, maintenance, hand, saved>>

CameraEvent == AddPicture \/ StopSaving \/ EndAlarm \/ StartSaving
Saves(t) == SavePicture(t) \/ PublishFile(t) \/ DeferFile(t)
MovesOlder(t) == LockOlder(t) \/ OlderRound(t) \/ MoveOlder(t) \/ ScheduleRetry(t)

CameraStep == PrepareCurrentFolder \/ WalkBuffer \/ Saves(Camera) \/ MovesOlder(Camera)
RecorderStep == TakePicture \/ KeepPicture \/ Saves(Recorder)
SchedulerStep == Retry \/ MovesOlder(Scheduler) \/ CountFolders \/ DeleteFolders

Next ==
  /\ undefined = "none"
  /\ \/ CameraEvent \/ CameraStep
     \/ RecorderStep
     \/ SchedulerStep
     \/ UploadFile
     \/ Midnight

Spec == Init /\ [][Next]_vars

\* Every thread goes on, and the upload program ends.
Fairness ==
  /\ WF_vars(undefined = "none" /\ CameraStep)
  /\ WF_vars(undefined = "none" /\ RecorderStep)
  /\ WF_vars(undefined = "none" /\ SchedulerStep)
  /\ WF_vars(undefined = "none" /\ UploadFile)

FairSpec == Spec /\ Fairness
-----------------------------------------------------------------------------
\* Where a file is on its way to the uploader, and how often.
CountOf(p, s) == Cardinality({i \in DOMAIN s : s[i] = p})
OnItsWay(p) ==
  CountOf(p, toUpload) + CountOf(p, after) + tried[p]
  + Cardinality({t \in Threads : pc[t] \in {"publish", "defer"} /\ Head(hand[t]) = p})

\* With a working uploader every file saved is given to it exactly once: it is
\* in one place on its way, whatever fills up, waits or is retried
\* (onPictureSaved, enqueueOlderPictures).
EachFileOnce ==
  undefined = "none" =>
    \A p \in Pictures : OnItsWay(p) = IF good /\ p \in saved THEN 1 ELSE 0

\* "When the recording is started, the last N pictures are saved"
\* (PictureArchive.hpp): of the pictures that the worker has handled, the last
\* RecordBuffer ones are saved or in the buffer.
RecentKept ==
  LET handled == pictures - Len(toRecord) - Len(hand[Recorder])
  IN undefined = "none" =>
       \A p \in Pictures :
         (p <= handled /\ p > handled - RecordBuffer) => (p \in saved \/ p \in ToSet(buffer))

\* While it records, the folder it records to is not among those that the
\* maintenance removes, which runs on another thread (deleteOlderPictures), if
\* the days to keep are at least one and fit the int they are computed in:
\* recording.max-days is used as it is configured.
RecordingFolderSurvives ==
  (MaxDays \in 1 .. MaxInt /\ recording /\ undefined = "none" /\ pc[Camera] # "folder")
    => folder \in folders

\* Once a retry is scheduled, the files put aside are enqueued in the end,
\* unless the behaviour becomes undefined (enqueueOlderPictures).
OlderPicturesUploaded == (retries > 0) ~> (after = <<>> \/ undefined # "none")
=============================================================================
