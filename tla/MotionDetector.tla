--------------------------- MODULE MotionDetector ---------------------------
(***************************************************************************)
(* MotionDetector.cpp: compares each picture with the two before it and    *)
(* drives the alarm state machine.  A picture is the set of its bright     *)
(* pixels: absdiff is then the symmetric difference, bitwise_and the       *)
(* intersection, and MinMotionPixels plays the part of MIN_MOTION_PIXELS.  *)
(*                                                                         *)
(* The counters are unsigned: they wrap after MaxUnsigned.  One of them is *)
(* not initialised by the constructor.                                     *)
(***************************************************************************)
EXTENDS Integers, FiniteSets

CONSTANTS Pictures,     \* what the camera may see, each a set of pixels
          MinMotionPixels,
          NumPreAlarmMotions, NumNoMotionToConsider, NumNoMotionToStopAlarm,
          MaxUnsigned,
          NoPicture     \* an empty cv::Mat

Unsigned == 0 .. MaxUnsigned
AbsDiff(p, q) == (p \ q) \cup (q \ p)
Differences == {AbsDiff(p, q) : p, q \in Pictures}

(* The constructor throws unless the third assumption holds.               *)
ASSUME UnsignedAssumption == MaxUnsigned \in Nat /\ MaxUnsigned >= 2
ASSUME ThresholdAssumption ==
  /\ NumPreAlarmMotions \in Unsigned
  /\ NumNoMotionToConsider \in Unsigned
  /\ NumNoMotionToStopAlarm \in Unsigned
  /\ NumNoMotionToConsider < NumNoMotionToStopAlarm
ASSUME NoPictureAssumption == NoPicture \notin Pictures \cup Differences

VARIABLES
  curr,                  \* curr_: the last picture
  prevDiff,              \* prevDiff_: how it differs from the one before
  state,                 \* state_
  consecutiveMotions, consecutiveNoMotion,
  seen,                  \* history: the last three pictures since reset
  verdict,               \* history: what examinePicture last made of them
  motionRun, stillRun    \* history: length of the current run of verdicts

code == <<curr, prevDiff, state, consecutiveMotions, consecutiveNoMotion>>
history == <<seen, verdict, motionRun, stillRun>>
vars == <<code, history>>

Unseen == <<NoPicture, NoPicture, NoPicture>>
States == {"NO_ALARM", "PRE_ALARM", "ALARM", "NO_MOTION"}

TypeOK ==
  /\ curr \in Pictures \cup {NoPicture}
  /\ prevDiff \in Differences \cup {NoPicture}
  /\ state \in States
  /\ consecutiveMotions \in Unsigned
  /\ consecutiveNoMotion \in Unsigned
  /\ seen \in [1 .. 3 -> Pictures \cup {NoPicture}]
  /\ verdict \in {"none", "motion", "still"}
  /\ motionRun \in Unsigned
  /\ stillRun \in Unsigned

Init ==
  /\ curr = NoPicture
  /\ prevDiff = NoPicture
  /\ state = "NO_ALARM"
  /\ consecutiveMotions = 0
  /\ consecutiveNoMotion \in Unsigned   \* not initialised
  /\ seen = Unseen
  /\ verdict = "none"
  /\ motionRun = 0
  /\ stillRun = 0

-----------------------------------------------------------------------------
Increment(n) == IF n = MaxUnsigned THEN 0 ELSE n + 1

MotionHappened(motion) == Cardinality(motion) >= MinMotionPixels

OnMotionDetected_Bug ==   \* consecutiveNoMotion_ is not reset
  /\ consecutiveMotions' = Increment(consecutiveMotions)
  /\ state' = CASE state = "NO_ALARM" -> "PRE_ALARM"
                [] state = "PRE_ALARM" ->
                     IF consecutiveMotions' >= NumPreAlarmMotions
                     THEN "ALARM" ELSE "PRE_ALARM"
                [] state \in {"ALARM", "NO_MOTION"} -> "ALARM"
  /\ UNCHANGED consecutiveNoMotion

OnMotionDetected_OffByOne ==   \* one motion more than numPreAlarmMotions_
  /\ consecutiveNoMotion' = 0
  /\ consecutiveMotions' = Increment(consecutiveMotions)
  /\ state' = CASE state = "NO_ALARM" -> "PRE_ALARM"
                [] state = "PRE_ALARM" ->
                     IF consecutiveMotions' > NumPreAlarmMotions
                     THEN "ALARM" ELSE "PRE_ALARM"
                [] state \in {"ALARM", "NO_MOTION"} -> "ALARM"

(* Observers are called with each new state_, on this thread.              *)
OnMotionDetected ==
  /\ consecutiveNoMotion' = 0
  /\ consecutiveMotions' = Increment(consecutiveMotions)
  /\ state' = CASE state = "NO_ALARM" -> "PRE_ALARM"
                [] state = "PRE_ALARM" ->
                     IF consecutiveMotions' >= NumPreAlarmMotions
                     THEN "ALARM" ELSE "PRE_ALARM"
                [] state \in {"ALARM", "NO_MOTION"} -> "ALARM"

StateWhenStill(c) ==
  CASE state \in {"NO_ALARM", "PRE_ALARM"} -> "NO_ALARM"
    [] state = "ALARM" -> IF c >= NumNoMotionToConsider
                          THEN "NO_MOTION" ELSE "ALARM"
    [] state = "NO_MOTION" -> IF c >= NumNoMotionToStopAlarm
                              THEN "NO_ALARM" ELSE "NO_MOTION"

OnNoMotion_KeepsCount ==   \* consecutiveMotions_ is not reset
  /\ consecutiveNoMotion' = Increment(consecutiveNoMotion)
  /\ state' = StateWhenStill(consecutiveNoMotion')
  /\ UNCHANGED consecutiveMotions

OnNoMotion_Restarts ==   \* the count starts again with each NO_MOTION
  LET c == Increment(consecutiveNoMotion) IN
  /\ consecutiveMotions' = 0
  /\ consecutiveNoMotion' = IF c = NumNoMotionToConsider THEN 0 ELSE c
  /\ state' = StateWhenStill(c)

OnNoMotion ==
  /\ consecutiveMotions' = 0
  /\ consecutiveNoMotion' = Increment(consecutiveNoMotion)
  /\ state' = StateWhenStill(consecutiveNoMotion')

-----------------------------------------------------------------------------
(* The history variables; runs stop counting at MaxUnsigned.               *)
See(p) == seen' = <<seen[2], seen[3], p>>
Longer(n) == IF n = MaxUnsigned THEN n ELSE n + 1

Judge(motion) ==
  /\ verdict' = IF motion THEN "motion" ELSE "still"
  /\ motionRun' = IF motion THEN Longer(motionRun) ELSE 0
  /\ stillRun' = IF motion THEN 0 ELSE Longer(stillRun)

-----------------------------------------------------------------------------
(* examinePicture                                                          *)

FirstPicture(p) ==
  /\ curr = NoPicture
  /\ curr' = p
  /\ See(p)
  /\ UNCHANGED <<prevDiff, state, consecutiveMotions, consecutiveNoMotion,
                 verdict, motionRun, stillRun>>

SecondPicture(p) ==
  /\ curr # NoPicture
  /\ prevDiff = NoPicture
  /\ prevDiff' = AbsDiff(curr, p)
  /\ curr' = p
  /\ See(p)
  /\ UNCHANGED <<state, consecutiveMotions, consecutiveNoMotion,
                 verdict, motionRun, stillRun>>

NextPicture(p) ==
  LET currDiff == AbsDiff(curr, p)
      motion == MotionHappened(prevDiff \cap currDiff)
  IN  /\ curr # NoPicture
      /\ prevDiff # NoPicture
      /\ IF motion THEN OnMotionDetected ELSE OnNoMotion
      /\ prevDiff' = currDiff
      /\ curr' = p
      /\ See(p)
      /\ Judge(motion)

ExaminePicture ==
  \E p \in Pictures : FirstPicture(p) \/ SecondPicture(p) \/ NextPicture(p)

Reset_Bug ==   \* the last difference survives
  /\ curr' = NoPicture
  /\ seen' = Unseen
  /\ verdict' = "none"
  /\ UNCHANGED <<prevDiff, state, consecutiveMotions, consecutiveNoMotion,
                 motionRun, stillRun>>

(* Monitoring starts again.  The state and the counters are kept.          *)
Reset ==
  /\ curr' = NoPicture
  /\ prevDiff' = NoPicture
  /\ seen' = Unseen
  /\ verdict' = "none"
  /\ UNCHANGED <<state, consecutiveMotions, consecutiveNoMotion,
                 motionRun, stillRun>>

Next == ExaminePicture \/ Reset

Spec == Init /\ [][Next]_vars

(* While monitoring is on the camera keeps delivering pictures.            *)
FairSpec == Spec /\ WF_vars(ExaminePicture)

-----------------------------------------------------------------------------
(* Correctness                                                             *)

(* Motion means that the same pixels changed twice in a row, between three *)
(* consecutive pictures taken since monitoring was (re)started: pictures   *)
(* of an earlier session are never compared with new ones (examinePicture, *)
(* reset).                                                                 *)
Moved(p, q, r) == MotionHappened(AbsDiff(p, q) \cap AbsDiff(q, r))

VerdictFromThreePictures ==
  /\ verdict # "none" => seen[1] # NoPicture
  /\ seen[1] # NoPicture => (verdict = "motion" <=> Moved(seen[1], seen[2], seen[3]))

(* The pre-alarm lasts exactly as long as the run of motions is shorter    *)
(* than numPreAlarmMotions_ (or has just begun), whatever wrapped and      *)
(* whatever the counters held before (onMotionDetected).                   *)
PreAlarmIsYoung ==
  state = "PRE_ALARM" =>
    motionRun > 0 /\ (motionRun < NumPreAlarmMotions \/ motionRun = 1)

(* An alarm begins only after a long enough run of motions.                *)
AlarmNeedsMotion ==
  [][(state \in {"NO_ALARM", "PRE_ALARM"} /\ state' = "ALARM") =>
       motionRun' >= NumPreAlarmMotions /\ motionRun' >= 2]_vars

(* An alarm is called off only after a long enough run of still pictures,  *)
(* although consecutiveNoMotion_ starts as garbage and may wrap many times *)
(* before it is needed (onNoMotion).                                       *)
AlarmOutlastsMotion ==
  [][/\ (state = "ALARM" /\ state' # "ALARM") =>
          stillRun' >= NumNoMotionToConsider
     /\ (state \in {"ALARM", "NO_MOTION"} /\ state' = "NO_ALARM") =>
          stillRun' >= NumNoMotionToStopAlarm]_vars

(* If from some moment on nothing moves, the alarm ends.                   *)
StillnessEndsAlarm ==
  <>[](verdict = "still") => <>[](state = "NO_ALARM")

(* test/antifurto_unit.cpp, "no alarm after 4 equal frames": with a        *)
(* detector(3, 4) observers are told NO_ALARM by the fourth still picture. *)
FourEqualFramesEndAlarm ==
  stillRun >= NumNoMotionToConsider => state = "NO_ALARM"
=============================================================================
