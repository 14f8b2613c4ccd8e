------------------------ MODULE MotionDetectorProofs ------------------------
(***************************************************************************)
(* Theorems about MotionDetector.cpp, for all thresholds the constructor   *)
(* accepts, all widths of unsigned and all pictures.                       *)
(***************************************************************************)
EXTENDS MotionDetector, TLAPS

(* While a counter is about to be compared with a threshold it holds the   *)
(* length of the current run: it was reset after the garbage of its        *)
(* initialisation and cannot have wrapped since.                           *)
CountersInv ==
  /\ state = "NO_ALARM" => consecutiveMotions = 0 /\ motionRun = 0
  /\ state = "PRE_ALARM" =>
       consecutiveMotions = motionRun /\ PreAlarmIsYoung
  /\ state = "ALARM" =>
       /\ consecutiveNoMotion = stillRun
       /\ stillRun < NumNoMotionToConsider \/ stillRun = 0
  /\ state = "NO_MOTION" =>
       /\ consecutiveNoMotion = stillRun
       /\ stillRun < NumNoMotionToStopAlarm \/ stillRun = 1

(* curr_ and prevDiff_ are what the pictures since reset make them.        *)
PicturesInv ==
  /\ curr = seen[3]
  /\ seen[3] = NoPicture => seen[2] = NoPicture
  /\ seen[2] = NoPicture => seen[1] = NoPicture
  /\ prevDiff = IF seen[2] = NoPicture THEN NoPicture
                ELSE AbsDiff(seen[2], seen[3])

IInv == TypeOK /\ CountersInv /\ PicturesInv /\ VerdictFromThreePictures

-----------------------------------------------------------------------------
LEMMA DifferenceType ==
  ASSUME NEW p \in Pictures, NEW q \in Pictures
  PROVE  AbsDiff(p, q) \in Differences
  BY DEF Differences

LEMMA SeeType ==
  ASSUME TypeOK, NEW p \in Pictures, See(p)
  PROVE  /\ seen' \in [1 .. 3 -> Pictures \cup {NoPicture}]
         /\ seen'[1] = seen[2] /\ seen'[2] = seen[3] /\ seen'[3] = p
  BY DEF TypeOK, See

LEMMA TypeStep == TypeOK /\ [Next]_vars => TypeOK'
<1> SUFFICES ASSUME TypeOK, [Next]_vars PROVE TypeOK'
  OBVIOUS
<1> USE UnsignedAssumption DEF TypeOK, Unsigned, States
<1>1. ASSUME NEW p \in Pictures, FirstPicture(p) PROVE TypeOK'
  BY <1>1, SeeType DEF FirstPicture
<1>2. ASSUME NEW p \in Pictures, SecondPicture(p) PROVE TypeOK'
  BY <1>2, SeeType, DifferenceType DEF SecondPicture
<1>3. ASSUME NEW p \in Pictures, NextPicture(p) PROVE TypeOK'
  <2>1. seen' \in [1 .. 3 -> Pictures \cup {NoPicture}] /\ curr' \in Pictures
    BY <1>3, SeeType DEF NextPicture
  <2>2. prevDiff' \in Differences
    BY <1>3, DifferenceType DEF NextPicture
  <2>3. /\ verdict' \in {"motion", "still"}
        /\ motionRun' \in Unsigned /\ stillRun' \in Unsigned
    BY <1>3 DEF NextPicture, Judge, Longer
  <2>4. OnMotionDetected \/ OnNoMotion
    BY <1>3 DEF NextPicture
  <2>5. /\ consecutiveMotions' \in Unsigned
        /\ consecutiveNoMotion' \in Unsigned
        /\ state' \in States
    BY <2>4 DEF OnMotionDetected, OnNoMotion, StateWhenStill, Increment
  <2>. QED
    BY <2>1, <2>2, <2>3, <2>5
<1>4. CASE Reset
  BY <1>4 DEF Reset, Unseen
<1>5. CASE UNCHANGED vars
  BY <1>5 DEF vars, code, history
<1>. QED
  BY <1>1, <1>2, <1>3, <1>4, <1>5 DEF Next, ExaminePicture

(* State, counters, pictures and history keep their types; the counters    *)
(* stay unsigned whatever wraps.                                           *)
THEOREM TypeCorrect == Spec => []TypeOK
<1>1. Init => TypeOK
  BY UnsignedAssumption DEF Init, TypeOK, Unsigned, States, Unseen
<1>. QED
  BY <1>1, TypeStep, PTL DEF Spec

-----------------------------------------------------------------------------
LEMMA CountersStep ==
  TypeOK /\ CountersInv /\ [Next]_vars => CountersInv'
<1> SUFFICES ASSUME TypeOK, CountersInv, [Next]_vars PROVE CountersInv'
  OBVIOUS
<1> USE UnsignedAssumption, ThresholdAssumption
    DEF TypeOK, Unsigned, States, CountersInv, PreAlarmIsYoung
<1>1. ASSUME NEW p \in Pictures, FirstPicture(p) \/ SecondPicture(p)
      PROVE  CountersInv'
  BY <1>1 DEF FirstPicture, SecondPicture
<1>2. ASSUME NEW p \in Pictures, NextPicture(p) PROVE CountersInv'
  <2>1. CASE OnMotionDetected /\ Judge(TRUE)
    BY <2>1 DEF OnMotionDetected, Judge, Longer, Increment
  <2>2. CASE OnNoMotion /\ Judge(FALSE)
    BY <2>2 DEF OnNoMotion, StateWhenStill, Judge, Longer, Increment
  <2>. QED
    BY <1>2, <2>1, <2>2 DEF NextPicture, Judge
<1>3. CASE Reset
  BY <1>3 DEF Reset
<1>4. CASE UNCHANGED vars
  BY <1>4 DEF vars, code, history
<1>. QED
  BY <1>1, <1>2, <1>3, <1>4 DEF Next, ExaminePicture

LEMMA PicturesStep ==
  /\ TypeOK /\ PicturesInv /\ VerdictFromThreePictures /\ [Next]_vars
  => PicturesInv' /\ VerdictFromThreePictures'
<1> SUFFICES ASSUME TypeOK, PicturesInv, VerdictFromThreePictures, [Next]_vars
             PROVE  PicturesInv' /\ VerdictFromThreePictures'
  OBVIOUS
<1> USE NoPictureAssumption DEF PicturesInv, VerdictFromThreePictures
<1>0. /\ curr \in Pictures \cup {NoPicture}
      /\ seen \in [1 .. 3 -> Pictures \cup {NoPicture}]
  BY DEF TypeOK
<1>1. ASSUME NEW p \in Pictures, FirstPicture(p)
      PROVE  PicturesInv' /\ VerdictFromThreePictures'
  BY <1>0, <1>1, SeeType DEF FirstPicture
<1>2. ASSUME NEW p \in Pictures, SecondPicture(p)
      PROVE  PicturesInv' /\ VerdictFromThreePictures'
  <2>1. AbsDiff(curr, p) # NoPicture
    BY <1>0, <1>2, DifferenceType DEF SecondPicture
  <2>2. seen[3] # NoPicture /\ seen[2] = NoPicture
    BY <1>0, <1>2, DifferenceType DEF SecondPicture
  <2>. QED
    BY <1>2, <2>1, <2>2, SeeType DEF SecondPicture
<1>3. ASSUME NEW p \in Pictures, NextPicture(p)
      PROVE  PicturesInv' /\ VerdictFromThreePictures'
  <2>1. AbsDiff(curr, p) # NoPicture
    BY <1>0, <1>3, DifferenceType DEF NextPicture
  <2>2. /\ seen[3] # NoPicture /\ seen[2] # NoPicture
        /\ prevDiff = AbsDiff(seen[2], seen[3])
    BY <1>3 DEF NextPicture
  <2>3. verdict' = "motion" <=> Moved(seen[2], seen[3], p)
    BY <1>3, <2>2 DEF NextPicture, Judge, Moved
  <2>. QED
    BY <1>3, <2>1, <2>2, <2>3, SeeType DEF NextPicture
<1>4. CASE Reset
  BY <1>4 DEF Reset, Unseen
<1>5. CASE UNCHANGED vars
  BY <1>5 DEF vars, code, history, Moved
<1>. QED
  BY <1>1, <1>2, <1>3, <1>4, <1>5 DEF Next, ExaminePicture

-----------------------------------------------------------------------------
(* What the detector knows of the past is true at every step of every      *)
(* sequence of examinePicture and reset.                                   *)
THEOREM InvariantCorrect == Spec => []IInv
<1>1. Init => IInv
  BY UnsignedAssumption
     DEF Init, IInv, TypeOK, Unsigned, States, CountersInv, PreAlarmIsYoung,
         PicturesInv, VerdictFromThreePictures, Unseen
<1>2. IInv /\ [Next]_vars => IInv'
  BY TypeStep, CountersStep, PicturesStep DEF IInv
<1>. QED
  BY <1>1, <1>2, PTL DEF Spec

(* No picture of an earlier monitoring session takes part in a verdict.    *)
THEOREM VerdictsSound == Spec => []VerdictFromThreePictures
<1>1. IInv => VerdictFromThreePictures
  BY DEF IInv
<1>. QED
  BY <1>1, InvariantCorrect, PTL

(* The pre-alarm does not outlive the run of motions it counts.            *)
THEOREM PreAlarmSound == Spec => []PreAlarmIsYoung
<1>1. IInv => PreAlarmIsYoung
  BY DEF IInv, CountersInv, PreAlarmIsYoung
<1>. QED
  BY <1>1, InvariantCorrect, PTL

(* No alarm without a run of at least numPreAlarmMotions_ motions, and at  *)
(* least two.                                                              *)
THEOREM AlarmsJustified == Spec => AlarmNeedsMotion
<1>1. IInv /\ [Next]_vars =>
        [(state \in {"NO_ALARM", "PRE_ALARM"} /\ state' = "ALARM") =>
           motionRun' >= NumPreAlarmMotions /\ motionRun' >= 2]_vars
  <2> SUFFICES ASSUME IInv, Next,
                      state \in {"NO_ALARM", "PRE_ALARM"}, state' = "ALARM"
               PROVE  motionRun' >= NumPreAlarmMotions /\ motionRun' >= 2
    OBVIOUS
  <2> USE UnsignedAssumption, ThresholdAssumption
      DEF IInv, TypeOK, Unsigned, CountersInv, PreAlarmIsYoung
  <2>1. PICK p \in Pictures : NextPicture(p)
    BY DEF Next, ExaminePicture, FirstPicture, SecondPicture, Reset
  <2>2. OnMotionDetected /\ Judge(TRUE)
    BY <2>1 DEF NextPicture, OnNoMotion, StateWhenStill, Judge
  <2>. QED
    BY <2>2 DEF OnMotionDetected, Judge, Longer, Increment
<1>. QED
  BY <1>1, InvariantCorrect, PTL DEF Spec, AlarmNeedsMotion

(* No alarm is called off before enough still pictures in a row.           *)
THEOREM AlarmsPersist == Spec => AlarmOutlastsMotion
<1> DEFINE Outlasts ==
      /\ (state = "ALARM" /\ state' # "ALARM") =>
           stillRun' >= NumNoMotionToConsider
      /\ (state \in {"ALARM", "NO_MOTION"} /\ state' = "NO_ALARM") =>
           stillRun' >= NumNoMotionToStopAlarm
<1>1. IInv /\ [Next]_vars => [Outlasts]_vars
  <2> SUFFICES ASSUME IInv, Next, state' # state,
                      state \in {"ALARM", "NO_MOTION"}
               PROVE  Outlasts
    OBVIOUS
  <2> USE UnsignedAssumption, ThresholdAssumption
      DEF IInv, TypeOK, Unsigned, CountersInv
  <2>1. PICK p \in Pictures : NextPicture(p)
    BY DEF Next, ExaminePicture, FirstPicture, SecondPicture, Reset
  <2>2. CASE OnMotionDetected
    BY <2>2 DEF OnMotionDetected
  <2>3. CASE OnNoMotion /\ Judge(FALSE)
    BY <2>3 DEF OnNoMotion, StateWhenStill, Judge, Longer, Increment
  <2>. QED
    BY <2>1, <2>2, <2>3 DEF NextPicture, Judge
<1>. QED
  BY <1>1, InvariantCorrect, PTL DEF Spec, AlarmOutlastsMotion
=============================================================================
