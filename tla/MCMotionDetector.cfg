SPECIFICATION FairSpec
CONSTANTS
  Pictures = {{}, {p1}, {p2}, {p1, p2}}
  MinMotionPixels = 1
  NumPreAlarmMotions = 3
  NumNoMotionToConsider = 2
  NumNoMotionToStopAlarm = 4
  MaxUnsigned = 5
  NoPicture = NoPicture
INVARIANTS VerdictFromThreePictures PreAlarmIsYoung
PROPERTIES AlarmNeedsMotion AlarmOutlastsMotion StillnessEndsAlarm
