SPECIFICATION Spec
CONSTANTS
  Pictures = {{}, {p1}}
  MinMotionPixels = 1
  NumPreAlarmMotions = 3
  NumNoMotionToConsider = 4
  NumNoMotionToStopAlarm = 20
  MaxUnsigned = 21
  NoPicture = NoPicture
INVARIANTS FourEqualFramesEndAlarm
