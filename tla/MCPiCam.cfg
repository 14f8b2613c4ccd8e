SPECIFICATION FairSpec
CONSTANTS
  Buffer = {b1, b2, b3}
  NoBuffer = NoBuffer
  Oldest = 4
  MaxFailures = 2
INVARIANTS OneOwner
PROPERTIES FrameIsRecent FramesKeepComing CleansUp
CHECK_DEADLOCK FALSE
