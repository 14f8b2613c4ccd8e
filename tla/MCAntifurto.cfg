SPECIFICATION Spec
CONSTANTS
  Commands = {"startMonitoring", "stopMonitoring", "startLiveView", "stopLiveView"}
  Cameras = {k1, k2}
  Stoppers = {s1, s2}
  Main = Main
  Starter = Starter
  None = None
  Dangling = Dangling
INVARIANTS StoppedMeansStopped
PROPERTIES CancelledStartIsCancelled NoMonitorLeftBehind
CHECK_DEADLOCK FALSE
SYMMETRY Symmetry
