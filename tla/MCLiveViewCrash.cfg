SPECIFICATION Spec
CONSTANTS
  Commands = {"startLiveView", "stopLiveView"}
  Cameras = {k1, k2}
  Stoppers = {s1, s2}
  Main = Main
  Starter = Starter
  None = None
  Dangling = Dangling
INVARIANTS CameraIsThere
