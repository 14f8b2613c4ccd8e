SPECIFICATION FairSignalSpec
CONSTANTS
  Commands = {"startMonitoring", "stopMonitoring"}
  Cameras = {k1, k2}
  Stoppers = {s1, s2}
  Main = Main
  Starter = Starter
  None = None
  Dangling = Dangling
  SIGINT = 2
  SIGUSR1 = 10
  SIGUSR2 = 12
  SIGTERM = 15
  CmdLines <- Given
  ConfigFiles <- Stored
INVARIANTS OneCamera NoSignalLost
PROPERTIES SignalsObeyed StartTakesEffect
CHECK_DEADLOCK FALSE
