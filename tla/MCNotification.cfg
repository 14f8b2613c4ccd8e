SPECIFICATION FairSpec
CONSTANTS
  Task <- MCTask
  Observers <- MCObservers
  Contacts <- MCContacts
  Period <- MCPeriod
  Client = {Camera, Starter}
  Camera = Camera
  Starter = Starter
  Loop = Loop
  Owner = Owner
  NoTask = NoTask
  Nobody = Nobody
  FirstDay = "firstDay"
  EveryDay = "everyDay"
  AtOnce = {"mail"}
  Longest = 2
  MinDelay = 1
  Recheck = 1
  Day = 2
  Tomorrow = 1
  MaxPending = 1
INVARIANTS NoOversleep TopIsThere CameraNeverWaits
PROPERTIES RechecksRunOut ImplementsScheduler ResultIsFetched StopReturns
CHECK_DEADLOCK FALSE
