SPECIFICATION FairSpec
CONSTANTS
  Client = {c1, c2}
  NoMessage = NoMessage
  Capacity = 2
  Retries = 2
  Timeout = 1
  MaxInbox = 2
  MaxFailures = 1
INVARIANTS RequestsAlternate
PROPERTIES StopsIfIdle InactiveStops StopReturns
