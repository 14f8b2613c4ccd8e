SPECIFICATION FairSpec
CONSTANTS
  Clients = {monitor, liveView}
  Periods = {1, 2}
  MaxPeriod = 9
  MaxId = 3
  Camera = Camera
  Nobody = Nobody
INVARIANTS TrueClearIsFinal RateSuitsObservers
PROPERTIES WalkIsUndisturbed JoinReturns
