SPECIFICATION FairSpec
CONSTANTS
  Clients = {monitor}
  Periods = {1}
  MaxPeriod = 9
  MaxId = 1
  Camera = Camera
  Nobody = Nobody
PROPERTIES ObserverGetsPictures
