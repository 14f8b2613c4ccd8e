SPECIFICATION FairSpec
CONSTANTS
  Camera = Camera
  Recorder = Recorder
  Scheduler = Scheduler
  Nobody = Nobody
  RecordCapacity = 2
  UploadCapacity = 1
  RecordBuffer = 2
  MaxDays = 1
  MaxInt = 3
  MaxPictures = 4
  LastDay = 3
  MaxRetries = 2
INVARIANTS EachFileOnce RecentKept RecordingFolderSurvives
CHECK_DEADLOCK FALSE
PROPERTIES OlderPicturesUploaded
