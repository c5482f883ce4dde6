CONSTANTS
  MaxConns = 2
  MaxFrames = 2
  FrameLen <- MCFrameLen
  RingSize = 5
  PhoneLen <- MCPhoneLen
  MaxData = 2
  RecvSize = 5
  MaxBusy = 1
  MaxCtrl = 1
  OneWay = TRUE
  SlowReopen = TRUE
CHECK_DEADLOCK FALSE
SPECIFICATION FairSpec
INVARIANTS TypeOK StateFollowsStack HostInformed RingLossless PhoneFrameFits
PROPERTIES NoStaleFrames AdvertisingResumes FramesLeave PhoneFramesIntact PhoneFramesArrive
