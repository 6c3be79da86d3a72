SPECIFICATION FairSpec
CHECK_DEADLOCK FALSE
CONSTANTS
  Volumes = {0, 70}
  DEFAULT_VOLUME = 70
  SegSize = 2
  MaxGuint = 1000
  None = None
INVARIANTS
  TypeOK
  InitIsKnown
  SilentUnlessPlaying
  PlayingSounds
  ControlsReachTheDevice
  WriterRunsOut
PROPERTIES
  ChangesEnd
