SPECIFICATION FairSpec
CONSTANTS
  Clients = {c1, c2}
  BusThread = BusThread
  Nobody = Nobody
  Ops = {"prepare", "start", "stop", "pause", "seekTo", "delete"}
  Careful = FALSE
  BadInputs = {}
  Creations = {"ok"}
  Announced = {}
  MaxBacklog = 1
INVARIANTS
  WaitersGetTheirState
  MutexIsReleased
  NoUseAfterFree
PROPERTIES
  PreparedMeansPaused
  MailSpec
  MailServed
  CallsReturn
  DeleteTerminates
