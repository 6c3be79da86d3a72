SPECIFICATION Spec
CONSTANTS
  Clients = {c1, c2}
  BusThread = BusThread
  Nobody = Nobody
  Ops = {"setDataSource", "setDataSourceFd", "setVideoSurface", "prepare", "prepareAsync", "start", "stop", "pause", "isPlaying", "seekTo", "query", "setLooping", "delete"}
  Careful = FALSE
  BadInputs = {"url", "fd", "audiosink", "surface"}
  Creations = {"ok", "noplaybin", "nothread"}
  Announced = {"error", "buffering", "other"}
  MaxBacklog = 1
INVARIANTS
  TypeOK
  JoinCanEnd
PROPERTIES
  OnlyTheOwnerUnlocks
SYMMETRY Symmetry
CHECK_DEADLOCK FALSE
