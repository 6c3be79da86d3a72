SPECIFICATION FairSpec
CONSTANTS
  Clients = {c1}
  BusThread = BusThread
  Nobody = Nobody
  Ops = {"setDataSource", "prepare", "prepareAsync", "start", "stop", "pause", "isPlaying", "seekTo"}
  Careful = TRUE
  BadInputs = {}
  Creations = {"ok"}
  Announced = {}
  MaxBacklog = 3
INVARIANTS
  SeekHasWitness
  PrepareHasWitness
  IsPlayingAgrees
PROPERTIES
  SeekAnswered
  PrepareAnswered
