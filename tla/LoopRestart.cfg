SPECIFICATION FairSpec
CONSTANTS
  Clients = {c1}
  BusThread = BusThread
  Nobody = Nobody
  Ops = {"prepare", "start", "setLooping"}
  Careful = TRUE
  BadInputs = {}
  Creations = {"ok"}
  Announced = {}
  MaxBacklog = 1
PROPERTIES
  LoopStartsAgain
CHECK_DEADLOCK FALSE
