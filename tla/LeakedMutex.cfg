SPECIFICATION FairSpec
CONSTANTS
  Clients = {c1}
  BusThread = BusThread
  Nobody = Nobody
  Ops = {"setDataSource", "delete"}
  Careful = TRUE
  BadInputs = {"url"}
  Creations = {"ok"}
  Announced = {}
  MaxBacklog = 1
PROPERTIES
  DeleteTerminates
CHECK_DEADLOCK FALSE
