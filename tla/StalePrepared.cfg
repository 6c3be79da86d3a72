SPECIFICATION Spec
CONSTANTS
  Clients = {c1}
  BusThread = BusThread
  Nobody = Nobody
  Ops = {"prepareAsync", "stop"}
  Careful = TRUE
  BadInputs = {}
  Creations = {"ok"}
  Announced = {}
  MaxBacklog = 2
PROPERTIES
  PreparedMeansPaused
