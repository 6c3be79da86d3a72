SPECIFICATION FairSpec
CONSTANTS
  Players = {p1, p2}
  Looping = {}
  Nobody = Nobody
  Client = Client
  MaxBacklog = 0
PROPERTIES
  InitializedOnce
