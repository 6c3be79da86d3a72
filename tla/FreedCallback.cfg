SPECIFICATION FairSpec
CONSTANTS
  Players = {p1, p2}
  Looping = {}
  Nobody = Nobody
  Client = Client
  MaxBacklog = 1
INVARIANTS
  NoCallbackAfterFree
