SPECIFICATION Spec
CHECK_DEADLOCK FALSE
CONSTANTS
  None = None
  Surfaces = {window}
  MaxNegotiations = 3
  Caps <- Pictures
  Failures = {"surface", "heap", "register"}
INVARIANTS
  TypeOK
  RegistrationsAreLive
  PicturesFit
  NoTearing
  PicturesAreSeen
