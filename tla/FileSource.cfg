CHECK_DEADLOCK FALSE
SPECIFICATION Spec
CONSTANTS
  Lengths = {0, 1, 3}
  Sizes = {1, 2}
  MaxSources = 2
  MmapMayFail = FALSE
  PushMayFail = TRUE
  NoPull = NoPull
  Eos = Eos
  Nowhere = Nowhere
INVARIANTS
  TypeOK
  BuffersAreMapped
PROPERTIES
  FileSpec
