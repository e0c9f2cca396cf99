CONSTANTS
  HeaderSize = 2
  MachineAt = 1
  MaxReplaced = 1
  Handle = {h1}
  View = {v1}
  NULL = NULL
  NoImage = NoImage
  Contents <- MCContents
  Replacements <- MCReplacements
  Noise <- MCNoise
SPECIFICATION Spec
INVARIANTS
  ScanFinds
  ListingsMatch
  CacheReleased
CHECK_DEADLOCK FALSE
