CONSTANTS
  NoType = NoType
  NoMnemonic = NoMnemonic
  Dummy = Dummy
  UInt = 65536
  Begin = 1
  End = 4
  Programs <- MCPrograms
  Garbage <- MCGarbage
SPECIFICATION Spec
INVARIANTS
  GatheredRight
  IfsAreSimple
  TextsRight
  OutOfBounds
CHECK_DEADLOCK FALSE
