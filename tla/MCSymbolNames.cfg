CONSTANT
  Images <- MCImages
SPECIFICATION NamesSpec
INVARIANTS
  NamesFound
CHECK_DEADLOCK FALSE
