CONSTANTS
  Reg = {0, 1}
  NoInsn = NoInsn
SPECIFICATION MCSpec
INVARIANTS
  ShiftsMove
  RotatesApart
  RotatesInPlace
CHECK_DEADLOCK FALSE
