CONSTANTS
  Msb = 8
  HalfMsb = 2
SPECIFICATION MCSpec
INVARIANTS
  SumIsRight
  DifferenceIsRight
  CarryOutExcept
  BorrowOutExcept
  ProductsWhole
  SfiUnlessBorrow
  HalvesMisplaced
CHECK_DEADLOCK FALSE
