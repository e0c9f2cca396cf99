CONSTANTS
  Reg = {0, 1}
  Lines = 4
  Imm10 = {0, 1, 1023}
  Imm16 = {5, 65535}
SPECIFICATION MCSpec
PROPERTIES
  StoreSpec
  BytesReversedExcept
