CONSTANTS
  NoType = NoType
  NoMnemonic = NoMnemonic
  Dummy = Dummy
SPECIFICATION MCSpec
INVARIANTS
  DecodesExactly
  HandlersInPlace
  AnswersOfDecoder
