CONSTANTS
  NoType = NoType
  NoMnemonic = NoMnemonic
  Dummy = Dummy
  None = None
  Inputs <- MCInputs
  Words <- MCWords
  IP = 264
SPECIFICATION Spec
INVARIANTS
  AssemblesPictured
  ReadsBack
  ComponentsAreTheWord
  PseudoShowsOperands
CHECK_DEADLOCK FALSE
