CONSTANT Programs <- MCPrograms
SPECIFICATION Spec
INVARIANTS FormsAgree InsertThenShuffle
PROPERTY AsPictured
CHECK_DEADLOCK FALSE
