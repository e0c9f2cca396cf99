\* Every program of five words over the word 0, two other branches and one
\* word that is none, behind two words of GUID.
CONSTANTS
  Zero = Zero
  Word = {Zero, stop, br, other}
  IsBrach = {Zero, stop, br}
  Begin = 2
  End = 7
SPECIFICATION FairSpec
INVARIANTS
  BlocksTile
  BlocksStraight
  NothingLost
PROPERTY Terminates
CHECK_DEADLOCK FALSE
