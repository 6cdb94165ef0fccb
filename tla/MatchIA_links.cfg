SPECIFICATION IAMatchSpec
CONSTANTS
  NB_COUP_MAX = 2
  Own = {1, 2}
  Mortal = {1}
  Droppers = {}
INVARIANTS IAMatchTypeOK WordsInStep MoveIsFresh OneMoveAtATime OnlyFirstMoveLost
PROPERTY AllStepsRunOut
