SPECIFICATION FairSpec
CONSTANT NB_COUP_MAX = 2
INVARIANTS
  TypeOK NeverGarbled MoveAdmissible WaitsForTheMover OneAtWork
  OneWinnerPerGame SameScore FinishedNotBlamed
PROPERTIES MatchEnds ClientsEnd StepsRunOut
