SPECIFICATION Spec
CONSTANTS
  NB_COUP_MAX = 5
  Terrain = {2, 5}
  Own = {"NORD"}
INVARIANTS PartieTypeOK BoardsAgree RefusedOnlyForCheck KingsStand MoveIsWritten PiecesConserved VerdictAllowed
PROPERTY IgnoresOnlyDrops
