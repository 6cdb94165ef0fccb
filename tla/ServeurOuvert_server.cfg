SPECIFICATION OpenSpec
CONSTANTS
  NB_COUP_MAX = 2
  MaxAhead = 2
INVARIANTS OpenTypeOK BlamedLoses SameSides AnswerCarriesVerdict
PROPERTIES ImplementsTwoGames MatchTerminates CallsRunOut
CHECK_DEADLOCK FALSE
