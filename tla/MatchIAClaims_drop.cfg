SPECIFICATION IAMatchSpec
CONSTANTS
  NB_COUP_MAX = 2
  Own = {1}
  Mortal = {}
  Droppers = {2}
PROPERTY ReadsWholeMoves
