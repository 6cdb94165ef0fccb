SPECIFICATION IAMatchSpec
CONSTANTS
  NB_COUP_MAX = 2
  Own = {1, 2}
  Mortal = {}
  Droppers = {}
PROPERTY SkipSparesMoves
