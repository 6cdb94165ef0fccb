SPECIFICATION IAMatchSpec
CONSTANTS
  NB_COUP_MAX = 2
  Own = {1}
  Mortal = {1}
  Droppers = {}
PROPERTY MovesComeFromTheAI
