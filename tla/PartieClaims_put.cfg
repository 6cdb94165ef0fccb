SPECIFICATION Spec
CONSTANTS
  NB_COUP_MAX = 3
  Terrain = {1, 2, 3, 4, 5}
  Own = {"NORD"}
INVARIANT PutLooksForKodama
