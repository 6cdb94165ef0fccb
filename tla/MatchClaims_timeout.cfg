SPECIFICATION Spec
CONSTANT NB_COUP_MAX = 2
PROPERTY TimeoutIsTold
