SPECIFICATION Spec
CONSTANTS
  N = 3
  Lens = {0, 60}
  Room = 80
  MaxMsgs = 6
PROPERTIES PackedInOrder
CHECK_DEADLOCK TRUE
