SPECIFICATION Spec
CONSTANTS
  NB = 2
  MaxFrag = 1
  Outcomes = {"ok"}
  FwFrames = TRUE
INVARIANTS ReservedHome
PROPERTIES PipeSpec
CHECK_DEADLOCK TRUE
