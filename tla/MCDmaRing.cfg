SPECIFICATION FairSpec
CONSTANTS
  NB = 2
  MaxFrag = 2
  Outcomes = {"ok", "TXFAIL", "BAFAIL"}
  FwFrames = FALSE
INVARIANTS Inv NoTornDescriptor NoLostWakeup
PROPERTIES PipeSpec BuffersReturn
CHECK_DEADLOCK TRUE
