SPECIFICATION FairSpec
CONSTANTS
  Frames = {f1, f2}
  FwFrame = fw
  Idle = idle
  NoFrame = null
  NQ = 1
  NV = 2
  MaxRates = 2
  FwQueue = 0
  Supers <- MixedSupers
  Outcomes = {"ok", "TXFAIL", "BAFAIL"}
  Beacons = TRUE
  PeerBars = FALSE
INVARIANTS CountersAgree
PROPERTIES LaterCabWaits EveryFrameReported
CHECK_DEADLOCK TRUE
