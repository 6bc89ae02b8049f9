SPECIFICATION Spec
CONSTANTS
  Frames = {f1, f2}
  FwFrame = fw
  Idle = idle
  NoFrame = null
  NQ = 2
  NV = 1
  MaxRates = 2
  FwQueue = 0
  Supers <- RetrySupers
  Outcomes = {"ok", "TXFAIL", "BAFAIL"}
  Beacons = FALSE
  PeerBars = TRUE
INVARIANTS FrameInOnePlace NoForgottenCompletion HaltedAtFailure OrderKept AmpduPrevLive
PROPERTIES ServiceSpec RetriesClosed
CHECK_DEADLOCK TRUE
