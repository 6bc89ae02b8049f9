SPECIFICATION FairSpec
CONSTANTS
  NBA = 2
  NRX = 2
  Ap = ap
  Other = other
  Stations = {ap, other}
  Own = own
  Everyone = everyone
  Zero = zero
  NoBar = none
  MaxPsm = 2
  Users = {16, 17}
  Keys = {1, 2}
  Parts = {"air", "sleep", "usb", "radio", "keys"}
  Air <- AirFrames
  Night <- NightFrames
  Filters <- FilterSets
  WolCmds <- Commands
  Setups <- Requests
INVARIANTS Consistent
PROPERTIES BaBeforeBar WakeJustified HostWoken
CHECK_DEADLOCK TRUE
