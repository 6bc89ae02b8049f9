SPECIFICATION Spec
CONSTANTS
  NBA = 2
  NRX = 2
  Ap = ap
  Other = other
  Stations = {ap, other}
  Own = own
  Everyone = everyone
  Zero = zero
  NoBar = none
  MaxPsm = 2
  Users = {16, 17}
  Keys = {1, 2}
  Parts = {"sleep"}
  Air <- AirFrames
  Night <- NightFrames
  Filters <- FilterSets
  WolCmds <- Commands
  Setups <- Requests
PROPERTIES LostOnlyWithoutBeacon
CHECK_DEADLOCK TRUE
