SPECIFICATION Spec
CONSTANTS
  NB = 2
  NQ = 1
  Stuck = 2
  Tries = 2
  Outcomes = {"ok", "TXFAIL", "BAFAIL"}
  Overruns = {TRUE, FALSE}
  Restarts = TRUE
INVARIANTS Inv Recovers
PROPERTIES KillsOnlyStuck
CHECK_DEADLOCK TRUE
