SPECIFICATION FairSpec
CONSTANTS
  N = 3
  Lens = {0, 60}
  Room = 80
  MaxMsgs = 6
INVARIANTS DescInOnePlace NoEmptyResponse CommandsMetered RingHoldsOwed
PROPERTIES RspStable CommandsResume EveryMessagePacked
CHECK_DEADLOCK TRUE
