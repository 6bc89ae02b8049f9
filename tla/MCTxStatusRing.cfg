SPECIFICATION FairSpec
CONSTANTS
  Statuses = {ok, failed, later}
  N = 4
  Splice = 3
INVARIANTS RingConsistent
PROPERTIES NoOverwrite FifoSpec Reported
CHECK_DEADLOCK TRUE
