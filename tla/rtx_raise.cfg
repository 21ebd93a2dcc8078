\* Tasks raise others, but not above themselves.
CONSTANTS
  MAX_TASKS  = 5
  TID_KCD    = 4
  Priorities = {100, 101, 102}
  Boots      <- Boot4
  Calls      <- SchedCalls
  Contents    = {"data"}
  Outsized    = {}
  Overcommit  = FALSE
  RaiseBehind = TRUE
  MaxWaiting = 1
  MaxKeys    = 0
SPECIFICATION Spec
INVARIANTS RunningIsFirst
