\* The whole kernel on three tasks beside the null task.
CONSTANTS
  MAX_TASKS  = 4
  TID_KCD    = 3
  Priorities = {100, 101}
  Boots      <- Boot3
  Calls      <- AllCalls
  Contents    = {"data"}
  Outsized    = {}
  Overcommit  = FALSE
  RaiseBehind = FALSE
  MaxWaiting = 1
  MaxKeys    = 1
SPECIFICATION Spec
INVARIANTS TypeOK RunningIsFirst BlockedIsEmpty WokenHasMessage
PROPERTIES NoPreemptionByEquals WokenByMessage
