\* Tasks are created although every TCB is in use.
CONSTANTS
  MAX_TASKS  = 4
  TID_KCD    = 3
  Priorities = {100, 101}
  Boots      <- Boot3
  Calls      <- AllCalls
  Contents    = {"data"}
  Outsized    = {}
  Overcommit  = TRUE
  RaiseBehind = FALSE
  MaxWaiting = 1
  MaxKeys    = 0
SPECIFICATION Spec
PROPERTIES NoTaskBeyondCapacity
