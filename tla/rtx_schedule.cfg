\* The heap, with up to five tasks and three priorities, against a line per
\* priority.
CONSTANTS
  MAX_TASKS  = 5
  TID_KCD    = 4
  Priorities = {100, 101, 102}
  Boots      <- Boot4
  Calls      <- SchedCalls
  Contents    = {"data"}
  Outsized    = {}
  Overcommit  = FALSE
  RaiseBehind = FALSE
  MaxWaiting = 1
  MaxKeys    = 0
SPECIFICATION Spec
INVARIANTS QueueExact HeapOrdered
PROPERTIES Scheduled
