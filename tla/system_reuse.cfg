\* A command for a task that has exited.
CONSTANTS
  MAX_TASKS  = 4
  TID_KCD    = 3
  Priorities = {100, 101, 102, 103}
  Boots      <- ReuseBoots
  Calls      <- AllCalls
  Contents   <- AllContents
  Outsized   <- LongCommands
  Overcommit  = FALSE
  RaiseBehind = FALSE
  MaxWaiting = 3
  MaxKeys    = 6
  Programs   <- ReusePrograms
  Configs    <- OnlyReuse
  Chars      = {"%", "a"}
  Percent    = "%"
  LONGEST    = 2
  Texts      <- Typing
SPECIFICATION SysSpec
PROPERTIES CommandToRegistrant
