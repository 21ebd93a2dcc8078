\* The tasks of ae.c.
CONSTANTS
  MAX_TASKS  = 7
  TID_KCD    = 6
  Priorities = {100, 101, 102, 103}
  Boots      <- AeAndLabBoots
  Calls      <- AllCalls
  Contents   <- AllContents
  Outsized   <- LongCommands
  Overcommit  = FALSE
  RaiseBehind = FALSE
  MaxWaiting = 3
  MaxKeys    = 6
  Programs   <- AppPrograms
  Configs    <- AeAndLab
  Chars      = {"%", "a"}
  Percent    = "%"
  LONGEST    = 2
  Texts      <- Typing
SPECIFICATION FairSpec
INVARIANTS SysTypeOK KeysInOrder LineAsTyped TableIsLatest
PROPERTIES KeysAreRead TakesTurn MailIsRead
