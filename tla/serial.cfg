\* Two tasks in user mode and one in kernel mode, on both boards.
CONSTANTS
  Boards      = {"DE1_SoC_A9", "VE_A9"}
  UserTasks   = {"u1", "u2"}
  KernelTasks = {"k1"}
  Readers     = {"u1"}
  LinesRead  <- PolledLines
  Depth      <- ShortFifos
  MaxStrings <- Once
  MaxLength   = 2
  MaxKeys    <- TwoKeys
  MaxErrors   = 1
SPECIFICATION FairSpec
INVARIANTS TypeOK EchoedAsTyped LostOnlyIfCut StringsWhole 
PROPERTIES WaitsEnd
