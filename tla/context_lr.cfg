\* A task that is interrupted: the registers that no stack holds.
CONSTANTS
  UserTasks   = {"u1", "u2"}
  KernelTasks = {"null", "k1"}
  NullTask    = "null"
  Versions    = {1}
  MaxLive     = 3
SPECIFICATION Spec
PROPERTIES LinkRegisterKept
