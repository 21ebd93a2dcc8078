\* Two user-mode tasks and a kernel-mode one beside the null task.
CONSTANTS
  UserTasks   = {"u1", "u2"}
  KernelTasks = {"null", "k1"}
  NullTask    = "null"
  Versions    = {1}
  MaxLive     = 3
SPECIFICATION Spec
INVARIANTS TypeOK OwnStack UserTasksInterrupted StackPointerReported
PROPERTIES ResumesAsLeft
