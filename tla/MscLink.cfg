CONSTANTS
  Modes = {"irq", "thread", "polling"}
  Blocks = 3
  BlkSize = 2
  BufSize = 4
  InfoLen = 1
  U32 = 16
  U16 = 4
  Faults = {"sector", "reset", "recover"}
  UserCalls <- UserCallsMC
  MaxChecks = 1
SPECIFICATION Spec
INVARIANTS TypeOK OneToken InStep NothingFails
PROPERTIES Storage Mounts
