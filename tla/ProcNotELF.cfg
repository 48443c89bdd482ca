\* A command may name a file that is not an executable.
SPECIFICATION FairSpec
CONSTANTS
  NumProcs = 3
  NumTerms = 1
  Files = {"elf", "data"}
  BaseExits = FALSE
  Faults = FALSE
  Preempt = FALSE
  MaxDepth = 6
INVARIANT UserOwnsCpu
CHECK_DEADLOCK FALSE
