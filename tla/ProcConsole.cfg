\* One console, valid programs, a base shell that never exits.
SPECIFICATION FairSpec
CONSTANTS
  NumProcs = 6
  NumTerms = 1
  Files = {"elf", "missing"}
  BaseExits = FALSE
  Faults = TRUE
  Preempt = FALSE
  MaxDepth = 6
INVARIANTS NeverWild UserOwnsCpu Chain ReturnsToParent ConsoleInv
PROPERTIES KernelReturns ConsoleSpec

