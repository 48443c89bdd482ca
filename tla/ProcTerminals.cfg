\* Three terminals; interrupts arrive in user mode or while terminal_read spins.
SPECIFICATION FairSpec
CONSTANTS
  NumProcs = 3
  NumTerms = 3
  Files = {"elf", "missing"}
  BaseExits = TRUE
  Faults = TRUE
  Preempt = FALSE
  MaxDepth = 6
INVARIANTS PidIsLatest LatestActive
PROPERTIES RestoresParent
CHECK_DEADLOCK FALSE
