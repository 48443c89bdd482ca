\* From power-on: three devices, the base shell, another terminal and programs.
SPECIFICATION FairSpec
CONSTANTS
  MaxCount = 2
  NumSlots = 3
  Terminals = 2
  EarlySwitch = FALSE
INVARIANTS Acknowledged Ready
PROPERTIES Counts Served
