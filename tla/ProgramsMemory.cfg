\* Three PCBs, three terminals, programs with and without arguments.  A lost
\* processor stops.
SPECIFICATION Spec
CONSTANTS
  NumSlots = 3
  Terminals = 3
  Arguments <- MCArguments
INVARIANTS Isolated Provided ScreenOwned
CHECK_DEADLOCK FALSE
