\* A program adds, removes, synchronises and lets the tasklet run.
SPECIFICATION FairSpec
CONSTANTS
  NumNodes = 3
  Blinks <- BlinkSet
  Corner = FALSE
INVARIANTS Linked Phase InStep
PROPERTY TaskletEnds
