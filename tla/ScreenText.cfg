\* Programs print and the user types, erases, tabs, clears and changes
\* terminals in any order.  A fault stops the machine, hence no deadlock check.
SPECIFICATION Spec
CONSTANTS
  NumTerms = 2
  Cols = 3
  Rows = 2
  PageCells = 7
  Word = 65536
  Glyphs = {"a"}
  TabWidth = 2
  BufLen = 4
  MaxY = 3
  MaxMess = 2
INVARIANTS TypeOK Clean
PROPERTIES TextShown Restored
CHECK_DEADLOCK FALSE
