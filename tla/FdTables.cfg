\* Programs that open, close, nest and fail as they like, and that execute
\* files that are no executables.
SPECIFICATION Spec
CONSTANTS
  NumProcs = 2
  NumFds = 4
  OpenKinds = {"rtc", "file"}
  Length = 1
  MaxIndex = 0
INVARIANTS ActiveReserved Nested OpenReadable
PROPERTY TableSpec
