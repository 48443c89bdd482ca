\* Several directories, and two descriptors on files of up to three blocks.
SPECIFICATION Spec
CONSTANTS
  MAX_DATA = 2
  STR_LEN = 2
  MAX_INDEX = 4
  Entries = 3
  DataBlocks = {0, 1}
  Inodes = {0, 1}
  Lengths = {0, 1, 4, 5}
  Dirs <- MCDirs
  Names <- MCNames
  Requests = {1, 3, 4}
  Fds = {2, 3}
INVARIANTS TypeOK Streams Listing Finds
