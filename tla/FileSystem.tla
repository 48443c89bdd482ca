----------------------------- MODULE FileSystem -----------------------------
(***************************************************************************)
(* The read-only file system (filesystem.c) as a program sees it through   *)
(* descriptors: opening a name, reading a file in pieces of any size, and  *)
(* listing the directory.                                                  *)
(*                                                                         *)
(* The image is chosen in the initial state and never changes.  The byte   *)
(* at offset o of data block b is the pair <<b, o>>, so that two bytes are *)
(* the same only when they are read from the same place.                   *)
(***************************************************************************)
EXTENDS Integers, Sequences, FiniteSets

CONSTANTS
  MAX_DATA,     \* bytes in a data block (4096 in the code)
  STR_LEN,      \* characters of a name that count (32)
  MAX_INDEX,    \* entries the boot block has room for (63)
  Entries,      \* block numbers an inode has room for (1023)
  DataBlocks,   \* data blocks of the image
  Inodes,       \* inodes of the image, 0 .. inode_count - 1
  Lengths,      \* lengths of files
  Dirs,         \* directories: sequences of entries
  Names,        \* names programs open: sequences of characters
  Requests,     \* values of nbytes
  Fds           \* descriptors

Kinds == {"rtc", "dir", "file"}
Chars == STRING \ {"nul"}

ASSUME ConstantsAssumption ==
  /\ {MAX_DATA, STR_LEN, MAX_INDEX, Entries} \subseteq Nat \ {0}
  /\ DataBlocks \subseteq Nat
  /\ 0 \in Inodes /\ Inodes \subseteq Nat
  /\ Lengths \subseteq 0 .. Entries * MAX_DATA
  /\ \A d \in Dirs :
       /\ d \in Seq([name : Seq(Chars), type : Kinds, inode : Inodes])
       /\ Len(d) <= MAX_INDEX
       /\ \A i \in 1 .. Len(d) : Len(d[i].name) \in 1 .. STR_LEN
  /\ Names \subseteq Seq(Chars)
  /\ Requests \subseteq Nat \ {0}

VARIABLES
  direntries,   \* the directory of the image
  inode_entry,  \* the inodes of the image
  fd_arr        \* descriptors, with what a program has read from each

vars == <<direntries, inode_entry, fd_arr>>

\* Wild is what is no number of a block.
Wild == -1
Byte == (DataBlocks \cup {Wild}) \X (0 .. MAX_DATA - 1)

\* got, listed and ret are histories: the bytes and the names read, and what
\* the last call returned (None before the first).
None == -2
Closed == [kind |-> "none", name |-> <<>>, inode_num |-> 0, file_pos |-> 0,
           got |-> <<>>, listed |-> <<>>, ret |-> None]

Init ==
  /\ direntries \in Dirs
  /\ inode_entry \in [Inodes -> [length : Lengths,
                                 data_block : [0 .. Entries - 1 -> DataBlocks]]]
  /\ inode_entry[0].length = 0
  /\ fd_arr = [fd \in Fds |-> Closed]

-----------------------------------------------------------------------------
Clip(n, most) == IF n > most THEN most ELSE n

\* strncmp: the names agree up to the first difference, the first null or
\* STR_LEN.  The mutant stops at the end of the shorter name.
At(s, i) == IF i <= Len(s) THEN s[i] ELSE "nul"
SameName_Prefix(s, f) ==
  \A i \in 1 .. STR_LEN : i <= Len(s) /\ i <= Len(f) => s[i] = f[i]
SameName(s, f) ==
  \A i \in 1 .. STR_LEN :
    (\A j \in 1 .. i - 1 : At(s, j) = At(f, j) /\ At(s, j) # "nul")
      => At(s, i) = At(f, i)

\* read_dentry_by_name: the first entry of that name, 0 for none.
Matches(s) == {i \in 1 .. Len(direntries) : SameName(s, direntries[i].name)}
EntryNamed(s) ==
  IF Matches(s) = {} THEN 0
  ELSE CHOOSE i \in Matches(s) : \A j \in Matches(s) : i <= j

\* read_dentry_by_index: the name of the entry at an index from 0.  Unused
\* entries of the boot block are zero; behind the last is inode 0, which
\* begins with its length.
EntryAt(i) ==
  IF i < Len(direntries) THEN direntries[i + 1].name
  ELSE IF i < MAX_INDEX \/ inode_entry[0].length = 0 THEN <<>> ELSE <<"?">>

\* n bytes from one block, at the index-th block number of the inode.  The
\* numbers behind the inode's last are not numbers of blocks.
Piece(inode, index, at, n) ==
  [k \in 1 .. n |->
     <<IF index < Entries THEN inode_entry[inode].data_block[index] ELSE Wild,
       at + k - 1>>]

\* The loop of read_data: the rest of a block while it fits, then the rest of
\* the length.  The mutant stays in the first block.
Copied_SameBlock(inode, offset, length) ==
  LET copy[n \in 0 .. length] ==
        LET pos  == offset + length - n
            here == Clip(n, MAX_DATA - (pos % MAX_DATA))
        IN  IF n = 0 THEN <<>>
            ELSE Piece(inode, offset \div MAX_DATA, pos % MAX_DATA, here)
                   \o copy[n - here]
  IN  copy[length]
Copied(inode, offset, length) ==
  LET copy[n \in 0 .. length] ==
        LET pos  == offset + length - n
            here == Clip(n, MAX_DATA - (pos % MAX_DATA))
        IN  IF n = 0 THEN <<>>
            ELSE Piece(inode, pos \div MAX_DATA, pos % MAX_DATA, here)
                   \o copy[n - here]
  IN  copy[length]

\* read_data fails behind the last block, and otherwise returns the length it
\* was asked for.  The mutant takes the last block to be behind the last.
ReadData_Last(inode, offset, length) ==
  IF \/ inode \notin Inodes
     \/ offset \div MAX_DATA >= inode_entry[inode].length \div MAX_DATA
  THEN [ret |-> -1, bytes |-> <<>>]
  ELSE [ret |-> length, bytes |-> Copied(inode, offset, length)]
ReadData(inode, offset, length) ==
  IF \/ inode \notin Inodes
     \/ offset \div MAX_DATA > inode_entry[inode].length \div MAX_DATA
  THEN [ret |-> -1, bytes |-> <<>>]
  ELSE [ret |-> length, bytes |-> Copied(inode, offset, length)]

-----------------------------------------------------------------------------
\* open: the name is looked up; what has it gets a descriptor.
Open(fd, s) ==
  /\ fd_arr[fd].kind = "none"
  /\ LET e == EntryNamed(s) IN
       /\ e # 0
       /\ fd_arr' = [fd_arr EXCEPT ![fd] =
            [Closed EXCEPT !.kind = direntries[e].type, !.name = s,
                           !.inode_num = direntries[e].inode]]
  /\ UNCHANGED <<direntries, inode_entry>>

OpenFails(fd, s) ==
  /\ fd_arr[fd].kind = "none"
  /\ EntryNamed(s) = 0
  /\ fd_arr' = [fd_arr EXCEPT ![fd] = [Closed EXCEPT !.name = s, !.ret = -1]]
  /\ UNCHANGED <<direntries, inode_entry>>

Close(fd) ==
  /\ fd_arr[fd].kind # "none"
  /\ fd_arr' = [fd_arr EXCEPT ![fd] = Closed]
  /\ UNCHANGED <<direntries, inode_entry>>

\* filesystem_read: nothing at the end of the file, else read_data, and the
\* position moves by what it returns.
FileRead(fd, nbytes) ==
  LET f == fd_arr[fd]
      r == ReadData(f.inode_num, f.file_pos, nbytes)
  IN  /\ f.kind = "file"
      /\ fd_arr' = [fd_arr EXCEPT ![fd] =
           IF f.file_pos >= inode_entry[f.inode_num].length
           THEN [f EXCEPT !.ret = 0]
           ELSE [f EXCEPT !.ret = r.ret, !.file_pos = @ + r.ret,
                          !.got = @ \o r.bytes]]
      /\ UNCHANGED <<direntries, inode_entry>>

\* dir_read: the name at the position, which moves on even behind the last
\* entry, as long as read_dentry_by_index succeeds.  The mutant stays at the
\* first entry.
NextEntry_Stays(i) == i
NextEntry(i) == i + 1

DirRead(fd) ==
  LET f    == fd_arr[fd]
      name == EntryAt(f.file_pos)
  IN  /\ f.kind = "dir"
      /\ fd_arr' = [fd_arr EXCEPT ![fd] =
           IF f.file_pos > MAX_INDEX THEN [f EXCEPT !.ret = 0]
           ELSE [f EXCEPT !.ret = Len(name), !.file_pos = NextEntry(@),
                          !.listed = IF name = <<>> THEN @
                                     ELSE Append(@, name)]]
      /\ UNCHANGED <<direntries, inode_entry>>

Read(fd) == (\E n \in Requests : FileRead(fd, n)) \/ DirRead(fd)

Next ==
  \E fd \in Fds :
    \/ \E s \in Names : Open(fd, s) \/ OpenFails(fd, s)
    \/ Close(fd)
    \/ Read(fd)

Spec == Init /\ [][Next]_vars

-----------------------------------------------------------------------------
Descriptor ==
  [kind : Kinds \cup {"none"}, name : Seq(STRING), inode_num : Inodes,
   file_pos : Nat, got : Seq(Byte), listed : Seq(Seq(STRING)),
   ret : Int]

TypeOK ==
  /\ direntries \in Dirs
  /\ inode_entry \in [Inodes -> [length : Lengths,
                                 data_block : [0 .. Entries - 1 -> DataBlocks]]]
  /\ fd_arr \in [Fds -> Descriptor]

\* The bytes of a file, straight from its definition.
Content(inode) ==
  [k \in 1 .. inode_entry[inode].length |->
     <<inode_entry[inode].data_block[(k - 1) \div MAX_DATA],
       (k - 1) % MAX_DATA>>]

\* A file read in pieces of any size, through one descriptor or several, is
\* read from its first byte, in order, without a gap or a repetition; at the
\* end nothing of it is missing.
Streams ==
  \A fd \in Fds :
    LET f == fd_arr[fd]
        c == Content(f.inode_num)
        n == Clip(Len(f.got), Len(c))
    IN  f.kind = "file" =>
          /\ SubSeq(f.got, 1, n) = SubSeq(c, 1, n)
          /\ f.ret = 0 => n = Len(c)

\* Nothing else is read: "read data from file indicated by inode".  A read
\* that passes the end goes on behind it, so it does not hold.
Clipped ==
  \A fd \in Fds : fd_arr[fd].kind = "file" =>
    Len(fd_arr[fd].got) <= inode_entry[fd_arr[fd].inode_num].length

\* tests.c expects 0 when a whole file is read.  read_data returns the length,
\* so it does not hold.
WholeIsZero ==
  \A fd \in Fds : LET f == fd_arr[fd] IN
    f.kind = "file" /\ f.got # <<>> /\ f.got = Content(f.inode_num) => f.ret = 0

\* A descriptor of the directory lists the names in order, each once; when it
\* has returned 0 it has listed them all.
Listing ==
  \A fd \in Fds : LET f == fd_arr[fd] IN
    f.kind = "dir" =>
      /\ Len(f.listed) <= Len(direntries)
      /\ \A i \in 1 .. Len(f.listed) : f.listed[i] = direntries[i].name
      /\ f.ret = 0 => Len(f.listed) = Len(direntries)

\* open finds what is named, the first of that name, and only the STR_LEN
\* characters count; it fails only when nothing has that name.
Truncated(s) == SubSeq(s, 1, Clip(Len(s), STR_LEN))
Finds ==
  \A fd \in Fds : LET f == fd_arr[fd] IN
    /\ f.kind # "none" =>
         \E i \in 1 .. Len(direntries) :
           /\ direntries[i].name = Truncated(f.name)
           /\ direntries[i].inode = f.inode_num
           /\ \A j \in 1 .. i - 1 : direntries[j].name # Truncated(f.name)
    /\ f.ret = -1 =>
         \A i \in 1 .. Len(direntries) : direntries[i].name # Truncated(f.name)
=============================================================================
