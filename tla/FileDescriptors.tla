-------------------------- MODULE FileDescriptors --------------------------
(***************************************************************************)
(* The descriptor tables of the processes and the system calls that use    *)
(* them (syscall_functions.c).  Every process has an array fd_arr in its   *)
(* PCB, initialised by execute and emptied by halt; one global, fd_ind,    *)
(* holds the descriptor the last open, of any process, returned, and read  *)
(* and write compare their argument with it.                               *)
(*                                                                         *)
(* The programs of one console nest; the order of the steps inside execute *)
(* and halt is the subject of ProcessControl.  A read or write transfers   *)
(* one unit.                                                               *)
(***************************************************************************)
EXTENDS Integers

CONSTANTS
  NumProcs,      \* PCBs (6 in the code)
  NumFds,        \* descriptors of a PCB (8 in the code)
  OpenKinds,     \* kinds of the files programs open
  Length,        \* units in a regular file
  MaxIndex       \* last directory index read_dentry_by_index accepts (63)

ASSUME ConstantsAssumption ==
  /\ NumProcs \in Nat \ {0}
  /\ NumFds \in Nat /\ NumFds > 2
  /\ OpenKinds \subseteq {"rtc", "dir", "file"}
  /\ Length \in Nat
  /\ MaxIndex \in Nat

Slots == 0 .. NumProcs - 1
Fds == 0 .. NumFds - 1
Files == Fds \ {0, 1}

\* kind stands for the four function pointers; "none" for null pointers.
Kinds == {"none", "stdin", "stdout"} \cup OpenKinds
Descriptor == [avail : BOOLEAN, kind : Kinds, pos : Nat]

VARIABLES
  pid,         \* the process system calls work on
  active,      \* slots marked active
  parent_pid,  \* parent of each slot
  fd_arr,      \* descriptors of each slot
  fd_ind,      \* what the last open returned
  reply,       \* history: the last call, its descriptor, its result
  tidy,        \* history: programs have closed their newest descriptor first
               \* and executed others only when they held none
  strayed      \* history: a program has executed a file that is no executable

vars == <<pid, active, parent_pid, fd_arr, fd_ind, reply, tidy, strayed>>

Calls == {"none", "open", "close", "read", "write", "execute", "halt"}
Results == {"fail", "zero", "data", "wild"}

TypeOK ==
  /\ pid \in Slots
  /\ active \subseteq Slots
  /\ parent_pid \in [Slots -> Slots]
  /\ fd_arr \in [Slots -> [Fds -> Descriptor]]
  /\ fd_ind \in Files
  /\ reply \in [op : Calls, fd : Int, res : Results]
  /\ tidy \in BOOLEAN
  /\ strayed \in BOOLEAN

\* PCBs are zero: no pointers, and avail = 0, which means in use.
Zero == [avail |-> FALSE, kind |-> "none", pos |-> 0]
Fresh(k) == [avail |-> FALSE, kind |-> k, pos |-> 0]

\* The descriptors execute leaves in a PCB whose array was a.  The mutant
\* fills the first only.
Fill_NoStdout(a) ==
  [f \in Fds |-> IF f = 0 THEN Fresh("stdin")
                 ELSE IF f = 1 THEN a[f] ELSE [a[f] EXCEPT !.avail = TRUE]]
Fill(a) ==
  [f \in Fds |-> IF f = 0 THEN Fresh("stdin")
                 ELSE IF f = 1 THEN Fresh("stdout")
                 ELSE [a[f] EXCEPT !.avail = TRUE]]

Said(op, fd, res) == [op |-> op, fd |-> fd, res |-> res]

\* The kernel has executed the base shell.
Init ==
  /\ pid = 0
  /\ active = {0}
  /\ parent_pid = [p \in Slots |-> 0]
  /\ fd_arr = [p \in Slots |-> LET zeros == [f \in Fds |-> Zero]
                               IN  IF p = 0 THEN Fill(zeros) ELSE zeros]
  /\ fd_ind = 2
  /\ reply = Said("none", -1, "fail")
  /\ tidy = TRUE
  /\ strayed = FALSE

-----------------------------------------------------------------------------
Avail(f) == fd_arr[pid][f].avail
Newest(f) == \A g \in Files : g > f => Avail(g)

Fails(op) ==
  /\ reply' = Said(op, -1, "fail")
  /\ UNCHANGED <<pid, active, parent_pid, fd_arr, fd_ind, tidy, strayed>>

\* open of a name that no directory entry has.
OpenMissing == Fails("open")

\* Mutants: any free descriptor; the position of the last file; the next
\* index.
FirstFree_Any(f) == Avail(f)
FirstFree(f) == Avail(f) /\ \A g \in Files : g < f => ~Avail(g)

Assign_KeepsPos(f, k) == [Fresh(k) EXCEPT !.pos = fd_arr[pid][f].pos]
Assign(f, k) == Fresh(k)

IndexAfterOpen_Next(f) == f + 1
IndexAfterOpen(f) == f

Open(f, k) ==
  /\ FirstFree(f)
  /\ fd_arr' = [fd_arr EXCEPT ![pid][f] = Assign(f, k)]
  /\ fd_ind' = IndexAfterOpen(f)
  /\ reply' = Said("open", f, "zero")
  /\ UNCHANGED <<pid, active, parent_pid, tidy, strayed>>

OpenFull ==
  /\ \A f \in Files : ~Avail(f)
  /\ Fails("open")

Close(f) ==
  /\ ~Avail(f)
  /\ fd_arr' = [fd_arr EXCEPT ![pid][f].avail = TRUE]
  /\ reply' = Said("close", f, "zero")
  /\ tidy' = (tidy /\ Newest(f))
  /\ UNCHANGED <<pid, active, parent_pid, fd_ind, strayed>>

\* Every integer is an argument; one on each side stands for the others.
CloseFails(f) ==
  /\ f \in Files => Avail(f)
  /\ Fails("close")

\* Mutant: the bound write has.
ReadAccepts_AsWrite(f) == f \in 0 .. fd_ind - 1 /\ ~Avail(f)
ReadAccepts(f) == f \in 0 .. fd_ind /\ ~Avail(f)

\* What the read function of the descriptor's file returns: the terminal a
\* line, which may be empty; the clock 0; a directory the length of a name,
\* which is 0 in an unused entry, and 0 after the last; a file its units, and
\* 0 after the last.  Standard output has invalid_function.
ReadResults(d) ==
  CASE d.kind = "none" -> {"wild"}
    [] d.kind = "stdin" -> {"zero", "data"}
    [] d.kind = "stdout" -> {"fail"}
    [] d.kind = "rtc" -> {"zero"}
    [] d.kind = "dir" -> IF d.pos > MaxIndex THEN {"zero"} ELSE {"zero", "data"}
    [] d.kind = "file" -> IF d.pos >= Length THEN {"zero"} ELSE {"data"}

\* Whether it advances file_pos.
Advances(d) ==
  \/ d.kind = "dir" /\ d.pos <= MaxIndex
  \/ d.kind = "file" /\ d.pos < Length

Read(f) ==
  /\ ReadAccepts(f)
  /\ fd_arr' = IF Advances(fd_arr[pid][f])
               THEN [fd_arr EXCEPT ![pid][f].pos = @ + 1]
               ELSE fd_arr
  /\ \E r \in ReadResults(fd_arr[pid][f]) : reply' = Said("read", f, r)
  /\ UNCHANGED <<pid, active, parent_pid, fd_ind, tidy, strayed>>

ReadFails(f) == ~ReadAccepts(f) /\ Fails("read")

WriteAccepts(f) == f \in 0 .. fd_ind - 1 /\ ~Avail(f)

\* What the write function returns.  terminal_write returns nothing, so the
\* caller sees whatever the register holds; rtc_write fails for most values;
\* files are read-only, and a directory takes everything.
WriteResults(d) ==
  CASE d.kind = "none" -> {"wild"}
    [] d.kind \in {"stdin", "file"} -> {"fail"}
    [] d.kind = "stdout" -> {"fail", "zero", "data"}
    [] d.kind = "rtc" -> {"fail", "zero"}
    [] d.kind = "dir" -> {"zero"}

Write(f) ==
  /\ WriteAccepts(f)
  /\ \E r \in WriteResults(fd_arr[pid][f]) : reply' = Said("write", f, r)
  /\ UNCHANGED <<pid, active, parent_pid, fd_arr, fd_ind, tidy, strayed>>

WriteFails(f) == ~WriteAccepts(f) /\ Fails("write")

-----------------------------------------------------------------------------
FreeSlot(i) == i \notin active /\ \A j \in Slots : j < i => j \in active

Execute(i) ==
  /\ FreeSlot(i)
  /\ pid' = i
  /\ active' = active \cup {i}
  /\ parent_pid' = [parent_pid EXCEPT ![i] = pid]
  /\ fd_arr' = [fd_arr EXCEPT ![i] = Fill(@)]
  /\ reply' = Said("execute", -1, "zero")
  /\ tidy' = (tidy /\ \A f \in Files : Avail(f))
  /\ UNCHANGED <<fd_ind, strayed>>

\* execute of a file that is no executable fails after pid has been changed.
ExecuteData(i) ==
  /\ FreeSlot(i)
  /\ pid' = i
  /\ strayed' = TRUE
  /\ reply' = Said("execute", -1, "fail")
  /\ UNCHANGED <<active, parent_pid, fd_arr, fd_ind, tidy>>

\* execute of a name that is no file.
ExecuteMissing == Fails("execute")

\* execute when no PCB is free returns 0.
ExecuteFull ==
  /\ active = Slots
  /\ reply' = Said("execute", -1, "zero")
  /\ UNCHANGED <<pid, active, parent_pid, fd_arr, fd_ind, tidy, strayed>>

Empty(a) ==
  [f \in Fds |-> IF f \in Files THEN [a[f] EXCEPT !.avail = TRUE] ELSE a[f]]

\* Mutant: the process that ends stays active.
StillActive_All == active \cup {parent_pid[pid]}
StillActive == (active \ {pid}) \cup {parent_pid[pid]}

\* halt of a process that execute started.  What halt does to the base shell,
\* or to a slot in which nothing runs, ProcessControl shows.
Halt ==
  /\ pid # 0 /\ pid \in active
  /\ fd_arr' = [fd_arr EXCEPT ![pid] = Empty(@)]
  /\ pid' = parent_pid[pid]
  /\ active' = StillActive
  /\ reply' = Said("halt", -1, "zero")
  /\ UNCHANGED <<parent_pid, fd_ind, tidy, strayed>>

Args == -1 .. NumFds

Next ==
  \/ OpenMissing \/ OpenFull
  \/ \E f \in Files, k \in OpenKinds : Open(f, k)
  \/ \E f \in Files : Close(f)
  \/ \E f \in Args : CloseFails(f)
  \/ \E f \in Fds : Read(f) \/ Write(f)
  \/ \E f \in Args : ReadFails(f) \/ WriteFails(f)
  \/ \E i \in Slots : Execute(i) \/ ExecuteData(i)
  \/ ExecuteMissing \/ ExecuteFull
  \/ Halt

Spec == Init /\ [][Next]_vars

-----------------------------------------------------------------------------
\* The tables the programs see: those of the live processes.
View(d) ==
  IF d.avail THEN [kind |-> "closed", pos |-> 0]
             ELSE [kind |-> d.kind, pos |-> d.pos]
Shown ==
  [p \in Slots |-> [f \in Fds |-> IF p \in active THEN View(fd_arr[p][f])
                                ELSE [kind |-> "closed", pos |-> 0]]]
Table == INSTANCE FdTable WITH top <- pid, files <- Shown

\* Each program has its own table, as FdTable promises: until a program
\* executes a file that is no executable, every step is one of FdTable's.
TableSpec == Table!Init /\ [][strayed' \/ Table!Next]_(Table!vars)

\* "First two entries in fd_arr are always occupied by stdin and stdout": a
\* system call finds the terminal there, for the process it works on, unless
\* an execute failed after it had changed pid.
Reserved == ~strayed =>
  /\ fd_arr[pid][0] = Fresh("stdin")
  /\ fd_arr[pid][1] = Fresh("stdout")

\* "Accesses appropriate read pointer and calls it if file descriptor is
\* valid": a descriptor that is open can be read, as long as programs close
\* their newest descriptor first and hold none while a program they started
\* runs, as the shell, cat, grep and ls do, and execute executables.  Without
\* that it does not hold.
OpenReadable == tidy /\ ~strayed => \A f \in Files : ~Avail(f) => ReadAccepts(f)

\* "Checks that file descriptor is valid and calls appropriate write value":
\* a descriptor that is open can be written.  It does not hold for the one the
\* last open returned.
OpenWritable == \A f \in Files : ~Avail(f) => WriteAccepts(f)

\* A failed execute, and what the caller then does to the PCB pid names,
\* leaves the tables of all active processes in order: the terminal is at 0
\* and 1, and every other descriptor in use has the functions of a file.
ActiveReserved ==
  \A p \in active :
    /\ fd_arr[p][0] = Fresh("stdin")
    /\ fd_arr[p][1] = Fresh("stdout")
    /\ \A f \in Files : fd_arr[p][f].avail \/ fd_arr[p][f].kind \in OpenKinds

\* The slots in use are the lowest; pid names the newest, and each process is
\* the child of the one below it.  When an execute fails late, pid names the
\* slot above, and the process that starts there next is its own parent.
Nested ==
  \E m \in Slots :
    /\ active = 0 .. m
    /\ pid \in {m, m + 1}
    /\ \A p \in 1 .. m : parent_pid[p] \in {p - 1, p}
    /\ ~strayed => pid = m /\ \A p \in 1 .. m : parent_pid[p] = p - 1

\* Why OpenReadable holds: the descriptors tidy programs hold are the lowest,
\* up to the last one opened, and only the running program holds any.
Stacked == tidy /\ ~strayed =>
  /\ \A f \in Files : ~Avail(f) => f <= fd_ind
  /\ \A f, g \in Files : g < f /\ ~Avail(f) => ~Avail(g)
  /\ \A p \in 0 .. pid - 1, f \in Files : fd_arr[p][f].avail
=============================================================================
