-------------------------- MODULE ProcessTerminals --------------------------
(***************************************************************************)
(* The inductive invariant of ProcessControl on any number of terminals,   *)
(* with commands that name executables or nothing at all, when interrupts  *)
(* find the kernel only where it waits for a line.  Programs may fault and *)
(* every shell may exit.  It says, for every step of a system call, how    *)
(* the latest processes of the terminals and the processes that wait for   *)
(* them divide the active slots.                                           *)
(***************************************************************************)
EXTENDS ProcessControl

WaitsOnly == Preempt = FALSE /\ "data" \notin Files

Latest(t) == terminals[t].latest_pid

Alive(p) == p \in Slots /\ processes[p].active

Named(p) == \E t \in Terms : Latest(t) = p

\* p waits for c and for no other process, and no terminal names it.  Slot 0
\* is the exception: it is the latest process of every unvisited terminal,
\* and the parent of the first shell of each.
Parked(p, c) ==
  /\ Alive(p)
  /\ \/ p = 0
     \/ /\ ~Named(p)
        /\ \A d \in Slots \ {0, c} :
             processes[d].active => processes[d].parent_pid # p

\* What holds at every step but those of entry().
Apart ==
  /\ Alive(0)
  /\ processes[0].parent_pid = NoParent
  /\ \A t, u \in Terms : t # u => Latest(t) = 0 \/ Latest(t) # Latest(u)
  /\ \A c \in Slots \ {0} :
       processes[c].active => Parked(processes[c].parent_pid, c)

\* Between system calls.
Tables == Apart /\ \A t \in Terms : Alive(Latest(t))
Quiet == Tables /\ pid = Latest(cur_terminal)

\* The latest process of the current terminal is being born or has just
\* ended, and p is its parent.
Gap(p) ==
  /\ Apart
  /\ Latest(cur_terminal) \in Slots \ {0}
  /\ ~Alive(Latest(cur_terminal))
  /\ \A t \in Terms \ {cur_terminal} : Alive(Latest(t))
  /\ Parked(p, Latest(cur_terminal))

-----------------------------------------------------------------------------
TopExecute(f) ==
  \/ f.pc = "in" /\ f.file # "data" /\ Quiet
  \/ f.pc = "slot" /\ f.file # "data" /\ Quiet /\ f.local = pid
  \/ /\ f.pc \in {"check", "claim"} /\ f.file # "data"
     /\ Tables /\ f.local = Latest(cur_terminal) /\ pid \in FreeSlots
  \/ f.pc \in {"map", "save"} /\ Gap(f.local) /\ pid = Latest(cur_terminal)
  \/ f.pc = "go" /\ Quiet

\* A base shell that ends has no parent: pid becomes -1.
Doomed(f) == f.local = 0 /\ processes[0].parent_pid = NoParent

TopHalt(f) ==
  \/ f.pc \in {"in", "close", "shell", "ret"} /\ Quiet
  \/ /\ f.pc = "parent" /\ f.local = pid
     /\ \/ Doomed(f)
        \/ /\ pid \in Slots /\ pid = Latest(cur_terminal)
           /\ Gap(processes[pid].parent_pid)
  \/ /\ f.pc = "latest"
     /\ f.local \in Slots /\ pid = processes[f.local].parent_pid
     /\ Doomed(f) \/ Gap(pid)
  \/ /\ f.pc \in {"restore", "activate"}
     /\ f.local \in Slots /\ pid = processes[f.local].parent_pid
     /\ Doomed(f) \/ Quiet

TopSwitch(f) ==
  \/ f.pc \in {"in", "shell", "ret"} /\ Quiet
  \/ f.pc = "latest" /\ f.local = cur_terminal /\ Tables

\* entry() is starting the first shell.
TopBoot(f) ==
  /\ f.op = "execute" /\ f.file = "elf"
  /\ \A p \in Slots : ~processes[p].active
  /\ \A t \in Terms : Latest(t) = 0
  /\ \/ f.pc = "in" /\ pid = NoParent
     \/ f.pc = "slot" /\ pid = NoParent /\ f.local = NoParent
     \/ f.pc \in {"check", "claim", "map", "save"} /\ pid = 0
          /\ f.local = NoParent

\* An activation that can be returned to: what lies below another one.
Resumable(f) ==
  \/ f.op \in {"boot", "trap", "read"}
  \/ f.op = "halt" /\ f.pc = "shell"
  \/ f.op = "switch" /\ f.pc = "ret"

Buried ==
  \A s \in Slots : \A i \in 1 .. Len(kstack[s]) - 1 : Resumable(kstack[s][i])

AtTop(f) ==
  \/ Resumable(f) /\ Quiet
  \/ f.op = "execute" /\ TopExecute(f)
  \/ f.op = "halt" /\ TopHalt(f)
  \/ f.op = "switch" /\ TopSwitch(f)
  \/ TopBoot(f)

Latched ==
  mode = "wild" \/ /\ Buried
                   /\ mode = "user" => Quiet
                   /\ mode = "kernel" => IF Len(Stack) = 0 THEN Quiet
                                                           ELSE AtTop(Top)

TerminalsInv == TypeOK /\ Latched
=============================================================================
