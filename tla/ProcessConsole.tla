--------------------------- MODULE ProcessConsole ---------------------------
(***************************************************************************)
(* The inductive invariant of ProcessControl on one console, with commands *)
(* that name executables or nothing at all and a base shell that never     *)
(* ends.  It says, for every step of a system call, which process each     *)
(* kernel variable names and what the kernel stacks hold.                  *)
(***************************************************************************)
EXTENDS ProcessControl

OneConsole ==
  /\ NumTerms = 1
  /\ "data" \notin Files
  /\ BaseExits = FALSE

\* Slots 0 .. n hold the live programs; n is the newest, and its traps use
\* kernel stack n.
Active(n) == \A p \in Slots : processes[p].active <=> p <= n

\* The stack of p holds the execute call in which p waits for its child.
SitePath == [i \in 1 .. 2 |-> IF i = 1 THEN "trap" ELSE "execute"]

TrapOf(p) == kstack[p][1].op = "trap" /\ kstack[p][1].local = p

Waiting(p) ==
  /\ Len(kstack[p]) = 2
  /\ TrapOf(p)
  /\ kstack[p][1].pc = "in"
  /\ kstack[p][2].op = "execute"

\* The PCB of p leads back to that call.
Link(p) ==
  /\ processes[p].pid = p
  /\ processes[p].parent_pid = p - 1
  /\ processes[p].saved = [stack |-> p - 1, path |-> SitePath]

Base == processes[0].pid = 0 /\ processes[0].saved # Never

Below(n) == Base /\ \A p \in 1 .. n : Link(p) /\ Waiting(p - 1)

Regs(p, m, t) == pid = p /\ mapped = m /\ tss = t

AtUser(n) ==
  mode = "user" /\ runner = n /\ Regs(n, n, n) /\ Active(n) /\ Below(n)

\* In the kernel on stack n, with len activations.
OnStack(n, len) ==
  mode = "kernel" /\ ks = n /\ Len(kstack[n]) = len /\ TrapOf(n)

AtTrap(n) ==
  /\ OnStack(n, 1)
  /\ kstack[n][1].pc = "in"
  /\ Regs(n, n, n) /\ Active(n) /\ Below(n)

AtRead(n) ==
  /\ OnStack(n, 2)
  /\ kstack[n][1].pc = "in"
  /\ kstack[n][2].op = "read"
  /\ Regs(n, n, n) /\ Active(n) /\ Below(n)

AtExec(n) ==
  /\ OnStack(n, 2)
  /\ kstack[n][1].pc = "in"
  /\ LET f == kstack[n][2]
     IN  /\ f.op = "execute"
         /\ f.file # "data"
         /\ \/ f.pc = "in" /\ Regs(n, n, n) /\ Active(n) /\ Below(n)
            \/ /\ f.pc = "slot" /\ f.local = n
               /\ Regs(n, n, n) /\ Active(n) /\ Below(n)
            \/ /\ f.pc \in {"check", "claim", "map"} /\ f.local = n
               /\ n + 1 \in Slots
               /\ Regs(n + 1, n, n) /\ Active(n) /\ Below(n)
            \/ /\ f.pc = "save" /\ f.local = n
               /\ n + 1 \in Slots
               /\ Regs(n + 1, n + 1, n) /\ Active(n) /\ Below(n)
            \/ /\ f.pc = "go"
               /\ n + 1 \in Slots
               /\ Regs(n + 1, n + 1, n + 1) /\ Active(n + 1) /\ Below(n + 1)

AtHalt(n) ==
  /\ OnStack(n, 2)
  /\ kstack[n][1].pc = "in"
  /\ n > 0
  /\ Below(n)
  /\ LET f == kstack[n][2]
     IN  /\ f.op = "halt"
         /\ \/ f.pc \in {"in", "close"} /\ Regs(n, n, n) /\ Active(n)
            \/ f.pc = "parent" /\ f.local = n /\ Regs(n, n, n) /\ Active(n - 1)
            \/ /\ f.pc \in {"latest", "restore"} /\ f.local = n
               /\ Regs(n - 1, n, n) /\ Active(n - 1)
            \/ /\ f.pc \in {"activate", "ret"} /\ f.local = n
               /\ Regs(n - 1, n - 1, n - 1) /\ Active(n - 1)

\* entry() is starting the first shell, on the stack of slot 0.
AtBoot ==
  /\ mode = "kernel" /\ ks = 0
  /\ Len(kstack[0]) = 2
  /\ kstack[0][1].op = "boot"
  /\ LET f == kstack[0][2]
     IN  /\ f.op = "execute"
         /\ f.file = "elf"
         /\ \/ f.pc \in {"in", "slot"} /\ pid = NoParent /\ Active(-1)
            \/ f.pc \in {"check", "claim", "map"} /\ pid = 0 /\ Active(-1)
            \/ f.pc = "save" /\ pid = 0 /\ mapped = 0 /\ Active(-1)
            \/ f.pc = "go" /\ Regs(0, 0, 0) /\ Active(0) /\ Base

Nested ==
  \/ AtBoot
  \/ \E n \in Slots : AtUser(n) \/ AtTrap(n) \/ AtRead(n) \/ AtExec(n)
                        \/ AtHalt(n)

ConsoleInv == TypeOK /\ Nested
=============================================================================
