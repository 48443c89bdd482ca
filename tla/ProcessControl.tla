--------------------------- MODULE ProcessControl ---------------------------
(***************************************************************************)
(* The control flow of the kernel: execute_function and halt_function      *)
(* (syscall_functions.c), switch_terminal (scheduling.c), the system call  *)
(* gate (systemcall.S), user_mode and halt_return (flushtlbASM.S) and the  *)
(* Alt+Fn branch of the keyboard handler (keyboard.c).                     *)
(*                                                                         *)
(* There is one processor.  Every process slot owns an 8 kB kernel stack.  *)
(* A trap taken in user mode starts at the bottom of the stack that        *)
(* tss.esp0 names, and so overwrites whatever that stack held; a trap      *)
(* taken in kernel mode pushes on the current stack.  execute_function     *)
(* does not return when it starts a program: its activation stays on the   *)
(* stack until halt_return pops it through the ESP and EBP saved in the    *)
(* PCB of the child.  A return through an activation that has been         *)
(* overwritten, and an access to processes[-1], are undefined behaviour:   *)
(* the absorbing mode "wild".                                              *)
(***************************************************************************)
EXTENDS Integers, Sequences, FiniteSets

CONSTANTS
  NumProcs,    \* length of processes[] (6 in the code)
  NumTerms,    \* length of terminals[] (3 in the code)
  Files,       \* what the commands typed at a shell may name
  BaseExits,   \* whether the process whose PCB has pid 0 may halt or fault
  Faults,      \* whether user programs may raise an exception
  Preempt,     \* whether interrupts arrive between the steps of a system call
  MaxDepth     \* bound: activations on one kernel stack when an interrupt nests

ASSUME ConstantsAssumption ==
  /\ NumProcs \in Nat \ {0}
  /\ NumTerms \in Nat \ {0}
  /\ Files \subseteq {"elf", "data", "missing"}
  /\ {BaseExits, Faults, Preempt} \subseteq BOOLEAN
  /\ MaxDepth \in Nat

Slots == 0 .. NumProcs - 1
Terms == 0 .. NumTerms - 1
NoParent == -1            \* pid before the first execute; parent_pid of slot 0
Unmapped == NumProcs      \* page_dir[32] before the first execute
Kernel == -1              \* a trap frame that returns to kernel mode

VARIABLES
  processes,     \* processes[]: the PCB fields that steer control
  pid,           \* the global pid
  cur_terminal,  \* the global cur_terminal
  terminals,     \* terminals[]: running and latest_pid
  mapped,        \* slot whose 4 MB page page_dir[32] maps at 128 MB
  tss,           \* slot whose kernel stack tss.esp0 names
  vid,           \* video_mapping_page[0].p, the user video page
  mode,          \* "user", "kernel" or "wild"
  runner,        \* process whose user context the processor holds or last held
  ks,            \* kernel stack in use
  kstack,        \* activations on every kernel stack, oldest first
  iflag          \* the interrupt flag

vars == <<processes, pid, cur_terminal, terminals, mapped, tss, vid, mode,
          runner, ks, kstack, iflag>>

(***************************************************************************)
(* Activations.  "boot" is entry() of kernel.c, "trap" the frame the       *)
(* processor pushes with the interrupted context, the others a C function  *)
(* with its pc and the one local it keeps: old_pid for execute and halt,   *)
(* terminal_to for switch.                                                 *)
(***************************************************************************)
Ops == {"boot", "trap", "read", "execute", "halt", "switch"}

PCs == {"in", "slot", "check", "claim", "map", "save", "go", "child",
        "shell", "close", "parent", "latest", "restore", "activate", "ret"}

Frame ==
  [op: Ops \ {"switch"}, pc: PCs, local: Slots \cup {NoParent},
   file: {"elf", "data", "missing"}, intr: BOOLEAN]
  \cup
  [op: {"switch"}, pc: PCs, local: Terms, file: {"elf"}, intr: BOOLEAN]

Act(op, local, file) ==
  [op |-> op, pc |-> "in", local |-> local, file |-> file, intr |-> TRUE]

Boot == Act("boot", NoParent, "elf")
Execute(file) == Act("execute", NoParent, file)
Halt == Act("halt", NoParent, "elf")
Switch(to) == Act("switch", to, "elf")
Read == Act("read", NoParent, "elf")

\* The interrupted context: a process in user mode or Kernel, and its IF.
Trap(ctx) == [Act("trap", ctx, "elf") EXCEPT !.intr = iflag]

\* A stack address is given by the chain of calls that leads to it.
Never == [stack |-> NoParent, path |-> << >>]
Path(s, d) == [i \in 1 .. d |-> kstack[s][i].op]
Here == [stack |-> ks, path |-> Path(ks, Len(kstack[ks]))]

\* The execute activation at a saved ESP/EBP is still on its stack.
Live(a) ==
  /\ a.stack \in Slots
  /\ Len(a.path) \in 1 .. Len(kstack[a.stack])
  /\ a.path = Path(a.stack, Len(a.path))

Address == [stack: Slots \cup {NoParent}, path: Seq(Ops)]

PCB == [active: BOOLEAN, pid: Slots, parent_pid: Slots \cup {NoParent},
        terminal: Terms, saved: Address]

TypeOK ==
  /\ processes \in [Slots -> PCB]
  /\ pid \in Slots \cup {NoParent}
  /\ cur_terminal \in Terms
  /\ terminals \in [Terms -> [running: BOOLEAN,
                              latest_pid: Slots \cup {NoParent}]]
  /\ mapped \in Slots \cup {NoParent, Unmapped}
  /\ tss \in Slots \cup {NoParent}
  /\ vid \in BOOLEAN
  /\ mode \in {"user", "kernel", "wild"}
  /\ runner \in Slots
  /\ ks \in Slots
  /\ kstack \in [Slots -> Seq(Frame)]
  /\ iflag \in BOOLEAN

(***************************************************************************)
(* entry() has initialised the devices, enabled interrupts and calls       *)
(* execute_function("shell") on the boot stack, which is also the kernel   *)
(* stack of slot 0.  PCBs and terminals are zero: C statics.               *)
(***************************************************************************)
Init ==
  /\ processes = [p \in Slots |-> [active |-> FALSE, pid |-> 0,
                                   parent_pid |-> 0, terminal |-> 0,
                                   saved |-> Never]]
  /\ pid = NoParent
  /\ cur_terminal = 0
  /\ terminals = [t \in Terms |-> [running |-> FALSE, latest_pid |-> 0]]
  /\ mapped = Unmapped
  /\ tss = 0
  /\ vid = FALSE
  /\ mode = "kernel"
  /\ runner = 0
  /\ ks = 0
  /\ kstack = [s \in Slots |-> IF s = 0 THEN <<Boot, Execute("elf")>>
                                        ELSE << >>]
  /\ iflag = TRUE

-----------------------------------------------------------------------------
(***************************************************************************)
(* Moving along the current kernel stack.                                  *)
(***************************************************************************)
Stack == kstack[ks]
Top == Stack[Len(Stack)]

Running(op, pc) ==
  /\ mode = "kernel"
  /\ Len(Stack) > 0
  /\ Top.op = op
  /\ Top.pc = pc

SetStack(stk) == kstack' = [kstack EXCEPT ![ks] = stk]
Push(frames) == SetStack(Stack \o frames)
Pop == SetStack(SubSeq(Stack, 1, Len(Stack) - 1))

\* The running activation goes on at pc, its local set to local.
Goto(pc, local) ==
  SetStack([Stack EXCEPT ![Len(Stack)] =
              [@ EXCEPT !.pc = pc, !.local = local]])
GoOn(pc) == Goto(pc, Top.local)

\* Undefined behaviour.
Wild == /\ mode' = "wild"
        /\ UNCHANGED <<processes, pid, cur_terminal, terminals, mapped, tss,
                       vid, runner, ks, kstack, iflag>>

-----------------------------------------------------------------------------
(***************************************************************************)
(* User mode.  A trap switches to the stack of tss.esp0 and starts at its  *)
(* bottom.  int $0x80 is a trap gate and system_call executes sti; the     *)
(* exception vectors are interrupt gates, which clear IF.  With -1 in      *)
(* place of a slot, tss.esp0 points to memory that is not mapped.          *)
(***************************************************************************)
Enter(frames, if) ==
  /\ mode = "user"
  /\ IF tss = NoParent
     THEN Wild
     ELSE /\ mode' = "kernel"
          /\ ks' = tss
          /\ kstack' = [kstack EXCEPT ![tss] = <<Trap(runner)>> \o frames]
          /\ iflag' = if
          /\ UNCHANGED <<processes, pid, cur_terminal, terminals, mapped, tss,
                         vid, runner>>

MayHalt == pid # NoParent => (processes[pid].pid # 0 \/ BaseExits)

\* A process calls execute() with a command naming a file of some kind.
SysExecute(file) == Enter(<<Execute(file)>>, TRUE)

\* A process calls halt().
SysHalt == MayHalt /\ Enter(<<Halt>>, TRUE)

\* A process faults: the exception handler calls halt_function(0).
Exception == Faults /\ MayHalt /\ Enter(<<Halt>>, FALSE)

\* A process reads its terminal, and stays in the kernel until Enter.  In a
\* PCB no execute ever filled, fd 0 counts as open and its read_ptr is NULL.
SysRead ==
  CASE pid = NoParent -> mode = "user" /\ Wild
    [] pid # NoParent /\ processes[pid].saved = Never ->
         Enter(<<Read, Act("trap", Kernel, "elf"), Halt>>, FALSE)
    [] OTHER -> Enter(<<Read>>, TRUE)

\* A process calls vidmap(): always entry 0 of the page table.
SysVidmap ==
  /\ mode = "user"
  /\ vid' = TRUE
  /\ UNCHANGED <<processes, pid, cur_terminal, terminals, mapped, tss, mode,
                 runner, ks, kstack, iflag>>

\* The PIT (whose handler calls schedule(), which is empty), the RTC or a key
\* interrupts a program: no effect but the frame on the kernel stack.  (In
\* kernel mode the frame goes on top and comes off again.)
DeviceIrq == iflag /\ Enter(<< >>, TRUE)

\* terminal_read finds kb_flag set and returns.
ReadReturns ==
  /\ Running("read", "in")
  /\ Pop
  /\ UNCHANGED <<processes, pid, cur_terminal, terminals, mapped, tss, vid,
                 mode, runner, ks, iflag>>

-----------------------------------------------------------------------------
(***************************************************************************)
(* execute_function.                                                       *)
(***************************************************************************)
\* Mutant: the lookup of a missing file is retried for ever.
ExecLookup_Retry ==
  /\ Running("execute", "in")
  /\ IF Top.file = "missing" THEN UNCHANGED kstack ELSE Goto("slot", pid)
  /\ UNCHANGED <<processes, pid, cur_terminal, terminals, mapped, tss, vid,
                 mode, runner, ks, iflag>>

\* old_pid = pid; a name the directory does not hold returns -1.
ExecLookup ==
  /\ Running("execute", "in")
  /\ IF Top.file = "missing" THEN Pop ELSE Goto("slot", pid)
  /\ UNCHANGED <<processes, pid, cur_terminal, terminals, mapped, tss, vid,
                 mode, runner, ks, iflag>>

\* Mutants: the loop runs one past the array; it keeps the last free slot.
FreeSlots_OnePast ==
  {p \in 0 .. NumProcs : p = NumProcs \/ ~processes[p].active}

FreeSlots == {p \in Slots : ~processes[p].active}
FirstFree_Last(p) == p \in FreeSlots /\ \A q \in FreeSlots : p >= q
FirstFree(p) == p \in FreeSlots /\ \A q \in FreeSlots : p <= q

\* The first inactive slot becomes pid; with none the call returns 0.
ExecFindSlot ==
  /\ Running("execute", "slot")
  /\ IF FreeSlots = {}
     THEN Pop /\ UNCHANGED pid
     ELSE /\ \E p \in FreeSlots : FirstFree(p) /\ pid' = p
          /\ GoOn("check")
  /\ UNCHANGED <<processes, cur_terminal, terminals, mapped, tss, vid, mode,
                 runner, ks, iflag>>

\* A file without the ELF magic returns -1, after pid has been changed.
ExecCheckELF ==
  /\ Running("execute", "check")
  /\ IF Top.file = "data" THEN Pop ELSE GoOn("claim")
  /\ UNCHANGED <<processes, pid, cur_terminal, terminals, mapped, tss, vid,
                 mode, runner, ks, iflag>>

\* terminal and latest_pid.
ExecClaim ==
  /\ Running("execute", "claim")
  /\ IF pid = NoParent
     THEN Wild
     ELSE /\ processes' = [processes EXCEPT ![pid].terminal = cur_terminal]
          /\ terminals' = [terminals EXCEPT ![cur_terminal].latest_pid = pid]
          /\ GoOn("map")
          /\ UNCHANGED <<pid, cur_terminal, mapped, tss, vid, mode, runner,
                         ks, iflag>>

\* page_dir[32] maps the slot's page, and the program is loaded into it.
ExecMap ==
  /\ Running("execute", "map")
  /\ mapped' = pid
  /\ GoOn("save")
  /\ UNCHANGED <<processes, pid, cur_terminal, terminals, tss, vid, mode,
                 runner, ks, iflag>>

\* Mutant: parent_pid is read from pid, which names the child by now.
ExecSave_SelfParent ==
  /\ Running("execute", "save")
  /\ processes' = [processes EXCEPT ![pid] =
                     [@ EXCEPT !.pid = pid, !.parent_pid = pid,
                               !.saved = Here, !.active = TRUE]]
  /\ tss' = pid
  /\ GoOn("go")
  /\ UNCHANGED <<pid, cur_terminal, terminals, mapped, vid, mode, runner, ks,
                 iflag>>

\* The PCB, the return address in it, active, and the TSS.
ExecSave ==
  /\ Running("execute", "save")
  /\ IF pid = NoParent
     THEN Wild
     ELSE /\ processes' = [processes EXCEPT ![pid] =
               [@ EXCEPT !.pid = pid, !.parent_pid = Top.local,
                         !.saved = Here, !.active = TRUE]]
          /\ tss' = pid
          /\ GoOn("go")
          /\ UNCHANGED <<pid, cur_terminal, terminals, mapped, vid, mode,
                         runner, ks, iflag>>

\* user_mode: iret to the program that page_dir[32] maps, the flags being
\* those of the kernel.  The activation of execute stays on the stack.
ExecUserMode ==
  /\ Running("execute", "go")
  /\ IF mapped \in Slots
     THEN /\ mode' = "user"
          /\ runner' = mapped
          /\ GoOn("child")
          /\ UNCHANGED <<processes, pid, cur_terminal, terminals, mapped, tss,
                         vid, ks, iflag>>
     ELSE Wild

-----------------------------------------------------------------------------
(***************************************************************************)
(* halt_function.                                                          *)
(***************************************************************************)
\* A PCB whose pid is 0 starts another shell first.
HaltTestPid ==
  /\ Running("halt", "in")
  /\ IF pid = NoParent
     THEN Wild
     ELSE /\ IF processes[pid].pid = 0
             THEN SetStack([Stack EXCEPT ![Len(Stack)].pc = "shell"]
                             \o <<Execute("elf")>>)
             ELSE GoOn("close")
          /\ UNCHANGED <<processes, pid, cur_terminal, terminals, mapped, tss,
                         vid, mode, runner, ks, iflag>>

\* Mutant: active is not cleared.
HaltClose_StaysActive ==
  /\ Running("halt", "close") \/ Running("halt", "shell")
  /\ Goto("parent", pid)
  /\ UNCHANGED <<processes, pid, cur_terminal, terminals, mapped, tss, vid,
                 mode, runner, ks, iflag>>

\* The descriptors are closed, active is cleared, old_pid = pid.  This is
\* also where execute_function returns to when halt_function called it.
HaltClose ==
  /\ Running("halt", "close") \/ Running("halt", "shell")
  /\ IF pid = NoParent
     THEN Wild
     ELSE /\ processes' = [processes EXCEPT ![pid].active = FALSE]
          /\ Goto("parent", pid)
          /\ UNCHANGED <<pid, cur_terminal, terminals, mapped, tss, vid, mode,
                         runner, ks, iflag>>

\* Mutant: pid is not changed.
HaltParent_Kept ==
  /\ Running("halt", "parent")
  /\ GoOn("latest")
  /\ UNCHANGED <<processes, pid, cur_terminal, terminals, mapped, tss, vid,
                 mode, runner, ks, iflag>>

\* pid = processes[pid].parent_pid.
HaltParent ==
  /\ Running("halt", "parent")
  /\ IF pid = NoParent
     THEN Wild
     ELSE /\ pid' = processes[pid].parent_pid
          /\ GoOn("latest")
          /\ UNCHANGED <<processes, cur_terminal, terminals, mapped, tss, vid,
                         mode, runner, ks, iflag>>

\* Mutant: latest_pid is left at the process that ended.
HaltLatest_Stale ==
  /\ Running("halt", "latest")
  /\ GoOn("restore")
  /\ UNCHANGED <<processes, pid, cur_terminal, terminals, mapped, tss, vid,
                 mode, runner, ks, iflag>>

\* terminals[cur_terminal].latest_pid = pid.
HaltLatest ==
  /\ Running("halt", "latest")
  /\ terminals' = [terminals EXCEPT ![cur_terminal].latest_pid = pid]
  /\ GoOn("restore")
  /\ UNCHANGED <<processes, pid, cur_terminal, mapped, tss, vid, mode, runner,
                 ks, iflag>>

\* Mutants: the TSS is not set; the page is not; both are of old_pid.
HaltRestore_NoTss ==
  /\ Running("halt", "restore")
  /\ mapped' = pid
  /\ vid' = (vid /\ cur_terminal # 0)
  /\ GoOn("activate")
  /\ UNCHANGED <<processes, pid, cur_terminal, terminals, tss, mode, runner,
                 ks, iflag>>
HaltRestore_NoPage ==
  /\ Running("halt", "restore")
  /\ tss' = pid
  /\ vid' = (vid /\ cur_terminal # 0)
  /\ GoOn("activate")
  /\ UNCHANGED <<processes, pid, cur_terminal, terminals, mapped, mode,
                 runner, ks, iflag>>
HaltRestore_OldPid ==
  /\ Running("halt", "restore")
  /\ tss' = Top.local
  /\ mapped' = Top.local
  /\ vid' = (vid /\ cur_terminal # 0)
  /\ GoOn("activate")
  /\ UNCHANGED <<processes, pid, cur_terminal, terminals, mode, runner, ks,
                 iflag>>

\* The TSS, page_dir[32] and the video page of the current terminal.
HaltRestore ==
  /\ Running("halt", "restore")
  /\ tss' = pid
  /\ mapped' = pid
  /\ vid' = (vid /\ cur_terminal # 0)
  /\ GoOn("activate")
  /\ UNCHANGED <<processes, pid, cur_terminal, terminals, mode, runner, ks, iflag>>

\* processes[pid].active = 1.
HaltActivate ==
  /\ Running("halt", "activate")
  /\ IF pid = NoParent
     THEN Wild
     ELSE /\ processes' = [processes EXCEPT ![pid].active = TRUE]
          /\ GoOn("ret")
          /\ UNCHANGED <<pid, cur_terminal, terminals, mapped, tss, vid, mode,
                         runner, ks, iflag>>

\* halt_return: ESP and EBP of the PCB of old_pid, then leave and ret, which
\* returns from the execute activation found there.
HaltReturn ==
  /\ Running("halt", "ret")
  /\ LET a == processes[Top.local].saved
     IN  IF Live(a)
         THEN /\ ks' = a.stack
              /\ kstack' = [kstack EXCEPT ![a.stack] =
                              SubSeq(@, 1, Len(a.path) - 1)]
              /\ UNCHANGED <<processes, pid, cur_terminal, terminals, mapped,
                             tss, vid, mode, runner, iflag>>
         ELSE Wild

-----------------------------------------------------------------------------
(***************************************************************************)
(* Interrupts, switch_terminal and the return from a trap.                 *)
(***************************************************************************)
\* Alt+Fn for another terminal.  Vectors 32 and up are trap gates: IF stays
\* set.  The EOI has been sent before switch_terminal runs.  Without Preempt
\* the interrupt finds the kernel only where it spins, in terminal_read.
AltFn(to) ==
  /\ iflag
  /\ to # cur_terminal
  /\ \/ Enter(<<Switch(to)>>, TRUE)
     \/ /\ mode = "kernel"
        /\ Len(Stack) < MaxDepth
        /\ Preempt \/ Running("read", "in")
        /\ Push(<<Trap(Kernel), Switch(to)>>)
        /\ UNCHANGED <<processes, pid, cur_terminal, terminals, mapped, tss,
                       vid, mode, runner, ks, iflag>>

\* cur_terminal = terminal_to.
SwitchTerminal ==
  /\ Running("switch", "in")
  /\ cur_terminal' = Top.local
  /\ GoOn("latest")
  /\ UNCHANGED <<processes, pid, terminals, mapped, tss, vid, mode, runner,
                 ks, iflag>>

\* Mutant: pid is left alone.
SwitchPid_Omitted ==
  /\ Running("switch", "latest")
  /\ GoOn("shell")
  /\ UNCHANGED <<processes, pid, cur_terminal, terminals, mapped, tss, vid,
                 mode, runner, ks, iflag>>

\* pid = terminals[terminal_to].latest_pid.
SwitchPid ==
  /\ Running("switch", "latest")
  /\ pid' = terminals[Top.local].latest_pid
  /\ GoOn("shell")
  /\ UNCHANGED <<processes, cur_terminal, terminals, mapped, tss, vid, mode,
                 runner, ks, iflag>>

\* The first visit of a terminal other than 0 starts a shell on it.
SwitchShell ==
  /\ Running("switch", "shell")
  /\ IF terminals[Top.local].running \/ Top.local = 0
     THEN GoOn("ret") /\ UNCHANGED terminals
     ELSE /\ terminals' = [terminals EXCEPT ![Top.local].running = TRUE]
          /\ SetStack([Stack EXCEPT ![Len(Stack)].pc = "ret"]
                        \o <<Execute("elf")>>)
  /\ UNCHANGED <<processes, pid, cur_terminal, mapped, tss, vid, mode, runner,
                 ks, iflag>>

\* switch_terminal and the handler return.
SwitchReturn ==
  /\ Running("switch", "ret")
  /\ Pop
  /\ UNCHANGED <<processes, pid, cur_terminal, terminals, mapped, tss, vid,
                 mode, runner, ks, iflag>>

\* iret to the interrupted context.
Iret ==
  /\ Running("trap", "in")
  /\ iflag' = Top.intr
  /\ Pop
  /\ IF Top.local = Kernel
     THEN UNCHANGED <<mode, runner>>
     ELSE mode' = "user" /\ runner' = Top.local
  /\ UNCHANGED <<processes, pid, cur_terminal, terminals, mapped, tss, vid, ks>>

KernelStep ==
  \/ ExecLookup \/ ExecFindSlot \/ ExecCheckELF \/ ExecClaim \/ ExecMap
  \/ ExecSave \/ ExecUserMode
  \/ HaltTestPid \/ HaltClose \/ HaltParent \/ HaltLatest \/ HaltRestore
  \/ HaltActivate \/ HaltReturn
  \/ SwitchTerminal \/ SwitchPid \/ SwitchShell \/ SwitchReturn
  \/ Iret

UserStep ==
  \/ \E file \in Files : SysExecute(file)
  \/ SysHalt \/ Exception \/ SysRead \/ SysVidmap

Next ==
  \/ KernelStep
  \/ UserStep
  \/ ReadReturns
  \/ DeviceIrq
  \/ \E to \in Terms : AltFn(to)

Spec == Init /\ [][Next]_vars

\* The processor goes on executing the kernel's code, and the user who is
\* asked for a line eventually presses Enter.  The timer keeps ticking.
Fairness ==
  WF_vars(KernelStep) /\ WF_vars(ReadReturns) /\ WF_vars(DeviceIrq)
FairSpec == Spec /\ Fairness

-----------------------------------------------------------------------------
(***************************************************************************)
(* Properties.                                                             *)
(***************************************************************************)
\* halt_function "returns back to the end of execute": control never leaves
\* through an overwritten activation or through processes[-1].
NeverWild == mode # "wild"

\* The process whose code runs in user mode is the one every kernel variable
\* names: pid (the PCB system calls use), page_dir[32] (the memory it sees)
\* and tss.esp0 (the stack its next trap overwrites).
UserOwnsCpu == mode = "user" => pid = mapped /\ pid = tss /\ pid = runner

\* On one console the active PCBs are exactly the chain of programs that
\* wait for each other, in slot order: no slot leaks and none is lost.
Chain ==
  mode = "user" =>
    /\ {p \in Slots : processes[p].active} = 0 .. pid
    /\ \A p \in 1 .. pid : processes[p].parent_pid = p - 1

\* The return address saved in every active PCB but that of slot 0 is a live
\* execute activation, called from a trap of its parent: a halt will resume
\* the parent where it called execute.
ReturnsToParent ==
  mode = "user" =>
    \A p \in Slots \ {0} :
      processes[p].active =>
        LET a == processes[p].saved
        IN  /\ Live(a)
            /\ kstack[a.stack][1].op = "trap"
            /\ kstack[a.stack][1].local = processes[p].parent_pid

\* In user mode pid is the latest process of the displayed terminal, however
\* executes, halts and terminal switches interleaved before.
PidIsLatest == mode = "user" => pid = terminals[cur_terminal].latest_pid

\* "Set TSS For Parent" and "Map Parent's Paging": halt_function restores the
\* stack and the page of the parent of the process it ends.
RestoresParent ==
  [][HaltRestore => LET parent == processes[Top.local].parent_pid
                    IN  tss' = parent /\ mapped' = parent]_vars

\* "round robin rotate through processes to execute, including not displayed
\* processes": the latest process of every terminal in use gets to run again.
\* schedule() is empty, so it does not hold.
Visited(t) == t = 0 \/ terminals[t].running
EveryTerminalRuns ==
  \A t \in Terms :
    []<>(Visited(t) => mode = "user" /\ runner = terminals[t].latest_pid)

\* Every terminal that was visited has an active process to go back to.
LatestActive ==
  mode = "user" =>
    \A t \in Terms : Visited(t) => terminals[t].latest_pid \notin FreeSlots

\* Every stay in the kernel ends in user mode.
KernelReturns == (mode = "kernel") ~> (mode = "user")

\* On one console, execute and halt implement the nesting of ProcessStack.
Console == INSTANCE ProcessStack
             WITH live <- {p \in Slots : processes[p].active},
                  cpu <- IF mode = "user" THEN runner ELSE Kernel
ConsoleSpec == Console!Spec
=============================================================================
