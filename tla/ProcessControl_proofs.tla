----------------------- MODULE ProcessControl_proofs -----------------------
(***************************************************************************)
(* Theorems about ProcessControl.  First its types, for every number of    *)
(* slots and terminals and every kind of environment; then the nesting of  *)
(* programs on one console, for every number of slots; then the latest     *)
(* processes of any number of terminals.                                   *)
(***************************************************************************)
EXTENDS ProcessConsole, ProcessTerminals, SequenceTheorems, TLAPS

-----------------------------------------------------------------------------
(***************************************************************************)
(* Activations and kernel stacks.                                          *)
(***************************************************************************)
Kinds == {"elf", "data", "missing"}

\* Every activation the actions push is a Frame.
LEMMA FrameTypes ==
  ASSUME iflag \in BOOLEAN
  PROVE  /\ \A file \in Kinds : Execute(file) \in Frame
         /\ Halt \in Frame
         /\ Read \in Frame
         /\ Boot \in Frame
         /\ \A to \in Terms : Switch(to) \in Frame
         /\ \A ctx \in Slots \cup {Kernel} : Trap(ctx) \in Frame
         /\ Act("trap", Kernel, "elf") \in Frame
  BY DEF Kinds, Execute, Halt, Read, Boot, Switch, Trap, Act, Frame, Ops, PCs,
         Kernel, NoParent

\* The local an activation may hold.
LocalOK(f, l) == IF f.op = "switch" THEN l \in Terms
                                    ELSE l \in Slots \cup {NoParent}

LEMMA GotoFrame ==
  ASSUME NEW f \in Frame, NEW pc \in PCs, NEW l, LocalOK(f, l)
  PROVE  [f EXCEPT !.pc = pc, !.local = l] \in Frame
  BY DEF Frame, LocalOK

LEMMA FrameLocal ==
  ASSUME NEW f \in Frame
  PROVE  /\ LocalOK(f, f.local)
         /\ f.op \in Ops
         /\ f.intr \in BOOLEAN
  BY DEF Frame, LocalOK, Ops

LEMMA TopFrame ==
  ASSUME TypeOK, Len(Stack) > 0
  PROVE  /\ Stack \in Seq(Frame)
         /\ Len(Stack) \in Nat \ {0}
         /\ Top \in Frame
  BY ElementOfSeq, LenProperties DEF TypeOK, Stack, Top

LEMMA StackType ==
  ASSUME TypeOK, NEW stk \in Seq(Frame), SetStack(stk)
  PROVE  kstack' \in [Slots -> Seq(Frame)]
  BY DEF TypeOK, SetStack

LEMMA PopType ==
  ASSUME TypeOK, Len(Stack) > 0, Pop
  PROVE  kstack' \in [Slots -> Seq(Frame)]
<1>1. SubSeq(Stack, 1, Len(Stack) - 1) \in Seq(Frame)
  BY TopFrame, ElementOfSeq, SubSeqProperties
<1>2. QED
  BY <1>1, StackType DEF Pop

LEMMA GotoType ==
  ASSUME TypeOK, Len(Stack) > 0, NEW pc \in PCs, NEW l, LocalOK(Top, l),
         Goto(pc, l)
  PROVE  kstack' \in [Slots -> Seq(Frame)]
<1>1. [Top EXCEPT !.pc = pc, !.local = l] \in Frame
  BY TopFrame, GotoFrame
<1>2. [Stack EXCEPT ![Len(Stack)] =
         [@ EXCEPT !.pc = pc, !.local = l]] \in Seq(Frame)
  BY <1>1, TopFrame, ExceptSeq DEF Top
<1>3. QED
  BY <1>2, StackType DEF Goto

LEMMA GoOnType ==
  ASSUME TypeOK, Len(Stack) > 0, NEW pc \in PCs, GoOn(pc)
  PROVE  kstack' \in [Slots -> Seq(Frame)]
  BY TopFrame, FrameLocal, GotoType DEF GoOn

LEMMA PushType ==
  ASSUME TypeOK, NEW frames \in Seq(Frame), Push(frames)
  PROVE  kstack' \in [Slots -> Seq(Frame)]
<1>1. Stack \in Seq(Frame)
  BY DEF TypeOK, Stack
<1>2. Stack \o frames \in Seq(Frame)
  BY <1>1, ConcatProperties
<1>3. QED
  BY <1>2, StackType DEF Push

LEMMA WildType == ASSUME TypeOK, Wild PROVE TypeOK'
  BY DEF TypeOK, Wild

LEMMA EnterType ==
  ASSUME TypeOK, NEW frames \in Seq(Frame), NEW if \in BOOLEAN,
         Enter(frames, if)
  PROVE  TypeOK'
<1>1. CASE tss = NoParent
  BY <1>1, WildType DEF Enter
<1>2. CASE tss # NoParent
  <2>1. Trap(runner) \in Frame
    BY FrameTypes DEF TypeOK
  <2>2. <<Trap(runner)>> \o frames \in Seq(Frame)
    BY <2>1, ConcatProperties
  <2>3. kstack' \in [Slots -> Seq(Frame)] /\ ks' \in Slots
    BY <1>2, <2>2 DEF TypeOK, Enter
  <2>4. QED
    BY <1>2, <2>3 DEF TypeOK, Enter
<1>3. QED
  BY <1>1, <1>2

-----------------------------------------------------------------------------
(***************************************************************************)
(* Every step preserves the type invariant.                                *)
(***************************************************************************)
LEMMA UserTypes == ASSUME TypeOK, UserStep \/ DeviceIrq PROVE TypeOK'
<1> USE FrameTypes
<1>0. iflag \in BOOLEAN
  BY DEF TypeOK
<1>h. <<Halt>> \in Seq(Frame)
  BY <1>0
<1>1. ASSUME NEW file \in Files, SysExecute(file) PROVE TypeOK'
  <2>1. file \in Kinds
    BY ConstantsAssumption DEF Kinds
  <2>2. <<Execute(file)>> \in Seq(Frame)
    BY <1>0, <2>1
  <2>3. QED
    BY <1>1, <2>2, EnterType DEF SysExecute
<1>2. CASE SysHalt
  BY <1>2, <1>h, EnterType DEF SysHalt
<1>3. CASE Exception
  BY <1>3, <1>h, EnterType DEF Exception
<1>4. CASE SysRead
  <2>1. CASE pid = NoParent
    BY <1>4, <2>1, WildType DEF SysRead
  <2>2. CASE pid # NoParent /\ processes[pid].saved = Never
    <3>1. <<Read, Act("trap", Kernel, "elf"), Halt>> \in Seq(Frame)
      BY <1>0
    <3>2. QED
      BY <1>4, <2>2, <3>1, EnterType DEF SysRead
  <2>3. CASE pid # NoParent /\ processes[pid].saved # Never
    <3>1. <<Read>> \in Seq(Frame)
      BY <1>0
    <3>2. QED
      BY <1>4, <2>3, <3>1, EnterType DEF SysRead
  <2>4. QED
    BY <2>1, <2>2, <2>3
<1>5. CASE SysVidmap
  BY <1>5 DEF SysVidmap, TypeOK
<1>6. CASE DeviceIrq
  <2>1. << >> \in Seq(Frame)
    BY EmptySeq
  <2>2. QED
    BY <1>6, <2>1, EnterType DEF DeviceIrq
<1>7. QED
  BY <1>1, <1>2, <1>3, <1>4, <1>5, <1>6 DEF UserStep

LEMMA ExecTypes ==
  ASSUME TypeOK,
         \/ ExecLookup \/ ExecFindSlot \/ ExecCheckELF \/ ExecClaim
         \/ ExecMap \/ ExecSave \/ ExecUserMode
  PROVE  TypeOK'
<1> USE DEF Running, PCs
<1>1. Len(Stack) > 0 => Top \in Frame
  BY TopFrame
<1>2. CASE ExecLookup
  <2>1. kstack' \in [Slots -> Seq(Frame)]
    <3>1. LocalOK(Top, pid)
      BY <1>2 DEF ExecLookup, LocalOK, TypeOK
    <3>2. QED
      BY <1>2, <3>1, PopType, GotoType DEF ExecLookup
  <2>2. QED
    BY <1>2, <2>1 DEF ExecLookup, TypeOK
<1>3. CASE ExecFindSlot
  <2>1. kstack' \in [Slots -> Seq(Frame)]
    BY <1>3, PopType, GoOnType DEF ExecFindSlot
  <2>2. QED
    BY <1>3, <2>1 DEF ExecFindSlot, FreeSlots, TypeOK
<1>4. CASE ExecCheckELF
  <2>1. kstack' \in [Slots -> Seq(Frame)]
    BY <1>4, PopType, GoOnType DEF ExecCheckELF
  <2>2. QED
    BY <1>4, <2>1 DEF ExecCheckELF, TypeOK
<1>5. CASE ExecClaim
  <2>1. CASE pid = NoParent
    BY <1>5, <2>1, WildType DEF ExecClaim
  <2>2. CASE pid # NoParent
    <3>1. kstack' \in [Slots -> Seq(Frame)]
      BY <1>5, <2>2, GoOnType DEF ExecClaim
    <3>2. pid \in Slots /\ processes[pid] \in PCB
      BY <2>2 DEF TypeOK
    <3>3. [processes[pid] EXCEPT !.terminal = cur_terminal] \in PCB
      BY <3>2 DEF TypeOK, PCB
    <3>4. processes' \in [Slots -> PCB]
      BY <1>5, <2>2, <3>3 DEF ExecClaim, TypeOK
    <3>5. QED
      BY <1>5, <2>2, <3>1, <3>2, <3>4 DEF ExecClaim, TypeOK
  <2>3. QED
    BY <2>1, <2>2
<1>6. CASE ExecMap
  <2>1. kstack' \in [Slots -> Seq(Frame)]
    BY <1>6, GoOnType DEF ExecMap
  <2>2. QED
    BY <1>6, <2>1 DEF ExecMap, TypeOK
<1>7. CASE ExecSave
  <2>1. CASE pid = NoParent
    BY <1>7, <2>1, WildType DEF ExecSave
  <2>2. CASE pid # NoParent
    <3>1. kstack' \in [Slots -> Seq(Frame)]
      BY <1>7, <2>2, GoOnType DEF ExecSave
    <3>2. Here \in Address
      <4>1. \A i \in 1 .. Len(Stack) : Stack[i].op \in Ops
        BY <1>7, TopFrame, ElementOfSeq, FrameLocal DEF ExecSave
      <4>2. Path(ks, Len(Stack)) \in Seq(Ops)
        BY <1>7, <4>1, TopFrame, IsASeq DEF Path, Stack, ExecSave
      <4>3. QED
        BY <4>2 DEF Here, Stack, TypeOK, Address
    <3>3. Top.local \in Slots \cup {NoParent}
      BY <1>1, <1>7, FrameLocal DEF ExecSave, LocalOK
    <3>4. pid \in Slots
      BY <2>2 DEF TypeOK
    <3>5. processes' \in [Slots -> PCB]
      <4>1. processes[pid] \in PCB
        BY <3>4 DEF TypeOK
      <4>2. [processes[pid] EXCEPT !.pid = pid, !.parent_pid = Top.local,
                                   !.saved = Here, !.active = TRUE] \in PCB
        BY <4>1, <3>2, <3>3, <3>4 DEF PCB
      <4>3. QED
        BY <1>7, <2>2, <4>2 DEF ExecSave, TypeOK
    <3>6. QED
      BY <1>7, <2>2, <3>1, <3>4, <3>5 DEF ExecSave, TypeOK
  <2>3. QED
    BY <2>1, <2>2
<1>8. CASE ExecUserMode
  <2>1. CASE mapped \in Slots
    <3>1. kstack' \in [Slots -> Seq(Frame)]
      BY <1>8, <2>1, GoOnType DEF ExecUserMode
    <3>2. QED
      BY <1>8, <2>1, <3>1 DEF ExecUserMode, TypeOK
  <2>2. CASE mapped \notin Slots
    BY <1>8, <2>2, WildType DEF ExecUserMode
  <2>3. QED
    BY <2>1, <2>2
<1>9. QED
  BY <1>2, <1>3, <1>4, <1>5, <1>6, <1>7, <1>8

LEMMA ActiveType ==
  ASSUME TypeOK, NEW p \in Slots, NEW b \in BOOLEAN,
         processes' = [processes EXCEPT ![p].active = b]
  PROVE  processes' \in [Slots -> PCB]
<1>1. processes[p] \in PCB
  BY DEF TypeOK
<1>2. [processes[p] EXCEPT !.active = b] \in PCB
  BY <1>1 DEF PCB
<1>3. QED
  BY <1>2 DEF TypeOK

LEMMA HaltTypes ==
  ASSUME TypeOK,
         \/ HaltTestPid \/ HaltClose \/ HaltParent \/ HaltLatest
         \/ HaltRestore \/ HaltActivate \/ HaltReturn
  PROVE  TypeOK'
<1> USE DEF Running, PCs
<1>1. Len(Stack) > 0 => Top \in Frame
  BY TopFrame
<1>2. CASE HaltTestPid
  <2>1. CASE pid = NoParent
    BY <1>2, <2>1, WildType DEF HaltTestPid
  <2>2. CASE pid # NoParent /\ processes[pid].pid = 0
    <3>1. [Stack EXCEPT ![Len(Stack)].pc = "shell"] \in Seq(Frame)
      <4>1. [Top EXCEPT !.pc = "shell"] \in Frame
        BY <1>1, <1>2 DEF HaltTestPid, Frame
      <4>2. QED
        BY <1>2, <4>1, TopFrame, ExceptSeq DEF HaltTestPid, Top
    <3>2. <<Execute("elf")>> \in Seq(Frame)
      BY FrameTypes DEF TypeOK, Kinds
    <3>3. [Stack EXCEPT ![Len(Stack)].pc = "shell"] \o <<Execute("elf")>>
            \in Seq(Frame)
      BY <3>1, <3>2, ConcatProperties
    <3>4. kstack' \in [Slots -> Seq(Frame)]
      BY <1>2, <2>2, <3>3, StackType DEF HaltTestPid
    <3>5. QED
      BY <1>2, <2>2, <3>4 DEF HaltTestPid, TypeOK
  <2>3. CASE pid # NoParent /\ processes[pid].pid # 0
    <3>1. kstack' \in [Slots -> Seq(Frame)]
      BY <1>2, <2>3, GoOnType DEF HaltTestPid
    <3>2. QED
      BY <1>2, <2>3, <3>1 DEF HaltTestPid, TypeOK
  <2>4. QED
    BY <2>1, <2>2, <2>3
<1>3. CASE HaltClose
  <2>1. CASE pid = NoParent
    BY <1>3, <2>1, WildType DEF HaltClose
  <2>2. CASE pid # NoParent
    <3>1. pid \in Slots
      BY <2>2 DEF TypeOK
    <3>2. Top.op = "halt" /\ Len(Stack) > 0
      BY <1>3 DEF HaltClose
    <3>3. kstack' \in [Slots -> Seq(Frame)]
      BY <1>3, <2>2, <3>1, <3>2, GotoType DEF HaltClose, LocalOK
    <3>4. processes' \in [Slots -> PCB]
      BY <1>3, <2>2, <3>1, ActiveType DEF HaltClose
    <3>5. QED
      BY <1>3, <2>2, <3>3, <3>4 DEF HaltClose, TypeOK
  <2>3. QED
    BY <2>1, <2>2
<1>4. CASE HaltParent
  <2>1. CASE pid = NoParent
    BY <1>4, <2>1, WildType DEF HaltParent
  <2>2. CASE pid # NoParent
    <3>1. kstack' \in [Slots -> Seq(Frame)]
      BY <1>4, <2>2, GoOnType DEF HaltParent
    <3>2. processes[pid].parent_pid \in Slots \cup {NoParent}
      BY <2>2 DEF TypeOK, PCB
    <3>3. QED
      BY <1>4, <2>2, <3>1, <3>2 DEF HaltParent, TypeOK
  <2>3. QED
    BY <2>1, <2>2
<1>5. CASE HaltLatest
  <2>1. kstack' \in [Slots -> Seq(Frame)]
    BY <1>5, GoOnType DEF HaltLatest
  <2>2. QED
    BY <1>5, <2>1 DEF HaltLatest, TypeOK
<1>6. CASE HaltRestore
  <2>1. kstack' \in [Slots -> Seq(Frame)]
    BY <1>6, GoOnType DEF HaltRestore
  <2>2. QED
    BY <1>6, <2>1 DEF HaltRestore, TypeOK
<1>7. CASE HaltActivate
  <2>1. CASE pid = NoParent
    BY <1>7, <2>1, WildType DEF HaltActivate
  <2>2. CASE pid # NoParent
    <3>1. kstack' \in [Slots -> Seq(Frame)]
      BY <1>7, <2>2, GoOnType DEF HaltActivate
    <3>2. processes' \in [Slots -> PCB]
      BY <1>7, <2>2, ActiveType DEF HaltActivate, TypeOK
    <3>3. QED
      BY <1>7, <2>2, <3>1, <3>2 DEF HaltActivate, TypeOK
  <2>3. QED
    BY <2>1, <2>2
<1>8. CASE HaltReturn
  <2> DEFINE a == processes[Top.local].saved
  <2>1. CASE Live(a)
    <3>1. a.stack \in Slots /\ Len(a.path) \in 1 .. Len(kstack[a.stack])
      BY <2>1 DEF Live
    <3>2. SubSeq(kstack[a.stack], 1, Len(a.path) - 1) \in Seq(Frame)
      <4>1. kstack[a.stack] \in Seq(Frame)
        BY <3>1 DEF TypeOK
      <4>2. Len(kstack[a.stack]) \in Nat /\ Len(a.path) \in Int
        BY <3>1, <4>1, LenProperties
      <4>3. \A i \in 1 .. Len(a.path) - 1 : kstack[a.stack][i] \in Frame
        BY <3>1, <4>1, <4>2, ElementOfSeq
      <4>4. QED
        BY <4>2, <4>3, SubSeqProperties
    <3>3. kstack' \in [Slots -> Seq(Frame)]
      BY <1>8, <2>1, <3>1, <3>2 DEF HaltReturn, TypeOK
    <3>4. QED
      BY <1>8, <2>1, <3>1, <3>3 DEF HaltReturn, TypeOK
  <2>2. CASE ~Live(a)
    BY <1>8, <2>2, WildType DEF HaltReturn
  <2>3. QED
    BY <2>1, <2>2
<1>9. QED
  BY <1>2, <1>3, <1>4, <1>5, <1>6, <1>7, <1>8

LEMMA TrapTypes ==
  ASSUME TypeOK,
         \/ SwitchTerminal \/ SwitchPid \/ SwitchShell \/ SwitchReturn
         \/ Iret \/ ReadReturns \/ \E to \in Terms : AltFn(to)
  PROVE  TypeOK'
<1> USE DEF Running, PCs
<1>1. Len(Stack) > 0 => Top \in Frame
  BY TopFrame
<1>2. Len(Stack) > 0 /\ Top.op = "switch" => Top.local \in Terms
  BY <1>1, FrameLocal DEF LocalOK
<1>3. CASE SwitchTerminal
  <2>1. kstack' \in [Slots -> Seq(Frame)]
    BY <1>3, GoOnType DEF SwitchTerminal
  <2>2. QED
    BY <1>2, <1>3, <2>1 DEF SwitchTerminal, TypeOK
<1>4. CASE SwitchPid
  <2>1. kstack' \in [Slots -> Seq(Frame)]
    BY <1>4, GoOnType DEF SwitchPid
  <2>2. QED
    BY <1>2, <1>4, <2>1 DEF SwitchPid, TypeOK
<1>5. CASE SwitchShell
  <2>1. CASE terminals[Top.local].running \/ Top.local = 0
    <3>1. kstack' \in [Slots -> Seq(Frame)]
      BY <1>5, <2>1, GoOnType DEF SwitchShell
    <3>2. QED
      BY <1>5, <2>1, <3>1 DEF SwitchShell, TypeOK
  <2>2. CASE ~(terminals[Top.local].running \/ Top.local = 0)
    <3>1. [Stack EXCEPT ![Len(Stack)].pc = "ret"] \in Seq(Frame)
      <4>1. [Top EXCEPT !.pc = "ret"] \in Frame
        BY <1>1, <1>5 DEF SwitchShell, Frame
      <4>2. QED
        BY <1>5, <4>1, TopFrame, ExceptSeq DEF SwitchShell, Top
    <3>2. <<Execute("elf")>> \in Seq(Frame)
      BY FrameTypes DEF TypeOK, Kinds
    <3>3. [Stack EXCEPT ![Len(Stack)].pc = "ret"] \o <<Execute("elf")>>
            \in Seq(Frame)
      BY <3>1, <3>2, ConcatProperties
    <3>4. kstack' \in [Slots -> Seq(Frame)]
      BY <1>5, <2>2, <3>3, StackType DEF SwitchShell
    <3>5. terminals' \in [Terms -> [running: BOOLEAN,
                                    latest_pid: Slots \cup {NoParent}]]
      <4>1. Top.local \in Terms
        BY <1>2, <1>5 DEF SwitchShell
      <4>2. [terminals[Top.local] EXCEPT !.running = TRUE]
              \in [running: BOOLEAN, latest_pid: Slots \cup {NoParent}]
        BY <4>1 DEF TypeOK
      <4>3. QED
        BY <1>5, <2>2, <4>1, <4>2 DEF SwitchShell, TypeOK
    <3>6. QED
      BY <1>5, <2>2, <3>4, <3>5 DEF SwitchShell, TypeOK
  <2>3. QED
    BY <2>1, <2>2
<1>6. CASE SwitchReturn
  <2>1. kstack' \in [Slots -> Seq(Frame)]
    BY <1>6, PopType DEF SwitchReturn
  <2>2. QED
    BY <1>6, <2>1 DEF SwitchReturn, TypeOK
<1>7. CASE Iret
  <2>1. kstack' \in [Slots -> Seq(Frame)]
    BY <1>7, PopType DEF Iret
  <2>2. Top.intr \in BOOLEAN /\ Top.local \in Slots \cup {Kernel}
    BY <1>1, <1>7, FrameLocal DEF Iret, LocalOK, Kernel, NoParent
  <2>3. QED
    BY <1>7, <2>1, <2>2 DEF Iret, TypeOK
<1>8. CASE ReadReturns
  <2>1. kstack' \in [Slots -> Seq(Frame)]
    BY <1>8, PopType DEF ReadReturns
  <2>2. QED
    BY <1>8, <2>1 DEF ReadReturns, TypeOK
<1>9. ASSUME NEW to \in Terms, AltFn(to) PROVE TypeOK'
  <2>1. <<Switch(to)>> \in Seq(Frame) /\ Trap(Kernel) \in Frame
    BY FrameTypes DEF TypeOK
  <2>2. <<Trap(Kernel), Switch(to)>> \in Seq(Frame)
    BY <2>1, FrameTypes DEF TypeOK
  <2>3. CASE Enter(<<Switch(to)>>, TRUE)
    BY <2>1, <2>3, EnterType
  <2>4. CASE Push(<<Trap(Kernel), Switch(to)>>)
                /\ UNCHANGED <<processes, pid, cur_terminal, terminals, mapped,
                               tss, vid, mode, runner, ks, iflag>>
    <3>1. kstack' \in [Slots -> Seq(Frame)]
      BY <2>2, <2>4, PushType
    <3>2. QED
      BY <2>4, <3>1 DEF TypeOK
  <2>5. QED
    BY <1>9, <2>3, <2>4 DEF AltFn
<1>10. QED
  BY <1>3, <1>4, <1>5, <1>6, <1>7, <1>8, <1>9

LEMMA InitTypes == Init => TypeOK
<1> SUFFICES ASSUME Init PROVE TypeOK
  OBVIOUS
<1>1. 0 \in Slots /\ 0 \in Terms
  BY ConstantsAssumption DEF Slots, Terms
<1>2. <<Boot, Execute("elf")>> \in Seq(Frame)
  BY FrameTypes DEF Init, Kinds
<1>3. kstack \in [Slots -> Seq(Frame)]
  BY <1>2 DEF Init
<1>4. processes \in [Slots -> PCB]
  BY <1>1 DEF Init, PCB, Address, Never, NoParent
<1>5. QED
  BY <1>1, <1>3, <1>4 DEF Init, TypeOK

\* The type invariant, for any number of slots and terminals and whatever the
\* programs and the interrupts do, undefined behaviour included.
THEOREM Typing == Spec => []TypeOK
<1>1. TypeOK /\ [Next]_vars => TypeOK'
  <2> SUFFICES ASSUME TypeOK, [Next]_vars PROVE TypeOK'
    OBVIOUS
  <2>1. CASE KernelStep
    BY <2>1, ExecTypes, HaltTypes, TrapTypes DEF KernelStep
  <2>2. CASE UserStep \/ DeviceIrq
    BY <2>2, UserTypes
  <2>3. CASE ReadReturns \/ \E to \in Terms : AltFn(to)
    BY <2>3, TrapTypes
  <2>4. CASE UNCHANGED vars
    BY <2>4 DEF vars, TypeOK
  <2>5. QED
    BY <2>1, <2>2, <2>3, <2>4 DEF Next
<1>2. QED
  BY <1>1, InitTypes, PTL DEF Spec
-----------------------------------------------------------------------------
(***************************************************************************)
(* One console, with commands that name executables or nothing at all and  *)
(* a base shell that never ends: execute and halt nest the programs.       *)
(***************************************************************************)

-----------------------------------------------------------------------------
(***************************************************************************)
(* How the primitives move the kernel stacks.                              *)
(***************************************************************************)
\* The second activation of stack n goes on; nothing else moves.
LEMMA GotoStack ==
  ASSUME TypeOK, NEW n \in Slots, ks = n, Len(kstack[n]) = 2,
         NEW pc, NEW l, Goto(pc, l)
  PROVE  /\ \A s \in Slots \ {n} : kstack'[s] = kstack[s]
         /\ Len(kstack'[n]) = 2
         /\ kstack'[n][1] = kstack[n][1]
         /\ kstack'[n][2].op = kstack[n][2].op
         /\ kstack'[n][2].pc = pc
         /\ kstack'[n][2].local = l
         /\ kstack'[n][2].file = kstack[n][2].file
<1>1. kstack[n] \in Seq(Frame) /\ Len(kstack[n]) = 2
  BY DEF TypeOK
<1>2. Stack = kstack[n]
  BY DEF Stack
<1> DEFINE stk == [kstack[n] EXCEPT ![2] = [@ EXCEPT !.pc = pc, !.local = l]]
<1>3. kstack' = [kstack EXCEPT ![n] = stk]
  BY <1>1, <1>2 DEF Goto, SetStack
<1>4. kstack'[n] = stk
  BY <1>3 DEF TypeOK
<1>5. Len(stk) = 2 /\ stk[1] = kstack[n][1]
        /\ stk[2] = [kstack[n][2] EXCEPT !.pc = pc, !.local = l]
  BY <1>1
<1>6. kstack[n][2] \in Frame
  BY <1>1, ElementOfSeq
<1>7. /\ stk[2].op = kstack[n][2].op
      /\ stk[2].pc = pc
      /\ stk[2].local = l
      /\ stk[2].file = kstack[n][2].file
  BY <1>5, <1>6 DEF Frame
<1>8. \A s \in Slots \ {n} : kstack'[s] = kstack[s]
  BY <1>3 DEF TypeOK
<1> HIDE DEF stk
<1>9. QED
  BY <1>4, <1>5, <1>7, <1>8

\* The last activation of stack n returns.
LEMMA PopStack ==
  ASSUME TypeOK, NEW n \in Slots, NEW len \in 1 .. 2, OnStack(n, len), Pop
  PROVE  /\ \A s \in Slots \ {n} : kstack'[s] = kstack[s]
         /\ kstack'[n] = SubSeq(kstack[n], 1, len - 1)
         /\ Len(kstack'[n]) = len - 1
         /\ len = 2 => kstack'[n][1] = kstack[n][1]
<1>1. kstack[n] \in Seq(Frame) /\ Len(kstack[n]) = len
  BY DEF TypeOK, OnStack
<1>2. kstack' = [kstack EXCEPT ![n] = SubSeq(kstack[n], 1, len - 1)]
  BY <1>1 DEF Pop, SetStack, Stack, OnStack
<1>3. kstack'[n] = SubSeq(kstack[n], 1, len - 1)
  BY <1>2 DEF TypeOK
<1>4. \A i \in 1 .. len - 1 : kstack[n][i] \in Frame
  BY <1>1, ElementOfSeq
<1>5. /\ Len(SubSeq(kstack[n], 1, len - 1)) = len - 1
      /\ len = 2 => SubSeq(kstack[n], 1, len - 1)[1] = kstack[n][1]
  BY <1>4, SubSeqProperties
<1>6. QED
  BY <1>2, <1>3, <1>5 DEF TypeOK

\* A trap of process n starts stack n afresh.
LEMMA EnterStack ==
  ASSUME TypeOK, NEW n \in Slots, AtUser(n), NEW frames \in Seq(Frame),
         NEW if, Enter(frames, if)
  PROVE  /\ \A s \in Slots \ {n} : kstack'[s] = kstack[s]
         /\ Len(kstack'[n]) = 1 + Len(frames)
         /\ TrapOf(n)'
         /\ kstack'[n][1].pc = "in"
         /\ Len(frames) = 1 => kstack'[n][2] = frames[1]
         /\ mode' = "kernel" /\ ks' = n
         /\ UNCHANGED <<processes, pid, mapped, tss>>
<1>1. tss = n /\ runner = n /\ n # NoParent
  BY DEF AtUser, Regs, NoParent, Slots
<1>2. Trap(n) \in Frame
  BY FrameTypes DEF TypeOK
<1>3. kstack' = [kstack EXCEPT ![n] = <<Trap(n)>> \o frames]
  BY <1>1 DEF Enter
<1>4. kstack'[n] = <<Trap(n)>> \o frames
  BY <1>3 DEF TypeOK
<1>5. <<Trap(n)>> \in Seq(Frame) /\ Len(<<Trap(n)>>) = 1
  BY <1>2
<1>6. /\ Len(<<Trap(n)>> \o frames) = 1 + Len(frames)
      /\ (<<Trap(n)>> \o frames)[1] = Trap(n)
      /\ Len(frames) = 1 => (<<Trap(n)>> \o frames)[2] = frames[1]
  BY <1>5, ConcatProperties, LenProperties
<1>7. Trap(n).op = "trap" /\ Trap(n).local = n /\ Trap(n).pc = "in"
  BY DEF Trap, Act
<1>8. \A s \in Slots \ {n} : kstack'[s] = kstack[s]
  BY <1>3 DEF TypeOK
<1>9. QED
  BY <1>1, <1>4, <1>6, <1>7, <1>8 DEF Enter, TrapOf

LEMMA SlotsBelow ==
  ASSUME NEW n \in Slots
  PROVE  0 .. n \subseteq Slots /\ 0 .. n - 1 \subseteq Slots \ {n}
  BY ConstantsAssumption DEF Slots

\* What is below n does not move when only stack n and the PCB of a slot
\* above n do.
LEMMA BelowStable ==
  ASSUME NEW n \in Slots, Below(n),
         \A p \in 0 .. n : /\ processes'[p].pid = processes[p].pid
                           /\ processes'[p].saved = processes[p].saved
                           /\ processes'[p].parent_pid
                                = processes[p].parent_pid,
         \A p \in 0 .. n - 1 : kstack'[p] = kstack[p]
  PROVE  Below(n)'
<1>1. Base'
  BY DEF Below, Base, Slots
<1>2. ASSUME NEW p \in 1 .. n PROVE Link(p)' /\ Waiting(p - 1)'
  <2>1. p \in 0 .. n /\ p - 1 \in 0 .. n - 1 /\ Link(p) /\ Waiting(p - 1)
    BY DEF Below, Slots
  <2>2. QED
    BY <2>1 DEF Link, Waiting, TrapOf
<1>3. QED
  BY <1>1, <1>2 DEF Below

\* On stack n the running activation is the last one of kstack[n].
LEMMA TopIs ==
  ASSUME TypeOK, NEW n \in Slots, NEW len \in 1 .. 2, OnStack(n, len),
         NEW op, NEW pc, Running(op, pc)
  PROVE  kstack[n][len].op = op /\ kstack[n][len].pc = pc
  BY DEF OnStack, Running, Stack, Top

\* One terminal: no Alt+Fn names another.
LEMMA NoAltFn ==
  ASSUME OneConsole, TypeOK
  PROVE  ~ \E to \in Terms : AltFn(to)
  BY DEF OneConsole, TypeOK, Terms, AltFn

-----------------------------------------------------------------------------
(***************************************************************************)
(* One lemma for each place the control can be at.                         *)
(***************************************************************************)
LEMMA FromUser ==
  ASSUME OneConsole, TypeOK, NEW n \in Slots, AtUser(n),
         Next \/ UNCHANGED vars
  PROVE  Nested'
<1>0. n \in Int /\ pid = n /\ mode = "user" /\ Below(n) /\ Active(n)
        /\ n # NoParent
  BY DEF AtUser, Regs, Slots, NoParent
<1>1. CASE UNCHANGED vars
  BY <1>1 DEF vars, Nested, AtUser, Regs, Active, Below, Base, Link, Waiting,
              TrapOf
<1>2. ASSUME NEW frames \in Seq(Frame), NEW if, Enter(frames, if)
      PROVE  /\ Below(n)' /\ Active(n)' /\ Regs(n, n, n)'
             /\ mode' = "kernel" /\ ks' = n /\ TrapOf(n)'
             /\ Len(kstack'[n]) = 1 + Len(frames)
             /\ kstack'[n][1].pc = "in"
             /\ Len(frames) = 1 => kstack'[n][2] = frames[1]
  <2>1. /\ \A s \in Slots \ {n} : kstack'[s] = kstack[s]
        /\ Len(kstack'[n]) = 1 + Len(frames)
        /\ TrapOf(n)'
        /\ kstack'[n][1].pc = "in"
        /\ Len(frames) = 1 => kstack'[n][2] = frames[1]
        /\ mode' = "kernel" /\ ks' = n
        /\ UNCHANGED <<processes, pid, mapped, tss>>
    BY <1>2, EnterStack
  <2>2. \A q \in 0 .. n - 1 : kstack'[q] = kstack[q]
    BY <2>1, SlotsBelow
  <2>3. Below(n)'
    BY <1>0, <2>1, <2>2, BelowStable
  <2>4. QED
    BY <2>1, <2>3 DEF AtUser, Active, Regs
<1>f. ASSUME NEW f \in Frame, NEW if, Enter(<<f>>, if)
      PROVE  /\ Below(n)' /\ Active(n)' /\ Regs(n, n, n)' /\ OnStack(n, 2)'
             /\ kstack'[n][1].pc = "in" /\ kstack'[n][2] = f
  <2>1. <<f>> \in Seq(Frame) /\ Len(<<f>>) = 1 /\ <<f>>[1] = f
    OBVIOUS
  <2>2. /\ Below(n)' /\ Active(n)' /\ Regs(n, n, n)'
        /\ mode' = "kernel" /\ ks' = n /\ TrapOf(n)'
        /\ Len(kstack'[n]) = 2
        /\ kstack'[n][1].pc = "in" /\ kstack'[n][2] = f
    BY <1>2, <1>f, <2>1, 1 + 1 = 2
  <2>3. QED
    BY <2>2 DEF OnStack
<1>3. ASSUME NEW file \in Files, SysExecute(file) PROVE Nested'
  <2>1. file \in Kinds \ {"data"}
    BY ConstantsAssumption DEF Kinds, OneConsole
  <2>2. Execute(file) \in Frame
    BY <2>1, FrameTypes DEF TypeOK
  <2>3. /\ Below(n)' /\ Active(n)' /\ Regs(n, n, n)' /\ OnStack(n, 2)'
        /\ kstack'[n][1].pc = "in" /\ kstack'[n][2] = Execute(file)
    BY <1>f, <1>3, <2>2 DEF SysExecute
  <2>4. AtExec(n)'
    BY <2>1, <2>3 DEF AtExec, Execute, Act
  <2>5. QED
    BY <2>4 DEF Nested
<1>4. ASSUME MayHalt, NEW if, Enter(<<Halt>>, if) PROVE Nested'
  <2>1. n > 0
    <3>1. processes[n].pid # 0
      BY <1>0, <1>4 DEF MayHalt, OneConsole
    <3>2. QED
      BY <1>0, <3>1 DEF Below, Base, Slots
  <2>2. /\ Below(n)' /\ Active(n)' /\ Regs(n, n, n)' /\ OnStack(n, 2)'
        /\ kstack'[n][1].pc = "in" /\ kstack'[n][2] = Halt
    BY <1>f, <1>4, FrameTypes DEF TypeOK
  <2>3. AtHalt(n)'
    BY <2>1, <2>2 DEF AtHalt, Halt, Act
  <2>4. QED
    BY <2>3 DEF Nested
<1>5. CASE SysRead
  <2>1. processes[n].saved # Never
    <3>1. CASE n = 0
      BY <1>0, <3>1 DEF Below, Base
    <3>2. CASE n # 0
      <4>1. Link(n)
        BY <1>0, <3>2 DEF Below, Slots
      <4>2. processes[n].saved.stack = n - 1 /\ Never.stack = -1
        BY <4>1 DEF Link, Never, NoParent
      <4>3. QED
        BY <3>2, <4>2 DEF Slots
    <3>3. QED
      BY <3>1, <3>2
  <2>2. Enter(<<Read>>, TRUE)
    BY <1>0, <1>5, <2>1 DEF SysRead
  <2>3. Read \in Frame
    BY FrameTypes DEF TypeOK
  <2>4. /\ Below(n)' /\ Active(n)' /\ Regs(n, n, n)' /\ OnStack(n, 2)'
        /\ kstack'[n][1].pc = "in" /\ kstack'[n][2] = Read
    BY <1>f, <2>2, <2>3
  <2>5. AtRead(n)'
    BY <2>4 DEF AtRead, Read, Act
  <2>6. QED
    BY <2>5 DEF Nested
<1>6. CASE SysVidmap
  BY <1>6 DEF SysVidmap, Nested, AtUser, Regs, Active, Below, Base, Link,
              Waiting, TrapOf
<1>7. CASE DeviceIrq
  <2>1. << >> \in Seq(Frame) /\ Len(<< >>) = 0
    BY EmptySeq
  <2>2. /\ Below(n)' /\ Active(n)' /\ Regs(n, n, n)'
        /\ mode' = "kernel" /\ ks' = n /\ TrapOf(n)'
        /\ Len(kstack'[n]) = 1
        /\ kstack'[n][1].pc = "in"
    BY <1>2, <1>7, <2>1, 1 + 0 = 1 DEF DeviceIrq
  <2>3. AtTrap(n)'
    BY <2>2 DEF AtTrap, OnStack
  <2>4. QED
    BY <2>3 DEF Nested
<1>8. ~KernelStep /\ ~ReadReturns
  BY <1>0 DEF KernelStep, ReadReturns, Running, ExecLookup, ExecFindSlot,
              ExecCheckELF, ExecClaim, ExecMap, ExecSave, ExecUserMode,
              HaltTestPid, HaltClose, HaltParent, HaltLatest, HaltRestore,
              HaltActivate, HaltReturn, SwitchTerminal, SwitchPid, SwitchShell,
              SwitchReturn, Iret
<1>9. QED
  BY <1>1, <1>3, <1>4, <1>5, <1>6, <1>7, <1>8, NoAltFn
     DEF Next, UserStep, SysHalt, Exception

\* What a step on stack n leaves alone.
Kept(n) ==
  /\ \A s \in Slots \ {n} : kstack'[s] = kstack[s]
  /\ kstack'[n][1] = kstack[n][1]
  /\ mode' = mode /\ ks' = ks

LEMMA KeptTrap ==
  ASSUME NEW n \in Slots, Kept(n), NEW len, NEW len2, OnStack(n, len),
         Len(kstack'[n]) = len2
  PROVE  /\ OnStack(n, len2)'
         /\ kstack'[n][1].pc = kstack[n][1].pc
         /\ \A p \in 0 .. n - 1 : kstack'[p] = kstack[p]
  BY SlotsBelow DEF Kept, OnStack, TrapOf

\* ... and, when the PCBs do not move, what stays true of them.
LEMMA KeptBelow ==
  ASSUME NEW n \in Slots, Kept(n), Below(n), UNCHANGED processes
  PROVE  Below(n)' /\ \A k \in Int : Active(k) => Active(k)'
<1>1. \A p \in 0 .. n - 1 : kstack'[p] = kstack[p]
  BY SlotsBelow DEF Kept
<1>2. QED
  BY <1>1, BelowStable DEF Active

LEMMA FromTrap ==
  ASSUME OneConsole, TypeOK, NEW n \in Slots, AtTrap(n),
         Next \/ UNCHANGED vars
  PROVE  Nested'
<1>0. OnStack(n, 1) /\ mode = "kernel" /\ kstack[n][1].op = "trap"
        /\ kstack[n][1].local = n /\ n # Kernel /\ n \in Slots
  BY DEF AtTrap, OnStack, TrapOf, Kernel, Slots
<1>1. CASE UNCHANGED vars
  BY <1>1 DEF vars, Nested, AtTrap, OnStack, Regs, Active, Below, Base, Link,
              Waiting, TrapOf
<1>2. ASSUME NEW op, NEW pc, op # "trap", Running(op, pc) PROVE FALSE
  BY <1>0, <1>2, TopIs
<1>3. CASE Iret
  <2>1. Top = kstack[n][1]
    BY <1>0 DEF Top, Stack, OnStack
  <2>2. \A s \in Slots \ {n} : kstack'[s] = kstack[s]
    BY <1>0, <1>3, PopStack DEF Iret
  <2>3. mode' = "user" /\ runner' = n /\ UNCHANGED <<processes, pid, mapped, tss>>
    BY <1>0, <1>3, <2>1 DEF Iret
  <2>4. \A p \in 0 .. n - 1 : kstack'[p] = kstack[p]
    BY <2>2, SlotsBelow
  <2>5. Below(n)'
    BY <2>3, <2>4, BelowStable DEF AtTrap
  <2>6. AtUser(n)'
    BY <2>3, <2>5 DEF AtTrap, AtUser, Regs, Active
  <2>7. QED
    BY <2>6 DEF Nested
<1>4. ~ReadReturns /\ ~UserStep /\ ~DeviceIrq
  <2>1. ~ReadReturns
    BY <1>2 DEF ReadReturns
  <2>2. QED
    BY <1>0, <2>1 DEF UserStep, DeviceIrq, SysExecute, SysHalt, Exception,
                      SysRead, SysVidmap, Enter
<1>5. KernelStep => Iret
  BY <1>2 DEF KernelStep, ExecLookup, ExecFindSlot,
              ExecCheckELF, ExecClaim, ExecMap, ExecSave, ExecUserMode,
              HaltTestPid, HaltClose, HaltParent, HaltLatest, HaltRestore,
              HaltActivate, HaltReturn, SwitchTerminal, SwitchPid, SwitchShell,
              SwitchReturn
<1>6. QED
  BY <1>1, <1>3, <1>4, <1>5, NoAltFn DEF Next

\* In the kernel no program runs.
LEMMA KernelOnly ==
  ASSUME mode = "kernel"
  PROVE  ~UserStep /\ ~DeviceIrq
  BY DEF UserStep, DeviceIrq, SysExecute, SysHalt, Exception, SysRead,
         SysVidmap, Enter

\* Only the actions of the function on top of the stack can run.
LEMMA OnlyOf ==
  ASSUME TypeOK, NEW n \in Slots, NEW len \in 1 .. 2, OnStack(n, len),
         KernelStep \/ ReadReturns
  PROVE  /\ kstack[n][len].op = "execute" =>
              \/ ExecLookup \/ ExecFindSlot \/ ExecCheckELF \/ ExecClaim
              \/ ExecMap \/ ExecSave \/ ExecUserMode
         /\ kstack[n][len].op = "halt" =>
              \/ HaltTestPid \/ HaltClose \/ HaltParent \/ HaltLatest
              \/ HaltRestore \/ HaltActivate \/ HaltReturn
         /\ kstack[n][len].op = "read" => ReadReturns
<1>1. \A op, pc : Running(op, pc) => kstack[n][len].op = op
  BY TopIs
<1>2. QED
  BY <1>1
     DEF KernelStep, ReadReturns, ExecLookup, ExecFindSlot, ExecCheckELF,
         ExecClaim, ExecMap, ExecSave, ExecUserMode, HaltTestPid, HaltClose,
         HaltParent, HaltLatest, HaltRestore, HaltActivate, HaltReturn,
         SwitchTerminal, SwitchPid, SwitchShell, SwitchReturn, Iret

\* A return to the trap frame of n.
LEMMA PopToTrap ==
  ASSUME TypeOK, NEW n \in Slots, OnStack(n, 2), kstack[n][1].pc = "in",
         Regs(n, n, n), Active(n), Below(n), Pop,
         UNCHANGED <<processes, pid, mapped, tss, mode, ks>>
  PROVE  Nested'
<1>1. Kept(n) /\ Len(kstack'[n]) = 1
  BY PopStack DEF Kept
<1>2. OnStack(n, 1)' /\ kstack'[n][1].pc = "in"
  BY <1>1, KeptTrap
<1>3. Below(n)' /\ Active(n)'
  BY <1>1, KeptBelow DEF Slots
<1>4. AtTrap(n)'
  BY <1>2, <1>3 DEF AtTrap, Regs
<1>5. QED
  BY <1>4 DEF Nested

LEMMA FromRead ==
  ASSUME OneConsole, TypeOK, NEW n \in Slots, AtRead(n),
         Next \/ UNCHANGED vars
  PROVE  Nested'
<1>1. CASE UNCHANGED vars
  BY <1>1 DEF vars, Nested, AtRead, OnStack, Regs, Active, Below, Base, Link,
              Waiting, TrapOf
<1>2. CASE Next
  <2>1. ReadReturns
    <3>1. OnStack(n, 2) /\ kstack[n][2].op = "read" /\ mode = "kernel"
      BY DEF AtRead, OnStack
    <3>2. QED
      BY <1>2, <3>1, OnlyOf, KernelOnly, NoAltFn DEF Next
  <2>2. QED
    BY <2>1, PopToTrap DEF ReadReturns, AtRead
<1>3. QED
  BY <1>1, <1>2

\* A step of the function called from the trap of n to pc, with local l.
LEMMA CallGoesOn ==
  ASSUME TypeOK, NEW n \in Slots, OnStack(n, 2), kstack[n][1].pc = "in",
         NEW pc, NEW l, Goto(pc, l), mode' = mode, ks' = ks
  PROVE  /\ Kept(n)
         /\ OnStack(n, 2)'
         /\ kstack'[n][1].pc = "in"
         /\ kstack'[n][2].op = kstack[n][2].op
         /\ kstack'[n][2].pc = pc
         /\ kstack'[n][2].local = l
         /\ kstack'[n][2].file = kstack[n][2].file
<1>1. /\ \A s \in Slots \ {n} : kstack'[s] = kstack[s]
      /\ Len(kstack'[n]) = 2
      /\ kstack'[n][1] = kstack[n][1]
      /\ kstack'[n][2].op = kstack[n][2].op
      /\ kstack'[n][2].pc = pc
      /\ kstack'[n][2].local = l
      /\ kstack'[n][2].file = kstack[n][2].file
  BY GotoStack DEF OnStack
<1>2. Kept(n)
  BY <1>1 DEF Kept
<1>3. QED
  BY <1>1, <1>2, KeptTrap

LEMMA ExecNext ==
  ASSUME TypeOK, NEW n \in Slots, AtExec(n),
         \/ ExecLookup \/ ExecFindSlot \/ ExecCheckELF \/ ExecMap
  PROVE  Nested'
<1> DEFINE f == kstack[n][2]
<1>0. /\ OnStack(n, 2) /\ kstack[n][1].pc = "in" /\ f.op = "execute"
      /\ f.file # "data" /\ n \in Int
  BY DEF AtExec, Slots
<1>t. Top = f /\ Stack = kstack[n]
  BY <1>0 DEF Top, Stack, OnStack
<1>1. CASE ExecLookup
  <2>1. f.pc = "in"
    BY <1>0, <1>1, TopIs DEF ExecLookup
  <2>2. Regs(n, n, n) /\ Active(n) /\ Below(n)
    BY <2>1 DEF AtExec
  <2>3. CASE f.file = "missing"
    BY <1>0, <1>1, <1>t, <2>2, <2>3, PopToTrap DEF ExecLookup
  <2>4. CASE f.file # "missing"
    <3>1. Goto("slot", n) /\ mode' = mode /\ ks' = ks
            /\ UNCHANGED <<processes, pid, mapped, tss>>
      BY <1>1, <1>t, <2>2, <2>4 DEF ExecLookup, Regs
    <3>2. /\ Kept(n) /\ OnStack(n, 2)' /\ kstack'[n][1].pc = "in"
          /\ kstack'[n][2].op = "execute" /\ kstack'[n][2].pc = "slot"
          /\ kstack'[n][2].local = n /\ kstack'[n][2].file # "data"
      BY <1>0, <3>1, CallGoesOn
    <3>3. Below(n)' /\ Active(n)'
      BY <1>0, <2>2, <3>1, <3>2, KeptBelow
    <3>4. AtExec(n)'
      BY <2>2, <3>1, <3>2, <3>3 DEF AtExec, Regs
    <3>5. QED
      BY <3>4 DEF Nested
  <2>5. QED
    BY <2>3, <2>4
<1>2. CASE ExecFindSlot
  <2>1. f.pc = "slot"
    BY <1>0, <1>2, TopIs DEF ExecFindSlot
  <2>2. Regs(n, n, n) /\ Active(n) /\ Below(n) /\ f.local = n
    BY <2>1 DEF AtExec
  <2>3. CASE FreeSlots = {}
    BY <1>0, <1>2, <2>2, <2>3, PopToTrap DEF ExecFindSlot
  <2>4. CASE FreeSlots # {}
    <3>1. /\ Goto("check", n) /\ mode' = mode /\ ks' = ks
          /\ UNCHANGED <<processes, mapped, tss>>
      BY <1>2, <1>t, <2>2, <2>4 DEF ExecFindSlot, GoOn
    <3>2. n + 1 \in Slots /\ pid' = n + 1
      <4>1. PICK p \in FreeSlots : FirstFree(p) /\ pid' = p
        BY <1>2, <2>4 DEF ExecFindSlot
      <4>2. p \in Slots /\ p > n
        BY <2>2, <4>1, ConstantsAssumption DEF FreeSlots, Active, Slots
      <4>3. n + 1 \in Slots
        BY <4>2, ConstantsAssumption DEF Slots
      <4>4. n + 1 \in FreeSlots
        BY <1>0, <2>2, <4>3 DEF FreeSlots, Active
      <4>5. p <= n + 1
        BY <4>1, <4>4 DEF FirstFree
      <4>6. QED
        BY <4>1, <4>2, <4>3, <4>5, ConstantsAssumption DEF Slots
    <3>3. /\ Kept(n) /\ OnStack(n, 2)' /\ kstack'[n][1].pc = "in"
          /\ kstack'[n][2].op = "execute" /\ kstack'[n][2].pc = "check"
          /\ kstack'[n][2].local = n /\ kstack'[n][2].file # "data"
      BY <1>0, <3>1, CallGoesOn
    <3>4. Below(n)' /\ Active(n)'
      BY <1>0, <2>2, <3>1, <3>3, KeptBelow
    <3>5. AtExec(n)'
      BY <2>2, <3>1, <3>2, <3>3, <3>4 DEF AtExec, Regs
    <3>6. QED
      BY <3>5 DEF Nested
  <2>5. QED
    BY <2>3, <2>4
<1>3. CASE ExecCheckELF \/ ExecMap
  <2>1. f.pc \in {"check", "map"}
    BY <1>0, <1>3, TopIs DEF ExecCheckELF, ExecMap
  <2>2. /\ Regs(n + 1, n, n) /\ Active(n) /\ Below(n) /\ f.local = n
        /\ n + 1 \in Slots
    BY <2>1 DEF AtExec
  <2>3. PICK pc \in {"claim", "save"} :
          /\ Goto(pc, n) /\ mode' = mode /\ ks' = ks
          /\ UNCHANGED <<processes, pid, tss>>
          /\ pc = "claim" => mapped' = n
          /\ pc = "save" => mapped' = n + 1
    <3>1. CASE ExecCheckELF
      BY <1>0, <1>t, <2>2, <3>1 DEF ExecCheckELF, GoOn, Regs
    <3>2. CASE ExecMap
      BY <1>t, <2>2, <3>2 DEF ExecMap, GoOn, Regs
    <3>3. QED
      BY <1>3, <3>1, <3>2
  <2>4. /\ Kept(n) /\ OnStack(n, 2)' /\ kstack'[n][1].pc = "in"
        /\ kstack'[n][2].op = "execute" /\ kstack'[n][2].pc = pc
        /\ kstack'[n][2].local = n /\ kstack'[n][2].file # "data"
    BY <1>0, <2>3, CallGoesOn
  <2>5. Below(n)' /\ Active(n)'
    BY <1>0, <2>2, <2>3, <2>4, KeptBelow
  <2>6. AtExec(n)'
    BY <2>2, <2>3, <2>4, <2>5 DEF AtExec, Regs
  <2>7. QED
    BY <2>6 DEF Nested
<1>4. QED
  BY <1>1, <1>2, <1>3

\* The last three steps of execute touch the PCB of n + 1 and hand over.
LEMMA ExecStart ==
  ASSUME TypeOK, NEW n \in Slots, AtExec(n),
         ExecClaim \/ ExecSave \/ ExecUserMode
  PROVE  Nested'
<1> DEFINE f == kstack[n][2]
<1>0. /\ OnStack(n, 2) /\ kstack[n][1].pc = "in" /\ f.op = "execute"
      /\ f.file # "data" /\ n \in Int /\ n + 1 # NoParent /\ n + 1 # 0
  BY DEF AtExec, Slots, NoParent
<1>t. Top = f /\ Stack = kstack[n]
  BY <1>0 DEF Top, Stack, OnStack
<1>1. CASE ExecClaim
  <2>1. f.pc = "claim"
    BY <1>0, <1>1, TopIs DEF ExecClaim
  <2>2. /\ Regs(n + 1, n, n) /\ Active(n) /\ Below(n) /\ f.local = n
        /\ n + 1 \in Slots
    BY <2>1 DEF AtExec
  <2>3. /\ Goto("map", n) /\ mode' = mode /\ ks' = ks
        /\ processes' = [processes EXCEPT ![n + 1].terminal = cur_terminal]
        /\ UNCHANGED <<pid, mapped, tss>>
    BY <1>0, <1>1, <1>t, <2>2 DEF ExecClaim, GoOn, Regs
  <2>4. /\ Kept(n) /\ OnStack(n, 2)' /\ kstack'[n][1].pc = "in"
        /\ kstack'[n][2].op = "execute" /\ kstack'[n][2].pc = "map"
        /\ kstack'[n][2].local = n /\ kstack'[n][2].file # "data"
    BY <1>0, <2>3, CallGoesOn
  <2>5. \A p \in Slots : /\ processes'[p].active = processes[p].active
                         /\ processes'[p].pid = processes[p].pid
                         /\ processes'[p].saved = processes[p].saved
                         /\ processes'[p].parent_pid = processes[p].parent_pid
    <3>1. processes[n + 1] \in PCB
      BY <2>2 DEF TypeOK
    <3>2. QED
      BY <2>2, <2>3, <3>1 DEF TypeOK, PCB
  <2>6. Below(n)'
    <3>1. \A p \in 0 .. n - 1 : kstack'[p] = kstack[p]
      BY <2>4, SlotsBelow DEF Kept
    <3>2. QED
      BY <2>2, <2>5, <3>1, SlotsBelow, BelowStable
  <2>7. Active(n)'
    BY <2>2, <2>5 DEF Active
  <2>8. AtExec(n)'
    BY <2>2, <2>3, <2>4, <2>6, <2>7 DEF AtExec, Regs
  <2>9. QED
    BY <2>8 DEF Nested
<1>2. CASE ExecSave
  <2>1. f.pc = "save"
    BY <1>0, <1>2, TopIs DEF ExecSave
  <2>2. /\ Regs(n + 1, n + 1, n) /\ Active(n) /\ Below(n) /\ f.local = n
        /\ n + 1 \in Slots
    BY <2>1 DEF AtExec
  <2>3. /\ Goto("go", n) /\ mode' = mode /\ ks' = ks
        /\ processes' = [processes EXCEPT ![n + 1] =
               [@ EXCEPT !.pid = n + 1, !.parent_pid = n,
                         !.saved = Here, !.active = TRUE]]
        /\ pid' = n + 1 /\ mapped' = n + 1 /\ tss' = n + 1
    BY <1>0, <1>2, <1>t, <2>2 DEF ExecSave, GoOn, Regs
  <2>4. /\ Kept(n) /\ OnStack(n, 2)' /\ kstack'[n][1].pc = "in"
        /\ kstack'[n][2].op = "execute" /\ kstack'[n][2].pc = "go"
        /\ kstack'[n][2].file # "data"
    BY <1>0, <2>3, CallGoesOn
  <2>5. Here = [stack |-> n, path |-> SitePath]
    <3>1. /\ ks = n /\ Len(kstack[n]) = 2
          /\ kstack[n][1].op = "trap" /\ kstack[n][2].op = "execute"
      BY <1>0 DEF OnStack, TrapOf
    <3>2. Path(n, 2) = SitePath
      BY <3>1 DEF Path, SitePath
    <3>3. QED
      BY <3>1, <3>2 DEF Here
  <2>6. \A p \in Slots \ {n + 1} : processes'[p] = processes[p]
    BY <2>3 DEF TypeOK
  <2>7. /\ processes'[n + 1].pid = n + 1
        /\ processes'[n + 1].parent_pid = n
        /\ processes'[n + 1].saved = [stack |-> n, path |-> SitePath]
        /\ processes'[n + 1].active = TRUE
    <3>1. processes[n + 1] \in PCB
      BY <2>2 DEF TypeOK
    <3>2. QED
      BY <2>2, <2>3, <2>5, <3>1 DEF TypeOK, PCB
  <2>8. Below(n)'
    <3>1. \A p \in 0 .. n - 1 : kstack'[p] = kstack[p]
      BY <2>4, SlotsBelow DEF Kept
    <3>2. 0 .. n \subseteq Slots \ {n + 1}
      BY <1>0, SlotsBelow
    <3>3. QED
      BY <2>2, <2>6, <3>1, <3>2, BelowStable
  <2>9. Below(n + 1)'
    <3>1. Link(n + 1)'
      BY <1>0, <2>7 DEF Link
    <3>2. Waiting(n)'
      BY <2>4 DEF Waiting, OnStack
    <3>3. \A p \in 1 .. n + 1 : p \in 1 .. n \/ (p = n + 1 /\ p - 1 = n)
      BY <1>0
    <3>4. QED
      BY <2>8, <3>1, <3>2, <3>3 DEF Below
  <2>10. Active(n + 1)'
    <3>1. ASSUME NEW p \in Slots PROVE processes'[p].active <=> p <= n + 1
      <4>1. CASE p = n + 1
        BY <1>0, <2>7, <4>1
      <4>2. CASE p # n + 1
        BY <1>0, <2>2, <2>6, <4>2 DEF Active, Slots
      <4>3. QED
        BY <4>1, <4>2
    <3>2. QED
      BY <3>1 DEF Active
  <2>11. AtExec(n)'
    BY <2>2, <2>3, <2>4, <2>9, <2>10 DEF AtExec, Regs
  <2>12. QED
    BY <2>11 DEF Nested
<1>3. CASE ExecUserMode
  <2>1. f.pc = "go"
    BY <1>0, <1>3, TopIs DEF ExecUserMode
  <2>2. /\ Regs(n + 1, n + 1, n + 1) /\ Active(n + 1) /\ Below(n + 1)
        /\ n + 1 \in Slots
    BY <2>1 DEF AtExec
  <2>3. /\ Goto("child", f.local)
        /\ mode' = "user" /\ runner' = n + 1
        /\ UNCHANGED <<processes, pid, mapped, tss>>
    BY <1>3, <1>t, <2>2 DEF ExecUserMode, GoOn, Regs
  <2>4. /\ \A s \in Slots \ {n} : kstack'[s] = kstack[s]
        /\ Len(kstack'[n]) = 2
        /\ kstack'[n][1] = kstack[n][1]
        /\ kstack'[n][2].op = "execute"
    BY <1>0, <2>3, GotoStack DEF OnStack
  <2>5. Below(n + 1)'
    <3>1. Waiting(n)'
      BY <1>0, <2>4 DEF Waiting, OnStack, TrapOf
    <3>2. ASSUME NEW p \in 1 .. n + 1 PROVE Link(p)' /\ Waiting(p - 1)'
      <4>1. Link(p)'
        BY <2>2, <2>3 DEF Below, Link
      <4>2. CASE p = n + 1
        BY <1>0, <3>1, <4>1, <4>2
      <4>3. CASE p # n + 1
        <5>1. p - 1 \in 0 .. n - 1
          BY <1>0, <4>3
        <5>2. p - 1 \in Slots \ {n}
          BY <5>1, SlotsBelow
        <5>3. kstack'[p - 1] = kstack[p - 1] /\ Waiting(p - 1)
          BY <2>2, <2>4, <5>2 DEF Below
        <5>4. QED
          BY <4>1, <5>3 DEF Waiting, TrapOf
      <4>4. QED
        BY <4>2, <4>3
    <3>3. QED
      BY <2>2, <2>3, <3>2 DEF Below, Base
  <2>6. AtUser(n + 1)'
    BY <2>2, <2>3, <2>5 DEF AtUser, Regs, Active
  <2>7. QED
    BY <2>2, <2>6 DEF Nested
<1>4. QED
  BY <1>1, <1>2, <1>3

LEMMA FromExec ==
  ASSUME OneConsole, TypeOK, NEW n \in Slots, AtExec(n),
         Next \/ UNCHANGED vars
  PROVE  Nested'
<1>1. CASE UNCHANGED vars
  BY <1>1 DEF vars, Nested, AtExec, OnStack, Regs, Active, Below, Base, Link,
              Waiting, TrapOf
<1>2. CASE Next
  <2>1. OnStack(n, 2) /\ kstack[n][2].op = "execute" /\ mode = "kernel"
    BY DEF AtExec, OnStack
  <2>2. \/ ExecLookup \/ ExecFindSlot \/ ExecCheckELF \/ ExecClaim
        \/ ExecMap \/ ExecSave \/ ExecUserMode
    BY <1>2, <2>1, OnlyOf, KernelOnly, NoAltFn DEF Next
  <2>3. QED
    BY <2>2, ExecNext, ExecStart
<1>3. QED
  BY <1>1, <1>2

\* The steps of halt before control leaves the stack of n.
LEMMA HaltNext ==
  ASSUME OneConsole, TypeOK, NEW n \in Slots, AtHalt(n),
         \/ HaltTestPid \/ HaltParent \/ HaltLatest \/ HaltRestore
  PROVE  Nested'
<1> DEFINE f == kstack[n][2]
<1>0. /\ OnStack(n, 2) /\ kstack[n][1].pc = "in" /\ f.op = "halt"
      /\ n \in Int /\ n > 0 /\ Below(n) /\ n # NoParent
  BY DEF AtHalt, Slots, NoParent
<1>t. Top = f /\ Stack = kstack[n]
  BY <1>0 DEF Top, Stack, OnStack
<1>l. processes[n].pid = n /\ processes[n].parent_pid = n - 1
  <2>1. n \in 1 .. n
    BY <1>0
  <2>2. Link(n)
    BY <1>0, <2>1 DEF Below
  <2>3. QED
    BY <2>2 DEF Link
<1>1. ASSUME NEW pc, NEW l, Goto(pc, l), mode' = mode, ks' = ks,
             UNCHANGED processes
      PROVE  /\ OnStack(n, 2)' /\ kstack'[n][1].pc = "in"
             /\ kstack'[n][2].op = "halt" /\ kstack'[n][2].pc = pc
             /\ kstack'[n][2].local = l /\ Below(n)'
             /\ \A k \in Int : Active(k) => Active(k)'
  <2>1. /\ Kept(n) /\ OnStack(n, 2)' /\ kstack'[n][1].pc = "in"
        /\ kstack'[n][2].op = "halt" /\ kstack'[n][2].pc = pc
        /\ kstack'[n][2].local = l
    BY <1>0, <1>1, CallGoesOn
  <2>2. QED
    BY <1>0, <1>1, <2>1, KeptBelow
<1>2. CASE HaltTestPid
  <2>1. f.pc = "in"
    BY <1>0, <1>2, TopIs DEF HaltTestPid
  <2>2. Regs(n, n, n) /\ Active(n)
    BY <2>1 DEF AtHalt
  <2>3. /\ Goto("close", f.local) /\ mode' = mode /\ ks' = ks
        /\ UNCHANGED <<processes, pid, mapped, tss>>
    BY <1>0, <1>2, <1>l, <1>t, <2>2 DEF HaltTestPid, GoOn, Regs
  <2>4. AtHalt(n)'
    BY <1>0, <1>1, <2>2, <2>3 DEF AtHalt, Regs
  <2>5. QED
    BY <2>4 DEF Nested
<1>3. CASE HaltParent
  <2>1. f.pc = "parent"
    BY <1>0, <1>3, TopIs DEF HaltParent
  <2>2. Regs(n, n, n) /\ Active(n - 1) /\ f.local = n
    BY <2>1 DEF AtHalt
  <2>3. /\ Goto("latest", n) /\ mode' = mode /\ ks' = ks
        /\ pid' = n - 1
        /\ UNCHANGED <<processes, mapped, tss>>
    BY <1>0, <1>3, <1>l, <1>t, <2>2 DEF HaltParent, GoOn, Regs
  <2>4. AtHalt(n)'
    BY <1>0, <1>1, <2>2, <2>3 DEF AtHalt, Regs
  <2>5. QED
    BY <2>4 DEF Nested
<1>4. CASE HaltLatest
  <2>1. f.pc = "latest"
    BY <1>0, <1>4, TopIs DEF HaltLatest
  <2>2. Regs(n - 1, n, n) /\ Active(n - 1) /\ f.local = n
    BY <2>1 DEF AtHalt
  <2>3. /\ Goto("restore", n) /\ mode' = mode /\ ks' = ks
        /\ UNCHANGED <<processes, pid, mapped, tss>>
    BY <1>4, <1>t, <2>2 DEF HaltLatest, GoOn
  <2>4. AtHalt(n)'
    BY <1>0, <1>1, <2>2, <2>3 DEF AtHalt, Regs
  <2>5. QED
    BY <2>4 DEF Nested
<1>5. CASE HaltRestore
  <2>1. f.pc = "restore"
    BY <1>0, <1>5, TopIs DEF HaltRestore
  <2>2. Regs(n - 1, n, n) /\ Active(n - 1) /\ f.local = n
    BY <2>1 DEF AtHalt
  <2>3. /\ Goto("activate", n) /\ mode' = mode /\ ks' = ks
        /\ mapped' = n - 1 /\ tss' = n - 1
        /\ UNCHANGED <<processes, pid>>
    BY <1>5, <1>t, <2>2 DEF HaltRestore, GoOn, Regs
  <2>4. AtHalt(n)'
    BY <1>0, <1>1, <2>2, <2>3 DEF AtHalt, Regs
  <2>5. QED
    BY <2>4 DEF Nested
<1>6. QED
  BY <1>2, <1>3, <1>4, <1>5

\* A write of active to the PCB of slot q.
LEMMA SetActive ==
  ASSUME TypeOK, NEW n \in Slots, NEW q \in Slots, NEW b \in BOOLEAN, Kept(n),
         Below(n), processes' = [processes EXCEPT ![q].active = b]
  PROVE  /\ Below(n)'
         /\ \A p \in Slots \ {q} : processes'[p].active = processes[p].active
         /\ processes'[q].active = b
<1>1. /\ \A p \in Slots : /\ processes'[p].pid = processes[p].pid
                          /\ processes'[p].saved = processes[p].saved
                          /\ processes'[p].parent_pid = processes[p].parent_pid
      /\ \A p \in Slots \ {q} : processes'[p].active = processes[p].active
      /\ processes'[q].active = b
  <2>1. processes[q] \in PCB
    BY DEF TypeOK
  <2>2. QED
    BY <2>1 DEF TypeOK, PCB
<1>2. \A p \in 0 .. n - 1 : kstack'[p] = kstack[p]
  BY SlotsBelow DEF Kept
<1>3. Below(n)'
  BY <1>1, <1>2, SlotsBelow, BelowStable
<1>4. QED
  BY <1>1, <1>3

\* The call a process waits in is found at the address SitePath names.
LEMMA SiteLive ==
  ASSUME NEW p \in Slots, p - 1 \in Slots, Waiting(p - 1),
         processes[p].saved = [stack |-> p - 1, path |-> SitePath]
  PROVE  Live(processes[p].saved)
<1>1. Len(SitePath) = 2
  BY DEF SitePath
<1>2. SitePath = Path(p - 1, 2)
  BY DEF Path, SitePath, Waiting, TrapOf
<1>3. /\ processes[p].saved.stack = p - 1
      /\ processes[p].saved.path = SitePath
  OBVIOUS
<1>4. Len(kstack[p - 1]) = 2 /\ 2 \in 1 .. 2
  BY DEF Waiting
<1>5. Len(SitePath) \in 1 .. Len(kstack[p - 1])
  BY <1>1, <1>4, Zenon
<1>6. SitePath = Path(p - 1, Len(SitePath))
  BY <1>1, <1>2, Zenon
<1>7. QED
  BY <1>3, <1>5, <1>6, Zenon DEF Live

\* The steps of halt that write active, and the return to the parent.
LEMMA HaltEnd ==
  ASSUME OneConsole, TypeOK, NEW n \in Slots, AtHalt(n),
         HaltClose \/ HaltActivate \/ HaltReturn
  PROVE  Nested'
<1> DEFINE f == kstack[n][2]
<1>0. /\ OnStack(n, 2) /\ kstack[n][1].pc = "in" /\ f.op = "halt"
      /\ n \in Int /\ n > 0 /\ Below(n) /\ n # NoParent
      /\ n - 1 \in Slots /\ n - 1 # NoParent
  <2>1. n > 0 /\ OnStack(n, 2) /\ kstack[n][1].pc = "in" /\ f.op = "halt"
          /\ Below(n)
    BY DEF AtHalt
  <2>2. n \in Int /\ n # NoParent /\ n - 1 \in Slots /\ n - 1 # NoParent
    BY <2>1, ConstantsAssumption DEF Slots, NoParent
  <2>3. QED
    BY <2>1, <2>2
<1>t. Top = f /\ Stack = kstack[n]
  BY <1>0 DEF Top, Stack, OnStack
<1>1. CASE HaltClose
  <2>1. f.pc = "close"
    BY <1>0, <1>1, TopIs DEF HaltClose, AtHalt
  <2>2. Regs(n, n, n) /\ Active(n)
    BY <2>1 DEF AtHalt
  <2>3. /\ Goto("parent", n) /\ mode' = mode /\ ks' = ks
        /\ processes' = [processes EXCEPT ![n].active = FALSE]
        /\ UNCHANGED <<pid, mapped, tss>>
    BY <1>0, <1>1, <2>2 DEF HaltClose, Regs
  <2>4. /\ Kept(n) /\ OnStack(n, 2)' /\ kstack'[n][1].pc = "in"
        /\ kstack'[n][2].op = "halt" /\ kstack'[n][2].pc = "parent"
        /\ kstack'[n][2].local = n
    BY <1>0, <2>3, CallGoesOn
  <2>5. /\ Below(n)'
        /\ \A p \in Slots \ {n} : processes'[p].active = processes[p].active
        /\ processes'[n].active = FALSE
    BY <1>0, <2>3, <2>4, SetActive
  <2>6. Active(n - 1)'
    BY <1>0, <2>2, <2>5 DEF Active, Slots
  <2>7. AtHalt(n)'
    BY <1>0, <2>2, <2>3, <2>4, <2>5, <2>6 DEF AtHalt, Regs
  <2>8. QED
    BY <2>7 DEF Nested
<1>2. CASE HaltActivate
  <2>1. f.pc = "activate"
    BY <1>0, <1>2, TopIs DEF HaltActivate
  <2>2. Regs(n - 1, n - 1, n - 1) /\ Active(n - 1) /\ f.local = n
    BY <2>1 DEF AtHalt
  <2>3. /\ Goto("ret", n) /\ mode' = mode /\ ks' = ks
        /\ processes' = [processes EXCEPT ![n - 1].active = TRUE]
        /\ UNCHANGED <<pid, mapped, tss>>
    BY <1>0, <1>2, <1>t, <2>2 DEF HaltActivate, GoOn, Regs
  <2>4. /\ Kept(n) /\ OnStack(n, 2)' /\ kstack'[n][1].pc = "in"
        /\ kstack'[n][2].op = "halt" /\ kstack'[n][2].pc = "ret"
        /\ kstack'[n][2].local = n
    BY <1>0, <2>3, CallGoesOn
  <2>5. /\ Below(n)'
        /\ \A p \in Slots \ {n - 1} : processes'[p].active = processes[p].active
        /\ processes'[n - 1].active = TRUE
    BY <1>0, <2>3, <2>4, SetActive
  <2>6. Active(n - 1)'
    BY <1>0, <2>2, <2>5 DEF Active, Slots
  <2>7. AtHalt(n)'
    BY <1>0, <2>2, <2>3, <2>4, <2>5, <2>6 DEF AtHalt, Regs
  <2>8. QED
    BY <2>7 DEF Nested
<1>3. CASE HaltReturn
  <2>1. f.pc = "ret"
    BY <1>0, <1>3, TopIs DEF HaltReturn
  <2>2. Regs(n - 1, n - 1, n - 1) /\ Active(n - 1) /\ f.local = n
    BY <2>1 DEF AtHalt
  <2>3. /\ processes[n].saved = [stack |-> n - 1, path |-> SitePath]
        /\ Waiting(n - 1)
    BY <1>0 DEF Below, Link
  <2>6. /\ Live(processes[n].saved)
        /\ processes[n].saved.stack = n - 1
        /\ Len(processes[n].saved.path) - 1 = 1
    <3>1. /\ processes[n].saved.stack = n - 1
          /\ processes[n].saved.path = SitePath
      BY <2>3
    <3>2. Len(SitePath) - 1 = 1
      BY DEF SitePath
    <3>3. Live(processes[n].saved)
      BY <1>0, <2>3, SiteLive
    <3>4. QED
      BY <3>1, <3>2, <3>3, Zenon
  <2>7. /\ ks' = n - 1
        /\ kstack' = [kstack EXCEPT ![n - 1] = SubSeq(kstack[n - 1], 1, 1)]
        /\ UNCHANGED <<processes, pid, mapped, tss, mode>>
    BY <1>3, <1>t, <2>2, <2>6 DEF HaltReturn
  <2>8. kstack'[n - 1] = SubSeq(kstack[n - 1], 1, 1)
          /\ \A s \in Slots \ {n - 1} : kstack'[s] = kstack[s]
    BY <1>0, <2>7 DEF TypeOK
  <2>9. Len(kstack'[n - 1]) = 1 /\ kstack'[n - 1][1] = kstack[n - 1][1]
    <3>1. kstack[n - 1] \in Seq(Frame) /\ Len(kstack[n - 1]) = 2
      BY <1>0, <2>3 DEF TypeOK, Waiting
    <3>2. \A i \in 1 .. 1 : kstack[n - 1][i] \in Frame
      BY <3>1, ElementOfSeq
    <3>3. QED
      BY <2>8, <3>2, SubSeqProperties
  <2>10. OnStack(n - 1, 1)' /\ kstack'[n - 1][1].pc = "in"
    BY <1>0, <2>3, <2>7, <2>9 DEF OnStack, Waiting, TrapOf
  <2>11. Below(n - 1)'
    <3>1. Below(n - 1)
      BY <1>0 DEF Below
    <3>2. \A p \in 0 .. n - 1 - 1 : kstack'[p] = kstack[p]
      BY <1>0, <2>8, SlotsBelow
    <3>3. QED
      BY <1>0, <2>7, <3>1, <3>2, BelowStable
  <2>12. AtTrap(n - 1)'
    BY <2>2, <2>7, <2>10, <2>11 DEF AtTrap, Regs, Active
  <2>13. QED
    BY <1>0, <2>12 DEF Nested
<1>4. QED
  BY <1>1, <1>2, <1>3

LEMMA FromHalt ==
  ASSUME OneConsole, TypeOK, NEW n \in Slots, AtHalt(n),
         Next \/ UNCHANGED vars
  PROVE  Nested'
<1>1. CASE UNCHANGED vars
  BY <1>1 DEF vars, Nested, AtHalt, OnStack, Regs, Active, Below, Base, Link,
              Waiting, TrapOf
<1>2. CASE Next
  <2>1. OnStack(n, 2) /\ kstack[n][2].op = "halt" /\ mode = "kernel"
    BY DEF AtHalt, OnStack
  <2>2. \/ HaltTestPid \/ HaltClose \/ HaltParent \/ HaltLatest
        \/ HaltRestore \/ HaltActivate \/ HaltReturn
    BY <1>2, <2>1, OnlyOf, KernelOnly, NoAltFn DEF Next
  <2>3. QED
    BY <2>2, HaltNext, HaltEnd
<1>3. QED
  BY <1>1, <1>2

\* entry() starts the base shell.
LEMMA FromBoot ==
  ASSUME OneConsole, TypeOK, AtBoot, Next \/ UNCHANGED vars
  PROVE  Nested'
<1> DEFINE f == kstack[0][2]
<1>0. /\ mode = "kernel" /\ ks = 0 /\ Len(kstack[0]) = 2
      /\ kstack[0][1].op = "boot" /\ f.op = "execute" /\ f.file = "elf"
      /\ 0 \in Slots /\ 0 # NoParent /\ 0 - 1 = -1
  BY ConstantsAssumption DEF AtBoot, Slots, NoParent
<1>t. Top = f /\ Stack = kstack[0]
  BY <1>0 DEF Top, Stack
<1>1. CASE UNCHANGED vars
  BY <1>1 DEF vars, Nested, AtBoot, Regs, Active, Base
<1>2. CASE Next
  <2>1. \A op, pc : Running(op, pc) => op = "execute" /\ f.pc = pc
    BY <1>0, <1>t DEF Running
  <2>2. \/ ExecLookup \/ ExecFindSlot \/ ExecCheckELF \/ ExecClaim
        \/ ExecMap \/ ExecSave \/ ExecUserMode
    <3>1. KernelStep \/ ReadReturns
      BY <1>0, <1>2, KernelOnly, NoAltFn DEF Next
    <3>2. \A op, pc : op # "execute" => ~Running(op, pc)
      BY <2>1
    <3>3. ~ReadReturns /\ ~HaltTestPid /\ ~HaltClose /\ ~HaltParent
            /\ ~HaltLatest /\ ~HaltRestore /\ ~HaltActivate /\ ~HaltReturn
      BY <3>2 DEF ReadReturns, HaltTestPid, HaltClose, HaltParent, HaltLatest,
                  HaltRestore, HaltActivate, HaltReturn
    <3>4. ~SwitchTerminal /\ ~SwitchPid /\ ~SwitchShell /\ ~SwitchReturn
            /\ ~Iret
      BY <3>2 DEF SwitchTerminal, SwitchPid, SwitchShell, SwitchReturn, Iret
    <3>5. QED
      BY <3>1, <3>3, <3>4 DEF KernelStep
  <2>3. ASSUME NEW pc, NEW l, Goto(pc, l)
        PROVE  /\ Len(kstack'[0]) = 2 /\ kstack'[0][1].op = "boot"
               /\ kstack'[0][2].op = "execute" /\ kstack'[0][2].file = "elf"
               /\ kstack'[0][2].pc = pc
    BY <1>0, <2>3, GotoStack
  <2>4. CASE ExecLookup
    <3>1. f.pc = "in"
      BY <2>1, <2>4 DEF ExecLookup
    <3>2. Goto("slot", pid) /\ UNCHANGED <<mode, ks, pid, processes>>
      BY <1>0, <1>t, <2>4 DEF ExecLookup
    <3>3. AtBoot'
      BY <1>0, <2>3, <3>1, <3>2 DEF AtBoot, Active
    <3>4. QED
      BY <3>3 DEF Nested
  <2>5. CASE ExecFindSlot
    <3>1. f.pc = "slot"
      BY <2>1, <2>5 DEF ExecFindSlot
    <3>2. Active(-1)
      BY <3>1 DEF AtBoot
    <3>3. 0 \in FreeSlots
      BY <1>0, <3>2 DEF FreeSlots, Active
    <3>4. Goto("check", f.local) /\ UNCHANGED <<mode, ks, processes>>
      BY <1>t, <2>5, <3>3 DEF ExecFindSlot, GoOn
    <3>5. pid' = 0
      <4>1. PICK p \in FreeSlots : FirstFree(p) /\ pid' = p
        BY <2>5, <3>3 DEF ExecFindSlot
      <4>2. p <= 0 /\ p \in Slots
        BY <3>3, <4>1 DEF FirstFree, FreeSlots
      <4>3. QED
        BY <4>1, <4>2, ConstantsAssumption DEF Slots
    <3>6. AtBoot'
      BY <1>0, <2>3, <3>2, <3>4, <3>5 DEF AtBoot, Active
    <3>7. QED
      BY <3>6 DEF Nested
  <2>6. CASE ExecCheckELF \/ ExecMap
    <3>1. f.pc \in {"check", "map"} /\ (ExecMap => f.pc = "map")
      BY <2>1, <2>6 DEF ExecCheckELF, ExecMap
    <3>2. pid = 0 /\ Active(-1)
      BY <3>1 DEF AtBoot
    <3>3. PICK pc \in {"claim", "save"} :
            /\ Goto(pc, f.local) /\ UNCHANGED <<mode, ks, processes, pid>>
            /\ pc = "save" => mapped' = 0
      BY <1>0, <1>t, <2>6, <3>2 DEF ExecCheckELF, ExecMap, GoOn
    <3>4. AtBoot'
      BY <1>0, <2>3, <3>2, <3>3 DEF AtBoot, Active
    <3>5. QED
      BY <3>4 DEF Nested
  <2>7. CASE ExecClaim
    <3>1. f.pc = "claim"
      BY <2>1, <2>7 DEF ExecClaim
    <3>2. pid = 0 /\ Active(-1)
      BY <3>1 DEF AtBoot
    <3>3. /\ Goto("map", f.local) /\ UNCHANGED <<mode, ks, pid>>
          /\ processes' = [processes EXCEPT ![0].terminal = cur_terminal]
      BY <1>0, <1>t, <2>7, <3>2 DEF ExecClaim, GoOn
    <3>4. \A p \in Slots : processes'[p].active = processes[p].active
      <4>1. processes[0] \in PCB
        BY <1>0 DEF TypeOK
      <4>2. QED
        BY <1>0, <3>3, <4>1 DEF TypeOK, PCB
    <3>5. AtBoot'
      BY <1>0, <2>3, <3>2, <3>3, <3>4 DEF AtBoot, Active
    <3>6. QED
      BY <3>5 DEF Nested
  <2>8. CASE ExecSave
    <3>1. f.pc = "save"
      BY <2>1, <2>8 DEF ExecSave
    <3>2. pid = 0 /\ mapped = 0 /\ Active(-1)
      BY <3>1 DEF AtBoot
    <3>3. /\ Goto("go", f.local) /\ UNCHANGED <<mode, ks, pid, mapped>>
          /\ tss' = 0
          /\ processes' = [processes EXCEPT ![0] =
               [@ EXCEPT !.pid = 0, !.parent_pid = f.local,
                         !.saved = Here, !.active = TRUE]]
      BY <1>0, <1>t, <2>8, <3>2 DEF ExecSave, GoOn
    <3>4. Here # Never
      <4>1. Here.stack = 0 /\ Never.stack = -1
        BY <1>0 DEF Here, Never, NoParent
      <4>2. QED
        BY <4>1
    <3>5. processes[0] \in PCB
      BY <1>0 DEF TypeOK
    <3>6. /\ processes'[0].pid = 0 /\ processes'[0].saved = Here
          /\ processes'[0].active = TRUE
          /\ \A p \in Slots \ {0} : processes'[p] = processes[p]
      BY <1>0, <3>3, <3>5 DEF TypeOK, PCB
    <3>7. Active(0)'
      BY <1>0, <3>2, <3>6, ConstantsAssumption DEF Active, Slots
    <3>8. AtBoot'
      BY <1>0, <2>3, <3>2, <3>3, <3>4, <3>6, <3>7 DEF AtBoot, Base, Regs
    <3>9. QED
      BY <3>8 DEF Nested
  <2>9. CASE ExecUserMode
    <3>1. f.pc = "go"
      BY <2>1, <2>9 DEF ExecUserMode
    <3>2. Regs(0, 0, 0) /\ Active(0) /\ Base
      BY <3>1 DEF AtBoot
    <3>3. /\ mode' = "user" /\ runner' = 0
          /\ UNCHANGED <<processes, pid, mapped, tss>>
      BY <1>0, <2>9, <3>2 DEF ExecUserMode, Regs
    <3>4. Below(0)'
      BY <3>2, <3>3 DEF Below, Base
    <3>5. AtUser(0)'
      BY <3>2, <3>3, <3>4 DEF AtUser, Regs, Active
    <3>6. QED
      BY <1>0, <3>5 DEF Nested
  <2>10. QED
    BY <2>2, <2>4, <2>5, <2>6, <2>7, <2>8, <2>9
<1>3. QED
  BY <1>1, <1>2

-----------------------------------------------------------------------------
(***************************************************************************)
(* The theorems.                                                           *)
(***************************************************************************)
LEMMA NestedInit ==
  ASSUME Init
  PROVE  Nested
<1>1. 0 \in Slots
  BY ConstantsAssumption DEF Slots
<1>2. kstack[0] = <<Boot, Execute("elf")>>
  BY <1>1 DEF Init
<1>3. Active(-1)
  BY DEF Init, Active, Slots
<1>4. AtBoot
  BY <1>2, <1>3 DEF Init, AtBoot, Boot, Execute, Act
<1>5. QED
  BY <1>4 DEF Nested

LEMMA NestedStep ==
  ASSUME OneConsole, TypeOK, Nested, [Next]_vars
  PROVE  Nested'
  BY FromUser, FromTrap, FromRead, FromExec, FromHalt, FromBoot DEF Nested

\* In every reachable state of one console the control is at one of the places
\* of Nested: the kernel variables and the kernel stacks agree on a nesting of
\* programs, whatever the number of slots and the sequence of system calls.
THEOREM Nesting == OneConsole => (Spec => []ConsoleInv)
<1> SUFFICES ASSUME OneConsole PROVE Spec => []ConsoleInv
  OBVIOUS
<1>1. Init => Nested
  BY NestedInit
<1>2. TypeOK /\ Nested /\ [Next]_vars => Nested'
  BY NestedStep
<1>3. QED
  BY <1>1, <1>2, Typing, PTL DEF Spec, ConsoleInv

\* halt never returns through an overwritten activation, and neither execute
\* nor halt touches processes[-1].
THEOREM Safe == OneConsole => (Spec => []NeverWild)
<1>1. Nested => NeverWild
  BY DEF Nested, NeverWild, AtBoot, AtUser, AtTrap, AtRead, AtExec, AtHalt,
         OnStack
<1>2. QED
  BY <1>1, Nesting, PTL DEF ConsoleInv

\* The program that runs is the one pid, page_dir[32] and tss.esp0 name.
THEOREM CpuOwned == OneConsole => (Spec => []UserOwnsCpu)
<1>1. Nested => UserOwnsCpu
  BY DEF Nested, UserOwnsCpu, AtBoot, AtUser, AtTrap, AtRead, AtExec, AtHalt,
         OnStack, Regs
<1>2. QED
  BY <1>1, Nesting, PTL DEF ConsoleInv

\* While a program runs, control was in AtUser of that program.
LEMMA UserPlace ==
  ASSUME Nested, mode = "user"
  PROVE  \E n \in Slots : AtUser(n)
  BY DEF Nested, AtBoot, AtTrap, AtRead, AtExec, AtHalt, OnStack

\* The active PCBs are the programs that wait for each other.
THEOREM Chained == OneConsole => (Spec => []Chain)
<1>1. ASSUME Nested PROVE Chain
  <2> SUFFICES ASSUME mode = "user" PROVE Chain
    BY DEF Chain
  <2>1. PICK n \in Slots : AtUser(n)
    BY <1>1, UserPlace
  <2>2. pid = n /\ Active(n) /\ Below(n)
    BY <2>1 DEF AtUser, Regs
  <2>3. {p \in Slots : processes[p].active} = 0 .. pid
    BY <2>2, ConstantsAssumption DEF Active, Slots
  <2>4. \A p \in 1 .. pid : processes[p].parent_pid = p - 1
    BY <2>2 DEF Below, Link
  <2>5. QED
    BY <2>3, <2>4 DEF Chain
<1>2. QED
  BY <1>1, Nesting, PTL DEF ConsoleInv

\* Every halt to come finds the execute call its parent waits in.
THEOREM ReturnsLive == OneConsole => (Spec => []ReturnsToParent)
<1>1. ASSUME Nested PROVE ReturnsToParent
  <2> SUFFICES ASSUME mode = "user", NEW p \in Slots \ {0},
                      processes[p].active
               PROVE  /\ Live(processes[p].saved)
                      /\ kstack[processes[p].saved.stack][1].op = "trap"
                      /\ kstack[processes[p].saved.stack][1].local
                           = processes[p].parent_pid
    BY DEF ReturnsToParent
  <2>1. PICK n \in Slots : AtUser(n)
    BY <1>1, UserPlace
  <2>2. p \in 1 .. n /\ p - 1 \in Slots
    BY <2>1, ConstantsAssumption DEF AtUser, Active, Slots
  <2>3. Link(p) /\ Waiting(p - 1)
    BY <2>1, <2>2 DEF AtUser, Below
  <2>4. Live(processes[p].saved)
    <3>1. processes[p].saved = [stack |-> p - 1, path |-> SitePath]
      BY <2>3 DEF Link
    <3>2. QED
      BY <2>2, <2>3, <3>1, SiteLive
  <2>5. processes[p].saved.stack = p - 1
    BY <2>3 DEF Link
  <2>6. QED
    BY <2>3, <2>4, <2>5 DEF Link, Waiting, TrapOf
<1>2. QED
  BY <1>1, Nesting, PTL DEF ConsoleInv

\* Where the control is when the running activation is known.
LEMMA ExecPlace ==
  ASSUME Nested, NEW pc, Running("execute", pc)
  PROVE  \/ AtBoot /\ kstack[0][2].pc = pc
         \/ \E n \in Slots : AtExec(n) /\ kstack[n][2].pc = pc
<1>1. \A n \in Slots : ~AtUser(n) /\ ~AtHalt(n) /\ ~AtTrap(n) /\ ~AtRead(n)
  BY DEF Running, Top, Stack, AtUser, AtHalt, AtTrap, AtRead, OnStack, TrapOf
<1>2. AtBoot => kstack[0][2].pc = pc
  BY DEF Running, Top, Stack, AtBoot
<1>3. \A n \in Slots : AtExec(n) => kstack[n][2].pc = pc
  BY DEF Running, Top, Stack, AtExec, OnStack
<1>4. QED
  BY <1>1, <1>2, <1>3 DEF Nested

LEMMA HaltPlace ==
  ASSUME Nested, NEW pc, Running("halt", pc)
  PROVE  \E n \in Slots : AtHalt(n) /\ kstack[n][2].pc = pc /\ Top = kstack[n][2]
<1>1. ~AtBoot /\ \A n \in Slots : ~AtUser(n) /\ ~AtExec(n) /\ ~AtTrap(n)
        /\ ~AtRead(n)
  BY DEF Running, Top, Stack, AtBoot, AtUser, AtExec, AtTrap, AtRead, OnStack,
         TrapOf
<1>2. \A n \in Slots :
        AtHalt(n) => kstack[n][2].pc = pc /\ Top = kstack[n][2]
  BY DEF Running, Top, Stack, AtHalt, OnStack
<1>3. QED
  BY <1>1, <1>2 DEF Nested

LEMMA TrapPlace ==
  ASSUME Nested, Running("trap", "in")
  PROVE  \E n \in Slots : AtTrap(n) /\ Top.local = n
<1>1. ~AtBoot /\ \A n \in Slots : ~AtUser(n) /\ ~AtExec(n) /\ ~AtHalt(n)
        /\ ~AtRead(n)
  BY DEF Running, Top, Stack, AtBoot, AtUser, AtExec, AtHalt, AtRead, OnStack,
         TrapOf
<1>2. \A n \in Slots : AtTrap(n) => Top.local = n
  BY DEF Running, Top, Stack, AtTrap, OnStack, TrapOf
<1>3. QED
  BY <1>1, <1>2 DEF Nested

\* halt restores the kernel stack and the page of the parent of the process
\* that ends.
THEOREM ParentRestored == OneConsole => (Spec => RestoresParent)
<1> SUFFICES ASSUME OneConsole PROVE Spec => RestoresParent
  OBVIOUS
<1>1. ASSUME TypeOK, Nested, HaltRestore
      PROVE  LET parent == processes[Top.local].parent_pid
             IN  tss' = parent /\ mapped' = parent
  <2>1. Running("halt", "restore")
    BY <1>1 DEF HaltRestore
  <2>2. PICK n \in Slots :
          AtHalt(n) /\ kstack[n][2].pc = "restore" /\ Top = kstack[n][2]
    BY <1>1, <2>1, HaltPlace
  <2>5. Top.local = n /\ pid = n - 1
    BY <2>2 DEF AtHalt, Regs
  <2>6. n \in 1 .. n
    BY <2>2 DEF AtHalt, Slots
  <2>7. Link(n)
    BY <2>2, <2>6 DEF AtHalt, Below
  <2>8. QED
    BY <1>1, <2>5, <2>7 DEF HaltRestore, Link
<1>2. TypeOK /\ Nested /\ [Next]_vars =>
        [HaltRestore => LET parent == processes[Top.local].parent_pid
                        IN  tss' = parent /\ mapped' = parent]_vars
  BY <1>1
<1>3. QED
  BY <1>2, Nesting, PTL DEF Spec, RestoresParent, ConsoleInv

-----------------------------------------------------------------------------
(***************************************************************************)
(* The refinement: execute and halt implement the nesting of ProcessStack. *)
(***************************************************************************)
live == {p \in Slots : processes[p].active}
cpu == IF mode = "user" THEN runner ELSE Kernel

\* What a place says of the abstract state.
LEMMA LiveIs ==
  ASSUME NEW n \in Int, n < NumProcs, Active(n)
  PROVE  live = 0 .. n
  BY ConstantsAssumption DEF Active, live, Slots

\* A step in the kernel that starts and ends no program and resumes none.
LEMMA Stutter ==
  ASSUME mode = "kernel", mode' # "user",
         \A p \in Slots : processes'[p].active = processes[p].active
  PROVE  UNCHANGED <<live, cpu>>
  BY DEF live, cpu

\* A trap changes nothing but cpu.
LEMMA TrapStep ==
  ASSUME NEW n \in Slots, AtUser(n), NEW frames, NEW if, Enter(frames, if)
  PROVE  Console!Trap
<1>1. mode' = "kernel" /\ UNCHANGED processes /\ runner # Kernel
        /\ mode = "user"
  BY DEF AtUser, Enter, Regs, NoParent, Kernel, Slots
<1>2. QED
  BY <1>1 DEF Console!Trap, Console!InKernel, Kernel

LEMMA UserSteps ==
  ASSUME OneConsole, TypeOK, NEW n \in Slots, AtUser(n), Next
  PROVE  Console!Trap \/ UNCHANGED <<live, cpu>>
<1>1. mode = "user" /\ pid = n /\ n # NoParent /\ Below(n)
  BY DEF AtUser, Regs, NoParent, Slots
<1>2. CASE SysVidmap
  BY <1>2 DEF SysVidmap, live, cpu
<1>3. CASE SysRead
  <2>1. \E frames, if : Enter(frames, if)
    BY <1>1, <1>3 DEF SysRead
  <2>2. QED
    BY <2>1, TrapStep
<1>4. CASE \/ \E file \in Files : SysExecute(file)
           \/ SysHalt \/ Exception \/ DeviceIrq
  BY <1>4, TrapStep DEF SysExecute, SysHalt, Exception, DeviceIrq
<1>5. ~KernelStep /\ ~ReadReturns
  BY <1>1 DEF KernelStep, ReadReturns, Running, ExecLookup, ExecFindSlot,
              ExecCheckELF, ExecClaim, ExecMap, ExecSave, ExecUserMode,
              HaltTestPid, HaltClose, HaltParent, HaltLatest, HaltRestore,
              HaltActivate, HaltReturn, SwitchTerminal, SwitchPid, SwitchShell,
              SwitchReturn, Iret
<1>6. QED
  BY <1>2, <1>3, <1>4, <1>5, NoAltFn DEF Next, UserStep

\* A step of the kernel starts a program, ends one, resumes one, or does none
\* of these.
LEMMA KernelSteps ==
  ASSUME OneConsole, TypeOK, Nested, mode = "kernel", Next
  PROVE  Console!Next \/ UNCHANGED <<live, cpu>>
<1>0. KernelStep \/ ReadReturns
  BY KernelOnly, NoAltFn DEF Next
<1>c. cpu = Kernel /\ Console!InKernel = Kernel
  BY DEF cpu, Console!InKernel, Kernel
<1>1. CASE \/ ReadReturns \/ ExecLookup \/ ExecFindSlot \/ ExecCheckELF
           \/ ExecMap \/ HaltTestPid \/ HaltParent \/ HaltLatest
           \/ HaltRestore \/ HaltReturn
  <2>1. UNCHANGED processes /\ mode' # "user"
    BY <1>1 DEF ReadReturns, ExecLookup, ExecFindSlot, ExecCheckELF, ExecMap,
                HaltTestPid, HaltParent, HaltLatest, HaltRestore, HaltReturn,
                Wild
  <2>2. QED
    BY <2>1, Stutter
<1>2. CASE SwitchTerminal \/ SwitchPid \/ SwitchShell \/ SwitchReturn
  <2>1. UNCHANGED processes /\ mode' # "user"
    BY <1>2 DEF SwitchTerminal, SwitchPid, SwitchShell, SwitchReturn
  <2>2. QED
    BY <2>1, Stutter
<1>3. CASE ExecClaim
  <2>1. CASE Wild
    BY <2>1, Stutter DEF Wild
  <2>2. CASE ~Wild
    <3>1. /\ pid \in Slots /\ mode' = mode
          /\ processes' = [processes EXCEPT ![pid].terminal = cur_terminal]
      BY <1>3, <2>2 DEF ExecClaim, TypeOK
    <3>2. processes[pid] \in PCB
      BY <3>1 DEF TypeOK
    <3>3. \A p \in Slots : processes'[p].active = processes[p].active
      BY <3>1, <3>2 DEF TypeOK, PCB
    <3>4. QED
      BY <3>1, <3>3, Stutter
  <2>3. QED
    BY <2>1, <2>2
<1>4. CASE ExecSave
  <2>1. Running("execute", "save")
    BY <1>4 DEF ExecSave
  <2>2. pid \in Slots /\ live = 0 .. pid - 1
    <3>1. CASE AtBoot /\ kstack[0][2].pc = "save"
      <4>1. pid = 0 /\ Active(-1) /\ 0 - 1 = -1
        BY <3>1 DEF AtBoot
      <4>2. live = 0 .. -1
        BY <4>1, LiveIs, ConstantsAssumption
      <4>3. QED
        BY <4>1, <4>2, ConstantsAssumption DEF Slots
    <3>2. ASSUME NEW n \in Slots, AtExec(n), kstack[n][2].pc = "save"
          PROVE  pid \in Slots /\ live = 0 .. pid - 1
      <4>1. pid = n + 1 /\ pid \in Slots /\ Active(n)
        BY <3>2 DEF AtExec, Regs
      <4>2. live = 0 .. n /\ pid - 1 = n
        BY <4>1, LiveIs, ConstantsAssumption DEF Slots
      <4>3. QED
        BY <4>1, <4>2
    <3>3. QED
      BY <2>1, <3>1, <3>2, ExecPlace
  <2>3. /\ processes' = [processes EXCEPT ![pid] =
               [@ EXCEPT !.pid = pid, !.parent_pid = Top.local,
                         !.saved = Here, !.active = TRUE]]
        /\ mode' = mode
    BY <1>4, <2>2, ConstantsAssumption DEF ExecSave, Slots, NoParent
  <2>4. live' = live \cup {pid}
    <3>1. processes[pid] \in PCB
      BY <2>2 DEF TypeOK
    <3>2. processes'[pid].active = TRUE
            /\ \A p \in Slots \ {pid} : processes'[p] = processes[p]
      BY <2>2, <2>3, <3>1 DEF TypeOK, PCB
    <3>3. QED
      BY <2>2, <3>2 DEF live
  <2>5. live' = 0 .. pid
    BY <2>2, <2>4, ConstantsAssumption DEF Slots
  <2>6. cpu' = cpu
    BY <2>3 DEF cpu
  <2>7. Console!Start
    BY <1>c, <2>2, <2>5, <2>6 DEF Console!Start, Console!Slots, Slots, live, cpu
  <2>8. QED
    BY <2>7 DEF Console!Next
<1>5. CASE ExecUserMode
  <2>1. Running("execute", "go")
    BY <1>5 DEF ExecUserMode
  <2>2. mapped \in Slots /\ live = 0 .. mapped
    <3>1. CASE AtBoot /\ kstack[0][2].pc = "go"
      <4>1. mapped = 0 /\ Active(0)
        BY <3>1 DEF AtBoot, Regs
      <4>2. QED
        BY <4>1, LiveIs, ConstantsAssumption DEF Slots
    <3>2. ASSUME NEW n \in Slots, AtExec(n), kstack[n][2].pc = "go"
          PROVE  mapped \in Slots /\ live = 0 .. mapped
      <4>1. mapped = n + 1 /\ n + 1 \in Slots /\ Active(n + 1)
        BY <3>2 DEF AtExec, Regs
      <4>2. QED
        BY <4>1, LiveIs, ConstantsAssumption DEF Slots
    <3>3. QED
      BY <2>1, <3>1, <3>2, ExecPlace
  <2>3. mode' = "user" /\ runner' = mapped /\ UNCHANGED processes
    BY <1>5, <2>2 DEF ExecUserMode
  <2>4. cpu' = mapped /\ live' = live
    BY <2>3 DEF cpu, live
  <2>5. Console!Resume
    BY <1>c, <2>2, <2>4 DEF Console!Resume, Console!Slots, Slots, live, cpu
  <2>6. QED
    BY <2>5 DEF Console!Next
<1>6. CASE HaltClose
  <2>1. PICK n \in Slots, pc \in {"close", "shell"} :
          AtHalt(n) /\ kstack[n][2].pc = pc
    BY <1>6, HaltPlace DEF HaltClose
  <2>2. n > 0 /\ pid = n /\ Active(n) /\ n # NoParent
    BY <2>1 DEF AtHalt, Regs, NoParent, Slots
  <2>3. live = 0 .. n
    BY <2>2, LiveIs, ConstantsAssumption DEF Slots
  <2>4. processes' = [processes EXCEPT ![n].active = FALSE] /\ mode' = mode
    BY <1>6, <2>2 DEF HaltClose
  <2>5. live' = live \ {n}
    <3>1. processes[n] \in PCB
      BY DEF TypeOK
    <3>2. processes'[n].active = FALSE
            /\ \A p \in Slots \ {n} : processes'[p] = processes[p]
      BY <2>4, <3>1 DEF TypeOK, PCB
    <3>3. QED
      BY <3>2 DEF live
  <2>6. live' = 0 .. n - 1 /\ n \in Slots \ {0}
    BY <2>2, <2>3, <2>5, ConstantsAssumption DEF Slots
  <2>7. cpu' = cpu
    BY <2>4 DEF cpu
  <2>8. Console!Finish
    BY <1>c, <2>3, <2>6, <2>7 DEF Console!Finish, Console!Slots, Slots, live,
                                  cpu
  <2>9. QED
    BY <2>8 DEF Console!Next
<1>7. CASE HaltActivate
  <2>1. PICK n \in Slots : AtHalt(n) /\ kstack[n][2].pc = "activate"
    BY <1>7, HaltPlace DEF HaltActivate
  <2>2. n > 0 /\ pid = n - 1 /\ Active(n - 1) /\ n - 1 \in Slots
          /\ n - 1 # NoParent
    BY <2>1, ConstantsAssumption DEF AtHalt, Regs, NoParent, Slots
  <2>3. processes' = [processes EXCEPT ![n - 1].active = TRUE] /\ mode' = mode
    BY <1>7, <2>2 DEF HaltActivate
  <2>4. processes[n - 1].active = TRUE
    <3>1. processes[n - 1] \in PCB
      BY <2>2 DEF TypeOK
    <3>2. processes[n - 1].active
      BY <2>2 DEF Active, Slots
    <3>3. QED
      BY <3>1, <3>2 DEF PCB
  <2>5. \A p \in Slots : processes'[p].active = processes[p].active
    <3>1. processes[n - 1] \in PCB
      BY <2>2 DEF TypeOK
    <3>2. QED
      BY <2>2, <2>3, <2>4, <3>1 DEF TypeOK, PCB
  <2>6. QED
    BY <2>3, <2>5, Stutter
<1>8. CASE Iret
  <2>1. PICK n \in Slots : AtTrap(n) /\ Top.local = n
    BY <1>8, TrapPlace DEF Iret
  <2>2. live = 0 .. n /\ n # Kernel
    BY <2>1, LiveIs, ConstantsAssumption DEF AtTrap, Slots, Kernel
  <2>3. mode' = "user" /\ runner' = n /\ UNCHANGED processes
    BY <1>8, <2>1, <2>2 DEF Iret
  <2>4. cpu' = n /\ live' = live
    BY <2>3 DEF cpu, live
  <2>5. Console!Resume
    BY <1>c, <2>2, <2>4 DEF Console!Resume, Console!Slots, Slots, live, cpu
  <2>6. QED
    BY <2>5 DEF Console!Next
<1>9. QED
  BY <1>0, <1>1, <1>2, <1>3, <1>4, <1>5, <1>6, <1>7, <1>8 DEF KernelStep

\* Programs nest: every step of execute and halt is a step of ProcessStack or
\* none.
THEOREM Nests == OneConsole => (Spec => Console!SafeSpec)
<1> SUFFICES ASSUME OneConsole PROVE Spec => Console!SafeSpec
  OBVIOUS
<1>1. Init => Console!Init
  <2>1. Init => live = {} /\ cpu = Kernel
    BY DEF Init, live, cpu
  <2>2. QED
    BY <2>1 DEF Console!Init, Console!InKernel, Kernel, live, cpu
<1>2. ConsoleInv /\ [Next]_vars => [Console!Next]_(Console!vars)
  <2> SUFFICES ASSUME ConsoleInv, [Next]_vars
               PROVE  Console!Next \/ UNCHANGED <<live, cpu>>
    BY DEF Console!vars, live, cpu
  <2>1. TypeOK /\ Nested
    BY DEF ConsoleInv
  <2>2. CASE UNCHANGED vars
    BY <2>2 DEF vars, live, cpu
  <2>3. CASE Next /\ mode = "user"
    <3>1. PICK n \in Slots : AtUser(n)
      BY <2>1, <2>3, UserPlace
    <3>2. QED
      BY <2>1, <2>3, <3>1, UserSteps DEF Console!Next
  <2>4. CASE Next /\ mode = "kernel"
    BY <2>1, <2>4, KernelSteps
  <2>5. mode \in {"user", "kernel"}
    BY <2>1 DEF Nested, AtBoot, AtUser, AtTrap, AtRead, AtExec, AtHalt, OnStack
  <2>6. QED
    BY <2>2, <2>3, <2>4, <2>5
<1>3. QED
  BY <1>1, <1>2, Nesting, PTL DEF Spec, Console!SafeSpec
-----------------------------------------------------------------------------
(***************************************************************************)
(* Any number of terminals, with commands that name executables or nothing *)
(* at all, when interrupts find the kernel only where it waits for a line: *)
(* pid is the latest process of the displayed terminal, every terminal     *)
(* keeps an active one, and halt restores the parent.  Programs may fault  *)
(* and every shell may exit.                                               *)
(***************************************************************************)

-----------------------------------------------------------------------------
(***************************************************************************)
(* Any number of terminals: how a step moves the kernel stacks.            *)
(***************************************************************************)
\* Stack s is replaced by one with resumable activations below its top.
LEMMA NewStack ==
  ASSUME TypeOK, Buried, NEW s \in Slots, NEW stk \in Seq(Frame),
         kstack' = [kstack EXCEPT ![s] = stk], ks' = s,
         \A i \in 1 .. Len(stk) - 1 : Resumable(stk[i])
  PROVE  Buried' /\ Len(Stack)' = Len(stk) /\ Top' = stk[Len(stk)]
<1>1. kstack'[s] = stk /\ \A r \in Slots \ {s} : kstack'[r] = kstack[r]
  BY DEF TypeOK
<1>2. Stack' = stk
  BY <1>1 DEF Stack
<1>3. Buried'
  BY <1>1 DEF Buried
<1>4. QED
  BY <1>2, <1>3 DEF Top

\* The activations of the current stack below its top are resumable.
LEMMA BelowTop ==
  ASSUME TypeOK, Buried
  PROVE  \A i \in 1 .. Len(Stack) - 1 : Resumable(Stack[i])
  BY DEF TypeOK, Buried, Stack

LEMMA TopGoto ==
  ASSUME TypeOK, Buried, Len(Stack) > 0, NEW pc \in PCs, NEW l,
         LocalOK(Top, l), Goto(pc, l), ks' = ks
  PROVE  /\ Buried' /\ Len(Stack)' > 0
         /\ Top.op = Top'.op /\ Top'.pc = pc /\ Top'.local = l
         /\ Top'.file = Top.file
<1> DEFINE g == [Top EXCEPT !.pc = pc, !.local = l]
           stk == [Stack EXCEPT ![Len(Stack)] = g]
<1>1. g \in Frame
  BY TopFrame, GotoFrame
<1>3. kstack' = [kstack EXCEPT ![ks] = stk] /\ ks \in Slots
  BY DEF Goto, SetStack, TypeOK, Top
<1> HIDE DEF g
<1>2. /\ stk \in Seq(Frame) /\ Len(stk) = Len(Stack)
      /\ \A i \in 1 .. Len(Stack) - 1 : stk[i] = Stack[i]
      /\ stk[Len(Stack)] = g
  BY <1>1, TopFrame, ExceptSeq
<1>4. \A i \in 1 .. Len(stk) - 1 : Resumable(stk[i])
  BY <1>2, BelowTop
<1> HIDE DEF stk
<1>5. Buried' /\ Len(Stack)' = Len(stk) /\ Top' = stk[Len(stk)]
  BY <1>2, <1>3, <1>4, NewStack
<1>6. Top' = [Top EXCEPT !.pc = pc, !.local = l]
  BY <1>2, <1>5 DEF g
<1>7. QED
  BY <1>2, <1>5, <1>6, TopFrame DEF Frame

LEMMA TopGoOn ==
  ASSUME TypeOK, Buried, Len(Stack) > 0, NEW pc \in PCs, GoOn(pc), ks' = ks
  PROVE  /\ Buried' /\ Len(Stack)' > 0
         /\ Top.op = Top'.op /\ Top'.pc = pc /\ Top'.local = Top.local
         /\ Top'.file = Top.file
<1>1. LocalOK(Top, Top.local) /\ Goto(pc, Top.local)
  BY TopFrame, FrameLocal DEF GoOn
<1>2. QED
  BY <1>1, TopGoto

\* What is cut off a stack leaves a resumable activation at its top.
LEMMA Cut ==
  ASSUME TypeOK, Buried, NEW s \in Slots, NEW n \in Nat,
         n < Len(kstack[s]), ks' = s,
         kstack' = [kstack EXCEPT ![s] = SubSeq(kstack[s], 1, n)]
  PROVE  Buried' /\ (Len(Stack)' > 0 => Resumable(Top'))
<1>1. kstack[s] \in Seq(Frame) /\ Len(kstack[s]) \in Nat
  BY LenProperties DEF TypeOK
<1> DEFINE stk == SubSeq(kstack[s], 1, n)
<1>2. \A i \in 1 .. n : kstack[s][i] \in Frame
  BY <1>1, ElementOfSeq
<1>3. /\ stk \in Seq(Frame) /\ Len(stk) = n
      /\ \A i \in 1 .. n : stk[i] = kstack[s][i]
  BY <1>1, <1>2, SubSeqProperties
<1>4. \A i \in 1 .. n : Resumable(stk[i])
  BY <1>1, <1>3 DEF Buried
<1> HIDE DEF stk
<1>5. kstack' = [kstack EXCEPT ![s] = stk]
  BY DEF stk
<1>7. \A i \in 1 .. Len(stk) - 1 : Resumable(stk[i])
  BY <1>3, <1>4
<1>6. Buried' /\ Len(Stack)' = Len(stk) /\ Top' = stk[Len(stk)]
  BY <1>3, <1>5, <1>7, NewStack
<1>8. QED
  BY <1>3, <1>4, <1>6

LEMMA TopPop ==
  ASSUME TypeOK, Buried, Len(Stack) > 0, Pop, ks' = ks
  PROVE  Buried' /\ (Len(Stack)' > 0 => Resumable(Top'))
<1>1. ks \in Slots /\ Stack = kstack[ks] /\ Len(Stack) - 1 \in Nat
        /\ Len(Stack) - 1 < Len(kstack[ks])
  BY TopFrame DEF TypeOK, Stack
<1>2. kstack' = [kstack EXCEPT ![ks] = SubSeq(kstack[ks], 1, Len(Stack) - 1)]
  BY <1>1 DEF Pop, SetStack
<1>3. QED
  BY <1>1, <1>2, Cut

\* A C function calls another one: its pc names the return point.
LEMMA TopCall ==
  ASSUME TypeOK, Buried, Len(Stack) > 0, NEW pc, NEW f \in Frame,
         [Top EXCEPT !.pc = pc] \in Frame, Resumable([Top EXCEPT !.pc = pc]),
         SetStack([Stack EXCEPT ![Len(Stack)].pc = pc] \o <<f>>), ks' = ks
  PROVE  Buried' /\ Len(Stack)' > 0 /\ Top' = f
<1> DEFINE low == [Stack EXCEPT ![Len(Stack)].pc = pc]
           stk == low \o <<f>>
<1>1. /\ low \in Seq(Frame) /\ Len(low) = Len(Stack)
      /\ \A i \in 1 .. Len(Stack) - 1 : low[i] = Stack[i]
      /\ low[Len(Stack)] = [Top EXCEPT !.pc = pc]
  BY TopFrame, ExceptSeq DEF Top
<1>2. \A i \in 1 .. Len(Stack) : Resumable(low[i])
  <2>1. \A i \in 1 .. Len(Stack) : i \in 1 .. Len(Stack) - 1 \/ i = Len(Stack)
    BY TopFrame
  <2> HIDE DEF low
  <2>2. QED
    BY <1>1, <2>1, BelowTop
<1> HIDE DEF low
<1>3. <<f>> \in Seq(Frame) /\ Len(<<f>>) = 1 /\ <<f>>[1] = f
  OBVIOUS
<1>4. /\ stk \in Seq(Frame) /\ Len(stk) = Len(Stack) + 1
      /\ \A i \in 1 .. Len(Stack) : stk[i] = low[i]
      /\ stk[Len(Stack) + 1] = f
  BY <1>1, <1>3, TopFrame, ConcatProperties
<1>5. kstack' = [kstack EXCEPT ![ks] = stk] /\ ks \in Slots
  BY DEF SetStack, TypeOK, low
<1> HIDE DEF stk
<1>6. \A i \in 1 .. Len(stk) - 1 : Resumable(stk[i])
  BY <1>2, <1>4, TopFrame
<1>7. Buried' /\ Len(Stack)' = Len(stk) /\ Top' = stk[Len(stk)]
  BY <1>4, <1>5, <1>6, NewStack
<1>8. QED
  BY <1>4, <1>7, TopFrame

\* A trap from user mode, with one activation on top of it or none.
LEMMA TopEnter ==
  ASSUME TypeOK, Buried, NEW frames \in Seq(Frame), NEW if, Enter(frames, if),
         tss # NoParent,
         \A i \in 1 .. Len(frames) - 1 : Resumable(frames[i])
  PROVE  /\ Buried' /\ Len(Stack)' > 0
         /\ IF Len(frames) = 0 THEN Resumable(Top')
                               ELSE Top' = frames[Len(frames)]
<1>1. tss \in Slots
  BY DEF TypeOK
<1>2. Trap(runner) \in Frame /\ Resumable(Trap(runner))
  BY FrameTypes DEF TypeOK, Trap, Act, Resumable
<1> DEFINE stk == <<Trap(runner)>> \o frames
<1>3. <<Trap(runner)>> \in Seq(Frame) /\ Len(<<Trap(runner)>>) = 1
  BY <1>2
<1>4. stk \in Seq(Frame) /\ Len(stk) = 1 + Len(frames)
        /\ stk[1] = Trap(runner)
        /\ \A i \in 2 .. 1 + Len(frames) : stk[i] = frames[i - 1]
  BY <1>3, ConcatProperties, LenProperties
<1>5. kstack' = [kstack EXCEPT ![tss] = stk] /\ ks' = tss
  BY DEF Enter
<1> HIDE DEF stk
<1>6. Len(frames) \in Nat
  BY LenProperties
<1>7. \A i \in 1 .. Len(stk) - 1 : Resumable(stk[i])
  <2>1. \A i \in 1 .. Len(stk) - 1 :
          i = 1 \/ (i \in 2 .. 1 + Len(frames)
                    /\ i - 1 \in 1 .. Len(frames) - 1)
    BY <1>4, <1>6
  <2>2. QED
    BY <1>2, <1>4, <2>1
<1>8. Buried' /\ Len(Stack)' = Len(stk) /\ Top' = stk[Len(stk)]
  BY <1>1, <1>4, <1>5, <1>7, NewStack
<1>9. QED
  BY <1>2, <1>4, <1>6, <1>8

-----------------------------------------------------------------------------
(***************************************************************************)
(* How a step moves the latest processes and the parents.                  *)
(***************************************************************************)
\* No active flag and no parent changes.
SameLinks ==
  \A p \in Slots : /\ processes'[p].active = processes[p].active
                   /\ processes'[p].parent_pid = processes[p].parent_pid

\* The current terminal names p; the others name what they named.
LatestIs(p) ==
  \A t \in Terms :
    terminals'[t].latest_pid = IF t = cur_terminal THEN p ELSE Latest(t)

LEMMA SetLatest ==
  ASSUME TypeOK, NEW p,
         terminals' = [terminals EXCEPT ![cur_terminal].latest_pid = p]
  PROVE  LatestIs(p)
  BY DEF TypeOK, LatestIs, Latest

\* Nothing a step leaves alone is lost.
LEMMA TablesKept ==
  ASSUME TypeOK, SameLinks,
         \A t \in Terms : terminals'[t].latest_pid = Latest(t)
  PROVE  /\ Apart => Apart'
         /\ Tables => Tables'
         /\ Quiet /\ UNCHANGED <<cur_terminal, pid>> => Quiet'
<1>0. 0 \in Slots /\ cur_terminal \in Terms
  BY ConstantsAssumption DEF TypeOK, Slots
<1>1. ASSUME NEW p, NEW c \in Slots, Parked(p, c) PROVE Parked(p, c)'
  BY <1>1 DEF Parked, Alive, Named, SameLinks, Latest
<1>2. ASSUME Apart PROVE Apart'
  <2>1. Alive(0)' /\ processes'[0].parent_pid = NoParent
    BY <1>0, <1>2 DEF Apart, Alive, SameLinks
  <2>2. \A t, u \in Terms : t # u =>
          terminals'[t].latest_pid = 0
            \/ terminals'[t].latest_pid # terminals'[u].latest_pid
    BY <1>2 DEF Apart
  <2>3. ASSUME NEW c \in Slots \ {0}, processes'[c].active
        PROVE  Parked(processes[c].parent_pid, c)'
    <3>1. PICK p : p = processes[c].parent_pid
      OBVIOUS
    <3>2. Parked(p, c) /\ p = processes'[c].parent_pid
      BY <1>2, <2>3, <3>1 DEF Apart, SameLinks
    <3>3. Parked(p, c)'
      BY <1>1, <3>2
    <3>4. QED
      BY <3>2, <3>3 DEF Parked, Alive, Named
  <2>4. QED
    BY <2>1, <2>2, <2>3 DEF Apart, Latest
<1>3. ASSUME Tables PROVE Tables'
  BY <1>2, <1>3 DEF Tables, Alive, SameLinks, Latest
<1>4. QED
  BY <1>0, <1>2, <1>3 DEF Quiet, Latest

\* A free slot becomes the latest process of the current terminal, whose
\* latest process p will be its parent.
LEMMA Birth ==
  ASSUME TypeOK, Tables, SameLinks, NEW q, q \in FreeSlots, LatestIs(q),
         NEW p, p = Latest(cur_terminal), cur_terminal' = cur_terminal
  PROVE  Gap(p)' /\ Latest(cur_terminal)' = q
<1>0. 0 \in Slots /\ cur_terminal \in Terms
  BY ConstantsAssumption DEF TypeOK, Slots
<1>1. /\ q \in Slots \ {0} /\ ~processes[q].active
      /\ \A t \in Terms : Latest(t) # q
      /\ \A c \in Slots \ {0} :
           processes[c].active => processes[c].parent_pid # q
  BY DEF FreeSlots, Tables, Apart, Alive, Parked
<1>2. terminals'[cur_terminal].latest_pid = q
        /\ \A t \in Terms \ {cur_terminal} :
             terminals'[t].latest_pid = Latest(t)
  BY <1>0 DEF LatestIs
<1>3. Alive(p) /\ p # q
  BY <1>0, <1>1 DEF Tables
<1>4. \A t \in Terms \ {cur_terminal} : p = 0 \/ terminals'[t].latest_pid # p
  BY <1>0, <1>2 DEF Tables, Apart
<1>5. Parked(p, q)'
  <2>1. Alive(p)'
    BY <1>3 DEF Alive, SameLinks
  <2>2. p # 0 => ~Named(p)'
    BY <1>2, <1>3, <1>4 DEF Named, Latest
  <2>3. p # 0 => \A d \in Slots \ {0} :
                   processes[d].active => processes[d].parent_pid # p
    BY <1>0 DEF Tables, Apart, Parked, Named
  <2>4. QED
    BY <2>1, <2>2, <2>3 DEF Parked, SameLinks
<1>6. Apart'
  <2>1. Alive(0)' /\ processes'[0].parent_pid = NoParent
    BY <1>0 DEF Tables, Apart, Alive, SameLinks
  <2>2. \A t, u \in Terms : t # u =>
          terminals'[t].latest_pid = 0
            \/ terminals'[t].latest_pid # terminals'[u].latest_pid
    BY <1>1, <1>2 DEF Tables, Apart
  <2>3. ASSUME NEW c \in Slots \ {0}, processes'[c].active
        PROVE  Parked(processes[c].parent_pid, c)'
    <3>1. PICK r : r = processes[c].parent_pid
      OBVIOUS
    <3>2. Parked(r, c) /\ r = processes'[c].parent_pid /\ r # q
      BY <1>1, <2>3, <3>1 DEF Tables, Apart, SameLinks
    <3>3. Parked(r, c)'
      BY <1>2, <3>2 DEF Parked, Alive, Named, SameLinks, Latest
    <3>4. QED
      BY <3>2, <3>3 DEF Parked, Alive, Named
  <2>4. QED
    BY <2>1, <2>2, <2>3 DEF Apart, Latest
<1>7. ~Alive(q)' /\ \A t \in Terms \ {cur_terminal} :
                      Alive(Latest(t))'
  BY <1>1, <1>2 DEF Tables, Alive, SameLinks, Latest
<1>8. QED
  BY <1>1, <1>2, <1>5, <1>6, <1>7 DEF Gap, Latest, Parked, Named, Alive

\* A child is active and its parent is the one that waits: between calls.
LEMMA Adopt ==
  ASSUME TypeOK, NEW p, Gap(p), NEW q, q = Latest(cur_terminal),
         \A c \in Slots \ {q} :
           /\ processes'[c].active = processes[c].active
           /\ processes'[c].parent_pid = processes[c].parent_pid,
         processes'[q].active = TRUE, processes'[q].parent_pid = p,
         UNCHANGED <<terminals, cur_terminal>>
  PROVE  Tables' /\ Latest(cur_terminal)' = q
<1>0. cur_terminal \in Terms /\ 0 \in Slots
  BY ConstantsAssumption DEF TypeOK, Slots
<1>1. q \in Slots \ {0} /\ ~processes[q].active /\ q # p /\ p \in Slots
  BY DEF Gap, Parked, Alive
<1>2. \A r : Alive(r) => Alive(r)'
  BY <1>1 DEF Alive
<1>3. \A r : Named(r)' <=> Named(r)
  BY DEF Named, Latest
<1>4. Parked(p, q)'
  BY <1>1, <1>2, <1>3 DEF Gap, Parked
<1>5. ASSUME NEW c \in Slots \ {0}, processes'[c].active
      PROVE  Parked(processes[c].parent_pid, c)'
  <2>1. CASE c = q
    BY <1>4, <2>1 DEF Parked, Alive, Named, Latest
  <2>2. CASE c # q
    <3>1. PICK r : r = processes[c].parent_pid
      OBVIOUS
    <3>2. Parked(r, c) /\ r = processes'[c].parent_pid
      BY <1>5, <2>2, <3>1 DEF Gap, Apart
    <3>3. processes[c].active = TRUE \/ processes[c].active
      BY <1>5, <2>2
    <3>4. p # r \/ r = 0
      BY <1>1, <2>2, <3>1, <3>3 DEF Gap, Parked
    <3>5. Parked(r, c)'
      BY <1>1, <1>2, <1>3, <3>2, <3>4 DEF Parked
    <3>6. QED
      BY <3>2, <3>5 DEF Parked, Alive, Named, Latest
  <2>3. QED
    BY <2>1, <2>2
<1>6. Alive(0)' /\ processes'[0].parent_pid = NoParent
  BY <1>0, <1>1, <1>2 DEF Gap, Apart
<1>7. Apart'
  BY <1>5, <1>6 DEF Gap, Apart, Latest
<1>8. Alive(q)'
  BY <1>1 DEF Alive
<1>9. QED
  BY <1>0, <1>2, <1>7, <1>8 DEF Gap, Tables, Latest

\* The latest process of the current terminal ends: its parent waits.
LEMMA Death ==
  ASSUME TypeOK, Tables, NEW q, q = Latest(cur_terminal), q # 0,
         \A c \in Slots \ {q} : processes'[c].active = processes[c].active,
         \A c \in Slots : processes'[c].parent_pid = processes[c].parent_pid,
         processes'[q].active = FALSE,
         NEW p, p = processes[q].parent_pid,
         UNCHANGED <<terminals, cur_terminal>>
  PROVE  Gap(p)' /\ Latest(cur_terminal)' = q
<1>0. cur_terminal \in Terms /\ 0 \in Slots
  BY ConstantsAssumption DEF TypeOK, Slots
<1>1. q \in Slots \ {0} /\ Alive(q) /\ Parked(p, q) /\ Named(q)
  BY <1>0 DEF Tables, Apart, Alive, Named
<1>2. \A r : r # q => (Alive(r)' <=> Alive(r))
  BY DEF Alive
<1>3. \A r : Named(r)' <=> Named(r)
  BY DEF Named, Latest
<1>4. ASSUME NEW r, NEW c \in Slots, Parked(r, c) PROVE Parked(r, c)'
  <2>1. r # q
    BY <1>1, <1>4 DEF Parked
  <2>2. Alive(r)'
    BY <1>2, <1>4, <2>1 DEF Parked
  <2>3. QED
    BY <1>3, <1>4, <2>2 DEF Parked
<1>5. ASSUME NEW c \in Slots \ {0}, processes'[c].active
      PROVE  Parked(processes[c].parent_pid, c)'
  <2>1. PICK r : r = processes[c].parent_pid
    OBVIOUS
  <2>2. Parked(r, c) /\ r = processes'[c].parent_pid
    BY <1>5, <2>1 DEF Tables, Apart
  <2>3. Parked(r, c)'
    BY <1>4, <2>2
  <2>4. QED
    BY <2>2, <2>3 DEF Parked, Alive, Named, Latest
<1>6. Alive(0)' /\ processes'[0].parent_pid = NoParent
  BY <1>0, <1>2 DEF Tables, Apart
<1>7. Apart'
  BY <1>5, <1>6 DEF Tables, Apart, Latest
<1>8. Parked(p, q)' /\ ~Alive(q)'
  BY <1>1, <1>4 DEF Alive
<1>9. \A t \in Terms \ {cur_terminal} : Alive(Latest(t))'
  <2>1. \A t \in Terms \ {cur_terminal} : Alive(Latest(t)) /\ Latest(t) # q
    BY <1>0, <1>1 DEF Tables, Apart
  <2>2. QED
    BY <1>2, <2>1 DEF Latest, Alive
<1>10. QED
  BY <1>1, <1>7, <1>8, <1>9 DEF Gap, Latest, Parked, Named, Alive

\* The parent becomes the latest process again.
LEMMA Inherit ==
  ASSUME TypeOK, NEW p, Gap(p), LatestIs(p),
         UNCHANGED <<processes, cur_terminal>>
  PROVE  Tables' /\ Latest(cur_terminal)' = p
<1>0. cur_terminal \in Terms /\ 0 \in Slots
  BY ConstantsAssumption DEF TypeOK, Slots
<1>1. /\ terminals'[cur_terminal].latest_pid = p
      /\ \A t \in Terms \ {cur_terminal} :
           terminals'[t].latest_pid = Latest(t)
  BY <1>0 DEF LatestIs
<1>2. \A r : Alive(r)' <=> Alive(r)
  BY DEF Alive
<1>3. ~Alive(Latest(cur_terminal)) /\ Alive(p)
  BY DEF Gap, Parked
<1>4. ASSUME NEW c \in Slots \ {0}, processes'[c].active
      PROVE  Parked(processes[c].parent_pid, c)'
  <2>1. PICK r : r = processes[c].parent_pid
    OBVIOUS
  <2>2. Parked(r, c) /\ r = processes'[c].parent_pid
    BY <1>4, <2>1 DEF Gap, Apart
  <2>3. c # Latest(cur_terminal)
    BY <1>3, <1>4 DEF Alive
  <2>4. p # r \/ r = 0
    BY <1>4, <2>1, <2>3 DEF Gap, Parked
  <2>5. r = 0 \/ ~Named(r)'
    BY <1>1, <2>2, <2>4 DEF Parked, Named, Latest
  <2>6. Parked(r, c)'
    BY <1>2, <2>2, <2>5 DEF Parked
  <2>7. QED
    BY <2>2, <2>6 DEF Parked, Alive, Named, Latest
<1>5. \A t, u \in Terms : t # u =>
        terminals'[t].latest_pid = 0
          \/ terminals'[t].latest_pid # terminals'[u].latest_pid
  BY <1>0, <1>1 DEF Gap, Apart, Parked, Named
<1>6. Apart'
  BY <1>0, <1>2, <1>4, <1>5 DEF Gap, Apart, Latest
<1>7. \A t \in Terms : Alive(Latest(t))'
  BY <1>1, <1>2, <1>3 DEF Gap, Latest, Alive
<1>8. QED
  BY <1>1, <1>6, <1>7 DEF Tables, Latest

LEMMA GapKept ==
  ASSUME UNCHANGED <<processes, terminals, cur_terminal>>
  PROVE  /\ \A p : Gap(p) => Gap(p)'
         /\ Tables => Tables'
         /\ Quiet /\ pid' = pid => Quiet'
  BY DEF Gap, Quiet, Tables, Apart, Parked, Alive, Named, Latest

-----------------------------------------------------------------------------
(***************************************************************************)
(* Every step preserves the invariant.                                     *)
(***************************************************************************)
LEMMA WildLatched == ASSUME Wild PROVE Latched'
  BY DEF Wild, Latched

\* In the kernel the running activation is the top of its stack.
LEMMA AtRunning ==
  ASSUME Latched, NEW op, NEW pc, Running(op, pc)
  PROVE  /\ Buried /\ Len(Stack) > 0 /\ AtTop(Top)
         /\ Top.op = op /\ Top.pc = pc /\ mode = "kernel"
  BY DEF Latched, Running

LEMMA KernelLatched ==
  ASSUME mode' = "kernel", Buried', Len(Stack)' > 0 => AtTop(Top)',
         Len(Stack)' > 0 \/ Quiet'
  PROVE  Latched'
  BY DEF Latched

\* Between the steps of a system call, Gap follows the local of the running
\* activation.
LEMMA TopGap ==
  ASSUME Top'.op = "execute", Top'.pc \in {"map", "save"},
         NEW p, p = Top'.local, Gap(p)', pid' = Latest(cur_terminal)'
  PROVE  AtTop(Top)'
  BY DEF AtTop, TopExecute, Gap, Parked, Alive, Named, Latest

\* A trap from user mode.
LEMMA EnterLatched ==
  ASSUME TypeOK, Latched, NEW frames \in Seq(Frame), NEW if,
         Enter(frames, if),
         \A i \in 1 .. Len(frames) - 1 : Resumable(frames[i]),
         NEW f, Len(frames) > 0 => f = frames[Len(frames)],
         Len(frames) > 0 =>
           \/ f.op = "execute" /\ f.pc = "in" /\ f.file # "data"
           \/ f.op = "halt" /\ f.pc = "in"
           \/ f.op = "switch" /\ f.pc = "in"
           \/ f.op = "read"
  PROVE  Latched'
<1>1. Buried /\ Quiet
  BY DEF Enter, Latched
<1>2. CASE tss = NoParent
  BY <1>2, WildLatched DEF Enter
<1>3. CASE tss # NoParent
  <2>1. /\ Buried' /\ Len(Stack)' > 0
        /\ IF Len(frames) = 0 THEN Resumable(Top')
                              ELSE Top' = frames[Len(frames)]
    BY <1>1, <1>3, TopEnter
  <2>2. Quiet' /\ mode' = "kernel"
    BY <1>1, <1>3, GapKept DEF Enter
  <2>3. Len(frames) = 0 \/ Len(frames) > 0
    BY LenProperties
  <2>4. CASE Len(frames) = 0
    <3>1. AtTop(Top)'
      BY <2>1, <2>2, <2>4 DEF AtTop
    <3>2. QED
      BY <2>1, <2>2, <3>1, KernelLatched
  <2>5. CASE Len(frames) > 0
    <3>1. Top' = f
      BY <2>1, <2>5
    <3>2. AtTop(Top)'
      BY <2>2, <2>5, <3>1
         DEF AtTop, TopExecute, TopHalt, TopSwitch, Resumable
    <3>3. QED
      BY <2>1, <2>2, <3>2, KernelLatched
  <2>6. QED
    BY <2>3, <2>4, <2>5
<1>4. QED
  BY <1>2, <1>3

LEMMA OneFrame ==
  ASSUME NEW f \in Frame
  PROVE  /\ <<f>> \in Seq(Frame) /\ Len(<<f>>) = 1 /\ <<f>>[Len(<<f>>)] = f
         /\ \A i \in 1 .. Len(<<f>>) - 1 : Resumable(<<f>>[i])
  OBVIOUS

LEMMA UserLatched ==
  ASSUME WaitsOnly, TypeOK, Latched, UserStep \/ DeviceIrq
  PROVE  Latched'
<1>1. ASSUME NEW file \in Files, SysExecute(file) PROVE Latched'
  <2>1. file \in Kinds \ {"data"}
    BY ConstantsAssumption DEF Kinds, WaitsOnly
  <2>2. PICK f \in Frame : f = Execute(file)
    BY <2>1, FrameTypes DEF TypeOK
  <2>3. f.op = "execute" /\ f.pc = "in" /\ f.file # "data"
    BY <2>1, <2>2 DEF Execute, Act
  <2>4. QED
    BY <1>1, <2>2, <2>3, OneFrame, EnterLatched DEF SysExecute
<1>2. ASSUME NEW if, Enter(<<Halt>>, if) PROVE Latched'
  <2>1. PICK f \in Frame : f = Halt
    BY FrameTypes DEF TypeOK
  <2>2. f.op = "halt" /\ f.pc = "in"
    BY <2>1 DEF Halt, Act
  <2>3. QED
    BY <1>2, <2>1, <2>2, OneFrame, EnterLatched
<1>3. CASE SysRead
  <2>1. CASE pid = NoParent
    BY <1>3, <2>1, WildLatched DEF SysRead
  <2>2. CASE pid # NoParent /\ processes[pid].saved = Never
    <3>1. PICK r \in Frame : r = Read /\ Resumable(r)
      BY FrameTypes DEF TypeOK, Read, Act, Resumable
    <3>2. PICK a \in Frame : a = Act("trap", Kernel, "elf") /\ Resumable(a)
      BY FrameTypes DEF TypeOK, Act, Resumable
    <3>3. PICK f \in Frame : f = Halt /\ f.op = "halt" /\ f.pc = "in"
      BY FrameTypes DEF TypeOK, Halt, Act
    <3>4. PICK frames : frames = <<r, a, f>>
      OBVIOUS
    <3>5. /\ frames \in Seq(Frame) /\ Len(frames) = 3 /\ frames[3] = f
          /\ frames[1] = r /\ frames[2] = a
      BY <3>4
    <3>6. \A i \in 1 .. Len(frames) - 1 : Resumable(frames[i])
      <4>1. \A i \in 1 .. Len(frames) - 1 : i = 1 \/ i = 2
        BY <3>5
      <4>2. QED
        BY <3>1, <3>2, <3>5, <4>1
    <3>7. Enter(frames, FALSE)
      BY <1>3, <2>2, <3>1, <3>2, <3>3, <3>4 DEF SysRead
    <3>8. QED
      BY <3>3, <3>5, <3>6, <3>7, EnterLatched
  <2>3. CASE pid # NoParent /\ processes[pid].saved # Never
    <3>1. PICK f \in Frame : f = Read /\ f.op = "read"
      BY FrameTypes DEF TypeOK, Read, Act
    <3>2. Enter(<<f>>, TRUE)
      BY <1>3, <2>3, <3>1 DEF SysRead
    <3>3. QED
      BY <3>1, <3>2, OneFrame, EnterLatched
  <2>4. QED
    BY <2>1, <2>2, <2>3
<1>4. CASE SysVidmap
  <2>1. mode = "user" /\ mode' = "user" /\ UNCHANGED <<kstack, ks>>
          /\ Buried /\ Quiet /\ Quiet'
    BY <1>4, GapKept DEF SysVidmap, Latched
  <2>2. QED
    BY <2>1 DEF Latched, Buried
<1>5. CASE DeviceIrq
  <2>1. << >> \in Seq(Frame) /\ Len(<< >>) = 0
    BY EmptySeq
  <2>2. Enter(<< >>, TRUE)
    BY <1>5 DEF DeviceIrq
  <2>3. PICK frames \in Seq(Frame) : frames = << >> /\ Len(frames) = 0
    BY <2>1
  <2>4. PICK f : Len(frames) > 0 => f = frames[Len(frames)]
    OBVIOUS
  <2>5. \A i \in 1 .. Len(frames) - 1 : Resumable(frames[i])
    BY <2>3
  <2>6. Enter(frames, TRUE)
    BY <2>2, <2>3
  <2>7. ~(Len(frames) > 0)
    BY <2>3
  <2>8. QED
    BY <2>4, <2>5, <2>6, <2>7, EnterLatched
<1>6. QED
  BY <1>1, <1>2, <1>3, <1>4, <1>5 DEF UserStep, SysHalt, Exception

\* A return leaves a resumable activation at the top, or an empty stack.
LEMMA PopLatched ==
  ASSUME TypeOK, Buried, Len(Stack) > 0, Pop, mode' = "kernel", ks' = ks,
         Quiet'
  PROVE  Latched'
<1>1. Buried' /\ (Len(Stack)' > 0 => Resumable(Top'))
  BY TopPop
<1>2. Len(Stack)' > 0 => AtTop(Top)'
  BY <1>1 DEF AtTop
<1>3. QED
  BY <1>1, <1>2, KernelLatched

\* At the named pc of execute_function, entry() or the tables are known.
LEMMA AtExecutePc ==
  ASSUME AtTop(Top), Top.op = "execute"
  PROVE  TopExecute(Top) \/ TopBoot(Top)
  BY DEF AtTop, Resumable

LEMMA ExecLatched ==
  ASSUME WaitsOnly, TypeOK, Latched,
         \/ ExecLookup \/ ExecFindSlot \/ ExecCheckELF \/ ExecClaim
         \/ ExecMap \/ ExecSave \/ ExecUserMode
  PROVE  Latched'
<1> USE DEF PCs
<1>1. CASE ExecLookup
  <2>1. /\ Buried /\ Len(Stack) > 0 /\ AtTop(Top)
        /\ Top.op = "execute" /\ Top.pc = "in" /\ mode = "kernel"
    BY <1>1, AtRunning DEF ExecLookup
  <2>2. UNCHANGED <<processes, pid, cur_terminal, terminals, mode, ks>>
    BY <1>1 DEF ExecLookup
  <2>3. CASE TopExecute(Top)
    <3>1. Quiet /\ Top.file # "data" /\ Quiet'
      BY <2>1, <2>2, <2>3, GapKept DEF TopExecute
    <3>2. CASE Top.file = "missing"
      BY <1>1, <2>1, <2>2, <3>1, <3>2, PopLatched DEF ExecLookup
    <3>3. CASE Top.file # "missing"
      <4>1. Goto("slot", pid) /\ LocalOK(Top, pid)
        BY <1>1, <2>1, <3>3 DEF ExecLookup, LocalOK, TypeOK
      <4>2. /\ Buried' /\ Len(Stack)' > 0
            /\ Top'.op = "execute" /\ Top'.pc = "slot" /\ Top'.local = pid
            /\ Top'.file # "data"
        BY <2>1, <2>2, <3>1, <4>1, TopGoto
      <4>3. AtTop(Top)'
        BY <2>2, <3>1, <4>2 DEF AtTop, TopExecute
      <4>4. QED
        BY <2>1, <2>2, <4>2, <4>3, KernelLatched
    <3>4. QED
      BY <3>2, <3>3
  <2>4. CASE TopBoot(Top)
    <3>1. /\ \A p \in Slots : ~processes[p].active
          /\ \A t \in Terms : Latest(t) = 0
          /\ pid = NoParent /\ Top.file = "elf"
      BY <2>1, <2>4 DEF TopBoot
    <3>2. Goto("slot", pid) /\ LocalOK(Top, pid)
      BY <1>1, <2>1, <3>1 DEF ExecLookup, LocalOK, TypeOK
    <3>3. /\ Buried' /\ Len(Stack)' > 0
          /\ Top'.op = "execute" /\ Top'.pc = "slot" /\ Top'.local = pid
          /\ Top'.file = "elf"
      BY <2>1, <2>2, <3>1, <3>2, TopGoto
    <3>4. AtTop(Top)'
      BY <2>2, <3>1, <3>3 DEF AtTop, TopBoot, Latest
    <3>5. QED
      BY <2>1, <2>2, <3>3, <3>4, KernelLatched
  <2>5. QED
    BY <2>1, <2>3, <2>4, AtExecutePc
<1>2. CASE ExecFindSlot
  <2>1. /\ Buried /\ Len(Stack) > 0 /\ AtTop(Top)
        /\ Top.op = "execute" /\ Top.pc = "slot" /\ mode = "kernel"
    BY <1>2, AtRunning DEF ExecFindSlot
  <2>2. UNCHANGED <<processes, cur_terminal, terminals, mode, ks>>
    BY <1>2 DEF ExecFindSlot
  <2>3. CASE TopExecute(Top)
    <3>1. Quiet /\ Top.file # "data" /\ Top.local = pid
      BY <2>1, <2>3 DEF TopExecute
    <3>2. CASE FreeSlots = {}
      <4>1. Pop /\ pid' = pid /\ Quiet'
        BY <1>2, <2>2, <3>1, <3>2, GapKept DEF ExecFindSlot
      <4>2. QED
        BY <2>1, <2>2, <4>1, PopLatched
    <3>3. CASE FreeSlots # {}
      <4>1. GoOn("check") /\ pid' \in FreeSlots
        BY <1>2, <3>3 DEF ExecFindSlot
      <4>2. /\ Buried' /\ Len(Stack)' > 0
            /\ Top'.op = "execute" /\ Top'.pc = "check"
            /\ Top'.local = pid /\ Top'.file # "data"
        BY <2>1, <2>2, <3>1, <4>1, TopGoOn
      <4>3. Tables' /\ pid = Latest(cur_terminal)
              /\ Latest(cur_terminal)' = Latest(cur_terminal)
        BY <2>2, <3>1, GapKept DEF Quiet, Latest
      <4>4. (pid \in FreeSlots)'
        BY <2>2, <4>1 DEF FreeSlots
      <4>5. AtTop(Top)'
        BY <4>2, <4>3, <4>4 DEF AtTop, TopExecute
      <4>6. QED
        BY <2>1, <2>2, <4>2, <4>5, KernelLatched
    <3>4. QED
      BY <3>2, <3>3
  <2>4. CASE TopBoot(Top)
    <3>1. /\ \A p \in Slots : ~processes[p].active
          /\ \A t \in Terms : Latest(t) = 0
          /\ pid = NoParent /\ Top.file = "elf" /\ Top.local = NoParent
      BY <2>1, <2>4 DEF TopBoot
    <3>2. 0 \in FreeSlots /\ \A p \in FreeSlots : p >= 0
      BY <3>1, ConstantsAssumption DEF FreeSlots, Slots
    <3>3. GoOn("check") /\ pid' = 0
      <4>1. GoOn("check") /\ \E p \in FreeSlots : FirstFree(p) /\ pid' = p
        BY <1>2, <3>2 DEF ExecFindSlot
      <4>2. \A p \in FreeSlots : FirstFree(p) => p = 0
        BY <3>2 DEF FirstFree, FreeSlots, Slots
      <4>3. QED
        BY <4>1, <4>2
    <3>4. /\ Buried' /\ Len(Stack)' > 0
          /\ Top'.op = "execute" /\ Top'.pc = "check"
          /\ Top'.local = NoParent /\ Top'.file = "elf"
      BY <2>1, <2>2, <3>1, <3>3, TopGoOn
    <3>5. AtTop(Top)'
      BY <2>2, <3>1, <3>3, <3>4 DEF AtTop, TopBoot, Latest
    <3>6. QED
      BY <2>1, <2>2, <3>4, <3>5, KernelLatched
  <2>5. QED
    BY <2>1, <2>3, <2>4, AtExecutePc
<1>3. CASE ExecCheckELF
  <2>1. /\ Buried /\ Len(Stack) > 0 /\ AtTop(Top)
        /\ Top.op = "execute" /\ Top.pc = "check" /\ mode = "kernel"
    BY <1>3, AtRunning DEF ExecCheckELF
  <2>2. UNCHANGED <<processes, pid, cur_terminal, terminals, mode, ks>>
    BY <1>3 DEF ExecCheckELF
  <2>3. Top.file # "data"
    BY <2>1, AtExecutePc DEF TopExecute, TopBoot
  <2>4. /\ Buried' /\ Len(Stack)' > 0
        /\ Top'.op = "execute" /\ Top'.pc = "claim"
        /\ Top'.local = Top.local /\ Top'.file = Top.file
    BY <1>3, <2>1, <2>2, <2>3, TopGoOn DEF ExecCheckELF
  <2>5. CASE TopExecute(Top)
    <3>1. Tables /\ Tables' /\ Top.local = Latest(cur_terminal)
            /\ pid \in FreeSlots
      BY <2>1, <2>2, <2>5, GapKept DEF TopExecute
    <3>2. (pid \in FreeSlots)' /\ Latest(cur_terminal)' = Latest(cur_terminal)
      BY <2>2, <3>1 DEF FreeSlots, Latest
    <3>3. AtTop(Top)'
      BY <2>3, <2>4, <3>1, <3>2 DEF AtTop, TopExecute
    <3>4. QED
      BY <2>1, <2>2, <2>4, <3>3, KernelLatched
  <2>6. CASE TopBoot(Top)
    <3>1. AtTop(Top)'
      BY <2>1, <2>2, <2>4, <2>6 DEF AtTop, TopBoot, Latest
    <3>2. QED
      BY <2>1, <2>2, <2>4, <3>1, KernelLatched
  <2>7. QED
    BY <2>1, <2>5, <2>6, AtExecutePc
<1>4. CASE ExecClaim
  <2>1. CASE pid = NoParent
    BY <1>4, <2>1, WildLatched DEF ExecClaim
  <2>2. CASE pid # NoParent
    <3>1. /\ Buried /\ Len(Stack) > 0 /\ AtTop(Top)
          /\ Top.op = "execute" /\ Top.pc = "claim" /\ mode = "kernel"
      BY <1>4, AtRunning DEF ExecClaim
    <3>2. /\ processes' = [processes EXCEPT ![pid].terminal = cur_terminal]
          /\ terminals' = [terminals EXCEPT ![cur_terminal].latest_pid = pid]
          /\ GoOn("map")
          /\ UNCHANGED <<pid, cur_terminal, mode, ks>>
      BY <1>4, <2>2 DEF ExecClaim
    <3>3. SameLinks /\ LatestIs(pid)
      <4>1. SameLinks
        BY <3>2 DEF SameLinks, TypeOK, PCB
      <4>2. PICK p : p = pid
        OBVIOUS
      <4>3. LatestIs(p)
        BY <3>2, <4>2, SetLatest
      <4>4. QED
        BY <4>1, <4>2, <4>3
    <3>4. /\ Buried' /\ Len(Stack)' > 0
          /\ Top'.op = "execute" /\ Top'.pc = "map"
          /\ Top'.local = Top.local /\ Top'.file = Top.file
      BY <3>1, <3>2, TopGoOn
    <3>5. CASE TopExecute(Top)
      <4>1. Tables /\ Top.local = Latest(cur_terminal) /\ pid \in FreeSlots
        BY <3>1, <3>5 DEF TopExecute
      <4>2. PICK p : p = Top.local
        OBVIOUS
      <4>3. PICK q : q = pid
        OBVIOUS
      <4>4. Gap(p)' /\ Latest(cur_terminal)' = q
        BY <3>2, <3>3, <4>1, <4>2, <4>3, Birth
      <4>5. AtTop(Top)'
        BY <3>2, <3>4, <4>2, <4>3, <4>4, TopGap
      <4>6. QED
        BY <3>1, <3>2, <3>4, <4>5, KernelLatched
    <3>6. CASE TopBoot(Top)
      <4>1. /\ \A p \in Slots : ~processes[p].active
            /\ \A t \in Terms : Latest(t) = 0
            /\ pid = 0 /\ Top.file = "elf" /\ Top.local = NoParent
        BY <3>1, <3>6 DEF TopBoot
      <4>2. /\ \A p \in Slots : ~processes'[p].active
            /\ \A t \in Terms : terminals'[t].latest_pid = 0
        BY <3>3, <4>1 DEF SameLinks, LatestIs
      <4>3. AtTop(Top)'
        BY <3>2, <3>4, <4>1, <4>2 DEF AtTop, TopBoot, Latest
      <4>4. QED
        BY <3>1, <3>2, <3>4, <4>3, KernelLatched
    <3>7. QED
      BY <3>1, <3>5, <3>6, AtExecutePc
  <2>3. QED
    BY <2>1, <2>2
<1>5. CASE ExecMap
  <2>1. /\ Buried /\ Len(Stack) > 0 /\ AtTop(Top)
        /\ Top.op = "execute" /\ Top.pc = "map" /\ mode = "kernel"
    BY <1>5, AtRunning DEF ExecMap
  <2>2. UNCHANGED <<processes, pid, cur_terminal, terminals, mode, ks>>
    BY <1>5 DEF ExecMap
  <2>3. /\ Buried' /\ Len(Stack)' > 0
        /\ Top'.op = "execute" /\ Top'.pc = "save"
        /\ Top'.local = Top.local /\ Top'.file = Top.file
    BY <1>5, <2>1, <2>2, TopGoOn DEF ExecMap
  <2>4. CASE TopExecute(Top)
    <3>1. PICK p : p = Top.local
      OBVIOUS
    <3>2. Gap(p) /\ pid = Latest(cur_terminal)
      BY <2>1, <2>4, <3>1 DEF TopExecute
    <3>3. Gap(p)' /\ pid' = Latest(cur_terminal)'
      BY <2>2, <3>2, GapKept DEF Latest
    <3>4. AtTop(Top)'
      BY <2>3, <3>1, <3>3, TopGap
    <3>5. QED
      BY <2>1, <2>2, <2>3, <3>4, KernelLatched
  <2>5. CASE TopBoot(Top)
    <3>1. AtTop(Top)'
      BY <2>1, <2>2, <2>3, <2>5 DEF AtTop, TopBoot, Latest
    <3>2. QED
      BY <2>1, <2>2, <2>3, <3>1, KernelLatched
  <2>6. QED
    BY <2>1, <2>4, <2>5, AtExecutePc
<1>6. CASE ExecSave
  <2>1. CASE pid = NoParent
    BY <1>6, <2>1, WildLatched DEF ExecSave
  <2>2. CASE pid # NoParent
    <3>1. /\ Buried /\ Len(Stack) > 0 /\ AtTop(Top)
          /\ Top.op = "execute" /\ Top.pc = "save" /\ mode = "kernel"
      BY <1>6, AtRunning DEF ExecSave
    <3>2. /\ processes' = [processes EXCEPT ![pid] =
               [@ EXCEPT !.pid = pid, !.parent_pid = Top.local,
                         !.saved = Here, !.active = TRUE]]
          /\ GoOn("go")
          /\ UNCHANGED <<pid, cur_terminal, terminals, mode, ks>>
      BY <1>6, <2>2 DEF ExecSave
    <3>3. PICK q : q = pid
      OBVIOUS
    <3>4. PICK p : p = Top.local
      OBVIOUS
    <3>5. q \in Slots /\ processes[q] \in PCB
      BY <2>2, <3>3 DEF TypeOK
    <3>6. \A c \in Slots \ {q} :
            /\ processes'[c].active = processes[c].active
            /\ processes'[c].parent_pid = processes[c].parent_pid
      BY <3>2, <3>3 DEF TypeOK
    <3>7. processes'[q].active = TRUE /\ processes'[q].parent_pid = p
      <4>1. processes'[q] = [processes[q] EXCEPT !.pid = pid, !.parent_pid = p,
                                          !.saved = Here, !.active = TRUE]
        BY <3>2, <3>3, <3>4, <3>5 DEF TypeOK
      <4>2. QED
        BY <3>5, <4>1 DEF PCB
    <3>8. /\ Buried' /\ Len(Stack)' > 0
          /\ Top'.op = "execute" /\ Top'.pc = "go"
      BY <3>1, <3>2, TopGoOn
    <3>9. Quiet'
      <4>1. CASE TopExecute(Top)
        <5>1. Gap(p) /\ q = Latest(cur_terminal)
          BY <3>1, <3>3, <3>4, <4>1 DEF TopExecute
        <5>2. Tables' /\ Latest(cur_terminal)' = q
          BY <3>2, <3>6, <3>7, <5>1, Adopt
        <5>3. QED
          BY <3>2, <3>3, <5>2 DEF Quiet
      <4>2. CASE TopBoot(Top)
        <5>1. /\ \A c \in Slots : ~processes[c].active
              /\ \A t \in Terms : Latest(t) = 0
              /\ q = 0 /\ p = NoParent
          BY <3>1, <3>3, <3>4, <4>2 DEF TopBoot
        <5>2. cur_terminal' \in Terms
          BY <3>2 DEF TypeOK
        <5>3. /\ \A c \in Slots \ {0} : ~processes'[c].active
              /\ \A t \in Terms : terminals'[t].latest_pid = 0
              /\ 0 \in Slots /\ processes'[0].active
              /\ processes'[0].parent_pid = NoParent
          BY <3>2, <3>5, <3>6, <3>7, <5>1 DEF Latest
        <5>4. Apart'
          BY <5>3 DEF Apart, Alive, Latest
        <5>5. Tables'
          BY <5>3, <5>4 DEF Tables, Alive, Latest
        <5>6. QED
          BY <3>2, <3>3, <5>1, <5>2, <5>3, <5>5 DEF Quiet, Latest
      <4>3. QED
        BY <3>1, <4>1, <4>2, AtExecutePc
    <3>10. AtTop(Top)'
      BY <3>8, <3>9 DEF AtTop, TopExecute
    <3>11. QED
      BY <3>1, <3>2, <3>8, <3>10, KernelLatched
  <2>3. QED
    BY <2>1, <2>2
<1>7. CASE ExecUserMode
  <2>1. CASE mapped \in Slots
    <3>1. /\ Buried /\ Len(Stack) > 0 /\ AtTop(Top)
          /\ Top.op = "execute" /\ Top.pc = "go" /\ mode = "kernel"
      BY <1>7, AtRunning DEF ExecUserMode
    <3>2. /\ mode' = "user" /\ GoOn("child")
          /\ UNCHANGED <<processes, pid, cur_terminal, terminals, ks>>
      BY <1>7, <2>1 DEF ExecUserMode
    <3>3. Quiet
      BY <3>1, AtExecutePc DEF TopExecute, TopBoot
    <3>4. Buried' /\ Quiet'
      BY <3>1, <3>2, <3>3, TopGoOn, GapKept
    <3>5. QED
      BY <3>2, <3>4 DEF Latched
  <2>2. CASE mapped \notin Slots
    BY <1>7, <2>2, WildLatched DEF ExecUserMode
  <2>3. QED
    BY <2>1, <2>2
<1>8. QED
  BY <1>1, <1>2, <1>3, <1>4, <1>5, <1>6, <1>7

\* At the named pc of halt_function the tables are known; "shell" is where it
\* waits for the shell it started.
LEMMA AtHaltPc ==
  ASSUME AtTop(Top), Top.op = "halt"
  PROVE  TopHalt(Top)
  BY DEF AtTop, Resumable, TopHalt, TopBoot

LEMMA HaltLatched ==
  ASSUME WaitsOnly, TypeOK, Latched,
         \/ HaltTestPid \/ HaltClose \/ HaltParent \/ HaltLatest
         \/ HaltRestore \/ HaltActivate \/ HaltReturn
  PROVE  Latched'
<1> USE DEF PCs
<1>1. CASE HaltTestPid
  <2>1. CASE pid = NoParent
    BY <1>1, <2>1, WildLatched DEF HaltTestPid
  <2>2. CASE pid # NoParent
    <3>1. /\ Buried /\ Len(Stack) > 0 /\ TopHalt(Top)
          /\ Top.op = "halt" /\ Top.pc = "in" /\ mode = "kernel"
      BY <1>1, AtRunning, AtHaltPc DEF HaltTestPid
    <3>2. UNCHANGED <<processes, pid, cur_terminal, terminals, mode, ks>>
      BY <1>1, <2>2 DEF HaltTestPid
    <3>3. Quiet'
      BY <3>1, <3>2, GapKept DEF TopHalt
    <3>4. CASE processes[pid].pid = 0
      <4>1. Top \in Frame
        BY <3>1, TopFrame
      <4>2. [Top EXCEPT !.pc = "shell"] \in Frame
        BY <3>1, <4>1 DEF Frame
      <4>3. Resumable([Top EXCEPT !.pc = "shell"])
        BY <3>1, <4>1 DEF Frame, Resumable
      <4>4. PICK f \in Frame : f = Execute("elf")
        BY FrameTypes DEF TypeOK, Kinds
      <4>5. SetStack([Stack EXCEPT ![Len(Stack)].pc = "shell"] \o <<f>>)
        BY <1>1, <2>2, <3>4, <4>4 DEF HaltTestPid
      <4>6. Buried' /\ Len(Stack)' > 0 /\ Top' = f
        BY <3>1, <3>2, <4>2, <4>3, <4>5, TopCall
      <4>7. AtTop(Top)'
        BY <3>3, <4>4, <4>6 DEF AtTop, TopExecute, Execute, Act
      <4>8. QED
        BY <3>1, <3>2, <4>6, <4>7, KernelLatched
    <3>5. CASE processes[pid].pid # 0
      <4>1. GoOn("close")
        BY <1>1, <2>2, <3>5 DEF HaltTestPid
      <4>2. /\ Buried' /\ Len(Stack)' > 0
            /\ Top'.op = "halt" /\ Top'.pc = "close"
        BY <3>1, <3>2, <4>1, TopGoOn
      <4>3. AtTop(Top)'
        BY <3>3, <4>2 DEF AtTop, TopHalt
      <4>4. QED
        BY <3>1, <3>2, <4>2, <4>3, KernelLatched
    <3>6. QED
      BY <3>4, <3>5
  <2>3. QED
    BY <2>1, <2>2
<1>2. CASE HaltClose
  <2>1. CASE pid = NoParent
    BY <1>2, <2>1, WildLatched DEF HaltClose
  <2>2. CASE pid # NoParent
    <3>1. /\ Buried /\ Len(Stack) > 0 /\ TopHalt(Top) /\ mode = "kernel"
          /\ Top.op = "halt" /\ Top.pc \in {"close", "shell"}
      BY <1>2, AtRunning, AtHaltPc DEF HaltClose
    <3>2. /\ processes' = [processes EXCEPT ![pid].active = FALSE]
          /\ Goto("parent", pid)
          /\ UNCHANGED <<pid, cur_terminal, terminals, mode, ks>>
      BY <1>2, <2>2 DEF HaltClose
    <3>3. Quiet
      BY <3>1 DEF TopHalt
    <3>4. PICK q : q = pid
      OBVIOUS
    <3>5. q \in Slots /\ processes[q] \in PCB /\ q = Latest(cur_terminal)
      BY <2>2, <3>3, <3>4 DEF TypeOK, Quiet
    <3>6. /\ \A c \in Slots \ {q} :
               processes'[c].active = processes[c].active
          /\ \A c \in Slots :
               processes'[c].parent_pid = processes[c].parent_pid
          /\ processes'[q].active = FALSE
      BY <3>2, <3>4, <3>5 DEF TypeOK, PCB
    <3>7. /\ Buried' /\ Len(Stack)' > 0 /\ Top'.op = "halt"
          /\ Top'.pc = "parent" /\ Top'.local = pid
      <4>1. LocalOK(Top, pid)
        BY <3>1, <3>4, <3>5 DEF LocalOK
      <4>2. QED
        BY <3>1, <3>2, <4>1, TopGoto
    <3>8. AtTop(Top)'
      <4>1. CASE q = 0
        <5>1. processes'[0].parent_pid = NoParent
          BY <3>3, <3>5, <3>6, <4>1 DEF Quiet, Tables, Apart
        <5>2. QED
          BY <3>2, <3>4, <3>7, <4>1, <5>1 DEF AtTop, TopHalt, Doomed
      <4>2. CASE q # 0
        <5>1. PICK p : p = processes[q].parent_pid
          OBVIOUS
        <5>2. Gap(p)' /\ Latest(cur_terminal)' = q
          BY <3>2, <3>3, <3>5, <3>6, <4>2, <5>1, Death DEF Quiet
        <5>3. p = processes'[q].parent_pid /\ pid' = q /\ Top'.local = q
          BY <3>2, <3>4, <3>5, <3>6, <3>7, <5>1
        <5>4. Gap(processes[pid].parent_pid)'
          BY <5>2, <5>3 DEF Gap, Parked, Alive, Named, Latest
        <5>5. QED
          BY <3>5, <3>7, <5>2, <5>3, <5>4 DEF AtTop, TopHalt
      <4>3. QED
        BY <4>1, <4>2
    <3>9. QED
      BY <3>1, <3>2, <3>7, <3>8, KernelLatched
  <2>3. QED
    BY <2>1, <2>2
<1>3. CASE HaltParent
  <2>1. CASE pid = NoParent
    BY <1>3, <2>1, WildLatched DEF HaltParent
  <2>2. CASE pid # NoParent
    <3>1. /\ Buried /\ Len(Stack) > 0 /\ TopHalt(Top)
          /\ Top.op = "halt" /\ Top.pc = "parent" /\ mode = "kernel"
      BY <1>3, AtRunning, AtHaltPc DEF HaltParent
    <3>2. /\ pid' = processes[pid].parent_pid /\ GoOn("latest")
          /\ UNCHANGED <<processes, cur_terminal, terminals, mode, ks>>
      BY <1>3, <2>2 DEF HaltParent
    <3>3. /\ Buried' /\ Len(Stack)' > 0 /\ Top'.op = "halt"
          /\ Top'.pc = "latest" /\ Top'.local = pid
      BY <3>1, <3>2, TopGoOn DEF TopHalt
    <3>4. PICK p : p = processes[pid].parent_pid
      OBVIOUS
    <3>5. pid \in Slots
      BY <2>2 DEF TypeOK
    <3>6. CASE Doomed(Top)
      <4>1. AtTop(Top)'
        BY <3>1, <3>2, <3>3, <3>5, <3>6 DEF TopHalt, AtTop, Doomed
      <4>2. QED
        BY <3>1, <3>2, <3>3, <4>1, KernelLatched
    <3>7. CASE ~Doomed(Top)
      <4>1. Gap(p)
        BY <3>1, <3>4, <3>7 DEF TopHalt
      <4>2. Gap(p)' /\ pid' = p
        BY <3>2, <3>4, <4>1, GapKept
      <4>3. Gap(pid)'
        BY <4>2 DEF Gap, Parked, Alive, Named, Latest
      <4>4. AtTop(Top)'
        BY <3>2, <3>3, <3>5, <4>3 DEF AtTop, TopHalt
      <4>5. QED
        BY <3>1, <3>2, <3>3, <4>4, KernelLatched
    <3>8. QED
      BY <3>6, <3>7
  <2>3. QED
    BY <2>1, <2>2
<1>4. CASE HaltLatest
  <2>1. /\ Buried /\ Len(Stack) > 0 /\ TopHalt(Top)
        /\ Top.op = "halt" /\ Top.pc = "latest" /\ mode = "kernel"
    BY <1>4, AtRunning, AtHaltPc DEF HaltLatest
  <2>2. /\ terminals' = [terminals EXCEPT ![cur_terminal].latest_pid = pid]
        /\ GoOn("restore")
        /\ UNCHANGED <<processes, pid, cur_terminal, mode, ks>>
    BY <1>4 DEF HaltLatest
  <2>3. /\ Buried' /\ Len(Stack)' > 0 /\ Top'.op = "halt"
        /\ Top'.pc = "restore" /\ Top'.local = Top.local
    BY <2>1, <2>2, TopGoOn
  <2>4. Top.local \in Slots /\ pid = processes[Top.local].parent_pid
    BY <2>1 DEF TopHalt
  <2>5. Doomed(Top) => Doomed(Top)'
    BY <2>2, <2>3 DEF Doomed
  <2>6. ASSUME ~Doomed(Top) PROVE Quiet'
    <3>1. PICK p : p = pid
      OBVIOUS
    <3>2. Gap(p)
      BY <2>1, <2>6, <3>1 DEF TopHalt
    <3>3. LatestIs(p)
      BY <2>2, <3>1, SetLatest
    <3>4. Tables' /\ Latest(cur_terminal)' = p
      BY <2>2, <3>2, <3>3, Inherit
    <3>5. QED
      BY <2>2, <3>1, <3>4 DEF Quiet
  <2>7. AtTop(Top)'
    BY <2>2, <2>3, <2>4, <2>5, <2>6 DEF AtTop, TopHalt
  <2>8. QED
    BY <2>1, <2>2, <2>3, <2>7, KernelLatched
<1>5. CASE HaltRestore
  <2>1. /\ Buried /\ Len(Stack) > 0 /\ TopHalt(Top)
        /\ Top.op = "halt" /\ Top.pc = "restore" /\ mode = "kernel"
    BY <1>5, AtRunning, AtHaltPc DEF HaltRestore
  <2>2. /\ GoOn("activate")
        /\ UNCHANGED <<processes, pid, cur_terminal, terminals, mode, ks>>
    BY <1>5 DEF HaltRestore
  <2>3. /\ Buried' /\ Len(Stack)' > 0 /\ Top'.op = "halt"
        /\ Top'.pc = "activate" /\ Top'.local = Top.local
    BY <2>1, <2>2, TopGoOn
  <2>4. Top.local \in Slots /\ pid = processes[Top.local].parent_pid
    BY <2>1 DEF TopHalt
  <2>5. Doomed(Top) => Doomed(Top)'
    BY <2>2, <2>3 DEF Doomed
  <2>6. Quiet => Quiet'
    BY <2>2, GapKept
  <2>7. AtTop(Top)'
    BY <2>1, <2>2, <2>3, <2>4, <2>5, <2>6 DEF AtTop, TopHalt
  <2>8. QED
    BY <2>1, <2>2, <2>3, <2>7, KernelLatched
<1>6. CASE HaltActivate
  <2>1. CASE pid = NoParent
    BY <1>6, <2>1, WildLatched DEF HaltActivate
  <2>2. CASE pid # NoParent
    <3>1. /\ Buried /\ Len(Stack) > 0 /\ TopHalt(Top)
          /\ Top.op = "halt" /\ Top.pc = "activate" /\ mode = "kernel"
      BY <1>6, AtRunning, AtHaltPc DEF HaltActivate
    <3>2. /\ processes' = [processes EXCEPT ![pid].active = TRUE]
          /\ GoOn("ret")
          /\ UNCHANGED <<pid, cur_terminal, terminals, mode, ks>>
      BY <1>6, <2>2 DEF HaltActivate
    <3>3. Quiet
      BY <2>2, <3>1 DEF TopHalt, Doomed
    <3>4. pid \in Slots /\ processes[pid].active = TRUE
      <4>1. pid \in Slots /\ processes[pid].active
        BY <3>3 DEF Quiet, Tables, Alive, TypeOK
      <4>2. processes[pid].active \in BOOLEAN
        BY <4>1 DEF TypeOK, PCB
      <4>3. QED
        BY <4>1, <4>2
    <3>5. SameLinks
      BY <3>2, <3>4 DEF SameLinks, TypeOK, PCB
    <3>6. Quiet'
      BY <3>2, <3>3, <3>5, TablesKept DEF Latest
    <3>7. /\ Buried' /\ Len(Stack)' > 0 /\ Top'.op = "halt"
          /\ Top'.pc = "ret"
      BY <3>1, <3>2, TopGoOn
    <3>8. AtTop(Top)'
      BY <3>6, <3>7 DEF AtTop, TopHalt
    <3>9. QED
      BY <3>1, <3>2, <3>7, <3>8, KernelLatched
  <2>3. QED
    BY <2>1, <2>2
<1>7. CASE HaltReturn
  <2> DEFINE a == processes[Top.local].saved
  <2>1. CASE Live(a)
    <3>1. /\ Buried /\ TopHalt(Top) /\ Top.pc = "ret" /\ mode = "kernel"
      BY <1>7, AtRunning, AtHaltPc DEF HaltReturn
    <3>2. PICK s \in Slots : s = a.stack
      BY <2>1 DEF Live
    <3>3. Len(a.path) \in 1 .. Len(kstack[s])
      BY <2>1, <3>2 DEF Live
    <3>4. Len(kstack[s]) \in Nat
      BY LenProperties DEF TypeOK
    <3>n. Len(a.path) - 1 \in Nat
      BY <3>3, <3>4
    <3>5. PICK n \in Nat : n = Len(a.path) - 1
      BY <3>n
    <3>6. n < Len(kstack[s])
      BY <3>3, <3>4, <3>5
    <3>7. /\ ks' = s
          /\ kstack' = [kstack EXCEPT ![s] = SubSeq(kstack[s], 1, n)]
          /\ UNCHANGED <<processes, pid, cur_terminal, terminals, mode>>
      BY <1>7, <2>1, <3>2, <3>5 DEF HaltReturn
    <3>8. Buried' /\ (Len(Stack)' > 0 => Resumable(Top'))
      BY <3>1, <3>6, <3>7, Cut
    <3>9. Quiet'
      BY <3>1, <3>7, GapKept DEF TopHalt
    <3>10. Len(Stack)' > 0 => AtTop(Top)'
      BY <3>8, <3>9 DEF AtTop
    <3>11. QED
      BY <3>1, <3>7, <3>8, <3>9, <3>10, KernelLatched
  <2>2. CASE ~Live(a)
    BY <1>7, <2>2, WildLatched DEF HaltReturn
  <2>3. QED
    BY <2>1, <2>2
<1>8. QED
  BY <1>1, <1>2, <1>3, <1>4, <1>5, <1>6, <1>7

LEMMA TrapLatched ==
  ASSUME WaitsOnly, TypeOK, Latched,
         \/ SwitchTerminal \/ SwitchPid \/ SwitchShell \/ SwitchReturn
         \/ Iret \/ ReadReturns \/ \E to \in Terms : AltFn(to)
  PROVE  Latched'
<1> USE DEF PCs
<1>0. ASSUME AtTop(Top), Top.op = "switch"
      PROVE  TopSwitch(Top)
  BY <1>0 DEF AtTop, Resumable, TopSwitch, TopBoot
<1>1. CASE SwitchTerminal
  <2>1. /\ Buried /\ Len(Stack) > 0 /\ TopSwitch(Top)
        /\ Top.op = "switch" /\ Top.pc = "in" /\ mode = "kernel"
    BY <1>0, <1>1, AtRunning DEF SwitchTerminal
  <2>2. /\ cur_terminal' = Top.local /\ GoOn("latest")
        /\ UNCHANGED <<processes, pid, terminals, mode, ks>>
    BY <1>1 DEF SwitchTerminal
  <2>3. /\ Buried' /\ Len(Stack)' > 0 /\ Top'.op = "switch"
        /\ Top'.pc = "latest" /\ Top'.local = Top.local
    BY <2>1, <2>2, TopGoOn
  <2>4. Tables'
    <3>1. Tables
      BY <2>1 DEF TopSwitch, Quiet
    <3>2. QED
      BY <2>2, <3>1 DEF Tables, Apart, Parked, Alive, Named, Latest
  <2>5. AtTop(Top)'
    BY <2>2, <2>3, <2>4 DEF AtTop, TopSwitch
  <2>6. QED
    BY <2>1, <2>2, <2>3, <2>5, KernelLatched
<1>2. CASE SwitchPid
  <2>1. /\ Buried /\ Len(Stack) > 0 /\ TopSwitch(Top)
        /\ Top.op = "switch" /\ Top.pc = "latest" /\ mode = "kernel"
    BY <1>0, <1>2, AtRunning DEF SwitchPid
  <2>2. /\ pid' = Latest(Top.local) /\ GoOn("shell")
        /\ UNCHANGED <<processes, cur_terminal, terminals, mode, ks>>
    BY <1>2 DEF SwitchPid, Latest
  <2>3. /\ Buried' /\ Len(Stack)' > 0 /\ Top'.op = "switch"
        /\ Top'.pc = "shell"
    BY <2>1, <2>2, TopGoOn
  <2>4. Quiet'
    <3>1. Tables /\ Top.local = cur_terminal
      BY <2>1 DEF TopSwitch
    <3>2. Tables'
      BY <2>2, <3>1, GapKept
    <3>3. QED
      BY <2>2, <3>1, <3>2 DEF Quiet, Latest
  <2>5. AtTop(Top)'
    BY <2>3, <2>4 DEF AtTop, TopSwitch
  <2>6. QED
    BY <2>1, <2>2, <2>3, <2>5, KernelLatched
<1>3. CASE SwitchShell
  <2>1. /\ Buried /\ Len(Stack) > 0 /\ TopSwitch(Top)
        /\ Top.op = "switch" /\ Top.pc = "shell" /\ mode = "kernel"
    BY <1>0, <1>3, AtRunning DEF SwitchShell
  <2>2. UNCHANGED <<processes, pid, cur_terminal, mode, ks>>
    BY <1>3 DEF SwitchShell
  <2>3. Quiet
    BY <2>1 DEF TopSwitch
  <2>4. CASE terminals[Top.local].running \/ Top.local = 0
    <3>1. GoOn("ret") /\ UNCHANGED terminals
      BY <1>3, <2>4 DEF SwitchShell
    <3>2. /\ Buried' /\ Len(Stack)' > 0 /\ Top'.op = "switch"
          /\ Top'.pc = "ret"
      BY <2>1, <2>2, <3>1, TopGoOn
    <3>3. Quiet'
      BY <2>2, <2>3, <3>1, GapKept
    <3>4. AtTop(Top)'
      BY <3>2, <3>3 DEF AtTop, TopSwitch
    <3>5. QED
      BY <2>1, <2>2, <3>2, <3>4, KernelLatched
  <2>5. CASE ~(terminals[Top.local].running \/ Top.local = 0)
    <3>1. /\ terminals' = [terminals EXCEPT ![Top.local].running = TRUE]
          /\ SetStack([Stack EXCEPT ![Len(Stack)].pc = "ret"]
                        \o <<Execute("elf")>>)
      BY <1>3, <2>5 DEF SwitchShell
    <3>2. Top \in Frame /\ Top.local \in Terms
      BY <2>1, TopFrame, FrameLocal DEF LocalOK
    <3>3. \A t \in Terms : terminals'[t].latest_pid = Latest(t)
      BY <3>1, <3>2 DEF TypeOK, Latest
    <3>4. Quiet'
      BY <2>2, <2>3, <3>3, TablesKept DEF SameLinks
    <3>5. [Top EXCEPT !.pc = "ret"] \in Frame
      BY <2>1, <3>2 DEF Frame
    <3>6. Resumable([Top EXCEPT !.pc = "ret"])
      BY <2>1, <3>2 DEF Frame, Resumable
    <3>7. PICK f \in Frame : f = Execute("elf")
      BY FrameTypes DEF TypeOK, Kinds
    <3>8. SetStack([Stack EXCEPT ![Len(Stack)].pc = "ret"] \o <<f>>)
      BY <3>1, <3>7
    <3>9. Buried' /\ Len(Stack)' > 0 /\ Top' = f
      BY <2>1, <2>2, <3>5, <3>6, <3>8, TopCall
    <3>10. AtTop(Top)'
      BY <3>4, <3>7, <3>9 DEF AtTop, TopExecute, Execute, Act
    <3>11. QED
      BY <2>1, <2>2, <3>9, <3>10, KernelLatched
  <2>6. QED
    BY <2>4, <2>5
<1>4. CASE SwitchReturn
  <2>1. /\ Buried /\ Len(Stack) > 0 /\ TopSwitch(Top)
        /\ Top.op = "switch" /\ Top.pc = "ret" /\ mode = "kernel"
    BY <1>0, <1>4, AtRunning DEF SwitchReturn
  <2>2. /\ Pop
        /\ UNCHANGED <<processes, pid, cur_terminal, terminals, mode, ks>>
    BY <1>4 DEF SwitchReturn
  <2>3. Quiet'
    BY <2>1, <2>2, GapKept DEF TopSwitch
  <2>4. QED
    BY <2>1, <2>2, <2>3, PopLatched
<1>5. ASSUME NEW op, Running(op, "in"), op \in {"read", "trap"}
      PROVE  Buried /\ Len(Stack) > 0 /\ Quiet /\ mode = "kernel"
  BY <1>5, AtRunning DEF AtTop, TopBoot
<1>6. CASE Iret
  <2>1. /\ Pop
        /\ UNCHANGED <<processes, pid, cur_terminal, terminals, ks>>
        /\ mode' \in {mode, "user"}
    BY <1>6 DEF Iret
  <2>2. Buried /\ Len(Stack) > 0 /\ Quiet /\ mode = "kernel"
    BY <1>5, <1>6 DEF Iret
  <2>3. Quiet'
    BY <2>1, <2>2, GapKept
  <2>4. CASE mode' = "user"
    <3>1. Buried'
      BY <2>1, <2>2, TopPop
    <3>2. QED
      BY <2>3, <2>4, <3>1 DEF Latched
  <2>5. CASE mode' = mode
    BY <2>1, <2>2, <2>3, <2>5, PopLatched
  <2>6. QED
    BY <2>1, <2>4, <2>5
<1>7. CASE ReadReturns
  <2>1. /\ Pop
        /\ UNCHANGED <<processes, pid, cur_terminal, terminals, mode, ks>>
    BY <1>7 DEF ReadReturns
  <2>2. Buried /\ Len(Stack) > 0 /\ Quiet /\ mode = "kernel"
    BY <1>5, <1>7 DEF ReadReturns
  <2>3. Quiet'
    BY <2>1, <2>2, GapKept
  <2>4. QED
    BY <2>1, <2>2, <2>3, PopLatched
<1>8. ASSUME NEW to \in Terms, AltFn(to) PROVE Latched'
  <2>1. PICK f \in Frame : f = Switch(to)
    BY FrameTypes DEF TypeOK
  <2>2. f.op = "switch" /\ f.pc = "in"
    BY <2>1 DEF Switch, Act
  <2>3. CASE Enter(<<Switch(to)>>, TRUE)
    BY <2>1, <2>2, <2>3, OneFrame, EnterLatched
  <2>4. CASE ~Enter(<<Switch(to)>>, TRUE)
    <3>1. /\ Running("read", "in")
          /\ Push(<<Trap(Kernel), Switch(to)>>)
          /\ UNCHANGED <<processes, pid, cur_terminal, terminals, mode, ks>>
      BY <1>8, <2>4 DEF AltFn, WaitsOnly
    <3>2. /\ Buried /\ Len(Stack) > 0 /\ Quiet /\ mode = "kernel"
          /\ Resumable(Top)
      BY <1>5, <3>1 DEF Running, Resumable
    <3>t. Trap(Kernel) \in Frame /\ Resumable(Trap(Kernel))
      <4>1. Trap(Kernel) \in Frame
        BY FrameTypes DEF TypeOK
      <4>2. Resumable(Trap(Kernel))
        BY DEF Trap, Act, Resumable
      <4>3. QED
        BY <4>1, <4>2
    <3>3. PICK r \in Frame : r = Trap(Kernel) /\ Resumable(r)
      BY <3>t
    <3>4. PICK two : two = <<r, f>>
      OBVIOUS
    <3>w. two \in Seq(Frame) /\ Len(two) = 2 /\ two[1] = r /\ two[2] = f
      BY <3>4
    <3>5. PICK n \in Nat : n = Len(Stack)
      BY <3>2, TopFrame
    <3> DEFINE stk == Stack \o two
    <3>6. /\ stk \in Seq(Frame) /\ Len(stk) = n + 2
          /\ \A i \in 1 .. n : stk[i] = Stack[i]
          /\ stk[n + 1] = r /\ stk[n + 2] = f
      <4>1. Stack \in Seq(Frame) /\ Len(two) = 2
        BY <3>2, <3>w, TopFrame
      <4>2. /\ stk \in Seq(Frame) /\ Len(stk) = n + 2
            /\ \A i \in 1 .. n + 2 :
                 stk[i] = IF i <= n THEN Stack[i] ELSE two[i - n]
        <5>1. stk \in Seq(Frame) /\ Len(stk) = Len(Stack) + Len(two)
          BY <3>w, <4>1, ConcatProperties
        <5>2. \A i \in 1 .. Len(Stack) + Len(two) :
                stk[i] = IF i <= Len(Stack) THEN Stack[i]
                                            ELSE two[i - Len(Stack)]
          BY <3>w, <4>1, ConcatProperties
        <5> HIDE DEF stk
        <5>3. QED
          BY <3>5, <4>1, <5>1, <5>2
      <4>3. /\ n + 1 \in 1 .. n + 2 /\ n + 2 \in 1 .. n + 2
            /\ (n + 1) - n = 1 /\ (n + 2) - n = 2
            /\ ~(n + 1 <= n) /\ ~(n + 2 <= n)
        OBVIOUS
      <4> HIDE DEF stk
      <4>4. stk[n + 1] = r /\ stk[n + 2] = f
        BY <3>5, <3>w, <4>2, <4>3
      <4>5. \A i \in 1 .. n : stk[i] = Stack[i]
        BY <4>2
      <4>6. QED
        BY <4>2, <4>4, <4>5
    <3>7. kstack' = [kstack EXCEPT ![ks] = stk] /\ ks \in Slots
      BY <2>1, <3>1, <3>3, <3>4 DEF Push, SetStack, TypeOK
    <3> HIDE DEF stk
    <3>8. \A i \in 1 .. Len(stk) - 1 : Resumable(stk[i])
      <4>1. \A i \in 1 .. Len(stk) - 1 :
              i \in 1 .. Len(Stack) - 1 \/ i = n \/ i = n + 1
        BY <3>5, <3>6
      <4>2. \A i \in 1 .. Len(Stack) - 1 : i \in 1 .. n
        BY <3>5
      <4>3. n \in 1 .. n /\ Stack[n] = Top
        BY <3>2, <3>5 DEF Top
      <4>4. QED
        BY <3>2, <3>3, <3>6, <4>1, <4>2, <4>3, BelowTop
    <3>9. Buried' /\ Len(Stack)' = Len(stk) /\ Top' = stk[Len(stk)]
      BY <3>1, <3>2, <3>6, <3>7, <3>8, NewStack
    <3>10. Quiet' /\ Top' = f /\ Len(Stack)' > 0
      BY <3>1, <3>2, <3>5, <3>6, <3>9, GapKept
    <3>11. AtTop(Top)'
      BY <2>2, <3>10 DEF AtTop, TopSwitch
    <3>12. QED
      BY <3>1, <3>2, <3>9, <3>10, <3>11, KernelLatched
  <2>5. QED
    BY <2>3, <2>4
<1>9. QED
  BY <1>1, <1>2, <1>3, <1>4, <1>6, <1>7, <1>8

LEMMA InitLatched == Init => Latched
<1> SUFFICES ASSUME Init PROVE Latched
  OBVIOUS
<1>0. 0 \in Slots
  BY ConstantsAssumption DEF Slots
<1>1. Stack = <<Boot, Execute("elf")>>
  BY <1>0 DEF Init, Stack
<1>2. Len(Stack) = 2 /\ Top = Execute("elf")
  BY <1>1 DEF Top
<1>3. Resumable(Boot)
  BY DEF Boot, Act, Resumable
<1>4. \A s \in Slots : \A i \in 1 .. Len(kstack[s]) - 1 :
        s = 0 /\ kstack[s][i] = Boot
  BY DEF Init
<1>5. Buried
  BY <1>3, <1>4 DEF Buried
<1>6. AtTop(Top)
  BY <1>2 DEF AtTop, TopBoot, Execute, Act, Init, Latest
<1>7. QED
  BY <1>2, <1>5, <1>6 DEF Latched, Init

\* The inductive invariant: at every step of execute_function, halt_function
\* and switch_terminal, the latest processes of the terminals and the
\* processes that wait for them are where halt_function will look.
THEOREM TerminalsNested ==
  ASSUME WaitsOnly PROVE Spec => []TerminalsInv
<1>1. Latched /\ TypeOK /\ [Next]_vars => Latched'
  <2> SUFFICES ASSUME Latched, TypeOK, [Next]_vars PROVE Latched'
    OBVIOUS
  <2>1. CASE KernelStep
    BY <2>1, ExecLatched, HaltLatched, TrapLatched DEF KernelStep
  <2>2. CASE UserStep \/ DeviceIrq
    BY <2>2, UserLatched
  <2>3. CASE ReadReturns \/ \E to \in Terms : AltFn(to)
    BY <2>3, TrapLatched
  <2>4. CASE UNCHANGED vars
    <3>1. /\ UNCHANGED <<processes, pid, cur_terminal, terminals, mode, ks,
                         kstack>>
      BY <2>4 DEF vars
    <3>2. QED
      BY <3>1 DEF Latched, Buried, AtTop, TopExecute, TopHalt, TopSwitch,
                  TopBoot, Doomed, Gap, Quiet, Tables, Apart, Parked, Alive,
                  Named, Latest, FreeSlots, Stack, Top
  <2>5. QED
    BY <2>1, <2>2, <2>3, <2>4 DEF Next
<1>2. QED
  BY <1>1, InitLatched, Typing, PTL DEF Spec, TerminalsInv

\* In user mode the latest process of the displayed terminal is the global
\* pid, whatever executes, halts, faults and terminal switches came before.
THEOREM PidStaysLatest == ASSUME WaitsOnly PROVE Spec => []PidIsLatest
<1>1. TerminalsInv => PidIsLatest
  BY DEF TerminalsInv, Latched, Quiet, PidIsLatest, Latest
<1>2. QED
  BY <1>1, TerminalsNested, PTL

\* A visited terminal has an active process to go back to.
THEOREM LatestStaysActive == ASSUME WaitsOnly PROVE Spec => []LatestActive
<1>1. TerminalsInv => LatestActive
  BY DEF TerminalsInv, Latched, Quiet, Tables, Alive, LatestActive, Latest,
         FreeSlots
<1>2. QED
  BY <1>1, TerminalsNested, PTL
=============================================================================
