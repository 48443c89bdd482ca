----------------------------- MODULE Interrupts -----------------------------
(***************************************************************************)
(* The interrupt flag, the two 8259 controllers (i8259.c), the devices and *)
(* their handlers (pit.c, keyboard.c, rtc.c, exceptionASM.S), from the     *)
(* first initialisation in entry (kernel.c) on.                            *)
(*                                                                         *)
(* The vectors of the devices are trap gates (idt.c): a handler runs with  *)
(* interrupts enabled, and what keeps the next one away is the controller, *)
(* until it is told the end of the interrupt (EOI).  Alt+Fn may start a    *)
(* shell inside the keyboard handler, which stays on the stack below it,   *)
(* and a program may execute another.  halt goes back to the frame that    *)
(* the PCB of the global pid keeps, whoever calls it, so pid is modelled   *)
(* with what decides it: Alt+Fn and programs that end.                     *)
(*                                                                         *)
(* The handler of the clock increments virtual_counter in a load and a     *)
(* store; module RTC, which has what programs do with the counter, takes   *)
(* the increment for one step.  The controllers are edge triggered and     *)
(* keep a request until they are acknowledged.                             *)
(***************************************************************************)
EXTENDS Integers, Sequences, FiniteSets

CONSTANTS
  MaxCount,     \* bound: ticks nobody has consumed
  NumSlots,     \* PCBs, six in the code
  Terminals,    \* NUM_TERMINALS: the first visit of a terminal starts a shell
  EarlySwitch   \* whether Alt+Fn may be pressed before the base shell runs

VARIABLES
  boot,      \* initialisations done
  iflag,     \* the interrupt flag
  enabled,   \* the lines neither master_mask nor slave_mask masks
  irr, isr,  \* lines requested, lines in service
  irqf,      \* the clock asserts its line until register C is read
  port,      \* the key in the keyboard's output buffer
  stack,     \* what the processor executes, interrupted by what follows
  pid,       \* the program the kernel takes for the running one
  cur_terminal,     \* the terminal shown
  running,   \* terminals that have had a shell (scheduling.c); the first has
  latest_pid,       \* the program a switch to a terminal sets pid to
  fresh,     \* devices that may become active again
  virtual_counter,  \* periods counted and not consumed (rtc.c)
  split,     \* history: a shell was started before a handler had counted
  astray     \* history: a program has halted that is not the running one, or
             \* left another than its parent to go on

pic == <<enabled, irr, isr>>
devices == <<irqf, port, fresh>>
clock == <<virtual_counter, split>>
processes == <<pid, cur_terminal, running, latest_pid, astray>>
vars == <<boot, iflag, pic, devices, stack, processes, clock>>

TIMER == 0
KEYBOARD == 1
CASCADE == 2
CLOCK == 8
Devices == {TIMER, KEYBOARD, CLOCK}
Lines == Devices \cup {CASCADE}

ASSUME ConstantsAssumption ==
  /\ MaxCount \in Nat
  /\ NumSlots \in Nat \ {0}
  /\ Terminals \in Nat \ {0}
  /\ EarlySwitch \in BOOLEAN

\* entry, from init_idt to the call of execute_function.  rtc_init counts
\* twice: it switches the chip on, and then enables its line and interrupts.
\* The mutant has it before i8259_init.
Order_ClockFirst == <<"idt", "chip", "clock", "pic", "files", "timer",
                      "keyboard", "tables", "paging", "sti", "shell">>
Order == <<"idt", "pic", "files", "chip", "clock", "timer", "keyboard",
           "tables", "paging", "sti", "shell">>
Done(s) == \E i \in 1 .. boot : Order[i] = s

Slots == 0 .. NumSlots - 1
Consoles == 0 .. Terminals - 1

\* An activation of a handler or of a program; loaded is the handler's copy of
\* virtual_counter, slot the program's PCB and parent its parent_pid.
Activation ==
  [op : {"pit_handler", "keyboard_handler", "rtc_handler", "program"},
   pc : {"in", "show", "switch", "load", "store",
         "user", "gate", "call", "halt", "out"},
   loaded : Nat, slot : Slots, parent : Slots]
Start(o, p) == [op |-> o, pc |-> p, loaded |-> 0, slot |-> 0, parent |-> 0]
Program(s, q) ==
  [op |-> "program", pc |-> "user", loaded |-> 0, slot |-> s, parent |-> q]

Handler(d) == CASE d = TIMER -> "pit_handler"
                [] d = KEYBOARD -> "keyboard_handler"
                [] d = CLOCK -> "rtc_handler"

TypeOK ==
  /\ boot \in 0 .. Len(Order)
  /\ iflag \in BOOLEAN /\ irqf \in BOOLEAN
  /\ split \in BOOLEAN /\ astray \in BOOLEAN
  /\ enabled \subseteq Lines /\ irr \subseteq Devices /\ isr \subseteq Lines
  /\ port \in {"none", "char", "switch"}
  /\ stack \in Seq(Activation)
  /\ pid \in Slots /\ latest_pid \in [Consoles -> Slots]
  /\ cur_terminal \in Consoles /\ running \subseteq Consoles
  /\ fresh \subseteq Devices
  /\ virtual_counter \in Nat

\* Interrupts are off since boot.S.
Init ==
  /\ boot = 0
  /\ iflag = FALSE
  /\ enabled = {} /\ irr = {} /\ isr = {}
  /\ irqf = FALSE /\ port = "none" /\ fresh = Devices
  /\ stack = <<>>
  /\ pid = 0 /\ latest_pid = [t \in Consoles |-> 0]
  /\ cur_terminal = 0 /\ running = {0}
  /\ split = FALSE /\ astray = FALSE
  /\ virtual_counter = 0

-----------------------------------------------------------------------------
\* The controllers.  The slave is wired to line 2 of the master, which ranks
\* its lines by number.
Rank(l) == IF l = CLOCK THEN CASCADE ELSE l
Path(d) == IF d = CLOCK THEN {CASCADE, CLOCK} ELSE {d}
Deliverable(d) ==
  /\ d \in irr
  /\ Path(d) \subseteq enabled
  /\ \A l \in isr : Rank(d) < Rank(l)
Asserted(d) ==
  Deliverable(d) /\ \A e \in Devices : Deliverable(e) => Rank(d) <= Rank(e)

\* send_eoi, at the slave and at the master for a line of the slave.  The
\* mutant forgets the master.
Eoi_Slave(d) == isr \ {d}
Eoi(d) == isr \ Path(d)

Raise(d) == irr' = irr \cup {d} /\ fresh' = fresh \ {d}

\* The devices are slow: none becomes active again before the processor has
\* executed something else than handlers.  They are quiet while the
\* controllers are not initialised.
TimerEdge ==
  /\ ~astray
  /\ Done("pic") /\ TIMER \in fresh
  /\ Raise(TIMER)
  /\ UNCHANGED <<boot, iflag, enabled, isr, irqf, port, stack>>
  /\ UNCHANGED <<processes, clock>>

KeyPress(c) ==
  /\ ~astray
  /\ Done("pic") /\ KEYBOARD \in fresh
  /\ port = "none"
  /\ c = "switch" => EarlySwitch \/ Done("shell")
  /\ port' = c
  /\ Raise(KEYBOARD)
  /\ UNCHANGED <<boot, iflag, enabled, isr, irqf, stack, processes, clock>>

Activations(op) == {i \in 1 .. Len(stack) : stack[i].op = op}
Uncounted == Activations("rtc_handler")
Programs == Activations("program")
ClockEdge ==
  /\ ~astray
  /\ Done("chip") /\ CLOCK \in fresh
  /\ ~irqf
  /\ virtual_counter + Cardinality(Uncounted) < MaxCount
  /\ irqf' = TRUE
  /\ Raise(CLOCK)
  /\ UNCHANGED <<boot, iflag, enabled, isr, port, stack, processes, clock>>

-----------------------------------------------------------------------------
\* The processor accepts an interrupt after the instruction that lets it.
Accept(d) ==
  /\ ~astray
  /\ iflag /\ Asserted(d)
  /\ irr' = irr \ {d}
  /\ isr' = isr \cup Path(d)
  /\ stack' = Append(stack, Start(Handler(d), "in"))
  /\ UNCHANGED <<boot, iflag, enabled, devices, processes, clock>>

Undisturbed == ~astray /\ ~(iflag /\ \E d \in Devices : Deliverable(d))

Top == stack[Len(stack)]
At(op, pc) ==
  /\ Undisturbed
  /\ Len(stack) > 0
  /\ Top.op = op /\ Top.pc = pc
GoOn(pc) == stack' = [stack EXCEPT ![Len(stack)].pc = pc]
Pop == stack' = SubSeq(stack, 1, Len(stack) - 1)

\* execute takes the first PCB that is not active, and is refused when there is
\* none; the active ones are those of the programs on the stack.
Free == Slots \ {stack[i].slot : i \in Programs}
First(p) == p \in Free /\ \A q \in Free : p <= q
Runs(p, t) ==
  /\ First(p)
  /\ pid' = p
  /\ latest_pid' = [latest_pid EXCEPT ![t] = p]

\* enable_irq
Enable(d) == enabled \cup Path(d)

\* i8259_init resets the controllers and masks all but the line of the slave;
\* rtc_init masks its line meanwhile.
Boot ==
  /\ Undisturbed
  /\ stack = <<>> /\ boot < Len(Order)
  /\ LET s == Order[boot + 1]
     IN  /\ enabled' = CASE s = "pic" -> {CASCADE}
                         [] s = "chip" -> enabled \ {CLOCK}
                         [] s = "clock" -> Enable(CLOCK)
                         [] s = "timer" -> Enable(TIMER)
                         [] s = "keyboard" -> Enable(KEYBOARD)
                         [] OTHER -> enabled
         /\ irr' = IF s = "pic" THEN {} ELSE irr
         /\ isr' = IF s = "pic" THEN {} ELSE isr
         /\ irqf' = (irqf /\ s # "clock")
         /\ iflag' = CASE s = "chip" -> FALSE
                       [] s \in {"clock", "sti"} -> TRUE
                       [] OTHER -> iflag
         /\ IF s = "shell"
            THEN \E p \in Slots :
                   Runs(p, cur_terminal) /\ stack' = <<Program(p, pid)>>
            ELSE UNCHANGED <<stack, pid, latest_pid>>
  /\ boot' = boot + 1
  /\ fresh' = IF iflag THEN Devices ELSE fresh
  /\ UNCHANGED <<port, cur_terminal, running, astray, clock>>

-----------------------------------------------------------------------------
\* pit_handler counts, calls schedule(), which is empty, and acknowledges.  A
\* handler returns with its last step here.
PitHandler ==
  /\ At("pit_handler", "in")
  /\ isr' = Eoi(TIMER)
  /\ Pop
  /\ UNCHANGED <<boot, iflag, enabled, irr, devices, processes, clock>>

\* keyboard_handler reads the key.  For Alt+Fn it acknowledges at once and
\* goes on to switch_terminal.  The mutant does not acknowledge there.
KeyRead_Unacknowledged ==
  /\ At("keyboard_handler", "in")
  /\ port' = "none"
  /\ GoOn(IF port = "switch" THEN "switch" ELSE "show")
  /\ UNCHANGED <<boot, iflag, pic, irqf, fresh, processes, clock>>
KeyRead ==
  /\ At("keyboard_handler", "in")
  /\ port' = "none"
  /\ IF port = "switch"
     THEN isr' = Eoi(KEYBOARD) /\ GoOn("switch")
     ELSE UNCHANGED isr /\ GoOn("show")
  /\ UNCHANGED <<boot, iflag, enabled, irr, irqf, fresh, processes, clock>>

\* Another key is acknowledged last.
KeyShow ==
  /\ At("keyboard_handler", "show")
  /\ isr' = Eoi(KEYBOARD)
  /\ Pop
  /\ UNCHANGED <<boot, iflag, enabled, irr, devices, processes, clock>>

\* switch_terminal returns at once for the terminal that is shown, and pid
\* becomes the latest program of another one.  On the first visit execute starts
\* a shell there, with that pid as its parent, and there is none left to try
\* again when the PCBs are all active.
KeySwitch(t) ==
  /\ At("keyboard_handler", "switch")
  /\ t \in running \cup {cur_terminal} \/ Free = {}
  /\ Pop
  /\ pid' = IF t = cur_terminal THEN pid ELSE latest_pid[t]
  /\ cur_terminal' = t
  /\ running' = IF t = cur_terminal THEN running ELSE running \cup {t}
  /\ UNCHANGED <<boot, iflag, pic, devices, latest_pid, astray, clock>>
KeyShell(t) ==
  /\ At("keyboard_handler", "switch")
  /\ t \notin running \cup {cur_terminal}
  /\ \E p \in Slots :
       /\ Runs(p, t)
       /\ stack' = Append(stack, Program(p, latest_pid[t]))
  /\ cur_terminal' = t
  /\ running' = running \cup {t}
  /\ split' = (split \/ Uncounted # {})
  /\ UNCHANGED <<boot, iflag, pic, devices, astray, virtual_counter>>

\* rtc_handler reads register C, which lets go of the line, acknowledges, ...
ClockRead ==
  /\ At("rtc_handler", "in")
  /\ irqf' = FALSE
  /\ isr' = Eoi(CLOCK)
  /\ GoOn("load")
  /\ UNCHANGED <<boot, iflag, enabled, irr, port, fresh, processes, clock>>

\* ... and increments the counter: not in one instruction.
ClockLoad ==
  /\ At("rtc_handler", "load")
  /\ stack' = [stack EXCEPT ![Len(stack)] =
                 [Top EXCEPT !.pc = "store", !.loaded = virtual_counter]]
  /\ UNCHANGED <<boot, iflag, pic, devices, processes, clock>>

\* Mutant: the handler starts again when a period is complete.
Counted_Restarts(n) == (n + 1) % 2
Counted(n) == n + 1
ClockStore ==
  /\ At("rtc_handler", "store")
  /\ virtual_counter' = Counted(Top.loaded)
  /\ Pop
  /\ UNCHANGED <<boot, iflag, pic, devices, split, processes>>

-----------------------------------------------------------------------------
\* system_call masks interrupts on entry, ...
Gate ==
  /\ At("program", "user")
  /\ iflag' = FALSE
  /\ GoOn("gate")
  /\ UNCHANGED <<boot, pic, devices, processes, clock>>

\* ... not while the call is served, which the loop of rtc_read needs, ...
Call ==
  /\ At("program", "gate")
  /\ iflag' = TRUE
  /\ GoOn("call")
  /\ UNCHANGED <<boot, pic, devices, processes, clock>>

\* A number out of range is refused there.
InvalidCall ==
  /\ At("program", "gate")
  /\ iflag' = TRUE
  /\ GoOn("user")
  /\ UNCHANGED <<boot, pic, devices, processes, clock>>

\* ... and again from popfl to iret.
Return ==
  /\ At("program", "call")
  /\ iflag' = FALSE
  /\ GoOn("out")
  /\ UNCHANGED <<boot, pic, devices, processes, clock>>
User ==
  /\ At("program", "out")
  /\ iflag' = TRUE
  /\ GoOn("user")
  /\ UNCHANGED <<boot, pic, devices, processes, clock>>

\* rtc_read consumes what was counted (module RTC).
Consume ==
  /\ At("program", "call")
  /\ virtual_counter' = 0
  /\ UNCHANGED <<boot, iflag, pic, devices, stack, split, processes>>

\* A program executes another, whose parent is the program pid names.
Execute ==
  /\ \E pc \in {"call", "halt"} : At("program", pc)
  /\ \E p \in Slots :
       /\ Runs(p, cur_terminal)
       /\ stack' = Append(stack, Program(p, pid))
  /\ UNCHANGED <<boot, iflag, pic, devices>>
  /\ UNCHANGED <<cur_terminal, running, astray, clock>>

\* A file that is no executable is refused when pid is already the new PCB.
ExecuteData ==
  /\ At("program", "call")
  /\ \E p \in Slots : First(p) /\ pid' = p
  /\ UNCHANGED <<boot, iflag, pic, devices, stack>>
  /\ UNCHANGED <<cur_terminal, running, latest_pid, astray, clock>>

\* halt of the base shell executes another one first.
HaltBase ==
  /\ At("program", "call")
  /\ pid = 0
  /\ GoOn("halt")
  /\ UNCHANGED <<boot, iflag, pic, devices, processes, clock>>

\* The activations that are left when the program at i halts: it returns into
\* the execute of the activation beneath, and switch_terminal and the keyboard
\* handler return with it.
Left(i) ==
  IF i > 1 /\ stack[i - 1].op = "keyboard_handler" THEN i - 2 ELSE i - 1

\* Of n activations the newest program has PCB q, and is not in halt.
Resumes(n, q) ==
  \E i \in 1 .. n :
    /\ stack[i].op = "program" /\ stack[i].pc # "halt" /\ stack[i].slot = q
    /\ \A j \in i + 1 .. n : stack[j].op # "program"

\* halt ends the program pid names, whoever calls it, and whatever has been
\* activated since goes with it.  The parent becomes pid and gets its page and
\* its kernel stack back: when another program goes on with them its frames
\* are overwritten (module ProcessControl), and it is not followed further.
Exit ==
  /\ \/ At("program", "call") /\ pid # 0
     \/ At("program", "halt") /\ Free = {}
  /\ \E i \in Programs :
       /\ stack[i].slot = pid
       /\ stack' = SubSeq(stack, 1, Left(i))
       /\ pid' = stack[i].parent
       /\ latest_pid' = [latest_pid EXCEPT ![cur_terminal] = pid']
       /\ astray' = ~(i = Len(stack) /\ Resumes(Left(i), pid'))
  /\ UNCHANGED <<boot, iflag, pic, devices, cur_terminal, running, clock>>

\* After ExecuteData pid names a PCB without a program: the frame it returns
\* to is gone, or never was.
ExitNowhere ==
  /\ At("program", "call")
  /\ pid \in Free
  /\ astray' = TRUE
  /\ UNCHANGED <<boot, iflag, pic, devices, stack>>
  /\ UNCHANGED <<pid, cur_terminal, running, latest_pid, clock>>

Astray == astray /\ UNCHANGED vars

\* A program computes, or its loop in rtc_read goes round.
Compute ==
  /\ \E pc \in {"user", "call"} : At("program", pc)
  /\ fresh' = Devices
  /\ UNCHANGED <<boot, iflag, pic, irqf, port, stack, processes, clock>>

HandlerStep ==
  \/ PitHandler
  \/ KeyRead \/ KeyShow
  \/ \E t \in Consoles : KeySwitch(t) \/ KeyShell(t)
  \/ ClockRead \/ ClockLoad \/ ClockStore

KernelStep ==
  \/ \E d \in Devices : Accept(d)
  \/ Boot \/ HandlerStep
  \/ Call \/ InvalidCall \/ Return \/ User

Next ==
  \/ TimerEdge \/ ClockEdge
  \/ \E c \in {"char", "switch"} : KeyPress(c)
  \/ KernelStep
  \/ Gate \/ Consume \/ Compute
  \/ Execute \/ ExecuteData \/ HaltBase \/ Exit \/ ExitNowhere \/ Astray

Spec == Init /\ [][Next]_vars

\* The processor goes on with the kernel's code and accepts what is asserted.
FairSpec == Spec /\ WF_vars(KernelStep)

-----------------------------------------------------------------------------
\* The lines a handler has not acknowledged yet.
InService(a) ==
  CASE a.op = "pit_handler" -> {TIMER}
    [] a.op = "keyboard_handler" /\ a.pc \in {"in", "show"} -> {KEYBOARD}
    [] a.op = "rtc_handler" /\ a.pc = "in" -> {CASCADE, CLOCK}
    [] OTHER -> {}

\* Every line in service is so for one handler that will acknowledge it, and a
\* handler is interrupted only by one of higher priority until it has done so:
\* no line stays blocked, and none is acknowledged for another.  Programs that
\* end leave it so, with shells started inside handlers, as long as the program
\* that halts is the one that runs and its parent goes on.  The halt of another
\* may drop a handler that has not acknowledged.
Acknowledged ==
  ~astray =>
    /\ isr = UNION {InService(stack[i]) : i \in 1 .. Len(stack)}
    /\ \A j \in 1 .. Len(stack) : \A i \in 1 .. j - 1 :
         \A k \in InService(stack[i]), l \in InService(stack[j]) :
           Rank(l) < Rank(k)

\* A handler runs only when what it uses has been initialised, although
\* rtc_init enables interrupts long before entry means to.
Needs(a) ==
  CASE a.op = "pit_handler" -> {"idt", "pic", "timer"}
    [] a.op = "rtc_handler" -> {"idt", "pic", "chip"}
    [] a.op = "keyboard_handler" /\ a.pc # "switch" ->
         {"idt", "pic", "keyboard"}
    [] OTHER -> {"files", "paging", "shell"}
Ready ==
  \A i \in 1 .. Len(stack) : \A s \in Needs(stack[i]) : Done(s)

\* The counter changes by the one tick of module RTC, or because a program
\* consumes it, whatever interrupts come between the load and the store of the
\* handler; until a shell has been started on top of a handler that has not
\* counted yet.
Counts ==
  [][\/ virtual_counter' = virtual_counter + 1
     \/ virtual_counter' = 0 /\ Len(stack) \in Programs
     \/ split]_virtual_counter

\* Every key is read, with shells started inside the keyboard handler that
\* never end.  So is every period of the clock acknowledged at the chip, until
\* a shell is started on top of a handler of the clock: one that has not
\* acknowledged its interrupt leaves that shell without a clock.  Neither is
\* said once a halt has gone astray.
Served ==
  /\ port # "none" ~> (port = "none" \/ astray)
  /\ irqf ~> (~irqf \/ split \/ astray)
=============================================================================
