# A TLA+ verification of the kernel

The repository is a small operating system for one x86 processor: a kernel in C and assembly that
starts six programs at most, on three terminals that the user switches with Alt+F1..F3, with eleven
system calls, a read-only file system, a virtualised real-time clock and a line-edited keyboard.
This directory holds TLA+ models of it, the TLC configurations that check them on small instances
and theorems about them that TLAPS proves for every value of the constants.

Everything is translated from the C and assembly code. Line numbers below are those of the
repository; `PROJECT.json` maps every definition to the lines it stands for.

1. [The system](#1-the-system)
2. [The modules](#2-the-modules)
3. [The runs](#3-the-runs)
4. [The proofs](#4-the-proofs)
5. [Where code and comments disagree](#5-where-code-and-comments-disagree)
6. [What is not modelled, and the plan](#6-what-is-not-modelled-and-the-plan)

## 1. The system

There is one processor and no scheduler: `schedule()` is empty, and the timer handler does nothing
but acknowledge. What makes the kernel concurrent all the same is that it runs with interrupts
enabled. IDT vectors from 32 on are trap gates, so a handler can interrupt a system call, another
handler can interrupt the first, and the keyboard handler, on Alt+Fn, calls `switch_terminal`, which
may call `execute_function` and so start a program *inside* the interrupt. Only the entry and exit of
`system_call` are protected by `cli`/`sti`. All kernel state is global variables; none is locked.

| Component | State | Operations | What it must get right |
|---|---|---|---|
| Process control (`syscall_functions.c`, `scheduling.c`, `systemcall.S`, `flushtlbASM.S`) | `processes[6]`, `pid`, `cur_terminal`, `terminals[3]`, `page_dir[32]`, `tss.esp0`, six 8 kB kernel stacks | `execute`, `halt`, exceptions, `switch_terminal` | The running program is the one `pid`, the page and the TSS name; halt returns to the execute call its parent waits in |
| Descriptors (`syscall_functions.c:352-492`) | `fd_arr[8]` in every PCB, the global `fd_ind` | `open`, `close`, `read`, `write`; `execute` fills the array, `halt` empties it | Each program has its own table; what is open can be used |
| Real-time clock (`rtc.c`) | `virtual_counter`, `virtual_frequency`, shared by all programs | handler, `rtc_read`, `rtc_write`, open, close | A read waits for a period, no more and no less, and returns |
| Keyboard and terminal (`keyboard.c`) | three line buffers and indexes, `kb_buf`, `kb_ind`, `read_ind`, `kb_flag`, modifiers | handler, `terminal_read`, `terminal_write` | The program gets the line the user typed, once; no index leaves its buffer |
| File system (`filesystem.c`) | the image: boot block, inodes, data blocks; a position per descriptor | look up a name, `read_data`, `dir_read` | Bytes in order from the right blocks; a complete listing |
| Screen (`lib.c:19-302`, `616-637`) | video memory, `screen_x`, `screen_y`; per terminal a copy and a cursor | `putc`, `newline`, `backspace`, `scrolldown`, `clear` | The cursor stays on the screen; text wraps and scrolls |
| Paging (`paging.c`, `vidmap`) | page directory, two page tables; the processor's TLB | `init_paging`, `vidmap`, the remapping in execute and halt, `flushtlb` | A program reaches its own 4 MB and, after vidmap, the screen, and nothing else |
| Boot and interrupts (`kernel.c`, `idt.c`, `i8259.c`, `pit.c`, the stubs) | PIC masks, requests and lines in service, the interrupt flag | the initialisations of `entry`, the three handlers, EOI | No interrupt before its handler is ready; every line that is served is acknowledged, once |
| Arguments (`execute_function`, `getargs`) | `args` of a PCB | copying, clearing, `getargs` | The program gets its own arguments |
| User programs | — | system calls | They are the environment of the models |
| Fish (`fish.c`, `blink.S`) | an array of nodes, a linked list in it | add, remove, find, sync, tasklet | The list holds the allocated nodes, each once |

How they interact. A program traps into `system_call`, which calls through a jump table. `execute`
looks the file up in the file system, takes a PCB, fills its descriptor table, maps its page, loads
it, saves ESP and EBP in the PCB and goes to user mode; it does not return. `halt` closes the
descriptors, restores page and TSS of the parent, and pops the stack back to the saved ESP, into the
middle of the parent's `execute`. `read` and `write` dispatch on the descriptor to the terminal, the
clock or the file system; the first two spin, with interrupts enabled, on variables that the
keyboard and clock handlers change. `switch_terminal` runs in the keyboard handler, on the kernel
stack of whatever was interrupted.

What is hard, therefore: a handler between two steps of a system call; `pid`, `fd_ind`, `kb_flag` and
`virtual_counter`, single variables that several programs share; kernel stacks that hold the only
way back to a suspended program and that the next trap overwrites; an `execute` that fails half-way;
limits (PCBs, descriptors, line buffer, directory); and loops in the kernel that only an interrupt
ends. `PROJECT.json` lists these hazards at their lines, with the properties that address them.

## 2. The modules

| Module | Models | Proofs |
|---|---|---|
| `ProcessControl` | execute, halt, exceptions, terminal switches, the kernel stacks | `ProcessControl_proofs` |
| `ProcessStack` | abstract: programs of one console nest | |
| `ProcessConsole` | the inductive invariant of one console | `ProcessControl_proofs` |
| `ProcessTerminals` | the inductive invariant of any number of terminals | `ProcessControl_proofs` |
| `FileDescriptors` | open, close, read, write, `fd_ind` | `FileDescriptors_proofs` |
| `FdTable` | abstract: each program has its own table of descriptors | |
| `RTC` | the virtual clock | `Devices_proofs` |
| `Terminal` | keyboard handler and terminal driver | `Terminal_proofs` |
| `FileSystem`, `MCFileSystem` | names, reading in pieces, listing; the small images TLC uses | `FileSystem_proofs` |
| `Screen` | putc and its helpers, what keys and writes show, the copies of `switch_terminal` | `Devices_proofs` |
| `TextScreen` | abstract: each terminal has a page of text | |
| `BlinkList`, `MCBlinkList` | the blinking characters of fish; the entries TLC adds | `BlinkList_proofs` |
| `Interrupts` | initialisation, interrupt flag, the two 8259s, the three handlers | `Interrupts_proofs` |
| `Programs`, `MCPrograms` | page tables, TLB, vidmap, arguments; the arguments TLC types | `Programs_proofs` |

An action is one uninterrupted stretch of the code between two points where the rest of the system
could notice a difference, and has the name of the function, or of the function and the step
(`HaltParent` is the statement `pid = processes[pid].parent_pid`). Operators whose name has an
underscore (`HaltParent_Kept`) are deliberately wrong variants, used only to show that a property
notices; no specification uses them.

**ProcessControl.** `processes`, `pid`, `cur_terminal`, `terminals` are the variables of those names;
`mapped` is the slot whose memory `page_dir[32]` maps, `tss` the slot whose stack `tss.esp0` names,
`vid` the present bit of the user video page. The kernel stacks are in `kstack`: per slot a sequence
of activations, each a function with its pc and its one surviving local, or a trap frame with the
interrupted context. A trap from user mode starts at the bottom of the stack `tss` names and replaces
what was there; a trap from kernel mode pushes. An address saved in a PCB is the stack and the chain
of calls that led to it; it is `Live` while that chain is still there. Returning through a dead
address, or using `processes[-1]`, is undefined: mode `"wild"`, in which nothing more is claimed.
Execute is seven steps, halt seven, switch_terminal four, split where global variables are read or
written, so that with constant `Preempt` Alt+Fn can come between any two. Without `Preempt` it comes in
user mode or while `terminal_read` spins, which is where a kernel spends its time.

**FileDescriptors.** `fd_arr`, `fd_ind`, `pid`, `active`, `parent_pid`. A call is one action: nothing in
these functions depends on an interrupt between its lines unless a switch changes `pid`, which is
ProcessControl's subject. The function pointers of a descriptor are reduced to the `kind` of file they
belong to; `reply` records what the last call returned; `tidy` records whether programs have so far
closed their newest descriptor first and held none while a child ran, and `strayed` whether one has executed
a file that is no executable, after which `pid` may name a PCB that is not the caller's. An execute that finds all
PCBs taken (`ExecuteFull`) returns 0 and leaves every table and `pid` alone.

**RTC.** The counter and the divisor, and a stack of programs that may each be inside `rtc_read`, which is
three steps: call, the test of the loop that succeeds, the reset. A tick may come between any two.
`waited` and `need` are history. The counter wraps at `Half`, as an `int` does.

**Terminal.** Buffers, indexes, flag and modifiers, the programs that read and write, and two histories: what
the user has typed on each terminal and the line entered there. A key is one action, because the
handler acknowledges the interrupt last and so is not interrupted by another key; `terminal_read` is
one step per test and per character. Characters are three keys that differ in what matters: a letter,
the letter Control-L needs, a digit without an upper case. A store outside a buffer is dropped: what it
overwrites is not modelled, and `InBuffer` is there to exclude it.

**FileSystem.** The image is chosen initially, from small sets, among all that have a well-formed
directory. The byte at offset o of block b is the pair `<<b, o>>`: two bytes are equal only when they
come from the same place, so reading from a wrong place cannot go unnoticed. The loop of `read_data`
is a recursive function; `Content` is the reference definition of what a file holds. Names are
sequences of characters, of which `STR_LEN` count.

**Screen.** `screen` is the one position (`screen_x`, `screen_y`) with the memory from `video_mem` on: first the
page, then the copies of the hidden terminals, so that a character written below the last row lands where the
code puts it, in another terminal's copy. `cursors` are `cursor_x` and `cursor_y` of the terminals, which are `uint16_t`
where `screen_x` and `screen_y` are `int` (`Kept`): the column -1 of a Backspace in column 0 comes back as 65535. `inds` are the
indexes of the line buffers, which decide how a key is shown. A call of `putc` and a key are one action
each. A copy that has been shown again is overwritten before it is read, so it is forgotten. Zero and
space both look "blank". Three histories: `left`, what a terminal showed when the user left it; `mess`, which
counts calls since text passed the end of a row, left the screen at the bottom or was erased where there
was none; `spilled`, that a character has been written behind the page. A store that no page is mapped for, in front of the
page or far behind it, faults in the middle of a handler or a system call (`Fault`): the handler halts a program, which is
ProcessControl's subject, and here nothing goes on (`up`).

**BlinkList.** `blink_array` and `mp1_list_head` are those of the code, `vmem` the character at each location. Add,
remove and sync are one action each, as a program calls them between two ticks; the tasklet takes a step per
entry. An entry is free when its location is 0, as `mp1_malloc` has it. `owner` is the entry a location
shows, `paired` the entries that have been synchronised since either was last changed.

**Interrupts.** `boot` counts the initialisations of `entry` that are done. `enabled` is what `master_mask` and
`slave_mask` leave open, `irr` and `isr` the registers of the two chips, `irqf` and `port` what the clock and the
keyboard hold for their handlers. `stack` is what the processor executes: programs and handlers, from the base shell up. A
program has its PCB, the PCB of its parent, and runs on top of its parent's execute call, or of the keyboard handler in which
`switch_terminal` started it. Handlers run with interrupts enabled, so each is cut
where it acknowledges; the clock's increment is cut into the load and the store it is compiled to. The stubs
save and restore registers with interrupts as they are. The controllers are modelled as the code uses them: fixed
priorities, edges, the cascade on line 2, specific EOI. `pid`, `cur_terminal`, `latest_pid` and `running` are there because halt
goes by them: it ends the program `pid` names, whoever called it, and drops all of the stack that is above the execute call
that program was started by, handlers included (`Exit`). Two histories. `split`: a shell was started on top of a clock
handler that had not counted. `astray`: halt ended another program than the one that runs, or left another than its
parent to go on; the next traps then arrive on stacks that are in use, whose contents are ProcessControl's subject, and nothing
more is followed here. An exception is a halt with the same effects; its gate masks interrupts, which is left out.
`RTC` takes the increment for one step; `Counts` says when it may.

**Programs.** `page_dir` holds the four entries of the directory that are used (0 and 33, which lead to page tables, 1, the
kernel, 32, the program), each with its present and user bits and what it leads to; `video_mapping_page` the table of
entry 33. `Reachable` is what user mode reaches through them, `tlb` the translations the processor has
kept; a load of a program goes through the translation in force. `runner` is the program that runs, which need not be the one
`pid` names: Alt+Fn moves `pid`, and so does an execute that fails late. Execute, halt and getargs go by `pid`, vidmap by nobody,
as in the code. `tss` is the slot on whose stack traps arrive, and `saved` the place an execute call was left at: its stack,
until a trap on that stack overwrites it (`Gone`), and the program that goes on when halt returns there. A halt without a
parent, or through a place that is gone, gets nowhere we could follow (`mode` is `"lost"`). Six histories: `started`, the programs
that have started and not halted, and `given`, the arguments typed for them; `vidmapped`, who has called vidmap; `spoiled`, the
PCBs in which a file that is no executable has left arguments; `tidy`, that nothing was started while entry 0 was there,
and no halt took place on terminal 1 or 2 then; `orderly`, that halt has ended only the program that called it and returned to its
parent. A call is one action with the trap it comes with; the steps of execute and halt are ProcessControl's subject.

## 3. The runs

All runs are exhaustive within the bounds given. `pass` runs hold; `violation` runs find a behaviour of
the code that a comment, a document or a test of the repository excludes (section 5).

| Run | States | What it shows |
|---|---|---|
| `ProcConsole` | 0.9 k | One console, six slots, executables and missing files, exceptions, a base shell that stays. `NeverWild`; `UserOwnsCpu`; `Chain`; `ReturnsToParent`; `ConsoleInv`, the inductive invariant; `KernelReturns`; and `ConsoleSpec`, the refinement of `ProcessStack`, fairness included. |
| `ProcTerminals` | 666 k | Three terminals, three slots, shells that exit, exceptions. `PidIsLatest`, `LatestActive`, `RestoresParent` survive every order of switches and exits, even those after which the stacks are in disorder. |
| `FdTables` | 329 k | Two nested programs, four descriptors, two kinds of files: `Nested`, `OpenReadable`, and `TableSpec`, the refinement of `FdTable`; and after an execute of a file that is no executable, calls that go to the wrong PCB leave the tables of all active programs in order (`ActiveReserved`). |
| `RtcReads` | 5 k | Two nested programs, good, bad and out-of-range rates: `WaitBound`, `WholePeriod`, and every read returns (`ReadReturns`). |
| `TermLines` | 1.4 M | Two terminals, Enter on the last row and elsewhere, Tab, Backspace, Control-L, Caps Lock, full buffers: `InBuffer`, `Faithful`, `DeliversShown`, and a read returns after Enter (`EnterReturns`). |
| `FileReads` | 782 k | Three directories, all files of up to three blocks, two descriptors, pieces shorter and longer than a block: `Streams`, `Listing`, `Finds`. |
| `ScreenText` | 534 k | Two terminals, programs that print, a user who types, erases, tabs, clears and switches, up to a page fault: `TextShown`, the refinement of `TextScreen` while no row has been filled; `Clean`; `Restored`, a terminal comes back as it was left, but for a negative column. |
| `BlinkEntries` | 452 k | Three entries, two kinds of them, each of which can be added twice: `Linked`, `Phase`, `InStep`, and the tasklet ends (`TaskletEnds`). |
| `DeviceIrqs` | 494 k | From power-on, all three devices, two terminals, three PCBs, programs that execute and halt with whatever `pid`: `Acknowledged`, until a halt goes astray every line in service belongs to one handler that will acknowledge it; `Ready`, nothing runs before what it needs; `Counts`, no tick is lost between load and store; `Served`, keys and ticks are answered, unless a shell is started on a clock handler or a halt goes astray. |
| `ProgramsMemory` | 2.2 M | Three slots, three terminals, commands with and without arguments, files that are no executables, vidmap anywhere, execute and halt with whatever `pid`: `Isolated`, a program reaches the memory of one program and perhaps the screen, and while halts are orderly its own; `Provided`, its image and arguments; `ScreenOwned`, the screen just when it has called vidmap. |
| `ProcNotELF` | | violation of `UserOwnsCpu` |
| `TermHome` | | violation of `Delivers` |

Why the bounds are enough. *Slots and terminals:* with three slots a program can have a child while a
shell of another terminal runs, and the table can be full; the console run has all six. *Descriptors:*
four are the two reserved and two to open, close and reuse out of order. *Kernel stacks:* `MaxDepth`
bounds activations when interrupts nest; it is reached only with `Preempt`. *Clock:* `MaxCount` is
twenty ticks, more than the largest divisor of the rates written (16, the initial one); the rates
include a power of two that is out of range, one that is in range, and numbers between. *Line buffer:*
three places are a character, a second one that fills it and the place kept for Enter. *File system:*
blocks of two bytes make files of zero to five bytes cover the empty file, a partial block, an exact end
and three blocks; inodes have room for one block number more than the longest file needs. *Screen:* a
row of three cells and a Tab of two can be filled by either; two rows scroll; the page has one cell more
than the screen, and the line buffer is longer than a row, so that the character that is number `Cols` of
its line occurs. `MaxY` lets newlines go two rows below the last; `MaxMess` follows two calls after the
text has become a mess, enough to write behind the page, or in front of it, switch, and come back; `Word` is the code's 65536. *Blinks:* three entries give a
list with an entry in the middle to remove, and two with the same location. *Interrupts:* two terminals and three PCBs
are a base shell, a shell on top of a handler and a program of either, which is what a halt with the wrong `pid` takes; `MaxCount` bounds
ticks that nobody has consumed, and two are enough for one to be counted while the handler of another is interrupted.
*Programs:* three slots are a base shell, a child, and a grandchild or the shell of another terminal, and can all be taken;
the arguments are a word or, for shells, none, so that what a shorter text leaves of a longer one shows.

Fairness. `ProcessControl`: weak fairness of the kernel's steps (the processor goes on), of the
terminal's answer (the user presses Enter) and of the timer. `RTC`: the chip ticks, and the loop of
`rtc_read` goes on. `Terminal`: only the steps of `terminal_read` are fair; the user need never press
anything. `BlinkList`: the tasklet, once called, goes on. `Interrupts`: weak fairness of `KernelStep`, in which the
processor accepts what is asserted and executes handlers, initialisations and the entry and exit of system calls; no
device and no program need do anything. No fairness is given to user programs. No strong
fairness is used.

Assumptions of the passing runs, each a constant, so that its absence can be explored:
`BaseExits = FALSE` (ProcConsole), `Files` without `"data"`, `Preempt = FALSE`; in `RTC` `Preempt = FALSE`
and no overflow; in `Terminal` `Patient` (the user types while a program reads), `Prompts` (programs write
before they read, as the shell does) and `Roomy` (Tab is pressed only where there is room for it); in
`BlinkList` `Corner = FALSE`; in `Interrupts` `EarlySwitch = FALSE` (Alt+Fn waits for the base shell); in `Programs` arguments
that fit into the buffer programs give to `getargs`. What `Screen`, `Interrupts` and `Programs` assume beyond that is no guard of an action but
stands in the properties, as a history: `mess = 0` and `~spilled`; `~split` and `~astray`; `orderly`, `tidy` and `spoiled`.
Section 5 says what happens without them.

The type invariants are proved (section 4).
Deadlock is checked in all passing runs but three: `ProcTerminals`, where shells that exit may lead to mode `"wild"`, in which the
system stops for good, `ProgramsMemory`, where the same is mode `"lost"`, and `ScreenText`, where a page fault ends the behaviour. The
violation run of `ProcessControl` switches it off for the same reason.

## 4. The proofs

The proofs hold for every number of slots, terminals, descriptors, programs, and every buffer length,
under the named assumption `ConstantsAssumption` of each module (`ClockAssumption` in `RTC`), which says no more than that the
constants are what their comments say.

**Nesting of programs** (`ProcessControl_proofs`). Assumption `OneConsole`: one terminal, no file that is not
an executable, a base shell that stays. `UserOwnsCpu` and the like speak of user mode only and are not
inductive: they say nothing of the states in the middle of a system call. `ConsoleInv` does. It says
that there is a newest program n, that the stacks of the programs below n hold exactly a trap frame
and the execute call in which each waits, that every PCB leads back to the call of its parent, and,
for every pc of execute and halt, which process `pid`, `mapped` and `tss` name at that moment. `Nesting`
proves it invariant, one lemma per step of the code. From it follow `Safe` (`NeverWild`), `CpuOwned`
(`UserOwnsCpu`), `Chained` (`Chain`), `ReturnsLive` (`ReturnsToParent`), `ParentRestored`
(`RestoresParent`) and `Nests`: every step is a step of `ProcessStack` or stutters.
`Typing` holds in every environment: preemption, any number of terminals.

**Terminals** (`ProcessControl_proofs`). Assumption `WaitsOnly`: interrupts find the kernel where it waits for a line,
and no file is damaged. Base shells may exit and programs may fault. On several terminals the stacks may be in
disorder (section 5), so nothing is said of what they lead to; but what `pid` and `latest_pid` name does not
depend on it. `TerminalsInv` has two halves. `Apart`: no two terminals have the same latest process, slot 0 apart, and the parent of
an active process waits for that process only and is nobody's latest. `Latched`: at which step of execute, halt and
switch_terminal `pid` is the latest process of the displayed terminal, when that process is not active yet or no longer
(`Gap`), and that every activation below the top of a stack is one that can be returned to at any time (`Resumable`), so that
whatever return is taken, through whatever stack, finds the system between two calls. `TerminalsNested` proves it, and from it
`PidStaysLatest` (`PidIsLatest`) and `LatestStaysActive` (`LatestActive`). `RestoresParent` on several terminals is left to the run
`ProcTerminals`: it depends on nothing interrupting halt, which there is an assumption.

**Descriptors** (`FileDescriptors_proofs`). `Stack` and `Terminals` prove `Nested` and `ActiveReserved`,
whatever executes fail; until one fails late `TerminalKept` gives `Reserved`, `Implements` the refinement of
`FdTable`, and `Readable` gives `OpenReadable`: there the strengthening is `Stacked`, that tidy programs hold
the lowest descriptors up to the one `fd_ind` names, and only the newest program holds any.

**Clock** (`Devices_proofs`). `Counting` is the strengthening of `WaitBound`: only the running program waits, and
what has been counted is at least what it has seen, since the reset that loses ticks happens only at
the end of a read. `Counted`, `Bounded` and `Whole` prove them while no program is suspended in `rtc_read`
and the counter does not overflow; `Typing` holds without these assumptions.

**Terminal** (`Terminal_proofs`). `NoOverrun`: whatever the user types and the programs do, the indexes never
pass the end of the buffer. `Indexed`: nor its start, for a patient user; the strengthening relates
the Tab flag to an index of at least one. `Typed` is the type invariant in every environment. `LineFaithful`
(`Faithful`) and `ReadsLine` (`DeliversShown`), for careful users and programs (`Patient`, `Roomy`, `Prompts`), rest on
`Disciplined`: `Discipline` says that the buffer of every terminal that is not displayed holds the line typed there
(`Matched`), that between Enter and the end of the copy nothing moves and `read_ind` counts the line, or the line
and its newline (`Copied`), and which terminals have been visited (`Phased`). A program that reads on a terminal the user has left is
served only after the user has come back, which is why one `kb_buf` for three terminals does no harm to careful users.

**Interrupts** (`Interrupts_proofs`). `Acknowledges`: whatever is typed and executed, until a halt goes astray `Acknowledged`
is inductive together with the types and `Shape`, that a keyboard handler directly below a program is in `switch_terminal`, behind
its EOI, so that a program that ends with what lies between it and its parent drops nothing in service. That a handler is interrupted only by a line of higher priority is what
makes "the line it serves leaves `isr` when it acknowledges" true of exactly one handler. `Prepared` gives `Ready`: the
strengthening `Armed` says that a line is enabled only when its device's initialisation is done, and that
Alt+Fn waits for the shell. The order of `entry` enters in one lemma (`Places`). `TicksCounted` gives `Counts`, whatever
interrupts what: `CountsInv` says where interrupts are masked (`Flags`), that a shell is started only on top of
handlers that serve the clock or nothing (`Clear`), and that unless a shell has split it there is one handler that has not
counted, on which no program runs, and whose loaded value is the counter's (`Alone`).

**Programs** (`Programs_proofs`). For any number of slots and terminals, and whatever `pid` names. `Isolates` gives `Isolated`: it
needs `Tables` (what the entries are for user mode, and that entry 32 is the running program's while halts are orderly) and `Cached`
(the TLB holds nothing the tables do not). `Provides` gives `Provided`, with `Texts`: a started program's PCB is active, so that no
execute takes it, its memory holds its image, and a PCB holds the arguments given or, while it is free, none. `OwnsScreen` gives
`ScreenOwned`, with `Shown`: while all is tidy and orderly entry 0 is there for the running program alone, so that the halt that
takes it away on terminal 0 takes it from the program that set it.

**Blinks** (`BlinkList_proofs`). `Phases` gives `Phase`, whose strengthening is in the type invariant: no countdown is longer
than the state it counts. With `Corner = FALSE`, `Listed` proves `ListInv`: there is a sequence of different nodes, the allocated
ones, that the list runs through (`Chain`); the tasklet stands at a position d of it or behind its end; two synchronised entries
are alike, or the one in front of d is a tick ahead (`Paced`). `ListLinked` and `StepsKept` give `Linked` and `InStep`. Add,
remove and sync come between two walks, each with a lemma on what it does to the sequence.

**File system** (`FileSystem_proofs`). For blocks, files, names, directories and reads of any size, without further
assumptions. `CopiedIs` says what the loop of `read_data`, a recursive function, copies: the bytes from the offset on. Its
proof is not by induction, which the provers cannot instantiate, but takes the least length for which the function and the bytes
would differ, and divides with `DivIs` and `DivUp`. `FileInv` says that what a descriptor has read is what is before its
position, and that what it has listed are the names before it; its steps give `TypeCorrect` (`TypeOK`),
`ReadsInOrder` (`Streams`) and `ListsAll` (`Listing`). `SameNameIs` says that `strncmp` with `STR_LEN` finds equal just the names whose first
`STR_LEN` characters are an entry's, by the least place where they would differ; it gives `OpensNamed` (`Finds`).

**Screen** (`Devices_proofs`). For screens, pages and tabs of any size, a page being larger than the screen, and for one to
three terminals, as the code has. Three invariants, each resting on the one before.
`Typed` adds to the type invariant that the screen is a record of those fields; it gives `ScreenTypeCorrect`
(`TypeOK`). `Keeping` says that below the screen the position is at the start of its row (`Low`), so that a character
one row below it still falls into the page, and that the copy and the position of each hidden terminal are those it
was left with, unless a character was written behind the page or the column was negative; it gives `ComesBack` (`Restored`). `Tidying` says, of
the shown terminal and of the hidden ones, that nothing lies behind the position while no row has been filled, and that
below the screen no line has been begun; it gives `StaysClean` (`Clean`). `ShowsText` (`TextShown`) is the refinement of
`TextScreen`: `TextOf` is the text of a page as a function of its position and cells, and one lemma for each thing that can happen to
a page (characters added, erased, a line ended, rows scrolled, a terminal exchanged for another) says what it does to the
text. Tab and Backspace repeat `putc` and `backspace` by a recursive function (`Times`); `Iterates` follows it by the least
number of steps at which it would leave the chain of positions the lemmas describe.

Only model-checked: all liveness (`KernelReturns`, `ReadReturns`, `EnterReturns`, `TaskletEnds`, `Served`) and the fairness part of
`ProcessStack`, because the prover has neither ENABLED nor fairness; and `RestoresParent` on several terminals.
Every inductive invariant above was checked by TLC on the instance of its run before it was proved.

## 5. Where code and comments disagree

Shown by runs:

* `ProcNotELF`: `execute` of a file without the ELF magic returns -1 after `pid = i`
  (`syscall_functions.c:210`, `230`). The shell goes on with `pid` naming a free slot. `FdTables` shows
  that the damage stays confined to free PCBs as far as descriptors are concerned.
* `TermHome`: Enter completes whatever read is in progress, of the program of the other terminal too.

Found with the same modules, by changing one constant or checking one more property; they have no run
of their own:

| Module, change | Violates | Why |
|---|---|---|
| ProcessControl, two terminals | `UserOwnsCpu` | `switch_terminal` changes `pid` only; page, TSS and running program stay |
| ProcessControl, `BaseExits = TRUE` | `NeverWild` | shells that replace the base shell exit into dead activations or `processes[-1]` |
| ProcessControl, two terminals | `NeverWild` | the shell of a first visit has slot 0 as parent, whatever was interrupted: its exit restores slot 0's TSS, and the next trap of the interrupted program overwrites the execute call its own halt returns through |
| ProcessControl, `Preempt = TRUE` | `RestoresParent` | halt reads `pid` again after each step; Alt+Fn in between makes it restore the page and TSS of a process that is not the parent |
| ProcessControl, two terminals | `EveryTerminalRuns` | `schedule()` is empty, though its comment says round robin |
| FileDescriptors, `strayed` ignored | `Reserved` | the PCB that calls then use may never have been filled |
| FileDescriptors, `tidy` ignored | `OpenReadable` | 2 and 3 open, close and reopen 2: 3 can no longer be read |
| FileDescriptors | `OpenWritable` | write rejects the descriptor the last open returned (`syscall_functions.c:380`): a program cannot set the clock's rate after opening it |
| RTC | `WaitsForTick` | ticks are counted while nobody reads, so a read may return at once |
| RTC | `OpenSetsRate` | nothing calls `rtc_open` |
| RTC, `Preempt = TRUE` | `WaitBound` | a program suspended in `rtc_read` loses its ticks to another |
| RTC, `MaxCount = Half` | `WaitBound` | after 2^31 ticks nobody read the counter is negative |
| Terminal, `Patient = FALSE` | `InBuffer` | Backspace after Tab decrements untested, and a write in between has made the index 0 |
| Terminal, `Prompts = FALSE` | `Delivers` | Enter on the last row leaves `kb_ind1..3` as they were |
| Terminal, `Roomy = FALSE` | `Faithful` | Tab is shown and stored in a full buffer, then forgotten |
| FileSystem | `Clipped` | `read_data` goes on behind the end of the file |
| Screen | `NextLine` | `BugLog.txt:32` says text goes on in the next line; `putc` goes back to the start of the same row |
| Screen, `mess` ignored | `Clean`, `TextShown` | a full row; two newlines at the bottom; Backspace in column 0 |
| Screen, `Restored` for negative columns too | `Restored` | after Backspace in column 0, leaving the terminal and coming back makes column -1 column 65535 (`cursor_x`, `scheduling.h:15`); the next character faults or goes far behind the page |
| Screen, `spilled` ignored | `Restored` | below the last row `putc` writes into the copy of a hidden terminal |
| BlinkList, `Corner = TRUE`, a blink at 0 | `Linked` | an entry at location 0 is in the list and free at once |
| BlinkList, `Corner = TRUE`, a blink at 0 | `TaskletEnds` | the same entry handed out again points to itself |
| BlinkList, `owner` kept by sync | `Phase` | sync always shows the off character |
| Interrupts, `EarlySwitch = TRUE` | `Ready` | Alt+F2 after `keyboard_init` starts a shell before paging is enabled |
| Interrupts, `split` ignored | `Served` | Alt+Fn may start a shell on top of a clock handler that has not sent its EOI: until that shell exits there are no ticks |
| Interrupts, `split` ignored | `Counts` | a handler that has loaded the counter when the shell is started stores the old value when it exits |
| Interrupts, `astray` ignored | `Acknowledged` | Alt+F2 on top of a clock handler before its EOI, Alt+F1, exit: halt goes by `pid`, drops the handler's frame, and its EOI is never sent |
| Programs, `orderly` ignored | `Isolated` | Alt+F2, Alt+F1, and a program's halt ends another one; a shell started by Alt+Fn halts to slot 0, whichever program was interrupted, which then runs on slot 0's page |
| Programs, `pid = s` dropped | `Provided` | getargs reads the PCB `pid` names: after Alt+Fn or an execute that failed late, another program's arguments or none |
| Programs, `spoiled` ignored | `Provided` | a file that is no executable leaves its arguments in the free PCB; a shorter text is then copied over them without a terminator |
| Programs, `tidy` ignored | `ScreenOwned` | vidmap sets entry 0, halt clears the entry of the terminal: a vidmap program of terminal 0 that halts while another terminal is shown leaves it to its parent, and a child's halt on terminal 0 takes its parent's |
| FileSystem | `WholeIsZero` | `tests.c:337` takes 0 for success, `read_data` returns the length |

Read in the code, without a model: the shell reports a program that died of an exception when its status is 256
(`ece391shell.c:30`), but every exception handler halts with 0, so this message never appears; and `pit_init` is given
4 Hz, whose divisor 298295 does not fit the 16 bits that are written (`pit.c:13-18`), so that the timer ticks at about
33 Hz. Nothing depends on the rate, since `schedule()` is empty.

## 6. What is not modelled, and the plan

Left out for good: the programming of device registers, formatting (`printf`, `itoa`, the exception messages), the
fields of GDT, IDT and TSS descriptors that are set once, the contents of programs and the image, the kernel's own
tests, build files. The user programs are the environment: what they may call is in the actions' inputs.
`ProcessControl` abstracts the loading of a program, which `Programs` has; `Terminal` leaves what is echoed to
`Screen`, and `Screen` the line buffer to `Terminal`. `set_handler` and `sigreturn` return -1 and change nothing.

What a continuation would add:

1. Steps inside `putc` (`lib.c:191`): the handler's `putc` may come between two statements of a program's, and both change
   `screen_x` and `screen_y`. `Screen` interleaves whole calls only.
2. The splitting of a command into name and arguments, with its blanks, which `Programs` takes as done.
3. What a stack holds after a halt that went astray, in `Interrupts`: `ProcessControl` has it, without the interrupt controllers.
4. Proofs about what a continuation models, and `RestoresParent` on several terminals; the other safety properties of the passing
   runs are proved.
