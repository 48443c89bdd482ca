------------------------------ MODULE Programs ------------------------------
(***************************************************************************)
(* What the kernel gives a program: memory of its own, the screen after    *)
(* vidmap, and its arguments (paging.c, execute_function, halt_function,   *)
(* vidmap_function, getargs_function).  The page tables and the            *)
(* translations the processor keeps of them are modelled, down to the bits *)
(* that decide what a program can reach.                                   *)
(*                                                                         *)
(* A call, with the trap it comes with, is one action; which programs go  *)
(* on after a halt depends on the global pid and on the frame its PCB      *)
(* keeps, so these are modelled too.  ProcessControl has the steps of the  *)
(* calls and the stacks, FileDescriptors the descriptors.                  *)
(***************************************************************************)
EXTENDS Integers, Sequences, FiniteSets

CONSTANTS
  NumSlots,    \* PCBs, six in the code
  Terminals,   \* NUM_TERMINALS, three in the code
  Arguments    \* what is typed after the names of programs

VARIABLES
  cur_terminal,        \* the terminal shown
  latest_pid, visited, \* terminals[].latest_pid, and those that are running
  pid,                 \* the program the kernel takes for the running one
  processes,           \* the PCBs: active, pid, parent_pid, args
  saved,               \* saved_esp of the PCBs: the kernel stack on which
                       \* execute waits, and the program it returns to
  tss,                 \* the slot on whose kernel stack traps arrive
  page_dir,            \* entries 0, 1, 32 and 33 of the page directory
  video_mapping_page,  \* the table of entry 33
  tlb,                 \* translations the processor keeps
  memory,              \* whose image the memory of a slot holds
  mode,                \* "boot", then "user"; "lost" after a halt that does
                       \* not get back to a program
  runner,              \* the program that runs
  given, started,      \* history: the programs that have started and not
                       \* halted, and the arguments of their commands
  vidmapped,           \* history: those that have called vidmap
  spoiled,             \* history: the PCBs in which the arguments of a file
                       \* that is no executable were left
  tidy,                \* history: nothing has been started while a program
                       \* had the screen, nor has one ended on terminal 1 or 2
  orderly              \* history: halt has only ended the program that called
                       \* it, and returned to its parent

tables == <<page_dir, video_mapping_page>>
terms == <<cur_terminal, latest_pid, visited>>
control == <<saved, tss, mode, runner>>
history == <<given, started, vidmapped, spoiled, tidy, orderly>>
vars == <<terms, pid, processes, control, tables, tlb, memory, history>>

\* The buffer the programs pass to getargs.
BufSize == 1024

Slots == 0 .. NumSlots - 1
Terms == 0 .. Terminals - 1
NoParent == -1  \* pid before the first execute
Gone == -1      \* no stack: a frame that has been overwritten

ASSUME ConstantsAssumption ==
  /\ NumSlots \in Nat \ {0}
  /\ Terminals \in Nat \ {0}
  /\ \A a \in Arguments : a \in Seq({"a", "b"}) /\ Len(a) <= BufSize

-----------------------------------------------------------------------------
\* Memory: the 4 MB of a slot, the 4 MB of the kernel, and 4 kB pages of video
\* memory, of which 0 is shown.  The page tables are not for programs at all.
Own(s) == <<"program", s>>
Kernel == <<"kernel", 0>>
Video(i) == <<"video", i>>
Screen == Video(0)
Table(d) == <<"table", d>>

Entry(p, us, frame) == [p |-> p, us |-> us, frame |-> frame]

\* Entries 0xB8 .. 0xBB of first_page_table: the screen and the copies of the
\* terminals.
first_page_table == [i \in 0 .. 3 |-> Entry(TRUE, FALSE, Video(i))]

\* init_paging.  In video_mapping_page the entry of the screen's own number
\* (0xB8) is present, for the kernel.
SCREEN_ENTRY == 184
InitDirectory ==
  [d \in {0, 1, 32, 33} |->
     CASE d = 0 -> Entry(TRUE, FALSE, Table(0))
       [] d = 1 -> Entry(TRUE, FALSE, Kernel)
       [] d = 32 -> Entry(FALSE, FALSE, Kernel)
       [] d = 33 -> Entry(TRUE, TRUE, Table(33))]
InitVideo ==
  [i \in Terms \cup {SCREEN_ENTRY} |->
     IF i = SCREEN_ENTRY THEN Entry(TRUE, FALSE, Screen)
                         ELSE Entry(FALSE, FALSE, Kernel)]

\* What a program reaches through the tables: pages and what is behind them.
Mapping(d, i, e) == [page |-> <<d, i>>, frame |-> e.frame]
ForUser(e) == e.p /\ e.us
Reachable ==
  {Mapping(d, 0, page_dir[d]) : d \in {e \in {1, 32} : ForUser(page_dir[e])}}
  \cup (IF ForUser(page_dir[0])
        THEN {Mapping(0, i, first_page_table[i]) :
                i \in {j \in 0 .. 3 : ForUser(first_page_table[j])}}
        ELSE {})
  \cup (IF ForUser(page_dir[33])
        THEN {Mapping(33, i, video_mapping_page[i]) :
                i \in {j \in DOMAIN video_mapping_page :
                         ForUser(video_mapping_page[j])}}
        ELSE {})

\* flushtlb; no page is used that has the global bit.  The mutant forgets it.
Flush_Not(t) == t
Flush(t) == {}

Init ==
  /\ cur_terminal = 0 /\ pid = NoParent
  /\ latest_pid = [t \in Terms |-> 0] /\ visited = {0}
  /\ processes = [s \in Slots |-> [active |-> FALSE, pid |-> 0,
                                   parent_pid |-> 0, args |-> <<>>]]
  /\ saved = [s \in Slots |-> [stack |-> Gone, to |-> 0]] /\ tss = 0
  /\ page_dir = InitDirectory /\ video_mapping_page = InitVideo
  /\ tlb = {}
  /\ memory = [s \in Slots |-> -1]
  /\ mode = "boot" /\ runner = 0
  /\ given = [s \in Slots |-> <<>>] /\ started = {} /\ vidmapped = {}
  /\ spoiled = {} /\ tidy = TRUE /\ orderly = TRUE

-----------------------------------------------------------------------------
Free == {s \in Slots : ~processes[s].active}
FirstFree(s) == s \in Free /\ \A r \in Free : s <= r

\* execute_function copies what follows the name, without a terminator, over
\* the args of the PCB.
Copied(old, a) == a \o SubSeq(old, Len(a) + 1, Len(old))

\* page_dir[32] for the memory of a slot.
MapProgram(s) == [page_dir EXCEPT ![32] = Entry(TRUE, TRUE, Own(s))]

\* Once traps arrive on the stack of slot s, the next one overwrites the frame
\* that waits there.
Overwritten(frames, s) ==
  [r \in Slots |-> IF frames[r].stack = s THEN [frames[r] EXCEPT !.stack = Gone]
                                         ELSE frames[r]]

\* execute of a program in slot s, on terminal t: its memory is mapped, and its
\* image loaded through the translation in force.
Load(t, s, parent, a, stack) ==
  /\ latest_pid' = [latest_pid EXCEPT ![t] = s]
  /\ processes' = [processes EXCEPT ![s] =
                     [active |-> TRUE, pid |-> s, parent_pid |-> parent,
                      args |-> Copied(@.args, a)]]
  /\ saved' = Overwritten([saved EXCEPT ![s] =
                              [stack |-> stack, to |-> runner]], s)
  /\ tss' = s
  /\ page_dir' = MapProgram(s)
  /\ LET kept == {m \in Flush(tlb) : m.page = <<32, 0>>}
         used == IF kept = {} THEN Mapping(32, 0, page_dir'[32])
                              ELSE CHOOSE m \in kept : TRUE
     IN  /\ tlb' = Flush(tlb) \cup {used}
         /\ memory' = [r \in Slots |-> IF used.frame = Own(r)
                                       THEN s ELSE memory[r]]
  /\ pid' = s
  /\ mode' = "user" /\ runner' = s
  /\ given' = [given EXCEPT ![s] = a] /\ started' = started \cup {s}
  /\ vidmapped' = vidmapped \ {s}
  /\ tidy' = (tidy /\ ~video_mapping_page[0].p)
  /\ UNCHANGED <<spoiled, orderly>>

\* entry starts the base shell.
Boot(s) ==
  /\ mode = "boot"
  /\ FirstFree(s)
  /\ Load(cur_terminal, s, pid, <<>>, tss)
  /\ UNCHANGED <<cur_terminal, visited, video_mapping_page>>

\* A program executes another, whose parent is the one pid names.  Of a name
\* that is not found, or when no PCB is free, nothing comes but a result.
Execute(s, a) ==
  /\ mode = "user"
  /\ FirstFree(s)
  /\ Load(cur_terminal, s, pid, a, tss)
  /\ UNCHANGED <<cur_terminal, visited, video_mapping_page>>

\* A file without the magic number is noticed when pid and args are written.
ExecuteData(s, a) ==
  /\ mode = "user"
  /\ FirstFree(s)
  /\ pid' = s
  /\ processes' = [processes EXCEPT ![s].args = Copied(@, a)]
  /\ spoiled' = IF a = <<>> THEN spoiled ELSE spoiled \cup {s}
  /\ UNCHANGED <<terms, control, tables, tlb, memory, given, started,
                 vidmapped, tidy, orderly>>

\* halt_function clears the arguments, ...
Args_Kept(old) == old
Args(old) == <<>>

\* ... and takes the screen away: entry cur_terminal of the table, though
\* vidmap uses entry 0.
Unmapped_Not(video) == video
Unmapped(video) ==
  [video EXCEPT ![cur_terminal] =
     Entry(FALSE, TRUE, IF cur_terminal = 0 THEN Screen
                        ELSE Own(4 * cur_terminal - 2))]

\* A PCB whose pid is 0, the base shell's or one that was never filled, first
\* starts another shell.  What waits beneath that shell is halt itself, which
\* would go on to processes[-1] or return through its own frame: no program.
HaltBase(s) ==
  /\ mode = "user"
  /\ processes[pid].pid = 0
  /\ FirstFree(s)
  /\ Load(cur_terminal, s, pid, <<>>, Gone)
  /\ UNCHANGED <<cur_terminal, visited, video_mapping_page>>

\* halt ends the program pid names, whoever has called it or raised an
\* exception, makes its parent the current one, and leaves through the frame
\* in its PCB.
Ending == mode = "user" /\ (processes[pid].pid = 0 => Free = {})
Returning == processes[pid].parent_pid # NoParent /\ saved[pid].stack # Gone

Halt ==
  /\ Ending /\ Returning
  /\ LET parent == processes[pid].parent_pid
     IN  /\ processes' = [processes EXCEPT
                            ![pid].active = FALSE, ![pid].args = Args(@),
                            ![parent].active = TRUE]
         /\ latest_pid' = [latest_pid EXCEPT ![cur_terminal] = parent]
         /\ page_dir' = [MapProgram(parent) EXCEPT
                           ![0] = Entry(TRUE, FALSE, Table(0))]
         /\ pid' = parent /\ tss' = parent
         /\ saved' = Overwritten([saved EXCEPT ![pid].stack = Gone], parent)
         /\ orderly' = (orderly /\ pid = runner /\ saved[pid].to = parent)
  /\ runner' = saved[pid].to
  /\ video_mapping_page' = Unmapped(video_mapping_page)
  /\ tlb' = Flush(tlb)
  /\ started' = started \ {pid}
  /\ vidmapped' = vidmapped \ {pid} /\ spoiled' = spoiled \ {pid}
  /\ tidy' = (tidy /\ (video_mapping_page[0].p => cur_terminal = 0))
  /\ UNCHANGED <<cur_terminal, visited, mode, memory, given>>

\* Without a parent, or through a frame that has been overwritten, no program
\* is reached, and we do not follow the processor.
HaltLost ==
  /\ Ending /\ ~Returning
  /\ mode' = "lost"
  /\ UNCHANGED <<terms, pid, processes, saved, tss, runner, tables, tlb, memory,
                 history>>

\* vidmap, with an address between 128 MB and 132 MB: whoever calls it gets
\* entry 0.
Vidmap ==
  /\ mode = "user"
  /\ video_mapping_page' =
       [video_mapping_page EXCEPT ![0] = Entry(TRUE, TRUE, Screen)]
  /\ tlb' = Flush(tlb)
  /\ vidmapped' = vidmapped \cup {runner}
  /\ UNCHANGED <<terms, pid, processes, control, page_dir, memory, given,
                 started, spoiled, tidy, orderly>>

\* Alt+Fn: switch_terminal changes pid; the first visit starts a shell.
SwitchTerminal(t) ==
  /\ mode = "user"
  /\ t # cur_terminal
  /\ cur_terminal' = t
  /\ visited' = visited \cup {t}
  /\ IF t \in visited \/ Free = {}
     THEN /\ pid' = latest_pid[t]
          /\ UNCHANGED <<latest_pid, processes, control, page_dir, tlb, memory,
                         history>>
     ELSE \E s \in Slots :
            FirstFree(s) /\ Load(t, s, latest_pid[t], <<>>, tss)
  /\ UNCHANGED video_mapping_page

\* The program uses a page; the processor keeps the translation.
Touch ==
  /\ mode = "user"
  /\ \E m \in Reachable :
       /\ \A k \in tlb : k.page # m.page
       /\ tlb' = tlb \cup {m}
  /\ UNCHANGED <<terms, pid, processes, control, tables, memory, history>>

Next ==
  \/ \E s \in Slots :
       \/ Boot(s) \/ HaltBase(s)
       \/ \E a \in Arguments : Execute(s, a) \/ ExecuteData(s, a)
  \/ Halt \/ HaltLost \/ Vidmap
  \/ \E t \in Terms : SwitchTerminal(t)
  \/ Touch

Spec == Init /\ [][Next]_vars

-----------------------------------------------------------------------------
Frames == {Own(s) : s \in 0 .. NumSlots + 4 * Terminals} \cup {Kernel}
          \cup {Video(i) : i \in 0 .. 3} \cup {Table(d) : d \in {0, 33}}
Entries == [p : BOOLEAN, us : BOOLEAN, frame : Frames]
Text == Seq({"a", "b"})
Processes == [active : BOOLEAN, pid : Slots,
              parent_pid : Slots \cup {NoParent}, args : Text]
Directories == [{0, 1, 32, 33} -> Entries]
VideoTables == [Terms \cup {SCREEN_ENTRY} -> Entries]
Mappings == [page : {0, 1, 32, 33} \X Nat, frame : Frames]

TypeOK ==
  /\ cur_terminal \in Terms /\ latest_pid \in [Terms -> Slots]
  /\ visited \subseteq Terms
  /\ pid \in Slots \cup {NoParent} /\ processes \in [Slots -> Processes]
  /\ saved \in [Slots -> [stack : Slots \cup {Gone}, to : Slots]]
  /\ tss \in Slots
  /\ page_dir \in Directories /\ video_mapping_page \in VideoTables
  /\ tlb \subseteq Mappings
  /\ memory \in [Slots -> Slots \cup {-1}]
  /\ mode \in {"boot", "user", "lost"} /\ runner \in Slots
  /\ mode = "user" => pid \in Slots
  /\ given \in [Slots -> Text] /\ started \subseteq Slots
  /\ vidmapped \subseteq Slots /\ spoiled \subseteq Slots
  /\ tidy \in BOOLEAN /\ orderly \in BOOLEAN

\* While a program runs it reaches the memory of one program, perhaps the
\* screen, and nothing else: not the kernel, not the copies of hidden terminals
\* and not through a translation that the tables no longer have; and this is
\* its own memory, until halt ends a program that has not called it or
\* returns to one that is not the parent.
MemoryOf(s) == [page |-> <<32, 0>>, frame |-> Own(s)]
OnScreen == [page |-> <<33, 0>>, frame |-> Screen]
Isolated ==
  mode = "user" =>
    /\ \E s \in Slots :
         /\ MemoryOf(s) \in Reachable
         /\ Reachable \subseteq {MemoryOf(s), OnScreen}
         /\ orderly => s = runner
    /\ tlb \subseteq Reachable

\* getargs_function, for a buffer of n bytes: the arguments in the PCB that pid
\* names, whoever calls it.
getargs(n) ==
  LET a == processes[pid].args IN SubSeq(a, 1, IF n < Len(a) THEN n ELSE Len(a))

\* Every program that has started and not halted has in its memory what was
\* loaded for it, and while pid names it gets the arguments of its own command,
\* although other programs have used its PCB and its memory before, and run
\* meanwhile.  Only a file that was no executable may have left arguments there.
Provided ==
  \A s \in started :
    /\ memory[s] = s
    /\ pid = s /\ s \notin spoiled => getargs(BufSize) = given[s]

\* A program reaches the screen when it has called vidmap, and only then: as
\* long as what calls vidmap ends before anything else is started and while
\* terminal 0 is shown, and halt returns in order.
ScreenOwned ==
  mode = "user" /\ orderly /\ tidy =>
    (runner \in vidmapped <=> OnScreen \in Reachable)
=============================================================================
