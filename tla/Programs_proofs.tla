--------------------------- MODULE Programs_proofs ---------------------------
(***************************************************************************)
(* Proofs about module Programs: types, and that programs are isolated,    *)
(* get what was given to them, and reach the screen when they have asked   *)
(* for it, whichever program pid names when they execute and halt.         *)
(***************************************************************************)
EXTENDS Programs, TLAPS

-----------------------------------------------------------------------------
\* Constants, frames and sequences.

LEMMA Zero ==
  /\ 0 \in Slots /\ 0 \in Terms /\ Slots \subseteq Nat /\ Terms \subseteq Nat
BY ConstantsAssumption DEF Slots, Terms

LEMMA OwnFrame ==
  /\ \A s \in Slots : Own(s) \in Frames
  /\ \A t \in Terms \ {0} : Own(4 * t - 2) \in Frames
  /\ \A s, r \in Slots : Own(s) = Own(r) => s = r
  /\ \A s \in Slots : Own(s) # Screen
<1>1. \A s \in Slots : s \in 0 .. NumSlots + 4 * Terminals
  BY ConstantsAssumption DEF Slots
<1>2. \A t \in Terms \ {0} : 4 * t - 2 \in 0 .. NumSlots + 4 * Terminals
  BY ConstantsAssumption DEF Terms
<1>3. \A n \in 0 .. NumSlots + 4 * Terminals : Own(n) \in Frames
  BY DEF Frames
<1>4. \A s, r \in Slots : Own(s) = Own(r) => s = r
  BY DEF Own
<1>5. \A s \in Slots : Own(s) # Screen
  BY DEF Own, Screen, Video
<1> QED
  BY <1>1, <1>2, <1>3, <1>4, <1>5

LEMMA OtherFrames ==
  /\ Screen \in Frames /\ Kernel \in Frames
  /\ Table(0) \in Frames /\ Table(33) \in Frames
  /\ \A i \in 0 .. 3 : Video(i) \in Frames
BY DEF Frames, Screen

LEMMA EntryTyped ==
  ASSUME NEW p \in BOOLEAN, NEW us \in BOOLEAN, NEW f \in Frames
  PROVE  Entry(p, us, f) \in Entries
BY DEF Entry, Entries

LEMMA MappingTyped ==
  ASSUME NEW d \in {0, 1, 32, 33}, NEW i \in Nat, NEW e \in Entries
  PROVE  Mapping(d, i, e) \in Mappings
BY DEF Mapping, Mappings, Entries

LEMMA CopiedTyped ==
  ASSUME NEW old \in Text, NEW a \in Text
  PROVE  Copied(old, a) \in Text
<1>1. SubSeq(old, Len(a) + 1, Len(old)) \in Text
  BY DEF Text
<1> QED
  BY <1>1 DEF Copied, Text

LEMMA EmptyText == <<>> \in Text
<1>1. <<>> \in Seq({"a", "b"})
  OBVIOUS
<1> QED
  BY <1>1 DEF Text

LEMMA ArgumentText == \A a \in Arguments : a \in Text /\ Len(a) <= BufSize
BY ConstantsAssumption DEF Text

-----------------------------------------------------------------------------
\* What is reachable has types.

LEMMA TablesTyped ==
  /\ first_page_table \in [0 .. 3 -> Entries]
  /\ InitDirectory \in Directories
  /\ InitVideo \in VideoTables
<1>1. \A i \in 0 .. 3 : Entry(TRUE, FALSE, Video(i)) \in Entries
  BY EntryTyped, OtherFrames
<1>2. /\ Entry(TRUE, FALSE, Table(0)) \in Entries
      /\ Entry(TRUE, FALSE, Kernel) \in Entries
      /\ Entry(FALSE, FALSE, Kernel) \in Entries
      /\ Entry(TRUE, TRUE, Table(33)) \in Entries
      /\ Entry(TRUE, FALSE, Screen) \in Entries
  BY EntryTyped, OtherFrames
<1>3. first_page_table \in [0 .. 3 -> Entries]
  BY <1>1 DEF first_page_table
<1>4. InitDirectory \in Directories
  BY <1>2 DEF InitDirectory, Directories
<1>5. InitVideo \in VideoTables
  BY <1>2 DEF InitVideo, VideoTables
<1> QED
  BY <1>3, <1>4, <1>5

LEMMA ReachableTyped ==
  ASSUME page_dir \in Directories, video_mapping_page \in VideoTables
  PROVE  Reachable \subseteq Mappings
<1> SUFFICES ASSUME NEW m \in Reachable PROVE m \in Mappings
  OBVIOUS
<1>1. CASE \E d \in {1, 32} : m = Mapping(d, 0, page_dir[d])
  BY <1>1, MappingTyped DEF Directories
<1>2. CASE \E i \in 0 .. 3 : m = Mapping(0, i, first_page_table[i])
  BY <1>2, MappingTyped, TablesTyped
<1>3. CASE \E i \in Terms \cup {SCREEN_ENTRY} :
             m = Mapping(33, i, video_mapping_page[i])
  BY <1>3, MappingTyped, Zero DEF VideoTables, SCREEN_ENTRY
<1>4. DOMAIN video_mapping_page = Terms \cup {SCREEN_ENTRY}
  BY DEF VideoTables
<1> QED
  BY <1>1, <1>2, <1>3, <1>4 DEF Reachable

-----------------------------------------------------------------------------

\* Load replaces a PCB, page_dir[32] and the frame in the PCB, and leaves one
\* translation: that of the new program's memory.
Loaded(t, s, parent, a) ==
  /\ latest_pid' = [latest_pid EXCEPT ![t] = s]
  /\ processes' = [processes EXCEPT ![s] =
                     [active |-> TRUE, pid |-> s, parent_pid |-> parent,
                      args |-> Copied(processes[s].args, a)]]
  /\ page_dir' = [page_dir EXCEPT ![32] = Entry(TRUE, TRUE, Own(s))]
  /\ tlb' = {Mapping(32, 0, Entry(TRUE, TRUE, Own(s)))}
  /\ memory' = [memory EXCEPT ![s] = s]
  /\ pid' = s /\ tss' = s /\ mode' = "user" /\ runner' = s
  /\ given' = [given EXCEPT ![s] = a] /\ started' = started \cup {s}
  /\ vidmapped' = vidmapped \ {s}
  /\ tidy' = (tidy /\ ~video_mapping_page[0].p)
  /\ UNCHANGED <<spoiled, orderly>>

LEMMA Loads ==
  ASSUME TypeOK, NEW t \in Terms, NEW s \in Slots, NEW parent, NEW a \in Text,
         NEW stack, Load(t, s, parent, a, stack)
  PROVE  Loaded(t, s, parent, a)
<1> DEFINE e == Entry(TRUE, TRUE, Own(s))
           used == Mapping(32, 0, e)
<1>1. page_dir' = [page_dir EXCEPT ![32] = e]
  BY DEF Load, MapProgram
<1>2. page_dir'[32] = e
  BY <1>1 DEF TypeOK, Directories
<1>3. /\ tlb' = {used}
      /\ memory' = [r \in Slots |-> IF used.frame = Own(r) THEN s ELSE memory[r]]
  <2>1. {m \in Flush(tlb) : m.page = <<32, 0>>} = {}
    BY DEF Flush
  <2> QED
    BY <1>2, <2>1 DEF Load, Flush
<1>4. used.frame = Own(s)
  BY DEF Mapping, Entry
<1>5. \A r \in Slots : used.frame = Own(r) <=> r = s
  BY <1>4, OwnFrame, Zero
<1>6. memory' = [memory EXCEPT ![s] = s]
  <2> HIDE DEF used
  <2>1. \A r \in Slots : memory'[r] = [memory EXCEPT ![s] = s][r]
    BY <1>3, <1>5 DEF TypeOK
  <2>2. memory' = [r \in Slots |-> memory'[r]]
    BY <1>3
  <2>3. [memory EXCEPT ![s] = s] = [r \in Slots |-> [memory EXCEPT ![s] = s][r]]
    BY DEF TypeOK
  <2> QED
    BY <2>1, <2>2, <2>3, Zenon
<1>7. processes' = [processes EXCEPT ![s] =
                     [active |-> TRUE, pid |-> s, parent_pid |-> parent,
                      args |-> Copied(processes[s].args, a)]]
  BY DEF Load
<1>8. /\ latest_pid' = [latest_pid EXCEPT ![t] = s]
      /\ pid' = s /\ tss' = s /\ mode' = "user" /\ runner' = s
      /\ given' = [given EXCEPT ![s] = a] /\ started' = started \cup {s}
      /\ vidmapped' = vidmapped \ {s}
      /\ tidy' = (tidy /\ ~video_mapping_page[0].p)
      /\ UNCHANGED <<spoiled, orderly>>
  BY DEF Load
<1> QED
  BY <1>1, <1>3, <1>6, <1>7, <1>8 DEF Loaded

Saved == [stack : Slots \cup {Gone}, to : Slots]

LEMMA OverwrittenTyped ==
  ASSUME NEW frames \in [Slots -> Saved], NEW s \in Slots
  PROVE  Overwritten(frames, s) \in [Slots -> Saved]
<1>1. \A r \in Slots : [frames[r] EXCEPT !.stack = Gone] \in Saved
  BY DEF Saved
<1> QED
  BY <1>1 DEF Overwritten

LEMMA LoadSaved ==
  ASSUME TypeOK, NEW t, NEW s \in Slots, NEW parent, NEW a,
         NEW stack \in Slots \cup {Gone}, Load(t, s, parent, a, stack)
  PROVE  saved' \in [Slots -> Saved]
<1> DEFINE f == [saved EXCEPT ![s] = [stack |-> stack, to |-> runner]]
<1>1. [stack |-> stack, to |-> runner] \in Saved
  BY DEF TypeOK, Saved
<1>2. f \in [Slots -> Saved]
  BY <1>1 DEF TypeOK, Saved
<1>3. saved' = Overwritten(f, s)
  BY DEF Load
<1> HIDE DEF f
<1> QED
  BY <1>2, <1>3, OverwrittenTyped

LEMMA LoadTyped ==
  ASSUME TypeOK, NEW t \in Terms, NEW s \in Slots,
         NEW parent \in Slots \cup {NoParent}, NEW a \in Text,
         NEW stack \in Slots \cup {Gone}, Load(t, s, parent, a, stack),
         cur_terminal' \in Terms, visited' \subseteq Terms,
         UNCHANGED video_mapping_page
  PROVE  TypeOK'
<1>0. Loaded(t, s, parent, a)
  BY Loads
<1>1. Entry(TRUE, TRUE, Own(s)) \in Entries
  BY EntryTyped, OwnFrame
<1>2. page_dir' \in Directories
  BY <1>1, <1>0 DEF Loaded, TypeOK, Directories
<1>3. Mapping(32, 0, Entry(TRUE, TRUE, Own(s))) \in Mappings
  BY <1>1, MappingTyped
<1>4. tlb' \subseteq Mappings
  BY <1>0, <1>3 DEF Loaded
<1>5. [active |-> TRUE, pid |-> s, parent_pid |-> parent,
       args |-> Copied(processes[s].args, a)] \in Processes
  BY CopiedTyped DEF TypeOK, Processes
<1>6. processes' \in [Slots -> Processes]
  BY <1>5, <1>0 DEF Loaded, TypeOK
<1>7. saved' \in [Slots -> [stack : Slots \cup {Gone}, to : Slots]]
  BY LoadSaved DEF Saved
<1>8. /\ latest_pid' \in [Terms -> Slots] /\ pid' \in Slots
      /\ tss' \in Slots /\ runner' \in Slots /\ mode' = "user"
  BY <1>0 DEF Loaded, TypeOK
<1>9. memory' \in [Slots -> Slots \cup {-1}]
  BY <1>0 DEF Loaded, TypeOK
<1>10. given' \in [Slots -> Text] /\ started' \subseteq Slots
  BY <1>0 DEF Loaded, TypeOK
<1>11. /\ vidmapped' \subseteq Slots /\ spoiled' \subseteq Slots
       /\ tidy' \in BOOLEAN /\ orderly' \in BOOLEAN
  BY <1>0 DEF Loaded, TypeOK
<1>12. video_mapping_page' \in VideoTables
  BY DEF TypeOK
<1> QED
  BY <1>2, <1>4, <1>6, <1>7, <1>8, <1>9, <1>10, <1>11, <1>12 DEF TypeOK

\* Halt, of the program pid names, down to the memory, which it leaves.
Halted(parent) ==
  /\ pid \in Slots /\ parent \in Slots
  /\ processes' = [processes EXCEPT ![pid].active = FALSE, ![pid].args = <<>>,
                                    ![parent].active = TRUE]
  /\ latest_pid' = [latest_pid EXCEPT ![cur_terminal] = parent]
  /\ page_dir' = [page_dir EXCEPT ![32] = Entry(TRUE, TRUE, Own(parent)),
                                  ![0] = Entry(TRUE, FALSE, Table(0))]
  /\ pid' = parent /\ tss' = parent /\ runner' = saved[pid].to
  /\ orderly' = (orderly /\ pid = runner /\ saved[pid].to = parent)
  /\ video_mapping_page' = Unmapped(video_mapping_page)
  /\ tlb' = {}
  /\ started' = started \ {pid}
  /\ vidmapped' = vidmapped \ {pid}
  /\ spoiled' = spoiled \ {pid}
  /\ tidy' = (tidy /\ (video_mapping_page[0].p => cur_terminal = 0))
  /\ mode = "user"
  /\ UNCHANGED <<cur_terminal, visited, mode, memory, given>>

LEMMA Halts ==
  ASSUME TypeOK, Halt
  PROVE  /\ Halted(processes[pid].parent_pid)
         /\ saved' = Overwritten([saved EXCEPT ![pid].stack = Gone],
                                 processes[pid].parent_pid)
<1>1. mode = "user" /\ pid \in Slots /\ processes[pid].parent_pid # NoParent
  BY DEF Halt, Ending, Returning, TypeOK
<1>2. processes[pid].parent_pid \in Slots
  BY <1>1 DEF TypeOK, Processes
<1> QED
  BY <1>1, <1>2 DEF Halt, Halted, Args, Flush, MapProgram

LEMMA UnmappedTyped ==
  ASSUME NEW video \in VideoTables, cur_terminal \in Terms
  PROVE  Unmapped(video) \in VideoTables
<1>1. (IF cur_terminal = 0 THEN Screen ELSE Own(4 * cur_terminal - 2)) \in Frames
  BY OwnFrame, OtherFrames
<1>2. Entry(FALSE, TRUE,
            IF cur_terminal = 0 THEN Screen ELSE Own(4 * cur_terminal - 2))
        \in Entries
  BY <1>1, EntryTyped
<1> QED
  BY <1>2 DEF Unmapped, VideoTables

LEMMA EndedTyped ==
  ASSUME NEW r \in Processes, NEW x \in Text
  PROVE  [r EXCEPT !.active = FALSE, !.args = x] \in Processes
<1>1. \A b \in BOOLEAN : [r EXCEPT !.active = b, !.args = x] \in Processes
  BY DEF Processes
<1> QED
  BY <1>1

LEMMA WokenTyped ==
  ASSUME NEW r \in Processes
  PROVE  [r EXCEPT !.active = TRUE] \in Processes
<1>1. \A b \in BOOLEAN : [r EXCEPT !.active = b] \in Processes
  BY DEF Processes
<1> QED
  BY <1>1

LEMMA HaltTyped ==
  ASSUME TypeOK, Halt
  PROVE  TypeOK'
<1> DEFINE parent == processes[pid].parent_pid
<1>1. /\ Halted(parent)
      /\ saved' = Overwritten([saved EXCEPT ![pid].stack = Gone], parent)
  BY Halts
<1> HIDE DEF parent
<1>2. pid \in Slots /\ parent \in Slots
  BY <1>1 DEF Halted
<1>3. processes' \in [Slots -> Processes]
  <2> DEFINE p == [processes[pid] EXCEPT !.active = FALSE, !.args = <<>>]
             f == [processes EXCEPT ![pid] = p]
             q == [f[parent] EXCEPT !.active = TRUE]
  <2>1. p \in Processes
    <3>1. processes[pid] \in Processes
      BY <1>2 DEF TypeOK
    <3> QED
      BY <3>1, EmptyText, EndedTyped
  <2>2. processes' = [f EXCEPT ![parent] = q]
    BY <1>1, <1>2 DEF Halted, TypeOK
  <2> HIDE DEF p
  <2>3. f \in [Slots -> Processes]
    BY <1>2, <2>1 DEF TypeOK
  <2> HIDE DEF f
  <2>4. q \in Processes
    <3>1. f[parent] \in Processes
      BY <1>2, <2>3
    <3> QED
      BY <3>1, WokenTyped
  <2> HIDE DEF q
  <2> QED
    BY <1>2, <2>2, <2>3, <2>4
<1>4. page_dir' \in Directories
  <2>1. /\ Entry(TRUE, TRUE, Own(parent)) \in Entries
        /\ Entry(TRUE, FALSE, Table(0)) \in Entries
    BY <1>2, EntryTyped, OwnFrame, OtherFrames
  <2> QED
    BY <1>1, <2>1 DEF Halted, TypeOK, Directories
<1>5. video_mapping_page' \in VideoTables
  BY <1>1, UnmappedTyped DEF Halted, TypeOK
<1>6. saved' \in [Slots -> [stack : Slots \cup {Gone}, to : Slots]]
  <2> DEFINE f == [saved EXCEPT ![pid].stack = Gone]
  <2>1. f \in [Slots -> Saved]
    BY <1>2 DEF TypeOK, Saved
  <2> HIDE DEF f
  <2>2. saved' \in [Slots -> Saved]
    BY <1>1, <1>2, <2>1, OverwrittenTyped DEF f
  <2> QED
    BY <2>2 DEF Saved
<1>7. /\ latest_pid' \in [Terms -> Slots] /\ pid' \in Slots
      /\ tss' \in Slots
  BY <1>1 DEF Halted, TypeOK
<1>8. runner' \in Slots
  BY <1>1, <1>2 DEF Halted, TypeOK
<1>9. /\ tlb' \subseteq Mappings
      /\ vidmapped' \subseteq Slots /\ spoiled' \subseteq Slots
      /\ started' \subseteq Slots /\ mode' \in {"boot", "user", "lost"}
      /\ cur_terminal' \in Terms /\ visited' \subseteq Terms
      /\ memory' \in [Slots -> Slots \cup {-1}] /\ given' \in [Slots -> Text]
  BY <1>1 DEF Halted, TypeOK
<1>10. tidy' \in BOOLEAN /\ orderly' \in BOOLEAN
  <2>1. /\ tidy' = (tidy /\ (video_mapping_page[0].p => cur_terminal = 0))
        /\ orderly' = (orderly /\ pid = runner /\ saved[pid].to = parent)
    BY <1>1 DEF Halted
  <2> QED
    BY <2>1, Zenon
<1> QED
  BY <1>3, <1>4, <1>5, <1>6, <1>7, <1>8, <1>9, <1>10 DEF TypeOK

LEMMA InitTyped ==
  ASSUME Init
  PROVE  TypeOK
<1>1. [s \in Slots |-> [active |-> FALSE, pid |-> 0, parent_pid |-> 0,
                        args |-> <<>>]] \in [Slots -> Processes]
  BY Zero, EmptyText DEF Processes
<1>2. [s \in Slots |-> [stack |-> Gone, to |-> 0]]
        \in [Slots -> [stack : Slots \cup {Gone}, to : Slots]]
  BY Zero
<1>3. [s \in Slots |-> <<>>] \in [Slots -> Text]
  BY EmptyText
<1> QED
  BY <1>1, <1>2, <1>3, Zero, TablesTyped DEF Init, TypeOK

\* Every execution of a program but the first of a visited terminal's.
LEMMA Starts ==
  ASSUME TypeOK, NEW s \in Slots,
         Boot(s) \/ HaltBase(s) \/ \E a \in Arguments : Execute(s, a)
  PROVE  \E a \in Text, stack \in Slots \cup {Gone} :
           /\ Load(cur_terminal, s, pid, a, stack)
           /\ Len(a) <= BufSize
           /\ FirstFree(s)
           /\ UNCHANGED <<cur_terminal, visited, video_mapping_page>>
<1>0. <<>> \in Text /\ Len(<<>>) <= BufSize /\ tss \in Slots
  BY EmptyText DEF TypeOK, BufSize
<1>1. CASE Boot(s)
  BY <1>0, <1>1 DEF Boot
<1>2. CASE HaltBase(s)
  BY <1>0, <1>2 DEF HaltBase
<1>3. CASE \E a \in Arguments : Execute(s, a)
  BY <1>0, <1>3, ArgumentText DEF Execute
<1> QED
  BY <1>1, <1>2, <1>3

LEMMA NextTyped ==
  ASSUME TypeOK, [Next]_vars
  PROVE  TypeOK'
<1>1. ASSUME NEW s \in Slots,
             Boot(s) \/ HaltBase(s) \/ \E a \in Arguments : Execute(s, a)
      PROVE  TypeOK'
  <2>1. PICK a \in Text, stack \in Slots \cup {Gone} :
           /\ Load(cur_terminal, s, pid, a, stack)
           /\ UNCHANGED <<cur_terminal, visited, video_mapping_page>>
    BY <1>1, Starts
  <2>2. /\ cur_terminal \in Terms /\ pid \in Slots \cup {NoParent}
        /\ cur_terminal' \in Terms /\ visited' \subseteq Terms
    BY <2>1 DEF TypeOK
  <2> QED
    BY <2>1, <2>2, LoadTyped
<1>3. ASSUME NEW s \in Slots, NEW a \in Arguments, ExecuteData(s, a)
      PROVE TypeOK'
  <2> DEFINE c == Copied(processes[s].args, a)
             p == [processes[s] EXCEPT !.args = c]
  <2>1. c \in Text
    BY CopiedTyped, ArgumentText DEF TypeOK, Processes
  <2>2. processes' = [processes EXCEPT ![s] = p]
    BY <1>3 DEF ExecuteData, TypeOK
  <2> HIDE DEF c
  <2>3. p \in Processes
    BY <2>1 DEF TypeOK, Processes
  <2> HIDE DEF p
  <2>4. processes' \in [Slots -> Processes]
    BY <2>2, <2>3 DEF TypeOK
  <2>5. spoiled' \subseteq Slots /\ pid' \in Slots
    BY <1>3 DEF ExecuteData, TypeOK
  <2> QED
    BY <1>3, <2>4, <2>5 DEF ExecuteData, TypeOK, terms, tables, control
<1>4. CASE Halt
  BY <1>4, HaltTyped
<1>5. CASE HaltLost
  BY <1>5 DEF HaltLost, TypeOK, terms, tables, history
<1>6. CASE Vidmap
  <2>1. Entry(TRUE, TRUE, Screen) \in Entries
    BY EntryTyped, OtherFrames
  <2>2. video_mapping_page' \in VideoTables
    BY <1>6, <2>1 DEF Vidmap, TypeOK, VideoTables
  <2>3. tlb' \subseteq Mappings
    BY <1>6 DEF Vidmap, Flush
  <2>4. vidmapped' \subseteq Slots
    BY <1>6 DEF Vidmap, TypeOK
  <2> QED
    BY <1>6, <2>2, <2>3, <2>4 DEF Vidmap, TypeOK, terms, control
<1>7. ASSUME NEW t \in Terms, SwitchTerminal(t) PROVE TypeOK'
  <2>1. cur_terminal' \in Terms /\ visited' \subseteq Terms
    BY <1>7 DEF SwitchTerminal, TypeOK
  <2>2. UNCHANGED video_mapping_page /\ latest_pid[t] \in Slots /\ tss \in Slots
    BY <1>7 DEF SwitchTerminal, TypeOK
  <2>3. CASE t \in visited \/ Free = {}
    <3>1. /\ pid' = latest_pid[t]
          /\ UNCHANGED <<latest_pid, processes, control, page_dir, tlb, memory,
                         history>>
      BY <1>7, <2>3 DEF SwitchTerminal
    <3> QED
      BY <2>1, <2>2, <3>1 DEF TypeOK, history, control
  <2>4. CASE ~(t \in visited \/ Free = {})
    <3>1. PICK s \in Slots : Load(t, s, latest_pid[t], <<>>, tss)
      BY <1>7, <2>4 DEF SwitchTerminal
    <3> QED
      BY <2>1, <2>2, <3>1, LoadTyped, EmptyText
  <2> QED
    BY <2>3, <2>4
<1>8. CASE Touch
  <2>1. Reachable \subseteq Mappings
    BY ReachableTyped DEF TypeOK
  <2>2. tlb' \subseteq Mappings
    BY <1>8, <2>1 DEF Touch, TypeOK
  <2> QED
    BY <1>8, <2>2 DEF Touch, TypeOK, terms, tables, control, history
<1>9. CASE UNCHANGED vars
  BY <1>9 DEF vars, TypeOK, terms, tables, control, history
<1> QED
  BY <1>1, <1>3, <1>4, <1>5, <1>6, <1>7, <1>8, <1>9 DEF Next

\* Type correctness, for any number of PCBs and terminals, and whichever program
\* pid names at a halt: page tables and translations name frames that exist.
THEOREM Typed == Spec => []TypeOK
<1>1. Init => TypeOK
  BY InitTyped
<1>2. TypeOK /\ [Next]_vars => TypeOK'
  BY NextTyped
<1> QED
  BY <1>1, <1>2, PTL DEF Spec

-----------------------------------------------------------------------------
\* For programs the tables hold the memory of one of them, that of the one that
\* runs while halt returns in order, and perhaps the screen in entry 0; and the
\* processor keeps nothing that they do not hold.
Tables ==
  /\ ~page_dir[0].us /\ ~page_dir[1].us /\ ForUser(page_dir[33])
  /\ mode = "user" => \E s \in Slots :
       /\ page_dir[32] = Entry(TRUE, TRUE, Own(s))
       /\ orderly => s = runner
  /\ \A i \in Terms \cup {SCREEN_ENTRY} :
       ForUser(video_mapping_page[i]) =>
         i = 0 /\ video_mapping_page[i].frame = Screen

Cached == tlb \subseteq Reachable

LEMMA EntryBits ==
  ASSUME NEW f, NEW b \in BOOLEAN
  PROVE  /\ ForUser(Entry(TRUE, TRUE, f)) /\ Entry(TRUE, TRUE, f).p
         /\ ~Entry(b, FALSE, f).us /\ ~ForUser(Entry(b, FALSE, f))
         /\ ~Entry(FALSE, b, f).p /\ ~ForUser(Entry(FALSE, b, f))
         /\ \A p, us \in BOOLEAN : Entry(p, us, f).frame = f
BY DEF Entry, ForUser

LEMMA TablesInit ==
  ASSUME Init
  PROVE  Tables /\ Cached
<1>1. page_dir = InitDirectory /\ video_mapping_page = InitVideo
  BY DEF Init
<1>2. /\ page_dir[0] = Entry(TRUE, FALSE, Table(0))
      /\ page_dir[1] = Entry(TRUE, FALSE, Kernel)
      /\ page_dir[33] = Entry(TRUE, TRUE, Table(33))
  BY <1>1 DEF InitDirectory
<1>3. \A i \in Terms \cup {SCREEN_ENTRY} : ~ForUser(video_mapping_page[i])
  BY <1>1, EntryBits DEF InitVideo
<1>4. ~page_dir[0].us /\ ~page_dir[1].us /\ ForUser(page_dir[33])
  <2>1. TRUE \in BOOLEAN
    OBVIOUS
  <2> QED
    BY <1>2, <2>1, EntryBits
<1>5. mode = "boot" /\ tlb = {}
  BY DEF Init
<1> QED
  BY <1>3, <1>4, <1>5 DEF Tables, Cached

LEMMA LoadTables ==
  ASSUME TypeOK, Tables, NEW t, NEW s \in Slots, NEW parent, NEW a,
         Loaded(t, s, parent, a), UNCHANGED video_mapping_page
  PROVE  Tables' /\ Cached'
<1> DEFINE e == Entry(TRUE, TRUE, Own(s))
<1>1. /\ page_dir'[32] = e
      /\ \A d \in {0, 1, 33} : page_dir'[d] = page_dir[d]
  BY DEF Loaded, TypeOK, Directories
<1>2. runner' = s
  BY DEF Loaded
<1>3. tlb' = {Mapping(32, 0, e)}
  BY DEF Loaded
<1>4. ForUser(e)
  BY EntryBits
<1> HIDE DEF e
<1>5. Cached'
  BY <1>1, <1>3, <1>4 DEF Cached, Reachable
<1>6. Tables'
  BY <1>1, <1>2 DEF Tables, ForUser, e
<1> QED
  BY <1>5, <1>6

LEMMA HaltTables ==
  ASSUME TypeOK, Tables, Halt
  PROVE  Tables' /\ Cached'
<1>0. PICK parent : parent = processes[pid].parent_pid
  OBVIOUS
<1>1. Halted(parent)
  BY <1>0, Halts
<1>2. parent \in Slots
  BY <1>1 DEF Halted
<1>3. orderly' => parent = runner'
  BY <1>1 DEF Halted
<1>4. /\ page_dir'[32] = Entry(TRUE, TRUE, Own(parent))
      /\ page_dir'[0] = Entry(TRUE, FALSE, Table(0))
      /\ page_dir'[1] = page_dir[1] /\ page_dir'[33] = page_dir[33]
  <2> DEFINE e == Entry(TRUE, TRUE, Own(parent))
             z == Entry(TRUE, FALSE, Table(0))
  <2>1. page_dir' = [page_dir EXCEPT ![32] = e, ![0] = z]
    BY <1>1 DEF Halted
  <2> HIDE DEF e, z
  <2>2. /\ page_dir'[32] = e /\ page_dir'[0] = z
        /\ page_dir'[1] = page_dir[1] /\ page_dir'[33] = page_dir[33]
    BY <2>1 DEF TypeOK, Directories
  <2> QED
    BY <2>2 DEF e, z
<1>5. \A i \in Terms \cup {SCREEN_ENTRY} :
        \/ video_mapping_page'[i] = video_mapping_page[i]
        \/ ~ForUser(video_mapping_page'[i])
  BY <1>1, EntryBits DEF Halted, Unmapped, TypeOK, VideoTables
<1>6. Tables'
  <2>1. ~page_dir'[0].us
    <3>1. TRUE \in BOOLEAN
      OBVIOUS
    <3> QED
      BY <1>4, <3>1, EntryBits
  <2>2. ~page_dir'[1].us /\ ForUser(page_dir'[33])
    BY <1>4 DEF Tables
  <2>3. \A i \in Terms \cup {SCREEN_ENTRY} :
          ForUser(video_mapping_page'[i]) =>
            i = 0 /\ video_mapping_page'[i].frame = Screen
    BY <1>5 DEF Tables
  <2> QED
    BY <1>2, <1>3, <1>4, <2>1, <2>2, <2>3 DEF Tables
<1>7. Cached'
  BY <1>1 DEF Halted, Cached
<1> QED
  BY <1>6, <1>7

LEMMA TablesKept ==
  ASSUME TypeOK, Tables, Cached, [Next]_vars
  PROVE  Tables' /\ Cached'
<1>1. ASSUME NEW s \in Slots,
             Boot(s) \/ HaltBase(s) \/ \E a \in Arguments : Execute(s, a)
      PROVE  Tables' /\ Cached'
  <2>1. PICK a \in Text, stack \in Slots \cup {Gone} :
           /\ Load(cur_terminal, s, pid, a, stack)
           /\ UNCHANGED <<cur_terminal, visited, video_mapping_page>>
    BY <1>1, Starts
  <2>2. Loaded(cur_terminal, s, pid, a)
    BY <2>1, Loads DEF TypeOK
  <2> QED
    BY <2>1, <2>2, LoadTables
<1>2. ASSUME UNCHANGED <<page_dir, video_mapping_page, runner, orderly>>,
             mode' = "user" => mode = "user", Cached'
      PROVE  Tables' /\ Cached'
  BY <1>2 DEF Tables
<1>3. ASSUME UNCHANGED <<page_dir, video_mapping_page, tlb>> PROVE Cached'
  BY <1>3 DEF Cached, Reachable
<1>4. ASSUME NEW s \in Slots, NEW a \in Arguments, ExecuteData(s, a)
      PROVE Tables' /\ Cached'
  BY <1>2, <1>3, <1>4 DEF ExecuteData, tables, control
<1>5. CASE Halt
  BY <1>5, HaltTables
<1>6. CASE HaltLost
  BY <1>2, <1>3, <1>6 DEF HaltLost, tables, history
<1>7. CASE Vidmap
  <2>1. /\ video_mapping_page'[0] = Entry(TRUE, TRUE, Screen)
        /\ \A i \in (Terms \cup {SCREEN_ENTRY}) \ {0} :
             video_mapping_page'[i] = video_mapping_page[i]
    BY <1>7, Zero DEF Vidmap, TypeOK, VideoTables
  <2>2. UNCHANGED <<page_dir, mode, runner, orderly>> /\ tlb' = {}
    BY <1>7 DEF Vidmap, Flush, control
  <2>3. video_mapping_page'[0].frame = Screen
    BY <2>1, EntryBits
  <2>4. \A i \in Terms \cup {SCREEN_ENTRY} :
          ForUser(video_mapping_page'[i]) =>
            i = 0 /\ video_mapping_page'[i].frame = Screen
    BY <2>1, <2>3 DEF Tables
  <2> QED
    BY <2>2, <2>4 DEF Tables, Cached
<1>8. ASSUME NEW t \in Terms, SwitchTerminal(t) PROVE Tables' /\ Cached'
  <2>1. CASE t \in visited \/ Free = {}
    <3>1. UNCHANGED <<control, page_dir, video_mapping_page, tlb, history>>
      BY <1>8, <2>1 DEF SwitchTerminal
    <3> QED
      BY <1>2, <1>3, <3>1 DEF control, history
  <2>2. CASE ~(t \in visited \/ Free = {})
    <3>1. PICK s \in Slots : Load(t, s, latest_pid[t], <<>>, tss)
      BY <1>8, <2>2 DEF SwitchTerminal
    <3>2. Loaded(t, s, latest_pid[t], <<>>)
      BY <3>1, Loads, EmptyText DEF TypeOK
    <3> QED
      BY <1>8, <3>2, LoadTables DEF SwitchTerminal
  <2> QED
    BY <2>1, <2>2
<1>9. CASE Touch
  <2>1. UNCHANGED <<page_dir, video_mapping_page, mode, runner, orderly>>
    BY <1>9 DEF Touch, tables, control, history
  <2>2. tlb' \subseteq Reachable
    BY <1>9 DEF Touch, Cached
  <2>3. Reachable' = Reachable
    BY <2>1 DEF Reachable
  <2> QED
    BY <1>2, <2>1, <2>2, <2>3 DEF Cached
<1>10. CASE UNCHANGED vars
  BY <1>2, <1>3, <1>10 DEF vars, tables, control, history
<1> QED
  BY <1>1, <1>4, <1>5, <1>6, <1>7, <1>8, <1>9, <1>10 DEF Next

\* What is reachable, exactly: the memory of one program and perhaps the screen.
LEMMA Reaches ==
  ASSUME TypeOK, Tables, mode = "user"
  PROVE  \E s \in Slots :
           /\ orderly => s = runner
           /\ \A m : m \in Reachable <=>
                \/ m = MemoryOf(s)
                \/ m = OnScreen /\ ForUser(video_mapping_page[0])
<1>1. PICK s \in Slots : /\ page_dir[32] = Entry(TRUE, TRUE, Own(s))
                         /\ orderly => s = runner
  BY DEF Tables
<1>2. /\ ~ForUser(page_dir[0]) /\ ~ForUser(page_dir[1])
      /\ ForUser(page_dir[33]) /\ ForUser(page_dir[32])
  <2>1. ~ForUser(page_dir[0]) /\ ~ForUser(page_dir[1]) /\ ForUser(page_dir[33])
    BY DEF Tables, ForUser
  <2>2. ForUser(page_dir[32])
    BY <1>1, EntryBits
  <2> QED
    BY <2>1, <2>2
<1>3. DOMAIN video_mapping_page = Terms \cup {SCREEN_ENTRY} /\ 0 \in Terms
  BY Zero DEF TypeOK, VideoTables
<1>4. \A i \in Terms \cup {SCREEN_ENTRY} :
        ForUser(video_mapping_page[i]) => i = 0
  BY DEF Tables
<1>5. Mapping(32, 0, page_dir[32]) = MemoryOf(s)
  <2>1. page_dir[32].frame = Own(s)
    BY <1>1, EntryBits
  <2> QED
    BY <2>1 DEF Mapping, MemoryOf
<1>6. ForUser(video_mapping_page[0]) =>
        Mapping(33, 0, video_mapping_page[0]) = OnScreen
  BY <1>3 DEF Tables, Mapping, OnScreen
<1>7. ASSUME NEW m
      PROVE  m \in Reachable <=>
               \/ m = MemoryOf(s)
               \/ m = OnScreen /\ ForUser(video_mapping_page[0])
  <2>1. m \in Reachable <=>
          \/ m = Mapping(32, 0, page_dir[32])
          \/ m = Mapping(33, 0, video_mapping_page[0])
               /\ ForUser(video_mapping_page[0])
    BY <1>2, <1>3, <1>4 DEF Reachable
  <2> QED
    BY <1>5, <1>6, <2>1
<1> QED
  BY <1>1, <1>7

LEMMA IsolatedHere ==
  ASSUME TypeOK, Tables, Cached
  PROVE  Isolated
<1> SUFFICES ASSUME mode = "user" PROVE Isolated
  BY DEF Isolated
<1>1. PICK s \in Slots :
        /\ orderly => s = runner
        /\ \A m : m \in Reachable <=>
             \/ m = MemoryOf(s)
             \/ m = OnScreen /\ ForUser(video_mapping_page[0])
  BY Reaches
<1>2. MemoryOf(s) \in Reachable
  BY <1>1
<1>3. Reachable \subseteq {MemoryOf(s), OnScreen}
  BY <1>1
<1> QED
  BY <1>1, <1>2, <1>3 DEF Isolated, Cached

\* A running program reaches the memory of one program, perhaps the screen, and
\* nothing else, through the tables or the TLB, wherever Alt+Fn and failing
\* executes move pid; and this is its own memory, as long as halt has ended no
\* program but the one that called it and returned to that one's parent.
THEOREM Isolates == Spec => []Isolated
<1> DEFINE Inv == TypeOK /\ Tables /\ Cached
<1>1. Init => Inv
  BY InitTyped, TablesInit
<1>2. Inv /\ [Next]_vars => Inv'
  BY NextTyped, TablesKept
<1>3. Inv => Isolated
  BY IsolatedHere
<1> QED
  BY <1>1, <1>2, <1>3, PTL DEF Spec

-----------------------------------------------------------------------------
\* A PCB holds the arguments of the program that has started in it, or none,
\* except where a file that is no executable has left some; and memory what was
\* loaded for it.
Active(s) == processes[s].active

Texts ==
  \A s \in Slots :
    /\ s \in started => Active(s) /\ memory[s] = s
    /\ s \notin spoiled =>
         processes[s].args = IF s \in started THEN given[s] ELSE <<>>
    /\ Len(given[s]) <= BufSize

LEMMA CopiedWhole ==
  ASSUME NEW a \in Text
  PROVE  Copied(<<>>, a) = a
<1>1. a \in Seq({"a", "b"}) /\ Len(a) \in Nat
  BY DEF Text
<1>2. SubSeq(<<>>, Len(a) + 1, 0) = <<>>
  BY <1>1
<1>3. a \o <<>> = a
  BY <1>1
<1> QED
  BY <1>2, <1>3 DEF Copied

LEMMA TextsInit ==
  ASSUME Init
  PROVE  Texts
BY DEF Init, Texts, Active, BufSize

LEMMA LoadTexts ==
  ASSUME TypeOK, Texts, NEW t, NEW s \in Slots, NEW parent, NEW a \in Text,
         Len(a) <= BufSize, ~Active(s), Loaded(t, s, parent, a)
  PROVE  Texts'
<1>1. /\ processes'[s].active = TRUE
      /\ processes'[s].args = Copied(processes[s].args, a)
      /\ \A r \in Slots \ {s} : processes'[r] = processes[r]
  BY DEF Loaded, TypeOK
<1>2. s \notin spoiled => processes'[s].args = a
  BY <1>1, CopiedWhole DEF Texts
<1>3. /\ memory'[s] = s /\ given'[s] = a /\ spoiled' = spoiled
      /\ started' = started \cup {s}
      /\ \A r \in Slots \ {s} : memory'[r] = memory[r] /\ given'[r] = given[r]
  BY DEF Loaded, TypeOK
<1> QED
  BY <1>1, <1>2, <1>3 DEF Texts, Active

\* Also when the program that ends is its own parent.
LEMMA HaltPCBs ==
  ASSUME TypeOK, NEW parent \in Slots, Halted(parent)
  PROVE  /\ processes'[pid].args = <<>>
         /\ \A r \in Slots \ {pid} : /\ processes'[r].args = processes[r].args
                                     /\ Active(r) => processes'[r].active
<1> DEFINE p == [processes[pid] EXCEPT !.active = FALSE, !.args = <<>>]
           f == [processes EXCEPT ![pid] = p]
           q == [f[parent] EXCEPT !.active = TRUE]
<1>1. pid \in Slots
  BY DEF Halted
<1>2. processes' = [f EXCEPT ![parent] = q]
  BY <1>1 DEF Halted, TypeOK
<1>3. processes[pid] \in Processes
  BY <1>1 DEF TypeOK
<1>4. p \in Processes
  BY <1>3, EmptyText, EndedTyped
<1>5. p.args = <<>>
  BY <1>3 DEF Processes
<1> HIDE DEF p
<1>6. /\ f \in [Slots -> Processes] /\ f[pid] = p
      /\ \A r \in Slots \ {pid} : f[r] = processes[r]
  BY <1>1, <1>4 DEF TypeOK
<1> HIDE DEF f
<1>7. q.active = TRUE /\ q.args = f[parent].args
  BY <1>6 DEF Processes
<1> HIDE DEF q
<1>8. /\ processes'[parent] = q
      /\ \A r \in Slots \ {parent} : processes'[r] = f[r]
  BY <1>2, <1>6
<1> QED
  BY <1>1, <1>5, <1>6, <1>7, <1>8 DEF Active

LEMMA HaltTexts ==
  ASSUME TypeOK, Texts, Halt
  PROVE  Texts'
<1>1. PICK parent : Halted(parent)
  BY Halts
<1>2. pid \in Slots /\ parent \in Slots
  BY <1>1 DEF Halted
<1>3. /\ processes'[pid].args = <<>>
      /\ \A r \in Slots \ {pid} : /\ processes'[r].args = processes[r].args
                                  /\ Active(r) => processes'[r].active
  BY <1>1, <1>2, HaltPCBs
<1>4. /\ UNCHANGED <<memory, given>> /\ spoiled' = spoiled \ {pid}
      /\ started' = started \ {pid}
  BY <1>1 DEF Halted
<1> QED
  BY <1>3, <1>4 DEF Texts, Active

LEMMA TextsKept ==
  ASSUME TypeOK, Texts, [Next]_vars
  PROVE  Texts'
<1>0. Len(<<>>) <= BufSize /\ <<>> \in Text
  BY EmptyText DEF BufSize
<1>1. ASSUME NEW s \in Slots,
             Boot(s) \/ HaltBase(s) \/ \E a \in Arguments : Execute(s, a)
      PROVE  Texts'
  <2>1. PICK a \in Text, stack \in Slots \cup {Gone} :
           /\ Load(cur_terminal, s, pid, a, stack)
           /\ Len(a) <= BufSize
           /\ FirstFree(s)
    BY <1>1, Starts
  <2>2. Loaded(cur_terminal, s, pid, a) /\ ~Active(s)
    BY <2>1, Loads DEF TypeOK, FirstFree, Free, Active
  <2> QED
    BY <2>1, <2>2, LoadTexts
<1>2. ASSUME UNCHANGED <<processes, memory, given, started, spoiled>>
      PROVE  Texts'
  BY <1>2 DEF Texts, Active
<1>3. ASSUME NEW s \in Slots, NEW a \in Arguments, ExecuteData(s, a)
      PROVE Texts'
  <2> DEFINE p == [processes[s] EXCEPT !.args = Copied(processes[s].args, a)]
  <2>1. processes' = [processes EXCEPT ![s] = p]
    BY <1>3 DEF ExecuteData, TypeOK
  <2>2. p.active = processes[s].active /\ p.args = Copied(processes[s].args, a)
    BY DEF TypeOK, Processes
  <2> HIDE DEF p
  <2>3. /\ processes'[s].active = processes[s].active
        /\ processes'[s].args = Copied(processes[s].args, a)
        /\ \A r \in Slots \ {s} : processes'[r] = processes[r]
    BY <2>1, <2>2 DEF TypeOK
  <2>4. UNCHANGED <<memory, given, started>> /\ ~Active(s)
    BY <1>3 DEF ExecuteData, FirstFree, Free, Active
  <2>5. s \notin started
    BY <2>4 DEF Texts
  <2>6. CASE a = <<>>
    <3>1. spoiled' = spoiled
      BY <1>3, <2>6 DEF ExecuteData
    <3>2. s \notin spoiled => processes'[s].args = <<>>
      BY <1>0, <2>3, <2>5, <2>6, CopiedWhole DEF Texts
    <3> QED
      BY <2>3, <2>4, <2>5, <3>1, <3>2 DEF Texts, Active
  <2>7. CASE a # <<>>
    <3>1. spoiled' = spoiled \cup {s}
      BY <1>3, <2>7 DEF ExecuteData
    <3> QED
      BY <2>3, <2>4, <2>5, <3>1 DEF Texts, Active
  <2> QED
    BY <2>6, <2>7
<1>4. CASE Halt
  BY <1>4, HaltTexts
<1>5. CASE HaltLost \/ Vidmap
  BY <1>2, <1>5 DEF HaltLost, Vidmap, history
<1>6. ASSUME NEW t \in Terms, SwitchTerminal(t) PROVE Texts'
  <2>1. CASE t \in visited \/ Free = {}
    BY <1>2, <1>6, <2>1 DEF SwitchTerminal, history
  <2>2. CASE ~(t \in visited \/ Free = {})
    <3>1. PICK s \in Slots : /\ FirstFree(s)
                             /\ Load(t, s, latest_pid[t], <<>>, tss)
      BY <1>6, <2>2 DEF SwitchTerminal
    <3>2. Loaded(t, s, latest_pid[t], <<>>)
      BY <3>1, Loads, EmptyText DEF TypeOK
    <3>3. ~Active(s)
      BY <3>1 DEF FirstFree, Free, Active
    <3> QED
      BY <1>0, <3>2, <3>3, LoadTexts
  <2> QED
    BY <2>1, <2>2
<1>7. CASE Touch
  BY <1>2, <1>7 DEF Touch, history
<1>8. CASE UNCHANGED vars
  BY <1>2, <1>8 DEF vars, history
<1> QED
  BY <1>1, <1>3, <1>4, <1>5, <1>6, <1>7, <1>8 DEF Next

LEMMA ProvidedHere ==
  ASSUME TypeOK, Texts
  PROVE  Provided
<1> SUFFICES ASSUME NEW s \in started
             PROVE  /\ memory[s] = s
                    /\ pid = s /\ s \notin spoiled =>
                         getargs(BufSize) = given[s]
  BY DEF Provided
<1>1. s \in Slots
  BY DEF TypeOK
<1>2. memory[s] = s /\ Len(given[s]) <= BufSize
      /\ (s \notin spoiled => processes[s].args = given[s])
  BY <1>1 DEF Texts
<1>3. given[s] \in Seq({"a", "b"})
  BY <1>1 DEF TypeOK, Text
<1>4. SubSeq(given[s], 1, IF BufSize < Len(given[s]) THEN BufSize
                                                     ELSE Len(given[s]))
        = given[s]
  <2>1. Len(given[s]) \in Nat /\ ~(BufSize < Len(given[s]))
    BY <1>2, <1>3 DEF BufSize
  <2>2. SubSeq(given[s], 1, Len(given[s])) = given[s]
    BY <1>3
  <2> QED
    BY <2>1, <2>2
<1> QED
  BY <1>2, <1>4 DEF getargs

\* A program that has started finds its image in memory and, while pid names
\* it, gets the arguments of its own command, whichever PCB it has and whoever
\* had it before, unless a file that was no executable has left arguments.
THEOREM Provides == Spec => []Provided
<1> DEFINE Inv == TypeOK /\ Texts
<1>1. Init => Inv
  BY InitTyped, TextsInit
<1>2. Inv /\ [Next]_vars => Inv'
  BY NextTyped, TextsKept
<1>3. Inv => Provided
  BY ProvidedHere
<1> QED
  BY <1>1, <1>2, <1>3, PTL DEF Spec

-----------------------------------------------------------------------------
\* While all is tidy and in order, entry 0 is there for the program that runs,
\* which has called vidmap, or it is not there and nobody has.
Shown ==
  orderly /\ tidy =>
    /\ ~video_mapping_page[0].p => vidmapped = {}
    /\ video_mapping_page[0].p => /\ ForUser(video_mapping_page[0])
                                  /\ vidmapped = {runner}

LEMMA ShownInit ==
  ASSUME Init
  PROVE  Shown
<1>1. video_mapping_page[0] = Entry(FALSE, FALSE, Kernel) /\ vidmapped = {}
  BY Zero DEF Init, InitVideo, SCREEN_ENTRY
<1>2. FALSE \in BOOLEAN
  OBVIOUS
<1> QED
  BY <1>1, <1>2, EntryBits DEF Shown

LEMMA LoadShown ==
  ASSUME TypeOK, Shown, NEW t, NEW s, NEW parent, NEW a,
         Loaded(t, s, parent, a), UNCHANGED video_mapping_page
  PROVE  Shown'
<1>1. /\ tidy' => tidy /\ ~video_mapping_page[0].p
      /\ vidmapped' = vidmapped \ {s} /\ orderly' = orderly
  BY DEF Loaded, TypeOK
<1> QED
  BY <1>1 DEF Shown

LEMMA HaltShown ==
  ASSUME TypeOK, Shown, Halt
  PROVE  Shown'
<1> SUFFICES ASSUME tidy', orderly' PROVE Shown'
  BY DEF Shown
<1>1. PICK parent : Halted(parent)
  BY Halts
<1>2. /\ tidy /\ orderly /\ pid = runner /\ cur_terminal \in Terms
      /\ video_mapping_page[0].p => cur_terminal = 0
      /\ vidmapped' = vidmapped \ {pid}
  BY <1>1 DEF Halted, TypeOK
<1>3. /\ video_mapping_page'[cur_terminal].p = FALSE
      /\ \A i \in Terms \ {cur_terminal} :
           video_mapping_page'[i] = video_mapping_page[i]
  <2> DEFINE e == Entry(FALSE, TRUE, IF cur_terminal = 0
                                     THEN Screen ELSE Own(4 * cur_terminal - 2))
  <2>1. video_mapping_page' = [video_mapping_page EXCEPT ![cur_terminal] = e]
    BY <1>1 DEF Halted, Unmapped
  <2>2. e.p = FALSE
    BY DEF Entry
  <2> HIDE DEF e
  <2> QED
    BY <1>2, <2>1, <2>2 DEF TypeOK, VideoTables
<1>4. vidmapped' = {}
  BY <1>2 DEF Shown
<1>5. ~video_mapping_page'[0].p
  BY <1>2, <1>3, Zero
<1> QED
  BY <1>4, <1>5 DEF Shown

LEMMA VidmapShown ==
  ASSUME TypeOK, Shown, Vidmap
  PROVE  Shown'
<1>1. /\ vidmapped' = vidmapped \cup {runner}
      /\ UNCHANGED <<runner, tidy, orderly>>
  BY DEF Vidmap, control
<1>2. ForUser(video_mapping_page'[0]) /\ video_mapping_page'[0].p
  <2>1. video_mapping_page'[0] = Entry(TRUE, TRUE, Screen)
    BY Zero DEF Vidmap, TypeOK, VideoTables
  <2> QED
    BY <2>1, EntryBits
<1> QED
  BY <1>1, <1>2 DEF Shown

LEMMA ShownKept ==
  ASSUME TypeOK, Shown, [Next]_vars
  PROVE  Shown'
<1>1. ASSUME NEW s \in Slots,
             Boot(s) \/ HaltBase(s) \/ \E a \in Arguments : Execute(s, a)
      PROVE  Shown'
  <2>1. PICK a \in Text, stack \in Slots \cup {Gone} :
           /\ Load(cur_terminal, s, pid, a, stack)
           /\ UNCHANGED <<cur_terminal, visited, video_mapping_page>>
    BY <1>1, Starts
  <2>2. Loaded(cur_terminal, s, pid, a)
    BY <2>1, Loads DEF TypeOK
  <2> QED
    BY <2>1, <2>2, LoadShown
<1>2. ASSUME UNCHANGED <<video_mapping_page, runner, vidmapped, tidy, orderly>>
      PROVE  Shown'
  BY <1>2 DEF Shown
<1>3. ASSUME NEW s \in Slots, NEW a \in Arguments, ExecuteData(s, a)
      PROVE Shown'
  BY <1>2, <1>3 DEF ExecuteData, tables, control
<1>4. CASE Halt
  BY <1>4, HaltShown
<1>5. CASE Vidmap
  BY <1>5, VidmapShown
<1>6. ASSUME NEW t \in Terms, SwitchTerminal(t) PROVE Shown'
  <2>1. CASE t \in visited \/ Free = {}
    <3>1. UNCHANGED <<control, video_mapping_page, history>>
      BY <1>6, <2>1 DEF SwitchTerminal
    <3> QED
      BY <1>2, <3>1 DEF control, history
  <2>2. CASE ~(t \in visited \/ Free = {})
    <3>1. PICK s \in Slots : Load(t, s, latest_pid[t], <<>>, tss)
      BY <1>6, <2>2 DEF SwitchTerminal
    <3>2. Loaded(t, s, latest_pid[t], <<>>)
      BY <3>1, Loads, EmptyText DEF TypeOK
    <3> QED
      BY <1>6, <3>2, LoadShown DEF SwitchTerminal
  <2> QED
    BY <2>1, <2>2
<1>7. CASE Touch \/ HaltLost
  BY <1>2, <1>7 DEF Touch, HaltLost, tables, control, history
<1>8. CASE UNCHANGED vars
  BY <1>2, <1>8 DEF vars, tables, control, history
<1> QED
  BY <1>1, <1>3, <1>4, <1>5, <1>6, <1>7, <1>8 DEF Next

LEMMA ScreenOwnedHere ==
  ASSUME TypeOK, Tables, Shown
  PROVE  ScreenOwned
<1> SUFFICES ASSUME mode = "user", orderly, tidy
             PROVE  runner \in vidmapped <=> OnScreen \in Reachable
  BY DEF ScreenOwned
<1>1. runner \in vidmapped <=> ForUser(video_mapping_page[0])
  BY DEF Shown, ForUser
<1>2. \A s : MemoryOf(s) # OnScreen
  BY DEF MemoryOf, OnScreen
<1>3. OnScreen \in Reachable <=> ForUser(video_mapping_page[0])
  BY <1>2, Reaches
<1> QED
  BY <1>1, <1>3

\* As long as a program that has called vidmap ends before anything else is
\* started and while terminal 0 is shown, and halt returns in order, the program
\* that runs reaches the screen just when it has called vidmap.
THEOREM OwnsScreen == Spec => []ScreenOwned
<1> DEFINE Inv == TypeOK /\ Tables /\ Cached /\ Shown
<1>1. Init => Inv
  BY InitTyped, TablesInit, ShownInit
<1>2. Inv /\ [Next]_vars => Inv'
  BY NextTyped, TablesKept, ShownKept
<1>3. Inv => ScreenOwned
  BY ScreenOwnedHere
<1> QED
  BY <1>1, <1>2, <1>3, PTL DEF Spec
=============================================================================
