----------------------- MODULE FileDescriptors_proofs -----------------------
(***************************************************************************)
(* Theorems about FileDescriptors, for every number of processes and       *)
(* descriptors, every length of file.                                      *)
(***************************************************************************)
EXTENDS FileDescriptors, TLAPS

-----------------------------------------------------------------------------
\* The numbers in the model.
LEMMA Ranges ==
  /\ 0 \in Slots /\ Slots \subseteq Nat
  /\ Fds \subseteq Nat /\ Files \subseteq Fds
  /\ 0 \in Fds /\ 1 \in Fds /\ 2 \in Files
  BY ConstantsAssumption DEF Slots, Fds, Files

\* The records that descriptors are set to.
LEMMA Records ==
  /\ Zero \in Descriptor
  /\ \A k \in Kinds : Fresh(k) \in Descriptor
  /\ \A d \in Descriptor : [d EXCEPT !.avail = TRUE] \in Descriptor
  /\ \A d \in Descriptor : [d EXCEPT !.pos = @ + 1] \in Descriptor
<1>1. Zero \in Descriptor
  BY DEF Zero, Descriptor, Kinds
<1>2. \A k \in Kinds : Fresh(k) \in Descriptor
  BY DEF Fresh, Descriptor
<1>3. \A d \in Descriptor : [d EXCEPT !.avail = TRUE] \in Descriptor
  BY DEF Descriptor
<1>4. \A d \in Descriptor : [d EXCEPT !.pos = @ + 1] \in Descriptor
  BY DEF Descriptor
<1>5. QED
  BY <1>1, <1>2, <1>3, <1>4

\* The arrays they are put in.
LEMMA Arrays ==
  ASSUME NEW a \in [Fds -> Descriptor]
  PROVE  Fill(a) \in [Fds -> Descriptor] /\ Empty(a) \in [Fds -> Descriptor]
<1>1. Fresh("stdin") \in Descriptor /\ Fresh("stdout") \in Descriptor
  BY Records DEF Kinds
<1>2. \A f \in Fds : [a[f] EXCEPT !.avail = TRUE] \in Descriptor
  BY Records
<1>3. QED
  BY <1>1, <1>2 DEF Fill, Empty

LEMMA TypeInit == Init => TypeOK
<1> SUFFICES ASSUME Init PROVE TypeOK
  OBVIOUS
<1>1. [f \in Fds |-> Zero] \in [Fds -> Descriptor]
  BY Records
<1>2. Fill([f \in Fds |-> Zero]) \in [Fds -> Descriptor]
  BY <1>1, Arrays
<1>3. fd_arr \in [Slots -> [Fds -> Descriptor]]
  BY <1>1, <1>2 DEF Init
<1>4. reply \in [op : Calls, fd : Int, res : Results]
  BY DEF Init, Said, Calls, Results
<1>5. QED
  BY <1>3, <1>4, Ranges DEF Init, TypeOK

\* One descriptor of the process pid names is set.
LEMMA SetOne ==
  ASSUME TypeOK, NEW f \in Fds, NEW d \in Descriptor,
         fd_arr' = [fd_arr EXCEPT ![pid][f] = d]
  PROVE  /\ fd_arr' \in [Slots -> [Fds -> Descriptor]]
         /\ \A p \in Slots, g \in Fds :
              fd_arr'[p][g] = IF p = pid /\ g = f THEN d ELSE fd_arr[p][g]
  BY DEF TypeOK

\* The array of one process is replaced.
LEMMA SetArray ==
  ASSUME TypeOK, NEW i \in Slots, NEW a \in [Fds -> Descriptor],
         fd_arr' = [fd_arr EXCEPT ![i] = a]
  PROVE  /\ fd_arr' \in [Slots -> [Fds -> Descriptor]]
         /\ \A p \in Slots : fd_arr'[p] = IF p = i THEN a ELSE fd_arr[p]
  BY DEF TypeOK

\* What each kind of step sets.
LEMMA OpenSets ==
  ASSUME TypeOK, NEW f \in Files, NEW k \in OpenKinds, Open(f, k)
  PROVE  /\ Fresh(k) \in Descriptor /\ f \in Fds
         /\ fd_arr' = [fd_arr EXCEPT ![pid][f] = Fresh(k)]
<1>1. k \in Kinds
  BY DEF Kinds
<1>2. QED
  BY <1>1, Records, Ranges DEF Open, Assign

LEMMA CloseSets ==
  ASSUME TypeOK, NEW f \in Files, Close(f)
  PROVE  LET d == [fd_arr[pid][f] EXCEPT !.avail = TRUE]
         IN  /\ d \in Descriptor /\ f \in Fds
             /\ fd_arr' = [fd_arr EXCEPT ![pid][f] = d]
<1>1. fd_arr[pid][f] \in Descriptor
  BY Ranges DEF TypeOK
<1>2. QED
  BY <1>1, Records, Ranges DEF Close

LEMMA ReadSets ==
  ASSUME TypeOK, NEW f \in Fds, Read(f), Advances(fd_arr[pid][f])
  PROVE  LET d == [fd_arr[pid][f] EXCEPT !.pos = @ + 1]
         IN  /\ d \in Descriptor
             /\ fd_arr' = [fd_arr EXCEPT ![pid][f] = d]
<1>1. fd_arr[pid][f] \in Descriptor
  BY DEF TypeOK
<1>2. QED
  BY <1>1, Records DEF Read

LEMMA Replies ==
  ASSUME NEW op \in Calls, NEW fd \in Int, NEW r \in Results
  PROVE  Said(op, fd, r) \in [op : Calls, fd : Int, res : Results]
  BY DEF Said

LEMMA TypeStep == TypeOK /\ [Next]_vars => TypeOK'
<1> SUFFICES ASSUME TypeOK, [Next]_vars PROVE TypeOK'
  OBVIOUS
<1>e. \A op \in Calls, r \in Results :
        Said(op, -1, r) \in [op : Calls, fd : Int, res : Results]
  BY DEF Said
<1>f. ASSUME NEW op \in Calls, Fails(op) PROVE TypeOK'
  BY <1>f, <1>e DEF Fails, TypeOK, Results
<1>b. tidy' \in BOOLEAN
  BY DEF Next, vars, TypeOK, OpenMissing, OpenFull, Open, Close, CloseFails,
         Read, ReadFails, Write, WriteFails, Execute, ExecuteData,
         ExecuteMissing, ExecuteFull, Halt, Fails
<1>c. strayed' \in BOOLEAN
  BY DEF Next, vars, TypeOK, OpenMissing, OpenFull, Open, Close, CloseFails,
         Read, ReadFails, Write, WriteFails, Execute, ExecuteData,
         ExecuteMissing, ExecuteFull, Halt, Fails
<1>n. Fds \subseteq Int /\ Files \subseteq Fds
  BY Ranges
<1>1. CASE OpenMissing \/ OpenFull \/ ExecuteMissing
  BY <1>1, <1>f DEF OpenMissing, OpenFull, ExecuteMissing, Calls
<1>0. CASE ExecuteFull
  BY <1>0, <1>e DEF ExecuteFull, TypeOK, Calls, Results
<1>2. ASSUME NEW f \in Args, CloseFails(f) \/ ReadFails(f) \/ WriteFails(f)
      PROVE  TypeOK'
  BY <1>2, <1>f DEF CloseFails, ReadFails, WriteFails, Calls
<1>3. ASSUME NEW f \in Files, NEW k \in OpenKinds, Open(f, k) PROVE TypeOK'
  <2>1. fd_arr' \in [Slots -> [Fds -> Descriptor]]
    BY <1>3, OpenSets, SetOne
  <2>2. fd_ind' \in Files
    BY <1>3 DEF Open, IndexAfterOpen
  <2>3. reply' \in [op : Calls, fd : Int, res : Results]
    BY <1>3, <1>n, Replies DEF Open, Calls, Results
  <2>4. QED
    BY <1>3, <2>1, <2>2, <2>3 DEF Open, TypeOK
<1>4. ASSUME NEW f \in Files, Close(f) PROVE TypeOK'
  <2>1. fd_arr' \in [Slots -> [Fds -> Descriptor]]
    BY <1>4, CloseSets, SetOne
  <2>2. reply' \in [op : Calls, fd : Int, res : Results]
    BY <1>4, <1>n, Replies DEF Close, Calls, Results
  <2>3. QED
    BY <1>4, <1>b, <2>1, <2>2 DEF Close, TypeOK
<1>5. ASSUME NEW f \in Fds, Read(f) PROVE TypeOK'
  <2>1. ASSUME Advances(fd_arr[pid][f])
        PROVE  fd_arr' \in [Slots -> [Fds -> Descriptor]]
    BY <1>5, <2>1, ReadSets, SetOne
  <2>2. fd_arr' \in [Slots -> [Fds -> Descriptor]]
    BY <1>5, <2>1 DEF Read, TypeOK
  <2>3. fd_arr[pid][f].kind \in Kinds
    BY DEF TypeOK, Descriptor
  <2>4. ReadResults(fd_arr[pid][f]) \subseteq Results
    BY <2>3, ConstantsAssumption DEF ReadResults, Results, Kinds
  <2>5. reply' \in [op : Calls, fd : Int, res : Results]
    BY <1>5, <1>n, <2>4, Replies DEF Read, Calls
  <2>6. QED
    BY <1>5, <2>2, <2>5 DEF Read, TypeOK
<1>6. ASSUME NEW f \in Fds, Write(f) PROVE TypeOK'
  <2>1. fd_arr[pid][f].kind \in Kinds
    BY DEF TypeOK, Descriptor
  <2>2. WriteResults(fd_arr[pid][f]) \subseteq Results
    BY <2>1, ConstantsAssumption DEF WriteResults, Results, Kinds
  <2>3. reply' \in [op : Calls, fd : Int, res : Results]
    BY <1>6, <1>n, <2>2, Replies DEF Write, Calls
  <2>4. QED
    BY <1>6, <2>3 DEF Write, TypeOK
<1>7. ASSUME NEW i \in Slots, Execute(i) PROVE TypeOK'
  <2>1. Fill(fd_arr[i]) \in [Fds -> Descriptor]
    BY Arrays DEF TypeOK
  <2>2. fd_arr' \in [Slots -> [Fds -> Descriptor]]
    BY <1>7, <2>1, SetArray DEF Execute
  <2>3. reply' \in [op : Calls, fd : Int, res : Results]
    BY <1>7, <1>e DEF Execute, Calls, Results
  <2>4. QED
    BY <1>7, <1>b, <2>2, <2>3 DEF Execute, TypeOK
<1>8. ASSUME NEW i \in Slots, ExecuteData(i) PROVE TypeOK'
  <2>1. reply' \in [op : Calls, fd : Int, res : Results]
    BY <1>8, <1>e DEF ExecuteData, Calls, Results
  <2>2. QED
    BY <1>8, <1>c, <2>1 DEF ExecuteData, TypeOK
<1>9. CASE Halt
  <2>1. Empty(fd_arr[pid]) \in [Fds -> Descriptor]
    BY Arrays DEF TypeOK
  <2>2. fd_arr' \in [Slots -> [Fds -> Descriptor]]
    BY <1>9, <2>1, SetArray DEF Halt, TypeOK
  <2>3. reply' \in [op : Calls, fd : Int, res : Results]
    BY <1>9, <1>e DEF Halt, Calls, Results
  <2>4. QED
    BY <1>9, <2>2, <2>3 DEF Halt, StillActive, TypeOK
<1>10. CASE UNCHANGED vars
  BY <1>10 DEF vars, TypeOK
<1>11. QED
  BY <1>0, <1>1, <1>2, <1>3, <1>4, <1>5, <1>6, <1>7, <1>8, <1>9, <1>10
     DEF Next

\* TypeOK is an invariant: fd_ind always names a descriptor that open may
\* return.
THEOREM Typing == Spec => []TypeOK
  BY TypeInit, TypeStep, PTL DEF Spec

-----------------------------------------------------------------------------
\* The steps that leave the tree of processes alone.
Quiet == UNCHANGED <<pid, active, parent_pid, strayed>>

LEMMA Shape ==
  ASSUME [Next]_vars
  PROVE  \/ Quiet
         \/ \E i \in Slots : Execute(i) \/ ExecuteData(i)
         \/ Halt
  BY DEF Next, Quiet, vars, OpenMissing, OpenFull, Open, Close, CloseFails,
         Read, ReadFails, Write, WriteFails, ExecuteMissing, ExecuteFull, Fails

LEMMA NestedStep == TypeOK /\ Nested /\ [Next]_vars => Nested'
<1> SUFFICES ASSUME TypeOK, Nested, [Next]_vars PROVE Nested'
  OBVIOUS
<1> USE ConstantsAssumption
<1>0. PICK m \in Slots :
        /\ active = 0 .. m
        /\ pid \in {m, m + 1}
        /\ \A p \in 1 .. m : parent_pid[p] \in {p - 1, p}
        /\ ~strayed => pid = m /\ \A p \in 1 .. m : parent_pid[p] = p - 1
  BY DEF Nested
<1>m. m \in Nat /\ m < NumProcs
  BY DEF Slots
<1>1. CASE Quiet
  BY <1>0, <1>1 DEF Quiet, Nested
<1>s. ASSUME NEW i \in Slots, FreeSlot(i) PROVE i = m + 1
  BY <1>0, <1>m, <1>s DEF FreeSlot, Slots
<1>2. ASSUME NEW i \in Slots, Execute(i) PROVE Nested'
  <2>1. i = m + 1 /\ active' = 0 .. i /\ pid' = i /\ UNCHANGED strayed
    BY <1>0, <1>2, <1>m, <1>s DEF Execute
  <2>2. /\ parent_pid' \in [Slots -> Slots]
        /\ \A p \in Slots : parent_pid'[p] = IF p = i THEN pid
                                             ELSE parent_pid[p]
    BY <1>2 DEF Execute, TypeOK
  <2>3. \A p \in 1 .. i : p \in Slots /\ (p = i \/ p \in 1 .. m)
    BY <1>m, <2>1 DEF Slots
  <2>4. /\ \A p \in 1 .. i : parent_pid'[p] \in {p - 1, p}
        /\ ~strayed => \A p \in 1 .. i : parent_pid'[p] = p - 1
    BY <1>0, <1>m, <2>1, <2>2, <2>3
  <2>5. QED
    BY <2>1, <2>4 DEF Nested
<1>3. ASSUME NEW i \in Slots, ExecuteData(i) PROVE Nested'
  <2>1. i = m + 1 /\ pid' = i /\ strayed' /\ UNCHANGED <<active, parent_pid>>
    BY <1>3, <1>s DEF ExecuteData
  <2>2. QED
    BY <1>0, <2>1 DEF Nested
<1>4. CASE Halt
  <2>1. /\ pid = m /\ m # 0 /\ pid' = parent_pid[m]
        /\ active' = (active \ {m}) \cup {parent_pid[m]}
        /\ UNCHANGED <<parent_pid, strayed>>
    BY <1>0, <1>m, <1>4 DEF Halt, StillActive
  <2>2. CASE parent_pid[m] = m
    <3>1. active' = 0 .. m /\ pid' = m
      BY <1>0, <1>m, <2>1, <2>2
    <3>2. strayed
      BY <1>0, <1>m, <2>1, <2>2
    <3>3. QED
      BY <1>0, <2>1, <3>1, <3>2 DEF Nested
  <2>3. CASE parent_pid[m] = m - 1
    <3>1. active' = 0 .. m - 1 /\ pid' = m - 1 /\ m - 1 \in Slots
      BY <1>0, <1>m, <2>1, <2>3 DEF Slots
    <3>2. \A p \in 1 .. m - 1 : p \in 1 .. m
      BY <1>m
    <3>3. QED
      BY <1>0, <2>1, <3>1, <3>2 DEF Nested
  <2>4. QED
    BY <1>0, <1>m, <2>1, <2>2, <2>3
<1>5. QED
  BY <1>1, <1>2, <1>3, <1>4, Shape

\* The processes form a stack, whatever execute fails.
THEOREM Stack == Spec => []Nested
<1>1. Init => Nested
  BY Ranges DEF Init, Nested
<1>2. QED
  BY <1>1, NestedStep, Typing, PTL DEF Spec

-----------------------------------------------------------------------------
LEMMA TerminalStep ==
  TypeOK /\ Nested /\ ActiveReserved /\ [Next]_vars => ActiveReserved'
<1> SUFFICES ASSUME TypeOK, Nested, ActiveReserved, [Next]_vars
             PROVE  ActiveReserved'
  OBVIOUS
<1>n. /\ 0 \notin Files /\ 1 \notin Files /\ 0 \in Fds /\ 1 \in Fds
      /\ Files \subseteq Fds
  BY Ranges DEF Files
<1>a. active \subseteq Slots /\ pid \in Slots
  BY DEF TypeOK
<1>k. ASSUME UNCHANGED <<active, fd_arr>> PROVE ActiveReserved'
  BY <1>k DEF ActiveReserved
<1>o. ASSUME NEW f \in Files, NEW d \in Descriptor, UNCHANGED active,
             pid \in active => d.avail \/ d.kind \in OpenKinds,
             fd_arr' = [fd_arr EXCEPT ![pid][f] = d]
      PROVE  ActiveReserved'
  <2>1. \A p \in Slots, g \in Fds :
          fd_arr'[p][g] = IF p = pid /\ g = f THEN d ELSE fd_arr[p][g]
    BY <1>o, Ranges, SetOne
  <2>2. QED
    BY <1>a, <1>n, <1>o, <2>1 DEF ActiveReserved
<1>1. ASSUME NEW f \in Files, NEW k \in OpenKinds, Open(f, k)
      PROVE  ActiveReserved'
  <2> DEFINE d == Fresh(k)
  <2>1. d.kind \in OpenKinds
    BY DEF Fresh
  <2>2. d \in Descriptor /\ fd_arr' = [fd_arr EXCEPT ![pid][f] = d]
    BY <1>1, OpenSets
  <2> HIDE DEF d
  <2>3. QED
    BY <1>1, <1>o, <2>1, <2>2 DEF Open
<1>2. ASSUME NEW f \in Files, Close(f) PROVE ActiveReserved'
  <2> DEFINE d == [fd_arr[pid][f] EXCEPT !.avail = TRUE]
  <2>1. d \in Descriptor /\ fd_arr' = [fd_arr EXCEPT ![pid][f] = d]
    BY <1>2, CloseSets
  <2>2. d.avail
    BY <1>n, <1>a DEF TypeOK, Descriptor
  <2> HIDE DEF d
  <2>3. QED
    BY <1>2, <1>o, <2>1, <2>2 DEF Close
<1>3. ASSUME NEW f \in Fds, Read(f) PROVE ActiveReserved'
  <2>1. CASE ~Advances(fd_arr[pid][f])
    BY <1>3, <1>k, <2>1 DEF Read
  <2>2. CASE Advances(fd_arr[pid][f]) /\ f \in Files
    <3> DEFINE d == [fd_arr[pid][f] EXCEPT !.pos = @ + 1]
    <3>1. d \in Descriptor /\ fd_arr' = [fd_arr EXCEPT ![pid][f] = d]
      BY <1>3, <2>2, ReadSets
    <3>2. d.avail = fd_arr[pid][f].avail /\ d.kind = fd_arr[pid][f].kind
      BY <1>a DEF TypeOK, Descriptor
    <3> HIDE DEF d
    <3>3. pid \in active => d.avail \/ d.kind \in OpenKinds
      BY <2>2, <3>2 DEF ActiveReserved
    <3>4. QED
      BY <1>3, <1>o, <2>2, <3>1, <3>3 DEF Read
  <2>3. CASE Advances(fd_arr[pid][f]) /\ f \in {0, 1}
    <3>1. fd_arr[pid][f].kind \in {"dir", "file"}
      BY <2>3 DEF Advances
    <3>2. pid \notin active
      BY <2>3, <3>1 DEF ActiveReserved, Fresh
    <3>3. \A p \in Slots \ {pid} : fd_arr'[p] = fd_arr[p]
      BY <1>3 DEF Read, TypeOK
    <3>4. QED
      BY <1>3, <1>a, <3>2, <3>3 DEF Read, ActiveReserved
  <2>4. QED
    BY <2>1, <2>2, <2>3 DEF Files
<1>4. ASSUME NEW f \in Fds, Write(f) PROVE ActiveReserved'
  BY <1>4, <1>k DEF Write
<1>5. ASSUME NEW i \in Slots, Execute(i) PROVE ActiveReserved'
  <2>1. fd_arr[i] \in [Fds -> Descriptor] /\ i \notin active
    BY <1>5 DEF TypeOK, Execute, FreeSlot
  <2>2. Fill(fd_arr[i]) \in [Fds -> Descriptor]
    BY <2>1, Arrays
  <2>3. \A p \in Slots : fd_arr'[p] = IF p = i THEN Fill(fd_arr[i])
                                     ELSE fd_arr[p]
    BY <1>5, <2>2, SetArray DEF Execute
  <2>4. /\ Fill(fd_arr[i])[0] = Fresh("stdin")
        /\ Fill(fd_arr[i])[1] = Fresh("stdout")
        /\ \A f \in Files : Fill(fd_arr[i])[f].avail
    BY <1>n, <2>1 DEF Fill, Files, Descriptor
  <2>5. QED
    BY <1>5, <1>a, <2>3, <2>4 DEF Execute, ActiveReserved
<1>6. ASSUME NEW i \in Slots, ExecuteData(i) PROVE ActiveReserved'
  BY <1>6, <1>k DEF ExecuteData
<1>7. CASE Halt
  <2>1. active' \subseteq active
    <3>1. PICK m \in Slots : /\ active = 0 .. m /\ pid \in {m, m + 1}
                             /\ \A p \in 1 .. m : parent_pid[p] \in {p - 1, p}
      BY DEF Nested
    <3>2. m \in Nat /\ pid \in 1 .. m
      BY <1>7, <3>1, Ranges DEF Halt
    <3>3. parent_pid[pid] \in active
      BY <3>1, <3>2
    <3>4. QED
      BY <1>7, <3>3 DEF Halt, StillActive
  <2>2. Empty(fd_arr[pid]) \in [Fds -> Descriptor]
    BY Arrays DEF TypeOK
  <2>3. \A p \in Slots : fd_arr'[p] = IF p = pid THEN Empty(fd_arr[pid])
                                     ELSE fd_arr[p]
    BY <1>7, <1>a, <2>2, SetArray DEF Halt
  <2>4. /\ Empty(fd_arr[pid])[0] = fd_arr[pid][0]
        /\ Empty(fd_arr[pid])[1] = fd_arr[pid][1]
        /\ \A f \in Files : Empty(fd_arr[pid])[f].avail
    BY <1>n, <1>a DEF Empty, TypeOK, Descriptor
  <2>5. QED
    BY <1>a, <2>1, <2>3, <2>4 DEF ActiveReserved
<1>8. CASE OpenMissing \/ OpenFull \/ ExecuteMissing \/ ExecuteFull
  BY <1>8, <1>k DEF OpenMissing, OpenFull, ExecuteMissing, ExecuteFull, Fails
<1>9. ASSUME NEW f \in Args, CloseFails(f) \/ ReadFails(f) \/ WriteFails(f)
      PROVE  ActiveReserved'
  BY <1>9, <1>k DEF CloseFails, ReadFails, WriteFails, Fails
<1>10. CASE UNCHANGED vars
  BY <1>10, <1>k DEF vars
<1>11. QED
  BY <1>1, <1>2, <1>3, <1>4, <1>5, <1>6, <1>7, <1>8, <1>9, <1>10 DEF Next

\* Every active process has the terminal at descriptors 0 and 1, even after
\* an execute that failed late.
THEOREM Terminals == Spec => []ActiveReserved
<1>1. Init => ActiveReserved
  <2> SUFFICES ASSUME Init PROVE ActiveReserved
    OBVIOUS
  <2>1. fd_arr[0] = Fill([f \in Fds |-> Zero]) /\ active = {0}
    BY Ranges DEF Init
  <2>2. \A f \in Files : fd_arr[0][f].avail
    BY <2>1, Ranges DEF Fill, Files, Zero
  <2>3. fd_arr[0][0] = Fresh("stdin") /\ fd_arr[0][1] = Fresh("stdout")
    BY <2>1, Ranges DEF Fill
  <2>4. QED
    BY <2>1, <2>2, <2>3 DEF ActiveReserved
<1>2. QED
  BY <1>1, TerminalStep, Stack, Typing, PTL DEF Spec

\* Until then, the process system calls work on has it too.
THEOREM TerminalKept == Spec => []Reserved
<1>1. Nested /\ ActiveReserved => Reserved
  BY Ranges DEF Nested, ActiveReserved, Reserved
<1>2. QED
  BY <1>1, Stack, Terminals, PTL

-----------------------------------------------------------------------------
\* Until an execute fails late, pid names the newest process.
LEMMA Newborn ==
  ASSUME TypeOK, Nested, ~strayed
  PROVE  /\ pid \in Nat /\ active = 0 .. pid
         /\ \A i \in Slots : FreeSlot(i) => i = pid + 1
         /\ Halt => pid - 1 \in Slots /\ parent_pid[pid] = pid - 1
<1>1. PICK m \in Slots : /\ active = 0 .. m /\ pid = m
                         /\ \A p \in 1 .. m : parent_pid[p] = p - 1
  BY DEF Nested
<1>2. m \in Nat /\ Slots = 0 .. NumProcs - 1 /\ NumProcs \in Nat
  BY ConstantsAssumption DEF Slots
<1>3. \A i \in Slots : FreeSlot(i) => i = m + 1
  BY <1>1, <1>2 DEF FreeSlot
<1>4. Halt => m \in 1 .. m /\ m - 1 \in Slots
  BY <1>1, <1>2 DEF Halt
<1>5. QED
  BY <1>1, <1>2, <1>3, <1>4

LEMMA StackedStep ==
  ASSUME TypeOK, Nested, Stacked, [Next]_vars
  PROVE  Stacked'
<1> SUFFICES ASSUME tidy', ~strayed' PROVE Stacked'
  BY DEF Stacked
<1>t. tidy /\ ~strayed /\ \A f \in Files : Close(f) => Newest(f)
  <2>1. \A f \in Files : Close(f) => tidy' = (tidy /\ Newest(f))
    BY DEF Close
  <2>2. tidy' => tidy
    BY DEF Next, vars, OpenMissing, OpenFull, Open, Close, CloseFails, Read,
           ReadFails, Write, WriteFails, Execute, ExecuteData, ExecuteMissing,
           ExecuteFull, Halt, Fails
  <2>3. ~strayed
    BY DEF Next, vars, OpenMissing, OpenFull, Open, Close, CloseFails, Read,
           ReadFails, Write, WriteFails, Execute, ExecuteData, ExecuteMissing,
           ExecuteFull, Halt, Fails
  <2>4. QED
    BY <2>1, <2>2, <2>3
<1>x. \A i \in Slots : Execute(i) => \A f \in Files : Avail(f)
  <2>1. \A i \in Slots :
          Execute(i) => tidy' = (tidy /\ \A f \in Files : Avail(f))
    BY DEF Execute
  <2>2. QED
    BY <2>1
<1>n. Files \subseteq Fds /\ Files \subseteq Int
  BY Ranges
<1>p. pid \in Slots /\ pid \in Nat
  BY <1>t, Newborn DEF TypeOK
<1>d. \A p \in 0 .. pid : p \in Slots
  BY <1>p, ConstantsAssumption DEF Slots
<1>k. ASSUME \A p \in Slots, f \in Fds :
               fd_arr'[p][f].avail = fd_arr[p][f].avail,
             UNCHANGED <<pid, fd_ind, tidy, strayed>>
      PROVE  Stacked'
  BY <1>t, <1>k, <1>n, <1>p, <1>d DEF Stacked, Avail
<1>1. ASSUME NEW f \in Files, NEW k \in OpenKinds, Open(f, k) PROVE Stacked'
  <2>1. \A p \in Slots, g \in Fds :
          fd_arr'[p][g] = IF p = pid /\ g = f THEN Fresh(k) ELSE fd_arr[p][g]
    BY <1>1, OpenSets, SetOne
  <2>2. /\ Avail(f) /\ \A g \in Files : g < f => ~Avail(g)
        /\ fd_ind' = f /\ UNCHANGED pid
    BY <1>1 DEF Open, FirstFree, IndexAfterOpen
  <2>3. \A g \in Files : ~Avail(g) => g < f
    BY <1>t, <1>n, <2>2 DEF Stacked
  <2>4. \A g \in Files : Avail(g)' <=> (Avail(g) /\ g # f)
    BY <1>n, <1>p, <2>1, <2>2 DEF Avail, Fresh
  <2>5. \A p \in 0 .. pid - 1, g \in Files : fd_arr'[p][g].avail
    BY <1>t, <1>n, <1>p, <1>d, <2>1 DEF Stacked
  <2>6. QED
    BY <1>t, <1>n, <2>2, <2>3, <2>4, <2>5 DEF Stacked
<1>2. ASSUME NEW f \in Files, Close(f) PROVE Stacked'
  <2> DEFINE d == [fd_arr[pid][f] EXCEPT !.avail = TRUE]
  <2>0. d \in Descriptor /\ fd_arr' = [fd_arr EXCEPT ![pid][f] = d]
    BY <1>2, CloseSets
  <2>2. Newest(f) /\ ~Avail(f) /\ UNCHANGED <<pid, fd_ind>>
    BY <1>2, <1>t DEF Close
  <2>3. d.avail
    BY <1>n, <1>p DEF TypeOK, Descriptor
  <2> HIDE DEF d
  <2>1. \A p \in Slots, g \in Fds :
          fd_arr'[p][g] = IF p = pid /\ g = f THEN d ELSE fd_arr[p][g]
    BY <1>n, <2>0, SetOne
  <2>4. \A g \in Files : Avail(g)' <=> (Avail(g) \/ g = f)
    BY <1>n, <1>p, <2>1, <2>2, <2>3 DEF Avail
  <2>5. \A p \in 0 .. pid - 1, g \in Files : fd_arr'[p][g].avail
    BY <1>t, <1>n, <1>p, <1>d, <2>1 DEF Stacked
  <2>6. QED
    BY <1>t, <1>n, <2>2, <2>4, <2>5 DEF Stacked, Newest
<1>3. ASSUME NEW f \in Fds, Read(f) PROVE Stacked'
  <2>1. CASE ~Advances(fd_arr[pid][f])
    BY <1>3, <1>k, <2>1 DEF Read
  <2>2. CASE Advances(fd_arr[pid][f])
    <3> DEFINE d == [fd_arr[pid][f] EXCEPT !.pos = @ + 1]
    <3>1. \A p \in Slots, g \in Fds :
            fd_arr'[p][g] = IF p = pid /\ g = f THEN d ELSE fd_arr[p][g]
      BY <1>3, <2>2, ReadSets, SetOne
    <3>2. d.avail = fd_arr[pid][f].avail
      BY <1>p DEF TypeOK, Descriptor
    <3> HIDE DEF d
    <3>3. QED
      BY <1>t, <1>3, <1>k, <3>1, <3>2 DEF Read
  <2>3. QED
    BY <2>1, <2>2
<1>4. ASSUME NEW f \in Fds, Write(f) PROVE Stacked'
  BY <1>4, <1>k DEF Write
<1>5. ASSUME NEW i \in Slots, Execute(i) PROVE Stacked'
  <2>1. i = pid + 1 /\ pid' = i /\ UNCHANGED fd_ind
          /\ \A f \in Files : Avail(f)
    BY <1>t, <1>5, <1>x, Newborn DEF Execute
  <2>2. fd_arr[i] \in [Fds -> Descriptor]
    BY DEF TypeOK
  <2>3. \A p \in Slots : fd_arr'[p] = IF p = i THEN Fill(fd_arr[i])
                                     ELSE fd_arr[p]
    BY <1>5, <2>2, Arrays, SetArray DEF Execute
  <2>4. \A f \in Files : Fill(fd_arr[i])[f].avail
    BY <1>n, <2>2 DEF Fill, Files, Descriptor
  <2>5. \A p \in 0 .. pid, f \in Files : fd_arr'[p][f].avail
    <3>1. \A p \in 0 .. pid : p \in Slots /\ p # i
      BY <1>p, <1>d, <2>1
    <3>2. \A p \in 0 .. pid : p = pid \/ p \in 0 .. pid - 1
      BY <1>p
    <3>3. QED
      BY <1>t, <2>1, <2>3, <3>1, <3>2 DEF Stacked, Avail
  <2>6. \A f \in Files : Avail(f)'
    BY <2>1, <2>3, <2>4 DEF Avail
  <2>7. \A p \in 0 .. pid' - 1 : p \in 0 .. pid
    BY <1>p, <2>1
  <2>8. QED
    BY <1>t, <2>5, <2>6, <2>7 DEF Stacked
<1>6. ASSUME NEW i \in Slots, ExecuteData(i) PROVE Stacked'
  BY <1>6 DEF ExecuteData
<1>7. CASE Halt
  <2>1. pid' = pid - 1 /\ pid - 1 \in 0 .. pid - 1 /\ UNCHANGED fd_ind
    BY <1>t, <1>7, <1>p, Newborn, Ranges DEF Halt
  <2>2. fd_arr[pid] \in [Fds -> Descriptor]
    BY DEF TypeOK
  <2>3. \A p \in Slots : fd_arr'[p] = IF p = pid THEN Empty(fd_arr[pid])
                                     ELSE fd_arr[p]
    BY <1>7, <1>p, <2>2, Arrays, SetArray DEF Halt
  <2>4. \A p \in 0 .. pid - 1 : p \in Slots /\ p # pid
    BY <1>p, <1>d
  <2>5. \A p \in 0 .. pid - 1, f \in Files : fd_arr'[p][f].avail
    BY <1>t, <2>3, <2>4 DEF Stacked
  <2>6. \A p \in 0 .. pid' - 1 : p \in 0 .. pid - 1
    BY <1>p, <2>1
  <2>7. QED
    BY <1>t, <2>1, <2>5, <2>6 DEF Stacked, Avail
<1>8. CASE OpenMissing \/ OpenFull \/ ExecuteMissing \/ ExecuteFull
  BY <1>8, <1>k DEF OpenMissing, OpenFull, ExecuteMissing, ExecuteFull, Fails
<1>9. ASSUME NEW f \in Args, CloseFails(f) \/ ReadFails(f) \/ WriteFails(f)
      PROVE  Stacked'
  BY <1>9, <1>k DEF CloseFails, ReadFails, WriteFails, Fails
<1>10. CASE UNCHANGED vars
  BY <1>10, <1>k DEF vars
<1>11. QED
  BY <1>1, <1>2, <1>3, <1>4, <1>5, <1>6, <1>7, <1>8, <1>9, <1>10 DEF Next

\* Programs that have been tidy can read every descriptor they hold.
THEOREM Readable == Spec => [](OpenReadable /\ Stacked)
<1>1. Init => Stacked
  <2> SUFFICES ASSUME Init PROVE Stacked
    OBVIOUS
  <2>1. fd_arr[0] = Fill([f \in Fds |-> Zero]) /\ pid = 0
    BY Ranges DEF Init
  <2>2. \A f \in Files : fd_arr[0][f].avail
    BY <2>1, Ranges DEF Fill, Files, Zero
  <2>3. QED
    BY <2>1, <2>2 DEF Stacked, Avail
<1>2. TypeOK /\ Stacked => OpenReadable
  BY Ranges DEF TypeOK, Stacked, OpenReadable, ReadAccepts
<1>3. TypeOK /\ Nested /\ Stacked /\ [Next]_vars => Stacked'
  BY StackedStep
<1>4. QED
  BY <1>1, <1>2, <1>3, Stack, Typing, PTL DEF Spec

-----------------------------------------------------------------------------
\* One entry of the tables the programs see.
LEMMA Entry ==
  ASSUME NEW p \in Slots, NEW f \in Fds
  PROVE  Shown[p][f] = IF p \in active THEN View(fd_arr[p][f]) ELSE Table!Closed
  BY DEF Shown, Table!Closed

LEMMA EntryNext ==
  ASSUME NEW p \in Slots, NEW f \in Fds
  PROVE  Shown'[p][f] = IF p \in active' THEN View(fd_arr'[p][f])
                                         ELSE Table!Closed
  BY DEF Shown, View, Table!Closed

\* What a program holds is what is not available.
LEMMA HeldIs ==
  ASSUME TypeOK, pid \in active, NEW f \in Fds
  PROVE  /\ Table!Held(f) <=> ~Avail(f)
         /\ ~Avail(f) => Shown[pid][f] = [kind |-> fd_arr[pid][f].kind,
                                          pos |-> fd_arr[pid][f].pos]
<1>1. pid \in Slots
  BY DEF TypeOK
<1>2. Shown[pid][f] = View(fd_arr[pid][f])
  BY <1>1, Entry
<1>3. fd_arr[pid][f].kind # "closed"
  BY <1>1, ConstantsAssumption DEF TypeOK, Descriptor, Kinds
<1>4. QED
  BY <1>2, <1>3 DEF View, Avail, Table!Held, Table!Closed

\* Setting one descriptor sets one entry.
LEMMA ShownOne ==
  ASSUME TypeOK, pid \in active, NEW f \in Fds, NEW d \in Descriptor,
         fd_arr' = [fd_arr EXCEPT ![pid][f] = d], UNCHANGED active
  PROVE  Shown' = [Shown EXCEPT ![pid][f] = View(d)]
<1>1. \A p \in Slots, g \in Fds :
        Shown'[p][g] = IF p = pid /\ g = f THEN View(d) ELSE Shown[p][g]
  <2> SUFFICES ASSUME NEW p \in Slots, NEW g \in Fds
               PROVE  Shown'[p][g] = IF p = pid /\ g = f THEN View(d)
                                                        ELSE Shown[p][g]
    OBVIOUS
  <2>1. fd_arr'[p][g] = IF p = pid /\ g = f THEN d ELSE fd_arr[p][g]
    BY SetOne
  <2>2. Shown[p][g] = IF p \in active THEN View(fd_arr[p][g]) ELSE Table!Closed
    BY Entry
  <2>3. Shown'[p][g] = IF p \in active THEN View(fd_arr'[p][g])
                                       ELSE Table!Closed
    BY EntryNext
  <2>4. QED
    BY <2>1, <2>2, <2>3
<1>2. /\ Shown = [p \in Slots |-> [g \in Fds |-> Shown[p][g]]]
      /\ Shown' = [p \in Slots |-> [g \in Fds |-> Shown'[p][g]]]
  BY DEF Shown
<1>3. QED
  BY <1>1, <1>2

\* Replacing the array of a process replaces its table.
LEMMA ShownArray ==
  ASSUME NEW i \in Slots, NEW t,
         t = [f \in Fds |-> Shown'[i][f]],
         \A p \in Slots \ {i} : fd_arr'[p] = fd_arr[p]
                               /\ (p \in active' <=> p \in active)
  PROVE  Shown' = [Shown EXCEPT ![i] = t]
<1>1. \A p \in Slots \ {i}, g \in Fds : Shown'[p][g] = Shown[p][g]
  BY Entry, EntryNext
<1>2. /\ Shown = [p \in Slots |-> [g \in Fds |-> Shown[p][g]]]
      /\ Shown' = [p \in Slots |-> [g \in Fds |-> Shown'[p][g]]]
  BY DEF Shown
<1>3. QED
  BY <1>1, <1>2

LEMMA TableInit == Init => Table!Init
<1> SUFFICES ASSUME Init PROVE Table!Init
  OBVIOUS
<1>1. /\ pid = 0 /\ active = {0}
      /\ fd_arr[0] = Fill([f \in Fds |-> Zero])
      /\ reply = [op |-> "none", fd |-> -1, res |-> "fail"]
  BY Ranges DEF Init, Said
<1>2. \A f \in Fds : View(fd_arr[0][f]) = Table!Std[f]
  BY <1>1, Ranges DEF Fill, Zero, Fresh, View, Table!Std, Table!NoFiles,
                      Table!Opened, Table!Closed
<1>3. \A p \in Slots, f \in Fds :
        Shown[p][f] = (IF p = 0 THEN Table!Std ELSE Table!NoFiles)[f]
  BY <1>1, <1>2, Entry DEF Table!NoFiles
<1>4. Shown = [p \in Slots |-> [g \in Fds |-> Shown[p][g]]]
  BY DEF Shown
<1>5. /\ Table!Std = [f \in Fds |-> Table!Std[f]]
      /\ Table!NoFiles = [f \in Fds |-> Table!NoFiles[f]]
  BY DEF Table!Std, Table!NoFiles
<1>6. Shown = [p \in Slots |-> IF p = 0 THEN Table!Std ELSE Table!NoFiles]
  BY <1>3, <1>4, <1>5
<1>7. QED
  BY <1>1, <1>6 DEF Table!Init

\* Every step of a system call is a step of the tables or none.
LEMMA TableStep ==
  ASSUME TypeOK, Nested, ActiveReserved, [Next]_vars, ~strayed'
  PROVE  [Table!Next]_(Table!vars)
<1>z. ~strayed
  BY DEF Next, vars, OpenMissing, OpenFull, Open, Close, CloseFails, Read,
         ReadFails, Write, WriteFails, Execute, ExecuteData, ExecuteMissing,
         ExecuteFull, Halt, Fails
<1>n. /\ pid \in Slots /\ pid \in active /\ pid \in Nat /\ active = 0 .. pid
      /\ Files \subseteq Fds /\ Fds \subseteq Nat
  BY <1>z, Newborn, Ranges DEF TypeOK
<1>s. UNCHANGED <<active, fd_arr>> => UNCHANGED Shown
  BY DEF Shown
<1>f. ASSUME NEW op \in {"open", "close", "read", "write", "execute"},
             Fails(op)
      PROVE  Table!Refuse
  <2>1. reply' \in [op : {"open", "close", "read", "write", "execute"},
                    fd : {-1}, res : {"fail"}]
    BY <1>f DEF Fails, Said
  <2>2. QED
    BY <1>f, <1>s, <2>1 DEF Fails, Table!Refuse
<1>1. ASSUME NEW f \in Files, NEW k \in OpenKinds, Open(f, k)
      PROVE  Table!Open
  <2>1. /\ f \in Fds /\ Fresh(k) \in Descriptor
        /\ fd_arr' = [fd_arr EXCEPT ![pid][f] = Fresh(k)]
    BY <1>1, OpenSets
  <2>2. View(Fresh(k)) = Table!Opened(k)
    BY DEF View, Fresh, Table!Opened
  <2>9. Shown' = [Shown EXCEPT ![pid][f] = View(Fresh(k))]
    BY <1>1, <1>n, <2>1, ShownOne DEF Open
  <2>3. Shown' = [Shown EXCEPT ![pid][f] = Table!Opened(k)]
    BY <2>2, <2>9, Zenon
  <2>4. Avail(f) /\ \A g \in Files : g < f => ~Avail(g)
    BY <1>1 DEF Open, FirstFree
  <2>5. ~Table!Held(f)
    BY <1>n, <2>1, <2>4, HeldIs
  <2>6. \A g \in Fds : g < f => Table!Held(g)
    <3>1. \A g \in Fds : g < f => ~Avail(g)
      BY <1>n, <2>4 DEF Files, Avail, ActiveReserved, Fresh
    <3>2. QED
      BY <1>n, <3>1, HeldIs
  <2>7. reply' = [op |-> "open", fd |-> f, res |-> "zero"] /\ UNCHANGED pid
    BY <1>1 DEF Open, Said
  <2>8. QED
    BY <2>1, <2>3, <2>5, <2>6, <2>7 DEF Table!Open
<1>2. ASSUME NEW f \in Files, Close(f) PROVE Table!Close
  <2> DEFINE d == [fd_arr[pid][f] EXCEPT !.avail = TRUE]
  <2>1. /\ f \in Fds \ {0, 1} /\ d \in Descriptor
        /\ fd_arr' = [fd_arr EXCEPT ![pid][f] = d]
    BY <1>2, <1>n, CloseSets DEF Files
  <2>2. d.avail
    BY <1>n, <2>1 DEF TypeOK, Descriptor
  <2> HIDE DEF d
  <2>3. View(d) = Table!Closed
    BY <2>2 DEF View, Table!Closed
  <2>4. UNCHANGED active /\ ~Avail(f)
    BY <1>2 DEF Close
  <2>5. Shown' = [Shown EXCEPT ![pid][f] = Table!Closed]
    BY <1>n, <2>1, <2>3, <2>4, ShownOne
  <2>6. Table!Held(f)
    BY <1>n, <2>1, <2>4, HeldIs
  <2>7. reply' = [op |-> "close", fd |-> f, res |-> "zero"] /\ UNCHANGED pid
    BY <1>2 DEF Close, Said
  <2>8. QED
    BY <2>1, <2>5, <2>6, <2>7 DEF Table!Close
<1>r. ASSUME NEW f \in Fds, ~Avail(f)
      PROVE  /\ ReadResults(fd_arr[pid][f]) \subseteq {"fail", "zero", "data"}
             /\ WriteResults(fd_arr[pid][f]) \subseteq {"fail", "zero", "data"}
  <2>1. fd_arr[pid][f].kind \in Kinds \ {"none"}
    <3>1. CASE f \in Files
      BY <1>n, <1>r, <3>1, ConstantsAssumption
         DEF ActiveReserved, Avail, Kinds
    <3>2. CASE f \in {0, 1}
      BY <1>n, <3>2 DEF ActiveReserved, Fresh, Kinds
    <3>3. QED
      BY <3>1, <3>2 DEF Files
  <2>2. QED
    BY <2>1, ConstantsAssumption DEF ReadResults, WriteResults, Kinds
<1>3. ASSUME NEW f \in Fds, Read(f) PROVE Table!Read
  <2>1. ~Avail(f) /\ Table!Held(f)
    BY <1>3, <1>n, HeldIs DEF Read, ReadAccepts
  <2>2. \/ UNCHANGED Shown
        \/ Shown' = [Shown EXCEPT ![pid][f].pos = @ + 1]
    <3>1. CASE ~Advances(fd_arr[pid][f])
      BY <1>3, <1>s, <3>1 DEF Read
    <3>2. CASE Advances(fd_arr[pid][f])
      <4> DEFINE d == [fd_arr[pid][f] EXCEPT !.pos = @ + 1]
      <4>1. d \in Descriptor /\ fd_arr' = [fd_arr EXCEPT ![pid][f] = d]
        BY <1>3, <3>2, ReadSets
      <4>2. /\ d.avail = fd_arr[pid][f].avail /\ d.kind = fd_arr[pid][f].kind
            /\ d.pos = fd_arr[pid][f].pos + 1
        BY <1>n DEF TypeOK, Descriptor
      <4> HIDE DEF d
      <4>3. View(d) = [kind |-> fd_arr[pid][f].kind,
                       pos |-> fd_arr[pid][f].pos + 1]
        BY <2>1, <4>2 DEF View, Avail
      <4>4. Shown[pid][f] = [kind |-> fd_arr[pid][f].kind,
                             pos |-> fd_arr[pid][f].pos]
        BY <1>n, <2>1, HeldIs
      <4>5. View(d) = [Shown[pid][f] EXCEPT !.pos = @ + 1]
        BY <4>3, <4>4
      <4>6. Shown' = [Shown EXCEPT ![pid][f] = View(d)]
        BY <1>3, <1>n, <4>1, ShownOne DEF Read
      <4>7. Shown' = [Shown EXCEPT ![pid][f] =
                        [Shown[pid][f] EXCEPT !.pos = @ + 1]]
        BY <4>5, <4>6, Zenon
      <4>8. QED
        BY <1>n, <4>7 DEF Shown
    <3>3. QED
      BY <3>1, <3>2
  <2>3. \E r \in {"fail", "zero", "data"} :
          reply' = [op |-> "read", fd |-> f, res |-> r]
    BY <1>3, <1>r, <2>1 DEF Read, Said
  <2>4. QED
    BY <1>3, <2>1, <2>2, <2>3 DEF Read, Table!Read
<1>4. ASSUME NEW f \in Fds, Write(f) PROVE Table!Write
  <2>1. ~Avail(f) /\ Table!Held(f)
    BY <1>4, <1>n, HeldIs DEF Write, WriteAccepts
  <2>2. \E r \in {"fail", "zero", "data"} :
          reply' = [op |-> "write", fd |-> f, res |-> r]
    BY <1>4, <1>r, <2>1 DEF Write, Said
  <2>3. QED
    BY <1>4, <1>s, <2>1, <2>2 DEF Write, Table!Write
<1>5. ASSUME NEW i \in Slots, Execute(i) PROVE Table!Start
  <2>1. i = pid + 1 /\ pid' = i /\ active' = active \cup {i}
    BY <1>z, <1>5, Newborn DEF Execute
  <2>2. fd_arr[i] \in [Fds -> Descriptor]
    BY DEF TypeOK
  <2>3. \A p \in Slots : fd_arr'[p] = IF p = i THEN Fill(fd_arr[i])
                                     ELSE fd_arr[p]
    BY <1>5, <2>2, Arrays, SetArray DEF Execute
  <2>4. \A f \in Fds : View(Fill(fd_arr[i])[f]) = Table!Std[f]
    BY <2>2, Ranges DEF Fill, Fresh, View, Descriptor, Table!Std,
                        Table!NoFiles, Table!Opened, Table!Closed
  <2>5. Table!Std = [f \in Fds |-> Shown'[i][f]]
    <3>1. \A f \in Fds : Shown'[i][f] = Table!Std[f]
      BY <2>1, <2>3, <2>4, EntryNext
    <3>2. Table!Std = [f \in Fds |-> Table!Std[f]]
      BY DEF Table!Std, Table!NoFiles
    <3>3. QED
      BY <3>1, <3>2
  <2>6. Shown' = [Shown EXCEPT ![i] = Table!Std]
    BY <2>1, <2>3, <2>5, ShownArray
  <2>7. reply' = [op |-> "execute", fd |-> -1, res |-> "zero"]
    BY <1>5 DEF Execute, Said
  <2>8. QED
    BY <2>1, <2>6, <2>7 DEF Table!Start
<1>6. ASSUME NEW i \in Slots, ExecuteData(i) PROVE FALSE
  BY <1>6 DEF ExecuteData
<1>7. CASE Halt
  <2>1. pid' = pid - 1 /\ pid - 1 \in Slots
    BY <1>z, <1>7, Newborn DEF Halt
  <2>2. \A p \in Slots \ {pid} : p \in active' <=> p \in active
    BY <1>z, <1>7, <1>n, <2>1, Newborn DEF Halt, StillActive
  <2>3. pid \notin active'
    BY <1>z, <1>7, <1>n, Newborn DEF Halt, StillActive
  <2>4. Table!NoFiles = [f \in Fds |-> Shown'[pid][f]]
    BY <1>n, <2>3, EntryNext DEF Table!NoFiles
  <2>5. \A p \in Slots \ {pid} : fd_arr'[p] = fd_arr[p]
    BY <1>7 DEF Halt, TypeOK
  <2>6. Shown' = [Shown EXCEPT ![pid] = Table!NoFiles]
    BY <1>n, <2>2, <2>4, <2>5, ShownArray
  <2>7. reply' = [op |-> "halt", fd |-> -1, res |-> "zero"]
    BY <1>7 DEF Halt, Said
  <2>8. QED
    BY <2>1, <2>6, <2>7 DEF Table!End, Table!Next
<1>8. CASE OpenMissing \/ OpenFull \/ ExecuteMissing
  BY <1>8, <1>f DEF OpenMissing, OpenFull, ExecuteMissing, Table!Next
<1>0. CASE ExecuteFull
  <2>1. pid + 1 \notin Slots
    BY <1>0, <1>n DEF ExecuteFull
  <2>2. UNCHANGED <<pid, Shown>>
    BY <1>0, <1>s DEF ExecuteFull
  <2>3. reply' = [op |-> "execute", fd |-> -1, res |-> "zero"]
    BY <1>0 DEF ExecuteFull, Said
  <2>4. QED
    BY <2>1, <2>2, <2>3 DEF Table!Full, Table!Next
<1>9. ASSUME NEW f \in Args, CloseFails(f) \/ ReadFails(f) \/ WriteFails(f)
      PROVE  Table!Refuse
  BY <1>9, <1>f DEF CloseFails, ReadFails, WriteFails
<1>10. CASE UNCHANGED vars
  BY <1>10, <1>s DEF vars, Table!vars
<1>11. QED
  BY <1>0, <1>1, <1>2, <1>3, <1>4, <1>5, <1>6, <1>7, <1>8, <1>9, <1>10
     DEF Next, Table!Next

\* Until an execute fails late, the descriptors are what FdTable promises.
THEOREM Implements == Spec => TableSpec
<1>1. TypeOK /\ Nested /\ ActiveReserved /\ [Next]_vars
        => [strayed' \/ Table!Next]_(Table!vars)
  BY TableStep
<1>2. QED
  BY <1>1, TableInit, Typing, Stack, Terminals, PTL DEF Spec, TableSpec
=============================================================================
