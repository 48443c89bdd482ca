------------------------------ MODULE FdTable ------------------------------
(***************************************************************************)
(* What open, close, read and write promise to a program: it has a table   *)
(* of descriptors of its own, with the terminal at 0 and 1.  Open gives it *)
(* the lowest descriptor it does not hold, at the start of the file; only  *)
(* its own reads move its descriptors; nothing is read or written through  *)
(* a descriptor it does not hold; a program it starts gets a table of its  *)
(* own, which disappears when that program ends.                           *)
(***************************************************************************)
EXTENDS Integers

CONSTANTS Slots, Fds, OpenKinds

VARIABLES
  top,     \* the running program, the newest
  files,   \* the table of each program
  reply    \* the last call, the descriptor it was about, what it returned

vars == <<top, files, reply>>

Closed == [kind |-> "closed", pos |-> 0]
Opened(k) == [kind |-> k, pos |-> 0]

NoFiles == [f \in Fds |-> Closed]
Std == [NoFiles EXCEPT ![0] = Opened("stdin"), ![1] = Opened("stdout")]

Init ==
  /\ top = 0
  /\ files = [p \in Slots |-> IF p = 0 THEN Std ELSE NoFiles]
  /\ reply = [op |-> "none", fd |-> -1, res |-> "fail"]

Held(f) == f \in Fds /\ files[top][f] # Closed

Open ==
  \E f \in Fds, k \in OpenKinds :
    /\ ~Held(f)
    /\ \A g \in Fds : g < f => Held(g)
    /\ files' = [files EXCEPT ![top][f] = Opened(k)]
    /\ reply' = [op |-> "open", fd |-> f, res |-> "zero"]
    /\ UNCHANGED top

Close ==
  \E f \in Fds \ {0, 1} :
    /\ Held(f)
    /\ files' = [files EXCEPT ![top][f] = Closed]
    /\ reply' = [op |-> "close", fd |-> f, res |-> "zero"]
    /\ UNCHANGED top

Read ==
  \E f \in Fds :
    /\ Held(f)
    /\ \/ UNCHANGED files
       \/ files' = [files EXCEPT ![top][f].pos = @ + 1]
    /\ \E r \in {"fail", "zero", "data"} :
         reply' = [op |-> "read", fd |-> f, res |-> r]
    /\ UNCHANGED top

Write ==
  \E f \in Fds :
    /\ Held(f)
    /\ \E r \in {"fail", "zero", "data"} :
         reply' = [op |-> "write", fd |-> f, res |-> r]
    /\ UNCHANGED <<top, files>>

\* Any call may fail, and then nothing has changed.
Refuse ==
  /\ reply' \in [op : {"open", "close", "read", "write", "execute"},
                 fd : {-1}, res : {"fail"}]
  /\ UNCHANGED <<top, files>>

Start ==
  /\ top + 1 \in Slots
  /\ top' = top + 1
  /\ files' = [files EXCEPT ![top + 1] = Std]
  /\ reply' = [op |-> "execute", fd |-> -1, res |-> "zero"]

\* An execute that finds no room returns 0 all the same.
Full ==
  /\ top + 1 \notin Slots
  /\ reply' = [op |-> "execute", fd |-> -1, res |-> "zero"]
  /\ UNCHANGED <<top, files>>

End ==
  /\ top - 1 \in Slots
  /\ top' = top - 1
  /\ files' = [files EXCEPT ![top] = NoFiles]
  /\ reply' = [op |-> "halt", fd |-> -1, res |-> "zero"]

Next == Open \/ Close \/ Read \/ Write \/ Refuse \/ Start \/ Full \/ End

Spec == Init /\ [][Next]_vars
=============================================================================
