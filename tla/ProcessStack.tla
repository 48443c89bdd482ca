---------------------------- MODULE ProcessStack ----------------------------
(***************************************************************************)
(* What execute and halt promise to the programs of one console: programs  *)
(* nest.  The live programs occupy the slots 0 .. n, each started by the   *)
(* one below it; only the newest runs; when it ends, the one below it      *)
(* continues; the program in slot 0, the base shell, never ends; and every *)
(* stay in the kernel ends.                                                *)
(***************************************************************************)
EXTENDS Integers

CONSTANT NumProcs

VARIABLES
  live,   \* slots of the programs that have started and not ended
  cpu     \* program whose user code runs, or InKernel

vars == <<live, cpu>>

InKernel == -1
Slots == 0 .. NumProcs - 1

Init == live = {} /\ cpu = InKernel

\* The running program enters the kernel.
Trap == cpu # InKernel /\ cpu' = InKernel /\ UNCHANGED live

\* execute: a program starts in the slot above the newest.
Start == /\ cpu = InKernel
         /\ \E n \in Slots : live = 0 .. n - 1 /\ live' = 0 .. n
         /\ UNCHANGED cpu

\* halt: the newest program ends, unless it is the base shell.
Finish == /\ cpu = InKernel
          /\ \E n \in Slots \ {0} : live = 0 .. n /\ live' = 0 .. n - 1
          /\ UNCHANGED cpu

\* The kernel returns to user mode: the newest program runs.
Resume == /\ cpu = InKernel
          /\ \E n \in Slots : live = 0 .. n /\ cpu' = n
          /\ UNCHANGED live

Next == Trap \/ Start \/ Finish \/ Resume

SafeSpec == Init /\ [][Next]_vars
Spec == SafeSpec /\ WF_vars(Resume)
=============================================================================
