---------------------------- MODULE MCBlinkList -----------------------------
(***************************************************************************)
(* Entries for TLC, with different lengths, one of them zero.  The program *)
(* may add one twice.                                                      *)
(***************************************************************************)
EXTENDS BlinkList

BlinkSet ==
  {[location |-> 1, on_char |-> "I", off_char |-> "M",
    on_length |-> 2, off_length |-> 1],
   [location |-> 2, on_char |-> "a", off_char |-> "b",
    on_length |-> 1, off_length |-> 0]}
=============================================================================
