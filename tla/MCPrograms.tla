----------------------------- MODULE MCPrograms -----------------------------
(***************************************************************************)
(* What is typed after the names of programs in the run of Programs.  The  *)
(* shells that the kernel starts have nothing.                             *)
(***************************************************************************)
EXTENDS Programs

MCArguments == {<<"a", "b">>}
=============================================================================
