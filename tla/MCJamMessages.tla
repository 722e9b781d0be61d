---------------------------- MODULE MCJamMessages ----------------------------
(***************************************************************************)
(* Small instances of JamMessages.                                         *)
(***************************************************************************)
EXTENDS JamMessages, TLC

Symmetry == Permutations(Procs)
=============================================================================
