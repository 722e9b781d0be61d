---------------------------- MODULE MCJamLastread ----------------------------
(***************************************************************************)
(* Small instances of JamLastread.                                         *)
(***************************************************************************)
EXTENDS JamLastread, TLC

Symmetry == Permutations(Procs) \cup Permutations(Users)
=============================================================================
