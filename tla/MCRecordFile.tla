---------------------------- MODULE MCRecordFile ----------------------------
(***************************************************************************)
(* Small instances of RecordFile.                                          *)
(***************************************************************************)
EXTENDS RecordFile, TLC

MCRecs == 1 .. NumRecs

Symmetry == Permutations(Procs)
=============================================================================
