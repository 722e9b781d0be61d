---------------------------- MODULE MCRecordOpen ----------------------------
(***************************************************************************)
(* Small instances of RecordOpen.                                          *)
(***************************************************************************)
EXTENDS RecordOpen, FiniteSets, TLC

\* The counter, and every record a file can come to have: each process may
\* create the store once, and each may have passed the bound of an extend.
MCRanges == 0 .. MaxRecords + Cardinality(Procs) * (Records + 1)

Symmetry == Permutations(Procs)
=============================================================================
