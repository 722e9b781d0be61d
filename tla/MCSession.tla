----------------------------- MODULE MCSession -----------------------------
(***************************************************************************)
(* Small instances of Session.                                             *)
(***************************************************************************)
EXTENDS Session, TLC

\* The processes are alike, and so are the nodes and the users without a
\* profile.
Symmetry == Permutations(Sessions) \cup Permutations(Nodes)
            \cup Permutations(Users \ Profiled)
=============================================================================
