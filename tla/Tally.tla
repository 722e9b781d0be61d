-------------------------------- MODULE Tally --------------------------------
(***************************************************************************)
(* What a counter that is kept for each user promises, however many        *)
(* processes add to it: it starts at 0, it grows by one, for one user at a *)
(* time, and it never goes back.                                           *)
(***************************************************************************)
EXTENDS Naturals

CONSTANT Counted    \* the users
VARIABLE tally      \* the counter of each

Init == tally = [u \in Counted |-> 0]

Add(u) == tally' = [tally EXCEPT ![u] = @ + 1]

Next == \E u \in Counted : Add(u)

Spec == Init /\ [][Next]_tally
=============================================================================
