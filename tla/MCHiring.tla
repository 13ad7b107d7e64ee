------------------------------ MODULE MCHiring ------------------------------
(* Values for the constants of Hiring: two engineers, one row more than that *)
(* would be needed for one hire, and two handlers at a time.                 *)
EXTENDS Hiring, TLC

CONSTANTS j1, j2, e1, e2, b1, b2, i1, i2

TwoJobs == {j1, j2}
OneJob == {j1}
Engineers == {e1, e2}
Bids == {b1, b2}
Invitations == {i1, i2}

\* Of the rows that are not taken it does not matter which is taken next: a row
\* that was taken is free again only when the project is gone.
Symmetry ==
    Permutations(TwoJobs) \cup Permutations(Engineers) \cup Permutations(Bids)
    \cup Permutations(Invitations)
=============================================================================
