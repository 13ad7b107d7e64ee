------------------------------ MODULE MCEscrow ------------------------------
(* Model values for Escrow: two handlers under way at a time, two rows for *)
(* disputes and two for the ledger lines of the payment.                   *)
EXTENDS Escrow, TLC

CONSTANTS j1, j2, d1, d2, l1, l2

ASSUME Distinct == Cardinality({j1, j2, d1, d2, l1, l2, NoDispute}) = 7

\* Handlers, disputes and lines have no names in the code that matter.
Alike == Permutations(Job) \cup Permutations(Dispute) \cup Permutations(Line)

\* Behaviours are followed up to their first mishap, and the step into it is
\* checked: what follows a mishap is left to the proofs.  A project has two
\* disputes or is funded twice, and not both.
Quiet ==
    /\ mishaps = {}
    /\ fundings + Cardinality({d \in Dispute : dispute[d] # "NONE"}) <= 3
=============================================================================
