--------------------------- MODULE EscrowFunding ---------------------------
(***************************************************************************)
(* What the review of manual payments promises, whoever calls it and in    *)
(* whatever order: the client's evidence is decided once and for good, one *)
(* piece of it is accepted at most, and the escrow is funded in the very   *)
(* step that accepts it.  The gateway may fund the escrow as well.         *)
(* ManualPayment implements this with rows, claims and unique indexes.     *)
(***************************************************************************)
CONSTANT Evidence

VARIABLES
    decision,   \* of every piece of evidence
    funded      \* money has come in

Open == {e \in Evidence : decision[e] = "open"}
Accepted == {e \in Evidence : decision[e] = "accepted"}

FundingInit ==
    /\ decision = [e \in Evidence |-> "none"]
    /\ funded = FALSE

\* One piece of evidence is under review at a time.
Offer(e) ==
    /\ decision[e] = "none"
    /\ Open = {}
    /\ decision' = [decision EXCEPT ![e] = "open"]
    /\ UNCHANGED funded

Decline(e) ==
    /\ e \in Open
    /\ decision' = [decision EXCEPT ![e] = "declined"]
    /\ UNCHANGED funded

AcceptEvidence(e) ==
    /\ e \in Open
    /\ Accepted = {}
    /\ decision' = [decision EXCEPT ![e] = "accepted"]
    /\ funded' = TRUE

ByGateway ==
    /\ ~funded
    /\ funded' = TRUE
    /\ UNCHANGED decision

FundingNext ==
    \/ \E e \in Evidence : Offer(e) \/ Decline(e) \/ AcceptEvidence(e)
    \/ ByGateway

FundingSpec == FundingInit /\ [][FundingNext]_<< decision, funded >>
=============================================================================
