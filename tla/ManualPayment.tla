--------------------------- MODULE ManualPayment ---------------------------
(***************************************************************************)
(* The review of one payment that the client made by hand, outside the     *)
(* gateway: manual-payment.service.ts and the partial unique indexes of    *)
(* the migration manual_payment_integrity_constraints.  Checkout and the   *)
(* gateway, which touch the same row, come from payments.service.ts.  What *)
(* happens to funded work is the business of module Escrow; here are its   *)
(* steps that write the payment, or that open a project to checkout again. *)
(*                                                                         *)
(* A clerk is a handler that has read the payment and will act on it.      *)
(***************************************************************************)
EXTENDS Integers, FiniteSets

CONSTANTS
    Clerk,          \* handlers that may be under way at the same time
    Submission,     \* rows the submissions of the payment may take
    Reference,      \* method and transaction reference of a transfer
    NoRow,          \* no submission, no reference
    Written,        \* statuses others write into the project
    MaxReceipts     \* bound: how often money may come in

ASSUME NoRowAssumption == NoRow \notin Submission \cup Reference
ASSUME ReceiptsAssumption == MaxReceipts \in Nat

ProjectPhase ==
    { "OPEN", "AWAITING_PAYMENT", "IN_PROGRESS", "AWAITING_APPROVAL",
      "SUBMITTED_FOR_REVIEW", "REVISION_REQUESTED", "COMPLETED", "CANCELLED" }
EscrowStatus == {"NONE", "PENDING", "FUNDED", "RELEASED", "REFUNDED"}

ASSUME WrittenAssumption == Written \subseteq ProjectPhase

VARIABLES
    phase,      \* Project.status
    escrow,     \* Payment.status, NONE without a row
    review,     \* ManualPaymentSubmission.status, NONE before it exists
    transfer,   \* method and reference of every submission
    noted,      \* PaymentLedgerEntry rows of type FUNDED
    clerk,      \* what every clerk is about to do
    receipts,   \* history: how often money was taken as received
    repaid,     \* history: how often it was refunded
    overtaken   \* history: a handler wrote over a payment that had changed

moneyVars == << receipts, repaid, overtaken >>
paymentVars == << phase, escrow, review, transfer, noted, clerk, moneyVars >>

-----------------------------------------------------------------------------
(* What the handlers check *)

Submissions == {s \in Submission : review[s] # "NONE"}
Waiting == {s \in Submission : review[s] = "PENDING"}
Verified == {s \in Submission : review[s] = "VERIFIED"}

\* The statuses in which escrow can be paid.
Fundable == phase \in {"AWAITING_PAYMENT", "IN_PROGRESS"}

\* The claim "UPDATE ... WHERE status = 'PENDING'" of the payment.
Unpaid_M == escrow # "NONE"
Unpaid == escrow = "PENDING"

Received == escrow \in {"FUNDED", "RELEASED"}

\* Partial unique index: one VERIFIED submission per payment.
NoneVerified_M == TRUE
NoneVerified == Verified = {}

\* Partial unique index: one PENDING submission per payment; and the index on
\* payment method and transaction reference.
NoneWaiting == Waiting = {}
Unused(r) == \A s \in Submissions : transfer[s] # r

\* initiateProjectCheckout and prepareProjectCheckoutSession; REFUNDED is not
\* among the statuses they refuse.
MayPrepare_M == Fundable /\ escrow # "RELEASED"
MayPrepare == Fundable /\ ~Received

-----------------------------------------------------------------------------
(* Clerks *)

Free == [task |-> "none", row |-> NoRow, saw |-> "NONE"]
Takes(c, task, row, saw) ==
    /\ clerk[c] = Free
    /\ clerk' = [clerk EXCEPT ![c] = [task |-> task, row |-> row, saw |-> saw]]
    /\ UNCHANGED << phase, escrow, review, transfer, noted, moneyVars >>
Frees(c) == clerk' = [clerk EXCEPT ![c] = Free]

\* The handler throws, loses a claim, breaks an index or stops: its
\* transaction leaves nothing behind.
GiveUp(c) ==
    /\ clerk[c] # Free
    /\ Frees(c)
    /\ UNCHANGED << phase, escrow, review, transfer, noted, moneyVars >>

\* submitManualPayment.  The project and the payment are read first; that the
\* method is enabled and the amount exact leaves no trace here.
SubmitRead(c, r) == Fundable /\ Unpaid /\ Takes(c, "submit", r, escrow)
Submit(c, s) ==
    /\ clerk[c].task = "submit"
    /\ review[s] = "NONE"
    /\ NoneWaiting
    /\ Unused(clerk[c].row)
    /\ review' = [review EXCEPT ![s] = "PENDING"]
    /\ transfer' = [transfer EXCEPT ![s] = clerk[c].row]
    /\ Frees(c)
    /\ UNCHANGED << phase, escrow, noted, moneyVars >>

\* adminVerifyManualPayment.  A submission that is VERIFIED on a payment that
\* is FUNDED is answered without a change.  Every claim is tried again in the
\* transaction; whether the project moves is decided on what was read.
Decided(s) ==
    review' = [x \in Submission |->
                  IF x = s THEN "VERIFIED"
                  ELSE IF x \in Waiting THEN "REJECTED" ELSE review[x]]
Records == noted' = IF noted = 0 THEN 1 ELSE noted
VerifyRead(c, s) ==
    s \in Waiting /\ Unpaid /\ Takes(c, "verify", s, phase)
Verify(c) ==
    LET s == clerk[c].row
    IN  /\ clerk[c].task = "verify"
        /\ Unpaid /\ s \in Waiting /\ NoneVerified
        /\ receipts < MaxReceipts
        /\ escrow' = "FUNDED"
        /\ Decided(s)
        /\ Records
        /\ phase' = IF clerk[c].saw = "IN_PROGRESS" THEN phase
                                                     ELSE "IN_PROGRESS"
        /\ receipts' = receipts + 1
        /\ Frees(c)
        /\ UNCHANGED << transfer, repaid, overtaken >>

\* adminRejectManualPayment: the read changes nothing the claim does not check
\* again.
Reject(s) ==
    /\ s \in Waiting
    /\ review' = [review EXCEPT ![s] = "REJECTED"]
    /\ UNCHANGED << phase, escrow, transfer, noted, clerk, moneyVars >>

\* Checkout creates the row, once only, and sets it PENDING, whatever it has
\* become since it was read.
PrepareRead(c) == MayPrepare /\ Takes(c, "checkout", NoRow, escrow)
PrepareRow(c) ==
    /\ clerk[c].task = "checkout"
    /\ clerk[c].saw = "NONE"
    /\ escrow = "NONE"
    /\ escrow' = "PENDING"
    /\ clerk' = [clerk EXCEPT ![c].saw = "PENDING"]
    /\ UNCHANGED << phase, review, transfer, noted, moneyVars >>
Prepare(c) ==
    /\ clerk[c].task = "checkout"
    /\ clerk[c].saw # "NONE"
    /\ escrow' = "PENDING"
    /\ overtaken' = (overtaken \/ (Received /\ escrow # clerk[c].saw))
    /\ Frees(c)
    /\ UNCHANGED << phase, review, transfer, noted, receipts, repaid >>

\* fundPaymentFromVerifiedTransaction: the claim and the ledger rows are the
\* same.  That the transaction was applied before is looked for among other
\* payments only.
GatewayFunds ==
    /\ Unpaid
    /\ receipts < MaxReceipts
    /\ escrow' = "FUNDED"
    /\ Records
    /\ phase' = "IN_PROGRESS"
    /\ receipts' = receipts + 1
    /\ UNCHANGED << review, transfer, clerk, repaid, overtaken >>

\* The notification of a payment that is paid already: the project goes back
\* to IN_PROGRESS, also when the payment was refunded since it was read.
NoticeRead(c) ==
    Received /\ phase # "IN_PROGRESS" /\ Takes(c, "notice", NoRow, escrow)
Notice(c) ==
    /\ clerk[c].task = "notice"
    /\ phase' = "IN_PROGRESS"
    /\ Frees(c)
    /\ UNCHANGED << escrow, review, transfer, noted, moneyVars >>

-----------------------------------------------------------------------------
(* What others do to the payment and to the project, as in module Escrow *)

\* A release: releaseEscrowPayment, approveProjectWork and the cron job.
Releases ==
    /\ escrow = "FUNDED"
    /\ escrow' = "RELEASED"
    /\ phase' = "COMPLETED"
    /\ UNCHANGED << review, transfer, noted, clerk, moneyVars >>

\* refundEscrowPayment.
Refunds ==
    /\ escrow = "FUNDED"
    /\ escrow' = "REFUNDED"
    /\ phase' = "CANCELLED"
    /\ repaid' = repaid + 1
    /\ UNCHANGED << review, transfer, noted, clerk, receipts, overtaken >>

\* openDispute releases the payment it read as FUNDED, whatever it has become.
DisputeRead(c) == escrow = "FUNDED" /\ Takes(c, "dispute", NoRow, escrow)
Disputes(c) ==
    /\ clerk[c].task = "dispute"
    /\ escrow' = "RELEASED"
    /\ phase' = "REVISION_REQUESTED"
    /\ overtaken' = (overtaken \/ escrow # "FUNDED")
    /\ Frees(c)
    /\ UNCHANGED << review, transfer, noted, receipts, repaid >>

\* The status of the project alone is written by updateProjectByAdmin, with
\* any status, and by submissions, reviews and disputes, after a refund too.
Writes(p) ==
    /\ phase # p
    /\ phase' = p
    /\ UNCHANGED << escrow, review, transfer, noted, clerk, moneyVars >>

\* The sweep of the invitations reopens a project nobody has paid for.
Reopens ==
    /\ phase = "AWAITING_PAYMENT"
    /\ phase' = "OPEN"
    /\ UNCHANGED << escrow, review, transfer, noted, clerk, moneyVars >>

-----------------------------------------------------------------------------

PaymentInit ==
    /\ phase \in {"AWAITING_PAYMENT", "IN_PROGRESS"}
    /\ escrow = "NONE"
    /\ review = [s \in Submission |-> "NONE"]
    /\ transfer = [s \in Submission |-> NoRow]
    /\ noted = 0
    /\ clerk = [c \in Clerk |-> Free]
    /\ receipts = 0
    /\ repaid = 0
    /\ overtaken = FALSE

PaymentNext ==
    \/ \E c \in Clerk :
          \/ \E r \in Reference : SubmitRead(c, r)
          \/ \E s \in Submission : Submit(c, s) \/ VerifyRead(c, s)
          \/ Verify(c) \/ GiveUp(c)
          \/ PrepareRead(c) \/ PrepareRow(c) \/ Prepare(c)
          \/ NoticeRead(c) \/ Notice(c) \/ DisputeRead(c) \/ Disputes(c)
    \/ \E s \in Submission : Reject(s)
    \/ GatewayFunds \/ Releases \/ Refunds \/ Reopens
    \/ \E p \in Written : Writes(p)

PaymentSpec == PaymentInit /\ [][PaymentNext]_paymentVars

-----------------------------------------------------------------------------
(* Properties *)

\* Every variable keeps its shape.
PaymentTypeOK ==
    /\ phase \in ProjectPhase
    /\ escrow \in EscrowStatus
    /\ review \in [Submission -> {"NONE", "PENDING", "VERIFIED", "REJECTED"}]
    /\ transfer \in [Submission -> Reference \cup {NoRow}]
    /\ noted \in {0, 1}
    /\ clerk \in [Clerk -> [task : {"none", "submit", "verify", "checkout",
                                    "notice", "dispute"},
                            row : Submission \cup Reference \cup {NoRow},
                            saw : ProjectPhase \cup EscrowStatus]]
    /\ receipts \in Nat /\ repaid \in Nat
    /\ overtaken \in BOOLEAN

\* The client's money is taken as received once, by an administrator or by the
\* gateway, and again only after it was refunded, as a project that others put
\* back to work can be paid for again; until then the ledger says how often,
\* and what was verified stays paid for.  A checkout or a dispute that writes
\* over a payment that has changed since it was read is the one exception.
ReceivedOnce ==
    ~overtaken =>
        /\ receipts = repaid + (IF Received THEN 1 ELSE 0)
        /\ repaid = 0 => /\ receipts = noted
                         /\ Verified # {} => Received

\* The handlers implement EscrowFunding, overtaken or not.
DecisionOf(status) ==
    CASE status = "NONE" -> "none"
      [] status = "PENDING" -> "open"
      [] status = "VERIFIED" -> "accepted"
      [] status = "REJECTED" -> "declined"
Abstract == INSTANCE EscrowFunding
                WITH Evidence <- Submission,
                     decision <- [s \in Submission |-> DecisionOf(review[s])],
                     funded <- noted > 0
ImplementsFunding == Abstract!FundingSpec
=============================================================================
