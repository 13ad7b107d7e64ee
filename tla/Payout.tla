------------------------------- MODULE Payout -------------------------------
(***************************************************************************)
(* Withdrawals of one engineer: payouts/payout.service.ts, payout.state.ts *)
(* and the admin handlers of admin/admin.service.ts that touch the same    *)
(* rows.  Every value of Withdrawal is one "create withdrawal" request     *)
(* together with the WithdrawalRequest row it may create.                  *)
(*                                                                         *)
(* A step is one database transaction, one external call or its answer.    *)
(* The server may stop between any two of them.  Paymob's own record of a  *)
(* transfer and the callbacks it sends belong to the environment.          *)
(***************************************************************************)
EXTENDS Integers, FiniteSets, FiniteSetsExt

CONSTANTS
    Withdrawal,     \* create requests, and the rows they create
    KindOf,         \* payoutType: PAYMOB, IBAN, MANUAL (INSTAPAY, E_WALLET)
    KeyOf,          \* Idempotency-Key of the request; a retry repeats it
    AmountOf,       \* amount asked for
    Moves,          \* amounts other modules move in or out of the balance
    MaxEarned,      \* bound on the amount other modules have moved in
    VolumeLimit,    \* maxWithdrawalAmount, per rolling 24 hours
    RetryLimit,     \* inquiries without a match before manual review
    MaxReturns,     \* bound: how often one amount may be given back
    AdminStatus     \* statuses admins write into MANUAL rows

Kind == {"PAYMOB", "IBAN", "MANUAL"}

WithdrawalRequestStatus ==
    { "PENDING", "PENDING_REVIEW", "APPROVED", "TRANSFER_INITIATED",
      "SUBMITTED", "PROCESSING", "COMPLETED", "FAILED", "CANCELLED",
      "REVERSED", "REJECTED", "FAILED_NEEDS_MANUAL_REVIEW" }

ASSUME KindAssumption == KindOf \in [Withdrawal -> Kind]
ASSUME AmountAssumption == AmountOf \in [Withdrawal -> Nat \ {0}]
ASSUME MovesAssumption == Moves \subseteq Nat
ASSUME LimitAssumption ==
    /\ MaxEarned \in Nat
    /\ VolumeLimit \in Nat
    /\ RetryLimit \in Nat
    /\ MaxReturns \in Nat
ASSUME AdminAssumption == AdminStatus \subseteq WithdrawalRequestStatus

VARIABLES
    available,  \* Wallet.availableBalance
    earned,     \* history: net amount the other modules have moved in
    status,     \* WithdrawalRequest.status, or ABSENT
    line,       \* status of the row's WalletTransaction
    retry,      \* WithdrawalRequest.retryCount
    stale,      \* a PENDING row not updated for ORPHANED_TIMEOUT_MINUTES
    pc,         \* how far the create request has come
    answer,     \* what Paymob answered the request
    paymob,     \* Paymob's record of the transfer
    reports,    \* statuses Paymob has sent, or may still send, a callback for
    sweep,      \* what the reconciliation run in flight has read
    review,     \* what the admin handler in flight has decided
    taken,      \* history: times the amount was debited minus given back
    confirmed   \* history: rows an admin has marked as completed

rowVars == << status, line, retry, stale >>
reqVars == << pc, answer >>
gatewayVars == << paymob, reports >>
moneyVars == << available, taken >>
handlerVars == << sweep, review >>
vars == << moneyVars, earned, rowVars, reqVars, gatewayVars, handlerVars,
           confirmed >>

-----------------------------------------------------------------------------
(* payout.state.ts *)

RECONCILABLE_STATUSES_M == {"SUBMITTED"}
RECONCILABLE_STATUSES == {"SUBMITTED", "PROCESSING"}

TERMINAL_PAYOUT_STATUSES ==
    { "COMPLETED", "FAILED", "CANCELLED", "REVERSED", "REJECTED",
      "FAILED_NEEDS_MANUAL_REVIEW" }

ALLOWED_TRANSITIONS ==
    [ PENDING |-> { "SUBMITTED", "PROCESSING", "COMPLETED", "FAILED",
                    "CANCELLED", "FAILED_NEEDS_MANUAL_REVIEW" },
      PENDING_REVIEW |-> {"COMPLETED", "REJECTED", "CANCELLED"},
      APPROVED |-> {"TRANSFER_INITIATED", "COMPLETED", "CANCELLED", "FAILED"},
      TRANSFER_INITIATED |->
          {"PROCESSING", "COMPLETED", "FAILED", "CANCELLED"},
      SUBMITTED |-> { "PROCESSING", "COMPLETED", "FAILED", "CANCELLED",
                      "FAILED_NEEDS_MANUAL_REVIEW" },
      PROCESSING |-> { "COMPLETED", "FAILED", "CANCELLED", "REVERSED",
                       "FAILED_NEEDS_MANUAL_REVIEW" },
      COMPLETED |-> {"REVERSED"},
      FAILED |-> {}, CANCELLED |-> {}, REVERSED |-> {}, REJECTED |-> {},
      FAILED_NEEDS_MANUAL_REVIEW |-> {"FAILED", "COMPLETED", "CANCELLED"} ]

\* assertPayoutTransition dropped by a caller: any row may be written.
CanTransition_M(from, to) == from \in WithdrawalRequestStatus

CanTransition(from, to) ==
    /\ from \in WithdrawalRequestStatus
    /\ from = to \/ to \in ALLOWED_TRANSITIONS[from]

Result == {"success", "pending", "failed"}

\* An accepted transfer taken for a finished one.
StatusOf_Eager(r) == IF r = "failed" THEN "FAILED" ELSE "COMPLETED"

\* mapPaymobStatusToWithdrawalStatus
StatusOf(r) == CASE r = "success" -> "COMPLETED"
                 [] r = "pending" -> "PROCESSING"
                 [] OTHER -> "FAILED"

-----------------------------------------------------------------------------
(* Rows and the balance *)

Present(w) == status[w] # "ABSENT"

\* An update of the row and of its ledger line refreshes updatedAt.
Written(w, s, l) ==
    /\ status' = [status EXCEPT ![w] = s]
    /\ line' = [line EXCEPT ![w] = l]
    /\ stale' = [stale EXCEPT ![w] = FALSE]
NotWritten == UNCHANGED << status, line, stale >>

\* holdPayoutBalance and releasePayoutBalance.
Debit(w, balance) ==
    /\ available' = balance - AmountOf[w]
    /\ taken' = [taken EXCEPT ![w] = @ + 1]
GiveBack(w, balance) ==
    /\ available' = balance + AmountOf[w]
    /\ taken' = [taken EXCEPT ![w] = @ - 1]

\* Bound on inputs that may give the same amount back over and over.
MayGiveBack(w) == taken[w] > 1 - MaxReturns

-----------------------------------------------------------------------------
(* Creating a withdrawal *)

\* Rows the rolling 24-hour volume counts.  All rows are that young here.
CountedRows ==
    { w \in Withdrawal : status[w] \notin
        { "ABSENT", "FAILED", "CANCELLED", "REVERSED", "REJECTED",
          "FAILED_NEEDS_MANUAL_REVIEW" } }
Volume(W) == MapThenSumSet(LAMBDA w : AmountOf[w], W)

KeyUsed(w) == \E v \in Withdrawal : Present(v) /\ KeyOf[v] = KeyOf[w]

\* The unique index on (userId, idempotencyKey) forgotten in a migration.
UniqueKey_M(w) == w \in Withdrawal
\* WithdrawalRequest @@unique([userId, idempotencyKey]).
UniqueKey(w) == ~KeyUsed(w)

\* Checked against what was ever earned: holds not subtracted.
Spendable_M(balance) == earned
\* getSpendableBalance under the wallet's row lock, after the settle that
\* opened the transaction.
Spendable(balance) == balance

IbanFree_M(w) == w \in Withdrawal
\* No other active international request.
IbanFree(w) ==
    ~ \E v \in Withdrawal :
        /\ KindOf[v] = "IBAN"
        /\ status[v] \in { "PENDING_REVIEW", "APPROVED",
                           "TRANSFER_INITIATED", "PROCESSING" }

GoTo(w, p) == pc' = [pc EXCEPT ![w] = p] /\ UNCHANGED answer
Answered(w) ==
    /\ pc' = [pc EXCEPT ![w] = "done"]
    /\ answer' = [answer EXCEPT ![w] = "none"]

\* The reads before the transaction: an existing row with the key answers
\* the request; a PAYMOB request must fit in the day's volume.
Lookup(w) ==
    /\ pc[w] = "idle"
    /\ IF \/ KeyUsed(w)
          \/ /\ KindOf[w] = "PAYMOB"
             /\ Volume(CountedRows) + AmountOf[w] > VolumeLimit
         THEN Answered(w)
         ELSE GoTo(w, "checked")
    /\ UNCHANGED << moneyVars, earned, rowVars, gatewayVars, handlerVars,
                    confirmed >>

\* The settle at the head of a transaction moved m into the balance.
Settled(m) == m \in Moves \cup {0} /\ earned + m <= MaxEarned

\* The rows the transactions create, and what their requests do next.
PaymobRow(w) ==
    /\ KindOf[w] = "PAYMOB"
    /\ Written(w, "PENDING", "PENDING")
    /\ GoTo(w, "calling")
IbanRow(w) ==
    /\ KindOf[w] = "IBAN"
    /\ IbanFree(w)
    /\ Written(w, "PENDING_REVIEW", "PENDING")
    /\ Answered(w)
ManualRow(w) ==
    /\ KindOf[w] = "MANUAL"
    /\ Written(w, "PENDING_REVIEW", "PENDING")
    /\ Answered(w)

\* The creating transaction commits.
Commit(w, m) ==
    /\ pc[w] = "checked"
    /\ Settled(m)
    /\ AmountOf[w] <= Spendable(available + m)
    /\ UniqueKey(w)
    /\ earned' = earned + m
    /\ Debit(w, available + m)
    /\ PaymobRow(w) \/ IbanRow(w) \/ ManualRow(w)
    /\ UNCHANGED << retry, gatewayVars, handlerVars, confirmed >>

\* The creating transaction rolls back: too little balance (whatever the
\* settle found), an active IBAN request, or P2002 on the key.
Rollback(w) ==
    /\ pc[w] = "checked"
    /\ \/ \E m \in Moves \cup {0} : AmountOf[w] > Spendable(available + m)
       \/ KindOf[w] = "IBAN" /\ ~IbanFree(w)
       \/ ~UniqueKey(w)
    /\ Answered(w)
    /\ UNCHANGED << moneyVars, earned, rowVars, gatewayVars, handlerVars,
                    confirmed >>

-----------------------------------------------------------------------------
(* The external call and what follows it *)

\* Paymob's side: a transfer is taken on, pending or decided at once, and a
\* pending one is decided.  Each status may be reported by a callback.
PaymobRecords(w, r) ==
    /\ \/ paymob[w] = "none" /\ pc[w] = "calling"
       \/ paymob[w] = "pending" /\ r # "pending"
    /\ paymob' = [paymob EXCEPT ![w] = r]
    /\ reports' = [reports EXCEPT ![w] = @ \cup {r}]
    /\ UNCHANGED << moneyVars, earned, rowVars, reqVars, handlerVars,
                    confirmed >>

\* createPaymobInstantCashin returns the status Paymob had when it answered.
CallReturns(w) ==
    /\ pc[w] = "calling"
    /\ paymob[w] # "none"
    /\ pc' = [pc EXCEPT ![w] = "answered"]
    /\ answer' = [answer EXCEPT ![w] = paymob[w]]
    /\ UNCHANGED << moneyVars, earned, rowVars, gatewayVars, handlerVars,
                    confirmed >>

\* The call throws: refused, unreachable, or the answer was lost.
CallFails(w) ==
    /\ pc[w] = "calling"
    /\ GoTo(w, "failing")
    /\ UNCHANGED << moneyVars, earned, rowVars, gatewayVars, handlerVars,
                    confirmed >>

\* The hold kept although the ledger line says it was given back.
MarkPayoutSubmissionFailed_M(w) ==
    /\ UNCHANGED moneyVars
    /\ Written(w, "FAILED", "REJECTED")
\* markPayoutSubmissionFailed: the row's status is not looked at.
MarkPayoutSubmissionFailed(w) ==
    /\ GiveBack(w, available)
    /\ Written(w, "FAILED", "REJECTED")

FailSubmission(w) ==
    /\ pc[w] = "failing"
    /\ MarkPayoutSubmissionFailed(w)
    /\ Answered(w)
    /\ UNCHANGED << earned, retry, gatewayVars, handlerVars, confirmed >>

\* The unconditional update to SUBMITTED.
Submit(w) ==
    /\ pc[w] = "answered"
    /\ Written(w, "SUBMITTED", line[w])
    /\ GoTo(w, "submitted")
    /\ UNCHANGED << moneyVars, earned, retry, gatewayVars, handlerVars,
                    confirmed >>

\* applyPaymobPayoutResult: it throws on a forbidden transition, and a failure
\* gives the hold back.  The early return on a second success needs no case: a
\* COMPLETED row already is what the update makes it.
ApplyPaymobPayoutResult(w, r) ==
    IF ~CanTransition(status[w], StatusOf(r))
      THEN NotWritten /\ UNCHANGED moneyVars
      ELSE \/ /\ r = "success"
              /\ Written(w, StatusOf(r), "COMPLETED")
              /\ UNCHANGED moneyVars
           \/ /\ r = "pending"
              /\ Written(w, StatusOf(r), line[w])
              /\ UNCHANGED moneyVars
           \/ /\ r = "failed"
              /\ Written(w, StatusOf(r), "REJECTED")
              /\ GiveBack(w, available)

ApplyAnswer(w) ==
    /\ pc[w] = "submitted"
    /\ ApplyPaymobPayoutResult(w, answer[w])
    /\ Answered(w)
    /\ UNCHANGED << earned, retry, gatewayVars, handlerVars, confirmed >>

\* The server stops, or the next transaction is aborted (a deadlock between
\* the two lock orders): nobody resumes the request.
Crash(w) ==
    /\ pc[w] \in {"checked", "calling", "failing", "answered", "submitted"}
    /\ Answered(w)
    /\ UNCHANGED << moneyVars, earned, rowVars, gatewayVars, handlerVars,
                    confirmed >>

\* handlePaymobPayoutWebhook: callbacks come late, in any order, repeatedly.
Webhook(w, r) ==
    /\ r \in reports[w]
    /\ r = "failed" => MayGiveBack(w)
    /\ ApplyPaymobPayoutResult(w, r)
    /\ UNCHANGED << earned, retry, reqVars, gatewayVars, handlerVars,
                    confirmed >>

-----------------------------------------------------------------------------
(* reconcilePendingPayouts, row by row *)

\* Fifteen minutes pass without an update of a PENDING row.
Age(w) ==
    /\ status[w] = "PENDING"
    /\ ~stale[w]
    /\ stale' = [stale EXCEPT ![w] = TRUE]
    /\ UNCHANGED << moneyVars, earned, status, line, retry, reqVars,
                    gatewayVars, handlerVars, confirmed >>

\* Orphans looked for among rows that have already been submitted.
Orphaned_M(w) == status[w] = "SUBMITTED" /\ stale[w]
Orphaned(w) == status[w] = "PENDING" /\ stale[w]

\* What a run reads about w, before it acts on it.
SweepReads(w, found) ==
    /\ sweep[w] = "idle"
    /\ sweep' = [sweep EXCEPT ![w] = found]
    /\ UNCHANGED << moneyVars, earned, rowVars, reqVars, gatewayVars, review,
                    confirmed >>
SweepDone(w) ==
    /\ sweep' = [sweep EXCEPT ![w] = "idle"]
    /\ UNCHANGED << earned, reqVars, gatewayVars, review, confirmed >>

SweepOrphan(w) == Orphaned(w) /\ SweepReads(w, "orphan")

FailOrphan(w) ==
    /\ sweep[w] = "orphan"
    /\ MarkPayoutSubmissionFailed(w)
    /\ UNCHANGED retry
    /\ SweepDone(w)

\* The rows are read and Paymob is asked.  A row Paymob knows is missing from
\* the answer when the batch asked for more than 50 identifiers.
SweepInquire(w, r) ==
    /\ status[w] \in RECONCILABLE_STATUSES
    /\ r \in {paymob[w], "unmatched"} \ {"none"}
    /\ SweepReads(w, r)

\* A match: the retry counter is reset and the result applied.
SweepApply(w) ==
    /\ sweep[w] \in Result
    /\ retry' = [retry EXCEPT ![w] = 0]
    /\ ApplyPaymobPayoutResult(w, sweep[w])
    /\ SweepDone(w)

\* retryCount compared with <= where the code has retryCount >= 5.
MayRetry_M(w) == retry[w] <= RetryLimit
MayRetry(w) == retry[w] < RetryLimit

\* No match: one more retry, or markPayoutNeedsManualReview.
SweepMiss(w) ==
    /\ sweep[w] = "unmatched"
    /\ IF MayRetry(w)
         THEN /\ retry' = [retry EXCEPT ![w] = @ + 1]
              /\ Written(w, status[w], line[w])
         ELSE /\ IF CanTransition(status[w], "FAILED_NEEDS_MANUAL_REVIEW")
                   THEN Written(w, "FAILED_NEEDS_MANUAL_REVIEW", line[w])
                   ELSE NotWritten
              /\ UNCHANGED retry
    /\ UNCHANGED moneyVars
    /\ SweepDone(w)

\* The run ends early: a restart, or an exception on another row.
SweepAborted(w) ==
    /\ sweep[w] # "idle"
    /\ UNCHANGED << moneyVars, rowVars >>
    /\ SweepDone(w)

-----------------------------------------------------------------------------
(* Administrators *)

\* A handler that finishes a row in one transaction.
AdminWrites(w, s, l) ==
    /\ Written(w, s, l)
    /\ UNCHANGED << retry, reqVars, gatewayVars, sweep >>

\* cancelPayoutByAdmin, which adminCancelWithdrawal calls for any row.
Cancel(w) ==
    /\ CanTransition(status[w], "CANCELLED")
    /\ MayGiveBack(w)
    /\ AdminWrites(w, "CANCELLED", "REJECTED")
    /\ GiveBack(w, available)
    /\ UNCHANGED << earned, review, confirmed >>

\* markPayoutCompletedByAdmin, its transaction.
MarkCompleted(w) ==
    /\ CanTransition(status[w], "COMPLETED")
    /\ AdminWrites(w, "COMPLETED", "COMPLETED")
    /\ confirmed' = confirmed \cup {w}
    /\ UNCHANGED << moneyVars, earned >>

\* updateWithdrawalRequestStatus on a PAYMOB row.
CompletePaymob(w) ==
    /\ KindOf[w] = "PAYMOB"
    /\ MarkCompleted(w)
    /\ UNCHANGED review

\* The first read of a handler that decides on d before its transaction.
ReviewReads(w, d) ==
    /\ review[w] = "idle"
    /\ review' = [review EXCEPT ![w] = d]
    /\ UNCHANGED << moneyVars, earned, rowVars, reqVars, gatewayVars, sweep,
                    confirmed >>
ReviewDone(w) == review' = [review EXCEPT ![w] = "idle"]

\* resolvePayoutManualReview, "mark_completed".
ResolveRead(w) ==
    /\ status[w] = "FAILED_NEEDS_MANUAL_REVIEW"
    /\ ReviewReads(w, "resolve")

ResolveComplete(w) ==
    /\ review[w] = "resolve"
    /\ MarkCompleted(w)
    /\ ReviewDone(w)

\* The claim of the row forgotten: any status may be rejected.
Rejectable_M(w) == Present(w)
\* The transition check and the claim of the PENDING_REVIEW row.
Rejectable(w) == status[w] = "PENDING_REVIEW"

RejectInternationalWithdrawal(w) ==
    /\ Rejectable(w)
    /\ MayGiveBack(w)
    /\ AdminWrites(w, "REJECTED", "REJECTED")
    /\ GiveBack(w, available)
    /\ UNCHANGED << earned, review, confirmed >>

RecordCompletion(w) ==
    /\ status[w] \in { "PENDING_REVIEW", "TRANSFER_INITIATED", "PROCESSING",
                       "FAILED_NEEDS_MANUAL_REVIEW" }
    /\ AdminWrites(w, "COMPLETED", "COMPLETED")
    /\ confirmed' = confirmed \cup {w}
    /\ UNCHANGED << moneyVars, earned, review >>

\* updateWithdrawalRequestStatus on an INSTAPAY or E_WALLET row: the status is
\* read before the transaction and never again.
ReviewRead(w, s) ==
    /\ KindOf[w] = "MANUAL"
    /\ Present(w)
    /\ MayGiveBack(w)
    /\ status[w] \notin {"COMPLETED", "REJECTED", "CANCELLED", "FAILED"}
    /\ ReviewReads(w, s)

\* The transaction settles first.  COMPLETED debits the amount although the
\* request already holds it; any status but COMPLETED and REJECTED is written
\* with a PENDING ledger line.
ReviewApply(w, m) ==
    /\ review[w] \in AdminStatus
    /\ Settled(m)
    /\ earned' = earned + m
    /\ \/ /\ review[w] = "COMPLETED"
          /\ AmountOf[w] <= available + m
          /\ Debit(w, available + m)
          /\ AdminWrites(w, "COMPLETED", "COMPLETED")
       \/ /\ review[w] = "REJECTED"
          /\ GiveBack(w, available + m)
          /\ AdminWrites(w, "REJECTED", "REJECTED")
       \/ /\ review[w] \notin {"COMPLETED", "REJECTED"}
          /\ available' = available + m
          /\ UNCHANGED taken
          /\ AdminWrites(w, review[w], "PENDING")
    /\ ReviewDone(w)
    /\ UNCHANGED confirmed

\* The handler throws or is lost: too little balance, or a restart.
ReviewAborted(w) ==
    /\ review[w] # "idle"
    /\ ReviewDone(w)
    /\ UNCHANGED << moneyVars, earned, rowVars, reqVars, gatewayVars, sweep,
                    confirmed >>

-----------------------------------------------------------------------------
(* The rest of the platform moves money in (settled earnings, disputes won) *)
(* and out (earnings frozen by a dispute: only what came in, and never      *)
(* below the CHECK on the column).                                          *)

MoveIn(m) ==
    /\ m \in Moves
    /\ earned + m <= MaxEarned
    /\ earned' = earned + m
    /\ available' = available + m
    /\ UNCHANGED << taken, rowVars, reqVars, gatewayVars, handlerVars,
                    confirmed >>

MoveOut(m) ==
    /\ m \in Moves
    /\ m <= earned
    /\ m <= available
    /\ earned' = earned - m
    /\ available' = available - m
    /\ UNCHANGED << taken, rowVars, reqVars, gatewayVars, handlerVars,
                    confirmed >>

-----------------------------------------------------------------------------

Init ==
    /\ available = 0
    /\ earned = 0
    /\ status = [w \in Withdrawal |-> "ABSENT"]
    /\ line = [w \in Withdrawal |-> "NONE"]
    /\ retry = [w \in Withdrawal |-> 0]
    /\ stale = [w \in Withdrawal |-> FALSE]
    /\ pc = [w \in Withdrawal |-> "idle"]
    /\ answer = [w \in Withdrawal |-> "none"]
    /\ paymob = [w \in Withdrawal |-> "none"]
    /\ reports = [w \in Withdrawal |-> {}]
    /\ sweep = [w \in Withdrawal |-> "idle"]
    /\ review = [w \in Withdrawal |-> "idle"]
    /\ taken = [w \in Withdrawal |-> 0]
    /\ confirmed = {}

Request(w) ==
    \/ Lookup(w)
    \/ \E m \in Moves \cup {0} : Commit(w, m)
    \/ Rollback(w)
    \/ CallReturns(w)
    \/ CallFails(w)
    \/ FailSubmission(w)
    \/ Submit(w)
    \/ ApplyAnswer(w)
    \/ Crash(w)

Gateway(w) ==
    \/ \E r \in Result : PaymobRecords(w, r)
    \/ \E r \in Result : Webhook(w, r)

Reconciliation(w) ==
    \/ Age(w)
    \/ SweepOrphan(w)
    \/ FailOrphan(w)
    \/ \E r \in Result \cup {"unmatched"} : SweepInquire(w, r)
    \/ SweepApply(w)
    \/ SweepMiss(w)
    \/ SweepAborted(w)

Admin(w) ==
    \/ Cancel(w)
    \/ CompletePaymob(w)
    \/ ResolveRead(w)
    \/ ResolveComplete(w)
    \/ RejectInternationalWithdrawal(w)
    \/ RecordCompletion(w)
    \/ \E s \in AdminStatus : ReviewRead(w, s)
    \/ \E m \in Moves \cup {0} : ReviewApply(w, m)
    \/ ReviewAborted(w)

Platform == \E m \in Moves : MoveIn(m) \/ MoveOut(m)

Next ==
    \/ \E w \in Withdrawal :
         Request(w) \/ Gateway(w) \/ Reconciliation(w) \/ Admin(w)
    \/ Platform

Spec == Init /\ [][Next]_vars

\* The reconciliation timer keeps firing, its runs are not all cut short, and
\* Paymob decides every transfer.  Nothing is assumed of requests, callbacks
\* or administrators.
Fairness ==
    \A w \in Withdrawal :
        /\ WF_vars(Age(w))
        /\ WF_vars(SweepOrphan(w))
        /\ SF_vars(FailOrphan(w))
        /\ WF_vars(\E r \in Result \cup {"unmatched"} : SweepInquire(w, r))
        /\ SF_vars(SweepApply(w))
        /\ SF_vars(SweepMiss(w))
        /\ WF_vars(/\ paymob[w] = "pending"
                   /\ \E r \in Result : PaymobRecords(w, r))

FairSpec == Spec /\ Fairness

-----------------------------------------------------------------------------
(* Properties *)

\* Every variable keeps its shape.
TypeOK ==
    /\ available \in Int
    /\ earned \in Int
    /\ status \in [Withdrawal -> WithdrawalRequestStatus \cup {"ABSENT"}]
    /\ line \in [Withdrawal -> {"NONE", "PENDING", "COMPLETED", "REJECTED"}]
    /\ retry \in [Withdrawal -> 0..RetryLimit]
    /\ stale \in [Withdrawal -> BOOLEAN]
    /\ pc \in [Withdrawal -> { "idle", "checked", "calling", "failing",
                               "answered", "submitted", "done" }]
    /\ answer \in [Withdrawal -> Result \cup {"none"}]
    /\ paymob \in [Withdrawal -> Result \cup {"none"}]
    /\ reports \in [Withdrawal -> SUBSET Result]
    /\ sweep \in [Withdrawal -> Result \cup {"idle", "orphan", "unmatched"}]
    /\ review \in [Withdrawal -> AdminStatus \cup {"idle", "resolve"}]
    /\ taken \in [Withdrawal -> Int]
    /\ confirmed \in SUBSET Withdrawal

\* The wallet is never overdrawn, however requests, admin debits and dispute
\* freezes interleave, and without the help of the column's CHECK in the
\* creating transaction: the row lock serializes the balance checks.
NoOverdraft == available >= 0

\* Requests that repeat an Idempotency-Key reach Paymob, or pay by hand, at
\* most once between them, although they all pass the lookup concurrently.
OneTransferPerKey ==
    \A v, w \in Withdrawal :
        /\ KeyOf[v] = KeyOf[w]
        /\ paymob[v] # "none" \/ status[v] = "COMPLETED"
        /\ paymob[w] # "none" \/ status[w] = "COMPLETED"
        => v = w

\* An engineer has at most one international request open, although the
\* check is a read of other rows that no constraint backs up.
OneActiveIban ==
    \A v, w \in Withdrawal :
        /\ KindOf[v] = "IBAN" /\ status[v] = "PENDING_REVIEW"
        /\ KindOf[w] = "IBAN" /\ status[w] = "PENDING_REVIEW"
        => v = w

\* The ledger line of a PAYMOB or IBAN row tells what happened to the amount:
\* PENDING while it is held, REJECTED only once it was given back, and never
\* COMPLETED with the amount debited twice.
LedgerMatchesHold ==
    \A w \in Withdrawal :
        KindOf[w] # "MANUAL" =>
            /\ line[w] = "PENDING" => taken[w] = 1
            /\ line[w] = "REJECTED" => taken[w] <= 0
            /\ line[w] = "COMPLETED" => taken[w] <= 1

\* Concurrent admins completing, rejecting and cancelling an international
\* request: a completed one keeps the amount, a rejected one gives it back
\* exactly once.
IbanPaidOrReturned ==
    \A w \in Withdrawal :
        KindOf[w] = "IBAN" =>
            /\ status[w] = "COMPLETED" => taken[w] = 1
            /\ status[w] = "REJECTED" => taken[w] = 0

\* A PAYMOB row is COMPLETED only if Paymob paid the transfer out or an admin
\* said so, whichever of answer, callback and inquiry came first.
CompletedIsJustified ==
    \A w \in Withdrawal :
        KindOf[w] = "PAYMOB" /\ status[w] = "COMPLETED"
            => paymob[w] = "success" \/ w \in confirmed

\* No step takes a settled international request to another status.
IbanFinal ==
    [][\A w \in Withdrawal :
          /\ KindOf[w] = "IBAN"
          /\ status[w] \in TERMINAL_PAYOUT_STATUSES
          => status'[w] = status[w]]_vars

\* A PAYMOB row left PENDING by a crash or a hung call does not stay PENDING.
OrphanRecovered ==
    \A w \in Withdrawal :
        KindOf[w] = "PAYMOB" =>
            (status[w] = "PENDING" ~> status[w] # "PENDING")

\* A submitted payout gets an outcome or a human: it leaves SUBMITTED and
\* PROCESSING even if every callback is lost.
SubmittedResolved ==
    \A w \in Withdrawal :
        status[w] \in {"SUBMITTED", "PROCESSING"} ~>
            status[w] \notin {"SUBMITTED", "PROCESSING"}

-----------------------------------------------------------------------------
(* What comments of the code say and the code does not do *)

\* payout.service.ts, failure reason of an orphaned row: "Paymob was never
\* called; funds released".
OrphanWasNeverCalled ==
    [][\A w \in Withdrawal :
          /\ sweep[w] = "orphan"
          /\ sweep'[w] = "idle"
          /\ taken'[w] < taken[w]
          => paymob[w] = "none"]_vars

\* payout.state.ts: "Terminal states - no further automated transitions."
\* Only administrators complete or cancel a row that is in one of them.
TerminalIsFinal ==
    [][\A w \in Withdrawal :
          /\ KindOf[w] = "PAYMOB"
          /\ status[w] \in TERMINAL_PAYOUT_STATUSES
          => status'[w] \in {status[w], "COMPLETED", "CANCELLED"}]_vars

\* payout.service.ts: "Enforce rolling 24-hour maximum withdrawal volume per
\* user", for the automatic payouts that are checked.
DailyVolume ==
    Volume({w \in CountedRows : KindOf[w] = "PAYMOB"}) <= VolumeLimit

=============================================================================
