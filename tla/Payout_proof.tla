---------------------------- MODULE Payout_proof ----------------------------
(***************************************************************************)
(* Proofs about Payout, for every set of requests, every amount and every  *)
(* bound.                                                                  *)
(***************************************************************************)
EXTENDS Payout, TLAPS

RowsOK ==
    /\ status \in [Withdrawal -> WithdrawalRequestStatus \cup {"ABSENT"}]
    /\ line \in [Withdrawal -> {"NONE", "PENDING", "COMPLETED", "REJECTED"}]
    /\ stale \in [Withdrawal -> BOOLEAN]
MoneyOK == available \in Int /\ taken \in [Withdrawal -> Int]

\* An update of a row to a status and a ledger status leaves rows.
LEMMA WrittenType ==
    ASSUME RowsOK, NEW w \in Withdrawal,
           NEW s \in WithdrawalRequestStatus \cup {"ABSENT"},
           NEW l \in {"NONE", "PENDING", "COMPLETED", "REJECTED"},
           Written(w, s, l)
    PROVE  RowsOK'
  BY DEF RowsOK, Written

\* Debiting and giving back an amount leave integers.
LEMMA MoneyType ==
    ASSUME MoneyOK, NEW w \in Withdrawal, NEW balance \in Int,
           Debit(w, balance) \/ GiveBack(w, balance) \/ UNCHANGED moneyVars
    PROVE  MoneyOK'
  BY AmountAssumption DEF MoneyOK, Debit, GiveBack, moneyVars

\* Applying a result of Paymob leaves rows and integers.
LEMMA ApplyType ==
    ASSUME RowsOK, MoneyOK, NEW w \in Withdrawal, NEW r,
           ApplyPaymobPayoutResult(w, r)
    PROVE  RowsOK' /\ MoneyOK'
<1>1. CASE NotWritten /\ UNCHANGED moneyVars
  BY <1>1 DEF RowsOK, MoneyOK, NotWritten, moneyVars
<1>2. ASSUME NEW l \in {"NONE", "PENDING", "COMPLETED", "REJECTED"},
             Written(w, StatusOf(r), l),
             GiveBack(w, available) \/ UNCHANGED moneyVars
      PROVE  RowsOK' /\ MoneyOK'
  <2>1. StatusOf(r) \in WithdrawalRequestStatus
    BY DEF StatusOf, WithdrawalRequestStatus
  <2>2. available \in Int
    BY DEF MoneyOK
  <2> QED
    BY <1>2, <2>1, <2>2, WrittenType, MoneyType
<1>3. line[w] \in {"NONE", "PENDING", "COMPLETED", "REJECTED"}
  BY DEF RowsOK
<1> QED
  BY <1>1, <1>2, <1>3 DEF ApplyPaymobPayoutResult

\* Every step keeps the shape of every variable.
LEMMA TypeStep == TypeOK /\ [Next]_vars => TypeOK'
<1> SUFFICES ASSUME TypeOK, [Next]_vars PROVE TypeOK'
  OBVIOUS
<1> USE KindAssumption, AmountAssumption, MovesAssumption, LimitAssumption,
        AdminAssumption
<1> USE DEF TypeOK, WithdrawalRequestStatus, Result, rowVars, reqVars,
            gatewayVars, handlerVars, moneyVars
<1>1. CASE UNCHANGED vars
  BY <1>1 DEF vars
<1>2. ASSUME NEW w \in Withdrawal, Request(w) PROVE TypeOK'
  <2>1. CASE Lookup(w)
    BY <2>1 DEF Lookup, Answered, GoTo
  <2>2. ASSUME NEW m \in Moves \cup {0}, Commit(w, m) PROVE TypeOK'
    <3>1. m \in Int /\ available + m \in Int /\ earned + m \in Int
      BY <2>2
    <3>2. RowsOK' /\ MoneyOK'
      BY <2>2, <3>1, WrittenType, MoneyType
         DEF Commit, PaymobRow, IbanRow, ManualRow, RowsOK, MoneyOK
    <3>3. /\ earned' \in Int
          /\ pc' \in [Withdrawal -> { "idle", "checked", "calling", "failing",
                                      "answered", "submitted", "done" }]
          /\ answer' \in [Withdrawal -> Result \cup {"none"}]
      BY <2>2, <3>1 DEF Commit, PaymobRow, IbanRow, ManualRow, Answered, GoTo
    <3> QED
      BY <2>2, <3>2, <3>3
         DEF Commit, PaymobRow, IbanRow, ManualRow, RowsOK, MoneyOK
  <2>3. CASE Rollback(w)
    BY <2>3 DEF Rollback, Answered
  <2>4. CASE CallReturns(w)
    BY <2>4 DEF CallReturns
  <2>5. CASE CallFails(w)
    BY <2>5 DEF CallFails, GoTo
  <2>6. CASE FailSubmission(w)
    BY <2>6 DEF FailSubmission, MarkPayoutSubmissionFailed, Answered, Written,
                GiveBack
  <2>7. CASE Submit(w)
    BY <2>7 DEF Submit, Written, GoTo
  <2>8. CASE ApplyAnswer(w)
    BY <2>8, ApplyType DEF ApplyAnswer, Answered, RowsOK, MoneyOK
  <2>9. CASE Crash(w)
    BY <2>9 DEF Crash, Answered
  <2> QED
    BY <1>2, <2>1, <2>2, <2>3, <2>4, <2>5, <2>6, <2>7, <2>8, <2>9 DEF Request
<1>3. ASSUME NEW w \in Withdrawal, Gateway(w) PROVE TypeOK'
  <2>1. ASSUME NEW r \in Result, PaymobRecords(w, r) PROVE TypeOK'
    BY <2>1 DEF PaymobRecords
  <2>2. ASSUME NEW r \in Result, Webhook(w, r) PROVE TypeOK'
    BY <2>2, ApplyType DEF Webhook, RowsOK, MoneyOK
  <2> QED
    BY <1>3, <2>1, <2>2 DEF Gateway
<1>4. ASSUME NEW w \in Withdrawal, Reconciliation(w) PROVE TypeOK'
  <2> USE DEF SweepReads, SweepDone
  <2>1. CASE Age(w)
    BY <2>1 DEF Age
  <2>2. CASE SweepOrphan(w)
    BY <2>2 DEF SweepOrphan
  <2>3. CASE FailOrphan(w)
    BY <2>3 DEF FailOrphan, MarkPayoutSubmissionFailed, Written, GiveBack
  <2>4. ASSUME NEW r \in Result \cup {"unmatched"}, SweepInquire(w, r)
        PROVE TypeOK'
    BY <2>4 DEF SweepInquire
  <2>5. CASE SweepApply(w)
    BY <2>5, ApplyType DEF SweepApply, RowsOK, MoneyOK
  <2>6. CASE SweepMiss(w)
    <3>1. RowsOK'
      BY <2>6, WrittenType DEF SweepMiss, RowsOK, NotWritten
    <3>2. retry' \in [Withdrawal -> 0..RetryLimit]
      BY <2>6 DEF SweepMiss, MayRetry
    <3> QED
      BY <2>6, <3>1, <3>2 DEF SweepMiss, RowsOK
  <2>7. CASE SweepAborted(w)
    BY <2>7 DEF SweepAborted
  <2> QED
    BY <1>4, <2>1, <2>2, <2>3, <2>4, <2>5, <2>6, <2>7 DEF Reconciliation
<1>5. ASSUME NEW w \in Withdrawal, Admin(w) PROVE TypeOK'
  <2> USE DEF AdminWrites, ReviewReads, ReviewDone, Written
  <2>1. CASE Cancel(w)
    BY <2>1 DEF Cancel, GiveBack
  <2>2. CASE CompletePaymob(w)
    BY <2>2 DEF CompletePaymob, MarkCompleted
  <2>3. CASE ResolveRead(w)
    BY <2>3 DEF ResolveRead
  <2>4. CASE ResolveComplete(w)
    BY <2>4 DEF ResolveComplete, MarkCompleted
  <2>5. CASE RejectInternationalWithdrawal(w)
    BY <2>5 DEF RejectInternationalWithdrawal, GiveBack
  <2>6. CASE RecordCompletion(w)
    BY <2>6 DEF RecordCompletion
  <2>7. ASSUME NEW s \in AdminStatus, ReviewRead(w, s) PROVE TypeOK'
    BY <2>7 DEF ReviewRead
  <2>8. ASSUME NEW m \in Moves \cup {0}, ReviewApply(w, m) PROVE TypeOK'
    <3>1. m \in Int /\ available + m \in Int /\ earned + m \in Int
      BY <2>8
    <3>2. RowsOK'
      BY <2>8, WrittenType DEF ReviewApply, RowsOK
    <3>3. MoneyOK'
      BY <2>8, <3>1 DEF ReviewApply, MoneyOK, Debit, GiveBack
    <3> QED
      BY <2>8, <3>1, <3>2, <3>3 DEF ReviewApply, RowsOK, MoneyOK
  <2>9. CASE ReviewAborted(w)
    BY <2>9 DEF ReviewAborted
  <2> QED
    BY <1>5, <2>1, <2>2, <2>3, <2>4, <2>5, <2>6, <2>7, <2>8, <2>9 DEF Admin
<1>6. CASE Platform
  BY <1>6 DEF Platform, MoveIn, MoveOut
<1> QED
  BY <1>1, <1>2, <1>3, <1>4, <1>5, <1>6 DEF Next

\* Every variable keeps its shape, for every set of requests.
THEOREM TypeCorrect == Spec => []TypeOK
<1>1. Init => TypeOK
  BY LimitAssumption DEF Init, TypeOK
<1> QED
  BY <1>1, TypeStep, PTL DEF Spec

-----------------------------------------------------------------------------
(* The inductive invariant *)

\* Only what Paymob recorded is ever reported, answered or found.
Evidence(w) ==
    "success" \in {answer[w], sweep[w]} \cup reports[w] => paymob[w] = "success"

\* A row exists before anything but its own request works on it; the gateway
\* knows PAYMOB rows only; international rows see no gateway, no
\* reconciliation and no handler that acts on what it read before.
Involved(w) ==
    /\ \/ pc[w] \in {"calling", "failing", "answered", "submitted"}
       \/ paymob[w] # "none"
       \/ reports[w] # {}
       => KindOf[w] = "PAYMOB" /\ Present(w)
    /\ sweep[w] # "idle" => KindOf[w] # "IBAN" /\ Present(w)
    /\ review[w] # "idle" => KindOf[w] # "IBAN" /\ Present(w)
    /\ review[w] \notin {"idle", "resolve"} => KindOf[w] = "MANUAL"

\* An international row is decided once: its amount is held, kept or back.
International(w) ==
    KindOf[w] = "IBAN" =>
        /\ status[w] \in { "ABSENT", "PENDING_REVIEW", "COMPLETED",
                           "REJECTED", "CANCELLED" }
        /\ status[w] \in {"PENDING_REVIEW", "COMPLETED"} => taken[w] = 1
        /\ status[w] = "REJECTED" => taken[w] = 0

\* What the ledger line of a row says about its amount.
Accounted(w) ==
    /\ status[w] = "ABSENT" => taken[w] = 0 /\ line[w] = "NONE"
    /\ KindOf[w] # "MANUAL" =>
         /\ taken[w] <= 1
         /\ line[w] = "PENDING" => taken[w] = 1
         /\ line[w] = "REJECTED" => taken[w] <= 0

Justified(w) ==
    KindOf[w] = "PAYMOB" /\ status[w] = "COMPLETED"
        => paymob[w] = "success" \/ w \in confirmed

RowInv(w) ==
    /\ Evidence(w)
    /\ Involved(w)
    /\ International(w)
    /\ Accounted(w)
    /\ Justified(w)

\* Two rows never share a key.
OneRowPerKey ==
    \A v, w \in Withdrawal :
        Present(v) /\ Present(w) /\ KeyOf[v] = KeyOf[w] => v = w

IInv ==
    /\ \A w \in Withdrawal : RowInv(w)
    /\ OneRowPerKey
    /\ OneActiveIban
    /\ NoOverdraft

\* A step keeps what is known about each single row.
LEMMA RowStep ==
    ASSUME TypeOK, \A w \in Withdrawal : RowInv(w), [Next]_vars,
           NEW v \in Withdrawal
    PROVE  RowInv(v)'
<1> USE KindAssumption, AdminAssumption
<1> USE DEF TypeOK, RowInv, Evidence, Involved, International, Accounted,
            Justified, Present, rowVars, reqVars, gatewayVars, handlerVars,
            moneyVars, Result
<1>0. RowInv(v)
  OBVIOUS
<1>1. CASE UNCHANGED vars
  BY <1>1 DEF vars
<1>2. ASSUME NEW w \in Withdrawal, Request(w) PROVE RowInv(v)'
  <2>0. RowInv(w)
    OBVIOUS
  <2>1. CASE Lookup(w)
    BY <2>1 DEF Lookup, Answered, GoTo
  <2>2. ASSUME NEW m \in Moves \cup {0}, Commit(w, m) PROVE RowInv(v)'
    BY <2>2
       DEF Commit, PaymobRow, IbanRow, ManualRow, UniqueKey, KeyUsed, Answered,
           GoTo, Written, Debit
  <2>3. CASE Rollback(w)
    BY <2>3 DEF Rollback, Answered
  <2>4. CASE CallReturns(w)
    BY <2>4 DEF CallReturns
  <2>5. CASE CallFails(w)
    BY <2>5 DEF CallFails, GoTo
  <2>6. CASE FailSubmission(w)
    BY <2>6 DEF FailSubmission, MarkPayoutSubmissionFailed, Answered, Written,
                GiveBack
  <2>7. CASE Submit(w)
    BY <2>7 DEF Submit, Written, GoTo
  <2>8. CASE ApplyAnswer(w)
    BY <2>8 DEF ApplyAnswer, ApplyPaymobPayoutResult, CanTransition, StatusOf,
                Answered, Written, NotWritten, GiveBack
  <2>9. CASE Crash(w)
    BY <2>9 DEF Crash, Answered
  <2> QED
    BY <1>2, <2>1, <2>2, <2>3, <2>4, <2>5, <2>6, <2>7, <2>8, <2>9 DEF Request
<1>3. ASSUME NEW w \in Withdrawal, Gateway(w) PROVE RowInv(v)'
  <2>0. RowInv(w)
    OBVIOUS
  <2>1. ASSUME NEW r \in Result, PaymobRecords(w, r) PROVE RowInv(v)'
    BY <2>1 DEF PaymobRecords
  <2>2. ASSUME NEW r \in Result, Webhook(w, r) PROVE RowInv(v)'
    BY <2>2 DEF Webhook, ApplyPaymobPayoutResult, CanTransition, StatusOf,
                Written, NotWritten, GiveBack
  <2> QED
    BY <1>3, <2>1, <2>2 DEF Gateway
<1>4. ASSUME NEW w \in Withdrawal, Reconciliation(w) PROVE RowInv(v)'
  <2> USE DEF SweepReads, SweepDone
  <2>0. RowInv(w)
    OBVIOUS
  <2>1. CASE Age(w)
    BY <2>1 DEF Age
  <2>2. CASE SweepOrphan(w)
    BY <2>2 DEF SweepOrphan, Orphaned
  <2>3. CASE FailOrphan(w)
    BY <2>3 DEF FailOrphan, MarkPayoutSubmissionFailed, Written, GiveBack
  <2>4. ASSUME NEW r \in Result \cup {"unmatched"}, SweepInquire(w, r)
        PROVE RowInv(v)'
    BY <2>4 DEF SweepInquire, RECONCILABLE_STATUSES
  <2>5. CASE SweepApply(w)
    BY <2>5 DEF SweepApply, ApplyPaymobPayoutResult, CanTransition, StatusOf,
                Written, NotWritten, GiveBack
  <2>6. CASE SweepMiss(w)
    BY <2>6 DEF SweepMiss, Written, NotWritten
  <2>7. CASE SweepAborted(w)
    BY <2>7 DEF SweepAborted
  <2> QED
    BY <1>4, <2>1, <2>2, <2>3, <2>4, <2>5, <2>6, <2>7 DEF Reconciliation
<1>5. ASSUME NEW w \in Withdrawal, Admin(w) PROVE RowInv(v)'
  <2> USE DEF AdminWrites, ReviewReads, ReviewDone, Written
  <2>0. RowInv(w)
    OBVIOUS
  <2>1. CASE Cancel(w)
    BY <2>1 DEF Cancel, GiveBack, CanTransition
  <2>2. CASE CompletePaymob(w)
    BY <2>2 DEF CompletePaymob, MarkCompleted
  <2>3. CASE ResolveRead(w)
    BY <2>3 DEF ResolveRead
  <2>4. CASE ResolveComplete(w)
    BY <2>4 DEF ResolveComplete, MarkCompleted
  <2>5. CASE RejectInternationalWithdrawal(w)
    BY <2>5 DEF RejectInternationalWithdrawal, Rejectable, GiveBack
  <2>6. CASE RecordCompletion(w)
    BY <2>6 DEF RecordCompletion
  <2>7. ASSUME NEW s \in AdminStatus, ReviewRead(w, s) PROVE RowInv(v)'
    BY <2>7 DEF ReviewRead
  <2>8. ASSUME NEW m \in Moves \cup {0}, ReviewApply(w, m)
        PROVE  RowInv(v)'
    <3>1. KindOf[w] = "MANUAL"
      BY <2>8 DEF ReviewApply, WithdrawalRequestStatus
    <3>2. /\ \A u \in Withdrawal \ {w} :
               /\ status'[u] = status[u]
               /\ line'[u] = line[u]
               /\ taken'[u] = taken[u]
          /\ status[w] # "ABSENT" /\ status'[w] # "ABSENT"
      BY <2>8 DEF ReviewApply, Debit, GiveBack, WithdrawalRequestStatus
    <3>3. /\ UNCHANGED << pc, answer, paymob, reports, sweep, confirmed >>
          /\ review' = [review EXCEPT ![w] = "idle"]
      BY <2>8 DEF ReviewApply
    <3>4. CASE v = w
      BY <3>1, <3>2, <3>3, <3>4
    <3>5. CASE v # w
      BY <3>2, <3>3, <3>5
    <3> QED
      BY <3>4, <3>5
  <2>9. CASE ReviewAborted(w)
    BY <2>9 DEF ReviewAborted
  <2> QED
    BY <1>5, <2>1, <2>2, <2>3, <2>4, <2>5, <2>6, <2>7, <2>8, <2>9 DEF Admin
<1>6. CASE Platform
  BY <1>6 DEF Platform, MoveIn, MoveOut
<1> QED
  BY <1>1, <1>2, <1>3, <1>4, <1>5, <1>6 DEF Next

\* Rows appear by the commit of their own request and by nothing else.
LEMMA RowsAppear ==
    ASSUME TypeOK, \A w \in Withdrawal : RowInv(w), [Next]_vars,
           NEW v \in Withdrawal
    PROVE  \/ status'[v] = status[v]
           \/ Present(v) /\ (KindOf[v] = "IBAN" => status'[v] # "PENDING_REVIEW")
           \/ \E m \in Moves \cup {0} : Commit(v, m)
<1> DEFINE Goal ==
      \/ status'[v] = status[v]
      \/ Present(v) /\ (KindOf[v] = "IBAN" => status'[v] # "PENDING_REVIEW")
      \/ \E m \in Moves \cup {0} : Commit(v, m)
<1> USE KindAssumption, AdminAssumption
<1> USE DEF TypeOK, rowVars, NotWritten, Written
<1>0. RowInv(v)
  OBVIOUS
<1>1. CASE UNCHANGED vars
  BY <1>1 DEF vars
<1>2. ASSUME NEW w \in Withdrawal, Request(w) PROVE Goal
  <2>1. ASSUME NEW m \in Moves \cup {0}, Commit(w, m) PROVE Goal
    <3>1. CASE w = v
      BY <2>1, <3>1
    <3>2. CASE w # v
      BY <2>1, <3>2 DEF Commit, PaymobRow, IbanRow, ManualRow
    <3> QED
      BY <3>1, <3>2
  <2>2. CASE FailSubmission(w) \/ Submit(w) \/ ApplyAnswer(w)
    BY <1>0, <2>2 DEF RowInv, Involved, FailSubmission,
       MarkPayoutSubmissionFailed, Submit, ApplyAnswer, ApplyPaymobPayoutResult,
       StatusOf
  <2>3. CASE Lookup(w) \/ Rollback(w) \/ CallReturns(w) \/ CallFails(w)
               \/ Crash(w)
    BY <2>3 DEF Lookup, Rollback, CallReturns, CallFails, Crash
  <2> QED
    BY <1>2, <2>1, <2>2, <2>3 DEF Request
<1>3. ASSUME NEW w \in Withdrawal, Gateway(w) PROVE Goal
  BY <1>0, <1>3 DEF Gateway, PaymobRecords, Webhook, ApplyPaymobPayoutResult,
     StatusOf, RowInv, Involved
<1>4. ASSUME NEW w \in Withdrawal, Reconciliation(w) PROVE Goal
  <2>1. CASE FailOrphan(w) \/ SweepApply(w)
    BY <1>0, <2>1 DEF FailOrphan, MarkPayoutSubmissionFailed, SweepApply,
       ApplyPaymobPayoutResult, StatusOf, RowInv, Involved, Result
  <2>2. CASE SweepMiss(w)
    BY <1>0, <2>2 DEF SweepMiss, RowInv, Involved
  <2>3. CASE \/ Age(w) \/ SweepOrphan(w) \/ SweepAborted(w)
             \/ \E r \in Result \cup {"unmatched"} : SweepInquire(w, r)
    BY <2>3 DEF Age, SweepOrphan, SweepInquire, SweepAborted, SweepReads
  <2> QED
    BY <1>4, <2>1, <2>2, <2>3 DEF Reconciliation
<1>5. ASSUME NEW w \in Withdrawal, Admin(w) PROVE Goal
  <2>1. CASE Cancel(w) \/ CompletePaymob(w) \/ ResolveComplete(w)
               \/ RejectInternationalWithdrawal(w) \/ RecordCompletion(w)
    BY <1>0, <2>1 DEF Cancel, CompletePaymob, ResolveComplete, MarkCompleted,
       RejectInternationalWithdrawal, Rejectable, RecordCompletion, AdminWrites,
       CanTransition, Present, WithdrawalRequestStatus
  <2>2. ASSUME NEW m \in Moves \cup {0}, ReviewApply(w, m) PROVE Goal
    BY <1>0, <2>2 DEF ReviewApply, AdminWrites, RowInv, Involved,
       WithdrawalRequestStatus
  <2>3. CASE \/ ResolveRead(w) \/ ReviewAborted(w)
             \/ \E s \in AdminStatus : ReviewRead(w, s)
    BY <2>3 DEF ResolveRead, ReviewAborted, ReviewRead, ReviewReads
  <2> QED
    BY <1>5, <2>1, <2>2, <2>3 DEF Admin
<1>6. CASE Platform
  BY <1>6 DEF Platform, MoveIn, MoveOut
<1> QED
  BY <1>1, <1>2, <1>3, <1>4, <1>5, <1>6 DEF Next

\* The balance is only debited by what it covers.
LEMMA BalanceStep == TypeOK /\ NoOverdraft /\ [Next]_vars => NoOverdraft'
<1> SUFFICES ASSUME TypeOK, NoOverdraft, [Next]_vars PROVE NoOverdraft'
  OBVIOUS
<1> USE AmountAssumption, MovesAssumption
<1> USE DEF TypeOK, NoOverdraft, moneyVars
<1>1. CASE available' = available
  BY <1>1
<1>2. ASSUME NEW w \in Withdrawal, NEW m \in Moves \cup {0}, Commit(w, m)
      PROVE  NoOverdraft'
  BY <1>2 DEF Commit, PaymobRow, IbanRow, ManualRow, Spendable, Debit
<1>3. ASSUME NEW w \in Withdrawal, GiveBack(w, available) PROVE NoOverdraft'
  BY <1>3 DEF GiveBack
<1>4. ASSUME NEW w \in Withdrawal, NEW m \in Moves \cup {0},
             ReviewApply(w, m)
      PROVE  NoOverdraft'
  BY <1>4 DEF ReviewApply, Debit, GiveBack
<1>5. CASE Platform
  BY <1>5 DEF Platform, MoveIn, MoveOut
<1>6. ASSUME NEW w \in Withdrawal, Request(w) PROVE NoOverdraft'
  BY <1>1, <1>2, <1>3, <1>6 DEF Request, Lookup, Rollback, CallReturns,
     CallFails, FailSubmission, MarkPayoutSubmissionFailed, Submit, ApplyAnswer,
     ApplyPaymobPayoutResult, Crash
<1>7. ASSUME NEW w \in Withdrawal, Gateway(w) PROVE NoOverdraft'
  BY <1>1, <1>3, <1>7 DEF Gateway, PaymobRecords, Webhook,
     ApplyPaymobPayoutResult
<1>8. ASSUME NEW w \in Withdrawal, Reconciliation(w) PROVE NoOverdraft'
  BY <1>1, <1>3, <1>8 DEF Reconciliation, Age, SweepOrphan, SweepInquire,
     SweepReads, FailOrphan, MarkPayoutSubmissionFailed, SweepApply,
     ApplyPaymobPayoutResult, SweepMiss, SweepAborted
<1>9. ASSUME NEW w \in Withdrawal, Admin(w) PROVE NoOverdraft'
  BY <1>1, <1>3, <1>4, <1>9 DEF Admin, Cancel, CompletePaymob, ResolveRead,
     ResolveComplete, MarkCompleted, ReviewReads,
     RejectInternationalWithdrawal, RecordCompletion, ReviewRead, ReviewAborted
<1>10. CASE UNCHANGED vars
  BY <1>1, <1>10 DEF vars
<1> QED
  BY <1>5, <1>6, <1>7, <1>8, <1>9, <1>10 DEF Next

\* Every step keeps the inductive invariant.
LEMMA InvariantStep == TypeOK /\ IInv /\ [Next]_vars => IInv'
<1> SUFFICES ASSUME TypeOK, IInv, [Next]_vars PROVE IInv'
  OBVIOUS
<1> USE DEF IInv
<1>1. \A v \in Withdrawal : RowInv(v)'
  BY RowStep
<1>2. OneRowPerKey'
  <2> SUFFICES ASSUME NEW v \in Withdrawal, NEW w \in Withdrawal,
                      Present(v)', Present(w)', KeyOf[v] = KeyOf[w], v # w
               PROVE  FALSE
    BY DEF OneRowPerKey, Present
  <2>1. ASSUME NEW x \in Withdrawal, NEW y \in Withdrawal, x # y,
               KeyOf[x] = KeyOf[y], Present(y)',
               NEW m \in Moves \cup {0}, Commit(x, m)
        PROVE  FALSE
    BY <2>1
       DEF Commit, PaymobRow, IbanRow, ManualRow, UniqueKey, KeyUsed, Present,
           Written, TypeOK
  <2>2. Present(v) \/ \E m \in Moves \cup {0} : Commit(v, m)
    BY RowsAppear DEF Present
  <2>3. Present(w) \/ \E m \in Moves \cup {0} : Commit(w, m)
    BY RowsAppear DEF Present
  <2> QED
    BY <2>1, <2>2, <2>3 DEF OneRowPerKey
<1>3. OneActiveIban'
  <2> SUFFICES ASSUME NEW v \in Withdrawal, NEW w \in Withdrawal, v # w,
                      KindOf[v] = "IBAN", status'[v] = "PENDING_REVIEW",
                      KindOf[w] = "IBAN", status'[w] = "PENDING_REVIEW"
               PROVE  FALSE
    BY DEF OneActiveIban
  <2>1. ASSUME NEW x \in Withdrawal, NEW y \in Withdrawal, x # y,
               KindOf[x] = "IBAN", KindOf[y] = "IBAN",
               status'[y] = "PENDING_REVIEW",
               NEW m \in Moves \cup {0}, Commit(x, m)
        PROVE  FALSE
    BY <2>1
       DEF Commit, PaymobRow, IbanRow, ManualRow, IbanFree, Written, TypeOK
  <2>2. status[v] = "PENDING_REVIEW" \/ \E m \in Moves \cup {0} : Commit(v, m)
    BY RowsAppear
  <2>3. status[w] = "PENDING_REVIEW" \/ \E m \in Moves \cup {0} : Commit(w, m)
    BY RowsAppear
  <2> QED
    BY <2>1, <2>2, <2>3 DEF OneActiveIban
<1>4. NoOverdraft'
  BY BalanceStep
<1> QED
  BY <1>1, <1>2, <1>3, <1>4

\* The inductive invariant holds in every reachable state.
THEOREM Invariance == Spec => [](TypeOK /\ IInv)
<1>1. Init => TypeOK
  BY LimitAssumption DEF Init, TypeOK
<1>2. Init => IInv
  BY DEF Init, IInv, RowInv, Evidence, Involved, International, Accounted,
         Justified, OneRowPerKey, Present, OneActiveIban, NoOverdraft
<1> QED
  BY <1>1, <1>2, TypeStep, InvariantStep, PTL DEF Spec

-----------------------------------------------------------------------------
(* The properties *)

\* The wallet is never overdrawn, whatever the amounts and however many
\* requests, admins and other modules move money at once.
THEOREM NeverOverdrawn == Spec => []NoOverdraft
<1>1. TypeOK /\ IInv => NoOverdraft
  BY DEF IInv
<1> QED
  BY <1>1, Invariance, PTL

\* A repeated Idempotency-Key leads to one transfer at most.
THEOREM KeyPaysOnce == Spec => []OneTransferPerKey
<1>1. TypeOK /\ IInv => OneTransferPerKey
  BY DEF IInv, RowInv, Involved, OneRowPerKey, OneTransferPerKey, Present
<1> QED
  BY <1>1, Invariance, PTL

\* At most one international request of the engineer is open.
THEOREM IbanExclusive == Spec => []OneActiveIban
<1>1. TypeOK /\ IInv => OneActiveIban
  BY DEF IInv
<1> QED
  BY <1>1, Invariance, PTL

\* The ledger line of a PAYMOB or IBAN row tells whether its amount is held.
THEOREM LedgerCorrect == Spec => []LedgerMatchesHold
<1>1. TypeOK /\ IInv => LedgerMatchesHold
  BY DEF IInv, RowInv, Accounted, LedgerMatchesHold
<1> QED
  BY <1>1, Invariance, PTL

\* A completed international request keeps the amount, a rejected one gives
\* it back once.
THEOREM IbanSettledOnce == Spec => []IbanPaidOrReturned
<1>1. TypeOK /\ IInv => IbanPaidOrReturned
  BY DEF IInv, RowInv, International, IbanPaidOrReturned
<1> QED
  BY <1>1, Invariance, PTL

\* No PAYMOB row is COMPLETED without Paymob's success or an admin's word.
THEOREM CompletionJustified == Spec => []CompletedIsJustified
<1>1. TypeOK /\ IInv => CompletedIsJustified
  BY DEF IInv, RowInv, Justified, CompletedIsJustified
<1> QED
  BY <1>1, Invariance, PTL

\* A step leaves the status of a decided international row alone.
LEMMA DecidedStays ==
    ASSUME TypeOK, \A w \in Withdrawal : RowInv(w), [Next]_vars,
           NEW v \in Withdrawal, KindOf[v] = "IBAN",
           status[v] \in TERMINAL_PAYOUT_STATUSES
    PROVE  status'[v] = status[v]
<1> USE DEF TypeOK, rowVars, NotWritten, Written
<1>0. /\ status[v] \in {"COMPLETED", "REJECTED", "CANCELLED"}
      /\ sweep[v] = "idle" /\ review[v] = "idle" /\ reports[v] = {}
      /\ pc[v] \notin {"calling", "failing", "answered", "submitted"}
  BY DEF RowInv, International, Involved, TERMINAL_PAYOUT_STATUSES
<1>1. CASE UNCHANGED vars
  BY <1>1 DEF vars
<1>2. ASSUME NEW w \in Withdrawal, Request(w) PROVE status'[v] = status[v]
  <2>1. ASSUME NEW m \in Moves \cup {0}, Commit(w, m)
        PROVE  status'[v] = status[v]
    BY <1>0, <2>1
       DEF Commit, PaymobRow, IbanRow, ManualRow, UniqueKey, KeyUsed, Present
  <2>2. CASE FailSubmission(w) \/ Submit(w) \/ ApplyAnswer(w)
    BY <1>0, <2>2 DEF FailSubmission, MarkPayoutSubmissionFailed, Submit,
       ApplyAnswer, ApplyPaymobPayoutResult
  <2>3. CASE Lookup(w) \/ Rollback(w) \/ CallReturns(w) \/ CallFails(w)
               \/ Crash(w)
    BY <2>3 DEF Lookup, Rollback, CallReturns, CallFails, Crash
  <2> QED
    BY <1>2, <2>1, <2>2, <2>3 DEF Request
<1>3. ASSUME NEW w \in Withdrawal, Gateway(w) PROVE status'[v] = status[v]
  BY <1>0, <1>3 DEF Gateway, PaymobRecords, Webhook, ApplyPaymobPayoutResult
<1>4. ASSUME NEW w \in Withdrawal, Reconciliation(w)
      PROVE  status'[v] = status[v]
  BY <1>0, <1>4 DEF Reconciliation, Age, SweepOrphan, SweepInquire, SweepReads,
     FailOrphan, MarkPayoutSubmissionFailed, SweepApply,
     ApplyPaymobPayoutResult, SweepMiss, SweepAborted, Result
<1>5. ASSUME NEW w \in Withdrawal, Admin(w) PROVE status'[v] = status[v]
  <2>1. CASE Cancel(w)
    BY <1>0, <2>1 DEF Cancel, AdminWrites, CanTransition, ALLOWED_TRANSITIONS
  <2>2. CASE CompletePaymob(w) \/ ResolveComplete(w) \/ RecordCompletion(w)
               \/ RejectInternationalWithdrawal(w)
    BY <1>0, <2>2 DEF CompletePaymob, ResolveComplete, MarkCompleted,
       RecordCompletion, RejectInternationalWithdrawal, Rejectable, AdminWrites
  <2>3. ASSUME NEW m \in Moves \cup {0}, ReviewApply(w, m)
        PROVE  status'[v] = status[v]
    BY <1>0, <2>3, AdminAssumption DEF ReviewApply, AdminWrites,
       WithdrawalRequestStatus
  <2>4. CASE \/ ResolveRead(w) \/ ReviewAborted(w)
             \/ \E s \in AdminStatus : ReviewRead(w, s)
    BY <2>4 DEF ResolveRead, ReviewAborted, ReviewRead, ReviewReads
  <2> QED
    BY <1>5, <2>1, <2>2, <2>3, <2>4 DEF Admin
<1>6. CASE Platform
  BY <1>6 DEF Platform, MoveIn, MoveOut
<1> QED
  BY <1>1, <1>2, <1>3, <1>4, <1>5, <1>6 DEF Next

\* A decided international request keeps its outcome for ever.
THEOREM IbanDecidedOnce == Spec => IbanFinal
<1>1. TypeOK /\ IInv /\ [Next]_vars =>
        [\A w \in Withdrawal :
            /\ KindOf[w] = "IBAN"
            /\ status[w] \in TERMINAL_PAYOUT_STATUSES
            => status'[w] = status[w]]_vars
  BY DecidedStays DEF IInv
<1> QED
  BY <1>1, Invariance, PTL DEF Spec, IbanFinal
=============================================================================
