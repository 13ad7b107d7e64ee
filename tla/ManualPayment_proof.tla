------------------------- MODULE ManualPayment_proof -------------------------
(***************************************************************************)
(* Proofs about ManualPayment, for any number of clerks, submissions and   *)
(* references, however often money comes in: its invariants, and that it   *)
(* implements EscrowFunding.  And about Destinations, for any methods and  *)
(* accounts: the destination noted down is the one the sender was shown.   *)
(***************************************************************************)
EXTENDS ManualPayment, Destinations, TLAPS

\* No checkout has read a payment that was received.
CheckoutsRefuse ==
    \A c \in Clerk :
        clerk[c].task = "checkout" => clerk[c].saw \notin {"FUNDED", "RELEASED"}

\* The index on waiting submissions.
OneWaiting == \A s, t \in Waiting : s = t

IInv == PaymentTypeOK /\ CheckoutsRefuse /\ ReceivedOnce /\ OneWaiting

-----------------------------------------------------------------------------
(* Types *)

\* A clerk who submits holds a reference, one who verifies a submission.
RowsFit ==
    \A c \in Clerk :
        /\ clerk[c].task = "submit" => clerk[c].row \in Reference
        /\ clerk[c].task = "verify" => clerk[c].row \in Submission
TypeInv == PaymentTypeOK /\ RowsFit
Tasks == {"none", "submit", "verify", "checkout", "notice", "dispute"}
ClerkShape ==
    [Clerk -> [task : Tasks,
               row : Submission \cup Reference \cup {NoRow},
               saw : ProjectPhase \cup EscrowStatus]]

\* A clerk who starts or stops leaves everything in shape.
LEMMA TakesType ==
    ASSUME TypeInv, NEW c \in Clerk,
           NEW task \in Tasks,
           NEW row \in Submission \cup Reference \cup {NoRow},
           NEW saw \in ProjectPhase \cup EscrowStatus,
           Takes(c, task, row, saw),
           task = "submit" => row \in Reference,
           task = "verify" => row \in Submission
    PROVE  TypeInv'
<1>1. clerk' \in ClerkShape
  BY DEF TypeInv, PaymentTypeOK, Takes, ClerkShape, Tasks
<1>2. RowsFit'
  BY DEF TypeInv, PaymentTypeOK, Takes, RowsFit
<1> QED
  BY <1>1, <1>2 DEF TypeInv, PaymentTypeOK, Takes, ClerkShape, Tasks, moneyVars
LEMMA FreesType ==
    ASSUME TypeInv, NEW c \in Clerk, Frees(c)
    PROVE  clerk' \in ClerkShape /\ RowsFit'
<1>1. Free \in [task : Tasks,
               row : Submission \cup Reference \cup {NoRow},
               saw : ProjectPhase \cup EscrowStatus]
  BY DEF Free, EscrowStatus, Tasks
<1>2. clerk' \in ClerkShape
  BY <1>1 DEF TypeInv, PaymentTypeOK, Frees, ClerkShape, Tasks
<1>3. Free.task = "none"
  BY DEF Free
<1>4. RowsFit'
  BY <1>3 DEF TypeInv, PaymentTypeOK, Frees, RowsFit
<1> QED
  BY <1>2, <1>4

\* The shapes, and what clerks hold.
LEMMA Typed == PaymentSpec => []TypeInv
<1>1. PaymentInit => TypeInv
  <2> SUFFICES ASSUME PaymentInit PROVE TypeInv
    OBVIOUS
  <2>1. Free \in [task : Tasks,
                  row : Submission \cup Reference \cup {NoRow},
                  saw : ProjectPhase \cup EscrowStatus]
    BY DEF Free, EscrowStatus, Tasks
  <2>2. \A c \in Clerk : clerk[c].task = "none"
    BY DEF PaymentInit, Free
  <2>3. clerk \in ClerkShape
    BY <2>1 DEF PaymentInit, ClerkShape
  <2> QED
    BY <2>2, <2>3 DEF PaymentInit, TypeInv, PaymentTypeOK, RowsFit, ClerkShape,
                      Tasks, ProjectPhase, EscrowStatus
<1>2. TypeInv /\ [PaymentNext]_paymentVars => TypeInv'
  <2> SUFFICES ASSUME TypeInv, [PaymentNext]_paymentVars
               PROVE  TypeInv'
    OBVIOUS
  <2>1. ASSUME NEW c \in Clerk, NEW r \in Reference, SubmitRead(c, r)
        PROVE  TypeInv'
    BY <2>1, TakesType DEF SubmitRead, TypeInv, PaymentTypeOK, Tasks
  <2>2. ASSUME NEW c \in Clerk, NEW s \in Submission, Submit(c, s)
        PROVE  TypeInv'
    <3>1. clerk[c].row \in Reference
      BY <2>2 DEF TypeInv, RowsFit, Submit
    <3>2. transfer' \in [Submission -> Reference \cup {NoRow}]
      BY <2>2, <3>1 DEF TypeInv, PaymentTypeOK, Submit
    <3> QED
      BY <2>2, <3>2, FreesType
         DEF TypeInv, PaymentTypeOK, Submit, ClerkShape, Tasks, moneyVars
  <2>3. ASSUME NEW c \in Clerk, NEW s \in Submission, VerifyRead(c, s)
        PROVE  TypeInv'
    BY <2>3, TakesType DEF VerifyRead, TypeInv, PaymentTypeOK, Tasks
  <2>4. ASSUME NEW c \in Clerk, Verify(c)
        PROVE  TypeInv'
    <3>1. review' \in [Submission -> {"NONE", "PENDING", "VERIFIED", "REJECTED"}]
      BY <2>4 DEF TypeInv, PaymentTypeOK, Verify, Decided
    <3> QED
      BY <2>4, <3>1, FreesType
         DEF TypeInv, PaymentTypeOK, Verify, Records, ProjectPhase, EscrowStatus,
             ClerkShape, Tasks
  <2>5. ASSUME NEW c \in Clerk,
               PrepareRead(c) \/ NoticeRead(c) \/ DisputeRead(c)
        PROVE  TypeInv'
    BY <2>5, TakesType
       DEF PrepareRead, NoticeRead, DisputeRead, TypeInv, PaymentTypeOK, Tasks
  <2>6. ASSUME NEW c \in Clerk, PrepareRow(c)
        PROVE  TypeInv'
    <3>1. clerk' \in ClerkShape
      BY <2>6 DEF PrepareRow, TypeInv, PaymentTypeOK, ClerkShape, Tasks,
                  EscrowStatus
    <3>2. RowsFit'
      BY <2>6 DEF PrepareRow, TypeInv, PaymentTypeOK, RowsFit
    <3> QED
      BY <2>6, <3>1, <3>2 DEF PrepareRow, TypeInv, PaymentTypeOK, ClerkShape,
                              Tasks, EscrowStatus, moneyVars
  <2>7. ASSUME NEW c \in Clerk, Prepare(c)
        PROVE  TypeInv'
    <3>1. overtaken' \in BOOLEAN
      BY <2>7 DEF Prepare
    <3> QED
      BY <2>7, <3>1, FreesType DEF TypeInv, PaymentTypeOK, Prepare, EscrowStatus,
                                   ClerkShape, Tasks
  <2>8. ASSUME NEW c \in Clerk, GiveUp(c) \/ Notice(c)
        PROVE  TypeInv'
    BY <2>8, FreesType DEF TypeInv, PaymentTypeOK, GiveUp, Notice, ProjectPhase,
                           ClerkShape, Tasks, moneyVars
  <2>9. ASSUME NEW c \in Clerk, Disputes(c)
        PROVE  TypeInv'
    <3>1. overtaken' \in BOOLEAN
      BY <2>9 DEF Disputes
    <3> QED
      BY <2>9, <3>1, FreesType DEF TypeInv, PaymentTypeOK, Disputes, ProjectPhase,
                                   EscrowStatus, ClerkShape, Tasks
  <2>10. ASSUME NEW s \in Submission, Reject(s)
         PROVE  TypeInv'
    BY <2>10 DEF TypeInv, PaymentTypeOK, RowsFit, Reject, moneyVars
  <2>11. CASE GatewayFunds
    BY <2>11 DEF TypeInv, PaymentTypeOK, RowsFit, GatewayFunds, Records,
                 ProjectPhase, EscrowStatus
  <2>12. CASE Releases \/ Refunds
    BY <2>12 DEF TypeInv, PaymentTypeOK, RowsFit, Releases, Refunds,
                 ProjectPhase, EscrowStatus, moneyVars
  <2>13. ASSUME Reopens \/ \E p \in Written : Writes(p)
         PROVE  TypeInv'
    BY <2>13, WrittenAssumption
       DEF TypeInv, PaymentTypeOK, RowsFit, Reopens, Writes, ProjectPhase,
           moneyVars
  <2>14. CASE UNCHANGED paymentVars
    BY <2>14 DEF TypeInv, PaymentTypeOK, RowsFit, paymentVars, moneyVars
  <2> QED
    BY <2>1, <2>2, <2>3, <2>4, <2>5, <2>6, <2>7, <2>8, <2>9, <2>10, <2>11,
       <2>12, <2>13, <2>14 DEF PaymentNext
<1> QED
  BY <1>1, <1>2, PTL DEF PaymentSpec

\* Every variable keeps its shape.
THEOREM PaymentTypes == PaymentSpec => []PaymentTypeOK
  BY Typed, PTL DEF TypeInv

-----------------------------------------------------------------------------
(* What is paid *)

\* A checkout that begins finds the payment not received, and what it then
\* remembers of it stays as it was, but for the row it creates.
LEMMA CheckoutsStay ==
    ASSUME IInv, [PaymentNext]_paymentVars
    PROVE  CheckoutsRefuse'
<1> USE DEF IInv, CheckoutsRefuse, PaymentTypeOK
<1>1. ASSUME UNCHANGED clerk PROVE CheckoutsRefuse'
  BY <1>1
<1>2. ASSUME NEW c \in Clerk, Frees(c) PROVE CheckoutsRefuse'
  BY <1>2 DEF Frees, Free
<1>3. ASSUME NEW c \in Clerk, NEW task, NEW row, NEW saw, Takes(c, task, row, saw),
             task = "checkout" => saw \notin {"FUNDED", "RELEASED"}
      PROVE  CheckoutsRefuse'
  BY <1>3 DEF Takes
<1>4. ASSUME NEW c \in Clerk, PrepareRow(c) PROVE CheckoutsRefuse'
  BY <1>4 DEF PrepareRow
<1>5. ASSUME NEW c \in Clerk,
             PrepareRead(c) \/ NoticeRead(c) \/ DisputeRead(c)
             \/ (\E r \in Reference : SubmitRead(c, r))
             \/ (\E s \in Submission : VerifyRead(c, s))
      PROVE  CheckoutsRefuse'
  BY <1>3, <1>5 DEF PrepareRead, MayPrepare, Received, NoticeRead, DisputeRead,
                    SubmitRead, VerifyRead
<1>6. ASSUME NEW c \in Clerk,
             Verify(c) \/ GiveUp(c) \/ Prepare(c) \/ Notice(c) \/ Disputes(c)
             \/ (\E s \in Submission : Submit(c, s))
      PROVE  CheckoutsRefuse'
  BY <1>2, <1>6 DEF Verify, GiveUp, Prepare, Notice, Disputes, Submit
<1>7. ASSUME \/ \E s \in Submission : Reject(s)
             \/ GatewayFunds \/ Releases \/ Refunds \/ Reopens
             \/ \E p \in Written : Writes(p)
             \/ UNCHANGED paymentVars
      PROVE  CheckoutsRefuse'
  BY <1>1, <1>7 DEF Reject, GatewayFunds, Releases, Refunds, Reopens, Writes,
                    paymentVars
<1> QED
  BY <1>4, <1>5, <1>6, <1>7 DEF PaymentNext

\* The inductive invariant of the review of manual payments.
THEOREM PaymentInvariance == PaymentSpec => []IInv
<1>1. PaymentInit => CheckoutsRefuse /\ ReceivedOnce /\ OneWaiting
  <2> SUFFICES ASSUME PaymentInit PROVE CheckoutsRefuse /\ ReceivedOnce /\ OneWaiting
    OBVIOUS
  <2>1. Waiting = {} /\ Verified = {}
    BY DEF PaymentInit, Waiting, Verified
  <2>2. \A c \in Clerk : clerk[c].task = "none"
    BY DEF PaymentInit, Free
  <2> QED
    BY <2>1, <2>2 DEF PaymentInit, ReceivedOnce, OneWaiting, Received, CheckoutsRefuse
<1>2. IInv /\ TypeInv' /\ [PaymentNext]_paymentVars => (ReceivedOnce /\ OneWaiting)'
  <2> SUFFICES ASSUME IInv, TypeInv', [PaymentNext]_paymentVars
               PROVE  ReceivedOnce' /\ OneWaiting'
    OBVIOUS
  <2>1. ASSUME UNCHANGED << escrow, review, noted, moneyVars >>
        PROVE  ReceivedOnce' /\ OneWaiting'
    BY <2>1 DEF IInv, ReceivedOnce, OneWaiting, Waiting, Verified, Received, moneyVars
  <2>2. ASSUME NEW c \in Clerk, NEW s \in Submission, Submit(c, s)
        PROVE  ReceivedOnce' /\ OneWaiting'
    <3>1. Waiting' = {s} /\ Verified' = Verified
      BY <2>2 DEF IInv, PaymentTypeOK, Submit, NoneWaiting, Waiting, Verified
    <3> QED
      BY <2>2, <3>1 DEF IInv, ReceivedOnce, OneWaiting, Submit, Received, moneyVars
  <2>3. ASSUME Unpaid, Records, escrow' = "FUNDED", receipts' = receipts + 1,
               UNCHANGED << repaid, overtaken >>
        PROVE  ReceivedOnce'
    <3>1. ~overtaken => /\ receipts = repaid
                        /\ repaid = 0 => noted = 0
      BY <2>3 DEF IInv, PaymentTypeOK, ReceivedOnce, Unpaid, Received
    <3>2. Received'
      BY <2>3 DEF Received
    <3> QED
      BY <2>3, <3>1, <3>2 DEF IInv, PaymentTypeOK, ReceivedOnce, Records
  <2>4. ASSUME NEW c \in Clerk, Verify(c)
        PROVE  ReceivedOnce' /\ OneWaiting'
    <3>1. Waiting' = {}
      BY <2>4 DEF IInv, PaymentTypeOK, Verify, Decided, Waiting
    <3>2. ReceivedOnce'
      BY <2>3, <2>4 DEF Verify
    <3> QED
      BY <3>1, <3>2 DEF OneWaiting
  <2>5. CASE GatewayFunds
    <3>1. Waiting' = Waiting
      BY <2>5 DEF GatewayFunds, Waiting
    <3>2. ReceivedOnce'
      BY <2>3, <2>5 DEF GatewayFunds
    <3> QED
      BY <3>1, <3>2 DEF IInv, OneWaiting
  <2>6. ASSUME NEW s \in Submission, Reject(s)
        PROVE  ReceivedOnce' /\ OneWaiting'
    <3>1. Waiting' \subseteq Waiting /\ Verified' = Verified
      BY <2>6 DEF IInv, PaymentTypeOK, Reject, Waiting, Verified
    <3> QED
      BY <2>6, <3>1 DEF IInv, ReceivedOnce, OneWaiting, Reject, Received, moneyVars
  <2>7. ASSUME NEW c \in Clerk, PrepareRow(c) \/ Prepare(c) \/ Disputes(c)
        PROVE  ReceivedOnce' /\ OneWaiting'
    <3>1. Waiting' = Waiting /\ Verified' = Verified
      BY <2>7 DEF PrepareRow, Prepare, Disputes, Waiting, Verified
    <3>2. UNCHANGED << noted, receipts, repaid >>
      BY <2>7 DEF PrepareRow, Prepare, Disputes, moneyVars
    <3>3. ~overtaken' => ~overtaken /\ (Received' <=> Received)
      <4>1. CASE PrepareRow(c)
        <5>1. ~Received /\ ~Received'
          BY <4>1 DEF PrepareRow, Received
        <5>2. overtaken' = overtaken
          BY <4>1 DEF PrepareRow, moneyVars
        <5> QED
          BY <5>1, <5>2, Zenon
      <4>2. CASE Prepare(c)
        <5>1. Received => escrow # clerk[c].saw
          BY <4>2 DEF IInv, CheckoutsRefuse, Prepare, Received
        <5>2. ~overtaken' => ~overtaken /\ ~Received
          BY <4>2, <5>1, Zenon DEF Prepare
        <5>3. ~Received'
          BY <4>2 DEF Prepare, Received
        <5> QED
          BY <5>2, <5>3, Zenon
      <4>3. CASE Disputes(c)
        <5>1. ~overtaken' => ~overtaken /\ escrow = "FUNDED"
          BY <4>3, Zenon DEF Disputes
        <5>2. Received'
          BY <4>3 DEF Disputes, Received
        <5>3. escrow = "FUNDED" => Received
          BY DEF Received
        <5> QED
          BY <5>1, <5>2, <5>3, Zenon
      <4> QED
        BY <2>7, <4>1, <4>2, <4>3
    <3>4. ReceivedOnce'
      <4> SUFFICES ASSUME ~overtaken'
                   PROVE  /\ receipts' = repaid' + (IF Received' THEN 1 ELSE 0)
                          /\ repaid' = 0 => /\ receipts' = noted'
                                            /\ Verified' # {} => Received'
        BY Zenon DEF ReceivedOnce
      <4>1. /\ receipts = repaid + (IF Received THEN 1 ELSE 0)
            /\ repaid = 0 => receipts = noted /\ (Verified # {} => Received)
        BY <3>3, Zenon DEF IInv, ReceivedOnce
      <4> QED
        BY <3>1, <3>2, <3>3, <4>1
    <3> QED
      BY <3>1, <3>4 DEF IInv, OneWaiting
  <2>8. CASE Releases
    BY <2>8 DEF IInv, ReceivedOnce, OneWaiting, Waiting, Verified, Releases, Received,
                moneyVars
  <2>9. CASE Refunds
    <3>1. Waiting' = Waiting /\ Received /\ ~Received' /\ repaid' # 0
      BY <2>9 DEF IInv, PaymentTypeOK, Refunds, Waiting, Received
    <3>2. ~overtaken' => receipts' = repaid'
      BY <2>9, <3>1 DEF IInv, PaymentTypeOK, ReceivedOnce, Refunds
    <3>3. ReceivedOnce'
      <4> SUFFICES ASSUME ~overtaken'
                   PROVE  receipts' = repaid' + (IF Received' THEN 1 ELSE 0)
        BY <3>1, Zenon DEF ReceivedOnce
      <4>1. repaid' \in Nat
        BY DEF TypeInv, PaymentTypeOK
      <4>2. (IF Received' THEN 1 ELSE 0) = 0
        BY <3>1, Zenon
      <4>3. receipts' = repaid'
        BY <3>2, Zenon
      <4>4. repaid' + 0 = repaid'
        <5>1. \A n \in Nat : n + 0 = n
          OBVIOUS
        <5> QED
          BY <4>1, <5>1, Zenon
      <4> QED
        BY <4>2, <4>3, <4>4, Zenon
    <3> QED
      BY <3>1, <3>3 DEF IInv, OneWaiting
  <2>10. ASSUME NEW c \in Clerk,
                PrepareRead(c) \/ GiveUp(c) \/ NoticeRead(c) \/ Notice(c)
                \/ DisputeRead(c) \/ (\E r \in Reference : SubmitRead(c, r))
                \/ (\E s \in Submission : VerifyRead(c, s))
         PROVE  ReceivedOnce' /\ OneWaiting'
    BY <2>1, <2>10 DEF PrepareRead, GiveUp, NoticeRead, Notice, DisputeRead,
                       SubmitRead, VerifyRead, Takes
  <2>11. ASSUME Reopens \/ (\E p \in Written : Writes(p)) \/ UNCHANGED paymentVars
         PROVE  ReceivedOnce' /\ OneWaiting'
    BY <2>1, <2>11 DEF Reopens, Writes, paymentVars
  <2> QED
    BY <2>2, <2>4, <2>5, <2>6, <2>7, <2>8, <2>9, <2>10, <2>11 DEF PaymentNext
<1>3. TypeInv => PaymentTypeOK
  BY DEF TypeInv
<1>4. PaymentTypeOK /\ CheckoutsRefuse /\ ReceivedOnce /\ OneWaiting => IInv
  BY DEF IInv
<1>5. IInv /\ [PaymentNext]_paymentVars => CheckoutsRefuse'
  BY CheckoutsStay
<1> QED
  BY <1>1, <1>2, <1>3, <1>4, <1>5, Typed, PTL DEF PaymentSpec

\* Money is taken as received once, whoever confirms it, and again only after
\* it was refunded; until then a payment with a verified submission is paid.
THEOREM MoneyReceivedOnce == PaymentSpec => []ReceivedOnce
<1>1. IInv => ReceivedOnce
  BY DEF IInv
<1> QED
  BY <1>1, PaymentInvariance, PTL

-----------------------------------------------------------------------------
(* The refinement *)

\* The decisions EscrowFunding sees are those of the submissions' statuses.
LEMMA DecisionsMatch ==
    ASSUME PaymentTypeOK
    PROVE  Abstract!Open = Waiting /\ Abstract!Accepted = Verified
BY DEF PaymentTypeOK, Abstract!Open, Abstract!Accepted, Waiting, Verified,
       DecisionOf

\* What no submission and no receipt tells apart is no step of EscrowFunding.
LEMMA Stutters ==
    ASSUME UNCHANGED << review, noted >>
    PROVE  UNCHANGED << [s \in Submission |-> DecisionOf(review[s])],
                        noted > 0 >>
BY DEF DecisionOf

\* A submission is an offer of evidence.
LEMMA SubmitOffers ==
    ASSUME IInv, NEW c \in Clerk, NEW s \in Submission, Submit(c, s)
    PROVE  Abstract!Offer(s)
<1>1. Abstract!Open = {}
  BY DecisionsMatch DEF IInv, Submit, NoneWaiting
<1>2. review' = [review EXCEPT ![s] = "PENDING"] /\ noted' = noted
  BY DEF Submit
<1>3. DecisionOf(review[s]) = "none"
  BY DEF Submit, DecisionOf
<1>4. [x \in Submission |-> DecisionOf(review[x])]'
        = [[x \in Submission |-> DecisionOf(review[x])] EXCEPT ![s] = "open"]
  BY <1>2 DEF IInv, PaymentTypeOK, DecisionOf
<1> QED
  BY <1>1, <1>2, <1>3, <1>4 DEF Abstract!Offer

\* A rejection declines it.
LEMMA RejectDeclines ==
    ASSUME IInv, NEW s \in Submission, Reject(s)
    PROVE  Abstract!Decline(s)
<1>1. s \in Abstract!Open
  BY DecisionsMatch DEF IInv, Reject
<1>2. review' = [review EXCEPT ![s] = "REJECTED"] /\ noted' = noted
  BY DEF Reject
<1>3. [x \in Submission |-> DecisionOf(review[x])]'
        = [[x \in Submission |-> DecisionOf(review[x])] EXCEPT ![s] = "declined"]
  BY <1>2 DEF IInv, PaymentTypeOK, DecisionOf
<1> QED
  BY <1>1, <1>2, <1>3 DEF Abstract!Decline

\* A verification accepts it; as nothing else waits, nothing is superseded.
LEMMA VerifyAccepts ==
    ASSUME IInv, NEW c \in Clerk, Verify(c)
    PROVE  \E s \in Submission : Abstract!AcceptEvidence(s)
<1> DEFINE s == clerk[c].row
<1>1. s \in Submission /\ Waiting = {s} /\ Verified = {}
  BY DEF IInv, OneWaiting, Verify, NoneVerified, Waiting
<1>2. Abstract!Open = {s} /\ Abstract!Accepted = {}
  BY <1>1, DecisionsMatch DEF IInv
<1>3. review' = [review EXCEPT ![s] = "VERIFIED"]
  BY <1>1 DEF IInv, PaymentTypeOK, Verify, Decided
<1>4. noted' = 1
  BY DEF IInv, PaymentTypeOK, Verify, Records
<1>5. [x \in Submission |-> DecisionOf(review[x])]'
        = [[x \in Submission |-> DecisionOf(review[x])] EXCEPT ![s] = "accepted"]
  BY <1>1, <1>3 DEF IInv, PaymentTypeOK, DecisionOf
<1>6. (noted > 0)' = TRUE
  BY <1>4
<1> QED
  BY <1>1, <1>2, <1>5, <1>6 DEF Abstract!AcceptEvidence

\* The handlers of manual payments implement the review EscrowFunding promises.
THEOREM PaymentsImplementFunding == PaymentSpec => ImplementsFunding
<1> DEFINE Seen == << [s \in Submission |-> DecisionOf(review[s])], noted > 0 >>
<1>1. PaymentInit => Abstract!FundingInit
  BY DEF PaymentInit, Abstract!FundingInit, DecisionOf
<1>2. IInv /\ [PaymentNext]_paymentVars => [Abstract!FundingNext]_Seen
  <2> SUFFICES ASSUME IInv, [PaymentNext]_paymentVars
               PROVE  Abstract!FundingNext \/ UNCHANGED Seen
    OBVIOUS
  <2>1. ASSUME UNCHANGED << review, noted >> PROVE UNCHANGED Seen
    BY <2>1, Stutters
  <2>2. ASSUME NEW c \in Clerk, NEW s \in Submission, Submit(c, s)
        PROVE  Abstract!FundingNext
    BY <2>2, SubmitOffers DEF Abstract!FundingNext
  <2>3. ASSUME NEW c \in Clerk, Verify(c)
        PROVE  Abstract!FundingNext
    BY <2>3, VerifyAccepts DEF Abstract!FundingNext
  <2>4. ASSUME NEW s \in Submission, Reject(s)
        PROVE  Abstract!FundingNext
    BY <2>4, RejectDeclines DEF Abstract!FundingNext
  <2>5. CASE GatewayFunds
    <3>1. CASE noted = 0
      <4>1. noted' = 1 /\ review' = review
        BY <2>5, <3>1 DEF GatewayFunds, Records
      <4>2. (noted > 0) = FALSE /\ (noted > 0)' = TRUE
        BY <3>1, <4>1
      <4>3. [x \in Submission |-> DecisionOf(review[x])]'
              = [x \in Submission |-> DecisionOf(review[x])]
        BY <4>1 DEF DecisionOf
      <4> QED
        BY <4>2, <4>3 DEF Abstract!FundingNext, Abstract!ByGateway
    <3>2. CASE noted # 0
      BY <2>1, <2>5, <3>2 DEF GatewayFunds, Records
    <3> QED
      BY <3>1, <3>2
  <2>6. ASSUME NEW c \in Clerk,
               PrepareRow(c) \/ Prepare(c) \/ Notice(c) \/ Disputes(c) \/ GiveUp(c)
        PROVE  UNCHANGED Seen
    BY <2>1, <2>6 DEF PrepareRow, Prepare, Notice, Disputes, GiveUp
  <2>7. ASSUME NEW c \in Clerk,
               PrepareRead(c) \/ NoticeRead(c) \/ DisputeRead(c)
               \/ (\E r \in Reference : SubmitRead(c, r))
               \/ (\E s \in Submission : VerifyRead(c, s))
        PROVE  UNCHANGED Seen
    BY <2>1, <2>7 DEF PrepareRead, NoticeRead, DisputeRead, SubmitRead,
                      VerifyRead, Takes
  <2>8. CASE Releases \/ Refunds
    BY <2>1, <2>8 DEF Releases, Refunds
  <2>9. ASSUME Reopens \/ \E p \in Written : Writes(p)
        PROVE  UNCHANGED Seen
    BY <2>1, <2>9 DEF Reopens, Writes
  <2>10. CASE UNCHANGED paymentVars
    BY <2>1, <2>10 DEF paymentVars
  <2> HIDE DEF Seen
  <2> QED
    BY <2>2, <2>3, <2>4, <2>5, <2>6, <2>7, <2>8, <2>9, <2>10 DEF PaymentNext
<1> QED
  BY <1>1, <1>2, PaymentInvariance, PTL
     DEF PaymentSpec, ImplementsFunding, Abstract!FundingSpec
-----------------------------------------------------------------------------
(* Destinations *)

\* Every variable keeps its shape.
DestinationsTypeOK ==
    /\ stored \in [Method -> Settings]
    /\ page \in [Method -> Settings] \cup {Closed}
    /\ seen \in [Method -> Settings] \cup {Closed}
    /\ step \in {"method", "destination", "submit", "sent"}
    /\ chosen \in Method \cup {"none"}
    /\ picked \in [Method -> (Account \X (0 .. MaxEdits)) \cup {NoPick}]
    /\ edits \in 0 .. MaxEdits
    /\ changed \in BOOLEAN

\* The dialog shows the settings of now, unless they have been saved since; in
\* its later steps a method is chosen, in the last one an account the dialog
\* offers for it; and an outcome ends it.
Choice ==
    /\ seen # Closed /\ ~changed => seen = stored
    /\ step \in {"destination", "submit"} => seen # Closed /\ chosen \in Method
    /\ step = "submit" =>
          \E a \in List(chosen) :
              picked[chosen] = << a, seen[chosen].details[a] >>
    /\ outcome # Nothing /\ ~changed => step = "sent"

DestinationsInv == DestinationsTypeOK /\ Choice /\ RecordedWherePaid

\* The server accepts what the dialog offers by the same settings.
LEMMA OfferedIsAccepted == \A s : Offered(s) \subseteq Accepts(s) /\ (Offered(s) # {} => s.on)
BY DEF Offered, Accepts, Active

\* An edit of the page, and what it shows when it is opened.
LEMMA SettingsKept ==
    ASSUME NEW p \in [Method -> Settings], NEW m \in Method
    PROVE  /\ Shown(p[m]) \in Settings
           /\ [p EXCEPT ![m].on = ~@] \in [Method -> Settings]
           /\ \A a \in Account, x \in {"none", "off", "on"} :
                 [p EXCEPT ![m].status[a] = x] \in [Method -> Settings]
           /\ \A a \in Account, n \in 0 .. MaxEdits :
                 [p EXCEPT ![m].details[a] = n] \in [Method -> Settings]
           /\ [p[m] EXCEPT !.list = TRUE, !.older = FALSE] \in Settings
<1> DEFINE s == p[m]
<1>1. /\ s = [on |-> s.on, list |-> s.list, older |-> s.older,
              status |-> s.status, details |-> s.details]
      /\ s.on \in BOOLEAN /\ s.list \in BOOLEAN /\ s.older \in BOOLEAN
      /\ s.status \in [Account -> {"none", "off", "on"}]
      /\ s.details \in [Account -> 0 .. MaxEdits]
      /\ s \in Settings
  BY DEF Settings
<1>2. \A r \in Settings : [p EXCEPT ![m] = r] \in [Method -> Settings]
  OBVIOUS
<1>3. [s EXCEPT !.on = ~@] \in Settings
  BY <1>1 DEF Settings
<1>4. ASSUME NEW a \in Account, NEW x \in {"none", "off", "on"}
      PROVE  [s EXCEPT !.status[a] = x] \in Settings
  BY <1>1 DEF Settings
<1>5. ASSUME NEW a \in Account, NEW n \in 0 .. MaxEdits
      PROVE  [s EXCEPT !.details[a] = n] \in Settings
  BY <1>1 DEF Settings
<1>6. [s EXCEPT !.list = TRUE, !.older = FALSE] \in Settings
  BY <1>1 DEF Settings
<1>7. Shown(s) \in Settings
  <2>1. s.details[Older] \in 0 .. MaxEdits /\ Fresh \in Account
    BY <1>1, OlderAssumption
  <2>2. [s EXCEPT !.on = TRUE] \in Settings
    BY <1>1 DEF Settings
  <2> DEFINE fresh == [a \in Account |-> IF s.older /\ a = Fresh THEN "on" ELSE "none"]
  <2>3. fresh \in [Account -> {"none", "off", "on"}]
    OBVIOUS
  <2>4. [s EXCEPT !.status = fresh, !.details[Fresh] = s.details[Older]] \in Settings
    BY <1>1, <2>1, <2>3 DEF Settings
  <2> QED
    BY <2>2, <2>4 DEF Shown
<1> QED
  BY <1>2, <1>3, <1>4, <1>5, <1>6, <1>7

\* The inductive invariant of the destinations.
THEOREM DestinationsInvariance == DestinationsSpec => []DestinationsInv
<1>1. DestinationsInit => DestinationsInv
  <2> SUFFICES ASSUME DestinationsInit PROVE DestinationsInv
    OBVIOUS
  <2>1. stored \in [Method -> Settings]
    BY DEF DestinationsInit, FirstSettings
  <2>2. edits \in 0 .. MaxEdits
    BY EditsAssumption DEF DestinationsInit
  <2>6. changed \in BOOLEAN
    BY DEF DestinationsInit
  <2>3. picked \in [Method -> (Account \X (0 .. MaxEdits)) \cup {NoPick}]
    BY DEF DestinationsInit
  <2>4. DestinationsTypeOK
    BY <2>1, <2>2, <2>3, <2>6 DEF DestinationsInit, DestinationsTypeOK
  <2>5. Choice /\ RecordedWherePaid
    BY DEF DestinationsInit, Choice, RecordedWherePaid
  <2> QED
    BY <2>4, <2>5 DEF DestinationsInv
<1>2. DestinationsInv /\ [DestinationsNext]_destinationVars => DestinationsInv'
  <2> SUFFICES ASSUME DestinationsInv, [DestinationsNext]_destinationVars
               PROVE  DestinationsInv'
    OBVIOUS
  <2>0. DestinationsTypeOK /\ Choice /\ RecordedWherePaid
    BY DEF DestinationsInv
  <2>1. CASE OpenPage
    <3>1. page' \in [Method -> Settings]
      BY <2>0, <2>1, SettingsKept DEF OpenPage, DestinationsTypeOK
    <3>2. DestinationsTypeOK'
      BY <2>0, <2>1, <3>1 DEF OpenPage, DestinationsTypeOK
    <3>3. Choice' /\ RecordedWherePaid'
      BY <2>0, <2>1 DEF OpenPage, Choice, RecordedWherePaid, List
    <3> QED
      BY <3>2, <3>3 DEF DestinationsInv
  <2>2. ASSUME NEW m \in Method, EditPage(m) PROVE DestinationsInv'
    <3>1. page \in [Method -> Settings] /\ edits + 1 \in 0 .. MaxEdits
      BY <2>0, <2>2, EditsAssumption DEF EditPage, DestinationsTypeOK
    <3>2. page' \in [Method -> Settings]
      <4>1. CASE page' = [page EXCEPT ![m].on = ~@]
        BY <3>1, <4>1, SettingsKept
      <4>2. ASSUME NEW a \in Account, NEW x \in {"none", "off", "on"},
                   page' = [page EXCEPT ![m].status[a] = x]
            PROVE  page' \in [Method -> Settings]
        BY <3>1, <4>2, SettingsKept
      <4>3. ASSUME NEW a \in Account,
                   page' = [page EXCEPT ![m].details[a] = edits + 1]
            PROVE  page' \in [Method -> Settings]
        BY <3>1, <4>3, SettingsKept
      <4> QED
        BY <2>2, <4>1, <4>2, <4>3 DEF EditPage
    <3>3. DestinationsTypeOK'
      BY <2>0, <2>2, <3>1, <3>2 DEF EditPage, DestinationsTypeOK
    <3>4. Choice' /\ RecordedWherePaid'
      BY <2>0, <2>2 DEF EditPage, Choice, RecordedWherePaid, List
    <3> QED
      BY <3>3, <3>4 DEF DestinationsInv
  <2>3. CASE SavePage
    <3>1. page \in [Method -> Settings]
      BY <2>0, <2>3 DEF SavePage, DestinationsTypeOK
    <3>2. stored' \in [Method -> Settings]
      BY <2>3, <3>1, SettingsKept DEF SavePage
    <3>3. changed' \in BOOLEAN /\ (changed => changed') /\ (seen # Closed => changed')
      BY <2>3 DEF SavePage
    <3>4. DestinationsTypeOK'
      BY <2>0, <2>3, <3>2, <3>3 DEF SavePage, DestinationsTypeOK
    <3>5. UNCHANGED << seen, step, chosen, picked, outcome >>
      BY <2>3 DEF SavePage
    <3>6. Choice' /\ RecordedWherePaid'
      BY <2>0, <3>3, <3>5 DEF Choice, RecordedWherePaid, List
    <3> QED
      BY <3>4, <3>6 DEF DestinationsInv
  <2>4. CASE OpenPayment
    <3>1. DestinationsTypeOK'
      BY <2>0, <2>4 DEF OpenPayment, DestinationsTypeOK
    <3>2. Choice' /\ RecordedWherePaid'
      BY <2>0, <2>4 DEF OpenPayment, Choice, RecordedWherePaid
    <3> QED
      BY <3>1, <3>2 DEF DestinationsInv
  <2>5. CASE ClosePayment
    <3>1. changed' \in BOOLEAN
      BY <2>5 DEF ClosePayment
    <3>2. picked' \in [Method -> (Account \X (0 .. MaxEdits)) \cup {NoPick}]
      BY <2>5 DEF ClosePayment
    <3>3. DestinationsTypeOK'
      BY <2>0, <2>5, <3>1, <3>2 DEF ClosePayment, DestinationsTypeOK
    <3>4. Choice' /\ RecordedWherePaid'
      BY <2>5 DEF ClosePayment, Choice, RecordedWherePaid
    <3> QED
      BY <3>3, <3>4 DEF DestinationsInv
  <2>6. ASSUME NEW m \in Method, NEW a \in List(m), seen # Closed, Pick(m, a)
        PROVE  /\ picked' \in [Method -> (Account \X (0 .. MaxEdits)) \cup {NoPick}]
               /\ picked'[m] = << a, seen[m].details[a] >>
    <3>1. a \in Account
      BY OlderAssumption DEF List, Offered, Active
    <3>2. seen[m].details[a] \in 0 .. MaxEdits
      BY <2>0, <2>6, <3>1 DEF DestinationsTypeOK, Settings
    <3> QED
      BY <2>0, <2>6, <3>1, <3>2 DEF Pick, DestinationsTypeOK
  <2>7. ASSUME NEW m \in Method, SelectMethod(m) PROVE DestinationsInv'
    <3>1. /\ seen # Closed /\ chosen' = m /\ (outcome = Nothing \/ changed)
          /\ UNCHANGED << stored, page, seen, outcome, edits, changed >>
      BY <2>0, <2>7 DEF SelectMethod, Choice
    <3>2. CASE Cardinality(List(m)) = 1
      <4>1. PICK a \in List(m) : Pick(m, a)
        BY <2>7, <3>2 DEF SelectMethod
      <4>2. step' = "submit"
        BY <2>7, <3>2 DEF SelectMethod
      <4>3. /\ picked' \in [Method -> (Account \X (0 .. MaxEdits)) \cup {NoPick}]
            /\ picked'[m] = << a, seen[m].details[a] >>
        BY <2>6, <3>1, <4>1
      <4>4. DestinationsTypeOK'
        BY <2>0, <3>1, <4>2, <4>3 DEF DestinationsTypeOK
      <4>5. Choice' /\ RecordedWherePaid'
        BY <2>0, <3>1, <4>2, <4>3 DEF Choice, RecordedWherePaid, List
      <4> QED
        BY <4>4, <4>5 DEF DestinationsInv
    <3>3. CASE Cardinality(List(m)) # 1
      <4>1. step' = "destination" /\ picked' = picked
        BY <2>7, <3>3 DEF SelectMethod
      <4>2. DestinationsTypeOK'
        BY <2>0, <3>1, <4>1 DEF DestinationsTypeOK
      <4>3. Choice' /\ RecordedWherePaid'
        BY <2>0, <3>1, <4>1 DEF Choice, RecordedWherePaid
      <4> QED
        BY <4>2, <4>3 DEF DestinationsInv
    <3> QED
      BY <3>2, <3>3
  <2>8. ASSUME NEW a \in Account, SelectDestination(a) PROVE DestinationsInv'
    <3>1. /\ seen # Closed /\ chosen \in Method /\ (outcome = Nothing \/ changed)
          /\ a \in List(chosen) /\ Pick(chosen, a) /\ step' = "submit"
          /\ UNCHANGED << stored, page, seen, chosen, outcome, edits, changed >>
      BY <2>0, <2>8 DEF SelectDestination, Choice
    <3>2. /\ picked' \in [Method -> (Account \X (0 .. MaxEdits)) \cup {NoPick}]
          /\ picked'[chosen] = << a, seen[chosen].details[a] >>
      BY <2>6, <3>1
    <3>3. DestinationsTypeOK'
      BY <2>0, <3>1, <3>2 DEF DestinationsTypeOK
    <3>4. Choice' /\ RecordedWherePaid'
      BY <2>0, <3>1, <3>2 DEF Choice, RecordedWherePaid, List
    <3> QED
      BY <3>3, <3>4 DEF DestinationsInv
  <2>9. CASE Back
    <3>1. DestinationsTypeOK'
      BY <2>0, <2>9 DEF Back, DestinationsTypeOK
    <3>2. Choice' /\ RecordedWherePaid'
      BY <2>0, <2>9 DEF Back, Choice, RecordedWherePaid
    <3> QED
      BY <3>1, <3>2 DEF DestinationsInv
  <2>10. CASE BackToList
    <3>1. DestinationsTypeOK'
      BY <2>0, <2>10 DEF BackToList, DestinationsTypeOK
    <3>2. Choice' /\ RecordedWherePaid'
      BY <2>0, <2>10 DEF BackToList, Choice, RecordedWherePaid
    <3> QED
      BY <3>1, <3>2 DEF DestinationsInv
  <2>11. CASE SendProof
    <3>1. /\ step = "submit" /\ outcome' = Resolve(chosen, picked[chosen][1])
          /\ step' = IF outcome' = Refused THEN "submit" ELSE "sent"
          /\ UNCHANGED << stored, page, seen, chosen, picked, edits, changed >>
      BY <2>11 DEF SendProof
    <3>2. PICK a \in List(chosen) : picked[chosen] = << a, seen[chosen].details[a] >>
      BY <2>0, <3>1 DEF Choice
    <3>3. DestinationsTypeOK'
      BY <2>0, <3>1 DEF DestinationsTypeOK
    <3>4. ASSUME ~changed
          PROVE  /\ outcome' = << chosen, picked[chosen][1], picked[chosen][2] >>
                 /\ step' = "sent"
      <4>1. seen = stored
        BY <2>0, <3>1, <3>4 DEF Choice
      <4>2. stored[chosen].on /\ a \in Accepts(stored[chosen])
        BY <3>2, <4>1, OfferedIsAccepted DEF List
      <4>3. outcome' = << chosen, a, stored[chosen].details[a] >>
        BY <3>1, <3>2, <4>2 DEF Resolve
      <4>4. outcome' # Refused
        BY <4>3 DEF Refused
      <4> QED
        BY <3>1, <3>2, <4>1, <4>3, <4>4
    <3>5. Choice' /\ RecordedWherePaid'
      BY <2>0, <3>1, <3>4 DEF Choice, RecordedWherePaid, List
    <3> QED
      BY <3>3, <3>5 DEF DestinationsInv
  <2>12. CASE UNCHANGED destinationVars
    BY <2>0, <2>12 DEF destinationVars, DestinationsInv, DestinationsTypeOK,
                       Choice, RecordedWherePaid, List
  <2> QED
    BY <2>1, <2>2, <2>3, <2>4, <2>5, <2>7, <2>8, <2>9, <2>10, <2>11, <2>12
       DEF DestinationsNext
<1> QED
  BY <1>1, <1>2, PTL DEF DestinationsSpec

\* The destination noted down is the one the sender was shown.
THEOREM DestinationsRecorded == DestinationsSpec => []RecordedWherePaid
BY DestinationsInvariance, PTL DEF DestinationsInv
==============================================================================
