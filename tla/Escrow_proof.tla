---------------------------- MODULE Escrow_proof ----------------------------
(***************************************************************************)
(* Proofs about Escrow, for any number of handlers, disputes and lines and *)
(* for any bounds, however handlers overlap and whatever mishaps happen.   *)
(***************************************************************************)
EXTENDS Escrow, FiniteSetTheorems, TLAPS

-----------------------------------------------------------------------------
(* Types *)

Dates ==
    [left : -1..Window, paused : NotPaused..Window, resumes : BOOLEAN]

\* A handler that starts leaves everything in shape.
LEMMA StartsType ==
    ASSUME TypeOK, NEW j \in Job, NEW o \in Operation,
           NEW d \in Dispute \cup {NoDispute}, NEW x \in Dates,
           NEW s \in SUBSET Line, Starts(j, o, d, x, s)
    PROVE  TypeOK'
  BY DEF TypeOK, Starts, Dates, rowVars, projectVars, lineVars, walletVars,
         historyVars

\* What a submission writes are dates.
LEMMA DraftType ==
    ASSUME TypeOK, NEW d \in Dispute \cup {NoDispute}
    PROVE  Draft(d) \in Dates
  BY WindowAssumption DEF TypeOK, Draft, Dates, NotPaused

\* No draft is a draft.
LEMMA NoDraftType == NoDraft \in Dates
  BY WindowAssumption DEF NoDraft, Dates, NotPaused

\* Every handler that starts does so with values of the right shape.
LEMMA BeginType ==
    ASSUME TypeOK, NEW j \in Job, Begin(j)
    PROVE  TypeOK'
<1> USE StartsType, NoDraftType
<1>1. ASSUME NEW o \in Operation, NEW d \in Dispute \cup {NoDispute},
             Reads(j, o, d)
      PROVE  TypeOK'
  BY <1>1 DEF Reads
<1>2. NoDispute \in Dispute \cup {NoDispute}
  OBVIOUS
<1>3. CASE CheckoutRead(j) \/ ReopenRead(j) \/ ReviewRead(j) \/ ReviseRead(j)
           \/ ReleaseRead(j) \/ RefundRead(j) \/ OpenDisputeRead(j)
  BY <1>1, <1>2, <1>3
     DEF Operation, CheckoutRead, ReopenRead, ReviewRead, ReviseRead,
         ReleaseRead, RefundRead, OpenDisputeRead
<1>4. CASE ApproveRead(j) \/ AutoApproveRead(j)
  BY <1>1, <1>4 DEF Operation, ApproveRead, AutoApproveRead
<1>5. CASE ResolveRead(j)
  <2>1. PICK d \in Dispute : Reads(j, "resolve", d)
    BY <1>5 DEF ResolveRead
  <2> QED
    BY <1>1, <2>1 DEF Operation
<1>6. CASE EscalateRead(j)
  <2>1. PICK d \in Dispute : Reads(j, "escalate", d)
    BY <1>6 DEF EscalateRead
  <2> QED
    BY <1>1, <2>1 DEF Operation
<1>7. CASE SubmitRead(j)
  <2>1. PICK d \in Dispute \cup {NoDispute} :
            Starts(j, "submit", d, Draft(d), {})
    BY <1>7 DEF SubmitRead
  <2>2. Draft(d) \in Dates
    BY DraftType
  <2> QED
    BY <2>1, <2>2 DEF Operation
<1>8. CASE SettleRead(j)
  <2>1. PICK s \in SUBSET Line :
            Starts(j, "settle", NoDispute, NoDraft, s)
    BY <1>8 DEF SettleRead
  <2> QED
    BY <1>2, <2>1 DEF Operation
<1> QED
  BY <1>3, <1>4, <1>5, <1>6, <1>7, <1>8 DEF Begin

DisputeStatus ==
    { "NONE", "OPEN", "AWAITING_ENGINEER_FIX", "ESCALATED_TO_ADMIN",
      "RESOLVED_ENGINEER", "RESOLVED_CLIENT" }
LineStatus == {"NONE", "PENDING", "AVAILABLE", "REJECTED"}

\* TypeOK in three parts: dates and statuses, money, and jobs.
ProjectType ==
    /\ project \in ProjectStatus
    /\ age \in -1..Hold
    /\ left \in -1..Window
    /\ paused \in NotPaused..Window
    /\ reviews \in {0, 1}
MoneyType ==
    /\ pay \in PaymentStatus
    /\ dispute \in [Dispute -> DisputeStatus]
    /\ line \in [Line -> LineStatus]
    /\ far \in SUBSET Line
    /\ noted \in Nat
    /\ available \in Nat /\ pending \in Nat /\ held \in Nat /\ own \in 0..held
    /\ fundings \in Nat /\ credits \in Nat /\ refunds \in Nat
    /\ mishaps \in SUBSET Mishap
JobType ==
    /\ op \in [Job -> Operation \cup {"idle"}]
    /\ seen \in [Job -> PaymentStatus]
    /\ found \in [Job -> Dispute \cup {NoDispute}]
    /\ draft \in [Job -> Dates]
    /\ due \in [Job -> SUBSET Line]

\* The three parts are TypeOK.
LEMMA TypeParts == TypeOK <=> ProjectType /\ MoneyType /\ JobType
  BY DEF TypeOK, ProjectType, MoneyType, JobType, DisputeStatus, LineStatus,
         Dates

\* A job that ends forgets what it read.
LEMMA FinishType ==
    ASSUME JobType, NEW j \in Job, Finish(j)
    PROVE  JobType'
  BY NoDraftType DEF JobType, Finish, PaymentStatus

\* A deposit leaves natural balances.
LEMMA DepositType ==
    ASSUME MoneyType, Deposit
    PROVE  available' \in Nat /\ pending' \in Nat
  BY DEF MoneyType, Deposit

\* A new or an updated line has a status.
LEMMA LineType ==
    ASSUME MoneyType, NEW l \in Line, NEW s \in LineStatus,
           NewLine(l, s) \/ SetLine(l, s)
    PROVE  line' \in [Line -> LineStatus]
  BY DEF MoneyType, NewLine, SetLine

\* Mishaps are noted under their names.
LEMMA NotesType ==
    ASSUME MoneyType, NEW S, Notes(S), S \subseteq Mishap
    PROVE  mishaps' \in SUBSET Mishap
  BY DEF MoneyType, Notes

\* A mark is the name of a mishap, or nothing.
LEMMA MarkType ==
    ASSUME NEW m \in Mishap, NEW b
    PROVE  Mark(m, b) \subseteq Mishap
  BY DEF Mark

\* What comes out of the held balance was in it.
LEMMA TakeHeldType ==
    ASSUME MoneyType, TakeHeld
    PROVE  held' \in Nat /\ own' \in 0..held' /\ mishaps' \in SUBSET Mishap
<1>1. mishaps' \in SUBSET Mishap
  BY NotesType, MarkType DEF TakeHeld, Mishap
<1>2. held' \in Nat /\ own' \in 0..held'
  BY DEF TakeHeld, HeldCovers, MoneyType
<1> QED
  BY <1>1, <1>2

\* The status that goes with a deposit.
LEMMA BucketType == Bucket \in LineStatus
  BY DEF Bucket, LineStatus

\* One branch that approvals share: the payment is released.
LEMMA ReleaseType ==
    ASSUME MoneyType, ClaimAndRelease
    PROVE  MoneyType'
<1>1. line' \in [Line -> LineStatus]
  BY LineType, BucketType DEF ClaimAndRelease, MoneyType
<1>2. noted' \in Nat
  BY DEF ClaimAndRelease, NoteOnce, MoneyType
<1> QED
  BY <1>1, <1>2, DepositType DEF ClaimAndRelease, MoneyType, PaymentStatus,
                                 Credit

\* The other branch: what a dispute held is returned.
LEMMA ReturnType ==
    ASSUME MoneyType, NEW d, ClaimAndReturn(d)
    PROVE  MoneyType'
<1>1. line' \in [Line -> LineStatus] /\ far' \in SUBSET Line
  BY LineType, BucketType
     DEF ClaimAndReturn, PutLine, Lines, SetLine, MoneyType
<1>2. held' \in Nat /\ own' \in 0..held' /\ mishaps' \in SUBSET Mishap
  BY TakeHeldType DEF ClaimAndReturn
<1>3. dispute' \in [Dispute -> DisputeStatus]
  BY DEF ClaimAndReturn, MoneyType, DisputeStatus
<1> QED
  BY <1>1, <1>2, <1>3, DepositType DEF ClaimAndReturn, MoneyType, historyVars

\* A handler that ends.
LEMMA EndType ==
    ASSUME TypeOK, NEW j \in Job, End(j)
    PROVE  TypeOK'
<1>1. ProjectType /\ MoneyType /\ JobType
  BY TypeParts
<1>2. JobType'
  <2>1. Finish(j) \/ CheckoutCreate(j)
    BY DEF End, Checkout, Reopen, Review, Submit, Revise, Approve, Release,
           Refund, AutoApprove, OpenDispute, ResolveForEngineer,
           ResolveForClient, Escalate, Settle, Abandon
  <2> QED
    BY <1>1, <2>1, FinishType DEF JobType, CheckoutCreate, PaymentStatus
<1>3. ProjectType'
  <2>1. draft[j] \in Dates
    BY <1>1 DEF JobType
  <2> QED
    BY <1>1, <2>1, WindowAssumption
       DEF ProjectType, Dates, NotPaused, End, CheckoutCreate, Checkout, Reopen,
           Review, Submit, Revise, Approve, Release, Refund, AutoApprove, OpenDispute,
           ResolveForEngineer, ResolveForClient, Escalate, Settle, Abandon,
           rowVars, projectVars, ProjectStatus
<1>4. MoneyType'
  <2> USE <1>1 DEF walletVars, lineVars, historyVars
  <2> USE NotesType, MarkType DEF Mishap
  <2>1. CASE \/ CheckoutCreate(j) \/ Checkout(j) \/ Reopen(j) \/ Review(j)
             \/ Revise(j) \/ Abandon(j)
    BY <2>1 DEF MoneyType, CheckoutCreate, Checkout, Reopen, Review, Revise,
                Abandon, rowVars, PaymentStatus
  <2>2. CASE Submit(j) \/ Escalate(j)
    <3>1. mishaps' \in SUBSET Mishap
      BY <2>2 DEF Submit, Escalate
    <3> QED
      BY <2>2, <3>1 DEF MoneyType, Submit, Escalate, DisputeStatus
  <2>3. CASE Release(j)
    <3>1. line' \in [Line -> LineStatus]
      BY <2>3, LineType, BucketType DEF Release
    <3> QED
      BY <2>3, <3>1, DepositType DEF Release, MoneyType, PaymentStatus, Credit
  <2>4. CASE Refund(j)
    BY <2>4 DEF Refund, MoneyType, PaymentStatus
  <2>5. CASE Approve(j)
    BY <2>5, ReleaseType, ReturnType DEF Approve
  <2>6. CASE AutoApprove(j)
    <3>1. CASE ClaimAndRelease \/ ClaimAndReturn(found[j])
      BY <3>1, ReleaseType, ReturnType
    <3>2. CASE ~(ClaimAndRelease \/ ClaimAndReturn(found[j]))
      <4>1. mishaps' \in SUBSET Mishap
        BY <2>6, <3>2 DEF AutoApprove, MoneyType
      <4> QED
        BY <2>6, <3>2, <4>1 DEF AutoApprove, MoneyType, DisputeStatus
    <3> QED
      BY <3>1, <3>2
  <2>7. CASE OpenDispute(j)
    <3>1. dispute' \in [Dispute -> DisputeStatus]
      BY <2>7 DEF OpenDispute, MoneyType, DisputeStatus
    <3>2. /\ line' \in [Line -> LineStatus] /\ far' \in SUBSET Line
          /\ pay' \in PaymentStatus
      <4>1. "PENDING" \in LineStatus
        BY DEF LineStatus
      <4> QED
        BY <2>7, <4>1, LineType DEF OpenDispute, MoneyType, PaymentStatus
    <3>3. /\ noted' \in Nat /\ available' \in Nat /\ pending' \in Nat
          /\ held' \in Nat /\ own' \in 0..held'
          /\ fundings' \in Nat /\ credits' \in Nat /\ refunds' \in Nat
      BY <2>7 DEF OpenDispute, Freeze, MoneyType, Covers, Credit
    <3>4. mishaps' \in SUBSET Mishap
      BY <2>7 DEF OpenDispute
    <3> QED
      BY <3>1, <3>2, <3>3, <3>4 DEF MoneyType
  <2>8. CASE ResolveForEngineer(j)
    <3>1. line' \in [Line -> LineStatus] /\ far' \in SUBSET Line
      BY <2>8, LineType, BucketType
         DEF ResolveForEngineer, Lines, SetLine, MoneyType
    <3>2. dispute' \in [Dispute -> DisputeStatus]
      <4>1. dispute' = [dispute EXCEPT ![found[j]] = "RESOLVED_ENGINEER"]
        BY <2>8 DEF ResolveForEngineer
      <4> QED
        BY <4>1 DEF MoneyType, DisputeStatus
    <3>3. held' \in Nat /\ own' \in 0..held' /\ mishaps' \in SUBSET Mishap
      BY <2>8, TakeHeldType DEF ResolveForEngineer
    <3> QED
      BY <2>8, <3>1, <3>2, <3>3, DepositType DEF ResolveForEngineer, MoneyType
  <2>9. CASE ResolveForClient(j)
    <3>1. line' \in [Line -> LineStatus]
      BY <2>9 DEF ResolveForClient, MoneyType, LineStatus
    <3>2. dispute' \in [Dispute -> DisputeStatus]
      <4>1. dispute' = [dispute EXCEPT ![found[j]] = "RESOLVED_CLIENT"]
        BY <2>9 DEF ResolveForClient
      <4> QED
        BY <4>1 DEF MoneyType, DisputeStatus
    <3>3. held' \in Nat /\ own' \in 0..held' /\ mishaps' \in SUBSET Mishap
      BY <2>9, TakeHeldType DEF ResolveForClient
    <3> QED
      BY <2>9, <3>1, <3>2, <3>3 DEF ResolveForClient, MoneyType
  <2>10. CASE Settle(j)
    BY <2>10 DEF Settle, MoneyType, LineStatus, Covers
  <2> QED
    BY <2>1, <2>2, <2>3, <2>4, <2>5, <2>6, <2>7, <2>8, <2>9, <2>10 DEF End
<1> QED
  BY <1>2, <1>3, <1>4
     DEF TypeOK, ProjectType, MoneyType, JobType, DisputeStatus, LineStatus,
         Dates

\* Every step keeps the shape of every variable and no balance negative.
LEMMA TypeStep == TypeOK /\ [Next]_vars => TypeOK'
<1> SUFFICES ASSUME TypeOK, [Next]_vars PROVE TypeOK'
  OBVIOUS
<1> USE DEF projectVars, lineVars, walletVars, historyVars, jobVars
<1>1. CASE UNCHANGED vars
  BY <1>1 DEF TypeOK, vars, rowVars
<1>2. ASSUME NEW j \in Job, Begin(j) \/ End(j) PROVE TypeOK'
  BY <1>2, BeginType, EndType
<1>3. CASE Fund
  BY <1>3 DEF TypeOK, Fund, PaymentStatus, ProjectStatus
<1>4. CASE Withdraw
  BY <1>4 DEF TypeOK, Withdraw, Covers
<1>5. CASE Tick
  BY <1>5, WindowAssumption DEF TypeOK, Tick
<1>6. ASSUME NEW s \in AdminStatus, SetStatus(s) PROVE TypeOK'
  <2>1. mishaps' \in SUBSET Mishap
    <3>1. MoneyType
      BY TypeParts
    <3> QED
      BY <1>6, <3>1, NotesType, MarkType DEF SetStatus, Mishap
  <2> QED
    BY <1>6, <2>1, AdminAssumption DEF TypeOK, SetStatus
<1>7. CASE ManualFreeze
  BY <1>7 DEF TypeOK, ManualFreeze, Covers
<1>8. CASE OthersDispute
  BY <1>8 DEF TypeOK, OthersDispute
<1>9. CASE OthersResolve
  BY <1>9 DEF TypeOK, OthersResolve, HeldCovers
<1> QED
  BY <1>1, <1>2, <1>3, <1>4, <1>5, <1>6, <1>7, <1>8, <1>9 DEF Next, Environment

\* TypeOK for every set of handlers, disputes and lines: above all, no
\* balance of the wallet ever goes below zero.
THEOREM TypeCorrect == Spec => []TypeOK
<1>1. Init => TypeOK
  BY WindowAssumption, OtherAssumption
     DEF Init, TypeOK, ProjectStatus, PaymentStatus, NoDraft, NotPaused
<1> QED
  BY <1>1, TypeStep, PTL DEF Spec

-----------------------------------------------------------------------------
(* What handlers read *)

\* What is true of what a handler that starts has read.
Reason(o, d, x, s) ==
    /\ o = "checkout" => Payable
    /\ o = "submit" => pay \in {"FUNDED", "RELEASED"} /\ x = Draft(d)
    /\ o \in {"openDispute", "autoApprove"} => age # -1
    /\ o \in {"resolve", "escalate"} => d # NoDispute
    /\ d # NoDispute => dispute[d] # "NONE"
    /\ \A l \in s : line[l] # "NONE" /\ Matured

\* Every handler that starts reads something of this kind.
LEMMA BeginReads ==
    ASSUME TypeOK, NEW j \in Job, Begin(j)
    PROVE  \E o \in Operation, d \in Dispute \cup {NoDispute}, x \in Dates,
              s \in SUBSET Line : Starts(j, o, d, x, s) /\ Reason(o, d, x, s)
<1>1. NoDispute \in Dispute \cup {NoDispute} /\ NoDraft \in Dates
      /\ {} \in SUBSET Line
  BY NoDraftType
<1>2. ASSUME NEW o \in {"checkout", "reopen", "review", "revise", "release",
                        "refund", "openDispute"},
             Reads(j, o, NoDispute),
             o = "checkout" => Payable,
             o = "openDispute" => age # -1
      PROVE  Reason(o, NoDispute, NoDraft, {}) /\ o \in Operation
             /\ Starts(j, o, NoDispute, NoDraft, {})
  BY <1>2 DEF Reads, Reason, Operation
<1>3. ASSUME NEW o \in {"approve", "autoApprove", "resolve", "escalate"},
             NEW d \in Dispute \cup {NoDispute}, Reads(j, o, d),
             o = "autoApprove" => age # -1,
             o \in {"resolve", "escalate"} => d # NoDispute,
             d # NoDispute => dispute[d] # "NONE"
      PROVE  Reason(o, d, NoDraft, {}) /\ o \in Operation
             /\ Starts(j, o, d, NoDraft, {})
  BY <1>3 DEF Reads, Reason, Operation
<1>4. ASSUME NEW d, Finds(d), d # NoDispute PROVE dispute[d] # "NONE"
  BY <1>4 DEF Finds, Active
<1>5. CASE SubmitRead(j)
  <2>1. PICK d \in Dispute \cup {NoDispute} :
            /\ Finds(d) /\ pay \in {"FUNDED", "RELEASED"}
            /\ Starts(j, "submit", d, Draft(d), {})
    BY <1>5 DEF SubmitRead
  <2>2. Reason("submit", d, Draft(d), {})
    BY <1>4, <2>1 DEF Reason
  <2> QED
    BY <1>1, <2>1, <2>2, DraftType DEF Operation
<1>6. CASE SettleRead(j)
  <2>1. PICK s \in SUBSET Line :
            /\ Starts(j, "settle", NoDispute, NoDraft, s)
            /\ \A l \in s : line[l] = "PENDING" /\ Matured
    BY <1>6 DEF SettleRead
  <2>2. Reason("settle", NoDispute, NoDraft, s)
    BY <2>1 DEF Reason
  <2> QED
    BY <1>1, <2>1, <2>2 DEF Operation
<1>7. CASE \/ CheckoutRead(j) \/ ReopenRead(j) \/ ReviewRead(j)
           \/ ReviseRead(j) \/ ReleaseRead(j) \/ RefundRead(j)
           \/ OpenDisputeRead(j)
  <2>1. PICK o \in {"checkout", "reopen", "review", "revise", "release",
                    "refund", "openDispute"} :
            /\ Reads(j, o, NoDispute)
            /\ o = "checkout" => Payable
            /\ o = "openDispute" => age # -1
    BY <1>7 DEF CheckoutRead, ReopenRead, ReviewRead, ReviseRead, ReleaseRead,
                RefundRead, OpenDisputeRead
  <2> QED
    BY <1>1, <1>2, <2>1
<1>8. CASE \/ ApproveRead(j) \/ AutoApproveRead(j) \/ ResolveRead(j)
           \/ EscalateRead(j)
  <2>1. PICK o \in {"approve", "autoApprove", "resolve", "escalate"},
             d \in Dispute \cup {NoDispute} :
            /\ Reads(j, o, d)
            /\ o = "autoApprove" => age # -1
            /\ o \in {"resolve", "escalate"} => d # NoDispute
            /\ Finds(d) \/ dispute[d] \in {"OPEN", "AWAITING_ENGINEER_FIX"}
    <3>1. CASE ApproveRead(j)
      BY <3>1 DEF ApproveRead
    <3>2. CASE AutoApproveRead(j)
      BY <3>2 DEF AutoApproveRead
    <3>3. CASE ResolveRead(j)
      <4>1. PICK d \in Dispute : Finds(d) /\ Reads(j, "resolve", d)
        BY <3>3 DEF ResolveRead
      <4> QED
        BY <4>1, DisputeAssumption
    <3>4. CASE EscalateRead(j)
      <4>1. PICK d \in Dispute :
                /\ dispute[d] \in {"OPEN", "AWAITING_ENGINEER_FIX"}
                /\ Reads(j, "escalate", d)
        BY <3>4 DEF EscalateRead
      <4> QED
        BY <4>1, DisputeAssumption
    <3> QED
      BY <1>8, <3>1, <3>2, <3>3, <3>4
  <2> QED
    BY <1>1, <1>3, <1>4, <2>1
<1> QED
  BY <1>5, <1>6, <1>7, <1>8 DEF Begin

\* Of the jobs only the one that ends changes: it forgets what it read, or has
\* created the payment.
LEMMA EndJobs ==
    ASSUME TypeOK, NEW j \in Job, End(j)
    PROVE  /\ op[j] # "idle"
           /\ \A i \in Job \ {j} :
                 /\ op'[i] = op[i] /\ seen'[i] = seen[i]
                 /\ found'[i] = found[i] /\ draft'[i] = draft[i]
                 /\ due'[i] = due[i]
           /\ \/ /\ op'[j] = "idle" /\ seen'[j] = "NONE"
                 /\ found'[j] = NoDispute /\ due'[j] = {}
              \/ /\ op[j] = "checkout" /\ op'[j] = op[j]
                 /\ seen'[j] = "PENDING"
                 /\ found'[j] = found[j] /\ due'[j] = due[j]
<1>1. /\ op \in [Job -> Operation \cup {"idle"}]
      /\ seen \in [Job -> PaymentStatus]
      /\ found \in [Job -> Dispute \cup {NoDispute}]
      /\ draft \in [Job -> Dates]
      /\ due \in [Job -> SUBSET Line]
  BY DEF TypeOK, Dates
<1>2. Finish(j) \/ CheckoutCreate(j)
  BY DEF End, Checkout, Reopen, Review, Submit, Revise, Approve, Release,
         Refund, AutoApprove, OpenDispute, ResolveForEngineer,
         ResolveForClient, Escalate, Settle, Abandon
<1>3. op[j] # "idle"
  BY DEF End, CheckoutCreate, Checkout, Reopen, Review, Submit, Revise,
         Approve, Release, Refund, AutoApprove, OpenDispute,
         ResolveForEngineer, ResolveForClient, Escalate, Settle, Abandon, Busy
<1>4. CASE Finish(j)
  BY <1>1, <1>3, <1>4 DEF Finish
<1>5. CASE CheckoutCreate(j)
  BY <1>1, <1>3, <1>5 DEF CheckoutCreate
<1> QED
  BY <1>2, <1>4, <1>5

\* Steps of no handler leave the jobs and the rows of disputes and lines alone.
LEMMA EnvironmentRows ==
    ASSUME Environment
    PROVE  UNCHANGED << jobVars, op, seen, found, draft, due, dispute, line,
                        far, paused, reviews, credits, refunds >>
  BY DEF Environment, Fund, Withdraw, ManualFreeze, OthersDispute,
         OthersResolve, Tick, SetStatus, projectVars, lineVars, historyVars,
         jobVars

\* Rows of disputes and of lines are never deleted.
LEMMA RowsStay ==
    ASSUME TypeOK, [Next]_vars
    PROVE  /\ \A d \in Dispute : dispute[d] # "NONE" => dispute'[d] # "NONE"
           /\ \A l \in Line : line[l] # "NONE" => line'[l] # "NONE"
<1> USE DEF TypeOK
<1>1. CASE UNCHANGED vars
  BY <1>1 DEF vars, rowVars, lineVars
<1>2. CASE Environment
  BY <1>2, EnvironmentRows
<1>3. ASSUME NEW j \in Job, Begin(j) PROVE UNCHANGED << dispute, line >>
  BY <1>3, BeginReads DEF Starts, rowVars, lineVars
<1>4. ASSUME NEW j \in Job, End(j), NEW d \in Dispute, dispute[d] # "NONE"
      PROVE  dispute'[d] # "NONE"
  BY <1>4 DEF End, CheckoutCreate, Checkout, Reopen, Review, Submit, Revise,
         Approve, Release, Refund, AutoApprove, OpenDispute,
         ResolveForEngineer, ResolveForClient, Escalate, Settle, Abandon,
         ClaimAndRelease, ClaimAndReturn, rowVars
<1>5. ASSUME NEW j \in Job, End(j), NEW l \in Line, line[l] # "NONE"
      PROVE  line'[l] # "NONE"
  <2>1. Bucket # "NONE"
    BY DEF Bucket
  <2>2. ASSUME NEW k \in Line, NEW s, s # "NONE", NewLine(k, s) \/ SetLine(k, s)
        PROVE  line'[l] # "NONE"
    BY <1>5, <2>2 DEF NewLine, SetLine
  <2>3. ClaimAndRelease \/ (\E d : ClaimAndReturn(d)) => line'[l] # "NONE"
    BY <1>5, <2>1, <2>2
       DEF ClaimAndRelease, ClaimAndReturn, PutLine, Lines
  <2> QED
    BY <1>5, <2>1, <2>2, <2>3
       DEF End, CheckoutCreate, Checkout, Reopen, Review, Submit, Revise,
           Approve, Release, Refund, AutoApprove, OpenDispute,
           ResolveForEngineer, ResolveForClient, Escalate, Settle, Abandon,
           Lines, rowVars, lineVars
<1> QED
  BY <1>1, <1>2, <1>3, <1>4, <1>5 DEF Next

\* What a handler may rely on however long ago it read: a checkout found the
\* payment open to it, and rows that were there are there.
Snapshot(j) ==
    /\ op[j] = "checkout" => seen[j] \notin {"FUNDED", "RELEASED"}
    /\ op[j] \in {"resolve", "escalate"} => found[j] # NoDispute
    /\ found[j] # NoDispute => dispute[found[j]] # "NONE"
    /\ \A l \in due[j] : line[l] # "NONE"
ReadInv == \A j \in Job : Snapshot(j)

\* No step takes that away.
LEMMA ReadStep == TypeOK /\ ReadInv /\ [Next]_vars => ReadInv'
<1> SUFFICES ASSUME TypeOK, ReadInv, [Next]_vars, NEW i \in Job
             PROVE  Snapshot(i)'
  BY DEF ReadInv
<1>1. Snapshot(i)
  BY DEF ReadInv
<1>2. /\ op \in [Job -> Operation \cup {"idle"}]
      /\ seen \in [Job -> PaymentStatus]
      /\ found \in [Job -> Dispute \cup {NoDispute}]
      /\ due \in [Job -> SUBSET Line]
  BY DEF TypeOK
<1>3. CASE op'[i] = op[i] /\ seen'[i] = seen[i] /\ found'[i] = found[i]
           /\ due'[i] = due[i]
  BY <1>1, <1>2, <1>3, RowsStay DEF Snapshot
<1>4. CASE UNCHANGED vars \/ Environment
  <2>1. UNCHANGED << op, seen, found, due >>
    BY <1>4, EnvironmentRows DEF vars, jobVars
  <2> QED
    BY <1>3, <2>1
<1>5. ASSUME NEW j \in Job, Begin(j) PROVE Snapshot(i)'
  <2>1. PICK o \in Operation, d \in Dispute \cup {NoDispute}, x \in Dates,
             s \in SUBSET Line : Starts(j, o, d, x, s) /\ Reason(o, d, x, s)
    BY <1>5, BeginReads
  <2>2. /\ op' = [op EXCEPT ![j] = o] /\ seen' = [seen EXCEPT ![j] = pay]
        /\ found' = [found EXCEPT ![j] = d] /\ due' = [due EXCEPT ![j] = s]
        /\ UNCHANGED << pay, dispute, line >>
    BY <2>1 DEF Starts, rowVars, lineVars
  <2>3. CASE i # j
    BY <1>2, <1>3, <2>2, <2>3
  <2>4. CASE i = j
    BY <1>2, <2>1, <2>2, <2>4 DEF Snapshot, Reason, Payable
  <2> QED
    BY <2>3, <2>4
<1>6. ASSUME NEW j \in Job, End(j) PROVE Snapshot(i)'
  <2>1. CASE i # j
    BY <1>3, <1>6, <2>1, EndJobs
  <2>2. CASE i = j
    <3>1. (op'[i] = "checkout" => seen'[i] \notin {"FUNDED", "RELEASED"})
          /\ op'[i] \in {"idle", "checkout"}
          /\ (found'[i] # NoDispute => found'[i] = found[i])
          /\ due'[i] \subseteq due[i]
      BY <1>1, <1>6, <2>2, EndJobs DEF Snapshot
    <3> QED
      BY <1>1, <1>2, <3>1, RowsStay DEF Snapshot
  <2> QED
    BY <2>1, <2>2
<1> QED
  BY <1>4, <1>5, <1>6 DEF Next

-----------------------------------------------------------------------------
(* The payment *)

counters == << fundings, credits, refunds >>

\* The ways a step may change the payment.
Funds ==
    /\ pay = "PENDING" /\ pay' = "FUNDED"
    /\ fundings' = fundings + 1 /\ credits' = credits /\ refunds' = refunds
Pays ==
    /\ pay = "FUNDED" /\ pay' = "RELEASED"
    /\ credits' = credits + 1 /\ fundings' = fundings /\ refunds' = refunds
Refunds ==
    /\ pay = "FUNDED" /\ pay' = "REFUNDED"
    /\ refunds' = refunds + 1 /\ fundings' = fundings /\ credits' = credits
Doubles ==
    /\ "doubled" \in mishaps' /\ pay' = "RELEASED"
    /\ refunds' = refunds
Resets ==
    /\ pay' = "PENDING" /\ UNCHANGED counters
    /\ pay \in {"FUNDED", "RELEASED"} => "overtaken" \in mishaps'

\* There are no others, and no mishap is forgotten.
LEMMA PaymentStep ==
    ASSUME TypeOK, ReadInv, [Next]_vars
    PROVE  /\ mishaps \subseteq mishaps'
           /\ \/ UNCHANGED << pay, counters >>
              \/ Funds \/ Pays \/ Refunds \/ Doubles \/ Resets
<1> USE DEF counters
<1>1. CASE UNCHANGED vars
  BY <1>1 DEF vars, rowVars, historyVars
<1>2. CASE Environment
  <2>1. CASE Fund
    BY <2>1 DEF Fund, Funds
  <2>2. CASE Environment /\ ~Fund
    BY <2>2 DEF Environment, Withdraw, ManualFreeze, OthersDispute,
                OthersResolve, Tick, SetStatus, historyVars, Notes
  <2> QED
    BY <1>2, <2>1, <2>2
<1>3. ASSUME NEW j \in Job, Begin(j)
      PROVE  UNCHANGED << pay, counters, mishaps >>
  BY <1>3, BeginReads DEF Starts, rowVars, historyVars
<1>4. ASSUME NEW j \in Job, End(j)
      PROVE  /\ mishaps \subseteq mishaps'
             /\ \/ UNCHANGED << pay, counters >>
                \/ Funds \/ Pays \/ Refunds \/ Doubles \/ Resets
  <2>1. CASE ClaimAndRelease
    BY <2>1 DEF ClaimAndRelease, Claimed, Credit, Pays
  <2>2. ASSUME NEW d, ClaimAndReturn(d)
        PROVE  UNCHANGED << pay, counters >> /\ mishaps \subseteq mishaps'
    BY <2>2 DEF ClaimAndReturn, TakeHeld, Notes, historyVars
  <2>3. CASE Approve(j)
    BY <2>1, <2>2, <2>3 DEF Approve
  <2>4. CASE AutoApprove(j)
    BY <2>1, <2>2, <2>4 DEF AutoApprove, historyVars, Notes
  <2>5. CASE Release(j)
    BY <2>5 DEF Release, Claimed, Credit, Pays
  <2>6. CASE Refund(j)
    BY <2>6 DEF Refund, Claimed, Refunds
  <2>7. CASE CheckoutCreate(j)
    BY <2>7 DEF CheckoutCreate, Resets, historyVars
  <2>8. CASE Checkout(j)
    <3>1. mishaps \subseteq mishaps' /\ UNCHANGED counters /\ pay' = "PENDING"
      BY <2>8 DEF Checkout, Notes, historyVars
    <3>2. pay \in {"FUNDED", "RELEASED"} => pay # seen[j]
      BY <2>8 DEF Checkout, ReadInv, Snapshot
    <3>3. pay \in {"FUNDED", "RELEASED"} => "overtaken" \in mishaps'
      BY <2>8, <3>2 DEF Checkout, Notes, Mark
    <3> QED
      BY <3>1, <3>3 DEF Resets
  <2>9. CASE OpenDispute(j)
    <3>1. mishaps \subseteq mishaps'
      BY <2>9 DEF OpenDispute, Notes
    <3>2. CASE seen[j] # "FUNDED"
      BY <2>9, <3>1, <3>2 DEF OpenDispute, historyVars
    <3>3. CASE seen[j] = "FUNDED" /\ pay = "FUNDED"
      BY <2>9, <3>1, <3>3 DEF OpenDispute, Credit, Pays
    <3>4. CASE seen[j] = "FUNDED" /\ pay # "FUNDED"
      <4>1. "doubled" \in mishaps'
        BY <2>9, <3>4 DEF OpenDispute, Notes, Mark
      <4> QED
        BY <2>9, <3>1, <3>4, <4>1 DEF OpenDispute, Credit, Doubles
    <3> QED
      BY <3>2, <3>3, <3>4
  <2>10. CASE \/ Reopen(j) \/ Submit(j) \/ Revise(j) \/ Escalate(j)
              \/ Settle(j) \/ Review(j) \/ Abandon(j)
              \/ ResolveForEngineer(j) \/ ResolveForClient(j)
    BY <2>10 DEF Reopen, Submit, Revise, Escalate, Settle, Review, Abandon,
                 ResolveForEngineer, ResolveForClient, TakeHeld, Notes,
                 rowVars, historyVars
  <2> QED
    BY <1>4, <2>3, <2>4, <2>5, <2>6, <2>7, <2>8, <2>9, <2>10 DEF End
<1> QED
  BY <1>1, <1>2, <1>3, <1>4 DEF Next

\* A payment counts as credited while it is RELEASED.
Credited ==
    Spared({"overtaken", "doubled"}) =>
        credits = IF pay = "RELEASED" THEN 1 ELSE 0
MoneyInv == EscrowBalances /\ Credited

\* Every step keeps the balance of the escrow.
LEMMA MoneyStep ==
    TypeOK /\ ReadInv /\ MoneyInv /\ [Next]_vars => MoneyInv'
<1> SUFFICES ASSUME TypeOK, ReadInv, MoneyInv, [Next]_vars,
                    Spared({"overtaken", "doubled"})'
             PROVE  /\ fundings' - credits' - refunds'
                         = IF pay' = "FUNDED" THEN 1 ELSE 0
                    /\ credits' = IF pay' = "RELEASED" THEN 1 ELSE 0
  BY DEF MoneyInv, EscrowBalances, Credited
<1>1. /\ Spared({"overtaken", "doubled"})
      /\ "overtaken" \notin mishaps' /\ "doubled" \notin mishaps'
  BY PaymentStep DEF Spared
<1>2. /\ fundings - credits - refunds = IF pay = "FUNDED" THEN 1 ELSE 0
      /\ credits = IF pay = "RELEASED" THEN 1 ELSE 0
      /\ fundings \in Nat /\ credits \in Nat /\ refunds \in Nat
  BY <1>1 DEF MoneyInv, EscrowBalances, Credited, TypeOK
<1>3. ~Doubles
  BY <1>1 DEF Doubles
<1>4. CASE UNCHANGED << pay, counters >>
  BY <1>2, <1>4 DEF counters
<1>5. CASE Funds
  BY <1>2, <1>5 DEF Funds
<1>6. CASE Pays
  BY <1>2, <1>6 DEF Pays
<1>7. CASE Refunds
  BY <1>2, <1>7 DEF Refunds
<1>8. CASE Resets
  BY <1>1, <1>2, <1>8 DEF Resets, counters
<1> QED
  BY <1>3, <1>4, <1>5, <1>6, <1>7, <1>8, PaymentStep

-----------------------------------------------------------------------------
(* Held money and active disputes *)

Actives == {d \in Dispute : Active(d)}

\* The ways a step may change the money held for the project and the disputes
\* that hold it.
Keeps ==
    /\ own' \in 0..own
    /\ Actives \subseteq Actives'
    /\ \E d : Actives' \subseteq Actives \cup {d}
Holds ==
    /\ own' = own + 1
    /\ \E d \in Dispute \ Actives : Actives' = Actives \cup {d}
    /\ Lines' # {}
Frees ==
    /\ own' = IF own = 0 THEN 0 ELSE own - 1
    /\ \E d \in Actives : Actives' = Actives \ {d}

\* Another dispute becomes active as a mishap, or none was.
Spreads ==
    /\ \/ Actives' \subseteq Actives
       \/ "twice" \in mishaps'
       \/ \E d : Actives' \subseteq {d}
    /\ own' > own => "twice" \in mishaps' \/ Actives = {}

\* A dispute that gets a status that is not active is active no more.
LEMMA Closes ==
    ASSUME TypeOK, NEW d \in Dispute, Active(d),
           NEW s \in {"RESOLVED_ENGINEER", "RESOLVED_CLIENT"},
           dispute' = [dispute EXCEPT ![d] = s]
    PROVE  \E e \in Actives : Actives' = Actives \ {e}
<1>1. ASSUME NEW e \in Dispute PROVE Active(e)' <=> Active(e) /\ e # d
  BY DEF TypeOK, Active
<1>2. d \in Actives /\ Actives' = Actives \ {d}
  BY <1>1 DEF Actives
<1> QED
  BY <1>2

\* What is returned or refused is taken from the dispute that held it.
LEMMA TakesAndCloses ==
    ASSUME TypeOK, NEW d \in Dispute, Active(d), TakeHeld,
           NEW s \in {"RESOLVED_ENGINEER", "RESOLVED_CLIENT"},
           dispute' = [dispute EXCEPT ![d] = s]
    PROVE  Frees /\ Spreads
<1>2. \E e \in Actives : Actives' = Actives \ {e}
  BY Closes
<1>3. own' = IF own = 0 THEN 0 ELSE own - 1
  BY DEF TakeHeld
<1>4. ~(own' > own)
  <2>1. own \in Nat
    BY DEF TypeOK
  <2> QED
    BY <1>3, <2>1
<1> QED
  BY <1>2, <1>3, <1>4 DEF Frees, Spreads

\* A dispute that becomes active, or is escalated.
LEMMA Opens ==
    ASSUME TypeOK, NEW d \in Dispute,
           NEW s \in {"OPEN", "AWAITING_ENGINEER_FIX", "ESCALATED_TO_ADMIN"},
           dispute' = [dispute EXCEPT ![d] = s]
    PROVE  Actives' = Actives \cup {d}
<1>1. ASSUME NEW e \in Dispute PROVE Active(e)' <=> Active(e) \/ e = d
  BY DEF TypeOK, Active
<1> QED
  BY <1>1 DEF Actives

\* Steps that leave the disputes alone, and hold no more.
LEMMA KeepsAll ==
    ASSUME TypeOK, dispute' = dispute, own' \in 0..own
    PROVE  Keeps /\ Spreads
<1>1. Actives' = Actives
  BY DEF Actives, Active
<1>2. ~(own' > own)
  <2>1. own \in Nat
    BY DEF TypeOK
  <2> QED
    BY <2>1
<1> QED
  BY <1>1, <1>2 DEF Keeps, Spreads

\* There are no other ways.
LEMMA HeldStep ==
    ASSUME TypeOK, ReadInv, [Next]_vars
    PROVE  (Keeps \/ Holds \/ Frees) /\ Spreads
<1>1. own \in Nat /\ held \in Nat /\ own \in 0..held
  BY DEF TypeOK
<1>2. own' = own => own' \in 0..own
  BY <1>1
<1>3. CASE UNCHANGED vars
  BY <1>2, <1>3, KeepsAll DEF vars, rowVars, walletVars
<1>4. CASE Environment
  <2>1. OthersResolve => own' \in 0..own
    BY <1>1 DEF OthersResolve, HeldCovers
  <2>2. ~OthersResolve => own' = own
    BY <1>4 DEF Environment, Fund, Withdraw, ManualFreeze, OthersDispute,
                      Tick, SetStatus, walletVars
  <2>3. own' \in 0..own
    BY <1>2, <2>1, <2>2
  <2> QED
    BY <1>4, <2>3, KeepsAll, EnvironmentRows
<1>5. ASSUME NEW j \in Job, Begin(j)
      PROVE  UNCHANGED << dispute, own >>
  BY <1>5, BeginReads DEF Starts, rowVars, walletVars
<1>6. ASSUME NEW j \in Job, End(j)
      PROVE  (Keeps \/ Holds \/ Frees) /\ Spreads
  <2>0. /\ found[j] # NoDispute => found[j] \in Dispute
        /\ op[j] \in {"resolve", "escalate"} => found[j] \in Dispute
    BY DEF TypeOK, ReadInv, Snapshot
  <2>1. ASSUME NEW d \in Dispute, ClaimAndReturn(d) PROVE Frees /\ Spreads
    BY <2>1, TakesAndCloses DEF ClaimAndReturn
  <2>2. CASE ClaimAndRelease
    BY <1>2, <2>2, KeepsAll DEF ClaimAndRelease
  <2>3. CASE Approve(j)
    BY <2>0, <2>1, <2>2, <2>3 DEF Approve
  <2>4. CASE AutoApprove(j)
    <3>1. CASE \/ ClaimAndRelease
               \/ found[j] # NoDispute /\ ClaimAndReturn(found[j])
      BY <2>0, <2>1, <2>2, <3>1
    <3>2. CASE UNCHANGED << dispute, walletVars >>
      BY <1>2, <3>2, KeepsAll DEF walletVars
    <3>3. CASE /\ found[j] # NoDispute
               /\ Active(found[j]) /\ ~HeldCovers
               /\ dispute' = [dispute EXCEPT ![found[j]] =
                                 "RESOLVED_ENGINEER"]
               /\ UNCHANGED walletVars
      <4>1. own = 0 /\ own' = 0
        BY <1>1, <3>3 DEF HeldCovers, walletVars
      <4>2. found[j] \in Dispute
        BY <2>0, <3>3
      <4>3. \E e \in Actives : Actives' = Actives \ {e}
        BY <3>3, <4>2, Closes
      <4> QED
        BY <4>1, <4>3 DEF Frees, Spreads
    <3> QED
      BY <2>4, <3>1, <3>2, <3>3 DEF AutoApprove
  <2>5. CASE OpenDispute(j)
    <3>1. PICK d \in Dispute :
              /\ dispute[d] = "NONE"
              /\ dispute' = [dispute EXCEPT ![d] = "AWAITING_ENGINEER_FIX"]
      BY <2>5 DEF OpenDispute
    <3>2. Actives' = Actives \cup {d} /\ d \notin Actives
      BY <3>1, Opens DEF Actives, Active
    <3>3. Undisputed <=> Actives = {}
      BY DEF Undisputed, Actives
    <3>4. "twice" \in mishaps' \/ Actives = {}
      BY <2>5, <3>3 DEF OpenDispute, Notes, Mark
    <3>5. Spreads
      BY <3>2, <3>4 DEF Spreads
    <3>6. own' = own \/ (own' = own + 1 /\ Lines' # {})
      <4>1. CASE seen[j] = "FUNDED"
        <5>1. PICK l \in Line : NewLine(l, "PENDING")
          BY <2>5, <4>1 DEF OpenDispute
        <5>2. line'[l] # "NONE"
          BY <5>1 DEF NewLine, TypeOK
        <5>3. l \in Lines'
          BY <5>2 DEF Lines
        <5> QED
          BY <2>5, <4>1, <5>3 DEF OpenDispute, Freeze
      <4>2. CASE seen[j] # "FUNDED"
        <5>1. line' = line
          BY <2>5, <4>2 DEF OpenDispute, lineVars
        <5>2. Lines' = Lines
          BY <5>1 DEF Lines
        <5> QED
          BY <2>5, <4>2, <5>2 DEF OpenDispute, Freeze, walletVars
      <4> QED
        BY <4>1, <4>2
    <3> QED
      BY <1>2, <3>2, <3>5, <3>6 DEF Keeps, Holds, Actives
  <2>6. CASE ResolveForEngineer(j)
    BY <2>0, <2>6, TakesAndCloses DEF ResolveForEngineer
  <2>7. CASE ResolveForClient(j)
    BY <2>0, <2>7, TakesAndCloses DEF ResolveForClient
  <2>8. CASE Escalate(j) \/ (Submit(j) /\ draft[j].resumes)
    <3>1. own' = own
      BY <2>8 DEF Escalate, Submit, walletVars
    <3>2. CASE found[j] \in Dispute
      <4>1. Actives' = Actives \cup {found[j]}
        BY <2>8, <3>2, Opens DEF Escalate, Submit
      <4>2. Revives(j) => "twice" \in mishaps'
        BY <2>8 DEF Escalate, Submit, Notes, Mark
      <4>3. "twice" \in mishaps' \/ Actives \subseteq {found[j]}
        BY <4>2 DEF Revives, Actives
      <4> QED
        BY <1>1, <1>2, <3>1, <4>1, <4>3 DEF Keeps, Spreads
    <3>3. CASE found[j] \notin Dispute
      <4>1. dispute' = dispute
        BY <2>8, <3>3 DEF Escalate, Submit, TypeOK
      <4> QED
        BY <1>2, <3>1, <4>1, KeepsAll
    <3> QED
      BY <3>2, <3>3
  <2>9. CASE \/ CheckoutCreate(j) \/ Checkout(j) \/ Reopen(j) \/ Revise(j)
             \/ Release(j) \/ Refund(j) \/ Settle(j) \/ Review(j)
             \/ Abandon(j) \/ (Submit(j) /\ ~draft[j].resumes)
    <3>1. dispute' = dispute /\ own' = own
      BY <2>9 DEF CheckoutCreate, Checkout, Reopen, Revise, Release, Refund,
                  Settle, Review, Abandon, Submit, rowVars, walletVars
    <3> QED
      BY <1>2, <3>1, KeepsAll
  <2> QED
    BY <1>6, <2>3, <2>4, <2>5, <2>6, <2>7, <2>8, <2>9 DEF End
<1> QED
  BY <1>2, <1>4, <1>3, <1>5, <1>6, KeepsAll DEF Next

\* Held money has a dispute and a line; both are unconditional.
HeldInv ==
    /\ IsFiniteSet(Actives)
    /\ own <= Cardinality(Actives)
    /\ own > 0 => Lines # {}

\* Every step keeps as many disputes active as it leaves held amounts.
LEMMA HeldInvStep ==
    TypeOK /\ ReadInv /\ HeldInv /\ [Next]_vars => HeldInv'
<1> SUFFICES ASSUME TypeOK, ReadInv, HeldInv, [Next]_vars PROVE HeldInv'
  OBVIOUS
<1>1. /\ own \in Nat /\ IsFiniteSet(Actives) /\ Cardinality(Actives) \in Nat
      /\ own <= Cardinality(Actives)
  BY FS_CardinalityType DEF TypeOK, HeldInv
<1>2. Lines # {} => Lines' # {}
  BY RowsStay DEF Lines
<1>3. CASE Keeps
  <2>1. PICK d : Actives' \subseteq Actives \cup {d}
    BY <1>3 DEF Keeps
  <2>2. IsFiniteSet(Actives \cup {d})
    BY <1>1, FS_AddElement
  <2>3. IsFiniteSet(Actives')
    BY <2>1, <2>2, FS_Subset
  <2>4. /\ Cardinality(Actives) <= Cardinality(Actives')
        /\ Cardinality(Actives') \in Nat
    BY <1>3, <2>3, FS_Subset, FS_CardinalityType DEF Keeps
  <2>5. own' \in Nat /\ own' <= own
    BY <1>1, <1>3 DEF Keeps
  <2>6. own' <= Cardinality(Actives')
    BY <1>1, <2>4, <2>5
  <2>7. own' > 0 => own > 0
    BY <1>1, <2>5
  <2> QED
    BY <1>2, <2>3, <2>6, <2>7 DEF HeldInv
<1>4. CASE Holds
  <2>1. PICK d \in Dispute \ Actives : Actives' = Actives \cup {d}
    BY <1>4 DEF Holds
  <2>2. IsFiniteSet(Actives')
        /\ Cardinality(Actives') = Cardinality(Actives) + 1
    BY <1>1, <2>1, FS_AddElement
  <2> QED
    BY <1>1, <1>4, <2>2 DEF Holds, HeldInv
<1>5. CASE Frees
  <2>1. PICK d \in Actives : Actives' = Actives \ {d}
    BY <1>5 DEF Frees
  <2>2. IsFiniteSet(Actives')
        /\ Cardinality(Actives') = Cardinality(Actives) - 1
    BY <1>1, <2>1, FS_RemoveElement
  <2>3. own' <= Cardinality(Actives')
    <3>1. Cardinality(Actives') \in Nat
      BY <2>2, FS_CardinalityType
    <3> QED
      BY <1>1, <1>5, <2>2, <3>1 DEF Frees
  <2>4. own' > 0 => own > 0
    BY <1>1, <1>5 DEF Frees
  <2> QED
    BY <1>2, <2>2, <2>3, <2>4 DEF HeldInv
<1> QED
  BY <1>3, <1>4, <1>5, HeldStep

\* Up to the mishap of two active disputes, no more than one amount is held.
OneHeld ==
    Spared({"twice"}) =>
        /\ \A d, e \in Actives : d = e
        /\ own <= 1

\* Every step but the mishap itself keeps it so.
LEMMA OneHeldStep ==
    TypeOK /\ ReadInv /\ HeldInv /\ OneHeld /\ [Next]_vars => OneHeld'
<1> SUFFICES ASSUME TypeOK, ReadInv, HeldInv, OneHeld, [Next]_vars,
                    Spared({"twice"})'
             PROVE  (\A d, e \in Actives' : d = e) /\ own' <= 1
  BY DEF OneHeld
<1>1. "twice" \notin mishaps' /\ Spared({"twice"})
  BY PaymentStep DEF Spared
<1>2. (\A d, e \in Actives : d = e) /\ own <= 1 /\ own \in Nat
  BY <1>1 DEF OneHeld, TypeOK
<1>3. \A d, e \in Actives' : d = e
  BY <1>1, <1>2, HeldStep DEF Spreads
<1>4. Actives = {} => own = 0
  BY <1>2, FS_EmptySet DEF HeldInv
<1>5. own' \in 0..own \/ own' = own + 1
      \/ own' = IF own = 0 THEN 0 ELSE own - 1
  BY HeldStep DEF Keeps, Holds, Frees
<1>6. own' <= 1
  <2>1. CASE own' > own
    BY <1>1, <1>2, <1>4, <1>5, <2>1, HeldStep DEF Spreads
  <2>2. CASE ~(own' > own)
    BY <1>2, <1>5, <2>2
  <2> QED
    BY <2>1, <2>2
<1> QED
  BY <1>3, <1>6

-----------------------------------------------------------------------------
(* The lines of the wallet *)

\* A line more, where there was none at l.
LEMMA AddsLine ==
    ASSUME TypeOK, NEW l \in Line, NEW s, s # "NONE", NewLine(l, s)
    PROVE  l \notin Lines /\ Lines' = Lines \cup {l}
<1>1. ASSUME NEW k \in Line
      PROVE  line'[k] # "NONE" <=> line[k] # "NONE" \/ k = l
  BY DEF TypeOK, NewLine
<1> QED
  BY <1>1 DEF Lines, NewLine

\* No line more, when one is updated.
LEMMA SetsLine ==
    ASSUME TypeOK, NEW l \in Line, NEW s, s # "NONE", SetLine(l, s)
    PROVE  Lines' = Lines
<1>1. ASSUME NEW k \in Line PROVE line'[k] # "NONE" <=> line[k] # "NONE"
  BY DEF TypeOK, SetLine
<1> QED
  BY <1>1 DEF Lines

\* The ways a step may change which lines there are: one that credits the
\* engineer for money in escrow adds a line, unless one is there.
Enters ==
    /\ pay = "FUNDED" /\ credits' = credits + 1
    /\ IF Lines = {} THEN \E l \in Line : Lines' = {l} ELSE TRUE
Leaves == Lines' = Lines /\ credits' = credits
Slips == "doubled" \in mishaps' \/ "borrowed" \in mishaps'

\* One branch of an approval.
LEMMA ReleaseEnters ==
    ASSUME TypeOK, ClaimAndRelease PROVE Enters
<1>1. ASSUME Lines = {} PROVE \E l \in Line : Lines' = {l}
  <2>1. PICK l \in Line : NewLine(l, Bucket)
    BY <1>1 DEF ClaimAndRelease
  <2>2. Bucket # "NONE"
    BY DEF Bucket
  <2>3. Lines' = Lines \cup {l}
    BY <2>1, <2>2, AddsLine
  <2> QED
    BY <1>1, <2>3
<1> QED
  BY <1>1 DEF ClaimAndRelease, Claimed, Credit, Enters

\* The other one.
LEMMA ReturnLeaves ==
    ASSUME TypeOK, HeldInv, NEW d, ClaimAndReturn(d) PROVE Leaves \/ Slips
<1>1. credits' = credits
  BY DEF ClaimAndReturn, historyVars
<1>2. CASE Lines # {}
  <2>1. PICK l \in Lines : SetLine(l, Bucket)
    BY <1>2 DEF ClaimAndReturn, PutLine
  <2>2. l \in Line /\ Bucket # "NONE"
    BY <2>1 DEF Lines, Bucket
  <2> QED
    BY <1>1, <2>1, <2>2, SetsLine DEF Leaves
<1>3. CASE Lines = {}
  <2>1. own = 0
    BY <1>3 DEF HeldInv, TypeOK
  <2> QED
    BY <2>1 DEF ClaimAndReturn, TakeHeld, Notes, Mark, Slips
<1> QED
  BY <1>2, <1>3

\* Every step changes the lines in one of these ways.
LEMMA LinesStep ==
    ASSUME TypeOK, ReadInv, HeldInv, [Next]_vars
    PROVE  Leaves \/ Enters \/ Slips
<1>1. ASSUME UNCHANGED << line, credits >> PROVE Leaves
  BY <1>1 DEF Leaves, Lines
<1>2. CASE UNCHANGED vars
  BY <1>1, <1>2 DEF vars, rowVars, lineVars, historyVars
<1>3. CASE Environment
  BY <1>1, <1>3, EnvironmentRows
<1>4. ASSUME NEW j \in Job, Begin(j) PROVE Leaves
  <2>1. UNCHANGED << line, credits >>
    BY <1>4, BeginReads DEF Starts, rowVars, lineVars, historyVars
  <2> QED
    BY <1>1, <2>1
<1>5. ASSUME NEW j \in Job, End(j) PROVE Leaves \/ Enters \/ Slips
  <2>1. CASE Approve(j)
    BY <2>1, ReleaseEnters, ReturnLeaves DEF Approve
  <2>2. CASE AutoApprove(j)
    <3>1. CASE ClaimAndRelease \/ ClaimAndReturn(found[j])
      BY <3>1, ReleaseEnters, ReturnLeaves
    <3>2. CASE UNCHANGED << lineVars, historyVars >>
      BY <1>1, <3>2 DEF lineVars, historyVars
    <3> QED
      BY <2>2, <3>1, <3>2 DEF AutoApprove
  <2>3. CASE Release(j)
    <3>1. PICK l \in Line : NewLine(l, Bucket)
      BY <2>3 DEF Release
    <3>2. Lines' = Lines \cup {l}
      BY <3>1, AddsLine DEF Bucket
    <3> QED
      BY <2>3, <3>2 DEF Release, Claimed, Credit, Enters
  <2>4. CASE OpenDispute(j)
    <3>1. CASE seen[j] = "FUNDED"
      <4>1. PICK l \in Line : NewLine(l, "PENDING")
        BY <2>4, <3>1 DEF OpenDispute
      <4>2. Lines' = Lines \cup {l}
        BY <4>1, AddsLine
      <4>3. credits' = credits + 1
        BY <2>4, <3>1 DEF OpenDispute, Credit
      <4>4. pay = "FUNDED" \/ "doubled" \in mishaps'
        BY <2>4, <3>1 DEF OpenDispute, Notes, Mark
      <4> QED
        BY <4>2, <4>3, <4>4 DEF Enters, Slips
    <3>2. CASE seen[j] # "FUNDED"
      BY <1>1, <2>4, <3>2 DEF OpenDispute, lineVars, historyVars
    <3> QED
      BY <3>1, <3>2
  <2>5. CASE ResolveForEngineer(j)
    <3>1. credits' = credits
      BY <2>5 DEF ResolveForEngineer, historyVars
    <3>2. CASE Lines = {}
      BY <1>1, <2>5, <3>1, <3>2 DEF ResolveForEngineer, lineVars
    <3>3. CASE Lines # {}
      <4>1. PICK l \in Lines : SetLine(l, Bucket)
        BY <2>5, <3>3 DEF ResolveForEngineer
      <4>2. l \in Line /\ Bucket # "NONE"
        BY <4>1 DEF Lines, Bucket
      <4> QED
        BY <3>1, <4>1, <4>2, SetsLine DEF Leaves
    <3> QED
      BY <3>2, <3>3
  <2>6. CASE ResolveForClient(j)
    <3>1. credits' = credits
      BY <2>6 DEF ResolveForClient, historyVars
    <3>2. CASE Lines = {}
      BY <1>1, <2>6, <3>1, <3>2 DEF ResolveForClient
    <3>3. CASE Lines # {}
      <4>1. PICK l \in Lines : line' = [line EXCEPT ![l] = "REJECTED"]
        BY <2>6, <3>3 DEF ResolveForClient
      <4>2. ASSUME NEW k \in Line PROVE line'[k] # "NONE" <=> line[k] # "NONE"
        BY <4>1 DEF TypeOK, Lines
      <4> QED
        BY <3>1, <4>2 DEF Leaves, Lines
    <3> QED
      BY <3>2, <3>3
  <2>7. CASE Settle(j)
    <3>1. credits' = credits
      BY <2>7 DEF Settle, historyVars
    <3>2. CASE \A l \in due[j] : line[l] # "NONE"
      <4>1. ASSUME NEW k \in Line PROVE line'[k] # "NONE" <=> line[k] # "NONE"
        BY <2>7, <3>2, <4>1 DEF Settle
      <4> QED
        BY <3>1, <4>1 DEF Leaves, Lines
    <3> QED
      BY <2>7, <3>2 DEF ReadInv, Snapshot, Settle
  <2>8. CASE \/ CheckoutCreate(j) \/ Checkout(j) \/ Reopen(j) \/ Review(j)
             \/ Submit(j) \/ Revise(j) \/ Refund(j) \/ Escalate(j)
             \/ Abandon(j)
    BY <1>1, <2>8 DEF CheckoutCreate, Checkout, Reopen, Review, Submit, Revise,
                      Refund, Escalate, Abandon, rowVars, lineVars, historyVars
  <2> QED
    BY <1>5, <2>1, <2>2, <2>3, <2>4, <2>5, <2>6, <2>7, <2>8 DEF End
<1> QED
  BY <1>2, <1>3, <1>4, <1>5 DEF Next

\* A credit has one line.
OneLine ==
    Spared({"overtaken", "doubled", "borrowed"}) =>
        IF credits = 0 THEN Lines = {} ELSE \E l \in Line : Lines = {l}

\* Every step but a mishap keeps it so.
LEMMA OneLineStep ==
    TypeOK /\ ReadInv /\ MoneyInv /\ HeldInv /\ OneLine /\ [Next]_vars
    => OneLine'
<1> SUFFICES ASSUME TypeOK, ReadInv, MoneyInv, HeldInv, OneLine, [Next]_vars,
                    Spared({"overtaken", "doubled", "borrowed"})'
             PROVE  IF credits' = 0 THEN Lines' = {}
                                    ELSE \E l \in Line : Lines' = {l}
  BY DEF OneLine
<1>1. /\ Spared({"overtaken", "doubled", "borrowed"}) /\ ~Slips
      /\ Spared({"overtaken", "doubled"})
  BY PaymentStep DEF Spared, Slips
<1>2. /\ IF credits = 0 THEN Lines = {} ELSE \E l \in Line : Lines = {l}
      /\ pay = "FUNDED" => credits = 0
  BY <1>1 DEF OneLine, MoneyInv, Credited
<1>3. CASE Leaves
  BY <1>2, <1>3 DEF Leaves
<1>4. CASE Enters
  <2>1. credits = 0 /\ credits' = 1
    BY <1>2, <1>4 DEF Enters
  <2> QED
    BY <1>2, <1>4, <2>1 DEF Enters
<1> QED
  BY <1>1, <1>3, <1>4, LinesStep

-----------------------------------------------------------------------------
(* The invariant, and what follows from it *)

\* Nothing is held for earnings that were refused.
Refused ==
    Spared({"overtaken", "doubled", "twice", "borrowed"}) =>
        own = 0 \/ \A l \in Line : line[l] # "REJECTED"

IInv == ReadInv /\ MoneyInv /\ HeldInv /\ OneHeld /\ OneLine /\ Refused

\* Every step but a mishap keeps it so.
LEMMA RefusedInvStep == TypeOK /\ IInv /\ [Next]_vars => Refused'
<1> SUFFICES ASSUME TypeOK, IInv, [Next]_vars,
                    Spared({"overtaken", "doubled", "twice", "borrowed"})'
             PROVE  own' = 0 \/ \A l \in Line : line'[l] # "REJECTED"
  BY DEF Refused
<1> USE DEF IInv
<1>1. /\ Spared({"overtaken", "doubled", "twice", "borrowed"}) /\ ~Slips
      /\ Spared({"overtaken", "doubled", "borrowed"}) /\ Spared({"twice"})
      /\ Spared({"overtaken", "doubled"}) /\ "doubled" \notin mishaps'
  BY PaymentStep DEF Spared, Slips
<1>2. /\ own \in 0..1
      /\ own = 0 \/ \A l \in Line : line[l] # "REJECTED"
      /\ pay = "FUNDED" => Lines = {}
      /\ \A k, l \in Lines : k = l
  BY <1>1 DEF OneHeld, Refused, OneLine, MoneyInv, Credited, TypeOK
<1>3. ASSUME \A l \in Line : line'[l] = "REJECTED" => line[l] = "REJECTED",
             ~Holds
      PROVE  own' = 0 \/ \A l \in Line : line'[l] # "REJECTED"
  <2>1. own = 0 => own' = 0
    BY <1>2, <1>3, HeldStep DEF Keeps, Frees
  <2> QED
    BY <1>2, <1>3, <2>1
<1>4. ASSUME UNCHANGED line, ~Holds
      PROVE  own' = 0 \/ \A l \in Line : line'[l] # "REJECTED"
  BY <1>3, <1>4
<1>5. CASE UNCHANGED vars
  <2>1. UNCHANGED line /\ own' = own
    BY <1>5 DEF vars, rowVars, lineVars, walletVars
  <2> QED
    BY <1>2, <1>4, <2>1 DEF Holds
<1>6. CASE Environment
  <2>1. UNCHANGED << line, dispute >>
    BY <1>6, EnvironmentRows
  <2>2. Actives' = Actives
    BY <2>1 DEF Actives, Active
  <2> QED
    BY <1>4, <2>1, <2>2 DEF Holds
<1>7. ASSUME NEW j \in Job, Begin(j)
      PROVE  own' = 0 \/ \A l \in Line : line'[l] # "REJECTED"
  <2>1. UNCHANGED << line, own >>
    BY <1>7, BeginReads DEF Starts, rowVars, lineVars, walletVars
  <2> QED
    BY <1>2, <1>4, <2>1 DEF Holds
<1>8. ASSUME NEW j \in Job, End(j)
      PROVE  own' = 0 \/ \A l \in Line : line'[l] # "REJECTED"
  <2>1. CASE OpenDispute(j)
    <3>1. CASE seen[j] = "FUNDED"
      <4>1. PICK l \in Line : NewLine(l, "PENDING")
        BY <2>1, <3>1 DEF OpenDispute
      <4>2. pay = "FUNDED"
        BY <1>1, <2>1, <3>1 DEF OpenDispute, Notes, Mark
      <4>3. \A k \in Line : line[k] = "NONE"
        BY <1>2, <4>2 DEF Lines
      <4> QED
        BY <4>1, <4>3 DEF NewLine, TypeOK
    <3>2. CASE seen[j] # "FUNDED" /\ own' = own
      <4>1. line' = line
        BY <2>1, <3>2 DEF OpenDispute, lineVars
      <4> QED
        BY <1>2, <3>2, <4>1
    <3>3. CASE seen[j] # "FUNDED" /\ own' # own
      <4>1. PICK l \in Lines : line[l] \in {"PENDING", "AVAILABLE"}
        BY <2>1, <3>3 DEF OpenDispute, walletVars
      <4>2. line' = line
        BY <2>1, <3>3 DEF OpenDispute, lineVars
      <4>3. \A k \in Line : line[k] # "REJECTED"
        BY <1>2, <4>1 DEF Lines
      <4> QED
        BY <4>2, <4>3
    <3> QED
      BY <3>1, <3>2, <3>3
  <2>2. CASE ResolveForClient(j)
    <3>1. own' = 0
      BY <1>2, <2>2 DEF ResolveForClient, TakeHeld
    <3> QED
      BY <3>1
  <2>3. CASE ~OpenDispute(j) /\ ~ResolveForClient(j)
    <3>1. ASSUME NEW l \in Line, line'[l] = "REJECTED"
          PROVE  line[l] = "REJECTED"
      <4>1. ASSUME NEW k, NEW s, s # "REJECTED", NewLine(k, s) \/ SetLine(k, s)
            PROVE  line[l] = "REJECTED"
        BY <3>1, <4>1 DEF NewLine, SetLine, TypeOK
      <4>2. Bucket # "REJECTED"
        BY DEF Bucket
      <4>3. ClaimAndRelease \/ (\E d : ClaimAndReturn(d))
            => line[l] = "REJECTED"
        BY <3>1, <4>1, <4>2 DEF ClaimAndRelease, ClaimAndReturn, PutLine
      <4>4. CASE Release(j)
        BY <4>1, <4>2, <4>4 DEF Release
      <4>5. CASE Approve(j) \/ AutoApprove(j)
        BY <3>1, <4>3, <4>5 DEF Approve, AutoApprove, lineVars
      <4>6. CASE ResolveForEngineer(j)
        BY <3>1, <4>1, <4>2, <4>6 DEF ResolveForEngineer, lineVars
      <4>7. CASE Settle(j)
        BY <3>1, <4>7 DEF Settle
      <4>8. CASE \/ CheckoutCreate(j) \/ Checkout(j) \/ Reopen(j) \/ Review(j)
                 \/ Submit(j) \/ Revise(j) \/ Refund(j) \/ Escalate(j)
                 \/ Abandon(j)
        BY <3>1, <4>8 DEF CheckoutCreate, Checkout, Reopen, Review, Submit,
                          Revise, Refund, Escalate, Abandon, rowVars, lineVars
      <4> QED
        BY <1>8, <2>3, <4>4, <4>5, <4>6, <4>7, <4>8 DEF End
    <3>2. own' <= own
      <4>1. ClaimAndRelease \/ (\E d : ClaimAndReturn(d)) => own' <= own
        BY <1>2 DEF ClaimAndRelease, ClaimAndReturn, TakeHeld
      <4>2. CASE \/ Approve(j) \/ AutoApprove(j) \/ Release(j)
                 \/ ResolveForEngineer(j)
        BY <1>2, <4>1, <4>2 DEF Approve, AutoApprove, Release,
                                ResolveForEngineer, TakeHeld, walletVars
      <4>3. CASE \/ CheckoutCreate(j) \/ Checkout(j) \/ Reopen(j) \/ Review(j)
                 \/ Submit(j) \/ Revise(j) \/ Refund(j) \/ Escalate(j)
                 \/ Abandon(j) \/ Settle(j)
        <5>1. own' = own
          BY <4>3 DEF CheckoutCreate, Checkout, Reopen, Review, Submit,
                Revise, Refund, Escalate, Abandon, Settle, rowVars, walletVars
        <5> QED
          BY <1>2, <5>1
      <4> QED
        BY <1>8, <2>3, <4>2, <4>3 DEF End
    <3>3. ~Holds
      BY <1>2, <3>2 DEF Holds
    <3> QED
      BY <1>3, <3>1, <3>3
  <2> QED
    BY <2>1, <2>2, <2>3
<1> QED
  BY <1>5, <1>6, <1>7, <1>8 DEF Next

\* The invariant holds throughout, for any number of handlers, disputes and
\* lines, whatever overlaps.
THEOREM Invariance == Spec => []IInv
<1>1. Init => IInv
  <2> SUFFICES ASSUME Init PROVE IInv
    OBVIOUS
  <2>1. Actives = {} /\ Lines = {}
    BY DEF Init, Actives, Active, Lines
  <2>2. ReadInv /\ MoneyInv /\ Refused
    BY DEF Init, ReadInv, Snapshot, MoneyInv, EscrowBalances, Credited, Refused
  <2>3. HeldInv
    BY <2>1, FS_EmptySet DEF Init, HeldInv
  <2>4. OneHeld /\ OneLine
    BY <2>1 DEF Init, OneHeld, OneLine
  <2> QED
    BY <2>2, <2>3, <2>4 DEF IInv
<1>2. TypeOK /\ IInv /\ [Next]_vars => IInv'
  BY ReadStep, MoneyStep, HeldInvStep, OneHeldStep, OneLineStep,
     RefusedInvStep DEF IInv
<1> QED
  BY <1>1, <1>2, TypeCorrect, PTL DEF Spec

\* The money of every funding is in escrow, with the engineer or back with the
\* client, unless a stale checkout or openDispute wrote the payment.
THEOREM EscrowBalanced == Spec => []EscrowBalances
<1>1. IInv => EscrowBalances
  BY DEF IInv, MoneyInv
<1> QED
  BY <1>1, Invariance, PTL

\* The engineer is credited once, with one line.
THEOREM EngineerPaidOnce == Spec => []PaidOnce
<1>1. TypeOK /\ IInv => PaidOnce
  <2> SUFFICES ASSUME TypeOK, IInv, Spared({"overtaken", "doubled"})
               PROVE  /\ credits <= 1
                      /\ Spared({"borrowed"}) => Cardinality(Lines) = credits
    BY DEF PaidOnce
  <2>1. credits \in {0, 1}
    BY DEF IInv, MoneyInv, Credited
  <2>2. ASSUME Spared({"borrowed"}) PROVE Cardinality(Lines) = credits
    <3>1. Spared({"overtaken", "doubled", "borrowed"})
      BY <2>2 DEF Spared
    <3>2. IF credits = 0 THEN Lines = {} ELSE \E l \in Line : Lines = {l}
      BY <3>1 DEF IInv, OneLine
    <3> QED
      BY <2>1, <3>2, FS_EmptySet, FS_Singleton
  <2> QED
    BY <2>1, <2>2
<1> QED
  BY <1>1, Invariance, TypeCorrect, PTL

\* The wallet never holds more of the project's money than it has active
\* disputes to free it.
THEOREM HeldForDispute == Spec => []HeldHasDispute
<1>1. IInv => HeldHasDispute
  BY DEF IInv, HeldInv, Actives, HeldHasDispute
<1> QED
  BY <1>1, Invariance, PTL

\* A line that was refused is written again by a settlement only, up to the
\* mishaps named.
LEMMA RefusedStep ==
    ASSUME TypeOK, IInv, Next, NEW l \in Line,
           line[l] = "REJECTED", line'[l] # "REJECTED",
           Spared({"overtaken", "doubled", "twice", "borrowed"})'
    PROVE  \E j \in Job : op[j] = "settle" /\ l \in due[j]
<1> USE DEF IInv
<1>1. /\ Spared({"overtaken", "doubled", "twice", "borrowed"}) /\ ~Slips
      /\ Spared({"overtaken", "doubled", "borrowed"})
      /\ Spared({"overtaken", "doubled"}) /\ "borrowed" \notin mishaps'
  BY PaymentStep DEF Spared, Slips
<1>2. own = 0 /\ pay # "FUNDED" /\ Lines # {}
  BY <1>1 DEF Refused, OneLine, MoneyInv, Credited, Lines
<1>3. ~TakeHeld /\ ~Claimed
  BY <1>1, <1>2 DEF TakeHeld, Notes, Mark, Claimed
<1>4. ASSUME NEW k, NEW s, NewLine(k, s) PROVE FALSE
  BY <1>4 DEF NewLine, TypeOK
<1>5. PICK j \in Job : Begin(j) \/ End(j)
  BY EnvironmentRows DEF Next
<1>6. End(j)
  BY <1>5, BeginReads DEF Starts, rowVars, lineVars
<1>7. ~ClaimAndRelease /\ \A d : ~ClaimAndReturn(d)
  BY <1>3 DEF ClaimAndRelease, ClaimAndReturn
<1>8. Settle(j)
  BY <1>3, <1>4, <1>6, <1>7
     DEF End, CheckoutCreate, Checkout, Reopen, Review, Submit, Revise,
         Approve, Release, Refund, AutoApprove, OpenDispute,
         ResolveForEngineer, ResolveForClient, Escalate, Abandon, rowVars,
         lineVars
<1> QED
  BY <1>8 DEF Settle

\* What a dispute took from the engineer does not come back to him, up to the
\* mishaps named.
THEOREM RefusalKept == Spec => RefusedStaysRefused
<1>1. TypeOK /\ IInv /\ [Next]_vars
      => [\A l \in Line :
             line[l] = "REJECTED" /\ line'[l] # "REJECTED"
             => \/ \E j \in Job : op[j] = "settle" /\ l \in due[j]
                \/ ~Spared({"overtaken", "doubled", "twice", "borrowed"})']_vars
  BY RefusedStep
<1> QED
  BY <1>1, Invariance, TypeCorrect, PTL DEF Spec, RefusedStaysRefused

\* Earnings that are available, or about to be settled, have matured.
HoldInv == HoldRespected /\ \A j \in Job : due[j] # {} => Matured

\* The days since the delivery do not go back, and begin with a submission.
LEMMA AgeStep ==
    ASSUME TypeOK, [Next]_vars
    PROVE  /\ Matured => Matured'
           /\ age' # -1 => age # -1 \/ \E j \in Job : op[j] = "submit"
<1>1. ASSUME NEW j \in Job, Begin(j) PROVE age' = age
  BY <1>1, BeginReads DEF Starts, rowVars, projectVars
<1>2. ASSUME NEW j \in Job, End(j)
      PROVE  age' = age \/ (op[j] = "submit" /\ (age # -1 => age' = age))
  BY <1>2 DEF End, CheckoutCreate, Checkout, Reopen, Review, Submit, Revise,
         Approve, Release, Refund, AutoApprove, OpenDispute,
         ResolveForEngineer, ResolveForClient, Escalate, Settle, Abandon,
         rowVars, projectVars
<1>3. ASSUME Environment \/ UNCHANGED vars
      PROVE  age' = age \/ (age # -1 /\ age' = age + 1)
  <2>1. Tick => age' = age \/ (age # -1 /\ age' = age + 1)
    BY WindowAssumption DEF Tick
  <2>2. ~Tick => age' = age
    BY <1>3 DEF Environment, Fund, Withdraw, ManualFreeze, OthersDispute,
           OthersResolve, SetStatus, projectVars, vars, rowVars
  <2> QED
    BY <2>1, <2>2
<1>4. Hold \in Nat /\ age \in Int
  BY WindowAssumption DEF TypeOK
<1>5. age' = age \/ age = -1 \/ age' = age + 1 => (Matured => Matured')
  BY <1>4 DEF Matured
<1> QED
  BY <1>1, <1>2, <1>3, <1>5 DEF Next

\* No step makes an amount available early.
LEMMA HoldStep == TypeOK /\ HoldInv /\ [Next]_vars => HoldInv'
<1> SUFFICES ASSUME TypeOK, HoldInv, [Next]_vars PROVE HoldInv'
  OBVIOUS
<1>1. ASSUME NEW i \in Job, due'[i] # {} PROVE Matured'
  <2>1. ASSUME NEW j \in Job, Begin(j) PROVE due'[i] = due[i] \/ Matured
    <3>1. PICK o \in Operation, d \in Dispute \cup {NoDispute}, x \in Dates,
               s \in SUBSET Line : Starts(j, o, d, x, s) /\ Reason(o, d, x, s)
      BY <2>1, BeginReads
    <3>2. due' = [due EXCEPT ![j] = s] /\ (s # {} => Matured)
      BY <3>1 DEF Starts, Reason
    <3> QED
      BY <1>1, <3>2 DEF TypeOK
  <2>2. ASSUME NEW j \in Job, End(j) PROVE due'[i] = due[i]
    <3>1. i # j => due'[i] = due[i]
      BY <2>2, EndJobs
    <3>2. i = j => due'[i] \in {{}, due[i]}
      BY <2>2, EndJobs
    <3> QED
      BY <1>1, <3>1, <3>2
  <2>3. ASSUME Environment \/ UNCHANGED vars PROVE due'[i] = due[i]
    BY <2>3, EnvironmentRows DEF vars, jobVars
  <2> QED
    BY <1>1, <2>1, <2>2, <2>3, AgeStep DEF Next, HoldInv
<1>2. ASSUME NEW l \in Line, line'[l] = "AVAILABLE"
      PROVE  line[l] = "AVAILABLE" \/ Matured
  <2> USE <1>2 DEF TypeOK
  <2>1. ASSUME NEW k \in Line, NewLine(k, Bucket) \/ SetLine(k, Bucket)
        PROVE  line[l] = "AVAILABLE" \/ Matured
    BY <2>1 DEF NewLine, SetLine, Bucket
  <2>2. CASE line' = line
    BY <2>2
  <2>3. ASSUME NEW j \in Job, Begin(j) PROVE line' = line
    BY <2>3, BeginReads DEF Starts, rowVars, lineVars
  <2>4. CASE Environment \/ UNCHANGED vars
    BY <2>2, <2>4, EnvironmentRows DEF vars, rowVars, lineVars
  <2>5. ASSUME NEW j \in Job, End(j)
        PROVE  line[l] = "AVAILABLE" \/ Matured
    <3>1. CASE ClaimAndRelease \/ \E d \in {found[j]} : ClaimAndReturn(d)
      BY <2>1, <2>2, <3>1
         DEF ClaimAndRelease, ClaimAndReturn, PutLine, Lines
    <3>2. CASE Approve(j) \/ AutoApprove(j)
      BY <2>2, <3>1, <3>2 DEF Approve, AutoApprove, lineVars
    <3>3. CASE Release(j) \/ ResolveForEngineer(j)
      BY <2>1, <2>2, <3>3 DEF Release, ResolveForEngineer, Lines, lineVars
    <3>4. CASE OpenDispute(j)
      BY <2>2, <3>4 DEF OpenDispute, NewLine, lineVars
    <3>5. CASE ResolveForClient(j)
      BY <2>2, <3>5 DEF ResolveForClient, Lines
    <3>6. CASE Settle(j)
      BY <3>6 DEF Settle, HoldInv
    <3>7. CASE \/ CheckoutCreate(j) \/ Checkout(j) \/ Reopen(j) \/ Review(j)
               \/ Submit(j) \/ Revise(j) \/ Refund(j) \/ Escalate(j)
               \/ Abandon(j)
      BY <2>2, <3>7 DEF CheckoutCreate, Checkout, Reopen, Review, Submit,
                        Revise, Refund, Escalate, Abandon, rowVars, lineVars
    <3> QED
      BY <2>5, <3>2, <3>3, <3>4, <3>5, <3>6, <3>7 DEF End
  <2> QED
    BY <2>2, <2>3, <2>4, <2>5 DEF Next
<1>3. HoldRespected'
  BY <1>2, AgeStep DEF HoldInv, HoldRespected, Matured
<1> QED
  BY <1>1, <1>3 DEF HoldInv

\* No way into the wallet makes earnings available before their day.
THEOREM HoldKept == Spec => []HoldRespected
<1>1. Init => HoldInv
  BY DEF Init, HoldInv, HoldRespected
<1>2. HoldInv => HoldRespected
  BY DEF HoldInv
<1> QED
  BY <1>1, <1>2, HoldStep, TypeCorrect, PTL DEF Spec

-----------------------------------------------------------------------------
(* An engineer who is asked for a fix can submit one *)

\* Work that is delivered, or about to be, is paid for, and a handler that read
\* it found it so.
PaidInv ==
    Spared({"overtaken"}) /\ refunds = 0 =>
        /\ age # -1 \/ (\E j \in Job : op[j] = "submit")
           => pay \in {"FUNDED", "RELEASED"}
        /\ \A j \in Job :
              /\ op[j] \in {"openDispute", "autoApprove"}
                 => seen[j] \in {"FUNDED", "RELEASED"}
              /\ seen[j] = "RELEASED" => pay = "RELEASED"

\* A dispute that awaits a fix has paused the window, and a submission that
\* found it resumes it.
PausedInv ==
    Spared({"outrun"}) =>
        \A d \in Dispute : Awaiting(d) =>
            /\ paused # NotPaused
            /\ \A j \in Job : op[j] = "submit" /\ found[j] = d
                              => draft[j].resumes

FixInv == PaidInv /\ PausedInv /\ FixIsPossible

\* A payment that was made is not undone but by a refund or a stale checkout.
LEMMA PaidStep ==
    TypeOK /\ ReadInv /\ PaidInv /\ [Next]_vars => PaidInv'
<1> SUFFICES ASSUME TypeOK, ReadInv, PaidInv, [Next]_vars,
                    Spared({"overtaken"})', refunds' = 0
             PROVE  /\ age' # -1 \/ (\E j \in Job : op'[j] = "submit")
                       => pay' \in {"FUNDED", "RELEASED"}
                    /\ \A j \in Job :
                          /\ op'[j] \in {"openDispute", "autoApprove"}
                             => seen'[j] \in {"FUNDED", "RELEASED"}
                          /\ seen'[j] = "RELEASED" => pay' = "RELEASED"
  BY DEF PaidInv
<1>1. /\ Spared({"overtaken"}) /\ "overtaken" \notin mishaps'
      /\ refunds \in Nat
  BY PaymentStep DEF Spared, TypeOK
<1>2. /\ refunds' \in {refunds, refunds + 1}
      /\ refunds' = refunds => ~Refunds
  BY <1>1, PaymentStep
     DEF counters, Funds, Pays, Refunds, Doubles, Resets
<1>3. refunds = 0 /\ ~Refunds
  BY <1>1, <1>2
<1>4. /\ pay \in {"FUNDED", "RELEASED"} => pay' \in {"FUNDED", "RELEASED"}
      /\ pay = "RELEASED" => pay' = "RELEASED"
  BY <1>1, <1>3, PaymentStep
     DEF counters, Funds, Pays, Doubles, Resets
<1>5. /\ age # -1 \/ (\E j \in Job : op[j] = "submit")
         => pay \in {"FUNDED", "RELEASED"}
      /\ \A j \in Job :
            /\ op[j] \in {"openDispute", "autoApprove"}
               => seen[j] \in {"FUNDED", "RELEASED"}
            /\ seen[j] = "RELEASED" => pay = "RELEASED"
  BY <1>1, <1>3 DEF PaidInv
<1>6. age' # -1 => pay' \in {"FUNDED", "RELEASED"}
  BY <1>4, <1>5, AgeStep
<1>7. ASSUME NEW i \in Job
      PROVE  /\ op'[i] = "submit" => pay' \in {"FUNDED", "RELEASED"}
             /\ op'[i] \in {"openDispute", "autoApprove"}
                => seen'[i] \in {"FUNDED", "RELEASED"}
             /\ seen'[i] = "RELEASED" => pay' = "RELEASED"
  <2>1. CASE op'[i] = op[i] /\ seen'[i] = seen[i]
    BY <1>4, <1>5, <2>1
  <2>2. CASE Environment \/ UNCHANGED vars
    BY <2>1, <2>2, EnvironmentRows DEF vars, jobVars
  <2>3. ASSUME NEW j \in Job, Begin(j), i = j
        PROVE  /\ op'[i] = "submit" => pay' \in {"FUNDED", "RELEASED"}
               /\ op'[i] \in {"openDispute", "autoApprove"}
                  => seen'[i] \in {"FUNDED", "RELEASED"}
               /\ seen'[i] = "RELEASED" => pay' = "RELEASED"
    <3>1. PICK o \in Operation, d \in Dispute \cup {NoDispute}, x \in Dates,
               s \in SUBSET Line : Starts(j, o, d, x, s) /\ Reason(o, d, x, s)
      BY <2>3, BeginReads
    <3>2. op'[i] = o /\ seen'[i] = pay /\ pay' = pay
      BY <2>3, <3>1 DEF Starts, rowVars, TypeOK
    <3> QED
      BY <1>5, <3>1, <3>2 DEF Reason
  <2>4. ASSUME NEW j \in Job, Begin(j), i # j
        PROVE  op'[i] = op[i] /\ seen'[i] = seen[i]
    BY <2>4, BeginReads DEF Starts, TypeOK
  <2>5. ASSUME NEW j \in Job, End(j), i = j
        PROVE  op'[i] \in {"idle", "checkout"} /\ seen'[i] # "RELEASED"
    BY <2>5, EndJobs
  <2>6. ASSUME NEW j \in Job, End(j), i # j
        PROVE  op'[i] = op[i] /\ seen'[i] = seen[i]
    BY <2>6, EndJobs
  <2> QED
    BY <2>1, <2>2, <2>3, <2>4, <2>5, <2>6 DEF Next
<1> QED
  BY <1>6, <1>7

\* A dispute begins to await a fix when it is opened.
LEMMA AwaitedStep ==
    ASSUME TypeOK, [Next]_vars, NEW d \in Dispute, Awaiting(d)', ~Awaiting(d)
    PROVE  dispute[d] = "NONE" /\ \E j \in Job : OpenDispute(j)
<1>1. dispute' # dispute
  BY DEF Awaiting
<1>2. ASSUME NEW s, s # "AWAITING_ENGINEER_FIX", NEW e,
             dispute' = [dispute EXCEPT ![e] = s]
      PROVE  FALSE
  BY <1>2 DEF Awaiting, TypeOK
<1>3. PICK j \in Job : End(j)
  <2>1. ASSUME NEW j \in Job, Begin(j) PROVE dispute' = dispute
    BY <2>1, BeginReads DEF Starts, rowVars
  <2>2. CASE UNCHANGED vars \/ Environment
    BY <1>1, <2>2, EnvironmentRows DEF vars, rowVars
  <2> QED
    BY <1>1, <2>1, <2>2 DEF Next
<1>4. \A e : ~ClaimAndReturn(e)
  BY <1>2 DEF ClaimAndReturn
<1>5. /\ ~Submit(j) /\ ~Escalate(j) /\ ~ResolveForEngineer(j)
      /\ ~ResolveForClient(j) /\ ~Approve(j) /\ ~AutoApprove(j)
  BY <1>1, <1>2, <1>4
     DEF Submit, Escalate, ResolveForEngineer, ResolveForClient, Approve,
         AutoApprove, ClaimAndRelease
<1>6. OpenDispute(j)
  BY <1>1, <1>3, <1>5
     DEF End, CheckoutCreate, Checkout, Reopen, Review, Revise, Release,
         Refund, Settle, Abandon, rowVars
<1>7. dispute[d] = "NONE"
  BY <1>6 DEF OpenDispute, Awaiting, TypeOK
<1> QED
  BY <1>6, <1>7

\* A submission that ends while a fix is awaited has handed it in, or is noted
\* as a mishap.
LEMMA SubmitAwaited ==
    ASSUME TypeOK, PausedInv, NEW j \in Job, Submit(j),
           NEW d \in Dispute, Awaiting(d), Awaiting(d)',
           Spared({"outrun"})'
    PROVE  FALSE
<1>1. mishaps \subseteq mishaps' /\ (Overlooks(j) => "outrun" \in mishaps')
  BY DEF Submit, Notes, Mark
<1>2. Spared({"outrun"}) /\ ~Overlooks(j)
  BY <1>1 DEF Spared
<1>3. found[j] = d /\ op[j] = "submit"
  BY <1>2 DEF Overlooks, Submit
<1>4. draft[j].resumes
  BY <1>2, <1>3 DEF PausedInv
<1>5. dispute' = [dispute EXCEPT ![d] = "OPEN"]
  BY <1>3, <1>4 DEF Submit
<1> QED
  BY <1>5 DEF Awaiting, TypeOK

\* While a fix is awaited the window stays paused and submissions resume it.
LEMMA PausedStep ==
    TypeOK /\ ReadInv /\ PausedInv /\ [Next]_vars => PausedInv'
<1> SUFFICES ASSUME TypeOK, ReadInv, PausedInv, [Next]_vars,
                    Spared({"outrun"})', NEW d \in Dispute, Awaiting(d)'
             PROVE  /\ paused' # NotPaused
                    /\ \A i \in Job : op'[i] = "submit" /\ found'[i] = d
                                      => draft'[i].resumes
  BY DEF PausedInv
<1>1. Spared({"outrun"})
  BY PaymentStep DEF Spared
<1>2. d # NoDispute
  BY DisputeAssumption
<1>3. left # NotPaused
  <2>1. left \in -1..Window
    BY DEF TypeOK
  <2> QED
    BY <2>1 DEF NotPaused
<1>4. ASSUME NEW j \in Job, End(j), NEW i \in Job, op'[i] = "submit"
      PROVE  op[i] = "submit" /\ found'[i] = found[i] /\ draft'[i] = draft[i]
  BY <1>4, EndJobs
<1>5. CASE ~Awaiting(d)
  <2>1. dispute[d] = "NONE"
    BY <1>5, AwaitedStep
  <2>2. PICK j \in Job : OpenDispute(j)
    BY <1>5, AwaitedStep
  <2>3. paused' # NotPaused
    BY <1>3, <2>2 DEF OpenDispute
  <2>4. ASSUME NEW i \in Job, op'[i] = "submit", found'[i] = d PROVE FALSE
    <3>1. found[i] = d
      BY <1>4, <2>2, <2>4 DEF End
    <3> QED
      BY <1>2, <2>1, <3>1 DEF ReadInv, Snapshot
  <2> QED
    BY <2>3, <2>4
<1>6. CASE Awaiting(d)
  <2>1. /\ paused # NotPaused
        /\ \A i \in Job : op[i] = "submit" /\ found[i] = d => draft[i].resumes
    BY <1>1, <1>6 DEF PausedInv
  <2>2. CASE UNCHANGED vars \/ Environment
    <3>1. UNCHANGED << op, found, draft, paused >>
      BY <2>2, EnvironmentRows DEF vars, jobVars, rowVars, projectVars
    <3> QED
      BY <2>1, <3>1
  <2>3. ASSUME NEW j \in Job, Begin(j)
        PROVE  /\ paused' # NotPaused
               /\ \A i \in Job : op'[i] = "submit" /\ found'[i] = d
                                 => draft'[i].resumes
    <3>1. PICK o \in Operation, e \in Dispute \cup {NoDispute}, x \in Dates,
               s \in SUBSET Line : Starts(j, o, e, x, s) /\ Reason(o, e, x, s)
      BY <2>3, BeginReads
    <3>2. /\ op' = [op EXCEPT ![j] = o] /\ found' = [found EXCEPT ![j] = e]
          /\ draft' = [draft EXCEPT ![j] = x] /\ paused' = paused
      BY <3>1 DEF Starts, rowVars, projectVars
    <3>3. o = "submit" /\ e = d => x.resumes
      BY <1>2, <1>6, <2>1, <3>1 DEF Reason, Draft
    <3>4. /\ op \in [Job -> Operation \cup {"idle"}]
          /\ found \in [Job -> Dispute \cup {NoDispute}]
          /\ draft \in [Job -> Dates]
      BY DEF TypeOK, Dates
    <3> QED
      BY <2>1, <3>2, <3>3, <3>4
  <2>4. ASSUME NEW j \in Job, End(j)
        PROVE  /\ paused' # NotPaused
               /\ \A i \in Job : op'[i] = "submit" /\ found'[i] = d
                                 => draft'[i].resumes
    <3>1. ~Submit(j)
      BY <1>6, SubmitAwaited
    <3>2. OpenDispute(j) \/ paused' = paused
      BY <2>4, <3>1
         DEF End, CheckoutCreate, Checkout, Reopen, Revise, Approve, Release,
             Refund, AutoApprove, ResolveForEngineer, ResolveForClient,
             Escalate, Settle, Review, Abandon, rowVars, projectVars
    <3>3. paused' # NotPaused
      BY <1>3, <2>1, <3>2 DEF OpenDispute
    <3> QED
      BY <1>4, <2>1, <2>4, <3>3
  <2> QED
    BY <2>2, <2>3, <2>4 DEF Next
<1> QED
  BY <1>5, <1>6

\* A handler that ends while a fix is awaited leaves the work open.
LEMMA FixEnd ==
    ASSUME TypeOK, IInv, FixInv, NEW j \in Job, End(j),
           NEW d \in Dispute, Awaiting(d), Awaiting(d)',
           refunds = 0, reviews' = 0, pay = "RELEASED",
           project \in SUBMITTABLE_STATUSES,
           Spared({"outrun", "overruled", "overtaken", "twice"})',
           Spared({"outrun", "overruled", "overtaken", "twice"})
    PROVE  project' \in SUBMITTABLE_STATUSES
<1>1. /\ Spared({"outrun"})' /\ Spared({"twice"}) /\ Spared({"overtaken"})
      /\ "outrun" \notin mishaps'
  BY DEF Spared
<1>2. ~Claimed
  BY DEF Claimed
<1>3. ~Submit(j) /\ ~Review(j)
  BY <1>1, SubmitAwaited DEF FixInv, Review
<1>4. /\ found[j] # NoDispute => found[j] \in Dispute
      /\ op[j] \in {"resolve", "escalate"} => found[j] \in Dispute
  BY DEF TypeOK, IInv, ReadInv, Snapshot
<1>5. ASSUME found[j] \in Dispute, Active(found[j]) PROVE found[j] = d
  BY <1>1, <1>5 DEF IInv, OneHeld, Actives, Active, Awaiting
<1>6. dispute' # [dispute EXCEPT ![d] = "RESOLVED_ENGINEER"]
  BY DEF Awaiting, TypeOK
<1>7. found[j] # NoDispute => ~ClaimAndReturn(found[j])
  BY <1>4, <1>5, <1>6 DEF ClaimAndReturn
<1>8. ~ResolveForEngineer(j)
  BY <1>4, <1>5, <1>6 DEF ResolveForEngineer
<1>9. ~Approve(j)
  BY <1>2, <1>7 DEF Approve, ClaimAndRelease
<1>10. CASE AutoApprove(j)
  <2>1. seen[j] \in {"FUNDED", "RELEASED"}
    BY <1>1, <1>10 DEF FixInv, PaidInv, AutoApprove
  <2>2. Overlooks(j) \/ found[j] = d
    BY DEF Overlooks
  <2>3. d # NoDispute
    BY DisputeAssumption
  <2>4. Overlooks(j) => "outrun" \in mishaps' \/ project' = project
    BY <1>2, <1>7, <1>10 DEF AutoApprove, ClaimAndRelease, Notes, Mark
  <2>5. found[j] = d => project' = project
    BY <1>2, <1>7, <1>10, <2>1, <2>3 DEF AutoApprove, ClaimAndRelease
  <2> QED
    BY <1>1, <2>2, <2>4, <2>5
<1> QED
  BY <1>2, <1>3, <1>8, <1>9, <1>10
     DEF End, CheckoutCreate, Checkout, Reopen, Revise, Release, Refund,
         OpenDispute, ResolveForClient, Escalate, Settle, Abandon, rowVars,
         projectVars, SUBMITTABLE_STATUSES

\* Every step leaves a fix that is awaited possible.
LEMMA FixStep == TypeOK /\ IInv /\ FixInv /\ [Next]_vars => FixIsPossible'
<1> SUFFICES ASSUME TypeOK, IInv, FixInv, [Next]_vars, NEW d \in Dispute,
                    Awaiting(d)', refunds' = 0, reviews' = 0,
                    Spared({"outrun", "overruled", "overtaken", "twice"})'
             PROVE  pay' = "RELEASED" /\ project' \in SUBMITTABLE_STATUSES
  <2>1. ASSUME NEW d \in Dispute, Awaiting(d)' PROVE Finds(d)'
    BY <2>1 DEF Finds, Undisputed, Active, Awaiting
  <2> QED
    BY <2>1 DEF FixIsPossible
<1>1. ReadInv
  BY DEF IInv
<1>2. /\ Spared({"outrun", "overruled", "overtaken", "twice"})
      /\ Spared({"overtaken"}) /\ "overtaken" \notin mishaps'
      /\ "overruled" \notin mishaps'
  BY <1>1, PaymentStep DEF Spared
<1>3. refunds = 0
  BY <1>1, PaymentStep
     DEF TypeOK, counters, Funds, Pays, Refunds, Doubles, Resets
<1>4. pay = "RELEASED" => pay' = "RELEASED"
  BY <1>1, <1>2, PaymentStep
     DEF counters, Funds, Pays, Refunds, Doubles, Resets
<1>5. CASE ~Awaiting(d)
  <2>1. PICK j \in Job : OpenDispute(j)
    BY <1>5, AwaitedStep
  <2>2. /\ seen[j] \in {"FUNDED", "RELEASED"}
        /\ seen[j] = "RELEASED" => pay = "RELEASED"
    BY <1>2, <1>3, <2>1 DEF FixInv, PaidInv, OpenDispute
  <2>3. pay' = "RELEASED"
    BY <1>4, <2>1, <2>2 DEF OpenDispute
  <2> QED
    BY <2>1, <2>3 DEF OpenDispute, SUBMITTABLE_STATUSES
<1>6. CASE Awaiting(d)
  <2>1. reviews = 0
    <3>1. ASSUME NEW j \in Job, Begin(j) PROVE reviews' = reviews
      BY <3>1, BeginReads DEF Starts, rowVars, projectVars
    <3>2. ASSUME NEW j \in Job, End(j) PROVE reviews' \in {reviews, 1}
      BY <3>2 DEF End, CheckoutCreate, Checkout, Reopen, Submit, Revise,
             Approve, Release, Refund, AutoApprove, OpenDispute,
             ResolveForEngineer, ResolveForClient, Escalate, Settle, Review,
             Abandon, rowVars, projectVars
    <3>3. ASSUME Environment \/ UNCHANGED vars PROVE reviews' = reviews
      BY <3>3, EnvironmentRows DEF vars, rowVars, projectVars
    <3> QED
      BY <3>1, <3>2, <3>3 DEF Next
  <2>2. pay = "RELEASED" /\ project \in SUBMITTABLE_STATUSES
    BY <1>2, <1>3, <1>6, <2>1 DEF FixInv, FixIsPossible
  <2>3. ASSUME NEW j \in Job, Begin(j) PROVE project' = project
    BY <2>3, BeginReads DEF Starts, rowVars, projectVars
  <2>4. ASSUME NEW j \in Job, End(j) PROVE project' \in SUBMITTABLE_STATUSES
    BY <1>2, <1>3, <1>6, <2>2, <2>4, FixEnd
  <2>5. ASSUME NEW s \in AdminStatus, SetStatus(s)
        PROVE  project' \in SUBMITTABLE_STATUSES
    BY <1>2, <1>6, <2>5 DEF SetStatus, Notes, Mark
  <2>6. ASSUME (Environment /\ \A s \in AdminStatus : ~SetStatus(s))
               \/ UNCHANGED vars
        PROVE  project' = project \/ pay = "PENDING"
    BY <2>6 DEF Environment, Fund, Withdraw, ManualFreeze, OthersDispute,
                OthersResolve, Tick, projectVars, vars, rowVars
  <2>7. project' \in SUBMITTABLE_STATUSES
    BY <2>2, <2>3, <2>4, <2>5, <2>6 DEF Next, Environment
  <2> QED
    BY <1>4, <2>2, <2>7
<1> QED
  BY <1>5, <1>6

\* An engineer who is asked for a fix can submit it, until the project is
\* reviewed or refunded or one of the mishaps named happens: no other handler
\* takes the project out of his hands.
THEOREM FixStaysPossible == Spec => []FixIsPossible
<1>1. Init => FixInv
  BY DEF Init, FixInv, PaidInv, PausedInv, FixIsPossible, Awaiting
<1>2. TypeOK /\ IInv /\ FixInv /\ [Next]_vars => FixInv'
  BY PaidStep, PausedStep, FixStep DEF FixInv, IInv
<1>3. FixInv => FixIsPossible
  BY DEF FixInv
<1> QED
  BY <1>1, <1>2, <1>3, Invariance, TypeCorrect, PTL DEF Spec

=============================================================================
