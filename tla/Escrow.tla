------------------------------- MODULE Escrow -------------------------------
(***************************************************************************)
(* The payment of one project from checkout to the engineer's wallet:      *)
(* payments.service.ts, project.workflow.service.ts, disputes.service.ts,  *)
(* scripts/disputeCron.ts and the settlement of utils/wallet.ts.           *)
(*                                                                         *)
(* Most handlers read the project, its payment and its disputes first and  *)
(* act on what they read in a transaction of their own.  A job is such a   *)
(* handler; between the two steps others act and what it read goes stale.  *)
(* The engineer's net share of the payment is the unit of money; his       *)
(* wallet holds that of his other projects too, and no balance tells which *)
(* is which.                                                               *)
(***************************************************************************)
EXTENDS Integers, FiniteSets

CONSTANTS
    Job,            \* handlers that may be under way at the same time
    Dispute,        \* rows the disputes of the project may take
    Line,           \* rows the WalletTransactions of the payment may take
    Window,         \* days the client has to dispute delivered work
    Hold,           \* days earnings stay pending after delivery
    Other,          \* what other projects have in the wallet at the start
    MaxWallet,      \* bound: the wallet up to which they add to it
    MaxFundings,    \* bound: how often the payment may be funded
    AdminStatus     \* statuses admins write into the project

ProjectStatus ==
    { "OPEN", "AWAITING_PAYMENT", "IN_PROGRESS", "AWAITING_APPROVAL",
      "SUBMITTED_FOR_REVIEW", "REVISION_REQUESTED", "COMPLETED", "CANCELLED" }
PaymentStatus == {"NONE", "PENDING", "FUNDED", "RELEASED", "REFUNDED"}
Operation ==
    { "checkout", "reopen", "submit", "revise", "approve", "release",
      "refund", "openDispute", "resolve", "escalate", "autoApprove",
      "settle", "review" }
NoDispute == "none"
NotPaused == -2

\* What handlers that act on what they read can do to each other:
\*   overtaken  checkout resets a payment funded or released since its read
\*   doubled    openDispute takes money out of escrow that has left it
\*   twice      a second dispute becomes active
\*   borrowed   a dispute gives back money that others had put on hold
\*   outrun     a submission or the cron job closes work that waits for a fix
\*   overruled  an administrator does
Mishap ==
    {"overtaken", "doubled", "twice", "borrowed", "outrun", "overruled"}

ASSUME WindowAssumption == Window \in Nat /\ Hold \in Nat /\ Window < Hold
ASSUME OtherAssumption ==
    Other \in Nat /\ MaxWallet \in Nat /\ MaxFundings \in Nat
ASSUME AdminAssumption == AdminStatus \subseteq ProjectStatus
ASSUME DisputeAssumption == NoDispute \notin Dispute

VARIABLES
    project,    \* Project.status
    age,        \* days since deliveredAt, up to Hold; -1 before the delivery
    left,       \* days until disputeWindowClosesAt; -1 once it is past
    paused,     \* what was left of them at disputePausedAt, or NotPaused
    reviews,    \* Review rows of the project
    pay,        \* Payment.status, NONE without a row
    dispute,    \* Dispute.status of every row, NONE before it exists
    line,       \* WalletTransaction.status of every row, NONE likewise
    far,        \* lines whose availableAt is a year ahead
    noted,      \* PaymentLedgerEntry rows of type RELEASED
    available,  \* Wallet.availableBalance
    pending,    \* Wallet.pendingBalance
    held,       \* Wallet.heldByDispute
    own,        \* history: what of it the disputes of this project put there
    fundings,   \* history: how often the payment was funded
    credits,    \* history: how often the engineer was credited from escrow
    refunds,    \* history: how often the client got the money back
    mishaps,    \* history: what has gone wrong so far
    op,         \* the operation a job performs, or idle
    seen,       \* the payment status it read
    found,      \* the active dispute it read
    draft,      \* the dates a submission will write, and whether it resumes
    due         \* the lines a settlement read as matured

projectVars == << project, age, left, paused, reviews >>
lineVars == << line, far >>
walletVars == << available, pending, held, own >>
historyVars == << fundings, credits, refunds >>
rowVars == << projectVars, pay, dispute, lineVars, noted, walletVars,
              historyVars, mishaps >>
jobVars == << op, seen, found, draft, due >>
vars == << rowVars, jobVars >>

-----------------------------------------------------------------------------
(* Statuses and dates *)

REVIEWABLE_STATUSES == {"SUBMITTED_FOR_REVIEW", "AWAITING_APPROVAL"}
SUBMITTABLE_STATUSES == {"IN_PROGRESS", "REVISION_REQUESTED"}

Active(d) ==
    dispute[d] \in {"OPEN", "AWAITING_ENGINEER_FIX", "ESCALATED_TO_ADMIN"}
Undisputed == \A d \in Dispute : ~Active(d)
Awaiting(d) == dispute[d] = "AWAITING_ENGINEER_FIX"

\* The active dispute a query returns first, whichever that is.
Finds(d) ==
    IF Undisputed THEN d = NoDispute ELSE d \in Dispute /\ Active(d)

\* Earnings available with the closing of the window.
Matured_M == age >= Window
\* walletHoldReleaseDate has come.
Matured == age >= Hold

\* Statuses that admit a new checkout, as they are without a look at RELEASED.
Payable_M == pay # "FUNDED"
Payable == pay \notin {"FUNDED", "RELEASED"}

\* The claim "UPDATE ... WHERE status = 'FUNDED'", and an update without it.
Claimed_M == pay # "NONE"
Claimed == pay = "FUNDED"

-----------------------------------------------------------------------------
(* Jobs *)

NoDraft == [left |-> -1, paused |-> NotPaused, resumes |-> FALSE]

Busy(j) == op[j] # "idle"

\* Job j has read the payment, an active dispute d, and what x and s name.
Starts(j, o, d, x, s) ==
    /\ ~Busy(j)
    /\ op' = [op EXCEPT ![j] = o]
    /\ seen' = [seen EXCEPT ![j] = pay]
    /\ found' = [found EXCEPT ![j] = d]
    /\ draft' = [draft EXCEPT ![j] = x]
    /\ due' = [due EXCEPT ![j] = s]
    /\ UNCHANGED rowVars
Reads(j, o, d) == Starts(j, o, d, NoDraft, {})

Finish(j) ==
    /\ op' = [op EXCEPT ![j] = "idle"]
    /\ seen' = [seen EXCEPT ![j] = "NONE"]
    /\ found' = [found EXCEPT ![j] = NoDispute]
    /\ draft' = [draft EXCEPT ![j] = NoDraft]
    /\ due' = [due EXCEPT ![j] = {}]

\* The handler throws, loses a claim, breaks a CHECK or stops with the server:
\* its transaction leaves nothing behind.
Abandon(j) == Busy(j) /\ Finish(j) /\ UNCHANGED rowVars

\* The history of mishaps: m is noted when it happens.
Mark(m, happens) == IF happens THEN {m} ELSE {}
Notes(marks) == mishaps' = mishaps \cup marks
Spared(S) == mishaps \cap S = {}

\* A dispute awaits a fix which job j knows nothing of.
Overlooks(j) == \E d \in Dispute : Awaiting(d) /\ d # found[j]
\* Another dispute than the one job j found is active.
Revives(j) == \E d \in Dispute : Active(d) /\ d # found[j]

-----------------------------------------------------------------------------
(* The wallet and its lines *)

\* The CHECK constraints that keep a balance from going below zero.
Covers_M(balance) == balance \in Int
Covers(balance) == balance >= 0

NewLine(l, s) ==
    /\ line[l] = "NONE"
    /\ line' = [line EXCEPT ![l] = s]
SetLine(l, s) ==
    /\ line[l] # "NONE"
    /\ line' = [line EXCEPT ![l] = s]
    /\ far' = far \ {l}
Lines == {l \in Line : line[l] # "NONE"}

\* A line of the payment is updated, or created when there is none.
PutLine(s) ==
    IF Lines # {} THEN \E l \in Lines : SetLine(l, s)
                  ELSE \E l \in Line : NewLine(l, s) /\ UNCHANGED far

\* New earnings, or earnings that were held, go to the balance of their age.
Bucket == IF Matured THEN "AVAILABLE" ELSE "PENDING"
Deposit ==
    IF Matured THEN available' = available + 1 /\ UNCHANGED pending
               ELSE pending' = pending + 1 /\ UNCHANGED available

\* RELEASED and PLATFORM_COMMISSION, unless the handler finds them there.
NoteOnce == noted' = IF noted = 0 THEN 1 ELSE noted
Credit == credits' = credits + 1 /\ UNCHANGED << fundings, refunds >>

\* "heldByDispute >= net" in the update that takes the net out of it: the
\* balance of the wallet, whoever put it there.
HeldCovers == held >= 1

\* The update that gives back what a dispute held, without the decrement.
TakeHeld_M ==
    HeldCovers /\ UNCHANGED << held, own >> /\ Notes(Mark("borrowed", own = 0))
TakeHeld ==
    /\ HeldCovers
    /\ held' = held - 1
    /\ own' = IF own = 0 THEN 0 ELSE own - 1
    /\ Notes(Mark("borrowed", own = 0))

-----------------------------------------------------------------------------
(* Checkout and funding *)

\* prepareProjectCheckoutSession: a payment that is missing is created, once
\* only; then it is set to PENDING, whatever it has become since it was read.
CheckoutRead(j) ==
    /\ project \in {"IN_PROGRESS", "AWAITING_PAYMENT"}
    /\ Payable
    /\ Reads(j, "checkout", NoDispute)
CheckoutCreate(j) ==
    /\ op[j] = "checkout"
    /\ seen[j] = "NONE"
    /\ pay = "NONE"
    /\ pay' = "PENDING"
    /\ seen' = [seen EXCEPT ![j] = "PENDING"]
    /\ UNCHANGED << projectVars, dispute, lineVars, noted, walletVars,
                    historyVars, mishaps, op, found, draft, due >>
Checkout(j) ==
    /\ op[j] = "checkout"
    /\ seen[j] # "NONE"
    /\ pay' = "PENDING"
    /\ Notes(Mark("overtaken", pay # seen[j] /\ pay \in {"FUNDED", "RELEASED"}))
    /\ Finish(j)
    /\ UNCHANGED << projectVars, dispute, lineVars, noted, walletVars,
                    historyVars >>

\* The claim of a PENDING payment by a verified gateway transaction.
Fund ==
    /\ fundings < MaxFundings
    /\ pay = "PENDING"
    /\ pay' = "FUNDED"
    /\ project' = "IN_PROGRESS"
    /\ fundings' = fundings + 1
    /\ UNCHANGED << age, left, paused, reviews, dispute, lineVars, noted,
                    walletVars, credits, refunds, mishaps, jobVars >>

\* The same notification once more: a funded or released payment puts its
\* project back to IN_PROGRESS.
ReopenRead(j) ==
    /\ pay \in {"FUNDED", "RELEASED"}
    /\ project # "IN_PROGRESS"
    /\ Reads(j, "reopen", NoDispute)
Reopen(j) ==
    /\ op[j] = "reopen"
    /\ project' = "IN_PROGRESS"
    /\ Finish(j)
    /\ UNCHANGED << age, left, paused, reviews, pay, dispute, lineVars, noted,
                    walletVars, historyVars, mishaps >>

-----------------------------------------------------------------------------
(* Work: submitProjectWork and requestProjectRevision *)

\* The first delivery only: a dispute is not resumed.
Draft_M(d) ==
    [ left |-> IF age = -1 THEN Window ELSE left,
      paused |-> paused,
      resumes |-> FALSE ]

\* What a submission will write: the window opens with the first delivery, and
\* resumes where openDispute paused it when the engineer was asked for a fix.
Draft(d) ==
    LET resumes == /\ d # NoDispute
                   /\ Awaiting(d)
                   /\ paused # NotPaused
    IN  [ left |-> IF age = -1 THEN Window
                   ELSE IF resumes THEN paused ELSE left,
          paused |-> IF resumes THEN NotPaused ELSE paused,
          resumes |-> resumes ]

SubmitRead(j) ==
    /\ project \in SUBMITTABLE_STATUSES
    /\ \E d \in Dispute \cup {NoDispute} :
         /\ Finds(d)
         /\ pay = "FUNDED" \/ (pay = "RELEASED" /\ d # NoDispute)
         /\ Starts(j, "submit", d, Draft(d), {})
Submit(j) ==
    /\ op[j] = "submit"
    /\ project' = "SUBMITTED_FOR_REVIEW"
    /\ age' = IF age = -1 THEN 0 ELSE age
    /\ left' = draft[j].left
    /\ paused' = draft[j].paused
    /\ dispute' = IF draft[j].resumes
                    THEN [dispute EXCEPT ![found[j]] = "OPEN"]
                    ELSE dispute
    /\ Notes(Mark("twice", draft[j].resumes /\ Revives(j))
                \cup Mark("outrun", Overlooks(j)))
    /\ Finish(j)
    /\ UNCHANGED << reviews, pay, lineVars, noted, walletVars, historyVars >>

ReviseRead(j) ==
    /\ project \in REVIEWABLE_STATUSES
    /\ pay = "FUNDED"
    /\ Reads(j, "revise", NoDispute)
Revise(j) ==
    /\ op[j] = "revise"
    /\ project' = "REVISION_REQUESTED"
    /\ Finish(j)
    /\ UNCHANGED << age, left, paused, reviews, pay, dispute, lineVars, noted,
                    walletVars, historyVars, mishaps >>

-----------------------------------------------------------------------------
(* Release and refund *)

\* The claim of the payment and what follows it; the two variants differ in
\* whether they look for rows that are already there.
Release(j) ==
    /\ op[j] = "release"
    /\ Claimed
    /\ pay' = "RELEASED"
    /\ project' = "COMPLETED"
    /\ noted' = noted + 1
    /\ Deposit
    /\ \E l \in Line : NewLine(l, Bucket)
    /\ Credit
    /\ Finish(j)
    /\ UNCHANGED << age, left, paused, reviews, dispute, far, held, own,
                    mishaps >>

ClaimAndRelease ==
    /\ Claimed
    /\ pay' = "RELEASED"
    /\ NoteOnce
    /\ Deposit
    /\ IF Lines = {} THEN \E l \in Line : NewLine(l, Bucket)
                     ELSE UNCHANGED line
    /\ Credit
    /\ UNCHANGED << dispute, far, held, own, mishaps >>

\* releaseEscrowPayment, for the client or for an admin who overrides.
ReleaseRead(j) ==
    /\ pay = "FUNDED"
    /\ project \in REVIEWABLE_STATUSES
    /\ Reads(j, "release", NoDispute)

\* refundEscrowPayment, likewise.
RefundRead(j) == pay = "FUNDED" /\ Reads(j, "refund", NoDispute)
Refund(j) ==
    /\ op[j] = "refund"
    /\ Claimed
    /\ pay' = "REFUNDED"
    /\ project' = "CANCELLED"
    /\ refunds' = refunds + 1
    /\ Finish(j)
    /\ UNCHANGED << age, left, paused, reviews, dispute, lineVars, noted,
                    walletVars, fundings, credits, mishaps >>

\* The claim of dispute d for the engineer: what it held is his again.
ClaimAndReturn(d) ==
    /\ Active(d)
    /\ dispute' = [dispute EXCEPT ![d] = "RESOLVED_ENGINEER"]
    /\ TakeHeld
    /\ Deposit
    /\ PutLine(Bucket)
    /\ UNCHANGED << pay, noted, historyVars >>

\* approveProjectWork.
ApproveRead(j) ==
    /\ project \in REVIEWABLE_STATUSES
    /\ \E d \in Dispute \cup {NoDispute} :
         /\ Finds(d)
         /\ pay = "FUNDED" \/ (pay = "RELEASED" /\ d # NoDispute)
         /\ Reads(j, "approve", d)
Approve(j) ==
    /\ op[j] = "approve"
    /\ IF found[j] = NoDispute THEN ClaimAndRelease
                               ELSE ClaimAndReturn(found[j])
    /\ project' = "COMPLETED"
    /\ Finish(j)
    /\ UNCHANGED << age, left, paused, reviews >>

-----------------------------------------------------------------------------
(* autoApproveProjects *)

AutoApproveRead(j) ==
    /\ project = "SUBMITTED_FOR_REVIEW"
    /\ age # -1
    /\ left = -1
    /\ \E d \in Dispute \cup {NoDispute} :
         Finds(d) /\ Reads(j, "autoApprove", d)

\* A dispute whose money is not there is closed all the same: the transaction
\* returns early, and commits.
AutoApprove(j) ==
    /\ op[j] = "autoApprove"
    /\ \/ /\ found[j] = NoDispute
          /\ seen[j] = "FUNDED"
          /\ ClaimAndRelease
          /\ project' = "COMPLETED"
       \/ /\ found[j] # NoDispute
          /\ seen[j] \in {"FUNDED", "RELEASED"}
          /\ ClaimAndReturn(found[j])
          /\ project' = "COMPLETED"
       \/ /\ found[j] # NoDispute
          /\ seen[j] \in {"FUNDED", "RELEASED"}
          /\ Active(found[j])
          /\ ~HeldCovers
          /\ dispute' = [dispute EXCEPT ![found[j]] = "RESOLVED_ENGINEER"]
          /\ UNCHANGED << project, pay, lineVars, noted, walletVars,
                          historyVars, mishaps >>
       \/ /\ seen[j] # "FUNDED"
          /\ ~(found[j] # NoDispute /\ seen[j] = "RELEASED")
          /\ project' = "COMPLETED"
          /\ Notes(Mark("outrun", Overlooks(j)))
          /\ UNCHANGED << pay, dispute, lineVars, noted, walletVars,
                          historyVars >>
    /\ Finish(j)
    /\ UNCHANGED << age, left, paused, reviews >>

-----------------------------------------------------------------------------
(* Disputes *)

Freeze == held' = held + 1 /\ own' = own + 1

\* openDispute acts on the payment status it read: a payment read as FUNDED
\* is taken out of escrow, for another the earnings are moved out of the
\* balance its line names.
OpenDisputeRead(j) ==
    /\ age # -1
    /\ left # -1
    /\ Undisputed
    /\ Reads(j, "openDispute", NoDispute)
OpenDispute(j) ==
    /\ op[j] = "openDispute"
    /\ \E d \in Dispute :
         /\ dispute[d] = "NONE"
         /\ dispute' = [dispute EXCEPT ![d] = "AWAITING_ENGINEER_FIX"]
    /\ project' = "REVISION_REQUESTED"
    /\ paused' = left
    /\ Notes(Mark("twice", ~Undisputed)
                \cup Mark("doubled", seen[j] = "FUNDED" /\ pay # "FUNDED"))
    /\ \/ /\ seen[j] = "FUNDED"
          /\ pay' = "RELEASED"
          /\ noted' = noted + 1
          /\ Freeze
          /\ \E l \in Line : NewLine(l, "PENDING") /\ far' = far \cup {l}
          /\ Credit
          /\ UNCHANGED << available, pending >>
       \/ /\ seen[j] # "FUNDED"
          /\ \/ \E l \in Lines :
                  \/ /\ line[l] = "PENDING"
                     /\ Covers(pending - 1)
                     /\ pending' = pending - 1
                     /\ Freeze
                     /\ UNCHANGED available
                  \/ /\ line[l] = "AVAILABLE"
                     /\ Covers(available - 1)
                     /\ available' = available - 1
                     /\ Freeze
                     /\ UNCHANGED pending
                  \/ /\ line[l] = "REJECTED"
                     /\ UNCHANGED walletVars
             \/ Lines = {} /\ UNCHANGED walletVars
          /\ UNCHANGED << pay, noted, lineVars, historyVars >>
    /\ Finish(j)
    /\ UNCHANGED << age, left, reviews >>

\* resolveDispute, for either side.  The project of a client who wins is left
\* as it is, and so is the payment.
ResolveRead(j) ==
    \E d \in Dispute : Finds(d) /\ Reads(j, "resolve", d)
ResolveForEngineer(j) ==
    /\ op[j] = "resolve"
    /\ Active(found[j])
    /\ dispute' = [dispute EXCEPT ![found[j]] = "RESOLVED_ENGINEER"]
    /\ TakeHeld
    /\ Deposit
    /\ IF Lines = {} THEN UNCHANGED lineVars
                     ELSE \E l \in Lines : SetLine(l, Bucket)
    /\ project' = "COMPLETED"
    /\ Finish(j)
    /\ UNCHANGED << age, left, paused, reviews, pay, noted, historyVars >>
ResolveForClient(j) ==
    /\ op[j] = "resolve"
    /\ Active(found[j])
    /\ dispute' = [dispute EXCEPT ![found[j]] = "RESOLVED_CLIENT"]
    /\ TakeHeld
    /\ IF Lines = {}
         THEN UNCHANGED line
         ELSE \E l \in Lines : line' = [line EXCEPT ![l] = "REJECTED"]
    /\ Finish(j)
    /\ UNCHANGED << projectVars, pay, far, noted, available, pending,
                    historyVars >>

\* escalateDispute, and autoEscalateDisputes three days after the last update:
\* the row found is escalated whatever it has become.
EscalateRead(j) ==
    \E d \in Dispute :
        /\ dispute[d] \in {"OPEN", "AWAITING_ENGINEER_FIX"}
        /\ Reads(j, "escalate", d)
Escalate(j) ==
    /\ op[j] = "escalate"
    /\ dispute' = [dispute EXCEPT ![found[j]] = "ESCALATED_TO_ADMIN"]
    /\ Notes(Mark("twice", Revives(j)))
    /\ Finish(j)
    /\ UNCHANGED << projectVars, pay, lineVars, noted, walletVars,
                    historyVars >>

\* createProjectReview: the client reviews the engineer once he is paid, which
\* he also counts as while a dispute holds the money.
ReviewRead(j) ==
    /\ reviews = 0
    /\ project # "CANCELLED"
    /\ pay = "RELEASED"
    /\ Reads(j, "review", NoDispute)
Review(j) ==
    /\ op[j] = "review"
    /\ reviews = 0
    /\ reviews' = 1
    /\ project' = "COMPLETED"
    /\ Finish(j)
    /\ UNCHANGED << age, left, paused, pay, dispute, lineVars, noted,
                    walletVars, historyVars, mishaps >>

-----------------------------------------------------------------------------
(* The wallet, the clock and the admin *)

\* settleMaturedWalletTransactions: the lines are read, then written, without
\* a lock.  The amounts of two lines are concatenated as strings and exceed
\* the balance, so that the CHECK refuses them.
SettleRead(j) ==
    LET matured == {l \in Line \ far : line[l] = "PENDING" /\ Matured}
    IN  /\ matured # {}
        /\ Starts(j, "settle", NoDispute, NoDraft, matured)
Settle(j) ==
    /\ op[j] = "settle"
    /\ Cardinality(due[j]) = 1
    /\ Covers(pending - 1)
    /\ line' = [l \in Line |-> IF l \in due[j] THEN "AVAILABLE" ELSE line[l]]
    /\ pending' = pending - 1
    /\ available' = available + 1
    /\ Finish(j)
    /\ UNCHANGED << projectVars, pay, dispute, far, noted, held, own,
                    historyVars, mishaps >>

\* Withdrawals take what is available (module Payout).
Withdraw ==
    /\ Covers(available - 1)
    /\ available' = available - 1
    /\ UNCHANGED << projectVars, pay, dispute, lineVars, noted, pending, held,
                    own, historyVars, mishaps, jobVars >>

\* manualFreeze: from the available balance first, as it was read; the update
\* takes whatever is there now.
ManualFreeze ==
    /\ held' = held + 1
    /\ \/ /\ Covers(available - 1)
          /\ available' = available - 1
          /\ UNCHANGED pending
       \/ /\ Covers(pending - 1)
          /\ pending' = pending - 1
          /\ UNCHANGED available
    /\ UNCHANGED << projectVars, pay, dispute, lineVars, noted, own,
                    historyVars, mishaps, jobVars >>

\* Disputes of the engineer's other projects: one is opened on money in escrow
\* (that on earnings is a ManualFreeze to this wallet), or one is decided.
OthersDispute ==
    /\ held + available + pending < MaxWallet
    /\ held' = held + 1
    /\ UNCHANGED << projectVars, pay, dispute, lineVars, noted, available,
                    pending, own, historyVars, mishaps, jobVars >>
OthersResolve ==
    /\ HeldCovers
    /\ held' = held - 1
    /\ own' = IF own = held THEN own - 1 ELSE own
    /\ \/ available' = available + 1 /\ UNCHANGED pending
       \/ pending' = pending + 1 /\ UNCHANGED available
       \/ UNCHANGED << available, pending >>
    /\ UNCHANGED << projectVars, pay, dispute, lineVars, noted, historyVars,
                    mishaps, jobVars >>

\* A day passes; no handler runs for a day.
Tick ==
    /\ \A j \in Job : ~Busy(j)
    /\ age \in 0..(Hold - 1) \/ left # -1
    /\ age' = IF age \in 0..(Hold - 1) THEN age + 1 ELSE age
    /\ left' = IF left = -1 THEN -1 ELSE left - 1
    /\ UNCHANGED << project, paused, reviews, pay, dispute, lineVars, noted,
                    walletVars, historyVars, mishaps, jobVars >>

\* updateProjectByAdmin.
SetStatus(s) ==
    /\ project # s
    /\ project' = s
    /\ Notes(Mark("overruled", /\ s \notin SUBMITTABLE_STATUSES
                               /\ \E d \in Dispute : Awaiting(d)))
    /\ UNCHANGED << age, left, paused, reviews, pay, dispute, lineVars, noted,
                    walletVars, historyVars, jobVars >>

-----------------------------------------------------------------------------

Init ==
    /\ project \in {"IN_PROGRESS", "AWAITING_PAYMENT"}
    /\ age = -1
    /\ left = -1
    /\ paused = NotPaused
    /\ reviews = 0
    /\ pay = "NONE"
    /\ dispute = [d \in Dispute |-> "NONE"]
    /\ line = [l \in Line |-> "NONE"]
    /\ far = {}
    /\ noted = 0
    /\ available = 0
    /\ held \in 0..Other
    /\ pending = Other - held
    /\ own = 0
    /\ fundings = 0
    /\ credits = 0
    /\ refunds = 0
    /\ mishaps = {}
    /\ op = [j \in Job |-> "idle"]
    /\ seen = [j \in Job |-> "NONE"]
    /\ found = [j \in Job |-> NoDispute]
    /\ draft = [j \in Job |-> NoDraft]
    /\ due = [j \in Job |-> {}]

Begin(j) ==
    \/ CheckoutRead(j) \/ ReopenRead(j) \/ SubmitRead(j) \/ ReviseRead(j)
    \/ ApproveRead(j) \/ ReleaseRead(j) \/ RefundRead(j)
    \/ AutoApproveRead(j) \/ OpenDisputeRead(j) \/ ResolveRead(j)
    \/ EscalateRead(j) \/ SettleRead(j) \/ ReviewRead(j)

End(j) ==
    \/ CheckoutCreate(j) \/ Checkout(j) \/ Reopen(j) \/ Submit(j) \/ Revise(j)
    \/ Approve(j) \/ Release(j) \/ Refund(j)
    \/ AutoApprove(j) \/ OpenDispute(j)
    \/ ResolveForEngineer(j) \/ ResolveForClient(j)
    \/ Escalate(j) \/ Settle(j) \/ Review(j) \/ Abandon(j)

Environment ==
    Fund \/ Withdraw \/ ManualFreeze \/ OthersDispute \/ OthersResolve \/ Tick
    \/ \E s \in AdminStatus : SetStatus(s)

Next == (\E j \in Job : Begin(j) \/ End(j)) \/ Environment

Spec == Init /\ [][Next]_vars

-----------------------------------------------------------------------------
(* Properties *)

\* Every variable keeps its shape; no balance is negative.
TypeOK ==
    /\ project \in ProjectStatus
    /\ age \in -1..Hold
    /\ left \in -1..Window
    /\ paused \in NotPaused..Window
    /\ reviews \in {0, 1}
    /\ pay \in PaymentStatus
    /\ dispute \in [Dispute -> { "NONE", "OPEN", "AWAITING_ENGINEER_FIX",
                                 "ESCALATED_TO_ADMIN", "RESOLVED_ENGINEER",
                                 "RESOLVED_CLIENT" }]
    /\ line \in [Line -> {"NONE", "PENDING", "AVAILABLE", "REJECTED"}]
    /\ far \in SUBSET Line
    /\ noted \in Nat
    /\ available \in Nat /\ pending \in Nat /\ held \in Nat /\ own \in 0..held
    /\ fundings \in Nat /\ credits \in Nat /\ refunds \in Nat
    /\ mishaps \in SUBSET Mishap
    /\ op \in [Job -> Operation \cup {"idle"}]
    /\ seen \in [Job -> PaymentStatus]
    /\ found \in [Job -> Dispute \cup {NoDispute}]
    /\ draft \in [Job -> [left : -1..Window, paused : NotPaused..Window,
                          resumes : BOOLEAN]]
    /\ due \in [Job -> SUBSET Line]

\* The money of every funding is in escrow, with the engineer or back with
\* the client, and only once, although releases, approvals, refunds and the
\* cron job race for one claim.  Only the two handlers that write the payment
\* without a claim break it: a stale checkout, and a stale openDispute.
EscrowBalances ==
    Spared({"overtaken", "doubled"}) =>
        fundings - credits - refunds = IF pay = "FUNDED" THEN 1 ELSE 0

\* The engineer is credited once for the project, with the same two exceptions;
\* and the wallet history has one line for it, unless a dispute without money
\* was decided with the money of others.
PaidOnce ==
    Spared({"overtaken", "doubled"}) =>
        /\ credits <= 1
        /\ Spared({"borrowed"}) => Cardinality(Lines) = credits

\* The wallet holds no more of this project's money than it has active disputes
\* to free it, however many of them there are, whatever handlers have read,
\* and whichever of client, admin, engineer and cron job closes one.
HeldHasDispute == own <= Cardinality({d \in Dispute : Active(d)})

\* Earnings of the project are never available before the days of Hold are
\* over, by whichever way they reach the wallet and however handlers overlap.
HoldRespected == \A l \in Line : line[l] = "AVAILABLE" => age >= Hold

\* openDispute is to "allow engineer to fix": while a fix is awaited he
\* can submit it, whatever approval, release, escalation or dispute of another
\* project is under way.  A refund ends that, the client's review, which
\* completes the project although the dispute still holds the money, and the
\* mishaps named: a submission or a cron job that read the project before the
\* dispute was opened, an administrator, a stale checkout, a second dispute.
FixIsPossible ==
    \A d \in Dispute :
        /\ Awaiting(d) /\ refunds = 0 /\ reviews = 0
        /\ Spared({"outrun", "overruled", "overtaken", "twice"})
        => pay = "RELEASED" /\ Finds(d) /\ project \in SUBMITTABLE_STATUSES

\* Earnings a dispute took from the engineer do not come back to him by a
\* second dispute, an approval or the cron job, unless at the cost of others:
\* the wallet's heldByDispute covers the second dispute with the money of
\* another project.  A settlement that read the line before the dispute was
\* decided makes it AVAILABLE too; and so may a stale checkout or openDispute.
RefusedStaysRefused ==
    [][\A l \in Line :
          line[l] = "REJECTED" /\ line'[l] # "REJECTED"
          => \/ \E j \in Job : op[j] = "settle" /\ l \in due[j]
             \/ ~Spared({"overtaken", "doubled", "twice", "borrowed"})']_vars

-----------------------------------------------------------------------------
(* What comments of the code say and the code does not do *)

\* schema.prisma: projectId of a dispute is "NOT unique, but enforced at
\* service level".
OneActiveDispute ==
    \A d, e \in Dispute : Active(d) /\ Active(e) => d = e

\* disputes.service.ts, openDispute: "Funds are already released, so they are
\* either in PENDING or AVAILABLE".
DisputeFindsFunds ==
    [][\A j \in Job :
          /\ op[j] = "openDispute" /\ op'[j] = "idle"
          /\ dispute' # dispute
          => held' = held + 1]_vars

=============================================================================
