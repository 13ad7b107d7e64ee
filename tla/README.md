# CLINKA in TLA+

CLINKA is a marketplace on which clients hire engineers and pay them through an
escrow. The server (`src/backend/src`, TypeScript on Express) keeps its state in
PostgreSQL through Prisma, in Redis, and at the payment provider Paymob; the
pages (`src/frontend`, React) keep state of their own while requests, sockets,
files and microphones answer late. This directory specifies the parts where that
is hard, checks them with TLC and proves the most important results with TLAPS.

| module | what it is | checked in | proved in |
|---|---|---|---|
| `Payout` | withdrawals of one engineer: requests, Paymob, reconciliation, administrators | `payout_*` | `Payout_proof` |
| `Escrow` | the payment of one project: checkout, approval, refund, disputes, settlement | `escrow_*` | `Escrow_proof` |
| `Hiring` | bids, invitations, edits and the payment that names an engineer | `hiring`, `hiring_ends` | `Hiring_proof` |
| `ManualPayment` | a payment made by hand and its review | `platform` | `ManualPayment_proof` |
| `EscrowFunding` | what that review promises (abstract) | `platform` | `ManualPayment_proof` |
| `Destinations` | the accounts such payments are sent to | `platform` | `ManualPayment_proof` |
| `Settlement` | a wallet with the earnings of several projects | `platform` | `Wallet_proof` |
| `PayoutAudit` | the audit chain of one withdrawal | `platform` | `Wallet_proof` |
| `Idempotency` | the Idempotency-Key middleware | `platform` | `Wallet_proof` |
| `Sessions` | tokens across a change of the password | `platform` | `Accounts_proof` |
| `Registration` | from an e-mail address to an engineer who may bid | `platform` | `Accounts_proof` |
| `Suspension` | bans, and the sockets and requests of a user they silence | `platform` | `Messages_proof` |
| `Chat` | rooms, broadcasts, history, and the page that merges them | `platform` | `Messages_proof` |
| `ImageEditor` | editing a picture before it is sent | `platform` | `Media_proof` |
| `Cropping` | the geometry of that editor | `platform` | `Media_proof` |
| `Voice` | the voice recorder and the players beside it | `platform` | `Media_proof` |

`MCPayout`, `MCEscrow`, `MCHiring` and `MCPlatform` give the constants their
values for TLC.

`PROJECT.json` maps every definition to the lines it models.

## 1. The system

### How the server runs

Requests are handled concurrently, each one as a chain of awaited calls; there
may be several server processes. A *step* of the specifications is therefore one
database transaction, one external call, or its answer. Transactions run at
READ COMMITTED: a read does not protect what it read. The code relies on three
devices, and on each of them only where it uses it:

- `updateMany({where: {id, status: X}})` followed by a look at the number of
  rows: an atomic *claim* of the transition;
- `SELECT ... FOR UPDATE` on the wallet or on the withdrawal (`lockWalletForUpdate`,
  `loadWithdrawalForUpdate`);
- unique indexes and CHECK constraints of the schema.

Everything else is read in one statement and acted on in a later one. Those
gaps are what the specifications are about. `server.ts` starts three timers:
payout reconciliation, invitation expiry and the exchange rate. The script
`scripts/disputeCron.ts` exists, but nothing in the repository starts it.

### Components

**Payouts** (`modules/payouts`, the withdrawal handlers of `admin.service.ts`;
modelled). State: `WithdrawalRequest` (status, retryCount, updatedAt, key), its
`WalletTransaction`, the wallet's available balance, and Paymob's own record.
A PAYMOB request holds the amount and commits, *then* calls Paymob, writes
SUBMITTED and applies the answer. Callbacks and a timer apply results too. IBAN,
INSTAPAY and E_WALLET requests hold the amount and wait for an administrator.
Hard: the call is outside the transaction, its answer may be lost, callbacks are
late and repeated, administrators work on the same row, the timer guesses what
happened to a row left behind. Correct means: one transfer per idempotency key,
no overdraft, a hold is given back if and only if nothing is paid, every
automatic payout ends.

**Payout audit log** (`payout.audit.ts`; modelled in `PayoutAudit`). A hash chain
whose last link is read and extended in the payout transactions. Correct means:
one chain per withdrawal.

**Escrow payments** (`payments.service.ts`; partly). State: `Payment.status`,
the project's status, the RELEASED ledger entries. Checkout creates or resets
the payment, a verified gateway transaction claims it, release and refund claim
it again. Correct means: the client's money goes to one side, once.

**Manual payments** (`manual-payment.service.ts`, the dialog and the settings page;
modelled in `ManualPayment` and `Destinations`). Submissions of transfer receipts,
verified, rejected or superseded by others; partial unique indexes keep one
PENDING and one VERIFIED submission per payment. Correct means: at most one
submission funds a payment, a verified one did, and the account noted down is the
one the client was shown.

**Project workflow** (`project.workflow.service.ts`; modelled in `Escrow` except
for the progress percentage). Submission, revision and approval, with the dates
of delivery and of the dispute window.

**Disputes and their cron job** (`disputes.service.ts`, `disputeCron.ts`;
modelled for one project). State: `Dispute`, the pause of the window, the
wallet's `heldByDispute`. Openers, administrators, approvals and the cron job
all close disputes. Hard: `heldByDispute` is one balance per wallet, which the
disputes of the engineer's other projects and `manualFreeze` raise and lower too.
Correct means: money of the project is held only while one of its disputes is
active and given back once, to the side it was decided for; the comments also
promise one active dispute, which the code does not keep (`escrow_race`).

**Wallet and ledger helpers** (`utils/wallet.ts`, `utils/paymentLedger.ts`;
`Settlement`, partly). The balances available, pending and held; lines that mature
after the hold period and are settled by whoever next reads the wallet, without a
lock. Correct means: the balances are the sums of the lines.

**Bids, invitations and hiring** (`bids.service.ts`, `invitation.service.ts` and its
scheduler; modelled in `Hiring`). Who becomes the engineer of a project, and when
an unpaid one is released again. Correct means: one engineer, who is the one paid
and talked to, and nothing that waits for ever.

**Project editing lock** (`project.editlock.ts`, `updateProject`, `deleteProject`;
modelled in `Hiring`). Which fields may be edited in which status. Correct means:
nobody has bid on something else than what the project says; an edit and a bid at
the same time break it (section 6).

**Idempotency middleware** (`middlewares/idempotency.ts`; modelled). A Redis marker
with an expiry of 60 seconds in front of mutating routes. Correct means: requests
with one key take effect once.

**Sessions, OTP and token revocation** (`auth.middleware.ts`, `tokenRevocation.ts`,
`auth.service.ts`; `Sessions`, partly). Correct means: a changed password ends the
sessions of the old one.

**Registration and engineer review** (`auth.service.ts`, `google.service.ts`,
`updateEngineerVerification`, and the pages that send the owner of an unfinished
account to a form; `Registration`, partly). Correct means: whoever is kept on a
form can finish it.

**Messages, bans and sockets** (`messages.service.ts`, `ban.service.ts`, `socket.ts`,
the messaging page; `Chat` and `Suspension`, partly). Messages of one socket wait for
each other in a queue; a text the scanner flags bans its author, and a ban whose term
is over is switched off by whoever reads it next. Correct means: in the end the page
shows every message of the open conversation and none of another, in the order they
were sent, and a banned user is silent.

**Reviews** (`reviews.service.ts`; in `Escrow`, partly). A review of a project whose
payment is released completes the project. The average is left out (section 7).

**Frontend** (partly). The picture editor (`ImageEditor`, `Cropping`) and the voice
recorder (`Voice`) have asynchronous state of their own: decoding, composing,
drawing and permission overlap. Correct means: strokes stay where they were drawn,
what is sent is what was shown, and no microphone records a player.

**Exchange rate; notifications; public pages, taxonomy and users; rate
limits and uploads** (not modelled, section 7).

### Interactions

The components share rows, not messages. Payouts take from
`availableBalance`; escrow, disputes and settlements put into it or freeze it.
In `Payout` the rest of the platform is `MoveIn` and `MoveOut`; in `Escrow` the
payouts are `Withdraw`. `Hiring` ends where `Escrow` begins, at the funded
payment, whose review it has in three actions and `ManualPayment` in detail.
`Escrow` has the lines of one project on a wallet that others use, and `Settlement`
several lines and the freezes of a wallet in detail. Disputes, the workflow and
payments all claim the one `Payment` row, and all write the one `Project.status`;
`Escrow` has all of their handlers in one module for this reason. Paymob is an environment of `Payout`.

## 2. Payout

Every value of `Withdrawal` is one create request, together with the row it may
create. `KindOf` stands for the payout type, `KeyOf` for the Idempotency-Key
(a retry is another request with the same key).

| state | in the code |
|---|---|
| `available` | `Wallet.availableBalance` |
| `status`, `line`, `retry` | the row's status, its `WalletTransaction`'s status, `retryCount` |
| `stale` | `updatedAt` is more than ORPHANED_TIMEOUT_MINUTES ago |
| `pc`, `answer` | where the request is, and what Paymob answered it |
| `paymob`, `reports` | Paymob's record of the transfer; results it may send callbacks for |
| `sweep` | what the reconciliation run in flight has read about the row |
| `review` | what an admin handler has decided between its read and its transaction |
| `earned`, `taken`, `confirmed` | history: amounts moved in, debits minus returns, rows an admin completed |

A PAYMOB request goes `Lookup` (an existing key, the day's volume) - `Commit`
or `Rollback` (lock, settle, balance, unique key) - `CallReturns` or `CallFails`
- `Submit` - `ApplyAnswer`, or `FailSubmission`. `Crash` ends it between any two
of these; it also stands for a transaction PostgreSQL aborts because two lock
orders met (`cancelPayoutByAdmin` locks row then wallet, others wallet then
row). `PaymobRecords` and `Webhook` are independent of it: Paymob may have the
transfer although the call failed, and reports any result it had, late and
repeatedly. `ApplyPaymobPayoutResult` is the function all result paths share.
`Age`, `SweepOrphan`, `FailOrphan`, `SweepInquire`, `SweepApply`, `SweepMiss`
and `SweepAborted` are `reconcilePendingPayouts` split at its reads. The admin
handlers are one action when they lock and re-check, and two when they decide on
what they read before.

### Runs

- `payout_auto`: two PAYMOB requests with one key, and an IBAN request.
  `OneTransferPerKey`, `LedgerMatchesHold`, `CompletedIsJustified` and `TypeOK` hold
  under lost answers, crashes, repeated and late callbacks and the sweep.
- `payout_admin`: two IBAN requests and a manual one under concurrent
  administrators. `NoOverdraft`, `OneActiveIban`, `IbanPaidOrReturned` and
  `IbanFinal` hold.
- `payout_recovery`: `OrphanRecovered` and `SubmittedResolved` hold under fairness.
- `payout_orphan`, `payout_terminal`, `payout_volume`: three statements of
  comments that the code does not live up to (section 6).

Bounds: amounts are 1, so that a balance of one or two decides who gets it;
`MaxEarned` 2; `RetryLimit` 1 (5 in the code; 2 in the recovery run): one retry and
the one after it are the two cases; `MaxReturns` bounds how often one amount is
given back by repeated inputs, since a repeated "failed" callback gives it back
again (`canTransitionPayoutStatus` admits FAILED to FAILED). With two requests on
one key and a third of another kind, every pair of handlers meets on a row.

Deadlock is not checked in any run: a wallet on which all requests are answered
and nothing is left to decide may rest.

Fairness (recovery run only): weak on `Age`, `SweepOrphan` and `SweepInquire`, as
the timer is a `setInterval` of five minutes and reads every reconcilable row;
strong on `FailOrphan`, `SweepApply` and `SweepMiss`, since one run may be cut
short by a restart or by an exception on another row (`SweepAborted`) but not
every one is; weak on Paymob deciding a pending transfer. Nothing is assumed of
requests, callbacks or administrators. The timer only runs if Paymob is
configured and PAYMOB_PAYOUT_RECONCILE_ENABLED is not "false".

### What is proved

`Payout_proof` proves every safety property of the two passing runs for any set of
requests, any kinds, keys, amounts and bounds, from the assumptions named in
`Payout`: each amount is a positive number, amounts moved and limits are natural
numbers, `KindOf` and `AdminStatus` have their ranges.

1. `TypeCorrect`: the type invariant, by cases on the actions.
2. `BalanceStep`: `NoOverdraft` is inductive on its own. Each debit is guarded
   under the wallet's lock, and what `MoveOut` takes is covered.
3. The other properties are not inductive. `LedgerMatchesHold`, for instance, says
   nothing of a request between its commit and its answer, which will write
   SUBMITTED or FAILED whatever the row says by then. `RowInv` adds, for each
   row: `Evidence` (a positive answer, callback or inquiry result exists only if
   Paymob has that record), `Involved` (Paymob and the program counter know only
   rows of kind PAYMOB that exist), `International` (the four statuses an IBAN
   row can have, each with its line and balance), `Accounted` (line and balance
   of a PAYMOB row, up to the repeated returns) and `Justified`. `OneRowPerKey`
   and `OneActiveIban` relate two rows. `IInv` is their conjunction:
   `Invariance` is `Spec => [](TypeOK /\ IInv)`.
4. `RowStep` shows that `RowInv` of a row survives a step on that row;
   `RowsAppear` that a row appears only in `Commit`, which yields `OneRowPerKey`
   from the unique index.
5. The theorems `KeyPaysOnce`, `IbanExclusive`, `LedgerCorrect`, `IbanSettledOnce`
   and `CompletionJustified` follow from `IInv`; `IbanDecidedOnce` (an action
   property) from the invariant and a case analysis of the step.

The two liveness properties are only model-checked: ENABLED and fairness are
beyond the prover.

### Left out

Rows from before holds existed (`balanceHeldAt` null: no code creates them any
more), which is why `Spendable` is the balance; amounts' validation and the
exchange rate; the e-mail and notification after each transaction; the audit
entries. Settling is "some amount of `Moves` arrives in the same transaction".
One sweep is in flight per row. All rows are younger than 24 hours. An inquiry
that misses a row Paymob knows stands for identifiers beyond the fiftieth
(`slice(0, 50)`), and starvation of rows beyond the fifty read is not modelled.
The status REVERSED is only reached by an administrator's write.

## 3. Escrow

One project, its payment, its disputes and the engineer's wallet, which he also
uses for other projects. The engineer's net share is the unit of money, theirs too.
`Other` units are in the wallet at the start, held or pending; disputes of other
projects (`OthersDispute`, `OthersResolve`), `ManualFreeze` and `Withdraw` change it
meanwhile. Nobody can tell from a balance whose money it is: a guard
`heldByDispute >= net` is satisfied by the money of any project (`HeldCovers`).

A *job* is a handler that reads and then acts: `XRead(j)` stores in `op`, `seen`,
`found`, `draft` and `due` what the handler keeps in local variables, `X(j)` is its
transaction, and `Abandon(j)` an error, a lost claim or a crash in between. The
queries a handler makes before its transaction count as one read. Handlers that
read and act in one transaction (`Fund`) and those that do not depend on a read
(`Withdraw`, `SetStatus`) are one action. Any two jobs overlap.

| state | in the code |
|---|---|
| `project`, `pay`, `dispute` | the statuses of Project, Payment and Dispute |
| `age`, `left`, `paused` | deliveredAt, disputeWindowClosesAt and disputePausedAt, in days from now |
| `line`, `far` | the payment's WalletTransactions, and those with availableAt a year ahead |
| `noted` | PaymentLedgerEntry rows of type RELEASED |
| `available`, `pending`, `held` | the wallet |
| `reviews` | the project's Review, of which there is one at most |
| `own` | history: what of `held` the disputes of this project put there |
| `fundings`, `credits`, `refunds` | history: money in from the client, to the engineer, back |
| `mishaps` | history: the overlaps the code does not defend itself against |

`ClaimAndRelease` and `ClaimAndReturn` are the two branches which approvals and
`autoApproveProjects` share: release a funded payment, or close a dispute for the
engineer. The script's early return, which commits a closed dispute without its
money, is a disjunct of `AutoApprove`. A settlement of several lines adds Decimal
values with `+`, which concatenates them; the CHECK then refuses the result, and
`Settle` is disabled.

### Mishaps

Nothing is assumed to run alone. Where a handler acts on what has changed since it
read it, or on money that is not the project's, the step is taken as the code takes
it and its name goes into `mishaps`:

| mishap | what happens |
|---|---|
| `overtaken` | checkout sets a payment to PENDING that was funded or released since it was read |
| `doubled` | `openDispute` takes money out of escrow that has left it since |
| `twice` | a second dispute becomes active: two `openDispute`, or a stale escalation or submission that writes a decided one by its id |
| `borrowed` | a dispute that holds nothing is decided with money others have put on hold |
| `outrun` | a submission or the cron job that read the project before closes work that awaits a fix |
| `overruled` | an administrator does, with a status |

Every property names the mishaps that alone may break it. `HeldHasDispute`,
`HoldRespected` and `TypeOK` hold whatever has happened.

### Runs

- `escrow_money`: all handlers, two at a time. `EscrowBalances`, `PaidOnce`,
  `HeldHasDispute`, `HoldRespected`, `RefusedStaysRefused`, `FixIsPossible` and
  `TypeOK` hold (1.3 million states, two minutes). The constraint `Quiet` follows
  a behaviour up to its first mishap and checks the step into it, and has two
  disputes or two fundings, not both; what comes after is left to the proofs, which
  have no such limits.
- `escrow_funds` and `escrow_race`: section 6.

Bounds: two jobs, since each hazard listed is a race of two; two disputes, as one
that is decided and another one after it is the interesting case; two rows for
lines, so that a second one would be seen; `Window` 0 and `Hold` 2 (6 and 7 days in
the code) keep a day before, at and after both limits, and days between them;
`Other` 1 and `MaxWallet` 1, so that one foreign amount can be confused with the
project's; `MaxFundings` 2, so that a second funding would be seen. Administrators
write IN_PROGRESS, which lets handlers run again, and COMPLETED, which ends work.
Days pass while no handler is under way. Jobs, disputes and lines are symmetric.
Deadlock is not checked: a project may be over.

No liveness is checked here: the only thing that must eventually happen is the
cron job's approval, and nothing schedules it.

### What is proved

`Escrow_proof` proves every property of `escrow_money` for any number of handlers,
disputes and lines, any window, hold, money of others and bounds, with all overlaps
and after any mishaps but those a property names.

1. `TypeCorrect` and `HoldKept`: the CHECK constraints keep the balances natural,
   and each way to AVAILABLE looks at the date. `HoldInv` adds that what a
   settlement has read has matured.
2. The others rest on `IInv`, a conjunction. `ReadInv` says of each job what its
   stale reads are still worth (`Snapshot`): a line a settlement has read is there,
   a dispute that was found exists. `MoneyInv` adds to `EscrowBalances` that the
   payment is RELEASED if and only if the engineer was credited (`Credited`).
   `HeldInv`, which no mishap disturbs: no more of the project's money is held than
   disputes are active, and none without a line. `OneHeld`: but for `twice` one
   dispute and one amount. `OneLine`: one line per credit. `Refused`: nothing of
   refused earnings is held.
3. A step is classified once for each balance: `PaymentStep` (it `Funds`, `Pays`,
   `Refunds`, `Doubles` or `Resets`), `HeldStep` (`Keeps`, `Holds`, `Frees` or
   `Spreads`) and `LinesStep` (`Enters` or `Leaves`) go through the actions, and
   the invariants are preserved by the cases. `EscrowBalanced`, `EngineerPaidOnce`
   and `HeldForDispute` follow.
4. `RefusalKept`, an action property: with a REJECTED line nothing of the project is
   held and nothing is in escrow, so that what writes the line is a settlement, or
   borrows.
5. `FixStaysPossible`: the engineer who is to fix the work can hand it in, until the
   payment is refunded or the project reviewed. `FixIsPossible` is not inductive:
   `FixInv` adds that delivered work is paid for (`PaidInv`), and that a window is
   paused while a fix is awaited (`PausedInv`). `FixEnd` has the handlers that end,
   `SubmitAwaited` the submission itself.

## 4. Hiring

One project until its payment is funded; `Escrow` goes on from there. A handler
checks what it reads and acts in a later transaction which does not look again:
`XRead(j)` puts what it found into `job[j]`, `X(j)` is the transaction, `Abandon` an
error or a stopped server in between. `Sweep` is `expireStaleInvitations`, which
works off two lists row by row.

| state | in the code |
|---|---|
| `project`, `bid`, `inv`, `pay` | the statuses of Project, Bid, ProjectInvitation, Payment |
| `bidder`, `invitee`, `payee`, `talk` | the engineerId of Bid, ProjectInvitation, Payment, Conversation |
| `old` | invitations last written a week ago: expired if pending, unpaid too long if accepted |
| `outdated` | bids placed before the content last changed |
| `proof` | a manual payment waits for review (`ManualPayment` has the details) |
| `sweep` | the list the scheduler is working off |
| `slips` | history: accidents that have happened |

`slips` names accidents the code does not prevent, and each property says which of
them alone can break it. `race`: a transaction acts on what has changed since its
check. `late`: an invitation is accepted although the project has found somebody
(`respondToInvitation` looks at the invitation only). `reopened`: the sweep reopens
a project with a payment row, since it looks for the payment by an `invitationId`
nobody writes. `cut`: `approveBid` stopped between its transaction and the
conversation. `OneAcceptedBid` holds whatever happens.

Runs: `hiring` checks five invariants with two handlers, two engineers, two bids
and two invitations (1.6 million states): one row more than one hire needs, and
any two handlers overlap. `MaxPending` is 1 (10 in the code). With `Tolerated = {}`
no handler begins after an accident; what is under way, the sweep and the payment
go on. `hiring_ends` checks `InvitationsEnd` and `AwaitingEnds` with one handler and
the sweep. Its fairness: the sweep is a `setInterval` that runs as long as the
server does, handlers come to an end, and a week passes. Nobody has to bid, answer
or pay. `AwaitingEnds` may fail after a race only, when the accepted invitation
whose end would reopen the project is gone.

Proved (`Hiring_proof`), for any handlers, engineers, rows and limits. `HiringTypes`
adds to the types what a handler holds (`JobsFit`) and that bids have bidders.
`HireInv` is inductive: `Tidy` relates bids, invitations and the project's status
until a race or a late acceptance; `Waits` says why a project waits, `Named` whom a
payment names, `Talks` who is in the conversation. `EndsPending` and `Quiet` are the
lemmas for the many actions that only end a pending invitation, or change nothing
of this. `OneHire` is `Tidy` in numbers, with the cardinality lemmas of the library.

## 5. Platform: components that share nothing

`MCPlatform` puts twelve specifications side by side: the variable `part` says which
one runs in a behaviour, the others stay in their initial states (`phase` and
`stored` have one such state there, so that nothing is explored twice). Nothing is
composed that interacts: each specification is checked exactly as if alone, and one
run checks all of them (788 thousand states, two minutes). Deadlock is not checked:
behaviours end at bounds, or with the first accident.

**ManualPayment, EscrowFunding.** `clerk` holds what submissions, verifications,
checkouts, notifications of the gateway and disputes have read; the claims and the
three unique indexes are guards of their transactions. A notification of the gateway
funds a PENDING payment (`GatewayFunds`), and one that has read the payment as paid
puts the project back to IN_PROGRESS, whatever has happened since (`Notice`). `Releases`, `Refunds`, `Disputes`, `Writes` (others write
the project's status, after a refund too) and `Reopens` are what else happens to the
same rows. So a refunded project can be paid for again, which checkout does not
refuse: `ReceivedOnce` says that money is received once, and again only after it was
refunded; until then the ledger counts it, and a verified payment stays paid.
`overtaken`, the one exception, records a checkout or a dispute that wrote over a
payment which had changed since it was read.
`EscrowFunding` promises that evidence is decided once and for good, one piece is
accepted at most, and accepting it funds the escrow. The refinement maps the
statuses of submissions to decisions, and `funded` to the ledger entry FUNDED,
which is never taken back: so it holds even when a checkout has overtaken. Bounds:
two clerks, two submissions, two references; two receipts, so that the second is
either one after a refund or one too many; others write IN_PROGRESS, the status
that lets a project be paid for again. Proved for all of them: `ReceivedOnce` is
inductive together with the types, `CheckoutsRefuse` (no checkout under way has read
a payment as received) and `OneWaiting`, the index on waiting submissions, which the
step refinement needs too.

**Destinations.** The settings of a payment method come in two formats, read by
three pieces of code: the administrators' page, the list for the client and the
check of the proof. `RecordedWherePaid`: the account noted beside a proof is the
one the client was shown, and none is refused, unless the settings were saved
while the dialog was open. All settings an administrator may have left are initial.
Proved for any methods, accounts and edits: `Choice` says what the dialog holds in each
step, and the server accepts what the same settings offer (`OfferedIsAccepted`).

**Settlement.** Every line has the amount 1, so that a balance is a number of lines
and two concatenated amounts are 11. The history variables name what the code
allows: `together` (several lines in one settlement), `overlapped` (two settlements
read the same line) and `outdated` (a freeze acts on balances read before its
transaction). Without them `BalancesMatchLines` holds, proved for any number of
lines; one line per settlement is why `StillRipe` is enough to keep it.

**PayoutAudit.** A hash is known by the entry it is of; `Visible` is READ COMMITTED.
Transactions hold a lock from `Lock` to `Finish`; `Outsider`s log without one
(`loose` once they overlap). `Ordered`, the inductive invariant, says that open
entries come last and a reader has read the last one.

**Idempotency.** Every call of Redis is a step, and the command that stores a
response is not awaited. `OncePerKey` holds until what is kept expires, or a handler
failed after it took effect. `OneHolder`: of a running request, a response on its
way and a deletion on its way there is one in all, and all that was seen is its own.

**Sessions.** Two ticks make one second, so that a token's time is rounded and the
revocation's is not. `astray` records a code or a request that outlived a change,
and a revocation that was never kept. The property itself is the inductive
invariant, with the fact that no token is ahead of the clock.

**Registration.** Four handlers take samples, each from other accounts, some in two
writes. `UnfinishedCanFinish` holds however they overlap or stop; proved from the
types, as its second part needs that a profile's owner is client or engineer.

**Chat.** Joining a room, broadcasts and two kinds of requests for the history
overtake each other, the connection breaks, the user changes the conversation.
`ShowsConversation`, when nothing is under way, is `ShowsEverySent` and `ShowsOnlyOwn`:
every message of the open conversation, none of another. `lossy` excludes a failed join or request, since a request that fails empties the list.
One message and two conversations: messages do not influence each other.
Proved for any number of them. The invariant `Joining` follows the page's last join: it
is the last packet sent; or its check is under way; or the socket is in the room, and
then either the acknowledgement that makes the page load again is coming, or every
message of the conversation is shown, unsent, on the line, or in the page of a request.
Nothing comes after the last join, so nothing can take the socket out of the room again;
`Pure` keeps strangers out.

**Suspension.** A user with two sockets and requests of his own (`Web`), the row of his
ban, and what becomes of each message: `course` is where the handler is between its
awaits, from the queue or the door (`rejectIfBanned`) over the ban's check and the
scanner to the row and the broadcast. `isUserBanned` reads in one step and writes
off an expired ban in another (the courses "lapsing"); `raced` records a ban imposed
in between, which that write switches off. `SpeaksInTurn`: the messages of a socket
are broadcast in the order they were sent, through expulsions, disconnects and bans,
and while a ban is in force at most one message of each socket, the one already past
its check, gets out. Requests have no queue, so nothing is said of theirs. Two sockets,
two messages, a limit of one and two bans: the second message is the one that must
wait, the second ban the one that may be lost. The room a message goes to is in `Chat`.
Proved for any sockets, messages, limits and bans: `Queues` (a message leaves the queue
when those before it are done) gives the order, as only what is done has been heard; and
`Silence` adds what a ban leaves behind: nobody is writing a ban off any more, and the
socket of a saved message has no other one past the check, by `Queues` again.

**ImageEditor, Cropping.** A stroke is known by the frame (the picture after some
rotations and crops) its coordinates belong to; `Cropping` has the coordinates, on a
picture of 5 by 3 pixels with a smallest box of 2, and pointer moves of -3, -1 and
2 halves of a pixel, so that drags cross the box, the edges and pixel boundaries.
The rotated and the cropped canvas are downscaled to `Longest` pixels (4; 2048 in the
code), which the file is not and the strokes are not: the first rotation of the
picture shrinks it, and a crop does or does not. A stroke that was there is `adrift`
from then on; in `ImageEditor`, which knows files as `large` or not, it is `Astray`.
`rewound`, `across`, `late` and `between` name the other accidents: the decoded file
replaces a transformed picture (as it does whenever one is edited again), a picture
is turned under the pen, a blob comes late, an edge lies between two pixels. "Send
original" after a failed export is left out. A stroke of `Cropping` is the pixels
nearest to the points of the pointer's way (`Paths`, which may leave the picture).
Two transformations and two strokes, so that one can be undone before the other.
Proved: `StrokesFit` from `Fit` (strokes, history and the picture being decoded all
have one frame each, but for the strokes a large file loses, until the file or the pen
comes in between), `SendsWhatIsShown` from `Previewed`; and `StrokesStay` for files,
limits, boxes, moves and strokes of any size, from lemmas about each formula of the
code: what rounding, clamping, dragging, resizing under a locked ratio, downscaling and
the nearest pixel leave inside the picture. Of strokes adrift nothing is claimed. With
the types of the variables it is inductive as it stands.

**Voice.** `asking`, `live` and `recorder` belong to recorders that may be gone by the
time the browser answers. `OneVoice` allows one exception, `early`: a player started
while permission is being asked for is recorded. Proved for any players and mounts, from `Progress`
(how far the recorder on the page has come) and `Hushed`: from its mounting until the
permission comes nobody plays.

Every invariant of the passing runs is proved. Each inductive invariant was checked by
TLC first, on the instances of the runs. What is left to TLC: liveness
everywhere, since ENABLED and fairness are beyond the prover. The proofs share three
assumptions with the runs: the history variables name the accidents they exclude, the
bounds of the guards are any natural numbers, and the constants satisfy the ASSUMEs of
their modules.

## 6. Where the code and its comments disagree

- `payout_orphan`: a row PENDING for 15 minutes is failed with "Paymob was never
  called; funds released" (payout.service.ts:785). The row is also PENDING while
  the call hangs, and after a crash between the call and the update to
  SUBMITTED. The run releases the hold of a transfer Paymob has.
- `payout_terminal`: "Terminal states - no further automated transitions."
  (payout.state.ts:4). The update to SUBMITTED and `markPayoutSubmissionFailed`
  write the row whatever its status is.
- `payout_volume`: the rolling 24-hour maximum is summed before the lock; two
  requests pass it together.
- `escrow_funds`: "Funds are already released, so they are either in PENDING or
  AVAILABLE" (disputes.service.ts:85). After a refund they are neither: the
  dispute reopens the project and holds nothing, so that nobody can resolve it.
- `escrow_race`: more than one active dispute per project, which the schema's
  comment (schema.prisma:909) says the service prevents. Two `openDispute` requests
  both pass its check; and an escalation or a submission writes the dispute it read by
  its id, and revives it beside a new one if it was decided meanwhile.

Without a run of their own, as the number of runs is kept small:

- A manual withdrawal (INSTAPAY, E_WALLET) holds its amount at creation and
  `updateWithdrawalRequestStatus` debits it again at COMPLETED, where
  manual-payments-security-plan.md:82 has one debit, after the approval; and two
  administrators who reject one at the same time both give the amount back. The
  properties about ledger lines are stated for PAYMOB and IBAN rows for this reason.
- `FairBids` (`Hiring`): project.editlock.ts:47-49 locks the content of a project with
  bids "to protect bidder fairness", and project.service.ts:236 counts the bids in the
  transaction that writes, "optimistic concurrency". Nothing tells the write that a bid
  came since. Add it to `hiring.cfg` to see an edit change what was bid on.
- `heldByDispute` is one balance for all projects (`borrowed`). A dispute that holds
  nothing, such as a second one after the engineer was refused his earnings, can be
  decided for him with money that another project's dispute or `manualFreeze` put
  there (disputes.service.ts:183-188, project.workflow.service.ts:384-388,
  disputeCron.ts:86-90): that project's dispute cannot be resolved any more.
- `PayeeMayWork` (`Hiring`): an engineer hired by an invitation is told "You can now
  start working" (manual-payment.service.ts:640), but `assertAssignedEngineer` asks
  for an accepted bid. Add it to `hiring.cfg` to see it.
- `RejectedMayApply` (`Registration`): a rejected engineer is told to "apply again",
  and no handler takes the application. Add it to `platform.cfg`.
- `openDispute` means to "allow engineer to fix" (disputes.service.ts:43) and releases
  the payment, which is all `createProjectReview` asks for: a client who reviews
  meanwhile completes the project, and the fix can no longer be handed in. Without its
  condition on `reviews`, `FixIsPossible` fails in `escrow_money`.
- For a project hired by an invitation `canReviewProject` answers yes and
  `createProjectReview` refuses, since it looks for an accepted bid.
- The deactivation of an expired ban switches off a ban imposed since it was read
  (`raced`).
- The crop box "clamped" and rounded side by side passes the edge by a pixel
  (`between`); the recorder's event, which "prevents echo/feedback", comes before
  the permission (`early`).
- Amounts added with `+` concatenate (`together`), settlements that overlap count
  twice (`overlapped`), a freeze may overdraw (`outdated`).
- A retry during processing parses the marker PROCESSING as JSON and is answered
  with an error.
- AuthProvider.tsx:80 keeps every unfinished engineer on the form for Google
  accounts, whose handler refuses those without one; they can finish by entering
  their address in the registration form again.
- The settings page reads the switch of a method only in the older format, so
  that a disabled method is enabled by the next save.
- Two overlapping approvals leave the engineer who was told first with a REJECTED
  bid; an application sent twice sets an APPROVED profile back to PENDING.
- The picture editor downscales what it has turned or cut to 2048 pixels to "enforce
  safety limits" (cropRotate.ts:515-523, 557-567) and moves the strokes by the sizes
  before that (ImageEditorCanvas.tsx:320, 394): on a larger photo, strokes drawn before
  its first transformation are elsewhere after it (`adrift`, `Astray`).
- In the picture editor strokes are undone before transformations, whichever came
  last; a decode that ends late replaces the committed picture under its strokes; a
  voice message sent while its recording is stopping for the preview is lost.

## 7. Not modelled, and what is left

The exchange rate (a cached number), notifications and e-mail (best-effort output
after the transactions), rate limits and uploads (filters and file I/O), taxonomy
and public pages (reads). Of modelled components: the average of reviews, recomputed from
a read, so that two at once may keep the older result; general conversations, of which two users opening one at
once get two; the counter of failed codes, whose concurrent attempts count once;
read marks, presence and the patterns of the content scanner; the change of an e-mail address and
logout; `updateProjectProgress`; the gateway's HTTP, tokens and signatures. The
greater part of the frontend fetches, renders and posts, without state that could
disagree with the server's.

Left for later, in this order:

1. `Escrow` and `Settlement` on one wallet: whose money a settlement moves after a
   dispute on a pending line.
2. `Hiring` and `Escrow` on one project: an invitation accepted late reopens the
   question who is paid for work under way.
3. A fault model for Redis in front of `Idempotency` and `Sessions` together, and
   general conversations.
