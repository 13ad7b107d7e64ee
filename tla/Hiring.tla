------------------------------- MODULE Hiring -------------------------------
(***************************************************************************)
(* How a project finds its engineer: bids and their conversation           *)
(* (bids.service.ts, messages.service.ts), invitations                     *)
(* (invitation.service.ts), the client's edits (project.service.ts,        *)
(* project.editlock.ts, project.status.ts), the sweep of the invitation    *)
(* scheduler, and the payment row that names the engineer to be paid       *)
(* (prepareProjectCheckoutSession of payments.service.ts).                 *)
(*                                                                         *)
(* A handler checks what it reads, and acts on it in a later transaction   *)
(* that does not look again.  A task is such a handler between its two     *)
(* steps.  What may go wrong is recorded in slips, so that a property can  *)
(* say which accident alone could break it.                                *)
(***************************************************************************)
EXTENDS Integers, FiniteSets

CONSTANTS
    Job,            \* handlers that may be under way at the same time
    Engineer,
    Bid,            \* rows the bids on the project may take
    Invitation,     \* rows its invitations may take
    MaxPending,     \* invitations that may be pending, 10 in the code
    Tolerated,      \* bound: after any other accident nothing new is begun
    NoOne

ASSUME NamesAssumption ==
    NoOne \notin Engineer \cup Bid \cup Invitation /\ Bid \cap Invitation = {}
ASSUME LimitAssumption == MaxPending \in Nat

VARIABLES
    project,    \* Project.status; GONE once the project is deleted
    bid,        \* Bid.status of every row, NONE before it exists
    bidder,     \* Bid.engineerId
    outdated,   \* bids placed on a title, description, budget or service
                \* type that has changed since
    inv,        \* ProjectInvitation.status of every row, NONE likewise
    invitee,    \* ProjectInvitation.engineerId
    old,        \* rows last written a week ago, so that they expire or lapse
    pay,        \* Payment.status, NONE without a row
    payee,      \* Payment.engineerId
    proof,      \* a manual payment waits for review (module ManualPayment)
    talk,       \* Conversation.engineerId
    job,        \* what every handler is about to do
    sweep,      \* the phase of the scheduler and the rows it still has
    slips       \* history: accidents that have happened

bidVars == << bid, bidder, outdated >>
invVars == << inv, invitee, old >>
payVars == << pay, payee, proof >>
rowVars == << project, bidVars, invVars, payVars, talk >>
vars == << rowVars, job, sweep, slips >>

-----------------------------------------------------------------------------
(* What the handlers check *)

BidsOn == {b \in Bid : bid[b] # "NONE"}
AcceptedBids == {b \in Bid : bid[b] = "ACCEPTED"}
Accepted == {i \in Invitation : inv[i] = "ACCEPTED"}
Pending == {i \in Invitation : inv[i] = "PENDING"}

\* Engineers who hold an accepted bid or an accepted invitation.
Hired == {bidder[b] : b \in AcceptedBids} \cup {invitee[i] : i \in Accepted}

\* computePermissions.
EditTier ==
    IF AcceptedBids # {} \/ project \notin {"OPEN", "CLOSED"} THEN "LOCKED"
    ELSE IF BidsOn # {} THEN "STATUS_ONLY"
    ELSE "FULL"

\* assertCanEditContent, assertCanToggleStatus and assertProjectTransition: of
\* the statuses a client may ask for, the table has OPEN to CLOSED and back.
MayEdit(edits, to) ==
    /\ edits \/ to # "KEEP"
    /\ edits => EditTier = "FULL"
    /\ to # "KEEP" => EditTier # "LOCKED"

MayBid(e) ==
    /\ project = "OPEN"
    /\ \A b \in BidsOn : bidder[b] # e

\* approveBid looks at the project, never at the status of the bid.
MayApprove_M(b) == b \in BidsOn
MayApprove(b) == b \in BidsOn /\ project = "OPEN"

MayInvite(e) ==
    /\ project = "OPEN"
    /\ Cardinality(Pending) < MaxPending
    /\ \A i \in Pending \cup Accepted : invitee[i] # e

\* respondToInvitation looks at the invitation, never at the project.
MayRespond(i) == i \in Pending \ old
NoneAccepted == Accepted = {}

MayCancel(i) == i \in Pending
MayExpire_M(i) == i \in Pending \ old
MayExpire(i) == i \in Pending \cap old
MayDelete == project = "OPEN"

\* getAcceptedAgreementForProject: a bid comes before an invitation.
Agreed_M(e) ==
    IF BidsOn # {} THEN \E b \in BidsOn : e = bidder[b]
                   ELSE \E i \in Accepted : e = invitee[i]
Agreed(e) ==
    IF AcceptedBids # {} THEN \E b \in AcceptedBids : e = bidder[b]
                         ELSE \E i \in Accepted : e = invitee[i]
MayCheckout(e) ==
    /\ project \in {"AWAITING_PAYMENT", "IN_PROGRESS"}
    /\ pay # "FUNDED"
    /\ Agreed(e)

\* assertAssignedEngineer, before progress is noted or work is submitted.
MayWork(e) == \E b \in AcceptedBids : bidder[b] = e

-----------------------------------------------------------------------------
(* Tasks *)

Idle == [op |-> "idle", who |-> NoOne, row |-> NoOne, flag |-> FALSE,
         to |-> "KEEP"]
Begin(j, t) ==
    /\ job[j] = Idle
    /\ slips \subseteq Tolerated
    /\ job' = [job EXCEPT ![j] = t]
    /\ UNCHANGED << rowVars, sweep, slips >>
Turn(j, op) == job' = [job EXCEPT ![j].op = op]
Done(j) == job' = [job EXCEPT ![j] = Idle]

\* Accident s happens when c holds; it is a race when what was checked before
\* no longer holds now.
Slip(s, c) == slips' = IF c THEN slips \cup {s} ELSE slips
Checked(c) == Slip("race", ~c)

\* The handler throws or the server stops; what is committed stays.
Abandon(j) ==
    /\ job[j] # Idle
    /\ Done(j)
    /\ Slip("cut", job[j].op = "link")
    /\ UNCHANGED << rowVars, sweep >>

-----------------------------------------------------------------------------
(* Bids *)

\* createBid.  Its conversation follows, and is opened only when the project has
\* none.
BidRead(j, e) ==
    MayBid(e) /\ Begin(j, [Idle EXCEPT !.op = "bid", !.who = e])
PlaceBid(j) ==
    /\ job[j].op = "bid"
    /\ project # "GONE"
    /\ BidsOn # Bid
    /\ LET b == CHOOSE b \in Bid : b \notin BidsOn
       IN  /\ bid' = [bid EXCEPT ![b] = "PENDING"]
           /\ bidder' = [bidder EXCEPT ![b] = job[j].who]
    /\ Checked(MayBid(job[j].who))
    /\ Turn(j, "greet")
    /\ UNCHANGED << project, outdated, invVars, payVars, talk, sweep >>
Greet(j) ==
    /\ job[j].op = "greet"
    /\ talk' = IF talk = NoOne THEN job[j].who ELSE talk
    /\ Done(j)
    /\ UNCHANGED << project, bidVars, invVars, payVars, sweep, slips >>

\* getConversationByProject, when a page asks for a chat there is not yet: it is
\* opened as createBid would, with the engineer of the accepted bid if any.
OpenChat(j, e) ==
    /\ talk = NoOne
    /\ \E b \in IF AcceptedBids # {} THEN AcceptedBids ELSE BidsOn :
          e = bidder[b]
    /\ Begin(j, [Idle EXCEPT !.op = "greet", !.who = e])

\* approveBid: the bid is accepted and every other bid rejected, whatever they
\* were; the conversation follows after the transaction.
AcceptBid_M(b) ==
    bid' = [x \in Bid |-> IF x = b THEN "ACCEPTED"
                          ELSE IF bid[x] = "PENDING" THEN "REJECTED"
                          ELSE bid[x]]
AcceptBid(b) ==
    bid' = [x \in Bid |-> IF x = b THEN "ACCEPTED"
                          ELSE IF x \in BidsOn THEN "REJECTED" ELSE "NONE"]
ApproveRead(j, b) ==
    MayApprove(b) /\ Begin(j, [Idle EXCEPT !.op = "approve", !.row = b])
Approve(j) ==
    /\ job[j].op = "approve"
    /\ AcceptBid(job[j].row)
    /\ project' = "IN_PROGRESS"
    /\ Checked(MayApprove(job[j].row))
    /\ Turn(j, "link")
    /\ UNCHANGED << bidder, outdated, invVars, payVars, talk, sweep >>
Link_M(j) ==
    /\ job[j].op = "link"
    /\ talk' = IF talk = NoOne THEN bidder[job[j].row] ELSE talk
    /\ Checked(job[j].row \in AcceptedBids)
    /\ Done(j)
    /\ UNCHANGED << project, bidVars, invVars, payVars, sweep >>
Link(j) ==
    /\ job[j].op = "link"
    /\ talk' = bidder[job[j].row]
    /\ Checked(job[j].row \in AcceptedBids)
    /\ Done(j)
    /\ UNCHANGED << project, bidVars, invVars, payVars, sweep >>

-----------------------------------------------------------------------------
(* Invitations *)

\* inviteEngineerToProject.
InviteRead(j, e) ==
    MayInvite(e) /\ Begin(j, [Idle EXCEPT !.op = "invite", !.who = e])
Invite(j) ==
    /\ job[j].op = "invite"
    /\ project # "GONE"
    /\ \E i \in Invitation : inv[i] = "NONE"
    /\ LET i == CHOOSE i \in Invitation : inv[i] = "NONE"
       IN  /\ inv' = [inv EXCEPT ![i] = "PENDING"]
           /\ invitee' = [invitee EXCEPT ![i] = job[j].who]
    /\ Checked(MayInvite(job[j].who))
    /\ Done(j)
    /\ UNCHANGED << project, bidVars, old, payVars, talk, sweep >>

\* An update of one invitation by its id; the row is not old any more.
SetInvitation(i, s) ==
    /\ inv[i] # "NONE"
    /\ inv' = [inv EXCEPT ![i] = s]
    /\ old' = old \ {i}
    /\ UNCHANGED invitee

\* respondToInvitation.  The transaction of an acceptance looks for another
\* accepted invitation first, and takes no lock.
RespondRead(j, i) ==
    /\ MayRespond(i)
    /\ \E op \in {"accept", "decline"} :
         Begin(j, [Idle EXCEPT !.op = op, !.row = i])
Decline(j) ==
    /\ job[j].op = "decline"
    /\ SetInvitation(job[j].row, "DECLINED")
    /\ Checked(inv[job[j].row] = "PENDING")
    /\ Done(j)
    /\ UNCHANGED << project, bidVars, payVars, talk, sweep >>
AcceptCheck(j) ==
    /\ job[j].op = "accept"
    /\ NoneAccepted
    /\ Turn(j, "accepting")
    /\ UNCHANGED << rowVars, sweep, slips >>
Accept(j) ==
    LET i == job[j].row
        others == Pending \ {i}
    IN  /\ job[j].op = "accepting"
        /\ inv[i] # "NONE"
        /\ inv' = [x \in Invitation |-> IF x = i THEN "ACCEPTED"
                                        ELSE IF x \in others THEN "CANCELLED"
                                        ELSE inv[x]]
        /\ old' = old \ (others \cup {i})
        /\ project' = "AWAITING_PAYMENT"
        /\ talk' = IF talk = NoOne THEN invitee[i] ELSE talk
        /\ IF inv[i] = "PENDING" /\ Accepted = {}
             THEN Slip("late", project \notin {"OPEN", "CLOSED"})
             ELSE Slip("race", TRUE)
        /\ Done(j)
        /\ UNCHANGED << bidVars, invitee, payVars, sweep >>

\* cancelInvitation.
CancelRead(j, i) ==
    MayCancel(i) /\ Begin(j, [Idle EXCEPT !.op = "cancel", !.row = i])
Cancel(j) ==
    /\ job[j].op = "cancel"
    /\ SetInvitation(job[j].row, "CANCELLED")
    /\ Checked(MayCancel(job[j].row))
    /\ Done(j)
    /\ UNCHANGED << project, bidVars, payVars, talk, sweep >>

\* The listings, a view and an answer that comes too late expire what is old.
ExpireRead(j, i) ==
    MayExpire(i) /\ Begin(j, [Idle EXCEPT !.op = "expire", !.row = i])
Expire(j) ==
    /\ job[j].op = "expire"
    /\ SetInvitation(job[j].row, "EXPIRED")
    /\ Checked(MayExpire(job[j].row))
    /\ Done(j)
    /\ UNCHANGED << project, bidVars, payVars, talk, sweep >>

-----------------------------------------------------------------------------
(* expireStaleInvitations: two lists, each worked off row by row.           *)

Sweeps(phase, rows) == sweep' = [phase |-> phase, rows |-> rows]
SweepStart ==
    /\ sweep.phase = "idle"
    /\ Sweeps("expire", {i \in Invitation : MayExpire(i)})
    /\ UNCHANGED << rowVars, job, slips >>
SweepExpire(i) ==
    /\ sweep.phase = "expire" /\ i \in sweep.rows
    /\ SetInvitation(i, "EXPIRED")
    /\ Sweeps("expire", sweep.rows \ {i})
    /\ Checked(MayExpire(i))
    /\ UNCHANGED << project, bidVars, payVars, talk, job >>
SweepList ==
    /\ sweep = [phase |-> "expire", rows |-> {}]
    /\ Sweeps("lapse", IF project = "AWAITING_PAYMENT" THEN Accepted \cap old
                                                       ELSE {})
    /\ UNCHANGED << rowVars, job, slips >>

\* The look for a payment of this invitation finds none: no code ever writes
\* Payment.invitationId.
LapseRow_M(i) == SetInvitation(i, "CANCELLED") /\ UNCHANGED project
LapseRow(i) == SetInvitation(i, "CANCELLED") /\ project' = "OPEN"
SweepLapse(i) ==
    /\ sweep.phase = "lapse" /\ i \in sweep.rows
    /\ LapseRow(i)
    /\ Sweeps("lapse", sweep.rows \ {i})
    /\ IF i \in Accepted \cap old /\ project = "AWAITING_PAYMENT"
         THEN Slip("reopened", pay # "NONE")
         ELSE Slip("race", TRUE)
    /\ UNCHANGED << bidVars, payVars, talk, job >>

\* The sweep is over; the update of a row that was deleted ends it early.
SweepEnd ==
    /\ \/ sweep = [phase |-> "lapse", rows |-> {}]
       \/ \E i \in sweep.rows : inv[i] = "NONE"
    /\ Sweeps("idle", {})
    /\ UNCHANGED << rowVars, job, slips >>

-----------------------------------------------------------------------------
(* The client's edits *)

\* updateProject: the bids are counted in the transaction that writes, which
\* keeps nobody from placing one.
EditRead(j, edits, to) ==
    /\ MayEdit(edits, to)
    /\ Begin(j, [Idle EXCEPT !.op = "edit", !.flag = edits, !.to = to])
Edit(j) ==
    /\ job[j].op = "edit"
    /\ project # "GONE"
    /\ outdated' = IF job[j].flag THEN BidsOn ELSE outdated
    /\ project' = IF job[j].to = "KEEP" THEN project ELSE job[j].to
    /\ Checked(MayEdit(job[j].flag, job[j].to))
    /\ Done(j)
    /\ UNCHANGED << bid, bidder, invVars, payVars, talk, sweep >>

\* deleteProject: foreign keys keep a project with bids or a payment, its
\* invitations go with it.
DeleteRead(j) == MayDelete /\ Begin(j, [Idle EXCEPT !.op = "delete"])
Delete(j) ==
    /\ job[j].op = "delete"
    /\ project # "GONE"
    /\ BidsOn = {} /\ pay = "NONE"
    /\ project' = "GONE"
    /\ inv' = [i \in Invitation |-> "NONE"]
    /\ old' = {}
    /\ talk' = NoOne
    /\ Checked(MayDelete)
    /\ Done(j)
    /\ UNCHANGED << bidVars, invitee, payVars, sweep >>

-----------------------------------------------------------------------------
(* The payment *)

\* prepareProjectCheckoutSession names the engineer when it creates the
\* payment, and never again.
Payee(j) == IF job[j].flag THEN payee ELSE job[j].who
CheckoutRead(j, e) ==
    /\ MayCheckout(e)
    /\ Begin(j, [Idle EXCEPT !.op = "checkout", !.who = e,
                             !.flag = (pay # "NONE")])
Checkout(j) ==
    /\ job[j].op = "checkout"
    /\ project # "GONE"
    /\ ~job[j].flag => pay = "NONE"
    /\ pay' = "PENDING"
    /\ payee' = Payee(j)
    /\ Checked(MayCheckout(job[j].who))
    /\ Done(j)
    /\ UNCHANGED << project, bidVars, invVars, proof, talk, sweep >>

\* Module ManualPayment has the review of the client's proof in detail: it is
\* handed in while the project waits for it, and decided at any time.
HandIn ==
    /\ project \in {"AWAITING_PAYMENT", "IN_PROGRESS"}
    /\ pay = "PENDING" /\ ~proof
    /\ proof' = TRUE
    /\ UNCHANGED << project, bidVars, invVars, pay, payee, talk, job,
                    sweep, slips >>
TurnDown ==
    /\ proof
    /\ proof' = FALSE
    /\ UNCHANGED << project, bidVars, invVars, pay, payee, talk, job,
                    sweep, slips >>
Fund ==
    /\ proof /\ pay = "PENDING"
    /\ pay' = "FUNDED"
    /\ project' = "IN_PROGRESS"
    /\ proof' = FALSE
    /\ UNCHANGED << bidVars, invVars, payee, talk, job, sweep, slips >>

\* A week has passed since the row was last written.
Age(i) ==
    /\ i \in (Pending \cup Accepted) \ old
    /\ old' = old \cup {i}
    /\ UNCHANGED << project, bidVars, inv, invitee, payVars, talk,
                    job, sweep, slips >>

-----------------------------------------------------------------------------

Init ==
    /\ project = "OPEN"
    /\ bid = [b \in Bid |-> "NONE"]
    /\ bidder = [b \in Bid |-> NoOne]
    /\ outdated = {}
    /\ inv = [i \in Invitation |-> "NONE"]
    /\ invitee = [i \in Invitation |-> NoOne]
    /\ old = {}
    /\ pay = "NONE" /\ payee = NoOne /\ proof = FALSE
    /\ talk = NoOne
    /\ job = [j \in Job |-> Idle]
    /\ sweep = [phase |-> "idle", rows |-> {}]
    /\ slips = {}

Reads(j) ==
    \/ \E e \in Engineer :
          \/ BidRead(j, e) \/ OpenChat(j, e)
          \/ InviteRead(j, e) \/ CheckoutRead(j, e)
    \/ \E b \in Bid : ApproveRead(j, b)
    \/ \E i \in Invitation :
          RespondRead(j, i) \/ CancelRead(j, i) \/ ExpireRead(j, i)
    \/ \E edits \in BOOLEAN, to \in {"KEEP", "OPEN", "CLOSED"} :
          EditRead(j, edits, to)
    \/ DeleteRead(j)

Writes(j) ==
    \/ PlaceBid(j) \/ Greet(j) \/ Approve(j) \/ Link(j)
    \/ Invite(j) \/ Decline(j) \/ AcceptCheck(j) \/ Accept(j)
    \/ Cancel(j) \/ Expire(j)
    \/ Edit(j) \/ Delete(j) \/ Checkout(j)
    \/ Abandon(j)

Sweep ==
    \/ SweepStart \/ SweepList \/ SweepEnd
    \/ \E i \in Invitation : SweepExpire(i) \/ SweepLapse(i)

Next ==
    \/ \E j \in Job : Reads(j) \/ Writes(j)
    \/ Sweep
    \/ HandIn \/ TurnDown \/ Fund
    \/ \E i \in Invitation : Age(i)

\* The scheduler runs for as long as the server does, handlers come to an end,
\* and time passes; nobody has to bid, answer or pay.
Fairness ==
    /\ WF_vars(Sweep)
    /\ \A j \in Job : WF_vars(Writes(j))
    /\ \A i \in Invitation : WF_vars(Age(i))

Spec == Init /\ [][Next]_vars
FairSpec == Spec /\ Fairness

-----------------------------------------------------------------------------
(* Properties *)

\* Every variable keeps its shape.
TypeOK ==
    /\ project \in {"OPEN", "CLOSED", "AWAITING_PAYMENT", "IN_PROGRESS",
                    "GONE"}
    /\ bid \in [Bid -> {"NONE", "PENDING", "ACCEPTED", "REJECTED"}]
    /\ bidder \in [Bid -> Engineer \cup {NoOne}]
    /\ outdated \in SUBSET Bid
    /\ inv \in [Invitation -> {"NONE", "PENDING", "ACCEPTED", "DECLINED",
                               "CANCELLED", "EXPIRED"}]
    /\ invitee \in [Invitation -> Engineer \cup {NoOne}]
    /\ old \in SUBSET Invitation
    /\ pay \in {"NONE", "PENDING", "FUNDED"}
    /\ payee \in IF pay = "NONE" THEN {NoOne} ELSE Engineer
    /\ proof \in BOOLEAN
    /\ talk \in Engineer \cup {NoOne}
    /\ job \in [Job -> [op : {"idle", "bid", "greet", "approve", "link",
                              "invite", "accept", "accepting", "decline",
                              "cancel", "expire", "edit", "delete",
                              "checkout"},
                        who : Engineer \cup {NoOne},
                        row : Bid \cup Invitation \cup {NoOne},
                        flag : BOOLEAN,
                        to : {"KEEP", "OPEN", "CLOSED"}]]
    /\ sweep \in [phase : {"idle", "expire", "lapse"},
                  rows : SUBSET Invitation]
    /\ slips \in SUBSET {"race", "late", "reopened", "cut"}

\* However many approvals overlap, and however stale what they read, one bid
\* at most is ACCEPTED at the end of each of them.
OneAcceptedBid == Cardinality(AcceptedBids) <= 1

\* One engineer is hired, whether by a bid or by an invitation: two are only
\* when a handler acts on what has changed since it looked, or when an
\* invitation is accepted after the project has found somebody.
OneHire == slips \cap {"race", "late"} = {} => Cardinality(Hired) <= 1

\* Money is in escrow for an engineer the project has hired, unless a sweep
\* has reopened the project while its payment row kept the name.
PayeeIsHired ==
    slips \cap {"race", "late", "reopened"} = {} /\ pay = "FUNDED"
    => payee \in Hired

\* A project that waits for its payment can be paid: checkout finds an accepted
\* bid or invitation.
AwaitingCanPay ==
    "race" \notin slips /\ project = "AWAITING_PAYMENT" => Hired # {}

\* README.md: a chat room is there "once a bid is accepted".  It is with the
\* engineer of the bid, whoever the client talked to before.
TalkWithHired ==
    slips \cap {"race", "cut"} = {}
    => \A b \in AcceptedBids :
          \/ talk = bidder[b]
          \/ \E j \in Job : job[j].op = "link" /\ job[j].row = b

\* No invitation is pending for ever, even if nobody looks at it.
InvitationsEnd ==
    \A i \in Invitation : inv[i] = "PENDING" ~> inv[i] # "PENDING"

\* A project does not wait for a payment for ever; only a race can leave it
\* without the invitation whose end would reopen it.
AwaitingEnds ==
    project = "AWAITING_PAYMENT"
    ~> project # "AWAITING_PAYMENT" \/ "race" \in slips

-----------------------------------------------------------------------------
(* What the code says and does not do *)

\* manual-payment.service.ts tells the payee: "Escrow ... has been funded. You
\* can now start working".
PayeeMayWork == pay = "FUNDED" /\ slips = {} => MayWork(payee)

\* project.editlock.ts: "This project has bids. Content is locked to protect
\* bidder fairness."  Every bid is on the content the project has now.
FairBids == outdated = {}

=============================================================================
