----------------------------- MODULE Hiring_proof -----------------------------
(***************************************************************************)
(* Proofs about Hiring, for any number of handlers, engineers, bids and    *)
(* invitations: the invariants that the run hiring checks.                 *)
(***************************************************************************)
EXTENDS Hiring, FiniteSetTheorems, TLAPS

\* What handlers hold was there when they looked; bids and the payment stay.
JobsFit ==
    \A j \in Job :
        /\ job[j].op \in {"bid", "greet", "invite", "checkout"}
             => job[j].who \in Engineer
        /\ job[j].op \in {"approve", "link"} => job[j].row \in BidsOn
        /\ job[j].op \in {"accept", "accepting", "decline", "cancel", "expire"}
             => job[j].row \in Invitation
        /\ job[j].op = "checkout" /\ job[j].flag => pay # "NONE"
KnownBidders == \A b \in BidsOn : bidder[b] \in Engineer
TypeInv == TypeOK /\ JobsFit /\ KnownBidders

\* The statuses a project is in while nobody is hired.
Seeking == project \in {"OPEN", "CLOSED"}

\* What keeps the hires apart, as long as no accident happens.
NoRace == "race" \notin slips
InTime == NoRace /\ "late" \notin slips
OneBid == \A a, b \in AcceptedBids : a = b
Tidy ==
    InTime =>
        /\ \A h, i \in Accepted : h = i
        /\ Accepted = {} \/ AcceptedBids = {}
        /\ Seeking => Accepted = {} /\ AcceptedBids = {}
        /\ project = "AWAITING_PAYMENT" => AcceptedBids = {}

\* A project waits for payment because of an accepted invitation, and the
\* payment names somebody who is hired.
Waits == NoRace /\ project = "AWAITING_PAYMENT" => Accepted # {}
Named ==
    InTime /\ "reopened" \notin slips /\ pay # "NONE"
    => ~Seeking /\ payee \in Hired
Linking(b) == \E j \in Job : job[j].op = "link" /\ job[j].row = b
Talks ==
    NoRace /\ "cut" \notin slips
    => \A b \in AcceptedBids : talk = bidder[b] \/ Linking(b)

HireInv == OneBid /\ Tidy /\ Waits /\ Named /\ Talks

-----------------------------------------------------------------------------
(* Types *)

Ops == {"idle", "bid", "greet", "approve", "link", "invite", "accept",
        "accepting", "decline", "cancel", "expire", "edit", "delete", "checkout"}
Task == [op : Ops, who : Engineer \cup {NoOne},
         row : Bid \cup Invitation \cup {NoOne}, flag : BOOLEAN,
         to : {"KEEP", "OPEN", "CLOSED"}]
RowsOK ==
    /\ project \in {"OPEN", "CLOSED", "AWAITING_PAYMENT", "IN_PROGRESS", "GONE"}
    /\ bid \in [Bid -> {"NONE", "PENDING", "ACCEPTED", "REJECTED"}]
    /\ bidder \in [Bid -> Engineer \cup {NoOne}]
    /\ outdated \in SUBSET Bid
    /\ inv \in [Invitation -> {"NONE", "PENDING", "ACCEPTED", "DECLINED",
                               "CANCELLED", "EXPIRED"}]
    /\ invitee \in [Invitation -> Engineer \cup {NoOne}]
    /\ old \in SUBSET Invitation
    /\ pay \in {"NONE", "PENDING", "FUNDED"}
    /\ payee \in IF pay = "NONE" THEN {NoOne} ELSE Engineer
    /\ proof \in BOOLEAN
    /\ talk \in Engineer \cup {NoOne}
JobsOK == job \in [Job -> Task]
SweepOK == sweep \in [phase : {"idle", "expire", "lapse"},
                      rows : SUBSET Invitation]
SlipsOK == slips \in SUBSET {"race", "late", "reopened", "cut"}

\* TypeOK in parts.
LEMMA TypeParts == TypeOK <=> RowsOK /\ JobsOK /\ SweepOK /\ SlipsOK
BY DEF TypeOK, RowsOK, JobsOK, SweepOK, SlipsOK, Task, Ops

LEMMA IdleTask == Idle \in Task /\ Idle.op = "idle"
BY DEF Idle, Task, Ops

\* A job may change when what it holds is there and the rows stay as they are.
LEMMA JobChanges ==
    ASSUME TypeInv, NEW j \in Job, NEW t \in Task,
           job' = [job EXCEPT ![j] = t],
           BidsOn \subseteq BidsOn', pay # "NONE" => pay' # "NONE",
           t.op \in {"bid", "greet", "invite", "checkout"} => t.who \in Engineer,
           t.op \in {"approve", "link"} => t.row \in BidsOn,
           t.op \in {"accept", "accepting", "decline", "cancel", "expire"}
             => t.row \in Invitation,
           t.op = "checkout" /\ t.flag => pay # "NONE"
    PROVE  JobsOK' /\ JobsFit'
<1>1. JobsOK'
  BY TypeParts DEF TypeInv, JobsOK
<1>2. \A k \in Job : job'[k] = IF k = j THEN t ELSE job[k]
  BY TypeParts DEF TypeInv, JobsOK
<1> QED
  BY <1>1, <1>2 DEF TypeInv, JobsFit

\* A handler that is through holds nothing.
LEMMA DoneFits ==
    ASSUME TypeInv, NEW j \in Job, Done(j), BidsOn \subseteq BidsOn',
           pay # "NONE" => pay' # "NONE"
    PROVE  JobsOK' /\ JobsFit'
<1>1. job' = [job EXCEPT ![j] = Idle]
  BY DEF Done
<1> QED
  BY <1>1, IdleTask, JobChanges

\* A handler that starts, on a task that fits.
LEMMA BeginFits ==
    ASSUME TypeInv, NEW j \in Job, NEW t \in Task, Begin(j, t),
           t.op \in {"bid", "greet", "invite", "checkout"} => t.who \in Engineer,
           t.op \in {"approve", "link"} => t.row \in BidsOn,
           t.op \in {"accept", "accepting", "decline", "cancel", "expire"}
             => t.row \in Invitation,
           t.op = "checkout" /\ t.flag => pay # "NONE"
    PROVE  TypeInv'
<1>1. JobsOK' /\ JobsFit'
  <2>1. BidsOn' = BidsOn /\ pay' = pay /\ job' = [job EXCEPT ![j] = t]
    BY DEF Begin, rowVars, bidVars, payVars, BidsOn
  <2> QED
    BY <2>1, JobChanges
<1>2. RowsOK' /\ SweepOK' /\ SlipsOK' /\ KnownBidders'
  BY TypeParts DEF TypeInv, RowsOK, SweepOK, SlipsOK, KnownBidders, BidsOn,
                   Begin, rowVars, bidVars, invVars, payVars
<1>3. TypeOK' <=> RowsOK' /\ JobsOK' /\ SweepOK' /\ SlipsOK'
  BY DEF TypeOK, RowsOK, JobsOK, SweepOK, SlipsOK, Task, Ops
<1> QED
  BY <1>1, <1>2, <1>3 DEF TypeInv

\* Accidents keep their names.
LEMMA SlipType ==
    ASSUME SlipsOK, NEW s \in {"race", "late", "reopened", "cut"},
           NEW c \in BOOLEAN, Slip(s, c)
    PROVE  SlipsOK'
BY DEF SlipsOK, Slip

\* All types from those of the parts, in the next state.
LEMMA TypeNext ==
    RowsOK' /\ JobsOK' /\ SweepOK' /\ SlipsOK' /\ JobsFit' /\ KnownBidders'
    => TypeInv'
BY DEF TypeInv, TypeOK, RowsOK, JobsOK, SweepOK, SlipsOK, Task, Ops

\* The handlers that begin.
LEMMA ReadsType == ASSUME TypeInv, NEW j \in Job, Reads(j) PROVE TypeInv'
<1>1. ASSUME NEW e \in Engineer, BidRead(j, e) PROVE TypeInv'
  <2> DEFINE t == [Idle EXCEPT !.op = "bid", !.who = e]
  <2>1. t \in Task /\ t.op = "bid" /\ t.who = e
    BY DEF Idle, Task, Ops
  <2>2. Begin(j, t)
    BY <1>1 DEF BidRead
  <2> HIDE DEF t
  <2> QED
    BY <2>1, <2>2, BeginFits
<1>o. ASSUME NEW e \in Engineer, OpenChat(j, e) PROVE TypeInv'
  <2> DEFINE t == [Idle EXCEPT !.op = "greet", !.who = e]
  <2>1. t \in Task /\ t.op = "greet" /\ t.who = e
    BY DEF Idle, Task, Ops
  <2>2. Begin(j, t)
    BY <1>o DEF OpenChat
  <2> HIDE DEF t
  <2> QED
    BY <2>1, <2>2, BeginFits
<1>2. ASSUME NEW e \in Engineer, InviteRead(j, e) PROVE TypeInv'
  <2> DEFINE t == [Idle EXCEPT !.op = "invite", !.who = e]
  <2>1. t \in Task /\ t.op = "invite" /\ t.who = e
    BY DEF Idle, Task, Ops
  <2>2. Begin(j, t)
    BY <1>2 DEF InviteRead
  <2> HIDE DEF t
  <2> QED
    BY <2>1, <2>2, BeginFits
<1>3. ASSUME NEW e \in Engineer, CheckoutRead(j, e) PROVE TypeInv'
  <2> DEFINE t == [Idle EXCEPT !.op = "checkout", !.who = e,
                               !.flag = (pay # "NONE")]
  <2>1. t \in Task /\ t.op = "checkout" /\ t.who = e /\ t.flag = (pay # "NONE")
    BY DEF Idle, Task, Ops
  <2>2. Begin(j, t)
    BY <1>3 DEF CheckoutRead
  <2> HIDE DEF t
  <2> QED
    BY <2>1, <2>2, BeginFits
<1>4. ASSUME NEW b \in Bid, ApproveRead(j, b) PROVE TypeInv'
  <2> DEFINE t == [Idle EXCEPT !.op = "approve", !.row = b]
  <2>1. t \in Task /\ t.op = "approve" /\ t.row = b
    BY DEF Idle, Task, Ops
  <2>2. Begin(j, t) /\ b \in BidsOn
    BY <1>4 DEF ApproveRead, MayApprove
  <2> HIDE DEF t
  <2> QED
    BY <2>1, <2>2, BeginFits
<1>5. ASSUME NEW i \in Invitation,
             RespondRead(j, i) \/ CancelRead(j, i) \/ ExpireRead(j, i)
      PROVE  TypeInv'
  <2>1. PICK op \in {"accept", "decline", "cancel", "expire"} :
           Begin(j, [Idle EXCEPT !.op = op, !.row = i])
    BY <1>5 DEF RespondRead, CancelRead, ExpireRead
  <2> DEFINE t == [Idle EXCEPT !.op = op, !.row = i]
  <2>2. t \in Task /\ t.op = op /\ t.row = i
    BY DEF Idle, Task, Ops
  <2>3. Begin(j, t)
    BY <2>1
  <2> HIDE DEF t
  <2> QED
    BY <2>2, <2>3, BeginFits
<1>6. ASSUME NEW edits \in BOOLEAN, NEW to \in {"KEEP", "OPEN", "CLOSED"},
             EditRead(j, edits, to)
      PROVE  TypeInv'
  <2> DEFINE t == [Idle EXCEPT !.op = "edit", !.flag = edits, !.to = to]
  <2>1. t \in Task /\ t.op = "edit"
    BY DEF Idle, Task, Ops
  <2>2. Begin(j, t)
    BY <1>6 DEF EditRead
  <2> HIDE DEF t
  <2> QED
    BY <2>1, <2>2, BeginFits
<1>7. CASE DeleteRead(j)
  <2> DEFINE t == [Idle EXCEPT !.op = "delete"]
  <2>1. t \in Task /\ t.op = "delete"
    BY DEF Idle, Task, Ops
  <2>2. Begin(j, t)
    BY <1>7 DEF DeleteRead
  <2> HIDE DEF t
  <2> QED
    BY <2>1, <2>2, BeginFits
<1> QED
  BY <1>1, <1>o, <1>2, <1>3, <1>4, <1>5, <1>6, <1>7 DEF Reads

\* One invitation is updated.
LEMMA SetInvitationType ==
    ASSUME RowsOK, NEW i \in Invitation,
           NEW s \in {"DECLINED", "CANCELLED", "EXPIRED"}, SetInvitation(i, s)
    PROVE  /\ inv' \in [Invitation -> {"NONE", "PENDING", "ACCEPTED", "DECLINED",
                                       "CANCELLED", "EXPIRED"}]
           /\ invitee' = invitee /\ old' \in SUBSET Invitation
           /\ Accepted' = Accepted \ {i}
<1>1. inv' = [inv EXCEPT ![i] = s] /\ invitee' = invitee /\ old' = old \ {i}
  BY DEF SetInvitation
<1>2. inv \in [Invitation -> {"NONE", "PENDING", "ACCEPTED", "DECLINED",
                              "CANCELLED", "EXPIRED"}]
  BY DEF RowsOK
<1>3. Accepted' = Accepted \ {i}
  BY <1>1, <1>2 DEF Accepted
<1> QED
  BY <1>1, <1>2, <1>3 DEF RowsOK

\* A new bid takes a free row, and no accepted bid changes.
LEMMA PlaceBidEffect ==
    ASSUME TypeInv, NEW j \in Job, PlaceBid(j)
    PROVE  /\ bid' \in [Bid -> {"NONE", "PENDING", "ACCEPTED", "REJECTED"}]
           /\ bidder' \in [Bid -> Engineer \cup {NoOne}]
           /\ BidsOn \subseteq BidsOn' /\ KnownBidders'
           /\ AcceptedBids' = AcceptedBids
           /\ \A b \in BidsOn : bidder'[b] = bidder[b]
<1> DEFINE b == CHOOSE b \in Bid : b \notin BidsOn
           who == job[j].who
<1>1. b \in Bid /\ b \notin BidsOn
  <2>1. \E x \in Bid : x \notin BidsOn
    BY DEF PlaceBid, BidsOn
  <2> QED
    BY <2>1
<1>2. bid' = [bid EXCEPT ![b] = "PENDING"] /\ bidder' = [bidder EXCEPT ![b] = who]
  BY DEF PlaceBid
<1>3. who \in Engineer
  BY DEF TypeInv, JobsFit, PlaceBid
<1>4. RowsOK
  BY TypeParts DEF TypeInv
<1> HIDE DEF b, who
<1>5. bid' \in [Bid -> {"NONE", "PENDING", "ACCEPTED", "REJECTED"}]
      /\ bidder' \in [Bid -> Engineer \cup {NoOne}]
  BY <1>1, <1>2, <1>3, <1>4 DEF RowsOK
<1>6. \A x \in Bid : /\ bid'[x] = IF x = b THEN "PENDING" ELSE bid[x]
                     /\ bidder'[x] = IF x = b THEN who ELSE bidder[x]
  BY <1>1, <1>2, <1>4 DEF RowsOK
<1>7. BidsOn' = BidsOn \cup {b} /\ AcceptedBids' = AcceptedBids
  BY <1>1, <1>6 DEF BidsOn, AcceptedBids
<1>8. \A x \in BidsOn : x \in Bid /\ x # b
  BY <1>1 DEF BidsOn
<1>9. KnownBidders'
  BY <1>1, <1>3, <1>6, <1>7, <1>8 DEF TypeInv, KnownBidders
<1> QED
  BY <1>5, <1>6, <1>7, <1>8, <1>9

\* Exactly the approved bid is accepted.
LEMMA ApproveEffect ==
    ASSUME TypeInv, NEW j \in Job, Approve(j)
    PROVE  /\ bid' \in [Bid -> {"NONE", "PENDING", "ACCEPTED", "REJECTED"}]
           /\ BidsOn' = BidsOn /\ AcceptedBids' = {job[j].row}
           /\ job[j].row \in BidsOn
<1>1. job[j].row \in BidsOn
  BY DEF TypeInv, JobsFit, Approve
<1> DEFINE b == job[j].row
<1>2. bid' = [x \in Bid |-> IF x = b THEN "ACCEPTED"
                            ELSE IF x \in BidsOn THEN "REJECTED" ELSE "NONE"]
  BY DEF Approve, AcceptBid
<1> HIDE DEF b
<1>3. b \in Bid /\ b \in BidsOn
  BY <1>1 DEF BidsOn, b
<1>4. \A x \in Bid : bid'[x] = IF x = b THEN "ACCEPTED"
                               ELSE IF x \in BidsOn THEN "REJECTED" ELSE "NONE"
  BY <1>2
<1>5. BidsOn' = BidsOn /\ AcceptedBids' = {b}
  BY <1>3, <1>4 DEF BidsOn, AcceptedBids
<1> QED
  BY <1>1, <1>2, <1>5 DEF b

\* A new invitation takes a free row, and no accepted one changes.
LEMMA InviteEffect ==
    ASSUME TypeInv, NEW j \in Job, Invite(j)
    PROVE  /\ inv' \in [Invitation -> {"NONE", "PENDING", "ACCEPTED", "DECLINED",
                                       "CANCELLED", "EXPIRED"}]
           /\ invitee' \in [Invitation -> Engineer \cup {NoOne}]
           /\ Accepted' = Accepted
           /\ \A i \in Accepted : invitee'[i] = invitee[i]
<1> DEFINE i == CHOOSE i \in Invitation : inv[i] = "NONE"
           who == job[j].who
<1>1. i \in Invitation /\ inv[i] = "NONE"
  BY DEF Invite
<1>2. inv' = [inv EXCEPT ![i] = "PENDING"] /\ invitee' = [invitee EXCEPT ![i] = who]
  BY DEF Invite
<1>3. who \in Engineer
  BY DEF TypeInv, JobsFit, Invite
<1>4. RowsOK
  BY TypeParts DEF TypeInv
<1> HIDE DEF i, who
<1>5. \A x \in Invitation : /\ inv'[x] = IF x = i THEN "PENDING" ELSE inv[x]
                            /\ invitee'[x] = IF x = i THEN who ELSE invitee[x]
  BY <1>1, <1>2, <1>4 DEF RowsOK
<1>6. Accepted' = Accepted
  BY <1>1, <1>5 DEF Accepted
<1>7. \A x \in Accepted : invitee'[x] = invitee[x]
  BY <1>1, <1>5 DEF Accepted
<1> QED
  BY <1>1, <1>2, <1>3, <1>4, <1>6, <1>7 DEF RowsOK

\* An accepted invitation joins the accepted ones.
LEMMA AcceptEffect ==
    ASSUME TypeInv, NEW j \in Job, Accept(j)
    PROVE  /\ inv' \in [Invitation -> {"NONE", "PENDING", "ACCEPTED", "DECLINED",
                                       "CANCELLED", "EXPIRED"}]
           /\ old' \in SUBSET Invitation
           /\ job[j].row \in Invitation
           /\ Accepted' = Accepted \cup {job[j].row}
<1> DEFINE i == job[j].row
           others == Pending \ {i}
<1>1. i \in Invitation
  BY DEF TypeInv, JobsFit, Accept
<1>2. inv' = [x \in Invitation |-> IF x = i THEN "ACCEPTED"
                                   ELSE IF x \in others THEN "CANCELLED"
                                   ELSE inv[x]]
  BY DEF Accept
<1>3. old' \subseteq old
  BY DEF Accept
<1>4. RowsOK
  BY TypeParts DEF TypeInv
<1>5. \A x \in others : inv[x] = "PENDING"
  BY DEF Pending
<1> HIDE DEF i, others
<1>6. inv' \in [Invitation -> {"NONE", "PENDING", "ACCEPTED", "DECLINED",
                               "CANCELLED", "EXPIRED"}]
  BY <1>2, <1>4 DEF RowsOK
<1>7. Accepted' = Accepted \cup {i}
  BY <1>1, <1>2, <1>5 DEF Accepted
<1> QED
  BY <1>1, <1>3, <1>4, <1>6, <1>7 DEF i, RowsOK

\* The handlers that write.
LEMMA WritesType == ASSUME TypeInv, NEW j \in Job, Writes(j) PROVE TypeInv'
<1>0. RowsOK /\ JobsOK /\ SweepOK /\ SlipsOK /\ JobsFit /\ KnownBidders
  BY TypeParts DEF TypeInv
<1>s. ASSUME sweep' = sweep PROVE SweepOK'
  BY <1>0, <1>s DEF SweepOK
<1>c. ASSUME NEW c \in BOOLEAN, Checked(c) PROVE SlipsOK'
  BY <1>0, <1>c, SlipType DEF Checked
<1>b. ASSUME bid' = bid, bidder' = bidder
      PROVE  BidsOn' = BidsOn /\ KnownBidders'
  BY <1>0, <1>b DEF BidsOn, KnownBidders
<1>1. CASE PlaceBid(j)
  <2>1. RowsOK'
    BY <1>0, <1>1, PlaceBidEffect DEF PlaceBid, RowsOK, JobsOK, Task, invVars,
                                      payVars
  <2>2. JobsOK' /\ JobsFit'
    <3> DEFINE t == [job[j] EXCEPT !.op = "greet"]
    <3>1. t \in Task /\ t.op = "greet" /\ t.who = job[j].who
      BY <1>0 DEF JobsOK, Task, Ops
    <3>2. job' = [job EXCEPT ![j] = t]
      BY <1>1 DEF PlaceBid, Turn
    <3> HIDE DEF t
    <3>3. t.who \in Engineer /\ BidsOn \subseteq BidsOn' /\ pay' = pay
      BY <1>0, <1>1, <3>1, PlaceBidEffect DEF PlaceBid, JobsFit, payVars
    <3> QED
      BY <3>1, <3>2, <3>3, JobChanges
  <2>3. SlipsOK' /\ SweepOK'
    <3>1. MayBid(job[j].who) \in BOOLEAN
      BY DEF MayBid
    <3> QED
      BY <1>1, <1>s, <1>c, <3>1 DEF PlaceBid
  <2> QED
    BY <1>1, <2>1, <2>2, <2>3, PlaceBidEffect, TypeNext
<1>g. CASE Greet(j)
  <2>1. RowsOK'
    BY <1>0, <1>g DEF Greet, JobsFit, RowsOK, bidVars, invVars, payVars
  <2>2. BidsOn' = BidsOn /\ KnownBidders' /\ pay' = pay
    BY <1>g, <1>b DEF Greet, bidVars, payVars
  <2>3. JobsOK' /\ JobsFit'
    BY <1>g, <2>2, DoneFits DEF Greet
  <2>4. SlipsOK' /\ SweepOK'
    BY <1>0, <1>g, <1>s DEF Greet, SlipsOK
  <2> QED
    BY <2>1, <2>2, <2>3, <2>4, TypeNext
<1>2. CASE Approve(j)
  <2>1. RowsOK'
    BY <1>0, <1>2, ApproveEffect DEF Approve, RowsOK, invVars, payVars
  <2>2. JobsOK' /\ JobsFit'
    <3> DEFINE t == [job[j] EXCEPT !.op = "link"]
    <3>1. t \in Task /\ t.op = "link" /\ t.row = job[j].row
      BY <1>0 DEF JobsOK, Task, Ops
    <3>2. job' = [job EXCEPT ![j] = t]
      BY <1>2 DEF Approve, Turn
    <3> HIDE DEF t
    <3>3. t.row \in BidsOn /\ BidsOn' = BidsOn /\ pay' = pay
      BY <1>2, <3>1, ApproveEffect DEF Approve, payVars
    <3> QED
      BY <3>1, <3>2, <3>3, JobChanges
  <2>3. SlipsOK' /\ SweepOK'
    <3>1. MayApprove(job[j].row) \in BOOLEAN
      BY DEF MayApprove
    <3> QED
      BY <1>2, <1>s, <1>c, <3>1 DEF Approve
  <2>4. KnownBidders'
    BY <1>0, <1>2, ApproveEffect DEF Approve, KnownBidders
  <2> QED
    BY <2>1, <2>2, <2>3, <2>4, TypeNext
<1>3. CASE Link(j)
  <2>1. job[j].row \in BidsOn /\ job[j].row \in Bid
    BY <1>0, <1>3 DEF Link, JobsFit, BidsOn
  <2>2. RowsOK'
    BY <1>0, <1>3, <2>1 DEF Link, RowsOK, bidVars, invVars, payVars
  <2>3. BidsOn' = BidsOn /\ KnownBidders' /\ pay' = pay
    BY <1>3, <1>b DEF Link, bidVars, payVars
  <2>4. JobsOK' /\ JobsFit'
    BY <1>3, <2>3, DoneFits DEF Link
  <2>5. SlipsOK' /\ SweepOK'
    <3>1. (job[j].row \in AcceptedBids) \in BOOLEAN
      OBVIOUS
    <3> QED
      BY <1>3, <1>s, <1>c, <3>1 DEF Link
  <2> QED
    BY <2>2, <2>3, <2>4, <2>5, TypeNext
<1>4. CASE Invite(j)
  <2>1. RowsOK'
    BY <1>0, <1>4, InviteEffect DEF Invite, RowsOK, bidVars, payVars
  <2>2. BidsOn' = BidsOn /\ KnownBidders' /\ pay' = pay
    BY <1>4, <1>b DEF Invite, bidVars, payVars
  <2>3. JobsOK' /\ JobsFit'
    BY <1>4, <2>2, DoneFits DEF Invite
  <2>4. SlipsOK' /\ SweepOK'
    <3>1. MayInvite(job[j].who) \in BOOLEAN
      BY DEF MayInvite
    <3> QED
      BY <1>4, <1>s, <1>c, <3>1 DEF Invite
  <2> QED
    BY <2>1, <2>2, <2>3, <2>4, TypeNext
<1>5. ASSUME NEW s \in {"DECLINED", "CANCELLED", "EXPIRED"},
             job[j].op \in {"decline", "cancel", "expire"},
             SetInvitation(job[j].row, s), Done(j), NEW c \in BOOLEAN, Checked(c),
             UNCHANGED << project, bidVars, payVars, talk, sweep >>
      PROVE  TypeInv'
  <2>1. job[j].row \in Invitation
    BY <1>0, <1>5 DEF JobsFit
  <2>2. RowsOK'
    BY <1>0, <1>5, <2>1, SetInvitationType DEF RowsOK, bidVars, payVars
  <2>3. BidsOn' = BidsOn /\ KnownBidders' /\ pay' = pay
    BY <1>5, <1>b DEF bidVars, payVars
  <2>4. JobsOK' /\ JobsFit'
    BY <1>5, <2>3, DoneFits
  <2>5. SlipsOK' /\ SweepOK'
    BY <1>5, <1>s, <1>c
  <2> QED
    BY <2>2, <2>3, <2>4, <2>5, TypeNext
<1>6. CASE Decline(j)
  BY <1>5, <1>6 DEF Decline
<1>7. CASE Cancel(j)
  <2>1. MayCancel(job[j].row) \in BOOLEAN
    BY DEF MayCancel
  <2> QED
    BY <1>5, <1>7, <2>1 DEF Cancel
<1>8. CASE Expire(j)
  <2>1. MayExpire(job[j].row) \in BOOLEAN
    BY DEF MayExpire
  <2> QED
    BY <1>5, <1>8, <2>1 DEF Expire
<1>9. CASE AcceptCheck(j)
  <2>1. RowsOK' /\ SlipsOK' /\ SweepOK'
    BY <1>0, <1>9 DEF AcceptCheck, rowVars, bidVars, invVars, payVars, RowsOK,
                      SlipsOK, SweepOK
  <2>2. BidsOn' = BidsOn /\ KnownBidders' /\ pay' = pay
    BY <1>9, <1>b DEF AcceptCheck, rowVars, bidVars, payVars
  <2>3. JobsOK' /\ JobsFit'
    <3> DEFINE t == [job[j] EXCEPT !.op = "accepting"]
    <3>1. t \in Task /\ t.op = "accepting" /\ t.row = job[j].row
      BY <1>0 DEF JobsOK, Task, Ops
    <3>2. job' = [job EXCEPT ![j] = t]
      BY <1>9 DEF AcceptCheck, Turn
    <3>3. job[j].row \in Invitation
      BY <1>0, <1>9 DEF AcceptCheck, JobsFit
    <3> HIDE DEF t
    <3> QED
      BY <2>2, <3>1, <3>2, <3>3, JobChanges
  <2> QED
    BY <2>1, <2>2, <2>3, TypeNext
<1>10. CASE Accept(j)
  <2>1. RowsOK'
    <3>1. talk' \in Engineer \cup {NoOne}
      BY <1>0, <1>10, AcceptEffect DEF Accept, RowsOK
    <3>2. project' = "AWAITING_PAYMENT"
          /\ UNCHANGED << bidVars, invitee, payVars, sweep >>
      BY <1>10 DEF Accept
    <3> QED
      BY <1>0, <1>10, <3>1, <3>2, AcceptEffect DEF RowsOK, bidVars, payVars
  <2>2. BidsOn' = BidsOn /\ KnownBidders' /\ pay' = pay
    BY <1>10, <1>b DEF Accept, bidVars, payVars
  <2>3. JobsOK' /\ JobsFit'
    BY <1>10, <2>2, DoneFits DEF Accept
  <2>4. SlipsOK' /\ SweepOK'
    BY <1>0, <1>10, <1>s DEF Accept, Slip, SlipsOK
  <2> QED
    BY <2>1, <2>2, <2>3, <2>4, TypeNext
<1>11. CASE Edit(j)
  <2>1. job[j].to \in {"KEEP", "OPEN", "CLOSED"}
    BY <1>0 DEF JobsOK, Task
  <2>2. RowsOK'
    BY <1>0, <1>11, <2>1 DEF Edit, RowsOK, invVars, payVars, BidsOn
  <2>3. BidsOn' = BidsOn /\ KnownBidders' /\ pay' = pay
    BY <1>11, <1>b DEF Edit, payVars
  <2>4. JobsOK' /\ JobsFit'
    BY <1>11, <2>3, DoneFits DEF Edit
  <2>5. SlipsOK' /\ SweepOK'
    <3>1. MayEdit(job[j].flag, job[j].to) \in BOOLEAN
      BY DEF MayEdit
    <3> QED
      BY <1>11, <1>s, <1>c, <3>1 DEF Edit
  <2> QED
    BY <2>2, <2>3, <2>4, <2>5, TypeNext
<1>12. CASE Delete(j)
  <2>1. RowsOK'
    BY <1>0, <1>12 DEF Delete, RowsOK, bidVars, payVars
  <2>2. BidsOn' = BidsOn /\ KnownBidders' /\ pay' = pay
    BY <1>12, <1>b DEF Delete, bidVars, payVars
  <2>3. JobsOK' /\ JobsFit'
    BY <1>12, <2>2, DoneFits DEF Delete
  <2>4. SlipsOK' /\ SweepOK'
    <3>1. MayDelete \in BOOLEAN
      BY DEF MayDelete
    <3> QED
      BY <1>12, <1>s, <1>c, <3>1 DEF Delete
  <2> QED
    BY <2>1, <2>2, <2>3, <2>4, TypeNext
<1>13. CASE Checkout(j)
  <2>1. payee' \in Engineer
    BY <1>0, <1>13 DEF Checkout, Payee, JobsFit, RowsOK
  <2>2. RowsOK'
    BY <1>0, <1>13, <2>1 DEF Checkout, RowsOK, bidVars, invVars
  <2>3. BidsOn' = BidsOn /\ KnownBidders' /\ pay' = "PENDING"
    BY <1>13, <1>b DEF Checkout, bidVars
  <2>4. JobsOK' /\ JobsFit'
    BY <1>13, <2>3, DoneFits DEF Checkout
  <2>5. SlipsOK' /\ SweepOK'
    <3>1. MayCheckout(job[j].who) \in BOOLEAN
      BY DEF MayCheckout
    <3> QED
      BY <1>13, <1>s, <1>c, <3>1 DEF Checkout
  <2> QED
    BY <2>2, <2>3, <2>4, <2>5, TypeNext
<1>14. CASE Abandon(j)
  <2>1. RowsOK' /\ SlipsOK' /\ SweepOK'
    BY <1>0, <1>14 DEF Abandon, rowVars, bidVars, invVars, payVars, RowsOK,
                       Slip, SlipsOK, SweepOK
  <2>2. BidsOn' = BidsOn /\ KnownBidders' /\ pay' = pay
    BY <1>14, <1>b DEF Abandon, rowVars, bidVars, payVars
  <2>3. JobsOK' /\ JobsFit'
    BY <1>14, <2>2, DoneFits DEF Abandon
  <2> QED
    BY <2>1, <2>2, <2>3, TypeNext
<1> QED
  BY <1>1, <1>g, <1>2, <1>3, <1>4, <1>6, <1>7, <1>8, <1>9, <1>10, <1>11,
     <1>12, <1>13, <1>14 DEF Writes

\* The sweep.
LEMMA SweepType == ASSUME TypeInv, Sweep PROVE TypeInv'
<1>0. RowsOK /\ JobsOK /\ SweepOK /\ SlipsOK /\ JobsFit /\ KnownBidders
  BY TypeParts DEF TypeInv
<1>1. ASSUME UNCHANGED << bidVars, payVars, job >>
      PROVE  JobsOK' /\ JobsFit' /\ KnownBidders'
  BY <1>0, <1>1 DEF bidVars, payVars, JobsOK, JobsFit, KnownBidders, BidsOn
<1>2. ASSUME UNCHANGED << rowVars, job, slips >>, SweepOK'
      PROVE  TypeInv'
  <2>1. RowsOK' /\ SlipsOK'
    BY <1>0, <1>2 DEF rowVars, bidVars, invVars, payVars, RowsOK, SlipsOK
  <2>2. UNCHANGED << bidVars, payVars, job >>
    BY <1>2 DEF rowVars
  <2> QED
    BY <1>1, <1>2, <2>1, <2>2, TypeNext
<1>3. CASE SweepStart
  <2>1. SweepOK'
    BY <1>3 DEF SweepStart, Sweeps, SweepOK
  <2> QED
    BY <1>2, <1>3, <2>1 DEF SweepStart
<1>4. CASE SweepList
  <2>1. SweepOK'
    BY <1>4 DEF SweepList, Sweeps, SweepOK, Accepted
  <2> QED
    BY <1>2, <1>4, <2>1 DEF SweepList
<1>5. CASE SweepEnd
  <2>1. SweepOK'
    BY <1>5 DEF SweepEnd, Sweeps, SweepOK
  <2> QED
    BY <1>2, <1>5, <2>1 DEF SweepEnd
<1>6. ASSUME NEW i \in Invitation, SweepExpire(i) PROVE TypeInv'
  <2>1. RowsOK'
    BY <1>0, <1>6, SetInvitationType DEF SweepExpire, RowsOK, bidVars, payVars
  <2>2. SweepOK'
    BY <1>0, <1>6 DEF SweepExpire, Sweeps, SweepOK
  <2>3. SlipsOK'
    <3>1. MayExpire(i) \in BOOLEAN
      BY DEF MayExpire
    <3> QED
      BY <1>0, <1>6, <3>1, SlipType DEF SweepExpire, Checked
  <2>4. UNCHANGED << bidVars, payVars, job >>
    BY <1>6 DEF SweepExpire
  <2> QED
    BY <1>1, <2>1, <2>2, <2>3, <2>4, TypeNext
<1>7. ASSUME NEW i \in Invitation, SweepLapse(i) PROVE TypeInv'
  <2>1. RowsOK'
    BY <1>0, <1>7, SetInvitationType
       DEF SweepLapse, LapseRow, RowsOK, bidVars, payVars
  <2>2. SweepOK'
    BY <1>0, <1>7 DEF SweepLapse, Sweeps, SweepOK
  <2>3. SlipsOK'
    BY <1>0, <1>7 DEF SweepLapse, Slip, SlipsOK
  <2>4. UNCHANGED << bidVars, payVars, job >>
    BY <1>7 DEF SweepLapse
  <2> QED
    BY <1>1, <2>1, <2>2, <2>3, <2>4, TypeNext
<1> QED
  BY <1>3, <1>4, <1>5, <1>6, <1>7 DEF Sweep

\* Shapes, and what handlers hold.
LEMMA Typed == Spec => []TypeInv
<1>1. Init => TypeInv
  <2> SUFFICES ASSUME Init PROVE TypeInv
    OBVIOUS
  <2>1. RowsOK /\ SweepOK /\ SlipsOK
    BY DEF Init, RowsOK, SweepOK, SlipsOK
  <2>2. JobsOK /\ \A j \in Job : job[j].op = "idle"
    BY IdleTask DEF Init, JobsOK
  <2>3. BidsOn = {}
    BY DEF Init, BidsOn
  <2>4. JobsFit /\ KnownBidders
    BY <2>2, <2>3 DEF JobsFit, KnownBidders
  <2> QED
    BY <2>1, <2>2, <2>4, TypeParts DEF TypeInv
<1>2. TypeInv /\ [Next]_vars => TypeInv'
  <2> SUFFICES ASSUME TypeInv, [Next]_vars PROVE TypeInv'
    OBVIOUS
  <2>0. RowsOK /\ JobsOK /\ SweepOK /\ SlipsOK /\ JobsFit /\ KnownBidders
    BY TypeParts DEF TypeInv
  <2>1. ASSUME NEW j \in Job, Reads(j) \/ Writes(j) PROVE TypeInv'
    BY <2>1, ReadsType, WritesType
  <2>2. ASSUME UNCHANGED << bidVars, job, sweep, slips >>,
               pay # "NONE" => pay' # "NONE", RowsOK'
        PROVE  TypeInv'
    <3>1. JobsOK' /\ JobsFit' /\ KnownBidders' /\ SweepOK' /\ SlipsOK'
      BY <2>0, <2>2 DEF bidVars, JobsOK, JobsFit, KnownBidders, BidsOn, SweepOK,
                        SlipsOK
    <3> QED
      BY <2>2, <3>1, TypeNext
  <2>3. CASE HandIn \/ TurnDown
    <3>1. RowsOK' /\ pay' = pay
      BY <2>0, <2>3 DEF HandIn, TurnDown, RowsOK, bidVars, invVars
    <3> QED
      BY <2>2, <2>3, <3>1 DEF HandIn, TurnDown
  <2>4. CASE Fund
    <3>1. RowsOK' /\ pay' = "FUNDED"
      BY <2>0, <2>4 DEF Fund, RowsOK, bidVars, invVars
    <3> QED
      BY <2>2, <2>4, <3>1 DEF Fund
  <2>5. ASSUME NEW i \in Invitation, Age(i) PROVE TypeInv'
    <3>1. RowsOK' /\ pay' = pay
      BY <2>0, <2>5 DEF Age, RowsOK, bidVars, payVars
    <3> QED
      BY <2>2, <2>5, <3>1 DEF Age
  <2>6. CASE UNCHANGED vars
    <3>1. RowsOK' /\ pay' = pay
      BY <2>0, <2>6 DEF vars, rowVars, bidVars, invVars, payVars, RowsOK
    <3> QED
      BY <2>2, <2>6, <3>1 DEF vars, rowVars
  <2> QED
    BY <2>1, <2>3, <2>4, <2>5, <2>6, SweepType DEF Next
<1> QED
  BY <1>1, <1>2, PTL DEF Spec

\* Every variable keeps its shape.
THEOREM HiringTypes == Spec => []TypeOK
  BY Typed, PTL DEF TypeInv

-----------------------------------------------------------------------------
(* Who is hired *)

\* No row that matters changes, and no handler that is to link is given up
\* unnoticed.
LEMMA Quiet ==
    ASSUME HireInv, slips \subseteq slips',
           UNCHANGED << project, outdated, AcceptedBids, Accepted, pay, payee,
                        talk >>,
           \A b \in AcceptedBids : bidder'[b] = bidder[b],
           \A i \in Accepted : invitee'[i] = invitee[i],
           "cut" \notin slips' => \A b : Linking(b) => Linking(b)'
    PROVE  HireInv'
<1>1. Hired' = Hired
  BY DEF Hired
<1>2. OneBid' /\ Tidy' /\ Waits'
  BY DEF HireInv, OneBid, Tidy, Waits, InTime, NoRace, Seeking
<1>4. Named'
  BY <1>1 DEF HireInv, Named, InTime, NoRace, Seeking
<1>5. Talks'
  <2> SUFFICES ASSUME NoRace', "cut" \notin slips', NEW b \in AcceptedBids'
               PROVE  talk' = bidder'[b] \/ Linking(b)'
    BY DEF Talks
  <2>1. NoRace /\ "cut" \notin slips /\ b \in AcceptedBids
    BY DEF NoRace
  <2>2. talk = bidder[b] \/ Linking(b)
    BY <2>1 DEF HireInv, Talks
  <2> QED
    BY <2>1, <2>2
<1> QED
  BY <1>2, <1>4, <1>5 DEF HireInv

\* Handlers that are not to link leave those that are.
LEMMA LinkersStay ==
    ASSUME TypeInv, NEW j \in Job, job[j].op # "link",
           \A k \in Job \ {j} : job'[k] = job[k], NEW b, Linking(b)
    PROVE  Linking(b)'
BY DEF Linking

LEMMA OthersStay ==
    ASSUME JobsOK, NEW j \in Job, Done(j) \/ (\E op \in Ops : Turn(j, op))
    PROVE  \A k \in Job \ {j} : job'[k] = job[k]
BY DEF JobsOK, Done, Turn
LEMMA BegunStay ==
    ASSUME JobsOK, NEW j \in Job, NEW t, Begin(j, t)
    PROVE  \A k \in Job \ {j} : job'[k] = job[k]
BY DEF JobsOK, Begin

\* Handlers that begin touch no row.
LEMMA ReadsHire == ASSUME TypeInv, HireInv, NEW j \in Job, Reads(j)
                   PROVE  HireInv'
<1>1. ASSUME NEW t, Begin(j, t) PROVE HireInv'
  <2>1. UNCHANGED << rowVars, slips >> /\ job[j] = Idle
    BY <1>1 DEF Begin
  <2>2. \A b : Linking(b) => Linking(b)'
    BY <1>1, <2>1, IdleTask, TypeParts, BegunStay, LinkersStay DEF TypeInv
  <2>3. UNCHANGED << project, outdated, AcceptedBids, Accepted, pay, payee, talk,
                     bidder, invitee >>
    BY <2>1 DEF rowVars, bidVars, invVars, payVars, AcceptedBids, Accepted
  <2> QED
    BY <2>1, <2>2, <2>3, Quiet
<1>2. \E t : Begin(j, t)
  BY DEF Reads, BidRead, OpenChat, InviteRead, CheckoutRead, ApproveRead,
         RespondRead, CancelRead, ExpireRead, EditRead, DeleteRead
<1> QED
  BY <1>1, <1>2

\* An update that ends a pending invitation, or races.
LEMMA EndsPending ==
    ASSUME TypeInv, HireInv, NEW i \in Invitation,
           NEW s \in {"DECLINED", "CANCELLED", "EXPIRED"}, SetInvitation(i, s),
           slips \subseteq slips', "race" \in slips' \/ inv[i] = "PENDING",
           UNCHANGED << project, bidVars, payVars, talk >>,
           \A b : Linking(b) => Linking(b)'
    PROVE  HireInv'
<1>1. UNCHANGED << project, outdated, AcceptedBids, pay, payee, talk, bidder,
                   invitee >>
  BY DEF bidVars, payVars, AcceptedBids, SetInvitation
<1>2. CASE inv[i] = "PENDING"
  <2>1. Accepted' = Accepted
    BY <1>2, SetInvitationType, TypeParts DEF TypeInv, Accepted
  <2> QED
    BY <1>1, <2>1, Quiet
<1>3. CASE "race" \in slips'
  BY <1>1, <1>3
     DEF HireInv, OneBid, Tidy, Waits, Named, Talks, InTime, NoRace
<1> QED
  BY <1>2, <1>3

\* The handlers that write.
LEMMA WritesHire == ASSUME TypeInv, HireInv, NEW j \in Job, Writes(j)
                    PROVE  HireInv'
<1>0. RowsOK /\ JobsOK /\ SweepOK /\ SlipsOK /\ JobsFit /\ KnownBidders
  BY TypeParts DEF TypeInv
<1>r. \A b \in AcceptedBids : b \in BidsOn /\ b \in Bid
  BY DEF AcceptedBids, BidsOn
<1>l. ASSUME job[j].op # "link", Done(j) \/ (\E op \in Ops : Turn(j, op))
      PROVE  \A b : Linking(b) => Linking(b)'
  BY <1>0, <1>l, OthersStay, LinkersStay
<1>1. CASE PlaceBid(j)
  <2>1. /\ AcceptedBids' = AcceptedBids /\ Accepted' = Accepted
        /\ \A b \in AcceptedBids : bidder'[b] = bidder[b]
    BY <1>1, <1>r, PlaceBidEffect DEF PlaceBid, invVars, Accepted
  <2>2. UNCHANGED << project, outdated, pay, payee, talk, invitee >>
    BY <1>1 DEF PlaceBid, invVars, payVars
  <2>3. slips \subseteq slips'
    BY <1>1 DEF PlaceBid, Checked, Slip
  <2>4. \A b : Linking(b) => Linking(b)'
    BY <1>1, <1>l DEF PlaceBid, Ops
  <2> QED
    BY <2>1, <2>2, <2>3, <2>4, Quiet
<1>g. CASE Greet(j)
  <2>1. /\ AcceptedBids' = AcceptedBids /\ Accepted' = Accepted
        /\ UNCHANGED << project, outdated, pay, payee, bidder, invitee, slips >>
    BY <1>g DEF Greet, bidVars, invVars, payVars, AcceptedBids, Accepted
  <2>2. \A b : Linking(b) => Linking(b)'
    BY <1>g, <1>l DEF Greet
  <2>3. CASE talk # NoOne
    <3>1. talk' = talk
      BY <1>g, <2>3 DEF Greet
    <3> QED
      BY <2>1, <2>2, <3>1, Quiet
  <2>4. CASE talk = NoOne
    <3>1. Hired' = Hired
      BY <2>1 DEF Hired
    <3>2. OneBid' /\ Tidy' /\ Waits' /\ Named'
      BY <2>1, <3>1
         DEF HireInv, OneBid, Tidy, Waits, Named, InTime, NoRace,
             Seeking
    <3>3. \A b \in AcceptedBids : bidder[b] # NoOne
      BY <1>0, <1>r, NamesAssumption DEF KnownBidders
    <3>4. Talks'
      BY <2>1, <2>2, <2>4, <3>3 DEF HireInv, Talks, NoRace
    <3> QED
      BY <3>2, <3>4 DEF HireInv
  <2> QED
    BY <2>3, <2>4
<1>2. CASE Approve(j)
  <2> DEFINE b == job[j].row
  <2>1. AcceptedBids' = {b} /\ project' = "IN_PROGRESS" /\ Accepted' = Accepted
    BY <1>2, ApproveEffect DEF Approve, invVars, Accepted
  <2>2. UNCHANGED << outdated, pay, payee, talk, bidder, invitee >>
    BY <1>2 DEF Approve, invVars, payVars
  <2>3. slips \subseteq slips' /\ (NoRace' => MayApprove(b))
    BY <1>2 DEF Approve, Checked, Slip, NoRace
  <2>4. \A x \in {b} : Linking(x)'
    <3>1. job'[j].op = "link" /\ job'[j].row = b
      BY <1>0, <1>2 DEF Approve, Turn, JobsOK, Task
    <3> QED
      BY <3>1 DEF Linking
  <2> HIDE DEF b
  <2>5. OneBid' /\ Waits' /\ Talks'
    <3>1. OneBid' /\ Waits'
      BY <2>1 DEF OneBid, Waits
    <3>3. Talks'
      BY <2>1, <2>4 DEF Talks
    <3> QED
      BY <3>1, <3>3
  <2>6. Tidy'
    BY <2>1, <2>3 DEF HireInv, Tidy, InTime, NoRace, Seeking, MayApprove
  <2>7. Named'
    BY <2>1, <2>2, <2>3
       DEF HireInv, Named, InTime, NoRace, Seeking, MayApprove
  <2> QED
    BY <2>5, <2>6, <2>7 DEF HireInv
<1>3. CASE Link(j)
  <2> DEFINE b == job[j].row
  <2>1. UNCHANGED << project, outdated, AcceptedBids, Accepted, pay, payee,
                     bidder, invitee >>
    BY <1>3 DEF Link, bidVars, invVars, payVars, AcceptedBids, Accepted
  <2>2. slips \subseteq slips' /\ (NoRace' => b \in AcceptedBids)
    BY <1>3 DEF Link, Checked, Slip, NoRace
  <2>3. talk' = bidder[b]
    BY <1>3 DEF Link
  <2> HIDE DEF b
  <2>4. Hired' = Hired
    BY <2>1 DEF Hired
  <2>5. OneBid' /\ Tidy' /\ Waits' /\ Named'
    BY <2>1, <2>2, <2>4
       DEF HireInv, OneBid, Tidy, Waits, Named, InTime, NoRace, Seeking
  <2>6. Talks'
    BY <2>1, <2>2, <2>3 DEF HireInv, OneBid, Talks
  <2> QED
    BY <2>5, <2>6 DEF HireInv
<1>4. CASE Invite(j)
  <2>1. Accepted' = Accepted /\ \A i \in Accepted : invitee'[i] = invitee[i]
    BY <1>4, InviteEffect
  <2>2. UNCHANGED << project, outdated, AcceptedBids, pay, payee, talk, bidder >>
    BY <1>4 DEF Invite, bidVars, payVars, AcceptedBids
  <2>3. slips \subseteq slips'
    BY <1>4 DEF Invite, Checked, Slip
  <2>4. \A b : Linking(b) => Linking(b)'
    BY <1>4, <1>l DEF Invite
  <2> QED
    BY <2>1, <2>2, <2>3, <2>4, Quiet
<1>5. CASE Decline(j)
  <2>1. slips \subseteq slips'
        /\ ("race" \in slips' \/ inv[job[j].row] = "PENDING")
    BY <1>5 DEF Decline, Checked, Slip
  <2>2. \A b : Linking(b) => Linking(b)'
    BY <1>5, <1>l DEF Decline
  <2>3. job[j].row \in Invitation
    BY <1>0, <1>5 DEF Decline, JobsFit
  <2> QED
    BY <1>5, <2>1, <2>2, <2>3, EndsPending DEF Decline
<1>6. CASE Cancel(j)
  <2>1. slips \subseteq slips'
        /\ ("race" \in slips' \/ inv[job[j].row] = "PENDING")
    BY <1>6 DEF Cancel, Checked, Slip, MayCancel, Pending
  <2>2. \A b : Linking(b) => Linking(b)'
    BY <1>6, <1>l DEF Cancel
  <2>3. job[j].row \in Invitation
    BY <1>0, <1>6 DEF Cancel, JobsFit
  <2> QED
    BY <1>6, <2>1, <2>2, <2>3, EndsPending DEF Cancel
<1>7. CASE Expire(j)
  <2>1. slips \subseteq slips'
        /\ ("race" \in slips' \/ inv[job[j].row] = "PENDING")
    BY <1>7 DEF Expire, Checked, Slip, MayExpire, Pending
  <2>2. \A b : Linking(b) => Linking(b)'
    BY <1>7, <1>l DEF Expire
  <2>3. job[j].row \in Invitation
    BY <1>0, <1>7 DEF Expire, JobsFit
  <2> QED
    BY <1>7, <2>1, <2>2, <2>3, EndsPending DEF Expire
<1>8. CASE AcceptCheck(j)
  <2>1. \A b : Linking(b) => Linking(b)'
    BY <1>8, <1>l DEF AcceptCheck, Ops
  <2>2. UNCHANGED << project, outdated, AcceptedBids, Accepted, pay, payee, talk,
                     bidder, invitee, slips >>
    BY <1>8 DEF AcceptCheck, rowVars, bidVars, invVars, payVars, AcceptedBids,
                Accepted
  <2> QED
    BY <2>1, <2>2, Quiet
<1>9. CASE Accept(j)
  <2> DEFINE i == job[j].row
  <2>1. Accepted' = Accepted \cup {i} /\ project' = "AWAITING_PAYMENT"
    BY <1>9, AcceptEffect DEF Accept
  <2>2. UNCHANGED << outdated, AcceptedBids, pay, payee, bidder, invitee >>
    BY <1>9 DEF Accept, bidVars, payVars, AcceptedBids
  <2>3. slips \subseteq slips' /\ (InTime' => Accepted = {} /\ Seeking)
    BY <1>9 DEF Accept, Slip, InTime, NoRace, Seeking
  <2>4. talk # NoOne => talk' = talk
    BY <1>9 DEF Accept
  <2>5. \A b : Linking(b) => Linking(b)'
    BY <1>9, <1>l DEF Accept
  <2> HIDE DEF i
  <2>6. OneBid' /\ Waits'
    BY <2>1, <2>2, <2>3 DEF HireInv, OneBid, Waits
  <2>7. Tidy'
    BY <2>1, <2>2, <2>3 DEF HireInv, Tidy, InTime, NoRace, Seeking
  <2>8. Named'
    BY <2>1, <2>2, <2>3 DEF HireInv, Named, InTime, NoRace
  <2>9. \A b \in AcceptedBids : bidder[b] # NoOne
    BY <1>0, <1>r, NamesAssumption DEF KnownBidders
  <2>10. Talks'
    BY <2>2, <2>3, <2>4, <2>5, <2>9 DEF HireInv, Talks, NoRace
  <2> QED
    BY <2>6, <2>7, <2>8, <2>10 DEF HireInv
<1>10. CASE Edit(j)
  <2>1. UNCHANGED << AcceptedBids, Accepted, pay, payee, talk, bidder, invitee >>
    BY <1>10 DEF Edit, invVars, payVars, AcceptedBids, Accepted
  <2>2. slips \subseteq slips'
        /\ (NoRace' => MayEdit(job[j].flag, job[j].to))
    BY <1>10 DEF Edit, Checked, Slip, NoRace
  <2>3. \A b : Linking(b) => Linking(b)'
    BY <1>10, <1>l DEF Edit
  <2>5. NoRace' => project' = project \/ (Seeking /\ Seeking')
    <3>1. job[j].to \in {"KEEP", "OPEN", "CLOSED"}
      BY <1>0 DEF JobsOK, Task
    <3>2. ASSUME NoRace', job[j].to # "KEEP" PROVE Seeking
      BY <2>2, <3>2 DEF MayEdit, EditTier, Seeking
    <3> QED
      BY <1>10, <3>1, <3>2 DEF Edit, Seeking
  <2>6. Hired' = Hired
    BY <2>1 DEF Hired
  <2>7. OneBid' /\ Tidy' /\ Waits'
    BY <2>1, <2>2, <2>5 DEF HireInv, OneBid, Tidy, Waits, InTime, NoRace, Seeking
  <2>8. Named'
    BY <2>1, <2>2, <2>5, <2>6 DEF HireInv, Named, InTime, NoRace, Seeking
  <2>9. Talks'
    BY <2>1, <2>2, <2>3 DEF HireInv, Talks, NoRace
  <2> QED
    BY <2>7, <2>8, <2>9 DEF HireInv
<1>11. CASE Delete(j)
  <2>1. project' = "GONE" /\ pay' = "NONE" /\ outdated' = outdated
    BY <1>11 DEF Delete, bidVars, payVars
  <2>2. Accepted' = {}
    BY <1>11 DEF Delete, Accepted
  <2>3. AcceptedBids' = {} /\ AcceptedBids = {}
    BY <1>11, <1>r DEF Delete, bidVars, AcceptedBids
  <2>4. slips \subseteq slips'
    BY <1>11 DEF Delete, Checked, Slip
  <2> QED
    BY <2>1, <2>2, <2>3, <2>4
       DEF HireInv, OneBid, Tidy, Waits, Named, Talks, Seeking
<1>12. CASE Checkout(j)
  <2>1. UNCHANGED << project, outdated, AcceptedBids, Accepted, talk, bidder,
                     invitee >>
    BY <1>12 DEF Checkout, bidVars, invVars, AcceptedBids, Accepted
  <2>2. slips \subseteq slips' /\ (NoRace' => MayCheckout(job[j].who))
    BY <1>12 DEF Checkout, Checked, Slip, NoRace
  <2>3. \A b : Linking(b) => Linking(b)'
    BY <1>12, <1>l DEF Checkout
  <2>4. Hired' = Hired
    BY <2>1 DEF Hired
  <2>5. OneBid' /\ Tidy' /\ Waits'
    BY <2>1, <2>2 DEF HireInv, OneBid, Tidy, Waits, InTime, NoRace,
                      Seeking
  <2>6. Talks'
    BY <2>1, <2>2, <2>3 DEF HireInv, Talks, NoRace
  <2>7. Named'
    <3>1. Agreed(job[j].who) => job[j].who \in Hired
      BY DEF Agreed, Hired
    <3>2. job[j].flag => pay # "NONE" /\ payee' = payee
      BY <1>0, <1>12 DEF Checkout, Payee, JobsFit
    <3>3. ~job[j].flag => payee' = job[j].who
      BY <1>12 DEF Checkout, Payee
    <3> QED
      BY <2>1, <2>2, <2>4, <3>1, <3>2, <3>3
         DEF HireInv, Named, InTime, NoRace, Seeking, MayCheckout
  <2> QED
    BY <2>5, <2>6, <2>7 DEF HireInv
<1>13. CASE Abandon(j)
  <2>1. UNCHANGED << project, outdated, AcceptedBids, Accepted, pay, payee, talk,
                     bidder, invitee >>
    BY <1>13 DEF Abandon, rowVars, bidVars, invVars, payVars, AcceptedBids,
                 Accepted
  <2>2. slips \subseteq slips' /\ ("cut" \in slips' \/ job[j].op # "link")
    BY <1>13 DEF Abandon, Slip
  <2>3. "cut" \notin slips' => \A b : Linking(b) => Linking(b)'
    BY <1>13, <1>l, <2>2 DEF Abandon
  <2> QED
    BY <2>1, <2>2, <2>3, Quiet
<1> QED
  BY <1>1, <1>g, <1>2, <1>3, <1>4, <1>5, <1>6, <1>7, <1>8, <1>9, <1>10, <1>11,
     <1>12, <1>13 DEF Writes

\* The sweep, what the scheduler and the client do besides, and time.
LEMMA SweepHire == ASSUME TypeInv, HireInv, Sweep PROVE HireInv'
<1>0. RowsOK
  BY TypeParts DEF TypeInv
<1>1. ASSUME UNCHANGED << rowVars, job, slips >> PROVE HireInv'
  <2>1. UNCHANGED << project, outdated, AcceptedBids, Accepted, pay, payee, talk,
                     bidder, invitee, slips >>
    BY <1>1 DEF rowVars, bidVars, invVars, payVars, AcceptedBids, Accepted
  <2>2. \A b : Linking(b) => Linking(b)'
    BY <1>1 DEF Linking
  <2> QED
    BY <2>1, <2>2, Quiet
<1>2. ASSUME NEW i \in Invitation, SweepExpire(i) PROVE HireInv'
  <2>1. slips \subseteq slips' /\ ("race" \in slips' \/ inv[i] = "PENDING")
    BY <1>2 DEF SweepExpire, Checked, Slip, MayExpire, Pending
  <2>2. \A b : Linking(b) => Linking(b)'
    BY <1>2 DEF SweepExpire, Linking
  <2> QED
    BY <1>2, <2>1, <2>2, EndsPending DEF SweepExpire
<1>3. ASSUME NEW i \in Invitation, SweepLapse(i) PROVE HireInv'
  <2>1. Accepted' = Accepted \ {i} /\ project' = "OPEN"
    BY <1>0, <1>3, SetInvitationType DEF SweepLapse, LapseRow
  <2>2. UNCHANGED << outdated, AcceptedBids, pay, payee, talk, bidder >>
    BY <1>3 DEF SweepLapse, bidVars, payVars, AcceptedBids
  <2>3. /\ slips \subseteq slips'
        /\ NoRace' => i \in Accepted /\ project = "AWAITING_PAYMENT"
        /\ NoRace' /\ "reopened" \notin slips' => pay = "NONE"
    BY <1>3 DEF SweepLapse, Slip, NoRace
  <2>4. \A b : Linking(b) => Linking(b)'
    BY <1>3 DEF SweepLapse, Linking
  <2>5. OneBid' /\ Waits'
    BY <2>1, <2>2, <2>3 DEF HireInv, OneBid, Waits
  <2>6. Tidy'
    BY <2>1, <2>2, <2>3 DEF HireInv, Tidy, InTime, NoRace
  <2>7. Named'
    BY <2>2, <2>3 DEF Named, InTime
  <2>8. Talks'
    BY <2>2, <2>3, <2>4 DEF HireInv, Talks, NoRace
  <2> QED
    BY <2>5, <2>6, <2>7, <2>8 DEF HireInv
<1> QED
  BY <1>1, <1>2, <1>3 DEF Sweep, SweepStart, SweepList, SweepEnd

\* The inductive invariant of the hiring.
THEOREM HireInvariance == Spec => []HireInv
<1>1. Init => HireInv
  <2> SUFFICES ASSUME Init PROVE HireInv
    OBVIOUS
  <2>1. AcceptedBids = {} /\ Accepted = {}
    BY DEF Init, AcceptedBids, Accepted
  <2> QED
    BY <2>1
       DEF Init, HireInv, OneBid, Tidy, Waits, Named, Talks, Seeking
<1>2. TypeInv /\ HireInv /\ [Next]_vars => HireInv'
  <2> SUFFICES ASSUME TypeInv, HireInv, [Next]_vars PROVE HireInv'
    OBVIOUS
  <2>1. ASSUME NEW j \in Job, Reads(j) \/ Writes(j) PROVE HireInv'
    BY <2>1, ReadsHire, WritesHire
  <2>2. ASSUME UNCHANGED << project, bidVars, inv, invitee, pay, payee, talk, job,
                            slips >>
        PROVE  HireInv'
    <3>1. UNCHANGED << project, outdated, AcceptedBids, Accepted, pay, payee,
                       talk, bidder, invitee, slips >>
      BY <2>2 DEF bidVars, AcceptedBids, Accepted
    <3>2. \A b : Linking(b) => Linking(b)'
      BY <2>2 DEF Linking
    <3> QED
      BY <3>1, <3>2, Quiet
  <2>3. CASE HandIn \/ TurnDown
    BY <2>2, <2>3 DEF HandIn, TurnDown, invVars
  <2>4. CASE Fund
    <3>1. /\ project' = "IN_PROGRESS" /\ pay # "NONE"
          /\ UNCHANGED << outdated, AcceptedBids, Accepted, payee, talk, bidder,
                          invitee, slips >>
      BY <2>4 DEF Fund, bidVars, invVars, AcceptedBids, Accepted
    <3>2. \A b : Linking(b) => Linking(b)'
      BY <2>4 DEF Fund, Linking
    <3>3. Hired' = Hired
      BY <3>1 DEF Hired
    <3>4. OneBid' /\ Tidy' /\ Waits'
      BY <3>1 DEF HireInv, OneBid, Tidy, Waits, InTime, NoRace, Seeking
    <3>5. Named'
      BY <3>1, <3>3 DEF HireInv, Named, InTime, NoRace, Seeking
    <3>6. Talks'
      BY <3>1, <3>2 DEF HireInv, Talks, NoRace
    <3> QED
      BY <3>4, <3>5, <3>6 DEF HireInv
  <2>5. ASSUME NEW i \in Invitation, Age(i) PROVE HireInv'
    BY <2>2, <2>5 DEF Age, payVars
  <2>6. CASE UNCHANGED vars
    BY <2>2, <2>6 DEF vars, rowVars, invVars, payVars
  <2> QED
    BY <2>1, <2>3, <2>4, <2>5, <2>6, SweepHire DEF Next
<1> QED
  BY <1>1, <1>2, Typed, PTL DEF Spec

-----------------------------------------------------------------------------
(* The properties of the run hiring *)

\* One or none, counted.
LEMMA AtMostOne ==
    ASSUME NEW S, \A x, y \in S : x = y PROVE Cardinality(S) <= 1
<1>1. CASE S = {}
  BY <1>1, FS_EmptySet
<1>2. CASE S # {}
  <2>1. PICK x \in S : TRUE
    BY <1>2
  <2>2. S = {x}
    BY <2>1
  <2> QED
    BY <2>2, FS_Singleton
<1> QED
  BY <1>1, <1>2

\* Overlapping approvals end with one accepted bid.
THEOREM BidsExclusive == Spec => []OneAcceptedBid
<1>1. HireInv => OneAcceptedBid
  BY AtMostOne DEF HireInv, OneBid, OneAcceptedBid
<1> QED
  BY <1>1, HireInvariance, PTL

\* One engineer is hired, by a bid or an invitation.
THEOREM OneIsHired == Spec => []OneHire
<1>1. HireInv => OneHire
  <2> SUFFICES ASSUME HireInv, slips \cap {"race", "late"} = {}
               PROVE  Cardinality(Hired) <= 1
    BY DEF OneHire
  <2>1. InTime
    BY DEF InTime, NoRace
  <2>2. \A x, y \in Hired : x = y
    BY <2>1 DEF HireInv, OneBid, Tidy, Hired
  <2> QED
    BY <2>2, AtMostOne
<1> QED
  BY <1>1, HireInvariance, PTL

\* Escrow is for an engineer who is hired.
THEOREM HiredIsPaid == Spec => []PayeeIsHired
<1>1. HireInv => PayeeIsHired
  <2> SUFFICES ASSUME HireInv, slips \cap {"race", "late", "reopened"} = {},
                      pay = "FUNDED"
               PROVE  payee \in Hired
    BY DEF PayeeIsHired
  <2>1. InTime /\ "reopened" \notin slips
    BY DEF InTime, NoRace
  <2> QED
    BY <2>1 DEF HireInv, Named
<1> QED
  BY <1>1, HireInvariance, PTL

\* A project that waits for its payment can be paid.
THEOREM WaitingIsPayable == Spec => []AwaitingCanPay
<1>1. HireInv => AwaitingCanPay
  BY DEF HireInv, Waits, AwaitingCanPay, NoRace, Hired
<1> QED
  BY <1>1, HireInvariance, PTL

\* The conversation of the project is with the engineer of the accepted bid.
THEOREM TalkFollowsHire == Spec => []TalkWithHired
<1>1. HireInv => TalkWithHired
  <2> SUFFICES ASSUME HireInv, slips \cap {"race", "cut"} = {}
               PROVE  \A b \in AcceptedBids : talk = bidder[b] \/ Linking(b)
    BY DEF TalkWithHired, Linking
  <2>1. NoRace /\ "cut" \notin slips
    BY DEF NoRace
  <2> QED
    BY <2>1 DEF HireInv, Talks
<1> QED
  BY <1>1, HireInvariance, PTL
===============================================================================
