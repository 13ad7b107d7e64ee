----------------------------- MODULE Registration -----------------------------
(***************************************************************************)
(* How one e-mail address becomes an account, and its owner an engineer    *)
(* who may bid: auth.service.ts, google.service.ts, the review of an       *)
(* application (updateEngineerVerification of admin.service.ts), the       *)
(* samples of user.service.ts, and the pages to which RegisterForm.tsx,    *)
(* AuthProvider.tsx and the callback of Google send the owner.             *)
(*                                                                         *)
(* Four handlers accept samples, each from other accounts; they read the   *)
(* account, and write later, some of them in two writes.                   *)
(***************************************************************************)
EXTENDS Integers

CONSTANTS
    Handler,        \* handlers that may be under way at the same time
    Enough,         \* MIN_ENGINEER_PORTFOLIO, 3 in the code
    MaxSamples      \* bound: samples of a profile

ASSUME SamplesAssumption ==
    Enough \in Nat \ {0} /\ MaxSamples \in Nat /\ Enough <= MaxSamples

VARIABLES
    role,       \* User.role, NONE without an account
    googleId,   \* the account is linked with Google
    status,     \* EngineerProfile.verificationStatus, NONE without a profile
    samples,    \* how many samples the profile has
    doing       \* what every handler is about to do

accountVars == << role, googleId, status, samples, doing >>

Complete(n) == n >= Enough          \* hasCompleteEngineerApplication

-----------------------------------------------------------------------------
(* What the handlers that take samples check *)

MayResume ==
    /\ role = "ENGINEER" /\ ~googleId
    /\ status = "PENDING" /\ ~Complete(samples)
MayApply == role = "CLIENT" /\ ~(status = "PENDING" /\ Complete(samples))
MayCompleteGoogle_M ==
    role = "ENGINEER" /\ googleId /\ status = "PENDING" /\ samples = 0
MayCompleteGoogle ==
    /\ role = "ENGINEER" /\ googleId
    /\ status = "PENDING" /\ ~Complete(samples)

(* The pages an account is sent to *)

\* checkRegistrationEmail, when the form asks about an address.
OffersResume ==
    /\ role = "ENGINEER" /\ ~googleId
    /\ status = "PENDING" /\ ~Complete(samples)

\* needsPortfolioUpload: whoever has signed in is kept on the third step of the
\* form, which hands its samples to completeGoogleEngineerRegistration.
KeptOnForm ==
    /\ role = "ENGINEER"
    /\ status = "NONE" \/ (status = "PENDING" /\ ~Complete(samples))

-----------------------------------------------------------------------------
(* Accounts.  The unique index on the address makes each of them one step. *)

Creates(r, google, s, n) ==
    /\ role = "NONE"
    /\ role' = r /\ googleId' = google /\ status' = s /\ samples' = n
    /\ UNCHANGED doing

\* registerClient, registerEngineer, and completeGoogleRegistration with
\* either role: Google's engineers bring their samples later.
RegisterClient == Creates("CLIENT", FALSE, "NONE", 0)
RegisterEngineer ==
    \E n \in Enough .. MaxSamples : Creates("ENGINEER", FALSE, "PENDING", n)
RegisterByGoogle ==
    \/ Creates("CLIENT", TRUE, "NONE", 0)
    \/ Creates("ENGINEER", TRUE, "PENDING", 0)

\* findGoogleUser: an account with the address is linked, except for a client
\* who asks to be an engineer, which is refused and changes nothing.
LinkGoogle ==
    /\ role # "NONE" /\ ~googleId
    /\ googleId' = TRUE
    /\ UNCHANGED << role, status, samples, doing >>

-----------------------------------------------------------------------------
(* Handlers with several steps *)

Rest == [op |-> "none", n |-> 0]
Sets(h, op, n) == doing' = [doing EXCEPT ![h] = [op |-> op, n |-> n]]
Starts(h, op, n) ==
    /\ doing[h] = Rest
    /\ Sets(h, op, n)
    /\ UNCHANGED << role, googleId, status, samples >>

\* resumeEngineerRegistration adds what was missing when it looked.
ResumeRead(h) == MayResume /\ Starts(h, "resume", Enough - samples)
ResumeWrite(h) ==
    /\ doing[h].op = "resume"
    /\ samples + doing[h].n <= MaxSamples
    /\ samples' = samples + doing[h].n
    /\ Sets(h, "none", 0)
    /\ UNCHANGED << role, googleId, status >>

\* applyClientAsEngineer and completeGoogleEngineerRegistration: the old
\* samples are deleted, then the profile is set PENDING with the new ones.
ApplyRead(h) ==
    \E n \in Enough .. MaxSamples :
        \/ /\ MayApply
           /\ Starts(h, IF status = "NONE" THEN "create" ELSE "clear", n)
        \/ MayCompleteGoogle /\ Starts(h, "clear", n)
Clear(h) ==
    /\ doing[h].op = "clear"
    /\ samples' = 0
    /\ Sets(h, "fill", doing[h].n)
    /\ UNCHANGED << role, googleId, status >>
Fill(h) ==
    /\ doing[h].op = "fill"
    /\ samples + doing[h].n <= MaxSamples
    /\ status' = "PENDING"
    /\ samples' = samples + doing[h].n
    /\ Sets(h, "none", 0)
    /\ UNCHANGED << role, googleId >>
CreateProfile(h) ==
    /\ doing[h].op = "create" /\ status = "NONE"
    /\ status' = "PENDING"
    /\ samples' = doing[h].n
    /\ Sets(h, "none", 0)
    /\ UNCHANGED << role, googleId >>

\* updateEngineerVerification; a client who is approved becomes an engineer.
ReviewRead(h) ==
    status = "PENDING" /\ Complete(samples) /\ Starts(h, "review", 0)
Promoted == IF role = "CLIENT" THEN "ENGINEER" ELSE role
Review(h, s) ==
    /\ doing[h].op = "review"
    /\ status' = s
    /\ role' = IF s = "APPROVED" THEN Promoted ELSE role
    /\ Sets(h, "none", 0)
    /\ UNCHANGED << googleId, samples >>

\* The handler throws, or the server stops.
Quit(h) ==
    /\ doing[h] # Rest
    /\ Sets(h, "none", 0)
    /\ UNCHANGED << role, googleId, status, samples >>

\* addPortfolioItem and deletePortfolioItem, at any time.
AddSample ==
    /\ status # "NONE" /\ samples < MaxSamples
    /\ samples' = samples + 1
    /\ UNCHANGED << role, googleId, status, doing >>
DeleteSample ==
    /\ samples > 0
    /\ samples' = samples - 1
    /\ UNCHANGED << role, googleId, status, doing >>

-----------------------------------------------------------------------------

RegistrationInit ==
    /\ role = "NONE" /\ googleId = FALSE
    /\ status = "NONE" /\ samples = 0
    /\ doing = [h \in Handler |-> Rest]

RegistrationNext ==
    \/ RegisterClient \/ RegisterEngineer \/ RegisterByGoogle \/ LinkGoogle
    \/ AddSample \/ DeleteSample
    \/ \E h \in Handler :
          \/ ResumeRead(h) \/ ResumeWrite(h)
          \/ ApplyRead(h) \/ Clear(h) \/ Fill(h) \/ CreateProfile(h)
          \/ ReviewRead(h) \/ Quit(h)
          \/ \E s \in {"APPROVED", "REJECTED"} : Review(h, s)

RegistrationSpec == RegistrationInit /\ [][RegistrationNext]_accountVars

-----------------------------------------------------------------------------
(* Properties *)

\* Every variable keeps its shape.
AccountTypeOK ==
    /\ role \in {"NONE", "CLIENT", "ENGINEER"}
    /\ googleId \in BOOLEAN
    /\ status \in {"NONE", "PENDING", "APPROVED", "REJECTED"}
    /\ samples \in 0 .. MaxSamples
    /\ doing \in [Handler -> [op : {"none", "resume", "create", "clear", "fill",
                                    "review"},
                              n : 0 .. MaxSamples]]

\* An engineer who is kept off every other page can hand in what is missing:
\* the form for those with Google, or the one his address leads to, takes it,
\* even if handlers overlapped or stopped halfway; and the one who is approved
\* has the role that bidding asks for.
UnfinishedCanFinish ==
    /\ KeptOnForm => MayCompleteGoogle \/ (OffersResume /\ MayResume)
    /\ status = "APPROVED" => role = "ENGINEER"

-----------------------------------------------------------------------------
(* What the code says and does not do *)

\* updateEngineerVerification tells the rejected: "You can update your
\* documents and apply again".
RejectedMayApply == status = "REJECTED" => MayApply
=============================================================================
