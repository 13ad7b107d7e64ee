----------------------------- MODULE Accounts_proof -----------------------------
(***************************************************************************)
(* Proofs about the two components of an account: Sessions, for any        *)
(* resolution of the clock, and Registration, for any number of handlers.  *)
(***************************************************************************)
EXTENDS Sessions, Registration, TLAPS

\* Every variable keeps its shape, and nothing is ahead of the clock.
SessionsTypeOK ==
    /\ now \in Nat /\ password \in Nat
    /\ revoking \in BOOLEAN /\ revoked \in Int
    /\ otp \in Int
    /\ \A t \in tokens : t.iat \in Int /\ t.iat <= now /\ t.of \in Int
    /\ checked \subseteq tokens
    /\ astray \in BOOLEAN

\* Once the new password is revoked for, the tokens of earlier ones are over;
\* those issued while it is being saved are older than the moment to come.
SessionsInv == SessionsTypeOK /\ SessionsFollowPassword

-----------------------------------------------------------------------------
(* Sessions *)

\* The clock of tokens is never ahead.
LEMMA SecondBefore ==
    ASSUME NEW t \in Nat PROVE Second(t) \in Int /\ Second(t) <= t
BY ClockAssumption DEF Second

\* A token more, none ahead of the clock.
LEMMA IssueType ==
    ASSUME SessionsTypeOK, NEW p \in Int, Issue(p), now' = now,
           checked' \subseteq checked
    PROVE  /\ \A t \in tokens' : t.iat \in Int /\ t.iat <= now' /\ t.of \in Int
           /\ checked' \subseteq tokens'
           /\ \A t \in tokens' : t \in tokens \/ t.of = p
<1>1. Second(now) \in Int /\ Second(now) <= now
  BY SecondBefore DEF SessionsTypeOK
<1> QED
  BY <1>1 DEF SessionsTypeOK, Issue

\* The inductive invariant of the sessions.
THEOREM SessionsInvariance == SessionsSpec => []SessionsInv
<1>1. SessionsInit => SessionsInv
  <2> SUFFICES ASSUME SessionsInit PROVE SessionsInv
    OBVIOUS
  <2>1. /\ now \in Nat /\ password \in Nat /\ revoked \in Int /\ otp \in Int
        /\ tokens = {} /\ checked = {}
    BY DEF SessionsInit, Never, NoCode
  <2>2. revoking \in BOOLEAN /\ astray \in BOOLEAN
    BY DEF SessionsInit
  <2> QED
    BY <2>1, <2>2 DEF SessionsInv, SessionsTypeOK, SessionsFollowPassword
<1>2. SessionsInv /\ [SessionsNext]_sessionVars => SessionsInv'
  <2> SUFFICES ASSUME SessionsInv, [SessionsNext]_sessionVars
               PROVE  SessionsTypeOK' /\ SessionsFollowPassword'
    BY DEF SessionsInv
  <2>0. SessionsTypeOK /\ SessionsFollowPassword
    BY DEF SessionsInv
  <2>1. CASE Tick \/ Login
    BY <2>0, <2>1 DEF Tick, Passes, Login, SessionsTypeOK,
                      SessionsFollowPassword, Rejected
  <2>2. CASE VerifyOtp
    <3>1. SessionsTypeOK'
      BY <2>0, <2>2, IssueType DEF VerifyOtp, SessionsTypeOK, NoCode
    <3>2. ASSUME ~astray', ~revoking', NEW t \in tokens', t.of < password'
          PROVE  Rejected(t)'
      <4>1. ~astray /\ otp = password
        BY <2>2, <3>2 DEF VerifyOtp
      <4>2. t \in tokens
        BY <2>0, <2>2, <3>2, <4>1, IssueType DEF VerifyOtp, SessionsTypeOK
      <4> QED
        BY <2>0, <2>2, <3>2, <4>1, <4>2
           DEF VerifyOtp, SessionsFollowPassword, Rejected
    <3> QED
      BY <3>1, <3>2 DEF SessionsFollowPassword
  <2>3. ASSUME NEW t \in tokens, Check(t) \/ GoOn(t)
        PROVE  SessionsTypeOK' /\ SessionsFollowPassword'
    BY <2>0, <2>3 DEF Check, GoOn, SessionsTypeOK, SessionsFollowPassword,
                      Rejected
  <2>4. ASSUME NEW t \in tokens, Renew(t)
        PROVE  SessionsTypeOK' /\ SessionsFollowPassword'
    <3>1. t.of \in Int
      BY <2>0 DEF SessionsTypeOK
    <3>2. SessionsTypeOK'
      BY <2>0, <2>4, <3>1, IssueType DEF Renew, SessionsTypeOK
    <3>3. ASSUME ~astray', ~revoking', NEW u \in tokens', u.of < password'
          PROVE  Rejected(u)'
      <4>1. ~astray /\ t.of = password
        BY <2>4, <3>3 DEF Renew
      <4>2. u \in tokens
        BY <2>0, <2>4, <3>1, <3>3, <4>1, IssueType DEF Renew, SessionsTypeOK
      <4> QED
        BY <2>0, <2>4, <3>3, <4>1, <4>2
           DEF Renew, SessionsFollowPassword, Rejected
    <3> QED
      BY <3>2, <3>3 DEF SessionsFollowPassword
  <2>5. CASE SavePassword
    BY <2>0, <2>5 DEF SavePassword, Passes, SessionsTypeOK,
                      SessionsFollowPassword
  <2>6. CASE RevokeAll
    <3>1. now' = now + 1 /\ revoked' = now + 1 /\ tokens' = tokens
          /\ password' = password
      BY <2>6 DEF RevokeAll, Passes, Moment
    <3>2. SessionsTypeOK'
      <4>1. revoking' \in BOOLEAN /\ astray' = astray /\ otp' = otp
            /\ checked' = checked
        BY <2>6 DEF RevokeAll
      <4> QED
        BY <2>0, <3>1, <4>1 DEF SessionsTypeOK
    <3>3. \A t \in tokens' : Rejected(t)'
      BY <2>0, <3>1 DEF SessionsTypeOK, Rejected
    <3> QED
      BY <3>2, <3>3 DEF SessionsFollowPassword
  <2>7. ASSUME NEW memory \in BOOLEAN, Restart(memory)
        PROVE  SessionsTypeOK' /\ SessionsFollowPassword'
    <3>1. SessionsTypeOK'
      <4>1. revoking' \in BOOLEAN /\ astray' \in BOOLEAN
        BY <2>7 DEF Restart
      <4>2. revoked' \in Int /\ otp' \in Int
        BY <2>0, <2>7 DEF Restart, SessionsTypeOK, Never, NoCode
      <4> QED
        BY <2>0, <2>7, <4>1, <4>2 DEF Restart, SessionsTypeOK
    <3>2. ASSUME ~astray' PROVE ~astray /\ ~revoking /\ revoked' = revoked
      BY <2>7, <3>2 DEF Restart
    <3>3. UNCHANGED << password, tokens >>
      BY <2>7 DEF Restart
    <3> QED
      BY <2>0, <3>1, <3>2, <3>3 DEF SessionsFollowPassword, Rejected
  <2>8. CASE UNCHANGED sessionVars
    BY <2>0, <2>8 DEF sessionVars, SessionsTypeOK, SessionsFollowPassword,
                      Rejected
  <2> QED
    BY <2>1, <2>2, <2>3, <2>4, <2>5, <2>6, <2>7, <2>8 DEF SessionsNext
<1> QED
  BY <1>1, <1>2, PTL DEF SessionsSpec

\* No session outlives its password.
THEOREM SessionsEndWithPassword == SessionsSpec => []SessionsFollowPassword
  BY SessionsInvariance, PTL DEF SessionsInv

-----------------------------------------------------------------------------
(* Registration *)

\* Nobody is reviewed or fills a profile without an account, an engineer has a
\* profile, and whoever is approved is an engineer.
AccountInv ==
    /\ AccountTypeOK
    /\ \A h \in Handler : doing[h].op # "none" => role # "NONE"
    /\ role = "ENGINEER" => status # "NONE"
    /\ role = "NONE" => status = "NONE" /\ samples = 0
    /\ status = "APPROVED" => role = "ENGINEER"

\* A handler's next step keeps the shape of all of them.
LEMMA SetsType ==
    ASSUME AccountTypeOK, NEW h \in Handler,
           NEW op \in {"none", "resume", "create", "clear", "fill", "review"},
           NEW n \in 0 .. MaxSamples, Sets(h, op, n)
    PROVE  /\ doing' \in [Handler -> [op : {"none", "resume", "create", "clear",
                                            "fill", "review"},
                                      n : 0 .. MaxSamples]]
           /\ doing'[h] = [op |-> op, n |-> n]
           /\ \A k \in Handler \ {h} : doing'[k] = doing[k]
BY DEF AccountTypeOK, Sets

\* What a step has to show that changes the account and one handler's task.
LEMMA AccountNext ==
    /\ AccountTypeOK'
    /\ (\A h \in Handler : doing[h].op # "none" => role # "NONE")'
    /\ (role = "ENGINEER" => status # "NONE")'
    /\ (role = "NONE" => status = "NONE" /\ samples = 0)'
    /\ (status = "APPROVED" => role = "ENGINEER")'
    => AccountInv'
BY DEF AccountInv

\* The inductive invariant of the registration.
THEOREM RegistrationInvariance == RegistrationSpec => []AccountInv
<1>1. RegistrationInit => AccountInv
  <2> SUFFICES ASSUME RegistrationInit PROVE AccountInv
    OBVIOUS
  <2>1. Rest \in [op : {"none", "resume", "create", "clear", "fill", "review"},
                  n : 0 .. MaxSamples]
        /\ Rest.op = "none"
    BY SamplesAssumption DEF Rest
  <2>2. AccountTypeOK
    <3>1. doing \in [Handler -> [op : {"none", "resume", "create", "clear",
                                      "fill", "review"}, n : 0 .. MaxSamples]]
      BY <2>1 DEF RegistrationInit
    <3>2. samples \in 0 .. MaxSamples
      BY SamplesAssumption DEF RegistrationInit
    <3>3. googleId \in BOOLEAN
      BY DEF RegistrationInit
    <3> QED
      BY <3>1, <3>2, <3>3 DEF RegistrationInit, AccountTypeOK
  <2>3. \A h \in Handler : doing[h].op = "none"
    BY <2>1 DEF RegistrationInit
  <2> QED
    BY <2>2, <2>3 DEF RegistrationInit, AccountInv
<1>2. AccountInv /\ [RegistrationNext]_accountVars => AccountInv'
  <2> SUFFICES ASSUME AccountInv, [RegistrationNext]_accountVars
               PROVE  AccountInv'
    OBVIOUS
  <2>0. AccountTypeOK
    BY DEF AccountInv
  <2>1. CASE RegisterClient \/ RegisterEngineer \/ RegisterByGoogle
    <3>1. PICK r \in {"CLIENT", "ENGINEER"}, google \in BOOLEAN,
               s \in {"NONE", "PENDING"}, n \in 0 .. MaxSamples :
            Creates(r, google, s, n) /\ (r = "ENGINEER" => s = "PENDING")
      <4>1. 0 \in 0 .. MaxSamples /\ Enough .. MaxSamples \subseteq 0 .. MaxSamples
        BY SamplesAssumption
      <4>2. CASE RegisterClient
        BY <4>1, <4>2 DEF RegisterClient
      <4>3. CASE RegisterEngineer
        BY <4>1, <4>3 DEF RegisterEngineer
      <4>4. CASE RegisterByGoogle
        BY <4>1, <4>4 DEF RegisterByGoogle
      <4> QED
        BY <2>1, <4>2, <4>3, <4>4
    <3> QED
      BY <2>0, <3>1 DEF Creates, AccountInv, AccountTypeOK
  <2>2. CASE LinkGoogle
    BY <2>2 DEF LinkGoogle, AccountInv, AccountTypeOK
  <2>3. CASE AddSample \/ DeleteSample
    BY <2>3, SamplesAssumption
       DEF AddSample, DeleteSample, AccountInv, AccountTypeOK
  <2>4. ASSUME NEW h \in Handler,
               NEW op \in {"resume", "create", "clear", "review"},
               NEW n \in 0 .. MaxSamples, Starts(h, op, n), role # "NONE"
        PROVE  AccountInv'
    <3>1. Sets(h, op, n) /\ UNCHANGED << role, googleId, status, samples >>
      BY <2>4 DEF Starts
    <3> QED
      BY <2>0, <2>4, <3>1, SetsType DEF AccountInv, AccountTypeOK
  <2>5. ASSUME NEW h \in Handler, ResumeRead(h) PROVE AccountInv'
    <3>1. Enough - samples \in 0 .. MaxSamples /\ role # "NONE"
      BY <2>0, <2>5, SamplesAssumption
         DEF ResumeRead, MayResume, Complete, AccountTypeOK
    <3> QED
      BY <2>4, <2>5, <3>1 DEF ResumeRead
  <2>6. ASSUME NEW h \in Handler, ApplyRead(h) PROVE AccountInv'
    <3>1. PICK n \in Enough .. MaxSamples :
             \/ /\ MayApply
                /\ Starts(h, IF status = "NONE" THEN "create" ELSE "clear", n)
             \/ MayCompleteGoogle /\ Starts(h, "clear", n)
      BY <2>6 DEF ApplyRead
    <3>2. n \in 0 .. MaxSamples /\ role # "NONE"
      BY <3>1, SamplesAssumption DEF MayApply, MayCompleteGoogle
    <3> QED
      BY <2>4, <3>1, <3>2
  <2>7. ASSUME NEW h \in Handler, ReviewRead(h) PROVE AccountInv'
    <3>1. role # "NONE" /\ 0 \in 0 .. MaxSamples
      BY <2>7, SamplesAssumption DEF ReviewRead, AccountInv
    <3> QED
      BY <2>4, <2>7, <3>1 DEF ReviewRead
  <2>8. ASSUME NEW h \in Handler, NEW op \in {"none", "fill"},
               NEW n \in 0 .. MaxSamples, Sets(h, op, n),
               doing[h].op # "none", AccountTypeOK', role' = role \/ role' = "ENGINEER",
               status' # "NONE" \/ status' = status,
               role' = "ENGINEER" => role = "ENGINEER" \/ status' # "NONE",
               status' = "APPROVED" => role' = "ENGINEER"
        PROVE  AccountInv'
    <3>1. role # "NONE" /\ role' # "NONE"
      BY <2>8 DEF AccountInv
    <3>2. role' = "ENGINEER" => status' # "NONE"
      BY <2>8 DEF AccountInv
    <3> QED
      BY <2>8, <3>1, <3>2, AccountNext
  <2>9. ASSUME NEW h \in Handler, ResumeWrite(h) \/ Clear(h)
        PROVE  AccountInv'
    <3>1. doing[h].op # "none" /\ UNCHANGED << role, googleId, status >>
          /\ doing[h].n \in 0 .. MaxSamples
      BY <2>0, <2>9 DEF ResumeWrite, Clear, AccountTypeOK
    <3>2. samples' \in 0 .. MaxSamples
      BY <2>0, <2>9, SamplesAssumption
         DEF ResumeWrite, Clear, AccountTypeOK
    <3>3. \E op \in {"none", "fill"}, n \in 0 .. MaxSamples : Sets(h, op, n)
      BY <2>9, <3>1, SamplesAssumption DEF ResumeWrite, Clear
    <3>4. AccountTypeOK'
      BY <2>0, <3>1, <3>2, <3>3, SetsType DEF AccountTypeOK
    <3> QED
      BY <2>8, <3>1, <3>3, <3>4 DEF AccountInv
  <2>10. ASSUME NEW h \in Handler, Fill(h) \/ CreateProfile(h)
         PROVE  AccountInv'
    <3>1. doing[h].op # "none" /\ UNCHANGED << role, googleId >>
          /\ doing[h].n \in 0 .. MaxSamples /\ status' = "PENDING"
          /\ Sets(h, "none", 0)
      BY <2>0, <2>10 DEF Fill, CreateProfile, AccountTypeOK
    <3>2. samples' \in 0 .. MaxSamples
      BY <2>0, <2>10, SamplesAssumption DEF Fill, CreateProfile, AccountTypeOK
    <3>3. 0 \in 0 .. MaxSamples
      BY SamplesAssumption
    <3>4. AccountTypeOK'
      BY <2>0, <3>1, <3>2, <3>3, SetsType DEF AccountTypeOK
    <3> QED
      BY <2>8, <3>1, <3>3, <3>4
  <2>11. ASSUME NEW h \in Handler, NEW s \in {"APPROVED", "REJECTED"},
                Review(h, s)
         PROVE  AccountInv'
    <3>1. doing[h].op # "none" /\ UNCHANGED << googleId, samples >>
          /\ status' = s /\ Sets(h, "none", 0)
          /\ role' = IF s = "APPROVED" THEN Promoted ELSE role
      BY <2>11 DEF Review
    <3>2. role \in {"CLIENT", "ENGINEER"}
      BY <2>0, <3>1 DEF AccountInv, AccountTypeOK
    <3>3. 0 \in 0 .. MaxSamples
      BY SamplesAssumption
    <3>4. AccountTypeOK'
      BY <2>0, <3>1, <3>2, <3>3, SetsType DEF AccountTypeOK, Promoted
    <3> QED
      BY <2>8, <3>1, <3>2, <3>3, <3>4 DEF Promoted
  <2>12. ASSUME NEW h \in Handler, Quit(h) PROVE AccountInv'
    <3>1. Sets(h, "none", 0) /\ UNCHANGED << role, googleId, status, samples >>
          /\ 0 \in 0 .. MaxSamples
      BY <2>12, SamplesAssumption DEF Quit
    <3>2. AccountTypeOK'
      BY <2>0, <3>1, SetsType DEF AccountTypeOK
    <3>3. \A k \in Handler : doing'[k].op # "none" => doing[k].op # "none"
      <4>1. doing'[h] = [op |-> "none", n |-> 0]
            /\ \A k \in Handler \ {h} : doing'[k] = doing[k]
        BY <2>0, <3>1, SetsType
      <4>2. doing'[h].op = "none"
        BY <4>1
      <4> QED
        BY <4>1, <4>2
    <3> QED
      BY <3>1, <3>2, <3>3, AccountNext DEF AccountInv
  <2>13. CASE UNCHANGED accountVars
    BY <2>13 DEF accountVars, AccountInv, AccountTypeOK
  <2> QED
    BY <2>1, <2>2, <2>3, <2>5, <2>6, <2>7, <2>9, <2>10, <2>11, <2>12,
       <2>13 DEF RegistrationNext
<1> QED
  BY <1>1, <1>2, PTL DEF RegistrationSpec

\* Whoever is kept on the form can hand in what is missing.
THEOREM KeptCanFinish == RegistrationSpec => []UnfinishedCanFinish
<1>1. AccountInv => UnfinishedCanFinish
  BY DEF AccountInv, AccountTypeOK, UnfinishedCanFinish, KeptOnForm,
         MayCompleteGoogle, OffersResume, MayResume
<1> QED
  BY <1>1, RegistrationInvariance, PTL
=================================================================================
