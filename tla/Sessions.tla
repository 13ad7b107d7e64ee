------------------------------ MODULE Sessions ------------------------------
(***************************************************************************)
(* The sessions of one user across a change of the password: login and     *)
(* verifyOtp, changePassword and resetPassword of auth.service.ts, the     *)
(* check and the renewal of a token in auth.middleware.ts, the moment of   *)
(* revocation kept by tokenRevocation.ts.                                  *)
(*                                                                         *)
(* A token knows the second it was issued in, the revocation is finer.     *)
(* Tokens here live longer than the behaviours.                            *)
(***************************************************************************)
EXTENDS Integers

CONSTANTS
    Ticks,          \* ticks of the clock in one second
    MaxTime,        \* bound: ticks
    MaxChanges      \* bound: changes of the password

ASSUME ClockAssumption ==
    Ticks \in Nat \ {0} /\ MaxTime \in Nat /\ MaxChanges \in Nat

VARIABLES
    now,
    password,   \* counts the passwords
    revoking,   \* the new password is saved, its revocation not yet
    revoked,    \* user_revoked_before, or Never
    otp,        \* the password that was checked for the code sent, or NoCode
    tokens,     \* issued: the second, and the password it goes back to
    checked,    \* requests between the check of their token and its renewal
    astray      \* history: a code or a check outlived a change, or the moment
                \* of revocation was never kept, or lost

sessionVars == << now, password, revoking, revoked, otp, tokens, checked,
                  astray >>

Never == -1
NoCode == -1

\* iat: whole seconds.
Second(t) == (t \div Ticks) * Ticks
Issue(p) == tokens' = tokens \cup {[iat |-> Second(now), of |-> p]}

\* isUserSessionRevoked.
Rejected(t) == t.iat < revoked

Passes == now < MaxTime /\ now' = now + 1
Tick ==
    /\ Passes
    /\ UNCHANGED << password, revoking, revoked, otp, tokens, checked, astray >>

\* login: the password is right, a code is sent and kept for ten minutes.
Login ==
    /\ otp' = password
    /\ UNCHANGED << now, password, revoking, revoked, tokens, checked, astray >>

\* verifyOtp.
VerifyOtp ==
    /\ otp # NoCode
    /\ Issue(otp)
    /\ astray' = (astray \/ otp # password)
    /\ otp' = NoCode
    /\ UNCHANGED << now, password, revoking, revoked, checked >>

\* authenticate: the token of a request is good; what the revocation is now is
\* asked for and awaited.
Check(t) ==
    /\ t \in tokens /\ ~Rejected(t)
    /\ checked' = checked \cup {t}
    /\ UNCHANGED << now, password, revoking, revoked, otp, tokens, astray >>

\* It goes on, with a fresh token when the old one is due for renewal.
Renew(t) ==
    /\ t \in checked
    /\ checked' = checked \ {t}
    /\ Issue(t.of)
    /\ astray' = (astray \/ (t.of # password /\ ~revoking))
    /\ UNCHANGED << now, password, revoking, revoked, otp >>
GoOn(t) ==
    /\ t \in checked
    /\ checked' = checked \ {t}
    /\ UNCHANGED << now, password, revoking, revoked, otp, tokens, astray >>

-----------------------------------------------------------------------------
(* changePassword and resetPassword: hashing and saving take their time *)

SavePassword ==
    /\ ~revoking /\ password < MaxChanges
    /\ Passes
    /\ password' = password + 1
    /\ revoking' = TRUE
    /\ UNCHANGED << revoked, otp, tokens, checked, astray >>

\* Date.now() when the new password has been saved.
Moment_M(t) == Second(t)
Moment(t) == t
RevokeAll ==
    /\ revoking
    /\ Passes
    /\ revoking' = FALSE
    /\ revoked' = Moment(now')
    /\ UNCHANGED << password, otp, tokens, checked, astray >>

\* The server stops: what it was doing is lost, and with it, when Redis is
\* unavailable, what is kept in memory.
Restart(memory) ==
    /\ revoking' = FALSE
    /\ checked' = {}
    /\ IF memory THEN revoked' = Never /\ otp' = NoCode
                 ELSE UNCHANGED << revoked, otp >>
    /\ astray' = (astray \/ revoking \/ (memory /\ revoked # Never))
    /\ UNCHANGED << now, password, tokens >>

-----------------------------------------------------------------------------

SessionsInit ==
    /\ now = 0 /\ password = 0
    /\ revoking = FALSE /\ revoked = Never
    /\ otp = NoCode
    /\ tokens = {} /\ checked = {}
    /\ astray = FALSE

\* A bound: a behaviour ends when a session has gone astray.
SessionsNext ==
    /\ ~astray
    /\ \/ Tick \/ Login \/ VerifyOtp \/ SavePassword \/ RevokeAll
       \/ \E t \in tokens : Check(t) \/ Renew(t) \/ GoOn(t)
       \/ \E memory \in BOOLEAN : Restart(memory)

SessionsSpec == SessionsInit /\ [][SessionsNext]_sessionVars

-----------------------------------------------------------------------------
(* Property *)

\* Once a password change is through, every session of an earlier password is
\* over, renewed or not, whatever the clock rounds away; except by a code or a
\* request that was under way, or a revocation that was lost.
SessionsFollowPassword ==
    ~astray /\ ~revoking => \A t \in tokens : t.of < password => Rejected(t)
=============================================================================
