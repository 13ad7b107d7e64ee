----------------------------- MODULE Suspension -----------------------------
(***************************************************************************)
(* One user who talks over sockets and by HTTP, and the bans that silence  *)
(* him: ban.service.ts, the checks of socket.ts and auth.middleware.ts,    *)
(* sendMessage, and the administrators' banUserManually and unbanUser.     *)
(*                                                                         *)
(* A ban is read in one step; that an expired one is no longer active is   *)
(* written in another.  Revoked sessions are those of Sessions.            *)
(***************************************************************************)
EXTENDS Naturals, Sequences, FiniteSets

CONSTANTS
    Socket,         \* connections: each is made once
    Web,            \* the requests that send a message with a file
    MostMessages,   \* WS_MESSAGE_MAX
    MaxSaid,        \* bound: messages
    MaxBans         \* bound: bans

ASSUME SuspensionAssumption ==
    /\ Web \notin Socket
    /\ MostMessages \in Nat \ {0} /\ MaxSaid \in Nat /\ MaxBans \in Nat

VARIABLES
    ban,        \* the row: "none", "active" or "inactive"
    over,       \* its term has ended
    bans,
    link,       \* of every socket: "off", "lapsing", "on" or "gone"
    known,      \* userMessageTimestamps that are in the window
    said,       \* where every message came from
    course,     \* of every message
    heard,      \* broadcasts, in their order
    inForce,    \* history: imposed, neither lifted nor over
    spoken,     \* history: messages saved since
    raced       \* history: imposed while an expired ban was being written off

suspensionVars == << ban, over, bans, link, known, said, course, heard,
                     inForce, spoken, raced >>
banVars == << ban, over, bans, inForce, raced >>

Said == DOMAIN said
FromSocket(m) == said[m] \in Socket
Becomes(m, s) == course' = [course EXCEPT ![m] = s]

-----------------------------------------------------------------------------
(* isUserBanned: it reads the row, and writes it when the term has ended *)

Banned == ban = "active" /\ ~over
Lapsed == ban = "active" /\ over
WriteOff == ban' = "inactive" /\ UNCHANGED << over, bans, inForce, raced >>

WritingOff ==
    \/ \E s \in Socket : link[s] = "lapsing"
    \/ \E m \in Said : course[m] \in {"door lapsing", "lapsing"}

\* banUserFor30Days: an upsert.
Upserted_M == IF ban = "none" THEN "active" ELSE ban
Upserted == "active"
Impose ==
    /\ bans < MaxBans
    /\ bans' = bans + 1
    /\ ban' = Upserted /\ over' = FALSE
    /\ raced' = (raced \/ WritingOff)
    /\ inForce' = TRUE
    /\ spoken' = IF inForce THEN spoken ELSE {}

BanManually ==
    /\ Impose
    /\ UNCHANGED << link, known, said, course, heard >>
Unban ==
    /\ ban # "none"
    /\ ban' = "inactive" /\ inForce' = FALSE
    /\ UNCHANGED << over, bans, raced, link, known, said, course,
                    heard, spoken >>
TermEnds ==
    /\ ban # "none" /\ ~over
    /\ over' = TRUE /\ inForce' = FALSE
    /\ UNCHANGED << ban, bans, raced, link, known, said, course,
                    heard, spoken >>

-----------------------------------------------------------------------------
(* Sockets *)

\* socketAuthMiddleware and "connection".
Attach(s) ==
    /\ link[s] = "off" /\ ~Banned
    /\ link' = [link EXCEPT ![s] = IF Lapsed THEN "lapsing" ELSE "on"]
    /\ UNCHANGED << banVars, known, said, course, heard, spoken >>
Attached(s) ==
    /\ link[s] = "lapsing"
    /\ link' = [link EXCEPT ![s] = "on"]
    /\ WriteOff
    /\ UNCHANGED << known, said, course, heard, spoken >>

\* "disconnect": with the last socket the user's timestamps go.  What he has
\* sent is still processed.
Detaches(s) ==
    /\ link' = [link EXCEPT ![s] = "gone"]
    /\ known' = IF \E other \in Socket \ {s} : link[other] = "on" THEN known ELSE 0
Detach(s) ==
    /\ link[s] = "on"
    /\ Detaches(s)
    /\ UNCHANGED << banVars, said, course, heard, spoken >>

\* The window moves past the oldest timestamp.
Slide ==
    /\ known > 0
    /\ known' = known - 1
    /\ UNCHANGED << banVars, link, said, course, heard, spoken >>

-----------------------------------------------------------------------------
(* A message *)

\* "message:send" appends to the queue of its socket; a request comes to
\* rejectIfBanned first.
Say(from) ==
    /\ Len(said) < MaxSaid
    /\ from # Web => link[from] = "on"
    /\ said' = Append(said, from)
    /\ course' = Append(course, IF from = Web THEN "door" ELSE "queued")
    /\ UNCHANGED << banVars, known, link, heard, spoken >>

Door(m) ==
    /\ course[m] = "door"
    /\ Becomes(m, IF Banned THEN "done"
                  ELSE IF Lapsed THEN "door lapsing" ELSE "asking")
    /\ UNCHANGED << banVars, known, link, said, heard, spoken >>
DoorOpens(m) ==
    /\ course[m] = "door lapsing"
    /\ Becomes(m, "asking")
    /\ WriteOff
    /\ UNCHANGED << known, link, said, heard, spoken >>

\* sendQueue: one after the other; then the limit of checkMessageRateLimit.
InTurn_M(m) == TRUE
InTurn(m) ==
    \A k \in Said : k < m /\ said[k] = said[m] => course[k] = "done"
Begin(m) ==
    /\ course[m] = "queued" /\ InTurn(m)
    /\ IF known >= MostMessages
         THEN Becomes(m, "done") /\ UNCHANGED known
         ELSE /\ Becomes(m, "asking")
              /\ known' = known + 1
    /\ UNCHANGED << banVars, link, said, heard, spoken >>

\* The session was revoked: its socket is disconnected, if it still is there.
Expel(m) ==
    /\ course[m] = "queued" /\ InTurn(m)
    /\ Becomes(m, "done")
    /\ IF link[said[m]] = "on" THEN Detaches(said[m]) ELSE UNCHANGED << known, link >>
    /\ UNCHANGED << banVars, said, heard, spoken >>

\* The text is invalid, the conversation somebody else's, or a call fails.
Refuse(m) ==
    /\ course[m] \in {"asking", "lapsing", "flagged", "cleared"}
    /\ Becomes(m, "done")
    /\ UNCHANGED << banVars, known, link, said, heard, spoken >>

\* sendMessage: assertUserNotBanned, then the scanner, which may flag the text.
Scanned == {"cleared", "flagged"}
Ask(m) ==
    /\ course[m] = "asking"
    /\ \E verdict \in Scanned :
          Becomes(m, IF Banned THEN "done" ELSE IF Lapsed THEN "lapsing" ELSE verdict)
    /\ UNCHANGED << banVars, known, link, said, heard, spoken >>
Allowed(m) ==
    /\ course[m] = "lapsing"
    /\ \E verdict \in Scanned : Becomes(m, verdict)
    /\ WriteOff
    /\ UNCHANGED << known, link, said, heard, spoken >>

BanSpeaker(m) ==
    /\ course[m] = "flagged"
    /\ Becomes(m, "done")
    /\ Impose
    /\ UNCHANGED << known, link, said, heard >>

Save(m) ==
    /\ course[m] = "cleared"
    /\ Becomes(m, "saved")
    /\ spoken' = IF inForce THEN spoken \cup {m} ELSE spoken
    /\ UNCHANGED << banVars, known, link, said, heard >>
Announce(m) ==
    /\ course[m] = "saved"
    /\ Becomes(m, "done")
    /\ heard' = Append(heard, m)
    /\ UNCHANGED << banVars, known, link, said, spoken >>

-----------------------------------------------------------------------------

SuspensionInit ==
    /\ ban = "none" /\ over = FALSE /\ bans = 0
    /\ link = [s \in Socket |-> "off"]
    /\ known = 0
    /\ said = << >> /\ course = << >> /\ heard = << >>
    /\ inForce = FALSE /\ spoken = {} /\ raced = FALSE

SuspensionNext ==
    \/ BanManually \/ Unban \/ TermEnds \/ Slide
    \/ \E s \in Socket : Attach(s) \/ Attached(s) \/ Detach(s)
    \/ \E from \in Socket \cup {Web} : Say(from)
    \/ \E m \in Said :
          \/ Door(m) \/ DoorOpens(m) \/ Begin(m) \/ Expel(m) \/ Refuse(m)
          \/ Ask(m) \/ Allowed(m) \/ BanSpeaker(m) \/ Save(m) \/ Announce(m)

SuspensionSpec == SuspensionInit /\ [][SuspensionNext]_suspensionVars

-----------------------------------------------------------------------------
(* Property *)

\* Messages of one socket are broadcast in the order they were sent.
InOrder ==
    \A i, j \in DOMAIN heard :
        i < j /\ FromSocket(heard[i]) /\ said[heard[i]] = said[heard[j]]
        => heard[i] < heard[j]

\* Until a ban ends or is lifted it is in the row, and the user gets out one
\* message of each socket at most, the one that was under way: unless it was
\* imposed while an earlier ban was being written off.
Silenced ==
    ~raced /\ inForce =>
        /\ Banned
        /\ \A s \in Socket : Cardinality({m \in spoken : said[m] = s}) <= 1

\* The queue of a socket keeps its messages in order, and no more than one of
\* them can slip past a ban.
SpeaksInTurn == InOrder /\ Silenced
=============================================================================
