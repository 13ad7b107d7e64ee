----------------------------- MODULE Idempotency -----------------------------
(***************************************************************************)
(* One Idempotency-Key and the requests that carry it:                     *)
(* middlewares/idempotency.ts.  Redis keeps a marker while a request is    *)
(* processed and then its response; each call of Redis is a step, and what *)
(* Redis keeps expires.                                                    *)
(***************************************************************************)
EXTENDS Naturals, FiniteSets

CONSTANTS
    Request,
    Blank,          \* Redis has nothing under the key
    PROCESSING      \* the marker

ASSUME ValueAssumption ==
    {Blank, PROCESSING} \cap Request = {} /\ Blank # PROCESSING

VARIABLES
    kept,       \* Redis: Blank, PROCESSING, or the request whose response it is
    stage,      \* of every request
    writing,    \* Redis commands of responses on their way: set or delete
    effects,    \* requests whose handler has taken effect
    answer,     \* whose response answered a request; server errors aside
    expired,    \* history: something kept has expired
    spoiled     \* history: a handler failed after it had taken effect

idempotencyVars == << kept, stage, writing, effects, answer, expired, spoiled >>

NoAnswer == Blank

\* redisClient.get: a stored response is the answer.  The marker is no JSON,
\* and the request fails.
Get(r) ==
    /\ stage[r] = "idle"
    /\ IF kept = Blank
         THEN stage' = [stage EXCEPT ![r] = "missed"] /\ UNCHANGED answer
         ELSE /\ stage' = [stage EXCEPT ![r] = "done"]
              /\ answer' = IF kept = PROCESSING THEN answer
                                                ELSE [answer EXCEPT ![r] = kept]
    /\ UNCHANGED << kept, writing, effects, expired, spoiled >>

\* SET NX: it fails, with 409, when somebody else has set the key meanwhile.
Absent_M == TRUE
Absent == kept = Blank
Claim(r) ==
    /\ stage[r] = "missed"
    /\ IF Absent
         THEN kept' = PROCESSING /\ stage' = [stage EXCEPT ![r] = "running"]
         ELSE stage' = [stage EXCEPT ![r] = "done"] /\ UNCHANGED kept
    /\ UNCHANGED << writing, effects, answer, expired, spoiled >>

\* The handler takes effect, at once for the database.
TakeEffect(r) ==
    /\ stage[r] = "running" /\ r \notin effects
    /\ effects' = effects \cup {r}
    /\ UNCHANGED << kept, stage, writing, answer, expired, spoiled >>

\* res.json: the command for Redis is sent but not awaited.  A server error is
\* deleted, any other response kept.
Respond(r, what) ==
    /\ stage[r] = "running"
    /\ stage' = [stage EXCEPT ![r] = "done"]
    /\ answer' = IF what = "set" THEN [answer EXCEPT ![r] = r] ELSE answer
    /\ writing' = writing \cup {<< what, r >>}
    /\ spoiled' = (spoiled \/ (what = "delete" /\ r \in effects))
    /\ UNCHANGED << kept, effects, expired >>

\* Redis carries it out, or does not.
Write(w) ==
    /\ w \in writing
    /\ writing' = writing \ {w}
    /\ kept' = IF w[1] = "set" THEN w[2] ELSE Blank
    /\ UNCHANGED << stage, effects, answer, expired, spoiled >>
WriteFails(w) ==
    /\ w \in writing
    /\ writing' = writing \ {w}
    /\ UNCHANGED << kept, stage, effects, answer, expired, spoiled >>

\* The server stops; the marker stays until it expires.
Crash ==
    /\ \E r \in Request : stage[r] \in {"missed", "running"}
    /\ stage' = [r \in Request |-> IF stage[r] \in {"missed", "running"}
                                   THEN "done" ELSE stage[r]]
    /\ writing' = {}
    /\ UNCHANGED << kept, effects, answer, expired, spoiled >>

\* 60 seconds after the marker, 24 hours after the response.
Expire ==
    /\ kept # Blank
    /\ kept' = Blank
    /\ expired' = TRUE
    /\ UNCHANGED << stage, writing, effects, answer, spoiled >>

-----------------------------------------------------------------------------

IdempotencyInit ==
    /\ kept = Blank
    /\ stage = [r \in Request |-> "idle"]
    /\ writing = {} /\ effects = {}
    /\ answer = [r \in Request |-> NoAnswer]
    /\ expired = FALSE /\ spoiled = FALSE

IdempotencyNext ==
    \/ \E r \in Request : \/ Get(r) \/ Claim(r) \/ TakeEffect(r)
                          \/ \E what \in {"set", "delete"} : Respond(r, what)
    \/ \E w \in writing : Write(w) \/ WriteFails(w)
    \/ Crash \/ Expire

IdempotencySpec == IdempotencyInit /\ [][IdempotencyNext]_idempotencyVars

-----------------------------------------------------------------------------
(* Property *)

\* However often and however concurrently a request is sent again, it takes
\* effect once and every answer is the answer of that one: until what Redis
\* keeps expires, or after a handler that failed halfway.
Answered == {answer[r] : r \in Request} \ {NoAnswer}
OncePerKey ==
    ~expired /\ ~spoiled => Cardinality(Answered \cup effects) <= 1
=============================================================================
