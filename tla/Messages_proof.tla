---------------------------- MODULE Messages_proof ----------------------------
(***************************************************************************)
(* What is proved of the messages: that an open page shows its whole       *)
(* conversation and nothing else (Chat), and that a user's socket sends in *)
(* order and falls silent when he is banned (Suspension).                  *)
(***************************************************************************)
EXTENDS Chat, Suspension, FiniteSetTheorems, TLAPS

-----------------------------------------------------------------------------
(* Suspension *)

Course == {"queued", "door", "door lapsing", "asking", "lapsing", "cleared",
           "flagged", "saved", "done"}

\* Every variable keeps its shape: a message has a course, and only messages
\* are heard or spoken.
SuspensionTypeOK ==
    /\ ban \in {"none", "active", "inactive"} /\ over \in BOOLEAN
    /\ link \in [Socket -> {"off", "lapsing", "on", "gone"}]
    /\ said \in Seq(Socket \cup {Web})
    /\ course \in [Said -> Course]
    /\ heard \in Seq(Said)
    /\ inForce \in BOOLEAN /\ raced \in BOOLEAN
    /\ spoken \subseteq Said

\* A message of a socket leaves the queue when those before it are done.
Queues ==
    \A k, m \in Said :
        k < m /\ said[k] = said[m] /\ FromSocket(m) /\ course[m] # "queued"
        => course[k] = "done"

\* Only what is done has been heard.
HeardAreDone == \A i \in DOMAIN heard : course[heard[i]] = "done"

\* While a ban is in force nothing is under way that writes it off, and a
\* socket that got a message out has no other one past the check, let alone
\* saved.
Silence ==
    ~raced /\ inForce =>
        /\ Banned /\ ~WritingOff
        /\ \A k \in spoken, m \in Said :
              k # m /\ said[k] = said[m] /\ FromSocket(k)
              => course[m] # "cleared" /\ m \notin spoken

SuspensionInv ==
    SuspensionTypeOK /\ Queues /\ HeardAreDone /\ InOrder /\ Silence

\* A message takes a step of its course: those of its socket keep their turns,
\* and what was done stays done.
LEMMA TakesTurn ==
    ASSUME SuspensionTypeOK, Queues, UNCHANGED said,
           NEW m \in Said, NEW x \in Course, x # "queued",
           course[m] # "done", course[m] # "queued" \/ InTurn(m), Becomes(m, x)
    PROVE  /\ Said' = Said
           /\ course' \in [Said -> Course]
           /\ course'[m] = x
           /\ \A k \in Said : k # m => course'[k] = course[k]
           /\ \A k \in Said : course[k] = "done" => course'[k] = "done"
           /\ Queues'
<1>1. /\ Said' = Said /\ course' \in [Said -> Course]
      /\ course'[m] = x
      /\ \A k \in Said : k # m => course'[k] = course[k]
  BY DEF SuspensionTypeOK, Becomes, Said
<1>2. \A k \in Said : course[k] = "done" => course'[k] = "done"
  BY <1>1
<1>3. ASSUME NEW k \in Said, NEW n \in Said, k < n, said[k] = said[n],
             FromSocket(n), course'[n] # "queued"
      PROVE  course'[k] = "done"
  <2>1. CASE n # m
    BY <1>1, <1>2, <1>3, <2>1 DEF Queues
  <2>2. CASE n = m
    BY <1>2, <1>3, <2>2 DEF Queues, InTurn
  <2> QED
    BY <2>1, <2>2
<1> QED
  BY <1>1, <1>2, <1>3 DEF Queues, FromSocket

\* Nothing new has been heard: the order stands.
LEMMA StillHeard ==
    ASSUME SuspensionTypeOK, HeardAreDone, InOrder, UNCHANGED << said, heard >>,
           \A k \in Said : course[k] = "done" => course'[k] = "done"
    PROVE  HeardAreDone' /\ InOrder'
<1>1. \A i \in DOMAIN heard : heard[i] \in Said
  BY DEF SuspensionTypeOK
<1> QED
  BY <1>1 DEF HeardAreDone, InOrder, FromSocket

\* A step of a message that neither saves nor lets pass what a ban silences.
LEMMA StillSilent ==
    ASSUME SuspensionTypeOK, Silence, UNCHANGED << said, spoken, inForce, raced >>,
           NEW m \in Said, Said' = Said,
           \A k \in Said : k # m => course'[k] = course[k],
           Banned => course'[m] \notin {"cleared", "door lapsing", "lapsing"},
           \A s \in Socket : link'[s] = "lapsing" => link[s] = "lapsing",
           ~WritingOff => ban' = ban /\ over' = over
    PROVE  Silence'
<1> SUFFICES ASSUME ~raced, inForce
             PROVE  /\ (Banned /\ ~WritingOff)'
                    /\ \A k \in spoken, n \in Said :
                          k # n /\ said[k] = said[n] /\ FromSocket(k)
                          => course'[n] # "cleared" /\ n \notin spoken
  BY DEF Silence, FromSocket
<1>1. /\ Banned /\ ~WritingOff
      /\ \A k \in spoken, n \in Said :
            k # n /\ said[k] = said[n] /\ FromSocket(k)
            => course[n] # "cleared" /\ n \notin spoken
  BY DEF Silence
<1>2. Banned'
  <2>1. ban' = ban /\ over' = over
    BY <1>1
  <2> QED
    BY <1>1, <2>1 DEF Banned
<1>3. ~WritingOff'
  BY <1>1 DEF WritingOff
<1> QED
  BY <1>1, <1>2, <1>3

\* A new ban: it is in force and nothing has been said since, or an earlier one
\* still was.
LEMMA Imposed ==
    ASSUME SuspensionTypeOK, Silence, Impose, UNCHANGED << link, said >>,
           Said' = Said,
           \A k \in Said : course'[k] = course[k] \/ course'[k] = "done"
    PROVE  Silence'
<1> SUFFICES ASSUME ~raced'
             PROVE  /\ (Banned /\ ~WritingOff)'
                    /\ \A k \in spoken', n \in Said :
                          k # n /\ said[k] = said[n] /\ FromSocket(k)
                          => course'[n] # "cleared" /\ n \notin spoken'
  BY DEF Silence, FromSocket
<1>1. Banned'
  BY DEF Banned, Impose, Upserted
<1>2. ~raced /\ ~WritingOff
  BY DEF Impose, SuspensionTypeOK
<1>3. ~WritingOff'
  BY <1>2 DEF WritingOff
<1>4. CASE ~inForce
  <2>1. spoken' = {}
    BY <1>4 DEF Impose
  <2> QED
    BY <1>1, <1>3, <2>1
<1>5. CASE inForce
  <2>1. spoken' = spoken
    BY <1>5 DEF Impose
  <2>2. spoken \subseteq Said
    BY DEF SuspensionTypeOK
  <2> QED
    BY <1>1, <1>2, <1>3, <1>5, <2>1, <2>2 DEF Silence
<1> QED
  BY <1>4, <1>5

\* While a ban is being written off none is in force, or it was raced.
LEMMA WrittenOff ==
    ASSUME Silence, WritingOff, UNCHANGED << inForce, raced >>
    PROVE  Silence'
BY DEF Silence

\* The inductive invariant of the bans.
THEOREM SuspensionInvariance == SuspensionSpec => []SuspensionInv
<1>1. SuspensionInit => SuspensionInv
  <2> SUFFICES ASSUME SuspensionInit PROVE SuspensionInv
    OBVIOUS
  <2>1. Said = {} /\ heard = << >> /\ course = << >> /\ said = << >>
    BY DEF SuspensionInit, Said
  <2>2. course \in [Said -> Course] /\ heard \in Seq(Said)
    BY <2>1
  <2>3. over \in BOOLEAN /\ inForce \in BOOLEAN /\ raced \in BOOLEAN
    BY DEF SuspensionInit
  <2>4. SuspensionTypeOK
    BY <2>1, <2>2, <2>3 DEF SuspensionInit, SuspensionTypeOK
  <2>5. Queues /\ HeardAreDone /\ InOrder
    BY <2>1 DEF Queues, HeardAreDone, InOrder
  <2>6. Silence
    BY DEF SuspensionInit, Silence
  <2> QED
    BY <2>4, <2>5, <2>6 DEF SuspensionInv
<1>2. SuspensionInv /\ [SuspensionNext]_suspensionVars => SuspensionInv'
  <2> SUFFICES ASSUME SuspensionInv, [SuspensionNext]_suspensionVars
               PROVE  SuspensionInv'
    OBVIOUS
  <2>0. SuspensionTypeOK /\ Queues /\ HeardAreDone /\ InOrder /\ Silence
    BY DEF SuspensionInv
  <2>1. \* What the messages keep when none of them moves.
        ASSUME UNCHANGED << said, course, heard >>
        PROVE  Said' = Said /\ (Queues /\ HeardAreDone /\ InOrder)'
    BY <2>0, <2>1 DEF Said, Queues, HeardAreDone, InOrder, FromSocket
  <2>2. CASE BanManually
    <3>1. UNCHANGED << link, known, said, course, heard >> /\ Impose
      BY <2>2 DEF BanManually
    <3>2. spoken' \subseteq Said
      BY <2>0, <3>1 DEF Impose, SuspensionTypeOK
    <3>3. raced' \in BOOLEAN /\ inForce' \in BOOLEAN /\ over' \in BOOLEAN
      BY <3>1 DEF Impose
    <3>4. ban' = "active"
      BY <3>1 DEF Impose, Upserted
    <3>5. SuspensionTypeOK'
      BY <2>0, <2>1, <3>1, <3>2, <3>3, <3>4 DEF SuspensionTypeOK
    <3>6. Silence'
      BY <2>0, <2>1, <3>1, Imposed
    <3> QED
      BY <2>1, <3>1, <3>5, <3>6 DEF SuspensionInv
  <2>3. CASE Unban
    <3>1. UNCHANGED << said, course, heard, spoken, link, raced, over >>
      BY <2>3 DEF Unban
    <3>2. ban' = "inactive" /\ ~inForce' /\ inForce' \in BOOLEAN
      BY <2>3 DEF Unban
    <3>3. SuspensionTypeOK'
      BY <2>0, <2>1, <3>1, <3>2 DEF SuspensionTypeOK
    <3> QED
      BY <2>1, <3>1, <3>2, <3>3 DEF SuspensionInv, Silence
  <2>4. CASE TermEnds
    <3>1. UNCHANGED << said, course, heard, spoken, link, raced, ban >>
      BY <2>4 DEF TermEnds
    <3>2. over' \in BOOLEAN /\ ~inForce' /\ inForce' \in BOOLEAN
      BY <2>4 DEF TermEnds
    <3>3. SuspensionTypeOK'
      BY <2>0, <2>1, <3>1, <3>2 DEF SuspensionTypeOK
    <3> QED
      BY <2>1, <3>1, <3>2, <3>3 DEF SuspensionInv, Silence
  <2>5. CASE Slide
    <3>1. UNCHANGED << banVars, link, said, course, heard, spoken >>
      BY <2>5 DEF Slide
    <3>2. SuspensionTypeOK'
      BY <2>0, <2>1, <3>1 DEF SuspensionTypeOK, banVars
    <3>3. Silence'
      BY <2>0, <2>1, <3>1 DEF Silence, banVars, Banned, WritingOff, FromSocket
    <3> QED
      BY <2>1, <3>1, <3>2, <3>3 DEF SuspensionInv
  <2>6. ASSUME NEW s \in Socket, Attach(s) PROVE SuspensionInv'
    <3>1. UNCHANGED << banVars, said, course, heard, spoken >> /\ ~Banned
      BY <2>6 DEF Attach
    <3>2. link' \in [Socket -> {"off", "lapsing", "on", "gone"}]
      BY <2>0, <2>6 DEF Attach, SuspensionTypeOK
    <3>3. SuspensionTypeOK'
      BY <2>0, <2>1, <3>1, <3>2 DEF SuspensionTypeOK, banVars
    <3>4. Silence'
      BY <2>0, <3>1 DEF Silence, banVars
    <3> QED
      BY <2>1, <3>1, <3>3, <3>4 DEF SuspensionInv
  <2>7. ASSUME NEW s \in Socket, Attached(s) PROVE SuspensionInv'
    <3>1. UNCHANGED << over, inForce, raced, said, course, heard, spoken >>
      BY <2>7 DEF Attached, WriteOff
    <3>2. link' \in [Socket -> {"off", "lapsing", "on", "gone"}] /\ ban' = "inactive"
      BY <2>0, <2>7 DEF Attached, WriteOff, SuspensionTypeOK
    <3>3. SuspensionTypeOK'
      BY <2>0, <2>1, <3>1, <3>2 DEF SuspensionTypeOK
    <3>4. WritingOff
      BY <2>7 DEF Attached, WritingOff
    <3>5. Silence'
      BY <2>0, <3>1, <3>4, WrittenOff
    <3> QED
      BY <2>1, <3>1, <3>3, <3>5 DEF SuspensionInv
  <2>8. \* A socket that goes attaches none.
        ASSUME NEW s \in Socket, Detaches(s)
        PROVE  /\ link' \in [Socket -> {"off", "lapsing", "on", "gone"}]
               /\ \A c \in Socket : link'[c] = "lapsing" => link[c] = "lapsing"
    BY <2>0, <2>8 DEF Detaches, SuspensionTypeOK
  <2>9. ASSUME NEW s \in Socket, Detach(s) PROVE SuspensionInv'
    <3>1. UNCHANGED << banVars, said, course, heard, spoken >> /\ Detaches(s)
      BY <2>9 DEF Detach
    <3>2. SuspensionTypeOK'
      BY <2>0, <2>1, <2>8, <3>1 DEF SuspensionTypeOK, banVars
    <3>3. Silence'
      BY <2>0, <2>1, <2>8, <3>1 DEF Silence, banVars, Banned, WritingOff, FromSocket
    <3> QED
      BY <2>1, <3>1, <3>2, <3>3 DEF SuspensionInv
  <2>10. ASSUME NEW from \in Socket \cup {Web}, Say(from) PROVE SuspensionInv'
    <3> DEFINE new == Len(said) + 1
    <3>1. /\ UNCHANGED << banVars, known, link, heard, spoken >>
          /\ said' = Append(said, from)
          /\ course' = Append(course, IF from = Web THEN "door" ELSE "queued")
      BY <2>10 DEF Say
    <3>2. Len(said) \in Nat /\ Said = 1 .. Len(said) /\ Said' = Said \cup {new}
      BY <2>0, <3>1 DEF SuspensionTypeOK, Said
    <3>3. course \in Seq(Course) /\ Len(course) = Len(said)
      BY <2>0, <3>2 DEF SuspensionTypeOK
    <3>4. /\ course' \in [Said' -> Course]
          /\ course'[new] = IF from = Web THEN "door" ELSE "queued"
          /\ \A k \in Said : course'[k] = course[k]
      <4>0. (IF from = Web THEN "door" ELSE "queued") \in Course
        BY DEF Course
      <4>1. course' \in Seq(Course)
        BY <3>1, <3>3, <4>0
      <4>2. Len(course') = new /\ DOMAIN course' = 1 .. new
        BY <3>1, <3>3, <4>1
      <4>3. course' \in [1 .. new -> Course] /\ 1 .. new = Said'
        BY <3>2, <4>1, <4>2
      <4> QED
        BY <3>1, <3>2, <3>3, <4>3
    <3>5. /\ said' \in Seq(Socket \cup {Web})
          /\ said'[new] = from /\ \A k \in Said : said'[k] = said[k]
      BY <2>0, <3>1, <3>2 DEF SuspensionTypeOK
    <3>6. heard' \in Seq(Said') /\ DOMAIN heard' = DOMAIN heard
          /\ \A i \in DOMAIN heard : heard'[i] = heard[i] /\ heard[i] \in Said
      <4>1. heard' = heard /\ heard \in Seq(Said) /\ Said \subseteq Said'
        BY <2>0, <3>1, <3>2 DEF SuspensionTypeOK
      <4>2. \A i \in DOMAIN heard : heard[i] \in Said
        BY <4>1
      <4>3. heard \in Seq(Said')
        BY <4>1, <4>2
      <4> QED
        BY <4>1, <4>2, <4>3
    <3>7. SuspensionTypeOK'
      BY <2>0, <3>1, <3>2, <3>4, <3>5, <3>6 DEF SuspensionTypeOK, banVars
    <3>8. Queues'
      <4> SUFFICES ASSUME NEW k \in Said', NEW m \in Said', k < m,
                          said'[k] = said'[m], FromSocket(m)',
                          course'[m] # "queued"
                   PROVE  course'[k] = "done"
        BY DEF Queues
      <4>1. CASE m = new
        BY <3>4, <3>5, <4>1, SuspensionAssumption DEF FromSocket
      <4>2. CASE m # new
        BY <2>0, <3>2, <3>4, <3>5, <4>2 DEF Queues, FromSocket
      <4> QED
        BY <4>1, <4>2
    <3>9. (HeardAreDone /\ InOrder)'
      BY <2>0, <3>4, <3>5, <3>6 DEF HeardAreDone, InOrder, FromSocket
    <3>10. Silence'
      <4> SUFFICES ASSUME ~raced, inForce
                   PROVE  /\ (Banned /\ ~WritingOff)'
                          /\ \A k \in spoken, n \in Said' :
                                k # n /\ said'[k] = said'[n] /\ FromSocket(k)'
                                => course'[n] # "cleared" /\ n \notin spoken
        BY <3>1 DEF Silence, banVars
      <4>1. Banned /\ ~WritingOff /\ spoken \subseteq Said /\ new \notin Said
        BY <2>0, <3>2 DEF Silence, SuspensionTypeOK
      <4>2. Banned' /\ link' = link
        BY <3>1, <4>1 DEF Banned, banVars
      <4>3. course'[new] \notin {"cleared", "lapsing", "door lapsing"}
        BY <3>4
      <4>4. ~WritingOff'
        BY <3>2, <3>4, <4>1, <4>2, <4>3 DEF WritingOff
      <4>5. ASSUME NEW k \in spoken, NEW n \in Said', k # n, said'[k] = said'[n],
                   FromSocket(k)'
            PROVE  course'[n] # "cleared" /\ n \notin spoken
        <5>1. CASE n = new
          BY <4>1, <4>3, <5>1
        <5>2. CASE n # new
          BY <2>0, <3>2, <3>4, <3>5, <4>1, <4>5, <5>2 DEF Silence, FromSocket
        <5> QED
          BY <5>1, <5>2
      <4> QED
        BY <4>2, <4>4, <4>5
    <3> QED
      BY <3>7, <3>8, <3>9, <3>10 DEF SuspensionInv
  <2>11. \* Steps of a message that neither save nor announce it.
         ASSUME NEW m \in Said, NEW x \in Course, x # "queued", Becomes(m, x),
                course[m] # "done", course[m] # "queued" \/ InTurn(m),
                UNCHANGED << said, heard >>
         PROVE  /\ Said' = Said /\ course' \in [Said' -> Course] /\ course'[m] = x
                /\ \A k \in Said : k # m => course'[k] = course[k]
                /\ said' \in Seq(Socket \cup {Web}) /\ heard' \in Seq(Said')
                /\ (Queues /\ HeardAreDone /\ InOrder)'
    <3>1. /\ Said' = Said /\ course' \in [Said -> Course] /\ course'[m] = x
          /\ \A k \in Said : k # m => course'[k] = course[k]
          /\ \A k \in Said : course[k] = "done" => course'[k] = "done"
          /\ Queues'
      BY <2>0, <2>11, TakesTurn
    <3>2. (HeardAreDone /\ InOrder)'
      BY <2>0, <2>11, <3>1, StillHeard
    <3> QED
      BY <2>0, <2>11, <3>1, <3>2 DEF SuspensionTypeOK
  <2>12. ASSUME NEW m \in Said, Door(m) PROVE SuspensionInv'
    <3>1. PICK x \in {"done", "door lapsing", "asking"} :
             Becomes(m, x) /\ (Banned => x = "done")
      BY <2>12 DEF Door
    <3>2. course[m] = "door" /\ UNCHANGED << banVars, link, said, heard, spoken >>
      BY <2>12 DEF Door
    <3>3. x \in Course /\ x # "queued"
      BY DEF Course
    <3>4. SuspensionTypeOK'
      BY <2>0, <2>11, <3>1, <3>2, <3>3 DEF SuspensionTypeOK, banVars
    <3>5. Silence'
      BY <2>0, <2>11, <3>1, <3>2, <3>3, StillSilent DEF banVars
    <3> QED
      BY <2>11, <3>1, <3>2, <3>3, <3>4, <3>5 DEF SuspensionInv
  <2>13. ASSUME NEW m \in Said, DoorOpens(m) PROVE SuspensionInv'
    <3>1. /\ Becomes(m, "asking") /\ course[m] = "door lapsing" /\ ban' = "inactive"
          /\ UNCHANGED << over, inForce, raced, link, said, heard, spoken >>
      BY <2>13 DEF DoorOpens, WriteOff
    <3>2. "asking" \in Course
      BY DEF Course
    <3>3. SuspensionTypeOK'
      BY <2>0, <2>11, <3>1, <3>2 DEF SuspensionTypeOK
    <3>4. Silence'
      BY <2>0, <3>1, WrittenOff DEF WritingOff
    <3> QED
      BY <2>11, <3>1, <3>2, <3>3, <3>4 DEF SuspensionInv
  <2>14. ASSUME NEW m \in Said, Begin(m) PROVE SuspensionInv'
    <3>1. PICK x \in {"done", "asking"} : Becomes(m, x)
      BY <2>14 DEF Begin
    <3>2. /\ course[m] = "queued" /\ InTurn(m)
          /\ UNCHANGED << banVars, link, said, heard, spoken >>
      BY <2>14 DEF Begin
    <3>3. x \in Course /\ x # "queued"
      BY DEF Course
    <3>4. SuspensionTypeOK'
      BY <2>0, <2>11, <3>1, <3>2, <3>3 DEF SuspensionTypeOK, banVars
    <3>5. Silence'
      BY <2>0, <2>11, <3>1, <3>2, <3>3, StillSilent DEF banVars
    <3> QED
      BY <2>11, <3>1, <3>2, <3>3, <3>4, <3>5 DEF SuspensionInv
  <2>15. ASSUME NEW m \in Said, Expel(m) PROVE SuspensionInv'
    <3>1. /\ Becomes(m, "done") /\ course[m] = "queued" /\ InTurn(m)
          /\ UNCHANGED << banVars, said, heard, spoken >>
      BY <2>15 DEF Expel
    <3>2. "done" \in Course
      BY DEF Course
    <3>3. /\ link' \in [Socket -> {"off", "lapsing", "on", "gone"}]
          /\ \A c \in Socket : link'[c] = "lapsing" => link[c] = "lapsing"
      <4>1. CASE said[m] \in Socket /\ Detaches(said[m])
        BY <2>8, <4>1
      <4>2. CASE link' = link
        BY <2>0, <4>2 DEF SuspensionTypeOK
      <4>3. CASE said[m] = Web /\ Detaches(Web)
        BY <2>0, <4>3, SuspensionAssumption DEF Detaches, SuspensionTypeOK
      <4>4. said[m] \in Socket \cup {Web}
        BY <2>0 DEF SuspensionTypeOK, Said
      <4> QED
        BY <2>15, <4>1, <4>2, <4>3, <4>4 DEF Expel
    <3>4. SuspensionTypeOK'
      BY <2>0, <2>11, <3>1, <3>2, <3>3 DEF SuspensionTypeOK, banVars
    <3>5. Silence'
      BY <2>0, <2>11, <3>1, <3>2, <3>3, StillSilent DEF banVars
    <3> QED
      BY <2>11, <3>1, <3>2, <3>4, <3>5 DEF SuspensionInv
  <2>16. ASSUME NEW m \in Said, Refuse(m) PROVE SuspensionInv'
    <3>1. /\ Becomes(m, "done") /\ course[m] \notin {"queued", "done"}
          /\ UNCHANGED << banVars, link, said, heard, spoken >>
      BY <2>16 DEF Refuse
    <3>2. "done" \in Course
      BY DEF Course
    <3>3. SuspensionTypeOK'
      BY <2>0, <2>11, <3>1, <3>2 DEF SuspensionTypeOK, banVars
    <3>4. Silence'
      BY <2>0, <2>11, <3>1, <3>2, StillSilent DEF banVars
    <3> QED
      BY <2>11, <3>1, <3>2, <3>3, <3>4 DEF SuspensionInv
  <2>17. ASSUME NEW m \in Said, Ask(m) PROVE SuspensionInv'
    <3>1. PICK x \in {"done", "lapsing", "cleared", "flagged"} :
             Becomes(m, x) /\ (Banned => x = "done")
      BY <2>17 DEF Ask, Scanned
    <3>2. course[m] = "asking" /\ UNCHANGED << banVars, link, said, heard, spoken >>
      BY <2>17 DEF Ask
    <3>3. x \in Course /\ x # "queued"
      BY DEF Course
    <3>4. SuspensionTypeOK'
      BY <2>0, <2>11, <3>1, <3>2, <3>3 DEF SuspensionTypeOK, banVars
    <3>5. Silence'
      BY <2>0, <2>11, <3>1, <3>2, <3>3, StillSilent DEF banVars
    <3> QED
      BY <2>11, <3>1, <3>2, <3>3, <3>4, <3>5 DEF SuspensionInv
  <2>18. ASSUME NEW m \in Said, Allowed(m) PROVE SuspensionInv'
    <3>1. PICK x \in Scanned : Becomes(m, x)
      BY <2>18 DEF Allowed
    <3>2. /\ course[m] = "lapsing" /\ ban' = "inactive"
          /\ UNCHANGED << over, inForce, raced, link, said, heard, spoken >>
      BY <2>18 DEF Allowed, WriteOff
    <3>3. x \in Course /\ x # "queued"
      BY DEF Course, Scanned
    <3>4. SuspensionTypeOK'
      BY <2>0, <2>11, <3>1, <3>2, <3>3 DEF SuspensionTypeOK
    <3>5. Silence'
      BY <2>0, <3>2, WrittenOff DEF WritingOff
    <3> QED
      BY <2>11, <3>1, <3>2, <3>3, <3>4, <3>5 DEF SuspensionInv
  <2>19. ASSUME NEW m \in Said, BanSpeaker(m) PROVE SuspensionInv'
    <3>1. /\ Becomes(m, "done") /\ course[m] = "flagged" /\ Impose
          /\ UNCHANGED << link, said, heard >>
      BY <2>19 DEF BanSpeaker
    <3>2. "done" \in Course
      BY DEF Course
    <3>3. spoken' \subseteq Said
      BY <2>0, <3>1 DEF Impose, SuspensionTypeOK
    <3>4. raced' \in BOOLEAN /\ inForce' \in BOOLEAN /\ over' \in BOOLEAN
      BY <3>1 DEF Impose
    <3>5. ban' = "active"
      BY <3>1 DEF Impose, Upserted
    <3>6. SuspensionTypeOK'
      BY <2>0, <2>11, <3>1, <3>2, <3>3, <3>4, <3>5 DEF SuspensionTypeOK
    <3>7. \A k \in Said : course'[k] = course[k] \/ course'[k] = "done"
      BY <2>11, <3>1, <3>2
    <3>8. Silence'
      BY <2>0, <2>11, <3>1, <3>2, <3>7, Imposed
    <3> QED
      BY <2>11, <3>1, <3>2, <3>6, <3>8 DEF SuspensionInv
  <2>20. ASSUME NEW m \in Said, Save(m) PROVE SuspensionInv'
    <3>1. /\ Becomes(m, "saved") /\ course[m] = "cleared"
          /\ UNCHANGED << banVars, link, said, heard >>
          /\ spoken' = IF inForce THEN spoken \cup {m} ELSE spoken
      BY <2>20 DEF Save
    <3>2. "saved" \in Course
      BY DEF Course
    <3>3. /\ Said' = Said /\ course' \in [Said' -> Course] /\ course'[m] = "saved"
          /\ \A k \in Said : k # m => course'[k] = course[k]
          /\ said' \in Seq(Socket \cup {Web}) /\ heard' \in Seq(Said')
          /\ (Queues /\ HeardAreDone /\ InOrder)'
      BY <2>11, <3>1, <3>2
    <3>4. SuspensionTypeOK'
      BY <2>0, <3>1, <3>3 DEF SuspensionTypeOK, banVars
    <3>5. Silence'
      <4> SUFFICES ASSUME ~raced, inForce
                   PROVE  /\ (Banned /\ ~WritingOff)'
                          /\ \A k \in spoken \cup {m}, n \in Said :
                                k # n /\ said[k] = said[n] /\ FromSocket(k)
                                => course'[n] # "cleared" /\ n \notin spoken \cup {m}
        BY <3>1, <3>3 DEF Silence, banVars, FromSocket
      <4>1. /\ Banned /\ ~WritingOff /\ spoken \subseteq Said
            /\ \A k \in spoken, n \in Said :
                  k # n /\ said[k] = said[n] /\ FromSocket(k)
                  => course[n] # "cleared" /\ n \notin spoken
        BY <2>0 DEF Silence, SuspensionTypeOK
      <4>2. Banned' /\ ~WritingOff'
        BY <3>1, <3>3, <4>1 DEF Banned, WritingOff, banVars
      <4>3. ASSUME NEW n \in Said, n # m, said[m] = said[n], FromSocket(m)
            PROVE  course[n] # "cleared" /\ n \notin spoken
        <5>1. n \notin spoken
          BY <3>1, <4>1, <4>3 DEF FromSocket
        <5>2. Said \subseteq Nat /\ (n < m \/ m < n)
          BY <2>0, <4>3 DEF SuspensionTypeOK, Said
        <5>3. course[n] # "cleared"
          BY <2>0, <3>1, <4>3, <5>2 DEF Queues, FromSocket
        <5> QED
          BY <5>1, <5>3
      <4>4. ASSUME NEW k \in spoken, NEW n \in Said, k # n, said[k] = said[n],
                   FromSocket(k)
            PROVE  course'[n] # "cleared" /\ n \notin spoken /\ n # m
        BY <3>1, <3>3, <4>1, <4>4
      <4> QED
        BY <3>3, <4>2, <4>3, <4>4
    <3> QED
      BY <3>3, <3>4, <3>5 DEF SuspensionInv
  <2>21. ASSUME NEW m \in Said, Announce(m) PROVE SuspensionInv'
    <3>1. /\ Becomes(m, "done") /\ course[m] = "saved"
          /\ UNCHANGED << banVars, link, said, spoken >>
          /\ heard' = Append(heard, m)
      BY <2>21 DEF Announce
    <3>2. "done" \in Course
      BY DEF Course
    <3>3. /\ Said' = Said /\ course' \in [Said -> Course] /\ course'[m] = "done"
          /\ \A k \in Said : k # m => course'[k] = course[k]
          /\ \A k \in Said : course[k] = "done" => course'[k] = "done"
          /\ Queues'
      BY <2>0, <3>1, <3>2, TakesTurn
    <3>4. /\ heard' \in Seq(Said) /\ Len(heard) \in Nat
          /\ DOMAIN heard = 1 .. Len(heard) /\ DOMAIN heard' = 1 .. Len(heard) + 1
          /\ heard'[Len(heard) + 1] = m
          /\ \A i \in 1 .. Len(heard) : heard'[i] = heard[i] /\ heard[i] \in Said
      BY <2>0, <3>1 DEF SuspensionTypeOK
    <3>5. SuspensionTypeOK'
      BY <2>0, <3>1, <3>3, <3>4 DEF SuspensionTypeOK, banVars
    <3>6. HeardAreDone'
      BY <2>0, <3>3, <3>4 DEF HeardAreDone
    <3>7. InOrder'
      <4> SUFFICES ASSUME NEW i \in 1 .. Len(heard) + 1,
                          NEW j \in 1 .. Len(heard) + 1, i < j,
                          FromSocket(heard'[i]), said[heard'[i]] = said[heard'[j]]
                   PROVE  heard'[i] < heard'[j]
        BY <3>1, <3>4 DEF InOrder, FromSocket
      <4>1. i \in 1 .. Len(heard) /\ heard'[i] = heard[i] /\ heard[i] \in Said
        BY <3>4
      <4>2. CASE j = Len(heard) + 1
        <5>1. course[heard[i]] = "done" /\ heard[i] # m
          BY <2>0, <3>1, <3>4, <4>1 DEF HeardAreDone
        <5>2. Said \subseteq Nat /\ (heard[i] < m \/ m < heard[i])
          BY <2>0, <4>1, <5>1 DEF SuspensionTypeOK, Said
        <5>3. ~(m < heard[i])
          BY <2>0, <3>1, <3>4, <4>1, <4>2, <5>1 DEF Queues, FromSocket
        <5> QED
          BY <3>4, <4>1, <4>2, <5>2, <5>3
      <4>3. CASE j # Len(heard) + 1
        BY <2>0, <3>4, <4>1, <4>3 DEF InOrder
      <4> QED
        BY <4>2, <4>3
    <3>8. Silence'
      BY <2>0, <3>1, <3>3, StillSilent DEF banVars
    <3> QED
      BY <3>3, <3>5, <3>6, <3>7, <3>8 DEF SuspensionInv
  <2>22. CASE UNCHANGED suspensionVars
    <3>1. UNCHANGED << banVars, link, said, course, heard, spoken >>
      BY <2>22 DEF suspensionVars, banVars
    <3>2. SuspensionTypeOK'
      BY <2>0, <2>1, <3>1 DEF SuspensionTypeOK, banVars
    <3>3. Silence'
      BY <2>0, <2>1, <3>1 DEF Silence, banVars, Banned, WritingOff, FromSocket
    <3> QED
      BY <2>1, <3>1, <3>2, <3>3 DEF SuspensionInv
  <2> QED
    BY <2>2, <2>3, <2>4, <2>5, <2>6, <2>7, <2>9, <2>10, <2>12, <2>13, <2>14,
       <2>15, <2>16, <2>17, <2>18, <2>19, <2>20, <2>21, <2>22
       DEF SuspensionNext
<1> QED
  BY <1>1, <1>2, PTL DEF SuspensionSpec

\* Of every socket no more than one message slips past a ban.
LEMMA OneSlips ==
    ASSUME SuspensionInv, ~raced, inForce, NEW s \in Socket
    PROVE  Cardinality({m \in spoken : said[m] = s}) <= 1
<1> DEFINE Slipped == {m \in spoken : said[m] = s}
<1>1. \A k, n \in Slipped : k = n
  BY DEF SuspensionInv, SuspensionTypeOK, Silence, FromSocket
<1>2. CASE Slipped = {}
  BY <1>2, FS_EmptySet
<1>3. CASE Slipped # {}
  <2>1. \E k : Slipped = {k}
    BY <1>1, <1>3
  <2> HIDE DEF Slipped
  <2>2. Cardinality(Slipped) = 1
    BY <2>1, FS_Singleton
  <2> QED
    BY <2>2 DEF Slipped
<1> QED
  BY <1>2, <1>3

\* The messages of a socket are broadcast in the order they were sent, and one
\* of them at most after its user has been banned.
THEOREM SpeaksInItsTurn == SuspensionSpec => []SpeaksInTurn
<1>1. SuspensionInv => SpeaksInTurn
  BY OneSlips DEF SuspensionInv, SpeaksInTurn, Silenced, Silence
<1> QED
  BY <1>1, SuspensionInvariance, PTL

-----------------------------------------------------------------------------
(* Chat *)

HistoryRequest ==
    [conv : Conversation, silent : BOOLEAN, read : BOOLEAN,
     page : SUBSET Message]
JoinPacket == {"join"} \X Conversation \X Nat
LeavePacket == {"leave"} \X Conversation
NewMessage == {"message:new"} \X {m \in Message : within[m] # Nowhere}
Ack == {"ack"} \X Nat

\* Every variable keeps its shape.
ChatTypeOK ==
    /\ within \in [Message -> Conversation \cup {Nowhere}]
    /\ entering \subseteq JoinPacket
    /\ upstream \in Seq(JoinPacket \cup LeavePacket)
    /\ downstream \in Seq(NewMessage \cup Ack)
    /\ online \in BOOLEAN /\ attached \in BOOLEAN /\ lossy \in BOOLEAN
    /\ activeId \in Conversation \cup {Nowhere}
    /\ active \in Conversation \cup {Nowhere}
    /\ attached => active \in Conversation
    /\ ticket \in Nat
    /\ requests \subseteq HistoryRequest

\* Only messages of the open conversation are shown, and an answer holds only
\* messages of the conversation that was asked for.
Pure ==
    /\ \A m \in shown : m \in Message /\ within[m] = active /\ within[m] # Nowhere
    /\ \A r \in requests : r.page \subseteq Of(r.conv)
    /\ \A m \in unsent : m \in Message /\ within[m] # Nowhere

\* A message is on the screen or on its way there.
OnItsWay(m) ==
    \/ m \in shown \/ m \in unsent
    \/ \E i \in DOMAIN downstream : downstream[i] = << "message:new", m >>
    \/ \E r \in requests : r.conv = active /\ (~r.read \/ m \in r.page)

\* How far the last join of the page has come: it is the last packet sent, its
\* check is under way, or the socket is in the room.  Then the page will be
\* told and load the messages again, or every message is on its way.
Joining ==
    online /\ attached /\ ~lossy =>
        \/ /\ upstream # << >>
           /\ upstream[Len(upstream)] = << "join", active, ticket >>
        \/ upstream = << >> /\ << "join", active, ticket >> \in entering
        \/ /\ upstream = << >> /\ active \in room
           /\ \/ \E i \in DOMAIN downstream : downstream[i] = << "ack", ticket >>
              \/ \A m \in Of(active) : OnItsWay(m)

ChatInv == ChatTypeOK /\ Pure /\ Joining

\* What a list of packets keeps when one is taken from it or added to it.
LEMMA Packets ==
    ASSUME NEW S, NEW q \in Seq(S), NEW p \in S
    PROVE  /\ Append(q, p) \in Seq(S)
           /\ \A i \in DOMAIN q : i \in DOMAIN Append(q, p) /\ Append(q, p)[i] = q[i]
           /\ \E i \in DOMAIN Append(q, p) : Append(q, p)[i] = p
           /\ Append(q, p) # << >> /\ Append(q, p)[Len(Append(q, p))] = p
           /\ q # << >> =>
                /\ Head(q) \in S /\ Tail(q) \in Seq(S)
                /\ \A i \in DOMAIN q :
                      q[i] = Head(q) \/ \E j \in DOMAIN Tail(q) : Tail(q)[j] = q[i]
                /\ IF Tail(q) = << >> THEN q[Len(q)] = Head(q)
                                      ELSE Tail(q)[Len(Tail(q))] = q[Len(q)]
<1>1. /\ Append(q, p) \in Seq(S) /\ Len(q) \in Nat /\ Len(Append(q, p)) = Len(q) + 1
      /\ DOMAIN q = 1 .. Len(q) /\ DOMAIN Append(q, p) = 1 .. Len(q) + 1
      /\ Append(q, p)[Len(q) + 1] = p
      /\ \A i \in DOMAIN q : i \in DOMAIN Append(q, p) /\ Append(q, p)[i] = q[i]
  OBVIOUS
<1>2. ASSUME q # << >>
      PROVE  /\ Head(q) \in S /\ Tail(q) \in Seq(S)
             /\ Len(Tail(q)) = Len(q) - 1 /\ Head(q) = q[1]
             /\ \A j \in 1 .. Len(q) - 1 : Tail(q)[j] = q[j + 1]
  BY <1>2
<1>3. ASSUME q # << >>, NEW i \in DOMAIN q
      PROVE  q[i] = Head(q) \/ \E j \in DOMAIN Tail(q) : Tail(q)[j] = q[i]
  <2>1. CASE i = 1
    BY <1>2, <1>3, <2>1
  <2>2. CASE i # 1
    <3>1. i - 1 \in DOMAIN Tail(q) /\ Tail(q)[i - 1] = q[i]
      BY <1>1, <1>2, <1>3, <2>2
    <3> QED
      BY <3>1
  <2> QED
    BY <2>1, <2>2
<1>4. ASSUME q # << >>
      PROVE  IF Tail(q) = << >> THEN q[Len(q)] = Head(q)
                                ELSE Tail(q)[Len(Tail(q))] = q[Len(q)]
  <2>1. CASE Tail(q) = << >>
    <3>1. Len(q) = 1
      BY <1>1, <1>2, <1>4, <2>1
    <3> QED
      BY <1>2, <1>4, <2>1, <3>1
  <2>2. CASE Tail(q) # << >>
    <3>1. Len(q) - 1 \in 1 .. Len(q) - 1
      BY <1>1, <1>2, <1>4, <2>2
    <3> QED
      BY <1>1, <1>2, <1>4, <2>2, <3>1
  <2> QED
    BY <2>1, <2>2
<1>5. \E i \in DOMAIN Append(q, p) : Append(q, p)[i] = p
  <2>1. Len(q) + 1 \in DOMAIN Append(q, p)
    BY <1>1
  <2> QED
    BY <1>1, <2>1
<1>6. Append(q, p) # << >> /\ Append(q, p)[Len(Append(q, p))] = p
  BY <1>1
<1> QED
  BY <1>1, <1>2, <1>3, <1>4, <1>5, <1>6

\* Nothing that was on its way gets lost, and the last join is where it was.
LEMMA StillJoining ==
    ASSUME Joining, UNCHANGED << within, upstream, online, active, attached, ticket >>,
           ~lossy' => ~lossy,
           << "join", active, ticket >> \in entering
              => << "join", active, ticket >> \in entering',
           room \subseteq room',
           \A i \in DOMAIN downstream :
              downstream[i] = << "ack", ticket >>
              => \E j \in DOMAIN downstream' : downstream'[j] = << "ack", ticket >>,
           active \in room => \A m \in Of(active) : OnItsWay(m) => OnItsWay(m)'
    PROVE  Joining'
<1>1. Of(active)' = Of(active)
  BY DEF Of
<1> SUFFICES ASSUME online, attached, ~lossy, ~lossy'
             PROVE  \/ /\ upstream # << >>
                       /\ upstream[Len(upstream)] = << "join", active, ticket >>
                    \/ upstream = << >> /\ << "join", active, ticket >> \in entering'
                    \/ /\ upstream = << >> /\ active \in room'
                       /\ \/ \E i \in DOMAIN downstream' :
                                downstream'[i] = << "ack", ticket >>
                          \/ \A m \in Of(active) : OnItsWay(m)'
  BY <1>1 DEF Joining
<1> QED
  BY DEF Joining

\* The inductive invariant of the page.
THEOREM ChatInvariance == ChatSpec => []ChatInv
<1>1. ChatInit => ChatInv
  <2> SUFFICES ASSUME ChatInit PROVE ChatInv
    OBVIOUS
  <2>1. online \in BOOLEAN /\ ~online
    BY DEF ChatInit
  <2>2. attached \in BOOLEAN /\ ~attached
    BY DEF ChatInit
  <2>3. lossy \in BOOLEAN
    BY DEF ChatInit
  <2>4. ChatTypeOK
    BY <2>1, <2>2, <2>3 DEF ChatInit, ChatTypeOK
  <2>5. Pure /\ Joining
    BY <2>1 DEF ChatInit, Pure, Joining
  <2> QED
    BY <2>4, <2>5 DEF ChatInv
<1>2. ChatInv /\ [ChatNext]_chatVars => ChatInv'
  <2> SUFFICES ASSUME ChatInv, [ChatNext]_chatVars
               PROVE  ChatInv'
    OBVIOUS
  <2>0. ChatTypeOK /\ Pure /\ Joining
    BY DEF ChatInv
  <2> DEFINE Up == JoinPacket \cup LeavePacket
  <2> DEFINE Down == NewMessage \cup Ack
  <2>kept. within' = within => NewMessage' = NewMessage
    BY DEF NewMessage
  <2>1. ASSUME NEW m \in Message, NEW c \in Conversation, CreateMessage(m, c)
        PROVE  ChatInv'
    <3>1. /\ within[m] = Nowhere /\ within' = [within EXCEPT ![m] = c]
          /\ unsent' = unsent \cup {m}
          /\ UNCHANGED << room, entering, upstream, downstream, online, activeId,
                          active, attached, ticket, shown, requests, lossy >>
      BY <2>1 DEF CreateMessage, netVars
    <3>2. /\ within'[m] = c /\ c # Nowhere
          /\ \A n \in Message : n # m => within'[n] = within[n]
      BY <2>0, <3>1, NowhereAssumption DEF ChatTypeOK
    <3>3. downstream' \in Seq((NewMessage \cup Ack)')
      <4>1. Down \subseteq (NewMessage \cup Ack)'
        BY <3>2 DEF NewMessage, Ack
      <4>2. downstream \in Seq(Down)
        BY <2>0 DEF ChatTypeOK
      <4> QED
        BY <3>1, <4>1, <4>2
    <3>4. ChatTypeOK'
      BY <2>0, <3>1, <3>3 DEF ChatTypeOK
    <3>5. Pure'
      <4>1. \A n \in shown : n \in Message /\ n # m
        BY <2>0, <3>1 DEF Pure
      <4>2. ASSUME NEW r \in requests PROVE r.page \subseteq Of(r.conv)'
        <5>1. r.conv \in Conversation /\ r.page \subseteq Of(r.conv)
          BY <2>0 DEF ChatTypeOK, HistoryRequest, Pure
        <5> QED
          BY <3>1, <3>2, <5>1, NowhereAssumption DEF Of
      <4> QED
        BY <2>0, <3>1, <3>2, <4>1, <4>2 DEF Pure
    <3>6. \A n \in Of(active)' : n = m \/ n \in Of(active)
      BY <3>1, <3>2 DEF Of
    <3>7. \A n : n = m \/ OnItsWay(n) => OnItsWay(n)'
      BY <3>1 DEF OnItsWay
    <3>8. Joining'
      BY <2>0, <3>1, <3>6, <3>7 DEF Joining
    <3> QED
      BY <3>4, <3>5, <3>8 DEF ChatInv
  <2>2. ASSUME NEW m \in Message, Broadcast(m) PROVE ChatInv'
    <3>1. /\ m \in unsent /\ unsent' = unsent \ {m}
          /\ UNCHANGED << within, room, entering, upstream, online, activeId,
                          active, attached, ticket, shown, requests, lossy >>
          /\ downstream' = IF within[m] \in room
                             THEN Append(downstream, << "message:new", m >>)
                             ELSE downstream
      BY <2>2 DEF Broadcast
    <3>2. downstream \in Seq(Down) /\ << "message:new", m >> \in Down
      BY <2>0, <3>1 DEF ChatTypeOK, Pure, NewMessage
    <3>3. /\ downstream' \in Seq(Down)
          /\ \A i \in DOMAIN downstream :
                i \in DOMAIN downstream' /\ downstream'[i] = downstream[i]
          /\ within[m] \in room =>
                \E i \in DOMAIN downstream' : downstream'[i] = << "message:new", m >>
      <4> HIDE DEF Down
      <4> QED
        BY <3>1, <3>2, Packets
    <3>4. ChatTypeOK'
      BY <2>0, <2>kept, <3>1, <3>3 DEF ChatTypeOK
    <3>5. Pure'
      BY <2>0, <3>1 DEF Pure, Of
    <3>6. active \in room => \A n \in Of(active) : OnItsWay(n) => OnItsWay(n)'
      BY <3>1, <3>3 DEF OnItsWay, Of
    <3>7. Joining'
      BY <2>0, <3>1, <3>3, <3>6, StillJoining
    <3> QED
      BY <3>4, <3>5, <3>7 DEF ChatInv
  <2>3. CASE ReceivePacket
    <3> DEFINE p == Head(upstream)
    <3>1. /\ online /\ upstream # << >> /\ upstream' = Tail(upstream)
          /\ UNCHANGED << within, unsent, downstream, online, activeId, active,
                          attached, ticket, shown, requests, lossy >>
          /\ p[1] = "join" => entering' = entering \cup {p} /\ room' = room
          /\ p[1] # "join" => entering' = entering
      BY <2>3 DEF ReceivePacket
    <3>2. upstream \in Seq(Up)
      BY <2>0 DEF ChatTypeOK
    <3>3. /\ p \in Up /\ upstream' \in Seq(Up)
          /\ IF upstream' = << >> THEN upstream[Len(upstream)] = p
                ELSE upstream'[Len(upstream')] = upstream[Len(upstream)]
      <4> HIDE DEF Up
      <4> QED
        BY <3>1, <3>2, Packets
    <3>4. entering' \subseteq JoinPacket
      <4>1. p[1] = "join" => p \in JoinPacket
        BY <3>3 DEF JoinPacket, LeavePacket
      <4> QED
        BY <2>0, <3>1, <4>1 DEF ChatTypeOK
    <3>5. ChatTypeOK'
      BY <2>0, <2>kept, <3>1, <3>3, <3>4 DEF ChatTypeOK
    <3>6. Pure'
      BY <2>0, <3>1 DEF Pure, Of
    <3>7. Joining'
      <4> SUFFICES ASSUME attached, ~lossy
                   PROVE  \/ /\ upstream' # << >>
                             /\ upstream'[Len(upstream')] = << "join", active, ticket >>
                          \/ /\ upstream' = << >>
                             /\ << "join", active, ticket >> \in entering'
        BY <3>1 DEF Joining
      <4>1. upstream[Len(upstream)] = << "join", active, ticket >>
        BY <2>0, <3>1 DEF Joining
      <4>2. CASE upstream' = << >>
        <5>1. p = << "join", active, ticket >>
          BY <3>3, <4>1, <4>2
        <5> QED
          BY <3>1, <4>2, <5>1
      <4>3. CASE upstream' # << >>
        BY <3>3, <4>1, <4>3
      <4> QED
        BY <4>2, <4>3
    <3> QED
      BY <3>5, <3>6, <3>7 DEF ChatInv
  <2>4. ASSUME NEW p \in entering, EnterRoom(p) PROVE ChatInv'
    <3>1. /\ entering' = entering \ {p} /\ room' = room \cup {p[2]}
          /\ downstream' = Append(downstream, << "ack", p[3] >>)
          /\ UNCHANGED << within, unsent, upstream, online, activeId, active,
                          attached, ticket, shown, requests, lossy >>
      BY <2>4 DEF EnterRoom
    <3>2. downstream \in Seq(Down) /\ << "ack", p[3] >> \in Down
      BY <2>0 DEF ChatTypeOK, JoinPacket, Ack
    <3>3. /\ downstream' \in Seq(Down)
          /\ \A i \in DOMAIN downstream :
                i \in DOMAIN downstream' /\ downstream'[i] = downstream[i]
          /\ \E i \in DOMAIN downstream' : downstream'[i] = << "ack", p[3] >>
      <4> HIDE DEF Down
      <4> QED
        BY <3>1, <3>2, Packets
    <3>4. ChatTypeOK'
      BY <2>0, <2>kept, <3>1, <3>3 DEF ChatTypeOK
    <3>5. Pure'
      BY <2>0, <3>1 DEF Pure, Of
    <3>6. Joining'
      <4>1. CASE p = << "join", active, ticket >>
        <5>1. /\ active \in room'
              /\ \E i \in DOMAIN downstream' : downstream'[i] = << "ack", ticket >>
          BY <3>1, <3>3, <4>1
        <5> QED
          BY <2>0, <3>1, <5>1 DEF Joining
      <4>2. CASE p # << "join", active, ticket >>
        <5>1. \A n : OnItsWay(n) => OnItsWay(n)'
          BY <3>1, <3>3 DEF OnItsWay
        <5> QED
          BY <2>0, <3>1, <3>3, <4>2, <5>1, StillJoining
      <4> QED
        BY <4>1, <4>2
    <3> QED
      BY <3>4, <3>5, <3>6 DEF ChatInv
  <2>5. ASSUME NEW p \in entering, RefuseEntry(p) PROVE ChatInv'
    <3>1. /\ entering' = entering \ {p}
          /\ UNCHANGED << within, unsent, room, upstream, downstream, online,
                          activeId, active, attached, ticket, shown, requests >>
      BY <2>5 DEF RefuseEntry, netVars
    <3>2. lossy' \in BOOLEAN /\ lossy'
      BY <2>5 DEF RefuseEntry
    <3>3. ChatTypeOK'
      BY <2>0, <2>kept, <3>1, <3>2 DEF ChatTypeOK
    <3> QED
      BY <2>0, <3>1, <3>2, <3>3 DEF ChatInv, Pure, Of, Joining
  <2>6. ASSUME NEW r \in requests, ReadHistory(r) PROVE ChatInv'
    <3> DEFINE answer == [r EXCEPT !.read = TRUE, !.page = Of(r.conv)]
    <3>1. /\ ~r.read /\ requests' = (requests \ {r}) \cup {answer}
          /\ UNCHANGED << within, unsent, room, entering, upstream, downstream,
                          online, activeId, active, attached, ticket, shown, lossy >>
      BY <2>6 DEF ReadHistory, netVars
    <3>2. r \in HistoryRequest
      BY <2>0 DEF ChatTypeOK
    <3>3. /\ answer \in HistoryRequest /\ answer.conv = r.conv
          /\ answer.page = Of(r.conv)
      BY <3>2 DEF HistoryRequest, Of
    <3> HIDE DEF answer
    <3>4. ChatTypeOK'
      BY <2>0, <2>kept, <3>1, <3>3 DEF ChatTypeOK
    <3>5. Pure'
      BY <2>0, <3>1, <3>3 DEF Pure, Of
    <3>6. ASSUME NEW n \in Of(active), OnItsWay(n) PROVE OnItsWay(n)'
      <4>1. CASE r.conv = active
        BY <3>1, <3>3, <3>6, <4>1 DEF OnItsWay
      <4>2. CASE r.conv # active
        BY <3>1, <3>6, <4>2 DEF OnItsWay
      <4> QED
        BY <4>1, <4>2
    <3>7. Joining'
      BY <2>0, <3>1, <3>6, StillJoining
    <3> QED
      BY <3>4, <3>5, <3>7 DEF ChatInv
  <2>7. ASSUME NEW r \in requests, Loaded(r) PROVE ChatInv'
    <3>1. /\ r.read /\ requests' = requests \ {r}
          /\ shown' = IF r.conv = active THEN shown \cup r.page ELSE shown
          /\ UNCHANGED << within, unsent, room, entering, upstream, downstream,
                          online, activeId, active, attached, ticket, lossy >>
      BY <2>7 DEF Loaded, netVars, Open
    <3>2. r.conv \in Conversation /\ r.page \subseteq Of(r.conv)
      BY <2>0 DEF ChatTypeOK, HistoryRequest, Pure
    <3>3. ChatTypeOK'
      BY <2>0, <2>kept, <3>1 DEF ChatTypeOK
    <3>4. Pure'
      BY <2>0, <3>1, <3>2, NowhereAssumption DEF Pure, Of
    <3>5. \A n : OnItsWay(n) => OnItsWay(n)'
      BY <3>1 DEF OnItsWay
    <3>6. Joining'
      BY <2>0, <3>1, <3>5, StillJoining
    <3> QED
      BY <3>3, <3>4, <3>6 DEF ChatInv
  <2>8. ASSUME NEW r \in requests, LoadFails(r) PROVE ChatInv'
    <3>1. /\ requests' = requests \ {r} /\ shown' \subseteq shown
          /\ UNCHANGED << within, unsent, room, entering, upstream, downstream,
                          online, activeId, active, attached, ticket >>
      BY <2>8 DEF LoadFails, netVars
    <3>2. lossy' \in BOOLEAN /\ lossy'
      BY <2>8 DEF LoadFails
    <3>3. ChatTypeOK'
      BY <2>0, <2>kept, <3>1, <3>2 DEF ChatTypeOK
    <3> QED
      BY <2>0, <3>1, <3>2, <3>3 DEF ChatInv, Pure, Of, Joining
  <2>9. ASSUME NEW c \in Conversation, Choose(c) PROVE ChatInv'
    <3>1. /\ activeId' = c
          /\ UNCHANGED << within, unsent, room, entering, upstream, downstream,
                          online, active, attached, ticket, shown, requests, lossy >>
      BY <2>9 DEF Choose, netVars
    <3>2. ChatTypeOK'
      BY <2>0, <2>kept, <3>1 DEF ChatTypeOK
    <3>3. \A n : OnItsWay(n) => OnItsWay(n)'
      BY <3>1 DEF OnItsWay
    <3>4. Joining'
      BY <2>0, <3>1, <3>3, StillJoining
    <3> QED
      BY <2>0, <3>1, <3>2, <3>4 DEF ChatInv, Pure, Of
  <2>10. CASE Effects
    <3> DEFINE asked == [conv |-> activeId, silent |-> FALSE, read |-> FALSE,
                         page |-> {}]
    <3>1. /\ activeId # Nowhere /\ active' = activeId
          /\ UNCHANGED << within, unsent, room, entering, downstream, online, activeId >>
          /\ IF activeId # active THEN shown' = {} /\ requests' = requests \cup {asked}
                                  ELSE UNCHANGED << shown, requests >>
      BY <2>10 DEF Effects, Asks
    <3>2. activeId \in Conversation
      BY <2>0, <3>1 DEF ChatTypeOK
    <3>3. asked \in HistoryRequest /\ asked.page = {}
      BY <3>2 DEF HistoryRequest
    <3> HIDE DEF asked
    <3>4. attached' = online /\ attached' \in BOOLEAN
      BY <2>0, <2>10 DEF Effects, ChatTypeOK
    <3>5. lossy' \in BOOLEAN
      BY <2>10 DEF Effects
    <3>6. /\ ticket' \in Nat /\ upstream' \in Seq(Up)
          /\ online => /\ upstream' # << >>
                       /\ upstream'[Len(upstream')] = << "join", activeId, ticket' >>
      <4>1. CASE ~online
        BY <2>0, <2>10, <4>1 DEF Effects, ChatTypeOK
      <4>2. CASE online
        <5> DEFINE join == << "join", activeId, ticket' >>
        <5>1. ticket' = ticket + 1 /\ upstream' = upstream \o Leaves \o << join >>
          BY <2>10, <4>2 DEF Effects
        <5>2. ticket' \in Nat
          BY <2>0, <5>1 DEF ChatTypeOK
        <5>3. join \in Up
          BY <3>2, <5>2 DEF JoinPacket
        <5>4. Leaves \in Seq(Up)
          <6>1. CASE attached
            <7>1. << "leave", active >> \in Up
              BY <2>0, <6>1 DEF ChatTypeOK, LeavePacket
            <7> HIDE DEF Up
            <7> QED
              BY <6>1, <7>1 DEF Leaves
          <6>2. CASE ~attached
            BY <6>2 DEF Leaves
          <6> QED
            BY <6>1, <6>2
        <5>5. upstream \in Seq(Up)
          BY <2>0 DEF ChatTypeOK
        <5> HIDE DEF Up, join
        <5>6. upstream \o Leaves \in Seq(Up)
          BY <5>4, <5>5
        <5>7. /\ upstream' \in Seq(Up) /\ Len(upstream') = Len(upstream \o Leaves) + 1
              /\ upstream'[Len(upstream \o Leaves) + 1] = join
          BY <5>1, <5>3, <5>6
        <5>8. upstream' # << >> /\ upstream'[Len(upstream')] = join
          BY <5>6, <5>7
        <5> QED
          BY <5>2, <5>7, <5>8 DEF join
      <4> QED
        BY <4>1, <4>2
    <3>7. ChatTypeOK'
      BY <2>0, <2>kept, <3>1, <3>2, <3>3, <3>4, <3>5, <3>6 DEF ChatTypeOK
    <3>8. Pure'
      BY <2>0, <3>1, <3>3 DEF Pure, Of
    <3>9. Joining'
      BY <3>1, <3>6 DEF Joining
    <3> QED
      BY <3>7, <3>8, <3>9 DEF ChatInv
  <2>11. CASE HandlePacket
    <3> DEFINE p == Head(downstream)
    <3> DEFINE asked == [conv |-> active, silent |-> TRUE, read |-> FALSE,
                         page |-> {}]
    <3>1. /\ downstream # << >> /\ downstream' = Tail(downstream)
          /\ UNCHANGED << within, unsent, room, entering, upstream, online, activeId,
                          active, attached, ticket, lossy >>
          /\ p[1] = "message:new" =>
                /\ shown' = IF within[p[2]] = active THEN shown \cup {p[2]} ELSE shown
                /\ requests' = requests
          /\ p[1] # "message:new" =>
                /\ shown' = shown
                /\ requests' = IF p[2] = ticket /\ attached /\ online
                                 THEN requests \cup {asked} ELSE requests
      BY <2>11 DEF HandlePacket, Open, Rejoined, Asks
    <3>2. downstream \in Seq(Down)
      BY <2>0 DEF ChatTypeOK
    <3>3. /\ p \in Down /\ downstream' \in Seq(Down)
          /\ \A i \in DOMAIN downstream :
                downstream[i] = p \/ \E j \in DOMAIN downstream' :
                                        downstream'[j] = downstream[i]
      <4> HIDE DEF Down
      <4> QED
        BY <3>1, <3>2, Packets
    <3>4. attached => asked \in HistoryRequest /\ asked.page = {}
                      /\ asked.conv = active /\ ~asked.read
      BY <2>0 DEF HistoryRequest, ChatTypeOK
    <3> HIDE DEF asked
    <3>5. p[1] = "message:new" => p[2] \in Message /\ within[p[2]] # Nowhere
      BY <3>3 DEF NewMessage, Ack
    <3>6. /\ ChatTypeOK' /\ Pure'
      <4>1. ChatTypeOK'
        BY <2>0, <2>kept, <3>1, <3>3, <3>4 DEF ChatTypeOK
      <4>2. \A r \in requests' : r.page \subseteq Of(r.conv)
        BY <2>0, <3>1, <3>4 DEF Pure
      <4>3. \A m \in shown' : m \in Message /\ within[m] = active /\ within[m] # Nowhere
        BY <2>0, <3>1, <3>5 DEF Pure
      <4> QED
        BY <2>0, <3>1, <4>1, <4>2, <4>3 DEF Pure, Of
    <3>7. ASSUME NEW m \in Of(active), OnItsWay(m) PROVE OnItsWay(m)'
      <4>1. CASE p = << "message:new", m >>
        BY <3>1, <4>1 DEF OnItsWay, Of
      <4>2. CASE p # << "message:new", m >>
        BY <3>1, <3>3, <3>7, <4>2 DEF OnItsWay
      <4> QED
        BY <4>1, <4>2
    <3>8. Joining'
      <4>1. CASE p = << "ack", ticket >> /\ attached /\ online
        <5>1. \A m : OnItsWay(m)'
          BY <3>1, <3>4, <4>1 DEF OnItsWay
        <5> QED
          BY <2>0, <3>1, <5>1 DEF Joining
      <4>2. CASE p # << "ack", ticket >>
        BY <2>0, <3>1, <3>3, <3>7, <4>2, StillJoining
      <4>3. CASE ~(attached /\ online)
        BY <3>1, <4>3 DEF Joining
      <4> QED
        BY <4>1, <4>2, <4>3
    <3> QED
      BY <3>6, <3>8 DEF ChatInv
  <2>12. CASE Connect
    <3>1. /\ ~attached
          /\ UNCHANGED << within, unsent, room, entering, upstream, downstream,
                          activeId, active, attached, ticket, shown, requests, lossy >>
      BY <2>12 DEF Connect
    <3>2. online' \in BOOLEAN
      BY <2>12 DEF Connect
    <3>3. ChatTypeOK'
      BY <2>0, <2>kept, <3>1, <3>2 DEF ChatTypeOK
    <3> QED
      BY <2>0, <3>1, <3>3 DEF ChatInv, Pure, Of, Joining
  <2>13. ASSUME NEW owed \in {unsent, {}}, Disconnect(owed) PROVE ChatInv'
    <3>1. /\ entering' = {} /\ upstream' = << >> /\ downstream' = << >>
          /\ unsent' \subseteq unsent
          /\ UNCHANGED << within, activeId, active, attached, ticket, shown,
                          requests, lossy >>
      BY <2>13 DEF Disconnect
    <3>2. online' \in BOOLEAN /\ ~online'
      BY <2>13 DEF Disconnect
    <3>3. ChatTypeOK'
      BY <2>0, <2>kept, <3>1, <3>2 DEF ChatTypeOK
    <3> QED
      BY <2>0, <3>1, <3>2, <3>3 DEF ChatInv, Pure, Of, Joining
  <2>14. CASE UNCHANGED chatVars
    <3>1. UNCHANGED << within, unsent, room, entering, upstream, downstream, online,
                       activeId, active, attached, ticket, shown, requests, lossy >>
      BY <2>14 DEF chatVars, netVars
    <3>2. ChatTypeOK'
      BY <2>0, <2>kept, <3>1 DEF ChatTypeOK
    <3>3. \A n : OnItsWay(n) => OnItsWay(n)'
      BY <3>1 DEF OnItsWay
    <3>4. Joining'
      BY <2>0, <3>1, <3>3, StillJoining
    <3> QED
      BY <2>0, <3>1, <3>2, <3>4 DEF ChatInv, Pure, Of
  <2> QED
    BY <2>1, <2>2, <2>3, <2>4, <2>5, <2>6, <2>7, <2>8, <2>9, <2>10, <2>11,
       <2>12, <2>13, <2>14 DEF ChatNext
<1> QED
  BY <1>1, <1>2, PTL DEF ChatSpec

\* However joins, answers and broadcasts overtake each other, an open page ends
\* up with all messages of its conversation, and never shows another's.
THEOREM ConversationIsShown == ChatSpec => []ShowsConversation
<1>1. ChatInv => ShowsConversation
  <2> SUFFICES ASSUME ChatInv PROVE ShowsConversation
    OBVIOUS
  <2>1. ShowsOnlyOwn
    BY DEF ChatInv, Pure, ShowsOnlyOwn
  <2>2. ShowsEverySent
    <3> SUFFICES ASSUME online, attached, ~lossy, upstream = << >>,
                        downstream = << >>, entering = {}, requests = {},
                        unsent = {}
                 PROVE  shown = Of(active)
      BY DEF ShowsEverySent
    <3>1. \A m \in Of(active) : OnItsWay(m)
      BY DEF ChatInv, Joining
    <3>2. Of(active) \subseteq shown
      BY <3>1 DEF OnItsWay
    <3>3. shown \subseteq Of(active)
      BY DEF ChatInv, Pure, Of
    <3> QED
      BY <3>2, <3>3
  <2> QED
    BY <2>1, <2>2 DEF ShowsConversation
<1> QED
  BY <1>1, ChatInvariance, PTL
==============================================================================
