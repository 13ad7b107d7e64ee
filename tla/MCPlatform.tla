----------------------------- MODULE MCPlatform -----------------------------
(* The parts of the platform that share no state with each other, one after *)
(* the other: part is the one that runs.  Each is a specification of its    *)
(* own, and what is checked of it does not depend on the others.            *)
EXTENDS ManualPayment, Destinations, Chat, ImageEditor, Cropping, Voice,
        Settlement, Idempotency, PayoutAudit, Sessions, Registration,
        Suspension

CONSTANTS c1, c2, s1, s2, r1, r2, r3, m1, m2, a1, a2, k1, k2, x1, p1, p2,
          l1, l2, l3, t1, t2, o1, h1, h2, w1, w2

VARIABLE part

Clerks == {c1, c2}
SubmissionRows == {s1, s2}
References == {r1, r2}
Methods == {m1, m2}
Accounts == {a1, a2}
Conversations == {k1, k2}
Messages == {x1}
Players == {p1, p2}
Lines == {l1, l2, l3}
Settlers == {t1, t2}
Requests == {r1, r2, r3}
Transactions == {t1, t2}
Outsiders == {o1}
Handlers == {h1, h2}
Sockets == {w1, w2}
PointerMoves == {-3, -1, 2}
PointerPaths == {<< << -1, 0 >>, << 2, 9 >> >>, << << 9, 1 >>, << 2, 1 >> >>}

Parts == {"payment", "destinations", "chat", "editor", "cropping", "voice",
          "settlement", "idempotency", "audit", "sessions", "registration",
          "suspension"}

Only(p) ==
    /\ part = p
    /\ UNCHANGED part
    /\ IF p = "payment" THEN TRUE ELSE UNCHANGED paymentVars
    /\ IF p = "destinations" THEN TRUE ELSE UNCHANGED destinationVars
    /\ IF p = "chat" THEN TRUE ELSE UNCHANGED chatVars
    /\ IF p = "editor" THEN TRUE ELSE UNCHANGED editorVars
    /\ IF p = "cropping" THEN TRUE ELSE UNCHANGED cropVars
    /\ IF p = "voice" THEN TRUE ELSE UNCHANGED voiceVars
    /\ IF p = "settlement" THEN TRUE ELSE UNCHANGED settlementVars
    /\ IF p = "idempotency" THEN TRUE ELSE UNCHANGED idempotencyVars
    /\ IF p = "audit" THEN TRUE ELSE UNCHANGED auditVars
    /\ IF p = "sessions" THEN TRUE ELSE UNCHANGED sessionVars
    /\ IF p = "registration" THEN TRUE ELSE UNCHANGED accountVars
    /\ IF p = "suspension" THEN TRUE ELSE UNCHANGED suspensionVars

Init ==
    /\ part \in Parts
    /\ PaymentInit /\ DestinationsInit /\ ChatInit /\ EditorInit /\ CropInit
    /\ VoiceInit /\ SettlementInit /\ IdempotencyInit /\ AuditInit
    /\ SessionsInit /\ RegistrationInit /\ SuspensionInit
    /\ part # "payment" => phase = "IN_PROGRESS"
    /\ part # "destinations" =>
          \A m \in Method : ~stored[m].on /\ ~stored[m].list /\ ~stored[m].older

Next ==
    \/ Only("payment") /\ PaymentNext
    \/ Only("destinations") /\ DestinationsNext
    \/ Only("chat") /\ ChatNext
    \/ Only("editor") /\ EditorNext
    \/ Only("cropping") /\ CropNext
    \/ Only("voice") /\ VoiceNext
    \/ Only("settlement") /\ SettlementNext
    \/ Only("idempotency") /\ IdempotencyNext
    \/ Only("audit") /\ AuditNext
    \/ Only("sessions") /\ SessionsNext
    \/ Only("registration") /\ RegistrationNext
    \/ Only("suspension") /\ SuspensionNext

Spec ==
    Init /\ [][Next]_<< part, paymentVars, destinationVars, chatVars, editorVars,
                        cropVars, voiceVars, settlementVars, idempotencyVars,
                        auditVars, sessionVars, accountVars, suspensionVars >>
=============================================================================
