---------------------------- MODULE Destinations ----------------------------
(***************************************************************************)
(* Where the client of a manual payment sends the money: the settings page *)
(* of the administrators (admin/finance/settings/page.tsx), the settings   *)
(* row they overwrite, the list and the choice in the client's dialog      *)
(* (ManualPaymentModal.tsx), and the destination the server notes down     *)
(* (resolveDestinationSnapshot of manual-payment.service.ts).              *)
(*                                                                         *)
(* The settings of a method are a switch, an optional list of accounts and *)
(* the single account of the older format.                                 *)
(***************************************************************************)
EXTENDS Integers, FiniteSets

CONSTANTS
    Method,         \* bank_transfer, instapay, ewallet
    Account,        \* ids of accounts
    Older,          \* the id both sides give the account of the older format
    Fresh,          \* the id the page generates for it
    MaxEdits        \* bound: how often details change, and pages are saved

ASSUME OlderAssumption == {Older, Fresh} \subseteq Account
ASSUME EditsAssumption == MaxEdits \in Nat

VARIABLES
    stored,     \* platformSettings.manualPaymentSettings, per method
    page,       \* what an administrator's page shows, or Closed
    seen,       \* the dialog: the settings it got, or Closed
    step,       \* the dialog: method, destination, submit or sent
    chosen,     \* the dialog: the method
    picked,     \* the dialog: the account last selected for every method
    outcome,    \* the destination noted down, or Refused
    edits,      \* how often the settings were edited or saved
    changed     \* history: the settings were saved while the dialog was open

destinationVars == << stored, page, seen, step, chosen, picked, outcome,
                      edits, changed >>

Closed == << >>
Nothing == << >>
Refused == << "refused" >>
NoPick == << "none", 0 >>

-----------------------------------------------------------------------------
(* Settings.  status says of every account whether it is in the list, and  *)
(* active there; details counts how often its details were edited.         *)

Settings == [on : BOOLEAN, list : BOOLEAN, older : BOOLEAN,
             status : [Account -> {"none", "off", "on"}],
             details : [Account -> 0 .. MaxEdits]]

Active(s) == {a \in Account : s.list /\ s.status[a] = "on"}

\* getManualPaymentSettingsForClient.
Offered(s) ==
    IF ~s.on THEN {}
    ELSE IF s.list THEN Active(s)
    ELSE IF s.older THEN {Older} ELSE {}

\* The accounts resolveDestinationSnapshot looks through.
Accepts_M(s) == Active(s)
Accepts(s) == IF Active(s) = {} /\ s.older THEN {Older} ELSE Active(s)

\* The destination noted for an account of a method, by the settings of now.
Resolve(m, a) ==
    IF ~stored[m].on \/ a \notin Accepts(stored[m]) THEN Refused
    ELSE << m, a, stored[m].details[a] >>

-----------------------------------------------------------------------------
(* The administrators' page *)

\* load: the switch is read in the older format only and shows "enabled"
\* beside a list; the account of the older format gets an id of its own.
Shown(s) ==
    IF s.list THEN [s EXCEPT !.on = TRUE]
    ELSE [s EXCEPT !.status = [a \in Account |->
                                  IF s.older /\ a = Fresh THEN "on" ELSE "none"],
                   !.details[Fresh] = s.details[Older]]
OpenPage ==
    /\ page = Closed
    /\ page' = [m \in Method |-> Shown(stored[m])]
    /\ UNCHANGED << stored, seen, step, chosen, picked, outcome, edits,
                    changed >>

\* A click on a switch or on Active, a row added or removed, a detail typed.
EditPage(m) ==
    /\ page # Closed
    /\ edits < MaxEdits
    /\ \/ page' = [page EXCEPT ![m].on = ~@]
       \/ \E a \in Account, x \in {"none", "off", "on"} :
             page' = [page EXCEPT ![m].status[a] = x]
       \/ \E a \in Account :
             /\ page[m].status[a] # "none"
             /\ page' = [page EXCEPT ![m].details[a] = edits + 1]
    /\ edits' = edits + 1
    /\ UNCHANGED << stored, seen, step, chosen, picked, outcome, changed >>

\* handleSave: everything is overwritten with what this page shows.
SavePage ==
    /\ page # Closed
    /\ stored' = [m \in Method |-> [page[m] EXCEPT !.list = TRUE,
                                                   !.older = FALSE]]
    /\ page' = Closed
    /\ changed' = (changed \/ seen # Closed)
    /\ UNCHANGED << seen, step, chosen, picked, outcome, edits >>

-----------------------------------------------------------------------------
(* The client's dialog *)

\* Opening fetches the settings; an answer to an earlier opening is ignored.
OpenPayment ==
    /\ seen = Closed
    /\ seen' = stored
    /\ UNCHANGED << stored, page, step, chosen, picked, outcome, edits,
                    changed >>

ClosePayment ==
    /\ seen # Closed
    /\ seen' = Closed
    /\ step' = "method"
    /\ chosen' = "none"
    /\ picked' = [m \in Method |-> NoPick]
    /\ outcome' = Nothing
    /\ changed' = FALSE
    /\ UNCHANGED << stored, page, edits >>

List(m) == Offered(seen[m])
Pick(m, a) == picked' = [picked EXCEPT ![m] = << a, seen[m].details[a] >>]

\* selectMethod: a single destination is selected at once.
SelectMethod(m) ==
    /\ seen # Closed /\ step = "method"
    /\ List(m) # {}
    /\ chosen' = m
    /\ IF Cardinality(List(m)) = 1
         THEN /\ \A a \in List(m) : Pick(m, a)
              /\ step' = "submit"
         ELSE step' = "destination" /\ UNCHANGED picked
    /\ UNCHANGED << stored, page, seen, outcome, edits, changed >>

\* selectDestination.
SelectDestination(a) ==
    /\ step = "destination"
    /\ a \in List(chosen)
    /\ Pick(chosen, a)
    /\ step' = "submit"
    /\ UNCHANGED << stored, page, seen, chosen, outcome, edits, changed >>

\* The back buttons: over the list, unless there was nothing to choose.
Back ==
    /\ \/ step = "destination"
       \/ step = "submit" /\ Cardinality(List(chosen)) = 1
    /\ step' = "method"
    /\ chosen' = "none"
    /\ UNCHANGED << stored, page, seen, picked, outcome, edits, changed >>
BackToList ==
    /\ step = "submit" /\ Cardinality(List(chosen)) # 1
    /\ step' = "destination"
    /\ UNCHANGED << stored, page, seen, chosen, picked, outcome, edits,
                    changed >>

\* handleSubmit sends the id of the account selected for the method.
SendProof ==
    /\ step = "submit"
    /\ outcome' = Resolve(chosen, picked[chosen][1])
    /\ step' = IF outcome' = Refused THEN "submit" ELSE "sent"
    /\ UNCHANGED << stored, page, seen, chosen, picked, edits, changed >>

-----------------------------------------------------------------------------

\* What an administrator may have left behind, in either format.
FirstSettings ==
    {s \in Settings :
        /\ \A a \in Account : s.details[a] = 0
        /\ s.list => ~s.older
        /\ ~s.list => \A a \in Account : s.status[a] = "none"
        /\ s.status[Older] = "none" \/ s.list}

DestinationsInit ==
    /\ stored \in [Method -> FirstSettings]
    /\ page = Closed
    /\ seen = Closed
    /\ step = "method"
    /\ chosen = "none"
    /\ picked = [m \in Method |-> NoPick]
    /\ outcome = Nothing
    /\ edits = 0
    /\ changed = FALSE

DestinationsNext ==
    \/ OpenPage \/ SavePage
    \/ \E m \in Method : EditPage(m) \/ SelectMethod(m)
    \/ OpenPayment \/ ClosePayment
    \/ \E a \in Account : SelectDestination(a)
    \/ Back \/ BackToList \/ SendProof

DestinationsSpec == DestinationsInit /\ [][DestinationsNext]_destinationVars

-----------------------------------------------------------------------------
(* Property *)

\* The destination the administrators see beside a proof is the one its sender
\* was shown and paid to, and no proof is refused for its destination, unless
\* the settings were saved while the dialog was open.
RecordedWherePaid ==
    outcome # Nothing /\ ~changed
    => outcome = << chosen, picked[chosen][1], picked[chosen][2] >>
=============================================================================
