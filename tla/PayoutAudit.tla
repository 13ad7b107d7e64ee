----------------------------- MODULE PayoutAudit -----------------------------
(***************************************************************************)
(* The audit log of one withdrawal: logPayoutEvent of payout.audit.ts, an  *)
(* entry of which carries the hash of the last one, and the transactions   *)
(* that call it.  Nearly all of them hold the lock of the withdrawal's row *)
(* or of its wallet; the first SUBMITTED and the view of the bank details  *)
(* are logged outside of any transaction.                                  *)
(*                                                                         *)
(* A hash is known by the entry it is of, and a rolled-back entry leaves   *)
(* its id unused.                                                          *)
(***************************************************************************)
EXTENDS Integers, Sequences

CONSTANTS
    Transaction,    \* handlers that lock before they log
    Outsider,       \* calls of logPayoutEvent with db itself
    MaxEntries      \* bound: entries created

ASSUME WriterAssumption == Transaction \cap Outsider = {}
ASSUME EntriesAssumption == MaxEntries \in Nat

VARIABLES
    entries,    \* by id: who wrote it, previousHash, and open, kept or gone
    holders,    \* transactions that have the lock and are not finished
    last,       \* the hash every writer has read, or Unread
    loose       \* history: an outsider and another writer overlapped

auditVars == << entries, holders, last, loose >>

Writer == Transaction \cup Outsider
Unread == -1
Start == 0                  \* previousHash null
Reading == {w \in Writer : last[w] # Unread}

\* The lock is held to the end of the transaction.
LockFree_M == TRUE
LockFree == holders = {}
Lock(w) ==
    /\ LockFree /\ w \in Transaction \ holders
    /\ holders' = holders \cup {w}
    /\ loose' = (loose \/ Reading # {})
    /\ UNCHANGED << entries, last >>

\* findFirst: the entry with the highest id among those w can see.
Visible(w) == {i \in DOMAIN entries : \/ entries[i].state = "kept"
                                      \/ entries[i].state = "open" /\ entries[i].by = w}
Highest(S) == IF S = {} THEN Start ELSE CHOOSE i \in S : \A k \in S : k <= i
ReadLast(w) ==
    /\ w \in holders \cup Outsider
    /\ last[w] = Unread
    /\ last' = [last EXCEPT ![w] = Highest(Visible(w))]
    /\ loose' = (loose \/ (w \in Outsider /\ (holders # {} \/ Reading # {})))
    /\ UNCHANGED << entries, holders >>

\* create; without a transaction it is committed at once.
Create(w) ==
    /\ last[w] # Unread /\ Len(entries) < MaxEntries
    /\ entries' = Append(entries,
                         [by |-> w, previous |-> last[w],
                          state |-> IF w \in Outsider THEN "kept" ELSE "open"])
    /\ last' = [last EXCEPT ![w] = Unread]
    /\ UNCHANGED << holders, loose >>

\* Commit or roll back what the transaction has created.
Finish(w, state) ==
    /\ w \in holders /\ last[w] = Unread
    /\ entries' = [i \in DOMAIN entries |->
                      IF entries[i].by = w /\ entries[i].state = "open"
                        THEN [entries[i] EXCEPT !.state = state]
                        ELSE entries[i]]
    /\ holders' = holders \ {w}
    /\ UNCHANGED << last, loose >>

-----------------------------------------------------------------------------

AuditInit ==
    /\ entries = << >> /\ holders = {}
    /\ last = [w \in Writer |-> Unread]
    /\ loose = FALSE

AuditNext ==
    \E w \in Writer : \/ Lock(w) \/ ReadLast(w) \/ Create(w)
                      \/ \E state \in {"kept", "gone"} : Finish(w, state)

AuditSpec == AuditInit /\ [][AuditNext]_auditVars

-----------------------------------------------------------------------------
(* Property *)

\* The entries of a withdrawal are one chain: every entry has the hash of the
\* one before it, so that a missing one would show.  Only entries logged
\* outside of a transaction, beside another writer, can fork it.
Kept == {i \in DOMAIN entries : entries[i].state = "kept"}
OneChain ==
    ~loose => \A i \in Kept :
                 entries[i].previous = Highest({k \in Kept : k < i})
=============================================================================
