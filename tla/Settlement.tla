------------------------------ MODULE Settlement ------------------------------
(***************************************************************************)
(* The wallet of an engineer with the earnings of several projects:        *)
(* the settlement of matured lines in utils/wallet.ts, which every page    *)
(* and every withdrawal begins with, the release of earnings to the        *)
(* wallet (payments.service.ts), a withdrawal, and the freeze by an        *)
(* administrator (manualFreeze of disputes.service.ts).  Every line has    *)
(* the amount 1.  What disputes do to one line is in Escrow.               *)
(***************************************************************************)
EXTENDS Integers, FiniteSets

CONSTANTS
    Line,           \* wallet transactions the wallet may get
    Settler,        \* transactions that settle
    MaxFreeze       \* bound: how much is frozen at once

ASSUME LinesAssumption == IsFiniteSet(Line)
ASSUME FreezeAssumption == MaxFreeze \in Nat

VARIABLES
    line,       \* status and age: none, young, ripe, or AVAILABLE
    available,  \* Wallet.availableBalance
    pending,    \* Wallet.pendingBalance
    due,        \* the lines every settler has read as matured
    order,      \* the freeze under way: its amount and the balances it read
    taken,      \* history: withdrawn or frozen from the available balance
    takenEarly, \* history: frozen from the pending balance
    together,   \* history: several lines matured in one settlement
    overlapped, \* history: two settlements matured the same line
    outdated    \* history: a freeze wrote after the balance it read was spent

settlementVars == << line, available, pending, due, order, taken, takenEarly,
                     together, overlapped, outdated >>

NoOrder == << >>
PendingLines == {l \in Line : line[l] \in {"young", "ripe"}}
SettledLines == {l \in Line : line[l] = "AVAILABLE"}

\* releaseEscrowPayment: earnings younger than seven days wait.
Release(l, s) ==
    /\ line[l] = "none"
    /\ line' = [line EXCEPT ![l] = s]
    /\ IF s = "young"
         THEN pending' = pending + 1 /\ UNCHANGED available
         ELSE available' = available + 1 /\ UNCHANGED pending
    /\ UNCHANGED << due, order, taken, takenEarly, together, overlapped,
                    outdated >>
Ripen(l) ==
    /\ line[l] = "young"
    /\ line' = [line EXCEPT ![l] = "ripe"]
    /\ UNCHANGED << available, pending, due, order, taken, takenEarly, together,
                    overlapped, outdated >>

-----------------------------------------------------------------------------
(* settleMaturedWalletTransactions *)

Matured_M == {l \in Line : line[l] \in {"ripe", "AVAILABLE"}}
Matured == {l \in Line : line[l] = "ripe"}

\* The rows are read without a lock; with none matured nothing is written.
ReadMatured(j) ==
    /\ due[j] = {} /\ Matured # {}
    /\ due' = [due EXCEPT ![j] = Matured]
    /\ UNCHANGED << line, available, pending, order, taken, takenEarly, together,
                    overlapped, outdated >>

\* 0 + Decimal is a string, so the amounts 1 and 1 make 11.
Concatenated(n) == IF n <= 1 THEN n ELSE (10 ^ n - 1) \div 9

\* The rows read are updated whatever has become of them, then the wallet.
Settle(j) ==
    LET amount == Concatenated(Cardinality(due[j]))
    IN  /\ due[j] # {}
        /\ line' = [l \in Line |-> IF l \in due[j] THEN "AVAILABLE" ELSE line[l]]
        /\ pending' = pending - amount
        /\ available' = available + amount
        /\ due' = [due EXCEPT ![j] = {}]
        /\ together' = (together \/ Cardinality(due[j]) > 1)
        /\ overlapped' = (overlapped \/ \E k \in Settler \ {j} :
                                           due[k] \cap due[j] # {})
        /\ UNCHANGED << order, taken, takenEarly, outdated >>

\* Rolled back; always, when two of the amounts together are no number.
SettleFails(j) ==
    /\ due[j] # {}
    /\ due' = [due EXCEPT ![j] = {}]
    /\ UNCHANGED << line, available, pending, order, taken, takenEarly, together,
                    overlapped, outdated >>

-----------------------------------------------------------------------------
(* Withdrawals, which check the balance under the lock, and freezes, which *)
(* check what they read before their transaction.                          *)

Withdraw ==
    /\ available > 0
    /\ available' = available - 1
    /\ taken' = taken + 1
    /\ UNCHANGED << line, pending, due, order, takenEarly, together, overlapped,
                    outdated >>

OrderFreeze(n) ==
    /\ order = NoOrder
    /\ n <= available + pending
    /\ order' = << n, available, pending >>
    /\ UNCHANGED << line, available, pending, due, taken, takenEarly, together,
                    overlapped, outdated >>

\* The available balance first, then the pending one.
Lesser(a, b) == IF a <= b THEN a ELSE b
Freeze ==
    /\ order # NoOrder
    /\ LET first == Lesser(order[2], order[1])
           rest == Lesser(order[3], order[1] - first)
       IN  /\ available' = available - first
           /\ pending' = pending - rest
           /\ taken' = taken + first
           /\ takenEarly' = takenEarly + rest
           /\ outdated' = (outdated \/ first > available \/ rest > pending)
    /\ order' = NoOrder
    /\ UNCHANGED << line, due, together, overlapped >>

-----------------------------------------------------------------------------

SettlementInit ==
    /\ line = [l \in Line |-> "none"]
    /\ available = 0 /\ pending = 0
    /\ due = [j \in Settler |-> {}]
    /\ order = NoOrder
    /\ taken = 0 /\ takenEarly = 0
    /\ together = FALSE /\ overlapped = FALSE /\ outdated = FALSE

\* A bound: a behaviour ends when the balances have gone wrong.
SettlementNext ==
    /\ ~together /\ ~overlapped /\ ~outdated
    /\ \/ \E l \in Line : Ripen(l) \/ \E s \in {"young", "AVAILABLE"} : Release(l, s)
       \/ \E j \in Settler : ReadMatured(j) \/ Settle(j) \/ SettleFails(j)
       \/ \E n \in 1 .. MaxFreeze : OrderFreeze(n)
       \/ Withdraw \/ Freeze

SettlementSpec == SettlementInit /\ [][SettlementNext]_settlementVars

-----------------------------------------------------------------------------
(* Properties *)

\* The balances are what the lines say, less what was withdrawn and frozen, and
\* earnings once settled can be spent once.  They go wrong when several lines
\* mature together or two settlements overlap, and fall below zero only by a
\* freeze that came late or took what was still pending.
BalancesMatchLines ==
    /\ ~together /\ ~overlapped =>
          /\ available = Cardinality(SettledLines) - taken
          /\ pending = Cardinality(PendingLines) - takenEarly
    /\ ~together /\ ~overlapped /\ ~outdated =>
          available >= 0 /\ pending >= 0 - takenEarly
=============================================================================
