------------------------------- MODULE Wallet_proof -------------------------------
(***************************************************************************)
(* Proofs about what surrounds a wallet, for any number of writers, lines, *)
(* settlements and requests: the audit entries of a withdrawal are one     *)
(* chain, the balances are what the lines say, and requests with one key   *)
(* take effect once.                                                       *)
(***************************************************************************)
EXTENDS PayoutAudit, Settlement, Idempotency, FiniteSetTheorems, TLAPS

-----------------------------------------------------------------------------
(* The audit entries of a withdrawal *)

Entry == [by : Writer, previous : {Highest(S) : S \in SUBSET Nat},
          state : {"open", "kept", "gone"}]

\* Every variable keeps its shape.
AuditTypeOK ==
    /\ entries \in Seq(Entry)
    /\ holders \in SUBSET Transaction
    /\ last \in [Writer -> {Unread} \cup {Highest(S) : S \in SUBSET Nat}]
    /\ loose \in BOOLEAN

\* Entries that a reader may still have to follow.
Live == {i \in DOMAIN entries : entries[i].state \in {"kept", "open"}}
OpenOnes == {i \in DOMAIN entries : entries[i].state = "open"}

\* One writer at a time, whose entries come last, and who has read the last.
Ordered ==
    /\ \A v, w \in holders : v = w
    /\ \A i \in OpenOnes : entries[i].by \in holders
    /\ \A i \in OpenOnes, k \in Kept : k < i
    /\ \A v, w \in Reading : v = w
    /\ \A v \in holders, w \in Reading : v = w
    /\ \A w \in Reading : w \in holders \cup Outsider /\ last[w] = Highest(Live)
    /\ \A i \in Live : entries[i].previous = Highest({k \in Live : k < i})

AuditInv == AuditTypeOK /\ (~loose => Ordered)

-----------------------------------------------------------------------------

\* A lone writer sees every entry that counts.
LEMMA LoneWriter ==
    ASSUME AuditTypeOK, Ordered, NEW w \in Writer,
           w \in holders \/ holders = {}
    PROVE  Visible(w) = Live
<1>1. \A i \in OpenOnes : entries[i].by = w
  BY DEF Ordered
<1> QED
  BY <1>1 DEF Visible, Live, OpenOnes

\* What is kept is live, and what is open comes later.
LEMMA KeptIsLive ==
    AuditTypeOK => Kept \subseteq Live /\ Live = Kept \cup OpenOnes
                   /\ Live \subseteq Nat
BY DEF AuditTypeOK, Kept, Live, OpenOnes

\* A new entry.
LEMMA CreateEffect ==
    ASSUME AuditTypeOK, NEW w \in Writer, Create(w)
    PROVE  /\ AuditTypeOK'
           /\ Live' = Live \cup {Len(entries) + 1}
           /\ \A i \in Live : i < Len(entries) + 1
           /\ \A i \in DOMAIN entries : entries'[i] = entries[i]
           /\ entries'[Len(entries) + 1].previous = last[w]
           /\ entries'[Len(entries) + 1].by = w
           /\ OpenOnes' = IF w \in Outsider THEN OpenOnes
                          ELSE OpenOnes \cup {Len(entries) + 1}
           /\ Kept' = IF w \in Outsider THEN Kept \cup {Len(entries) + 1}
                      ELSE Kept
           /\ Reading' = Reading \ {w}
<1> DEFINE n == Len(entries)
           e == [by |-> w, previous |-> last[w],
                 state |-> IF w \in Outsider THEN "kept" ELSE "open"]
<1>1. e \in Entry
  <2>1. last[w] \in {Highest(S) : S \in SUBSET Nat}
    BY DEF Create, AuditTypeOK
  <2> QED
    BY <2>1 DEF Entry
<1>2. /\ e.by = w /\ e.previous = last[w]
      /\ e.state = IF w \in Outsider THEN "kept" ELSE "open"
  OBVIOUS
<1>3. entries' = Append(entries, e) /\ last' = [last EXCEPT ![w] = Unread]
      /\ UNCHANGED << holders, loose >>
  BY DEF Create
<1> HIDE DEF e
<1>4. /\ entries' \in Seq(Entry) /\ n \in Nat /\ DOMAIN entries = 1 .. n
      /\ DOMAIN entries' = 1 .. n + 1 /\ entries'[n + 1] = e
      /\ \A i \in 1 .. n : entries'[i] = entries[i]
  BY <1>1, <1>3 DEF AuditTypeOK
<1>5. AuditTypeOK'
  BY <1>3, <1>4 DEF AuditTypeOK
<1>6. Reading' = Reading \ {w}
  BY <1>3 DEF AuditTypeOK, Reading
<1>7. Live' = Live \cup {n + 1} /\ \A i \in Live : i < n + 1
  BY <1>2, <1>4 DEF Live
<1>8. OpenOnes' = IF w \in Outsider THEN OpenOnes ELSE OpenOnes \cup {n + 1}
  BY <1>2, <1>4 DEF OpenOnes
<1>9. Kept' = IF w \in Outsider THEN Kept \cup {n + 1} ELSE Kept
  BY <1>2, <1>4 DEF Kept
<1> QED
  BY <1>2, <1>4, <1>5, <1>6, <1>7, <1>8, <1>9

\* Entries that are left alone stay in the order they are in.
LEMMA StillOrdered ==
    ASSUME AuditTypeOK, Ordered, UNCHANGED entries,
           \A v, w \in holders' : v = w,
           \A i \in OpenOnes : entries[i].by \in holders',
           \A v, w \in Reading' : v = w,
           \A v \in holders', w \in Reading' : v = w,
           \A w \in Reading' : w \in holders' \cup Outsider,
           \A w \in Reading' : last'[w] = Highest(Live)
    PROVE  Ordered'
<1>1. UNCHANGED << Live, OpenOnes, Kept >>
  BY DEF Live, OpenOnes, Kept
<1> QED
  BY <1>1 DEF Ordered

\* The inductive invariant.
THEOREM AuditInvariance == AuditSpec => []AuditInv
<1>1. AuditInit => AuditInv
  <2> SUFFICES ASSUME AuditInit PROVE AuditInv
    OBVIOUS
  <2>1. AuditTypeOK
    <3>1. entries \in Seq(Entry) /\ holders \in SUBSET Transaction
      BY DEF AuditInit
    <3>2. loose \in BOOLEAN
      BY DEF AuditInit
    <3> QED
      BY <3>1, <3>2 DEF AuditInit, AuditTypeOK
  <2>2. Live = {} /\ OpenOnes = {} /\ Reading = {} /\ holders = {}
    BY DEF AuditInit, Live, OpenOnes, Reading
  <2> QED
    BY <2>1, <2>2 DEF AuditInv, Ordered
<1>2. AuditInv /\ [AuditNext]_auditVars => AuditInv'
  <2> SUFFICES ASSUME AuditInv, [AuditNext]_auditVars PROVE AuditInv'
    OBVIOUS
  <2>0. AuditTypeOK
    BY DEF AuditInv
  <2>1. ASSUME NEW w \in Writer, Lock(w) PROVE AuditInv'
    <3>1. AuditTypeOK'
      BY <2>0, <2>1 DEF Lock, AuditTypeOK
    <3>2. ASSUME ~loose' PROVE Ordered'
      <4>1. ~loose /\ Reading = {}
        BY <2>1, <3>2 DEF Lock
      <4>2. Ordered
        BY <4>1 DEF AuditInv
      <4>3. holders = {} /\ holders' = {w} /\ Reading' = {}
            /\ UNCHANGED entries
        BY <2>1, <4>1 DEF Lock, LockFree, Reading
      <4>4. OpenOnes = {}
        BY <4>2, <4>3 DEF Ordered
      <4> QED
        BY <2>0, <4>2, <4>3, <4>4, StillOrdered
    <3> QED
      BY <3>1, <3>2 DEF AuditInv
  <2>2. ASSUME NEW w \in Writer, ReadLast(w) PROVE AuditInv'
    <3>1. Visible(w) \in SUBSET Nat
      BY <2>0 DEF AuditTypeOK, Visible
    <3>2. AuditTypeOK'
      BY <2>0, <2>2, <3>1 DEF ReadLast, AuditTypeOK
    <3>3. ASSUME ~loose' PROVE Ordered'
      <4>1. ~loose /\ (w \in Outsider => holders = {} /\ Reading = {})
            /\ w \in holders \cup Outsider /\ UNCHANGED << entries, holders >>
        BY <2>2, <3>3 DEF ReadLast
      <4>2. Ordered
        BY <4>1 DEF AuditInv
      <4>3. Visible(w) = Live
        BY <2>0, <4>1, <4>2, LoneWriter
      <4>4. Reading = {}
        BY <2>2, <4>1, <4>2 DEF ReadLast, Reading, Ordered
      <4>5. last' = [last EXCEPT ![w] = Highest(Live)]
        BY <2>2, <4>3 DEF ReadLast
      <4>6. Reading' \subseteq {w}
        BY <2>0, <4>4, <4>5 DEF AuditTypeOK, Reading
      <4>7. \A v \in Reading' : v = w /\ last'[v] = Highest(Live)
        BY <2>0, <4>5, <4>6 DEF AuditTypeOK
      <4>8. \A v \in holders' : v = w
        BY <4>1, <4>2 DEF Ordered
      <4>9. \A i \in OpenOnes : entries[i].by \in holders'
        BY <4>1, <4>2 DEF Ordered
      <4> QED
        BY <2>0, <4>1, <4>2, <4>7, <4>8, <4>9, StillOrdered
    <3> QED
      BY <3>2, <3>3 DEF AuditInv
  <2>3. ASSUME NEW w \in Writer, Create(w) PROVE AuditInv'
    <3> DEFINE n == Len(entries) + 1
    <3>1. AuditTypeOK'
      BY <2>0, <2>3, CreateEffect
    <3>2. ASSUME ~loose' PROVE Ordered'
      <4>1. Ordered /\ holders' = holders
        BY <2>3, <3>2 DEF Create, AuditInv
      <4>2. w \in Reading
        BY <2>3 DEF Create, Reading
      <4>3. /\ Live' = Live \cup {n} /\ \A i \in Live : i < n
            /\ \A i \in DOMAIN entries : entries'[i] = entries[i]
            /\ entries'[n].previous = last[w] /\ entries'[n].by = w
            /\ OpenOnes' = IF w \in Outsider THEN OpenOnes ELSE OpenOnes \cup {n}
            /\ Kept' = IF w \in Outsider THEN Kept \cup {n} ELSE Kept
            /\ Reading' = Reading \ {w}
        BY <2>0, <2>3, CreateEffect
      <4>4. n \in Int /\ Live \subseteq DOMAIN entries /\ Live \subseteq Nat
            /\ OpenOnes \subseteq Live /\ Kept \subseteq Live
        BY <2>0 DEF AuditTypeOK, Live, OpenOnes, Kept
      <4> HIDE DEF n
      <4>5. Reading' = {}
        BY <4>1, <4>2, <4>3 DEF Ordered
      <4>6. \A i \in Live' : entries'[i].previous = Highest({k \in Live' : k < i})
        <5>1. ASSUME NEW i \in Live
              PROVE  entries'[i].previous = Highest({k \in Live' : k < i})
          <6>1. {k \in Live' : k < i} = {k \in Live : k < i}
            BY <4>3, <4>4, <5>1
          <6>2. entries'[i].previous = entries[i].previous
            BY <4>3, <4>4, <5>1
          <6> QED
            BY <4>1, <6>1, <6>2 DEF Ordered
        <5>2. entries'[n].previous = Highest({k \in Live' : k < n})
          <6>1. {k \in Live' : k < n} = Live
            BY <4>3, <4>4
          <6>2. last[w] = Highest(Live)
            BY <4>1, <4>2 DEF Ordered
          <6> QED
            BY <4>3, <6>1, <6>2
        <5> QED
          BY <4>3, <5>1, <5>2
      <4>7. w \notin Outsider => w \in holders
        BY <4>1, <4>2 DEF Ordered
      <4>8. \A v, u \in holders' : v = u
        BY <4>1 DEF Ordered
      <4>9. w \in Outsider => holders = {}
        BY <2>0, <4>1, <4>2, WriterAssumption DEF Ordered, AuditTypeOK
      <4>10. w \in Outsider => OpenOnes = {}
        BY <4>1, <4>9 DEF Ordered
      <4>11. \A i \in OpenOnes' : entries'[i].by \in holders'
        BY <4>1, <4>3, <4>4, <4>7 DEF Ordered
      <4>12. \A i \in OpenOnes', k \in Kept' : k < i
        BY <4>1, <4>3, <4>4, <4>10 DEF Ordered
      <4> QED
        BY <4>5, <4>6, <4>8, <4>11, <4>12 DEF Ordered
    <3> QED
      BY <3>1, <3>2 DEF AuditInv
  <2>4. ASSUME NEW w \in Writer, NEW state \in {"kept", "gone"}, Finish(w, state)
        PROVE  AuditInv'
    <3>1. AuditTypeOK'
      <4>1. \A e \in Entry : [e EXCEPT !.state = state] \in Entry
        BY <2>4 DEF Entry
      <4>2. /\ DOMAIN entries = 1 .. Len(entries) /\ Len(entries) \in Nat
            /\ \A i \in DOMAIN entries : entries[i] \in Entry
        BY <2>0 DEF AuditTypeOK
      <4>3. DOMAIN entries' = DOMAIN entries
            /\ \A i \in DOMAIN entries : entries'[i] \in Entry
        BY <2>4, <4>1, <4>2 DEF Finish
      <4>4. entries' = [i \in 1 .. Len(entries) |-> entries'[i]]
        BY <2>4, <4>2 DEF Finish
      <4>5. entries' \in Seq(Entry)
        BY <4>2, <4>3, <4>4
      <4> QED
        BY <2>0, <2>4, <4>5 DEF Finish, AuditTypeOK
    <3>2. ASSUME ~loose' PROVE Ordered'
      <4>1. Ordered /\ holders' = holders \ {w} /\ last' = last
            /\ w \in holders /\ last[w] = Unread
        BY <2>4, <3>2 DEF Finish, AuditInv
      <4>2. holders' = {}
        BY <4>1 DEF Ordered
      <4>3. Reading' = {}
        BY <4>1 DEF Ordered, Reading
      <4>4. /\ DOMAIN entries' = DOMAIN entries
            /\ \A i \in DOMAIN entries :
                 /\ entries'[i].previous = entries[i].previous
                 /\ entries'[i].state = IF i \in OpenOnes THEN state
                                                          ELSE entries[i].state
        <5>1. entries' = [i \in DOMAIN entries |->
                            IF entries[i].by = w /\ entries[i].state = "open"
                              THEN [entries[i] EXCEPT !.state = state]
                              ELSE entries[i]]
          BY <2>4 DEF Finish
        <5>2. \A i \in OpenOnes : entries[i].by = w
          BY <4>1 DEF Ordered
        <5>3. \A i \in DOMAIN entries : entries[i] \in Entry
          BY <2>0 DEF AuditTypeOK
        <5> QED
          BY <5>1, <5>2, <5>3 DEF OpenOnes, Entry
      <4>5. OpenOnes' = {} /\ Kept' = Live'
        BY <4>4 DEF OpenOnes, Kept, Live
      <4>6. Live' = IF state = "kept" THEN Live ELSE Kept
        BY <4>4 DEF OpenOnes, Kept, Live
      <4>7. Live \subseteq DOMAIN entries /\ Live \subseteq Nat
            /\ Live = Kept \cup OpenOnes
        BY <2>0 DEF AuditTypeOK, Live, Kept, OpenOnes
      <4>8. ASSUME NEW i \in Live'
            PROVE  entries'[i].previous = Highest({k \in Live' : k < i})
        <5>1. i \in Live /\ entries'[i].previous = entries[i].previous
          BY <4>4, <4>6, <4>7, <4>8
        <5>2. {k \in Live' : k < i} = {k \in Live : k < i}
          <6>1. state = "gone" => \A k \in OpenOnes : i < k
            BY <4>1, <4>6, <4>8 DEF Ordered
          <6> QED
            BY <4>6, <4>7, <5>1, <6>1
        <5> QED
          BY <4>1, <5>1, <5>2 DEF Ordered
      <4> QED
        BY <4>2, <4>3, <4>5, <4>8 DEF Ordered
    <3> QED
      BY <3>1, <3>2 DEF AuditInv
  <2>5. CASE UNCHANGED auditVars
    BY <2>5 DEF auditVars, AuditInv, AuditTypeOK, Ordered, Live, OpenOnes, Kept,
                Reading
  <2> QED
    BY <2>1, <2>2, <2>3, <2>4, <2>5 DEF AuditNext
<1> QED
  BY <1>1, <1>2, PTL DEF AuditSpec

\* Entries form one chain.
THEOREM AuditIsOneChain == AuditSpec => []OneChain
<1>1. AuditInv => OneChain
  <2> SUFFICES ASSUME AuditInv, ~loose, NEW i \in Kept
               PROVE  entries[i].previous = Highest({k \in Kept : k < i})
    BY DEF OneChain
  <2>1. Ordered /\ AuditTypeOK
    BY DEF AuditInv
  <2>2. {k \in Kept : k < i} = {k \in Live : k < i} /\ i \in Live
    <3>1. \A k \in OpenOnes : i < k /\ k \in Nat
      BY <2>1 DEF Ordered, AuditTypeOK, OpenOnes
    <3>2. i \in Nat
      BY <2>1, KeptIsLive
    <3> QED
      BY <2>1, <3>1, <3>2, KeptIsLive
  <2> QED
    BY <2>1, <2>2 DEF Ordered
<1> QED
  BY <1>1, AuditInvariance, PTL

-----------------------------------------------------------------------------
(* The balances of a wallet with several lines *)

\* Every variable keeps its shape.
SettlementTypeOK ==
    /\ line \in [Line -> {"none", "young", "ripe", "AVAILABLE"}]
    /\ available \in Int /\ pending \in Int
    /\ due \in [Settler -> SUBSET Line]
    /\ order \in {NoOrder} \cup (Nat \X Int \X Int)
    /\ taken \in Int /\ takenEarly \in Int
    /\ together \in BOOLEAN /\ overlapped \in BOOLEAN /\ outdated \in BOOLEAN

\* A settler's lines are still ripe, until another one has settled them.
StillRipe == \A j \in Settler, l \in Line : l \in due[j] => line[l] = "ripe"
Matching ==
    /\ available = Cardinality(SettledLines) - taken
    /\ pending = Cardinality(PendingLines) - takenEarly
Solvent == available >= 0

SettlementInv ==
    /\ SettlementTypeOK
    /\ ~together /\ ~overlapped => StillRipe /\ Matching
    /\ ~together /\ ~overlapped /\ ~outdated => Solvent

-----------------------------------------------------------------------------

\* Lines can be counted.
LEMMA LinesFinite ==
    /\ IsFiniteSet(SettledLines) /\ Cardinality(SettledLines) \in Nat
    /\ IsFiniteSet(PendingLines) /\ Cardinality(PendingLines) \in Nat
<1>1. SettledLines \subseteq Line /\ PendingLines \subseteq Line
  BY DEF SettledLines, PendingLines
<1> QED
  BY <1>1, LinesAssumption, FS_Subset, FS_CardinalityType

\* A settlement of one line moves its amount, 1.
LEMMA OneAmount ==
    ASSUME NEW S, IsFiniteSet(S), S # {}, ~(Cardinality(S) > 1)
    PROVE  Concatenated(Cardinality(S)) = 1 /\ \E l : S = {l}
<1>1. Cardinality(S) \in Nat /\ Cardinality(S) # 0
  BY FS_CardinalityType, FS_EmptySet
<1>2. Cardinality(S) = 1
  BY <1>1
<1> QED
  BY <1>2, FS_Singleton DEF Concatenated

\* The inductive invariant: shapes, and balances as long as nothing is amiss.
THEOREM SettlementInvariance == SettlementSpec => []SettlementInv
<1>1. SettlementInit => SettlementInv
  <2> SUFFICES ASSUME SettlementInit PROVE SettlementInv
    OBVIOUS
  <2>1. SettledLines = {} /\ PendingLines = {}
    BY DEF SettlementInit, SettledLines, PendingLines
  <2>2. Cardinality({}) = 0
    BY FS_EmptySet
  <2>3. Matching /\ StillRipe /\ Solvent
    BY <2>1, <2>2 DEF SettlementInit, Matching, StillRipe, Solvent
  <2>4. SettlementTypeOK
    <3>1. line \in [Line -> {"none", "young", "ripe", "AVAILABLE"}]
          /\ due \in [Settler -> SUBSET Line]
      BY DEF SettlementInit
    <3>2. order \in {NoOrder} \cup (Nat \X Int \X Int)
      BY DEF SettlementInit
    <3>3. /\ available \in Int /\ pending \in Int
          /\ taken \in Int /\ takenEarly \in Int
      BY DEF SettlementInit
    <3>4. /\ together \in BOOLEAN /\ overlapped \in BOOLEAN
          /\ outdated \in BOOLEAN
      BY DEF SettlementInit
    <3> QED
      BY <3>1, <3>2, <3>3, <3>4 DEF SettlementTypeOK
  <2> QED
    BY <2>3, <2>4 DEF SettlementInv
<1>2. SettlementInv /\ [SettlementNext]_settlementVars => SettlementInv'
  <2> SUFFICES ASSUME SettlementInv, [SettlementNext]_settlementVars PROVE SettlementInv'
    OBVIOUS
  <2>0. SettlementTypeOK
    BY DEF SettlementInv
  <2>c. CASE UNCHANGED settlementVars
    BY <2>c DEF SettlementInv, settlementVars, SettlementTypeOK, StillRipe, Matching,
                Solvent, SettledLines, PendingLines
  <2>d. SUFFICES ASSUME SettlementNext PROVE SettlementInv'
    BY <2>c
  <2>1. /\ ~together /\ ~overlapped /\ ~outdated
        /\ StillRipe /\ Matching /\ Solvent
    BY <2>d DEF SettlementNext, SettlementInv
  <2>2. ASSUME NEW l \in Line, NEW s \in {"young", "AVAILABLE"}, Release(l, s)
        PROVE  SettlementInv'
    <3>1. SettlementTypeOK'
      BY <2>0, <2>2 DEF Release, SettlementTypeOK
    <3>2. StillRipe'
      BY <2>0, <2>1, <2>2 DEF Release, SettlementTypeOK, StillRipe
    <3>3. CASE s = "young"
      <4>1. SettledLines' = SettledLines /\ PendingLines' = PendingLines \cup {l}
            /\ l \notin PendingLines
        BY <2>0, <2>2, <3>3 DEF Release, SettlementTypeOK, SettledLines,
                                PendingLines
      <4>2. Cardinality(PendingLines') = Cardinality(PendingLines) + 1
        BY <4>1, LinesFinite, FS_AddElement
      <4>3. pending' = pending + 1 /\ UNCHANGED << available, taken, takenEarly >>
        BY <2>2, <3>3 DEF Release
      <4>4. Matching' /\ Solvent'
        BY <2>0, <2>1, <4>1, <4>2, <4>3, LinesFinite
           DEF Matching, Solvent, SettlementTypeOK
      <4> QED
        BY <3>1, <3>2, <4>4 DEF SettlementInv
    <3>4. CASE s = "AVAILABLE"
      <4>1. PendingLines' = PendingLines /\ SettledLines' = SettledLines \cup {l}
            /\ l \notin SettledLines
        BY <2>0, <2>2, <3>4 DEF Release, SettlementTypeOK, SettledLines,
                                PendingLines
      <4>2. Cardinality(SettledLines') = Cardinality(SettledLines) + 1
        BY <4>1, LinesFinite, FS_AddElement
      <4>3. available' = available + 1 /\ UNCHANGED << pending, taken, takenEarly >>
        BY <2>2, <3>4 DEF Release
      <4>4. Matching' /\ Solvent'
        BY <2>0, <2>1, <4>1, <4>2, <4>3, LinesFinite
           DEF Matching, Solvent, SettlementTypeOK
      <4> QED
        BY <3>1, <3>2, <4>4 DEF SettlementInv
    <3> QED
      BY <3>3, <3>4
  <2>3. ASSUME NEW l \in Line, Ripen(l) PROVE SettlementInv'
    <3>1. SettlementTypeOK' /\ StillRipe'
      BY <2>0, <2>1, <2>3 DEF Ripen, SettlementTypeOK, StillRipe
    <3>2. SettledLines' = SettledLines /\ PendingLines' = PendingLines
      BY <2>0, <2>3 DEF Ripen, SettlementTypeOK, SettledLines, PendingLines
    <3>3. Matching' /\ Solvent'
      BY <2>1, <2>3, <3>2 DEF Ripen, Matching, Solvent
    <3> QED
      BY <3>1, <3>3 DEF SettlementInv
  <2>4. ASSUME NEW j \in Settler, ReadMatured(j) \/ SettleFails(j) PROVE SettlementInv'
    <3>1. SettlementTypeOK' /\ StillRipe'
      BY <2>0, <2>1, <2>4 DEF ReadMatured, SettleFails, Matured,
                              SettlementTypeOK, StillRipe
    <3>2. UNCHANGED << line, available, pending, taken, takenEarly >>
      BY <2>4 DEF ReadMatured, SettleFails
    <3>3. Matching' /\ Solvent'
      BY <2>1, <3>2 DEF Matching, Solvent, SettledLines, PendingLines
    <3> QED
      BY <3>1, <3>3 DEF SettlementInv
  <2>5. ASSUME NEW j \in Settler, Settle(j) PROVE SettlementInv'
    <3> DEFINE amount == Concatenated(Cardinality(due[j]))
    <3>1. CASE together' \/ overlapped'
      <4>1. SettlementTypeOK'
        <5>1. IsFiniteSet(due[j]) /\ Cardinality(due[j]) \in Nat
          BY <2>0, LinesAssumption, FS_Subset, FS_CardinalityType
             DEF SettlementTypeOK
        <5>2. amount \in Int
          BY <5>1 DEF Concatenated
        <5> QED
          BY <2>0, <2>5, <5>2 DEF Settle, SettlementTypeOK
      <4> QED
        BY <3>1, <4>1 DEF SettlementInv
    <3>2. CASE ~together' /\ ~overlapped'
      <4>1. due[j] # {} /\ ~(Cardinality(due[j]) > 1)
            /\ \A k \in Settler \ {j} : due[k] \cap due[j] = {}
        BY <2>5, <3>2 DEF Settle
      <4>2. IsFiniteSet(due[j])
        BY <2>0, LinesAssumption, FS_Subset DEF SettlementTypeOK
      <4>3. amount = 1 /\ \E l : due[j] = {l}
        BY <4>1, <4>2, OneAmount
      <4>4. PICK l : due[j] = {l}
        BY <4>3
      <4>5. l \in Line /\ line[l] = "ripe"
        BY <2>0, <2>1, <4>4 DEF SettlementTypeOK, StillRipe
      <4>6. line' = [line EXCEPT ![l] = "AVAILABLE"]
        BY <2>0, <2>5, <4>4, <4>5 DEF Settle, SettlementTypeOK
      <4>7. available' = available + 1 /\ pending' = pending - 1
            /\ due' = [due EXCEPT ![j] = {}]
            /\ UNCHANGED << taken, takenEarly, order, outdated >>
        BY <2>5, <4>3 DEF Settle
      <4>8. SettlementTypeOK'
        BY <2>0, <2>5, <4>6, <4>7 DEF Settle, SettlementTypeOK
      <4>9. StillRipe'
        BY <2>0, <2>1, <4>1, <4>4, <4>6, <4>7 DEF SettlementTypeOK, StillRipe
      <4>10. /\ SettledLines' = SettledLines \cup {l} /\ l \notin SettledLines
             /\ PendingLines' = PendingLines \ {l} /\ l \in PendingLines
        BY <2>0, <4>5, <4>6 DEF SettlementTypeOK, SettledLines, PendingLines
      <4>11. /\ Cardinality(SettledLines') = Cardinality(SettledLines) + 1
             /\ Cardinality(PendingLines') = Cardinality(PendingLines) - 1
        BY <4>10, LinesFinite, FS_AddElement, FS_RemoveElement
      <4>12. Matching' /\ Solvent'
        BY <2>0, <2>1, <4>7, <4>11, LinesFinite
           DEF Matching, Solvent, SettlementTypeOK
      <4> QED
        BY <4>8, <4>9, <4>12 DEF SettlementInv
    <3> QED
      BY <3>1, <3>2
  <2>6. CASE Withdraw
    <3>1. SettlementTypeOK' /\ StillRipe'
      BY <2>0, <2>1, <2>6 DEF Withdraw, SettlementTypeOK, StillRipe
    <3>2. Matching' /\ Solvent'
      BY <2>0, <2>1, <2>6, LinesFinite
         DEF Withdraw, SettlementTypeOK, Matching, Solvent, SettledLines,
             PendingLines
    <3> QED
      BY <3>1, <3>2 DEF SettlementInv
  <2>7. ASSUME NEW n \in 1 .. MaxFreeze, OrderFreeze(n) PROVE SettlementInv'
    <3>1. order' = << n, available, pending >> /\ n \in Nat
      BY <2>7, FreezeAssumption DEF OrderFreeze
    <3>2. SettlementTypeOK'
      BY <2>0, <2>7, <3>1 DEF OrderFreeze, SettlementTypeOK
    <3>3. StillRipe' /\ Matching' /\ Solvent'
      BY <2>1, <2>7 DEF OrderFreeze, StillRipe, Matching, Solvent, SettledLines,
                        PendingLines
    <3> QED
      BY <3>2, <3>3 DEF SettlementInv
  <2>8. CASE Freeze
    <3> DEFINE first == Lesser(order[2], order[1])
               rest == Lesser(order[3], order[1] - first)
    <3>1. order[1] \in Int /\ order[2] \in Int /\ order[3] \in Int
      BY <2>0, <2>8 DEF Freeze, SettlementTypeOK
    <3>2. first \in Int /\ rest \in Int
      BY <3>1 DEF Lesser
    <3>3. /\ available' = available - first /\ pending' = pending - rest
          /\ taken' = taken + first /\ takenEarly' = takenEarly + rest
          /\ outdated' = (outdated \/ first > available \/ rest > pending)
          /\ order' = NoOrder
          /\ UNCHANGED << line, due, together, overlapped >>
      BY <2>8 DEF Freeze
    <3> HIDE DEF first, rest
    <3>4. SettlementTypeOK' /\ StillRipe'
      BY <2>0, <2>1, <3>2, <3>3 DEF SettlementTypeOK, StillRipe
    <3>5. SettledLines' = SettledLines /\ PendingLines' = PendingLines
      BY <3>3 DEF SettledLines, PendingLines
    <3>6. Matching'
      BY <2>0, <2>1, <3>2, <3>3, <3>5, LinesFinite
         DEF SettlementTypeOK, Matching
    <3>7. ~outdated' => Solvent'
      <4>1. ASSUME ~outdated' PROVE ~(first > available)
        BY <3>3, <4>1
      <4> QED
        BY <2>0, <3>2, <3>3, <4>1 DEF SettlementTypeOK, Solvent
    <3> QED
      BY <3>4, <3>6, <3>7 DEF SettlementInv
  <2> QED
    BY <2>d, <2>2, <2>3, <2>4, <2>5, <2>6, <2>7, <2>8 DEF SettlementNext
<1> QED
  BY <1>1, <1>2, PTL DEF SettlementSpec

\* The wallet has what its lines say.
THEOREM WalletMatchesLines == SettlementSpec => []BalancesMatchLines
<1>1. SettlementInv => BalancesMatchLines
  BY LinesFinite DEF SettlementInv, SettlementTypeOK, Matching, Solvent, BalancesMatchLines
<1> QED
  BY <1>1, SettlementInvariance, PTL

-----------------------------------------------------------------------------
(* Requests with one Idempotency-Key *)

\* Every variable keeps its shape.
IdempotencyTypeOK ==
    /\ kept \in Request \cup {Blank, PROCESSING}
    /\ stage \in [Request -> {"idle", "missed", "running", "done"}]
    /\ writing \in SUBSET ({"set", "delete"} \X Request)
    /\ effects \in SUBSET Request
    /\ answer \in [Request -> Request \cup {Blank}]
    /\ expired \in BOOLEAN /\ spoiled \in BOOLEAN

\* Requests of which something has been seen, and requests that hold the key.
Seen == Answered \cup effects
Running == {r \in Request : stage[r] = "running"}
Setting == {r \in Request : << "set", r >> \in writing}
Deleting == {r \in Request : << "delete", r >> \in writing}
Holding == Running \cup Setting \cup Deleting

\* The key has one holder, and whatever has been seen is of that one.
OneHolder ==
    /\ \A r, s \in Holding : r = s
    /\ \A r \in Holding, e \in Seen : e = r
    /\ \A e, f \in Seen : e = f
    /\ kept = Blank => Holding = {} /\ Seen = {}
    /\ kept \in Request => Holding = {} /\ Seen \subseteq {kept}
    /\ Deleting # {} => Seen = {} /\ Running = {} /\ Setting = {}
    /\ Setting # {} => Running = {} /\ Deleting = {}
    /\ Running # {} => Answered = {}
KeyInv == IdempotencyTypeOK /\ (~expired /\ ~spoiled => OneHolder)

-----------------------------------------------------------------------------

\* Shapes.
LEMMA IdempotencyTyped == IdempotencySpec => []IdempotencyTypeOK
<1>1. IdempotencyInit => IdempotencyTypeOK
  BY DEF IdempotencyInit, IdempotencyTypeOK, NoAnswer
<1>2. IdempotencyTypeOK /\ [IdempotencyNext]_idempotencyVars
      => IdempotencyTypeOK'
  <2> SUFFICES ASSUME IdempotencyTypeOK, [IdempotencyNext]_idempotencyVars
               PROVE  IdempotencyTypeOK'
    OBVIOUS
  <2> USE DEF IdempotencyTypeOK
  <2>1. ASSUME NEW r \in Request, Get(r) PROVE IdempotencyTypeOK'
    BY <2>1 DEF Get
  <2>2. ASSUME NEW r \in Request, Claim(r) PROVE IdempotencyTypeOK'
    BY <2>2 DEF Claim
  <2>3. ASSUME NEW r \in Request, TakeEffect(r) PROVE IdempotencyTypeOK'
    BY <2>3 DEF TakeEffect
  <2>4. ASSUME NEW r \in Request, NEW what \in {"set", "delete"},
               Respond(r, what)
        PROVE  IdempotencyTypeOK'
    BY <2>4 DEF Respond
  <2>5. ASSUME NEW w \in writing, Write(w) \/ WriteFails(w)
        PROVE  IdempotencyTypeOK'
    BY <2>5 DEF Write, WriteFails
  <2>6. CASE Crash \/ Expire
    BY <2>6 DEF Crash, Expire
  <2>7. CASE UNCHANGED idempotencyVars
    BY <2>7 DEF idempotencyVars
  <2> QED
    BY <2>1, <2>2, <2>3, <2>4, <2>5, <2>6, <2>7 DEF IdempotencyNext
<1> QED
  BY <1>1, <1>2, PTL DEF IdempotencySpec

\* The inductive invariant.
THEOREM IdempotencyInvariance == IdempotencySpec => []KeyInv
<1>1. IdempotencyInit => KeyInv
  BY DEF IdempotencyInit, IdempotencyTypeOK, KeyInv, OneHolder, Holding, Running,
         Setting, Deleting, Seen, Answered, NoAnswer
<1>2. KeyInv /\ IdempotencyTypeOK' /\ [IdempotencyNext]_idempotencyVars => KeyInv'
  <2> SUFFICES ASSUME KeyInv, IdempotencyTypeOK',
                      [IdempotencyNext]_idempotencyVars,
                      ~expired' /\ ~spoiled'
               PROVE  OneHolder'
    BY DEF KeyInv
  <2>0. IdempotencyTypeOK
    BY DEF KeyInv
  <2>1. ASSUME NEW r \in Request, Get(r) PROVE OneHolder'
    <3>1. OneHolder
      BY <2>1 DEF KeyInv, Get
    <3>2. Holding' = Holding /\ Running' = Running /\ Setting' = Setting
          /\ Deleting' = Deleting /\ kept' = kept
      BY <2>0, <2>1 DEF Get, IdempotencyTypeOK, Holding, Running, Setting,
                        Deleting
    <3>3. CASE kept \in Request
      <4>1. Answered' \subseteq Answered \cup {kept} /\ effects' = effects
        BY <2>0, <2>1, <3>3, ValueAssumption
           DEF Get, IdempotencyTypeOK, Answered, NoAnswer
      <4> QED
        BY <3>1, <3>2, <3>3, <4>1, ValueAssumption DEF OneHolder, Seen, Holding
    <3>4. CASE kept \notin Request
      <4>1. Answered' = Answered /\ effects' = effects
        BY <2>0, <2>1, <3>4 DEF Get, IdempotencyTypeOK, Answered
      <4> QED
        BY <3>1, <3>2, <4>1 DEF OneHolder, Seen
    <3> QED
      BY <3>3, <3>4
  <2>2. ASSUME NEW r \in Request, Claim(r) PROVE OneHolder'
    <3>1. OneHolder
      BY <2>2 DEF KeyInv, Claim
    <3>2. Answered' = Answered /\ effects' = effects /\ Setting' = Setting
          /\ Deleting' = Deleting
      BY <2>2 DEF Claim, Answered, Setting, Deleting
    <3>3. CASE Absent
      <4>1. Running' = Running \cup {r} /\ kept' = PROCESSING /\ kept = Blank
        BY <2>0, <2>2, <3>3 DEF Claim, Absent, IdempotencyTypeOK, Running
      <4>2. Holding = {} /\ Seen = {}
        BY <3>1, <4>1 DEF OneHolder
      <4>3. Holding' = {r} /\ Seen' = {} /\ Deleting' = {} /\ Setting' = {}
        BY <3>2, <4>1, <4>2 DEF Seen, Holding
      <4>4. kept' # Blank /\ kept' \notin Request
        BY <2>0, <4>1, ValueAssumption DEF Absent
      <4> QED
        BY <4>2, <4>3, <4>4, <3>2 DEF OneHolder, Seen
    <3>4. CASE ~Absent
      <4>1. Running' = Running /\ kept' = kept
        BY <2>0, <2>2, <3>4 DEF Claim, IdempotencyTypeOK, Running
      <4> QED
        BY <3>1, <3>2, <4>1 DEF OneHolder, Seen, Holding
    <3> QED
      BY <3>3, <3>4
  <2>3. ASSUME NEW r \in Request, TakeEffect(r) PROVE OneHolder'
    <3>1. OneHolder
      BY <2>3 DEF KeyInv, TakeEffect
    <3>2. Holding' = Holding /\ Running' = Running /\ Setting' = Setting
          /\ Deleting' = Deleting /\ Answered' = Answered /\ kept' = kept
          /\ effects' = effects \cup {r} /\ r \in Running
      BY <2>3 DEF TakeEffect, Holding, Running, Setting, Deleting, Answered
    <3> QED
      BY <3>1, <3>2 DEF OneHolder, Seen, Holding
  <2>4. ASSUME NEW r \in Request, Respond(r, "set") PROVE OneHolder'
    <3>1. OneHolder
      BY <2>4 DEF KeyInv, Respond
    <3>2. r \in Running /\ Running' = Running \ {r}
          /\ Setting' = Setting \cup {r} /\ Deleting' = Deleting
          /\ Answered' \subseteq Answered \cup {r} /\ effects' = effects
          /\ kept' = kept
      BY <2>0, <2>4 DEF Respond, IdempotencyTypeOK, Running, Setting, Deleting,
                        Answered
    <3> QED
      BY <3>1, <3>2 DEF OneHolder, Seen, Holding
  <2>5. ASSUME NEW r \in Request, Respond(r, "delete") PROVE OneHolder'
    <3>1. OneHolder /\ r \notin effects
      BY <2>5 DEF KeyInv, Respond
    <3>2. r \in Running /\ Running' = Running \ {r} /\ Setting' = Setting
          /\ Deleting' = Deleting \cup {r} /\ Answered' = Answered
          /\ effects' = effects /\ kept' = kept
      BY <2>0, <2>5 DEF Respond, IdempotencyTypeOK, Running, Setting, Deleting,
                        Answered
    <3> QED
      BY <3>1, <3>2 DEF OneHolder, Seen, Holding
  <2>6. ASSUME NEW w \in writing, Write(w) \/ WriteFails(w) PROVE OneHolder'
    <3>1. OneHolder
      BY <2>6 DEF KeyInv, Write, WriteFails
    <3>2. PICK what \in {"set", "delete"}, r \in Request : w = << what, r >>
      BY <2>0 DEF IdempotencyTypeOK
    <3>3. Running' = Running /\ Answered' = Answered /\ effects' = effects
      BY <2>6 DEF Write, WriteFails, Running, Answered
    <3>4. Setting' = Setting \ (IF what = "set" THEN {r} ELSE {})
      BY <2>6, <3>2 DEF Write, WriteFails, Setting
    <3>5. Deleting' = Deleting \ (IF what = "set" THEN {} ELSE {r})
      BY <2>6, <3>2 DEF Write, WriteFails, Deleting
    <3>6. r \in IF what = "set" THEN Setting ELSE Deleting
      BY <3>2 DEF Setting, Deleting
    <3>7. CASE Write(w)
      <4>1. kept' = IF what = "set" THEN r ELSE Blank
        BY <3>2, <3>7 DEF Write
      <4> QED
        BY <3>1, <3>3, <3>4, <3>5, <3>6, <4>1, ValueAssumption
           DEF OneHolder, Seen, Holding
    <3>8. CASE WriteFails(w)
      <4>1. kept' = kept
        BY <3>8 DEF WriteFails
      <4> QED
        BY <3>1, <3>3, <3>4, <3>5, <4>1 DEF OneHolder, Seen, Holding
    <3> QED
      BY <2>6, <3>7, <3>8
  <2>7. CASE Crash
    <3>1. OneHolder
      BY <2>7 DEF KeyInv, Crash
    <3>2. Running' = {} /\ Setting' = {} /\ Deleting' = {}
          /\ Answered' = Answered /\ effects' = effects /\ kept' = kept
      BY <2>0, <2>7 DEF Crash, IdempotencyTypeOK, Running, Setting, Deleting,
                        Answered
    <3> QED
      BY <3>1, <3>2 DEF OneHolder, Seen, Holding
  <2>8. CASE Expire
    BY <2>8 DEF Expire
  <2>9. CASE UNCHANGED idempotencyVars
    <3>1. OneHolder
      BY <2>9 DEF KeyInv, idempotencyVars
    <3>2. UNCHANGED << Running, Setting, Deleting, Answered, effects, kept >>
      BY <2>9 DEF idempotencyVars, Answered, Running, Setting, Deleting
    <3> QED
      BY <3>1, <3>2 DEF OneHolder, Seen, Holding
  <2> QED
    BY <2>1, <2>2, <2>3, <2>4, <2>5, <2>6, <2>7, <2>8, <2>9
       DEF IdempotencyNext
<1> QED
  BY <1>1, <1>2, IdempotencyTyped, PTL DEF IdempotencySpec

\* One effect, and its answer, for every key.
THEOREM KeyTakesEffectOnce == IdempotencySpec => []OncePerKey
<1>1. KeyInv => OncePerKey
  <2> SUFFICES ASSUME KeyInv, ~expired, ~spoiled
               PROVE  Cardinality(Seen) <= 1
    BY DEF OncePerKey, Seen
  <2>1. CASE Seen = {}
    BY <2>1, FS_EmptySet
  <2>2. CASE Seen # {}
    <3>1. PICK e : e \in Seen
      BY <2>2
    <3>2. Seen = {e}
      BY <3>1 DEF KeyInv, OneHolder
    <3>3. Cardinality({e}) = 1
      BY FS_Singleton
    <3> QED
      BY <3>2, <3>3
  <2> QED
    BY <2>1, <2>2
<1> QED
  BY <1>1, IdempotencyInvariance, PTL
==================================================================================
