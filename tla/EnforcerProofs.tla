---------------------------- MODULE EnforcerProofs ----------------------------
(***************************************************************************)
(* Proofs about Enforcer for every finite book, every age of its invoices  *)
(* and any number of ticks, views and crashes.                             *)
(***************************************************************************)
EXTENDS Enforcer, FiniteSetTheorems, TLAPS

\* The rungs are numbered along the ladder.
LEMMA Rungs ==
  /\ Levels = {"none", "nudge", "reminder", "act_letter", "samadhaan_prep"}
  /\ Rung("none") = 1 /\ Rung("nudge") = 2 /\ Rung("reminder") = 3
  /\ Rung("act_letter") = 4 /\ Rung("samadhaan_prep") = 5
  /\ \A level \in Levels : Rung(level) \in 1..5
  <1>1. LADDER[1] = "none" /\ LADDER[2] = "nudge" /\ LADDER[3] = "reminder"
        /\ LADDER[4] = "act_letter" /\ LADDER[5] = "samadhaan_prep" /\ DOMAIN LADDER = 1..5
    BY DEF LADDER
  <1>2. \A k \in 1..5 : k = 1 \/ k = 2 \/ k = 3 \/ k = 4 \/ k = 5
    OBVIOUS
  <1>3. Levels = {"none", "nudge", "reminder", "act_letter", "samadhaan_prep"}
    BY <1>1, <1>2 DEF Levels, Range
  <1>4. \A k \in 1..5 : Rung(LADDER[k]) = k
    <2> SUFFICES ASSUME NEW k \in 1..5 PROVE Rung(LADDER[k]) = k
      OBVIOUS
    <2>1. \A j \in 1..5 : LADDER[j] = LADDER[k] => j = k
      BY <1>1, <1>2
    <2> QED BY <2>1 DEF Rung
  <1> QED BY <1>1, <1>3, <1>4

LEMMA EscalationIsLevel == \A days \in Nat : EscalationLevel(days) \in Levels
  <1> SUFFICES ASSUME NEW days \in Nat PROVE EscalationLevel(days) \in Levels
    OBVIOUS
  <1> DEFINE IsRung(k) == Thresholds[k] <= days /\ \A j \in 1..5 : Thresholds[j] <= days => j <= k
  <1>1. /\ Thresholds[1] = 0 /\ Thresholds[2] = 1 /\ Thresholds[3] = 16
        /\ Thresholds[4] = 31 /\ Thresholds[5] = 61
    BY DEF Thresholds
  <1>2. \A k \in 1..5 : k = 1 \/ k = 2 \/ k = 3 \/ k = 4 \/ k = 5
    OBVIOUS
  <1>3. \E k \in 1..5 : IsRung(k)
    <2>1. CASE days = 0
      BY <1>1, <1>2, <2>1
    <2>2. CASE days \in 1..15
      <3>1. IsRung(2) BY <1>1, <1>2, <2>2
      <3> QED BY <3>1
    <2>3. CASE days \in 16..30
      <3>1. IsRung(3) BY <1>1, <1>2, <2>3
      <3> QED BY <3>1
    <2>4. CASE days \in 31..60
      <3>1. IsRung(4) BY <1>1, <1>2, <2>4
      <3> QED BY <3>1
    <2>5. CASE days > 60
      <3>1. IsRung(5) BY <1>1, <1>2, <2>5
      <3> QED BY <3>1
    <2> QED BY <2>1, <2>2, <2>3, <2>4, <2>5
  <1>4. (CHOOSE k \in 1..5 : IsRung(k)) \in 1..5
    BY <1>3
  <1>5. \A k \in 1..5 : LADDER[k] \in Levels
    BY DEF LADDER, Levels, Range
  <1> HIDE DEF IsRung
  <1>6. LADDER[CHOOSE k \in 1..5 : IsRung(k)] \in Levels
    BY <1>4, <1>5
  <1> QED BY <1>6 DEF EscalationLevel, IsRung

\* An order of a finite set lists each of its members once.
LEMMA OrderLists ==
  ASSUME NEW S \in SUBSET Invoices, NEW s \in SetToSeqs(S)
  PROVE  /\ s \in Seq(Invoices) /\ Range(s) = S
         /\ \A j, k \in DOMAIN s : s[j] = s[k] => j = k
  <1>1. IsFiniteSet(S)
    BY FiniteBooks, FS_Subset
  <1> DEFINE D == 1..Cardinality(S)
  <1>2. Cardinality(S) \in Nat
    BY <1>1, FS_CardinalityType
  <1>3. s \in [D -> S] /\ \A i, j \in D : i # j => s[i] # s[j]
    BY DEF SetToSeqs
  <1>4. IsFiniteSet(D) /\ Cardinality(D) = Cardinality(S)
    BY <1>2, FS_Interval
  <1>5. s \in Seq(Invoices)
    BY <1>2, <1>3
  <1>6. Range(s) \subseteq S /\ s \in Injection(D, S)
    BY <1>3 DEF Range, Injection, IsInjective
  <1>7. s \in Surjection(D, S)
    BY <1>1, <1>4, <1>6, FS_Injection
  <1> QED BY <1>3, <1>5, <1>6, <1>7 DEF Range, Surjection

\* The head of a list without repetitions does not come again in its tail.
LEMMA TailLists ==
  ASSUME NEW s \in Seq(Invoices), s # <<>>,
         \A j, k \in DOMAIN s : s[j] = s[k] => j = k
  PROVE  /\ Head(s) \in Range(s) /\ Head(s) \in Invoices /\ Tail(s) \in Seq(Invoices)
         /\ Range(Tail(s)) = Range(s) \ {Head(s)}
         /\ \A j, k \in DOMAIN Tail(s) : Tail(s)[j] = Tail(s)[k] => j = k
  <1>1. /\ Len(s) \in Nat \ {0} /\ DOMAIN s = 1..Len(s) /\ Head(s) = s[1] /\ Tail(s) \in Seq(Invoices)
        /\ DOMAIN Tail(s) = 1..(Len(s) - 1) /\ \A k \in 1..(Len(s) - 1) : Tail(s)[k] = s[k + 1]
    OBVIOUS
  <1>2. \A k \in 1..(Len(s) - 1) : k + 1 \in DOMAIN s
    BY <1>1
  <1>3. \A j, k \in DOMAIN Tail(s) : Tail(s)[j] = Tail(s)[k] => j = k
    BY <1>1, <1>2
  <1>4. Range(Tail(s)) = Range(s) \ {Head(s)}
    <2>1. \A k \in DOMAIN s : k = 1 \/ k - 1 \in 1..(Len(s) - 1)
      BY <1>1
    <2>2. ASSUME NEW x \in Range(s) \ {Head(s)} PROVE x \in Range(Tail(s))
      <3>1. PICK k \in DOMAIN s : s[k] = x
        BY DEF Range
      <3>2. k - 1 \in 1..(Len(s) - 1) /\ Tail(s)[k - 1] = x
        BY <1>1, <2>1, <3>1
      <3> QED BY <1>1, <3>2 DEF Range
    <2>3. ASSUME NEW x \in Range(Tail(s)) PROVE x \in Range(s) \ {Head(s)}
      <3>1. PICK k \in 1..(Len(s) - 1) : s[k + 1] = x
        BY <1>1, <2>3 DEF Range
      <3>2. k + 1 \in DOMAIN s /\ 1 \in DOMAIN s /\ k + 1 # 1
        BY <1>1, <1>2
      <3>3. x # s[1]
        BY <3>1, <3>2
      <3> QED BY <1>1, <3>1, <3>2, <3>3 DEF Range
    <2> QED BY <2>2, <2>3
  <1>5. Head(s) \in Range(s)
    BY <1>1 DEF Range
  <1> QED BY <1>1, <1>3, <1>4, <1>5

-----------------------------------------------------------------------------
(* The inductive invariant. *)

Inv == ArtifactsSound /\ EachRungOnce

\* The action of NeverLowered.
Climbs ==
  ~overlapped' => \A i \in Invoices : Rung(clocks'[i].enforced) >= Rung(clocks[i].enforced)

LEMMA InvInit == Init => Inv
  <1> SUFFICES ASSUME Init PROVE Inv
    OBVIOUS
  <1>1. TypeOK
    <2>1. \A i \in Invoices : clocks[i] \in Clock
      BY Rungs DEF Init, Clock
    <2>2. clocks \in [Invoices -> Clock]
      BY <2>1 DEF Init
    <2>3. \A c \in Callers : DOMAIN snap[c] = {} /\ found[c] \in Seq(Invoices)
      BY DEF Init
    <2>4. day \in 0..LastDay
      BY AgesAreDays DEF Init
    <2>5. DOMAIN snap = Callers /\ DOMAIN found = Callers
      BY DEF Init
    <2> QED BY <2>2, <2>3, <2>4, <2>5 DEF Init, TypeOK
  <1>2. \A i \in Invoices : clocks[i].enforced = "none"
    BY DEF Init
  <1>3. \A t \in Ticks : pc[t] = "idle"
    BY DEF Init, Callers
  <1> QED BY <1>1, <1>2, <1>3 DEF Init, Inv, ArtifactsSound, WorkIsKnown, EnforcedIsBacked, PapersHaveFiles,
             EachRungOnce, MarksHold, RungsFireOnce, DoneMeansEnforced, InFlight

\* While no mark is touched, marks, artifacts and what was done hold on.
LEMMA SameMarks ==
  ASSUME TypeOK, TypeOK', EnforcedIsBacked, PapersHaveFiles, letters' = letters, papers' = papers,
         files \subseteq files', \A i \in Invoices : clocks'[i].enforced = clocks[i].enforced
  PROVE  EnforcedIsBacked' /\ PapersHaveFiles' /\ Climbs
  <1>1. EnforcedIsBacked' /\ PapersHaveFiles'
    BY DEF EnforcedIsBacked, PapersHaveFiles
  <1>2. \A i \in Invoices : Rung(clocks[i].enforced) \in 1..5
    BY Rungs DEF TypeOK, Clock
  <1>3. Climbs
    BY <1>2 DEF Climbs
  <1> QED BY <1>1, <1>3

\* A caller that reads.
LEMMA ReadClocksKeeps ==
  ASSUME Inv, NEW c \in Callers, ReadClocks(c)
  PROVE  Inv' /\ Climbs
  <1> USE DEF Inv, ArtifactsSound, EachRungOnce
  <1>1. /\ pc[c] = "idle" /\ snap' = [snap EXCEPT ![c] = Snapshot]
        /\ pc' = [pc EXCEPT ![c] = IF LooksUpNothing(c) THEN "failed" ELSE "save"]
        /\ overlapped' = (overlapped \/ (c \in Ticks /\ \E t \in Ticks : InFlight(t)))
        /\ UNCHANGED <<day, open, clocks, letters, papers, files, found, crashes>>
    BY DEF ReadClocks, Goto
  <1>2. /\ pc'[c] \in {"failed", "save"} /\ snap'[c] = Snapshot
        /\ \A d \in Callers \ {c} : pc'[d] = pc[d] /\ snap'[d] = snap[d]
    BY <1>1 DEF TypeOK
  <1>3. DOMAIN Snapshot = open /\ \A i \in open : Snapshot[i] \in Snap
    <2>1. \A i \in open : Age[i] + day \in Nat
      BY AgesAreDays DEF TypeOK
    <2>2. \A i \in open : EscalationLevel(Age[i] + day) \in Levels
      BY <2>1, EscalationIsLevel
    <2> QED BY <2>2 DEF Snapshot, Snap, TypeOK, Clock
  <1>4. TypeOK'
    <2>1. ASSUME NEW d \in Callers
          PROVE  DOMAIN snap'[d] \subseteq Invoices /\ \A i \in DOMAIN snap'[d] : snap'[d][i] \in Snap
      <3>1. CASE d = c BY <1>2, <1>3, <3>1 DEF TypeOK
      <3>2. CASE d # c BY <1>2, <3>2 DEF TypeOK
      <3> QED BY <3>1, <3>2
    <2>2. pc' \in [Callers -> {"idle", "save", "prepare", "paper", "done", "failed"}]
      BY <1>1 DEF TypeOK
    <2>3. DOMAIN snap' = Callers /\ overlapped' \in BOOLEAN
      BY <1>1 DEF TypeOK
    <2> QED BY <1>1, <2>1, <2>2, <2>3 DEF TypeOK
  <1>5. EnforcedIsBacked' /\ PapersHaveFiles' /\ Climbs
    BY <1>1, <1>4, SameMarks
  <1>6. \A t \in Ticks : pc'[t] \in {"prepare", "paper", "done"} => pc'[t] = pc[t] /\ snap'[t] = snap[t]
    BY <1>2 DEF Callers
  <1>7. WorkIsKnown'
    BY <1>1, <1>6 DEF WorkIsKnown, Transitions, Current
  <1>8. MarksHold'
    <2> SUFFICES ASSUME ~overlapped' PROVE MarksHold!2'
      BY DEF MarksHold
    <2>1. MarksHold!2
      BY <1>1 DEF MarksHold
    <2>2. \A s \in Ticks : InFlight(s)' => s = c \/ InFlight(s)
      BY <1>2 DEF InFlight, Callers
    <2>3. \A s, t \in Ticks : InFlight(s)' /\ InFlight(t)' => s = t
      BY <1>1, <2>1, <2>2
    <2>4. ASSUME NEW t \in Ticks, InFlight(t)', NEW i \in DOMAIN snap'[t]
          PROVE  clocks'[i].enforced =
                   IF pc'[t] # "save" /\ i \in Transitions(t)' \ Range(found'[t])
                   THEN snap'[t][i].level ELSE snap'[t][i].enforced
      <3>1. CASE t = c
        <4>1. pc'[t] = "save" /\ i \in open /\ snap'[t][i].enforced = clocks[i].enforced
          BY <1>2, <1>3, <2>4, <3>1 DEF InFlight, Snapshot
        <4> QED BY <1>1, <4>1
      <3>2. CASE t # c
        <4>1. pc'[t] = pc[t] /\ snap'[t] = snap[t] /\ found'[t] = found[t] /\ InFlight(t)
          BY <1>1, <1>2, <2>4, <3>2 DEF InFlight, Callers
        <4>2. Transitions(t)' = Transitions(t)
          BY <4>1 DEF Transitions
        <4> QED BY <1>1, <2>1, <2>4, <4>1, <4>2
      <3> QED BY <3>1, <3>2
    <2> QED BY <1>1, <2>1, <2>3, <2>4
  <1>9. RungsFireOnce' /\ DoneMeansEnforced'
    BY <1>1, <1>6 DEF RungsFireOnce, DoneMeansEnforced, Kept
  <1> QED BY <1>4, <1>5, <1>7, <1>8, <1>9

\* A caller that stops leaves everything as it is.
LEMMA StopKeeps ==
  ASSUME Inv, NEW c \in Callers, pc' = [pc EXCEPT ![c] = "failed"],
         UNCHANGED <<day, open, clocks, letters, papers, files, snap, found, overlapped>>
  PROVE  Inv' /\ Climbs
  <1> USE DEF Inv, ArtifactsSound, EachRungOnce
  <1>1. pc'[c] = "failed" /\ \A d \in Callers \ {c} : pc'[d] = pc[d]
    BY DEF TypeOK
  <1>2. TypeOK'
    BY DEF TypeOK
  <1>3. EnforcedIsBacked' /\ PapersHaveFiles' /\ Climbs
    BY <1>2, SameMarks
  <1>4. \A t \in Ticks : InFlight(t)' \/ pc'[t] = "done" => pc'[t] = pc[t]
    BY <1>1 DEF Callers, InFlight
  <1>5. \A t \in Ticks : Transitions(t)' = Transitions(t)
    BY DEF Transitions
  <1>6. \A t \in Ticks : pc'[t] \in {"prepare", "paper"} => InFlight(t)'
    BY DEF InFlight
  <1>7. WorkIsKnown'
    BY <1>4, <1>5, <1>6 DEF WorkIsKnown, Current
  <1>8. MarksHold'
    <2>1. \A t \in Ticks : InFlight(t)' => InFlight(t)
      BY <1>4 DEF InFlight
    <2> QED BY <1>4, <1>5, <2>1 DEF MarksHold
  <1>9. RungsFireOnce' /\ DoneMeansEnforced'
    BY <1>4 DEF RungsFireOnce, DoneMeansEnforced, Kept
  <1> QED BY <1>2, <1>3, <1>7, <1>8, <1>9

LEMMA SaveClocksKeeps ==
  ASSUME Inv, NEW c \in Callers, SaveClocks(c)
  PROVE  Inv' /\ Climbs
  <1> USE DEF Inv, ArtifactsSound, EachRungOnce
  <1>1. /\ pc[c] = "save"
        /\ UNCHANGED <<day, open, letters, papers, files, snap, crashes, overlapped>>
    BY DEF SaveClocks
  <1>2. CASE \E i \in DOMAIN snap[c] : snap[c][i].new /\ clocks[i].known
    <2>1. pc' = [pc EXCEPT ![c] = "failed"] /\ UNCHANGED <<clocks, found>>
      BY <1>2 DEF SaveClocks, Goto
    <2> QED BY <1>1, <2>1, StopKeeps
  <1>3. CASE ~\E i \in DOMAIN snap[c] : snap[c][i].new /\ clocks[i].known
    <2> DEFINE place == IF c \in Ticks THEN "prepare" ELSE "done"
    <2>1. PICK s \in SetToSeqs(Transitions(c)) :
            /\ found' = [found EXCEPT ![c] = IF c \in Ticks THEN s ELSE <<>>]
            /\ pc' = [pc EXCEPT ![c] = place]
            /\ clocks' = [i \in Invoices |-> IF i \in DOMAIN snap[c]
                 THEN [known |-> TRUE, level |-> snap[c][i].level,
                       enforced |-> clocks[i].enforced]
                 ELSE clocks[i]]
      BY <1>3 DEF SaveClocks, Goto, EnforcedAfterSave
    <2>2. Transitions(c) \in SUBSET Invoices
      BY DEF Transitions, TypeOK
    <2>3. /\ s \in Seq(Invoices) /\ Range(s) = Transitions(c)
          /\ \A j, k \in DOMAIN s : s[j] = s[k] => j = k
      BY <2>2, OrderLists
    <2>4. /\ pc'[c] = place /\ (c \in Ticks => found'[c] = s)
          /\ \A d \in Callers \ {c} : pc'[d] = pc[d] /\ found'[d] = found[d]
      BY <2>1 DEF TypeOK
    <2>5. \A i \in Invoices : clocks'[i].enforced = clocks[i].enforced
      BY <2>1
    <2>6. TypeOK'
      <3>1. clocks' \in [Invoices -> Clock]
        <4>1. \A i \in DOMAIN snap[c] : i \in Invoices /\ snap[c][i].level \in Levels
          BY DEF TypeOK, Snap
        <4>2. \A i \in Invoices : clocks'[i] \in Clock
          BY <2>1, <4>1 DEF TypeOK, Clock
        <4> QED BY <2>1, <4>2
      <3>2. \A d \in Callers : found'[d] \in Seq(Invoices)
        <4>1. found'[c] \in Seq(Invoices)
          BY <2>1, <2>3 DEF TypeOK
        <4> QED BY <2>4, <4>1 DEF TypeOK
      <3>3. pc' \in [Callers -> {"idle", "save", "prepare", "paper", "done", "failed"}]
            /\ DOMAIN found' = Callers
        BY <2>1 DEF TypeOK
      <3> QED BY <1>1, <3>1, <3>2, <3>3 DEF TypeOK
    <2>7. EnforcedIsBacked' /\ PapersHaveFiles' /\ Climbs
      BY <1>1, <2>5, <2>6, SameMarks
    <2>8. \A t \in Ticks : Transitions(t)' = Transitions(t)
      BY <1>1 DEF Transitions
    <2>9. \A t \in Ticks :
            /\ t = c => pc'[t] = "prepare" /\ found'[t] = s
            /\ t # c => pc'[t] = pc[t] /\ found'[t] = found[t]
      BY <2>4 DEF Callers
    <2>10. WorkIsKnown'
      <3> SUFFICES ASSUME NEW t \in Ticks PROVE WorkIsKnown!(t)'
        BY DEF WorkIsKnown
      <3>1. CASE t = c
        BY <2>3, <2>8, <2>9, <3>1 DEF Range
      <3>2. CASE t # c
        BY <1>1, <2>8, <2>9, <3>2 DEF WorkIsKnown, Current
      <3> QED BY <3>1, <3>2
    <2>11. MarksHold'
      <3> SUFFICES ASSUME ~overlapped' PROVE MarksHold!2'
        BY DEF MarksHold
      <3>1. MarksHold!2
        BY <1>1 DEF MarksHold
      <3>2. \A t \in Ticks : InFlight(t)' => InFlight(t)
        BY <1>1, <2>9 DEF InFlight
      <3>3. \A a \in letters \cup papers : a.invoice \in Invoices
        BY DEF TypeOK, Artifact
      <3>4. ASSUME NEW t \in Ticks, InFlight(t)', NEW i \in DOMAIN snap'[t]
            PROVE  clocks'[i].enforced =
                     IF pc'[t] # "save" /\ i \in Transitions(t)' \ Range(found'[t])
                     THEN snap'[t][i].level ELSE snap'[t][i].enforced
        <4>1. InFlight(t) /\ i \in DOMAIN snap[t] /\ i \in Invoices /\ snap'[t] = snap[t]
          BY <1>1, <3>2, <3>4 DEF TypeOK, Callers
        <4>2. CASE t = c
          <5>1. Transitions(t)' \ Range(found'[t]) = {}
            BY <2>3, <2>8, <2>9, <4>2
          <5>2. clocks[i].enforced = snap[t][i].enforced
            BY <1>1, <3>1, <4>1, <4>2
          <5> QED BY <2>5, <4>1, <5>1, <5>2
        <4>3. CASE t # c
          BY <2>5, <2>8, <2>9, <3>1, <4>1, <4>3
        <4> QED BY <4>2, <4>3
      <3> QED BY <1>1, <2>5, <3>1, <3>2, <3>3, <3>4
    <2>12. RungsFireOnce' /\ DoneMeansEnforced'
      <3>1. \A t \in Ticks : pc'[t] = "done" => pc[t] = "done"
        BY <2>9
      <3>2. \A t \in Ticks : Kept(t) => Kept(t)'
        BY <1>1, <2>5 DEF Kept, TypeOK, Callers
      <3> QED BY <1>1, <3>1, <3>2 DEF RungsFireOnce, DoneMeansEnforced
    <2> QED BY <2>6, <2>7, <2>10, <2>11, <2>12
  <1> QED BY <1>2, <1>3

\* A tick that prepares the artifact of the head of its list, and its mark.
LEMMA MarkKeeps ==
  ASSUME Inv, NEW t \in Ticks, pc[t] \in {"prepare", "paper"}, found[t] # <<>>,
         NEW level \in ENFORCED_LEVELS, snap[t][Current(t)].level = level,
         clocks' = Mark(Current(t), level), Next1(t), pc' = [pc EXCEPT ![t] = "prepare"],
         UNCHANGED <<day, open, files, snap, crashes, overlapped>>,
         NEW a, a = [by |-> t, invoice |-> Current(t)],
         \/ level = "act_letter" /\ letters' = letters \cup {a} /\ papers' = papers
         \/ level = "samadhaan_prep" /\ papers' = papers \cup {a} /\ letters' = letters /\ a \in files
  PROVE  Inv' /\ Climbs
  <1> USE DEF Inv, ArtifactsSound, EachRungOnce
  <1> DEFINE i == Current(t)
  <1>1. t \in Callers /\ found[t] \in Seq(Invoices)
    BY DEF TypeOK, Callers
  <1>2. /\ \A k \in DOMAIN found[t] : found[t][k] \in Transitions(t)
        /\ \A j, k \in DOMAIN found[t] : found[t][j] = found[t][k] => j = k
    BY DEF WorkIsKnown
  <1>3. /\ i \in Invoices /\ i \in Range(found[t]) /\ found'[t] \in Seq(Invoices)
        /\ Range(found'[t]) = Range(found[t]) \ {i}
        /\ \A j, k \in DOMAIN found'[t] : found'[t][j] = found'[t][k] => j = k
    <2>1. found'[t] = Tail(found[t])
      BY <1>1 DEF Next1, TypeOK
    <2> QED BY <1>1, <1>2, <2>1, TailLists DEF Current
  <1>4. i \in Transitions(t) /\ \A k \in DOMAIN found'[t] : found'[t][k] \in Transitions(t)
    <2>1. \A j \in Range(found[t]) : j \in Transitions(t)
      BY <1>2 DEF Range
    <2>2. \A k \in DOMAIN found'[t] : found'[t][k] \in Range(found'[t])
      BY DEF Range
    <2> HIDE DEF i
    <2> QED BY <1>3, <2>1, <2>2
  <1>5. \A c \in Callers \ {t} : pc'[c] = pc[c] /\ found'[c] = found[c]
    BY <1>1 DEF Next1, TypeOK
  <1>6. pc'[t] = "prepare"
    BY <1>1 DEF TypeOK
  <1>7. level \in Levels /\ Rung(level) \in {4, 5} /\ level \in {"act_letter", "samadhaan_prep"}
    BY Rungs DEF ENFORCED_LEVELS
  <1>8. clocks'[i].enforced = level /\ \A j \in Invoices \ {i} : clocks'[j] = clocks[j]
    BY <1>3 DEF Mark, TypeOK, Clock
  <1> HIDE DEF i
  <1>9. TypeOK'
    <2>1. clocks' \in [Invoices -> Clock]
      BY <1>3, <1>7 DEF Mark, TypeOK, Clock, i
    <2>2. a \in Artifact
      BY <1>3 DEF Artifact, i
    <2>3. DOMAIN found' = Callers /\ \A c \in Callers : found'[c] \in Seq(Invoices)
      <3>1. DOMAIN found' = Callers
        BY DEF Next1, TypeOK
      <3> QED BY <1>3, <1>5, <3>1 DEF TypeOK
    <2>4. pc' \in [Callers -> {"idle", "save", "prepare", "paper", "done", "failed"}]
      BY DEF TypeOK
    <2> QED BY <2>1, <2>2, <2>3, <2>4 DEF TypeOK
  <1>10. Transitions(t)' = Transitions(t) /\ \A s \in Ticks : Transitions(s)' = Transitions(s)
    BY DEF Transitions
  <1>11. WorkIsKnown'
    <2> SUFFICES ASSUME NEW s \in Ticks PROVE WorkIsKnown!(s)'
      BY DEF WorkIsKnown
    <2>1. CASE s = t
      BY <1>3, <1>4, <1>6, <1>10, <2>1
    <2>2. CASE s # t
      <3>1. pc'[s] = pc[s] /\ found'[s] = found[s]
        BY <1>5, <2>2 DEF Callers
      <3> QED BY <1>10, <3>1 DEF WorkIsKnown, Current
    <2> QED BY <2>1, <2>2
  <1>12. EnforcedIsBacked' /\ PapersHaveFiles'
    <2>1. ASSUME NEW j \in Invoices
          PROVE  /\ clocks'[j].enforced = "act_letter" => \E b \in letters' : b.invoice = j
                 /\ clocks'[j].enforced = "samadhaan_prep" => \E b \in papers' : b.invoice = j
      <3>1. CASE j = i
        <4>1. a.invoice = j
          BY <3>1 DEF i
        <4> QED BY <1>8, <3>1, <4>1
      <3>2. CASE j # i
        BY <1>8, <3>2 DEF EnforcedIsBacked
      <3> QED BY <3>1, <3>2
    <2>2. PapersHaveFiles'
      BY DEF PapersHaveFiles
    <2> QED BY <2>1, <2>2 DEF EnforcedIsBacked
  <1>13. InFlight(t) /\ InFlight(t)' /\ \A s \in Ticks : InFlight(s)' => InFlight(s)
    <2>1. \A s \in Ticks \ {t} : pc'[s] = pc[s]
      BY <1>5 DEF Callers
    <2> QED BY <1>6, <2>1 DEF InFlight
  \* The invoice is still below the rung, so it has no artifact of it.
  <1>14. ASSUME ~overlapped
         PROVE  /\ i \in DOMAIN snap[t] /\ snap[t][i].level = level
                /\ clocks[i].enforced = snap[t][i].enforced
                /\ clocks[i].enforced \in Levels /\ Rung(clocks[i].enforced) < Rung(level)
    <2>1. i \in DOMAIN snap[t] /\ Crossed(snap[t][i]) /\ snap[t][i].level = level
      BY <1>4 DEF Transitions, i
    <2>2. clocks[i].enforced = snap[t][i].enforced
      BY <1>3, <1>13, <1>14, <2>1 DEF MarksHold
    <2>3. clocks[i].enforced \in Levels
      BY <1>3 DEF TypeOK, Clock
    <2>4. Rung(snap[t][i].enforced) \in 1..5
      BY <2>2, <2>3, Rungs
    <2> QED BY <1>7, <2>1, <2>2, <2>3, <2>4 DEF Crossed
  <1>15. ASSUME ~overlapped
         PROVE  /\ \A b \in letters : level = "act_letter" => b.invoice # i
                /\ \A b \in papers : b.invoice # i
    <2>1. Rung(clocks[i].enforced) \in 1..5
      BY <1>14, <1>15, Rungs
    <2>2. Rung(clocks[i].enforced) < 5 /\ (level = "act_letter" => Rung(clocks[i].enforced) < 4)
      BY <1>7, <1>14, <1>15, <2>1, Rungs
    <2>3. clocks[i].enforced # "samadhaan_prep"
      BY <2>2, Rungs
    <2> QED BY <1>15, <2>1, <2>2, <2>3, Rungs DEF MarksHold
  <1>16. Climbs
    <2> SUFFICES ASSUME ~overlapped', NEW j \in Invoices
                 PROVE  Rung(clocks'[j].enforced) >= Rung(clocks[j].enforced)
      BY DEF Climbs
    <2>1. Rung(clocks[j].enforced) \in 1..5
      BY Rungs DEF TypeOK, Clock
    <2>2. CASE j = i
      BY <1>7, <1>8, <1>14, <2>1, <2>2
    <2>3. CASE j # i
      BY <1>8, <2>1, <2>3
    <2> QED BY <2>2, <2>3
  <1>17. MarksHold'
    <2> SUFFICES ASSUME ~overlapped' PROVE MarksHold!2'
      BY DEF MarksHold
    <2>1. MarksHold!2
      BY DEF MarksHold
    <2>2. \A r, s \in Ticks : InFlight(r)' /\ InFlight(s)' => r = s
      BY <1>13, <2>1
    <2>3. ASSUME NEW b \in letters' PROVE Rung(clocks'[b.invoice].enforced) >= Rung("act_letter")
      <3>1. CASE b.invoice = i
        BY <1>7, <1>8, <3>1, Rungs
      <3>2. CASE b.invoice # i
        <4>1. b \in letters /\ b.invoice \in Invoices
          BY <3>2 DEF TypeOK, Artifact, i
        <4> QED BY <1>8, <2>1, <3>2, <4>1
      <3> QED BY <3>1, <3>2
    <2>4. ASSUME NEW b \in papers' PROVE clocks'[b.invoice].enforced = "samadhaan_prep"
      <3>1. CASE b \in papers
        <4>1. b.invoice \in Invoices /\ b.invoice # i
          BY <1>15, <3>1 DEF TypeOK, Artifact
        <4> QED BY <1>8, <2>1, <3>1, <4>1
      <3>2. CASE b \notin papers
        BY <1>8, <3>2 DEF i
      <3> QED BY <3>1, <3>2
    <2>5. ASSUME NEW s \in Ticks, InFlight(s)', NEW j \in DOMAIN snap'[s]
          PROVE  clocks'[j].enforced =
                   IF pc'[s] # "save" /\ j \in Transitions(s)' \ Range(found'[s])
                   THEN snap'[s][j].level ELSE snap'[s][j].enforced
      <3>1. s = t
        BY <1>13, <2>2, <2>5
      <3>2. j \in Invoices /\ j \in DOMAIN snap[t]
        BY <1>1, <2>5, <3>1 DEF TypeOK
      <3>3. CASE j = i
        <4>1. j \in Transitions(t)' \ Range(found'[t])
          BY <1>3, <1>4, <1>10, <3>3
        <4> QED BY <1>6, <1>8, <1>14, <3>1, <3>3, <4>1
      <3>4. CASE j # i
        <4>1. j \in Transitions(t)' \ Range(found'[t]) <=> j \in Transitions(t) \ Range(found[t])
          BY <1>3, <1>10, <3>4
        <4>2. clocks[j].enforced =
                   IF j \in Transitions(t) \ Range(found[t])
                   THEN snap[t][j].level ELSE snap[t][j].enforced
          BY <1>13, <2>1, <3>2
        <4> QED BY <1>6, <1>8, <3>1, <3>2, <3>4, <4>1, <4>2
      <3> QED BY <3>3, <3>4
    <2> QED BY <2>2, <2>3, <2>4, <2>5
  <1>18. RungsFireOnce'
    <2> SUFFICES ASSUME ~overlapped' PROVE RungsFireOnce!2'
      BY DEF RungsFireOnce
    <2>1. \A S \in {letters, papers} : \A b, d \in S : b.invoice = d.invoice => b = d
      BY DEF RungsFireOnce
    <2>2. a.invoice = i
      BY DEF i
    <2>3. \A b, d \in letters' : b.invoice = d.invoice => b = d
      BY <1>7, <1>15, <2>1, <2>2
    <2>4. \A b, d \in papers' : b.invoice = d.invoice => b = d
      BY <1>7, <1>15, <2>1, <2>2
    <2> QED BY <2>3, <2>4
  <1>19. DoneMeansEnforced'
    <2> SUFFICES ASSUME ~overlapped', NEW s \in Ticks, pc'[s] = "done" PROVE Kept(s)'
      BY DEF DoneMeansEnforced
    <2>1. s # t /\ s \in Callers
      BY <1>6 DEF Callers
    <2>2. pc[s] = "done" /\ Kept(s)
      BY <1>5, <2>1 DEF DoneMeansEnforced
    <2>3. ASSUME NEW j \in DOMAIN snap[s], snap[s][j].level \in ENFORCED_LEVELS
          PROVE  Rung(clocks'[j].enforced) >= Rung(snap[s][j].level)
      <3>1. j \in Invoices /\ snap[s][j].level \in Levels
        BY <2>1 DEF TypeOK, Snap
      <3>2. clocks[j].enforced \in Levels /\ clocks'[j].enforced \in Levels
        BY <1>9, <3>1 DEF TypeOK, Clock
      <3>3. Rung(clocks[j].enforced) >= Rung(snap[s][j].level)
        BY <2>2, <2>3 DEF Kept
      <3>4. Rung(clocks'[j].enforced) >= Rung(clocks[j].enforced)
        BY <1>16, <3>1 DEF Climbs
      <3> QED BY <3>1, <3>2, <3>3, <3>4, Rungs
    <2> QED BY <2>3 DEF Kept
  <1> QED BY <1>9, <1>11, <1>12, <1>16, <1>17, <1>18, <1>19

LEMMA QueueLetterKeeps ==
  ASSUME Inv, NEW t \in Ticks, QueueLetter(t)
  PROVE  Inv' /\ Climbs
  <1>1. pc' = [pc EXCEPT ![t] = "prepare"]
    BY DEF QueueLetter, Inv, ArtifactsSound, TypeOK
  <1>2. "act_letter" \in ENFORCED_LEVELS
    BY DEF ENFORCED_LEVELS
  <1> QED BY <1>1, <1>2, MarkKeeps DEF QueueLetter

LEMMA SavePaperKeeps ==
  ASSUME Inv, NEW t \in Ticks, SavePaper(t)
  PROVE  Inv' /\ Climbs
  <1>1. /\ found[t] # <<>> /\ snap[t][Current(t)].level = "samadhaan_prep"
        /\ [by |-> t, invoice |-> Current(t)] \in files
    BY DEF SavePaper, Inv, ArtifactsSound, WorkIsKnown
  <1>2. "samadhaan_prep" \in ENFORCED_LEVELS
    BY DEF ENFORCED_LEVELS
  <1> QED BY <1>1, <1>2, MarkKeeps DEF SavePaper, Goto

\* The file is there before the document: only the tick's place changes.
LEMMA WritePaperKeeps ==
  ASSUME Inv, NEW t \in Ticks, WritePaper(t)
  PROVE  Inv' /\ Climbs
  <1> USE DEF Inv, ArtifactsSound, EachRungOnce
  <1>1. /\ pc[t] = "prepare" /\ found[t] # <<>> /\ snap[t][Current(t)].level = "samadhaan_prep"
        /\ files' = files \cup {[by |-> t, invoice |-> Current(t)]}
        /\ pc' = [pc EXCEPT ![t] = "paper"]
        /\ UNCHANGED <<day, open, clocks, letters, papers, snap, found, crashes, overlapped>>
    BY DEF WritePaper, FilesWith, Goto
  <1>2. t \in Callers /\ found[t] \in Seq(Invoices)
    BY DEF TypeOK, Callers
  <1>3. pc'[t] = "paper" /\ \A s \in Ticks \ {t} : pc'[s] = pc[s]
    BY <1>1, <1>2 DEF TypeOK, Callers
  <1>4. Current(t) \in Invoices
    BY <1>1, <1>2 DEF Current
  <1>5. TypeOK'
    <2>1. files' \subseteq Artifact
      BY <1>1, <1>4 DEF TypeOK, Artifact
    <2>2. pc' \in [Callers -> {"idle", "save", "prepare", "paper", "done", "failed"}]
      BY <1>1 DEF TypeOK
    <2> QED BY <1>1, <2>1, <2>2 DEF TypeOK
  <1>6. EnforcedIsBacked' /\ PapersHaveFiles' /\ Climbs
    BY <1>1, <1>5, SameMarks
  <1>7. \A s \in Ticks : Transitions(s)' = Transitions(s) /\ Current(s)' = Current(s)
    BY <1>1 DEF Transitions, Current
  <1>8. WorkIsKnown'
    <2> SUFFICES ASSUME NEW s \in Ticks PROVE WorkIsKnown!(s)'
      BY DEF WorkIsKnown
    <2>1. CASE s = t
      BY <1>1, <1>3, <1>7, <2>1 DEF WorkIsKnown
    <2>2. CASE s # t
      BY <1>1, <1>3, <1>7, <2>2 DEF WorkIsKnown
    <2> QED BY <2>1, <2>2
  <1>9. \A s \in Ticks :
          /\ InFlight(s)' <=> InFlight(s)
          /\ pc'[s] = "save" <=> pc[s] = "save"
          /\ pc'[s] = "done" <=> pc[s] = "done"
    BY <1>1, <1>3 DEF InFlight
  <1>10. MarksHold' /\ RungsFireOnce' /\ DoneMeansEnforced'
    BY <1>1, <1>7, <1>9 DEF MarksHold, RungsFireOnce, DoneMeansEnforced, Kept
  <1> QED BY <1>5, <1>6, <1>8, <1>10

\* A tick that ends has nothing left to prepare.
LEMMA EndTickKeeps ==
  ASSUME Inv, NEW t \in Ticks, EndTick(t)
  PROVE  Inv' /\ Climbs
  <1> USE DEF Inv, ArtifactsSound, EachRungOnce
  <1>1. /\ pc[t] = "prepare" /\ found[t] = <<>> /\ pc' = [pc EXCEPT ![t] = "done"]
        /\ UNCHANGED <<day, open, clocks, letters, papers, files, snap, found, crashes, overlapped>>
    BY DEF EndTick, Goto
  <1>2. t \in Callers /\ pc'[t] = "done" /\ \A s \in Ticks \ {t} : pc'[s] = pc[s]
    BY <1>1 DEF TypeOK, Callers
  <1>3. TypeOK'
    BY <1>1 DEF TypeOK
  <1>4. EnforcedIsBacked' /\ PapersHaveFiles' /\ Climbs
    BY <1>1, <1>3, SameMarks
  <1>5. \A s \in Ticks : Transitions(s)' = Transitions(s) /\ Current(s)' = Current(s)
    BY <1>1 DEF Transitions, Current
  <1>6. WorkIsKnown'
    BY <1>1, <1>2, <1>5 DEF WorkIsKnown
  <1>7. \A s \in Ticks : InFlight(s)' => InFlight(s) /\ pc'[s] = pc[s]
    BY <1>2 DEF InFlight
  <1>8. MarksHold' /\ RungsFireOnce'
    BY <1>1, <1>5, <1>7 DEF MarksHold, RungsFireOnce
  <1>9. ASSUME ~overlapped, NEW i \in DOMAIN snap[t], snap[t][i].level \in ENFORCED_LEVELS
        PROVE  Rung(clocks[i].enforced) >= Rung(snap[t][i].level)
    <2>1. i \in Invoices /\ snap[t][i] \in Snap
      BY <1>2 DEF TypeOK
    <2>2. Rung(clocks[i].enforced) \in 1..5 /\ Rung(snap[t][i].level) \in 1..5
          /\ Rung(snap[t][i].enforced) \in 1..5
      BY <2>1, Rungs DEF TypeOK, Clock, Snap
    <2>3. InFlight(t) /\ Range(found[t]) = {}
      BY <1>1 DEF InFlight, Range
    <2>4. clocks[i].enforced =
            IF i \in Transitions(t) THEN snap[t][i].level ELSE snap[t][i].enforced
      BY <1>1, <1>9, <2>3 DEF MarksHold
    <2>5. CASE i \in Transitions(t)
      BY <2>2, <2>4, <2>5
    <2>6. CASE i \notin Transitions(t)
      BY <1>9, <2>2, <2>4, <2>6 DEF Transitions, Crossed
    <2> QED BY <2>5, <2>6
  <1>10. DoneMeansEnforced'
    <2>1. \A s \in Ticks : Kept(s)' = Kept(s)
      BY <1>1 DEF Kept
    <2>2. ~overlapped => Kept(t)
      BY <1>9 DEF Kept
    <2> QED BY <1>1, <1>2, <2>1, <2>2 DEF DoneMeansEnforced
  <1> QED BY <1>3, <1>4, <1>6, <1>8, <1>10

\* Payments, days and stuttering leave callers, clocks and artifacts alone.
LEMMA WorldKeeps ==
  ASSUME Inv, open' \subseteq open, day' \in 0..LastDay,
         UNCHANGED <<clocks, letters, papers, files, pc, snap, found, overlapped>>
  PROVE  Inv' /\ Climbs
  <1> USE DEF Inv, ArtifactsSound, EachRungOnce
  <1>1. TypeOK'
    BY DEF TypeOK
  <1>2. EnforcedIsBacked' /\ PapersHaveFiles' /\ Climbs
    BY <1>1, SameMarks
  <1>3. \A t \in Ticks : Transitions(t)' = Transitions(t) /\ Current(t)' = Current(t)
    BY DEF Transitions, Current
  <1>4. WorkIsKnown'
    BY <1>3 DEF WorkIsKnown
  <1>5. MarksHold' /\ RungsFireOnce' /\ DoneMeansEnforced'
    BY <1>3 DEF MarksHold, RungsFireOnce, DoneMeansEnforced, Kept, InFlight
  <1> QED BY <1>1, <1>2, <1>4, <1>5

LEMMA InvNext == Inv /\ [Next]_vars => Inv' /\ Climbs
  <1> SUFFICES ASSUME Inv, [Next]_vars PROVE Inv' /\ Climbs
    OBVIOUS
  <1>1. day \in 0..LastDay
    BY DEF Inv, ArtifactsSound, TypeOK
  <1>2. ASSUME NEW c \in Callers, ReadClocks(c) PROVE Inv' /\ Climbs
    BY <1>2, ReadClocksKeeps
  <1>3. ASSUME NEW c \in Callers, SaveClocks(c) PROVE Inv' /\ Climbs
    BY <1>3, SaveClocksKeeps
  <1>4. ASSUME NEW c \in Callers, Crash(c) PROVE Inv' /\ Climbs
    BY <1>4, StopKeeps DEF Crash, Goto
  <1>5. ASSUME NEW t \in Ticks, TickStep(t) PROVE Inv' /\ Climbs
    BY <1>5, QueueLetterKeeps, WritePaperKeeps, SavePaperKeeps, EndTickKeeps DEF TickStep
  <1>6. ASSUME NEW i \in Invoices, Pay(i) PROVE Inv' /\ Climbs
    <2>1. open' \subseteq open
      BY <1>6 DEF Pay
    <2> QED BY <1>1, <1>6, <2>1, WorldKeeps DEF Pay
  <1>7. CASE NextDay
    <2>1. PICK d \in {Thresholds[k] - Age[i] : k \in 1..5, i \in Invoices} :
            d > day /\ d <= LastDay /\ day' = d
      BY <1>7 DEF NextDay
    <2>2. d \in Int
      BY AgesAreDays DEF Thresholds
    <2>3. day' \in 0..LastDay
      BY <1>1, <2>1, <2>2, AgesAreDays
    <2> QED BY <1>7, <2>3, WorldKeeps DEF NextDay
  <1>8. CASE UNCHANGED vars
    BY <1>1, <1>8, WorldKeeps DEF vars
  <1> QED BY <1>2, <1>3, <1>4, <1>5, <1>6, <1>7, <1>8 DEF Next, Quiet

-----------------------------------------------------------------------------

LEMMA InvHolds == Spec => []Inv
  <1>1. Inv /\ [Next]_vars => Inv'
    BY InvNext
  <1> QED BY <1>1, InvInit, PTL DEF Spec

\* The state is well typed, a rung is marked only with its artifact, a paper has
\* its file, and a tick prepares what it saw crossed, once each, in every
\* interleaving of ticks and views with crashes and days.
THEOREM ArtifactsStaySound == Spec => []ArtifactsSound
  <1>1. Inv => ArtifactsSound
    BY DEF Inv
  <1> QED BY <1>1, InvHolds, PTL

\* Ticks that never overlap prepare each crossed rung of an invoice once, and
\* one that ends well leaves none out.
THEOREM RungsAreEnforcedOnce == Spec => []EachRungOnce
  <1>1. Inv => EachRungOnce
    BY DEF Inv
  <1> QED BY <1>1, InvHolds, PTL

\* While ticks do not overlap, the rung a clock was enforced to never goes down.
THEOREM RungsNeverLowered == Spec => NeverLowered
  <1>1. Inv /\ [Next]_vars => [Climbs]_vars
    BY InvNext
  <1> QED BY <1>1, InvHolds, PTL DEF Spec, NeverLowered, Climbs

=============================================================================
