---------------------------- MODULE BeliefsProofs ----------------------------
(***************************************************************************)
(* Proofs about the memory engine and the conflict cards for any beliefs,  *)
(* requests, viewers and resolvers: reinforcement counts what was served,  *)
(* resolved cards tell what became of both memories, evidence stays with   *)
(* its belief, and the log of resolutions agrees with the statuses.  The   *)
(* last part is about what is made of beliefs, by calls of Algorithms: the *)
(* tone of a reminder, a retrieval's budget, the workflows mined.          *)
(***************************************************************************)
EXTENDS ConflictCards, Algorithms, FiniteSetTheorems, WellFoundedInduction, TLAPS

-----------------------------------------------------------------------------
(* The inductive invariant.                                                 *)

Statuses == {"absent", "active", "crystallized", "tombstoned", "gone"}
Born == {b \in Beliefs : status[b] # "absent"}
OwnOf(r) == IF r \in Ingests THEN {<<r, 1>>, <<r, 2>>} ELSE {}
\* What r may name: committed units and those its transaction has inserted.
Known(r) == Born \cup DOMAIN staged[r]

Places(r) ==
  IF r \in Ingests THEN {"away", "idle", "resolve", "retire", "prove", "commit", "done", "failed"}
  ELSE IF r \in Retrievers THEN {"away", "idle", "reinforce", "commit", "done", "failed"}
  ELSE IF r \in Consolidators
       THEN {"away", "idle", "crystallize", "sweep", "compact", "commit", "done", "failed"}
  ELSE {"away", "idle", "row", "done", "failed"}

IsEntry(e) == /\ e = [a |-> e.a, b |-> e.b, resolution |-> e.resolution]
              /\ e.a \in Beliefs /\ e.b \in Beliefs /\ e.a # e.b

\* Facts r has inserted, in order.
InsertsInOrder(r) ==
  /\ Written(r) \in {{}, {<<r, 1>>}, {<<r, 1>>, <<r, 2>>}}
  /\ pc[r] = "resolve" =>
       Written(r) = {} \/ (Written(r) = {<<r, 1>>} /\ Facts[r] = 2)
  /\ pc[r] \in {"retire", "prove"} => Written(r) # {}

\* A transaction stages what it holds locked, or units of its own; what it read
\* stays as it read it for as long as it holds the lock.
StagedSound(r) ==
  /\ \A b \in DOMAIN staged[r] :
       /\ b \in Beliefs /\ staged[r][b] \in Statuses \ {"absent"}
       /\ staged[r][b] = "gone" => r \in Consolidators
       /\ Exists(b) \/ (b \in OwnOf(r) /\ status[b] = "absent")
  /\ \A b \in DOMAIN bumps[r] :
       b \in Beliefs /\ Exists(b) /\ bumps[r][b] = count[b] + 1
  /\ \A e \in entries[r] : IsEntry(e) /\ {e.a, e.b} \subseteq Known(r)
  /\ entries[r] # {} => target[r] \in Beliefs

RequestSound(r) ==
  /\ pc[r] \in Places(r)
  /\ todo[r] \in Seq(Born)
  /\ ~InFlight(r) \/ r \in Deleters => staged[r] = <<>> /\ bumps[r] = <<>> /\ entries[r] = {}
  /\ StagedSound(r)
  /\ r \in Ingests =>
       /\ InsertsInOrder(r)
       /\ InFlight(r) => seen[r] \subseteq Known(r)
       /\ pc[r] = "retire" => target[r] \in seen[r]
       /\ pc[r] # "done" => OwnOf(r) \cap Born = {}
  /\ r \in Deleters /\ pc[r] \in {"row", "done"} => target[r] \in Born
  /\ r \in Deleters /\ pc[r] = "done" => status[target[r]] = "gone"

LocksApart == \A q, r \in Requests : q # r => Locks(q) \cap Locks(r) = {}

MemorySound ==
  /\ status \in [Beliefs -> Statuses] /\ DOMAIN count = Beliefs /\ DOMAIN hits = Beliefs
  /\ explained \subseteq nodes /\ nodes \subseteq Beliefs /\ weak \subseteq Beliefs
  /\ DOMAIN pc = Requests /\ DOMAIN seen = Requests /\ DOMAIN todo = Requests
  /\ DOMAIN target = Requests /\ DOMAIN staged = Requests /\ DOMAIN bumps = Requests
  /\ DOMAIN entries = Requests
  /\ \A r \in Requests : RequestSound(r)
  /\ LocksApart
  /\ \A e \in log : IsEntry(e) /\ {e.a, e.b} \subseteq Born
  /\ CountsAreHits
  /\ \A b \in Beliefs : status[b] = "gone" =>
       \/ \E d \in Deleters : pc[d] = "done" /\ target[d] = b
       \/ \E r \in Consolidators : pc[r] = "done"

\* A pair of beliefs with a flagged conflict.
Disputed == {c \in Beliefs \X Beliefs : [a |-> c[1], b |-> c[2], resolution |-> "flagged"] \in log}
\* p has read a card.
Engaged(p) == place[p] \notin {"away", "idle"}

ResolverSound(p) ==
  /\ Engaged(p) =>
       /\ pick[p].card \in DOMAIN cards
       /\ pick[p].keep \in {pick[p].card[1], pick[p].card[2]}
  /\ pc[p] \in {"row", "done"} => Engaged(p) /\ target[p] = Loser(p)
  /\ gone[p] => Engaged(p) /\ pc[p] = "done"
  /\ place[p] = "done" => cards[pick[p].card].status = "resolved"

CardsSound ==
  /\ place \in [People -> {"away", "idle", "join", "delete", "reinforce", "write", "done", "failed"}]
  /\ \A v \in Viewers : place[v] \notin {"delete", "reinforce", "write"}
  /\ DOMAIN work = Viewers /\ DOMAIN made = Viewers
  /\ DOMAIN pick = Resolvers /\ gone \in [Resolvers -> BOOLEAN]
  /\ \A v \in Viewers : work[v] \subseteq Disputed /\ made[v] \subseteq Disputed
  /\ \A c \in DOMAIN cards :
       /\ c \in Disputed
       /\ cards[c].status \in {"open", "resolved"}
       /\ cards[c].status = "resolved" =>
            \E p \in Resolvers : /\ place[p] = "done" /\ pick[p].card = c
                                 /\ cards[c].winner = pick[p].keep
       /\ cards[c].deleted =>
            \E b \in {c[1], c[2]} : b # cards[c].winner /\ status[b] = "gone"
  /\ \A p \in Resolvers : ResolverSound(p)
  /\ ~contested => \A p, q \in Resolvers :
       p # q /\ Engaged(p) /\ Engaged(q) => pick[p].card # pick[q].card

Inv == MemorySound /\ CardsSound

-----------------------------------------------------------------------------
(* Functions, sequences and the inserted facts.                             *)

LEMMA EmptyFunction == DOMAIN <<>> = {}
  OBVIOUS

\* An order of a set of beliefs lists its members.
LEMMA OrdersList ==
  ASSUME NEW S \in SUBSET Beliefs, NEW s \in SetToSeqs(S)
  PROVE  s \in Seq(S)
  <1>1. Cardinality(S) \in Nat
    BY BeliefsAreFinite, FS_Subset, FS_CardinalityType
  <1> QED BY <1>1 DEF SetToSeqs

\* The next insert of r is new to its transaction.
LEMMA NextInsert ==
  ASSUME NEW r \in Ingests, InsertsInOrder(r), pc[r] = "resolve"
  PROVE  /\ NewOf(r) \in OwnOf(r) /\ NewOf(r) \in Beliefs \ Old
         /\ NewOf(r) \notin Written(r) /\ NewOf(r)[1] = r
         /\ Written(r) \cup {NewOf(r)} \in {{<<r, 1>>}, {<<r, 1>>, <<r, 2>>}}
  <1>1. CASE Written(r) = {}
    <2>1. NewOf(r) = <<r, 1>>
      BY <1>1, FS_EmptySet DEF NewOf
    <2> QED BY <1>1, <2>1, NewIsNotOld DEF OwnOf, Beliefs
  <1>2. CASE Written(r) = {<<r, 1>>}
    <2>1. Cardinality(Written(r)) = 1
      BY <1>2, FS_Singleton
    <2>2. NewOf(r) = <<r, 2>>
      BY <2>1 DEF NewOf
    <2> QED BY <1>2, <2>2, NewIsNotOld DEF OwnOf, Beliefs
  <1> QED BY <1>1, <1>2 DEF InsertsInOrder

LEMMA LastInsert ==
  ASSUME NEW r \in Ingests, InsertsInOrder(r), Written(r) # {}
  PROVE  LastOf(r) \in Written(r) /\ LastOf(r) \in Beliefs
         /\ (Cardinality(Written(r)) < Facts[r] => Written(r) = {<<r, 1>>} /\ Facts[r] = 2)
  <1>1. CASE Written(r) = {<<r, 1>>}
    <2>1. Cardinality(Written(r)) = 1 /\ LastOf(r) = <<r, 1>>
      BY <1>1, FS_Singleton DEF LastOf
    <2> QED BY <1>1, <2>1, FactCounts DEF Beliefs
  <1>2. CASE Written(r) = {<<r, 1>>, <<r, 2>>}
    <2>1. <<r, 2>> \notin {<<r, 1>>} /\ Written(r) = {<<r, 1>>} \cup {<<r, 2>>}
      BY <1>2
    <2>2. IsFiniteSet({<<r, 1>>})
      BY FS_Singleton
    <2>3. Cardinality({<<r, 1>>}) = 1
      BY FS_Singleton
    <2>4. Cardinality({<<r, 1>>} \cup {<<r, 2>>}) = Cardinality({<<r, 1>>}) + 1
      BY <2>1, <2>2, FS_AddElement
    <2>5. Cardinality(Written(r)) = 2
      BY <2>1, <2>3, <2>4
    <2>6. LastOf(r) = <<r, 2>>
      BY <2>5 DEF LastOf
    <2> QED BY <1>2, <2>5, <2>6, FactCounts DEF Beliefs
  <1> QED BY <1>1, <1>2 DEF InsertsInOrder

-----------------------------------------------------------------------------
(* Steps of one transaction that commit nothing.                            *)

Same(q) ==
  /\ pc'[q] = pc[q] /\ seen'[q] = seen[q] /\ todo'[q] = todo[q] /\ target'[q] = target[q]
  /\ staged'[q] = staged[q] /\ bumps'[q] = bumps[q] /\ entries'[q] = entries[q]

Domains ==
  /\ DOMAIN pc = Requests /\ DOMAIN seen = Requests /\ DOMAIN todo = Requests
  /\ DOMAIN target = Requests /\ DOMAIN staged = Requests /\ DOMAIN bumps = Requests
  /\ DOMAIN entries = Requests

\* What every committed state keeps for a request whose transaction rests.
LEMMA SameSound ==
  ASSUME NEW q \in Requests, RequestSound(q), Same(q), UNCHANGED <<status, count>>
  PROVE  RequestSound(q)' /\ Locks(q)' = Locks(q)
  <1>1. (InFlight(q)' <=> InFlight(q)) /\ Born' = Born /\ Known(q)' = Known(q) /\ Written(q)' = Written(q)
        /\ \A b : (Exists(b)' <=> Exists(b))
    BY DEF Same, InFlight, Born, Known, Written, Exists
  <1>2. StagedSound(q)'
    BY <1>1 DEF Same, RequestSound, StagedSound
  <1>3. InsertsInOrder(q) => InsertsInOrder(q)'
    BY <1>1 DEF Same, InsertsInOrder
  <1> QED BY <1>1, <1>2, <1>3 DEF Same, RequestSound, Locks

LEMMA Local ==
  ASSUME MemorySound, NEW r \in Requests, UNCHANGED <<status, count, log, hits>>,
         Domains', \A q \in Requests \ {r} : Same(q), RequestSound(r)',
         \A b \in Locks(r)' : b \in Locks(r) \/ Free(r, b),
         nodes' \subseteq Beliefs, explained' \subseteq nodes', weak' \subseteq Beliefs,
         pc[r] = "done" => pc'[r] = "done" /\ target'[r] = target[r]
  PROVE  MemorySound'
  <1>1. \A q \in Requests \ {r} : RequestSound(q)' /\ Locks(q)' = Locks(q)
    BY SameSound DEF MemorySound
  <1>2. LocksApart'
    BY <1>1 DEF MemorySound, LocksApart, Free
  <1>3. Born' = Born
    BY DEF Born
  <1>4. \A b \in Beliefs : status'[b] = "gone" =>
       \/ \E d \in Deleters : pc'[d] = "done" /\ target'[d] = b
       \/ \E c \in Consolidators : pc'[c] = "done"
    BY DEF MemorySound, Same, Requests
  <1> QED BY <1>1, <1>2, <1>3, <1>4 DEF MemorySound, Domains, CountsAreHits

LEMMA ListKeeps ==
  ASSUME MemorySound, NEW r \in Ingests, ListBeliefs(r)
  PROVE  MemorySound'
  <1>1. /\ r \in Requests /\ Domains' /\ \A q \in Requests \ {r} : Same(q)
        /\ pc'[r] = "resolve" /\ seen'[r] = Candidates /\ todo'[r] = todo[r]
        /\ target'[r] = target[r] /\ staged'[r] = staged[r] /\ bumps'[r] = bumps[r]
        /\ entries'[r] = entries[r]
    BY DEF ListBeliefs, Goto, MemorySound, Domains, Same, Requests
  <1>2. RequestSound(r) /\ staged[r] = <<>> /\ bumps[r] = <<>> /\ entries[r] = {}
    BY <1>1 DEF MemorySound, RequestSound, InFlight, ListBeliefs
  <1>3. Written(r)' = {} /\ Locks(r)' = {}
    BY <1>1, <1>2, EmptyFunction DEF Written, Locks
  <1>4. Born' = Born /\ Candidates \subseteq Known(r)'
    BY DEF Born, Candidates, Known, ListBeliefs, db
  <1>5. StagedSound(r)'
    BY <1>1, <1>2, EmptyFunction DEF StagedSound
  <1>6. r \notin Deleters
    BY KindsAreApart
  <1>7. RequestSound(r)'
    BY <1>1, <1>2, <1>3, <1>4, <1>5, <1>6 DEF RequestSound, Places, InFlight, InsertsInOrder, ListBeliefs
  <1> QED BY <1>1, <1>3, <1>7, Local DEF ListBeliefs, db, graph, MemorySound

LEMMA ResolveKeeps ==
  ASSUME MemorySound, NEW r \in Ingests, Resolve(r)
  PROVE  MemorySound'
  <1> DEFINE b == NewOf(r)
  <1>1. /\ r \in Requests /\ Domains' /\ \A q \in Requests \ {r} : Same(q)
        /\ staged'[r] = Put(staged[r], b, "active") /\ seen'[r] = seen[r] \cup {b}
        /\ bumps'[r] = bumps[r] /\ todo'[r] = todo[r]
    BY DEF Resolve, Goto, MemorySound, Domains, Same, Requests
  <1>2. RequestSound(r) /\ InFlight(r) /\ r \notin Deleters
    BY <1>1, KindsAreApart DEF MemorySound, RequestSound, InFlight, Resolve
  <1>3. /\ b \in OwnOf(r) /\ b \in Beliefs \ Old /\ b \notin Written(r) /\ b[1] = r
        /\ Written(r) \cup {b} \in {{<<r, 1>>}, {<<r, 1>>, <<r, 2>>}}
    BY <1>2, NextInsert DEF RequestSound, Resolve
  <1>4. b \notin Known(r) /\ status[b] = "absent" /\ b \notin DOMAIN staged[r]
    BY <1>2, <1>3 DEF RequestSound, Resolve, Born, Known, Written
  <1>5. DOMAIN staged'[r] = DOMAIN staged[r] \cup {b} /\ staged'[r][b] = "active"
        /\ \A x \in DOMAIN staged[r] : staged'[r][x] = staged[r][x]
    <2> HIDE DEF b
    <2> QED BY <1>1, <1>4 DEF Put
  <1>6. Written(r)' = Written(r) \cup {b}
    BY <1>3, <1>5 DEF Written
  <1>7. Born' = Born /\ Known(r)' = Known(r) \cup {b} /\ UNCHANGED <<status, count, log, hits>>
        /\ \A x : Exists(x)' <=> Exists(x)
    BY <1>5 DEF Born, Known, Exists, Resolve, db, past
  <1>8. Locks(r)' = Locks(r)
    BY <1>1, <1>4, <1>5, <1>7 DEF Locks, Exists
  <1>9. /\ pc'[r] \in {"retire", "prove"}
        /\ pc'[r] = "retire" => target'[r] \in seen[r]
        /\ \/ entries'[r] = entries[r] /\ target'[r] = target[r]
           \/ \E e \in seen[r], d \in Decisive \cup {"flagged"} :
                target'[r] = e /\ entries'[r] = entries[r] \cup Entry(e, b, d)
    <2>1. CASE seen[r] = {}
      BY <2>1, <1>1 DEF Resolve, Goto, MemorySound, Requests
    <2>2. CASE seen[r] # {}
      BY <2>2, <1>1 DEF Resolve, Goto, MemorySound, Requests
    <2> QED BY <2>1, <2>2
  <1>10. seen[r] \subseteq Known(r) /\ Known(r) \subseteq Beliefs
    BY <1>2 DEF RequestSound, StagedSound, Known, Born
  <1>11. \A e \in seen[r] : \A d : \A x \in Entry(e, b, d) : IsEntry(x) /\ {x.a, x.b} \subseteq Known(r)'
    BY <1>3, <1>4, <1>7, <1>10 DEF Entry, IsEntry
  <1>12. \A x \in entries'[r] : IsEntry(x) /\ {x.a, x.b} \subseteq Known(r)'
    BY <1>2, <1>7, <1>9, <1>11 DEF RequestSound, StagedSound
  <1>13. StagedSound(r)'
    <2>1. entries'[r] # {} => target'[r] \in Beliefs
      BY <1>2, <1>9, <1>10 DEF RequestSound, StagedSound
    <2>2. \A x \in DOMAIN staged'[r] :
            /\ x \in Beliefs /\ staged'[r][x] \in Statuses \ {"absent"}
            /\ staged'[r][x] = "gone" => r \in Consolidators
            /\ Exists(x)' \/ (x \in OwnOf(r) /\ status'[x] = "absent")
      BY <1>2, <1>3, <1>4, <1>5, <1>7 DEF RequestSound, StagedSound, Statuses
    <2> QED BY <1>1, <1>2, <1>7, <1>12, <2>1, <2>2 DEF RequestSound, StagedSound
  <1>14. InsertsInOrder(r)'
    BY <1>3, <1>6, <1>9 DEF InsertsInOrder
  <1>15. RequestSound(r)'
    BY <1>1, <1>2, <1>7, <1>9, <1>10, <1>13, <1>14 DEF RequestSound, Places, InFlight
  <1> QED BY <1>1, <1>2, <1>7, <1>8, <1>15, Local DEF Resolve, db, graph, MemorySound

LEMMA RetireKeeps ==
  ASSUME MemorySound, NEW r \in Ingests, Retire(r)
  PROVE  MemorySound'
  <1> DEFINE e == target[r]
  <1>1. /\ r \in Requests /\ Domains' /\ \A q \in Requests \ {r} : Same(q)
        /\ staged'[r] = IF status[e] = "gone" THEN staged[r] ELSE Put(staged[r], e, "tombstoned")
        /\ pc'[r] = "prove" /\ seen'[r] = seen[r] /\ target'[r] = target[r]
        /\ bumps'[r] = bumps[r] /\ todo'[r] = todo[r] /\ entries'[r] = entries[r]
    BY DEF Retire, Goto, MemorySound, Domains, Same, Requests, StatusOfRetired
  <1>2. RequestSound(r) /\ InFlight(r) /\ pc[r] = "retire" /\ r \notin Deleters
    BY <1>1, KindsAreApart DEF MemorySound, RequestSound, InFlight, Retire
  <1>3. e \in Known(r) /\ Known(r) \subseteq Beliefs
    BY <1>2 DEF RequestSound, StagedSound, Known, Born
  <1>4. Born' = Born /\ UNCHANGED <<status, count, log, hits>> /\ \A x : Exists(x)' <=> Exists(x)
    BY DEF Born, Exists, Retire, db, past
  <1>5. /\ DOMAIN staged'[r] \subseteq DOMAIN staged[r] \cup {e} /\ DOMAIN staged[r] \subseteq DOMAIN staged'[r]
        /\ \A x \in DOMAIN staged'[r] : x = e \/ staged'[r][x] = staged[r][x]
        /\ e \in DOMAIN staged'[r] => staged'[r][e] \in {"tombstoned", staged[r][e]}
        /\ e \in DOMAIN staged'[r] \ DOMAIN staged[r] => status[e] # "gone" /\ staged'[r][e] = "tombstoned"
    <2> HIDE DEF e
    <2> QED BY <1>1 DEF Put
  <1>6. e \in DOMAIN staged'[r] => Exists(e) \/ (e \in OwnOf(r) /\ status[e] = "absent")
    <2>1. CASE e \in DOMAIN staged[r]
      BY <1>2, <2>1 DEF RequestSound, StagedSound
    <2>2. CASE e \notin DOMAIN staged[r]
      BY <1>3, <1>5, <2>2 DEF Known, Born, Exists
    <2> QED BY <2>1, <2>2
  <1>7. \A x \in DOMAIN staged'[r] :
            /\ x \in Beliefs /\ staged'[r][x] \in Statuses \ {"absent"}
            /\ staged'[r][x] = "gone" => r \in Consolidators
            /\ Exists(x) \/ (x \in OwnOf(r) /\ status[x] = "absent")
    <2> SUFFICES ASSUME NEW x \in DOMAIN staged'[r]
                 PROVE  /\ x \in Beliefs /\ staged'[r][x] \in Statuses \ {"absent"}
                        /\ staged'[r][x] = "gone" => r \in Consolidators
                        /\ Exists(x) \/ (x \in OwnOf(r) /\ status[x] = "absent")
      OBVIOUS
    <2>1. CASE x \in DOMAIN staged[r] /\ staged'[r][x] = staged[r][x]
      BY <1>2, <2>1 DEF RequestSound, StagedSound
    <2>2. CASE x = e /\ staged'[r][x] = "tombstoned"
      BY <1>3, <1>6, <2>2 DEF Statuses
    <2> QED BY <1>5, <2>1, <2>2
  <1>8. Known(r)' = Known(r)
    BY <1>3, <1>4, <1>5 DEF Known
  <1>9. Written(r)' = Written(r)
    <2>1. e \in DOMAIN staged'[r] \ DOMAIN staged[r] => e \notin OwnOf(r)
      BY <1>2, <1>3 DEF RequestSound, Known
    <2>2. \A x \in Beliefs \ Old : x[1] = r => x \in OwnOf(r)
      BY DEF Beliefs, OwnOf
    <2> QED BY <1>3, <1>5, <2>1, <2>2 DEF Written
  <1>10. StagedSound(r)'
    BY <1>1, <1>2, <1>4, <1>7, <1>8 DEF RequestSound, StagedSound
  <1>11. RequestSound(r)'
    BY <1>1, <1>2, <1>4, <1>8, <1>9, <1>10 DEF RequestSound, Places, InFlight, InsertsInOrder
  <1>12. \A x \in Locks(r)' : x \in Locks(r) \/ Free(r, x)
    BY <1>1, <1>4, <1>5 DEF Locks, Retire
  <1> QED BY <1>1, <1>2, <1>4, <1>11, <1>12, Local DEF Retire, db, graph, MemorySound

LEMMA ProveKeeps ==
  ASSUME MemorySound, NEW r \in Ingests, Prove(r)
  PROVE  MemorySound'
  <1> DEFINE b == LastOf(r)
             named == {b} \cup (IF entries[r] # {} THEN {target[r]} ELSE {})
  <1>1. /\ r \in Requests /\ Domains' /\ \A q \in Requests \ {r} : Same(q)
        /\ pc'[r] \in {"resolve", "commit"}
        /\ pc'[r] = "resolve" => Cardinality(Written(r)) < Facts[r]
        /\ seen'[r] = seen[r] /\ target'[r] = target[r] /\ staged'[r] = staged[r]
        /\ bumps'[r] = bumps[r] /\ todo'[r] = todo[r] /\ entries'[r] = entries[r]
    BY DEF Prove, Goto, MemorySound, Domains, Same, Requests, tx
  <1>2. RequestSound(r) /\ InFlight(r) /\ pc[r] = "prove" /\ r \notin Deleters
    BY <1>1, KindsAreApart DEF MemorySound, RequestSound, InFlight, Prove
  <1>3. b \in Beliefs /\ (Cardinality(Written(r)) < Facts[r] => Written(r) = {<<r, 1>>} /\ Facts[r] = 2)
    BY <1>2, LastInsert DEF RequestSound, InsertsInOrder
  <1>4. named \subseteq Beliefs
    BY <1>2, <1>3 DEF RequestSound, StagedSound
  <1>5. \E W \in {named, {}}, ok \in BOOLEAN :
          /\ ok => b \in W
          /\ nodes' = nodes \cup W /\ explained' = IF ok THEN explained \cup {b} ELSE explained
    BY DEF Prove
  <1>6. nodes' \subseteq Beliefs /\ explained' \subseteq nodes'
    <2> HIDE DEF b, named
    <2> QED BY <1>4, <1>5 DEF MemorySound
  <1>7. Born' = Born /\ UNCHANGED <<status, weak, count, log, hits>> /\ \A x : Exists(x)' <=> Exists(x)
    BY DEF Born, Exists, Prove, db
  <1>8. Known(r)' = Known(r) /\ Written(r)' = Written(r) /\ Locks(r)' = Locks(r)
    BY <1>1, <1>7 DEF Known, Written, Locks
  <1>9. StagedSound(r)' /\ InsertsInOrder(r)'
    BY <1>1, <1>2, <1>3, <1>7, <1>8 DEF RequestSound, StagedSound, InsertsInOrder
  <1>10. RequestSound(r)'
    BY <1>1, <1>2, <1>7, <1>8, <1>9 DEF RequestSound, Places, InFlight
  <1> QED BY <1>1, <1>2, <1>6, <1>7, <1>8, <1>10, Local DEF MemorySound

LEMMA ReadKeeps ==
  ASSUME MemorySound, NEW r \in Retrievers \cup Consolidators, NEW S \in SUBSET Born,
         NEW s \in SetToSeqs(S), todo' = [todo EXCEPT ![r] = s],
         NEW where \in Places(r) \ {"away", "idle", "done", "failed"}, Goto(r, where), pc[r] # "done",
         UNCHANGED <<db, graph, seen, target, staged, bumps, entries, hits>>
  PROVE  MemorySound'
  <1>1. /\ r \in Requests /\ Domains' /\ \A q \in Requests \ {r} : Same(q)
        /\ pc'[r] = where /\ todo'[r] = s /\ staged'[r] = staged[r] /\ bumps'[r] = bumps[r]
        /\ entries'[r] = entries[r] /\ target'[r] = target[r]
    BY DEF Goto, MemorySound, Domains, Same, Requests
  <1>2. RequestSound(r) /\ r \notin Ingests /\ r \notin Deleters
    BY <1>1, KindsAreApart DEF MemorySound
  <1>3. Born' = Born /\ UNCHANGED <<status, weak, count, log, nodes, explained>>
        /\ \A x : Exists(x)' <=> Exists(x)
    BY DEF Born, Exists, db, graph
  <1>4. Known(r)' = Known(r) /\ Locks(r)' = Locks(r)
    BY <1>1, <1>3 DEF Known, Locks
  <1>5. s \in Seq(Born)
    BY OrdersList DEF Born
  <1>6. StagedSound(r)'
    BY <1>1, <1>2, <1>3, <1>4 DEF RequestSound, StagedSound
  <1>7. RequestSound(r)'
    BY <1>1, <1>2, <1>3, <1>5, <1>6 DEF RequestSound, Places, InFlight
  <1> QED BY <1>1, <1>3, <1>4, <1>7, Local DEF MemorySound

LEMMA ReadsKeep ==
  ASSUME MemorySound, NEW r \in Requests,
         (r \in Retrievers /\ Search(r)) \/ (r \in Consolidators /\ (ReadSure(r) \/ ReadWeak(r) \/ ReadTombstones(r)))
  PROVE  MemorySound'
  <1>1. CASE r \in Retrievers /\ Search(r)
    <2>1. PICK s \in SetToAllKPermutations({b \in Beliefs : Live(b)}) : todo' = [todo EXCEPT ![r] = s]
      BY <1>1 DEF Search
    <2>2. PICK S \in SUBSET {b \in Beliefs : Live(b)} : s \in SetToSeqs(S)
      BY <2>1 DEF SetToAllKPermutations
    <2>3. S \in SUBSET Born
      BY <2>2 DEF Live, Born
    <2>4. "reinforce" \in Places(r)
      BY <1>1, KindsAreApart DEF Places
    <2> QED BY <1>1, <2>1, <2>2, <2>3, <2>4, ReadKeeps DEF Search
  <1>2. CASE r \in Consolidators /\ ReadSure(r)
    <2>1. PICK s \in SetToSeqs({b \in Sure : status[b] = "active"}) : todo' = [todo EXCEPT ![r] = s]
      BY <1>2 DEF ReadSure
    <2>3. {b \in Sure : status[b] = "active"} \in SUBSET Born
      BY SureAreBeliefs DEF Born
    <2>4. "crystallize" \in Places(r)
      BY <1>2, KindsAreApart DEF Places
    <2> QED BY <1>2, <2>1, <2>3, <2>4, ReadKeeps DEF ReadSure
  <1>3. CASE r \in Consolidators /\ ReadWeak(r)
    <2>1. PICK s \in SetToSeqs({b \in weak : status[b] = "active" /\ b \notin DOMAIN staged[r]}) :
            todo' = [todo EXCEPT ![r] = s]
      BY <1>3 DEF ReadWeak
    <2>3. {b \in weak : status[b] = "active" /\ b \notin DOMAIN staged[r]} \in SUBSET Born
      BY DEF Born, MemorySound
    <2>4. "sweep" \in Places(r)
      BY <1>3, KindsAreApart DEF Places
    <2> QED BY <1>3, <2>1, <2>3, <2>4, ReadKeeps DEF ReadWeak, past
  <1>4. CASE r \in Consolidators /\ ReadTombstones(r)
    <2>1. PICK S \in SUBSET {b \in Beliefs : status[b] = "tombstoned"} :
            \E s \in SetToSeqs(S) : todo' = [todo EXCEPT ![r] = s]
      BY <1>4 DEF ReadTombstones
    <2>2. S \in SUBSET Born
      BY DEF Born
    <2>3. "compact" \in Places(r)
      BY <1>4, KindsAreApart DEF Places
    <2> QED BY <1>4, <2>1, <2>2, <2>3, ReadKeeps DEF ReadTombstones, past
  <1> QED BY <1>1, <1>2, <1>3, <1>4

LEMMA ReinforceKeeps ==
  ASSUME MemorySound, NEW r \in Retrievers, Reinforce(r)
  PROVE  MemorySound'
  <1> DEFINE b == Head(todo[r])
  <1>1. /\ r \in Requests /\ Domains' /\ \A q \in Requests \ {r} : Same(q)
        /\ pc'[r] = pc[r] /\ todo'[r] = Tail(todo[r]) /\ staged'[r] = staged[r]
        /\ bumps'[r] = IF status[b] = "gone" THEN bumps[r] ELSE Put(bumps[r], b, count[b] + 1)
        /\ entries'[r] = entries[r] /\ target'[r] = target[r]
    BY DEF Reinforce, Goto, MemorySound, Domains, Same, Requests
  <1>2. RequestSound(r) /\ r \notin Ingests /\ r \notin Deleters /\ InFlight(r)
    BY <1>1, KindsAreApart DEF MemorySound, Reinforce, InFlight
  <1>3. b \in Born /\ Tail(todo[r]) \in Seq(Born)
    BY <1>2 DEF RequestSound, Reinforce
  <1>4. Born' = Born /\ UNCHANGED <<status, weak, count, log, hits, nodes, explained>>
        /\ \A x : Exists(x)' <=> Exists(x)
    BY DEF Born, Exists, Reinforce, db, graph, past
  <1>5. /\ DOMAIN bumps'[r] \subseteq DOMAIN bumps[r] \cup {b}
        /\ \A x \in DOMAIN bumps'[r] :
             bumps'[r][x] = bumps[r][x] \/ (x = b /\ bumps'[r][x] = count[b] + 1)
        /\ b \in DOMAIN bumps'[r] \ DOMAIN bumps[r] => status[b] # "gone" /\ bumps'[r][b] = count[b] + 1
        /\ \A x \in DOMAIN bumps'[r] \ {b} : x \in DOMAIN bumps[r] /\ bumps'[r][x] = bumps[r][x]
    <2> HIDE DEF b
    <2> QED BY <1>1 DEF Put
  <1>6. \A x \in DOMAIN bumps'[r] : x \in Beliefs /\ Exists(x) /\ bumps'[r][x] = count[x] + 1
    <2> SUFFICES ASSUME NEW x \in DOMAIN bumps'[r]
                 PROVE  x \in Beliefs /\ Exists(x) /\ bumps'[r][x] = count[x] + 1
      OBVIOUS
    <2> HIDE DEF b
    <2>1. CASE x \in DOMAIN bumps[r]
      BY <1>2, <1>5, <2>1 DEF RequestSound, StagedSound
    <2>2. CASE x = b /\ x \notin DOMAIN bumps[r]
      BY <1>3, <1>5, <2>2 DEF Born, Exists
    <2> QED BY <1>5, <2>1, <2>2
  <1>7. Known(r)' = Known(r)
    BY <1>1, <1>4 DEF Known
  <1>8. StagedSound(r)'
    BY <1>1, <1>2, <1>4, <1>6, <1>7 DEF RequestSound, StagedSound
  <1>9. RequestSound(r)'
    BY <1>1, <1>2, <1>3, <1>4, <1>8 DEF RequestSound, Places, InFlight
  <1>10. \A x \in Locks(r)' : x \in Locks(r) \/ Free(r, x)
    BY <1>1, <1>4, <1>5 DEF Locks, Reinforce
  <1> QED BY <1>1, <1>2, <1>4, <1>9, <1>10, Local DEF MemorySound, InFlight

LEMMA PassEndsKeep ==
  ASSUME MemorySound, NEW r \in Requests,
         (r \in Retrievers /\ Reinforced(r)) \/ (r \in Consolidators /\ EndPasses(r))
  PROVE  MemorySound'
  <1>1. /\ Domains' /\ \A q \in Requests \ {r} : Same(q)
        /\ pc'[r] = "commit" /\ todo'[r] = todo[r] /\ staged'[r] = staged[r] /\ bumps'[r] = bumps[r]
        /\ entries'[r] = entries[r] /\ target'[r] = target[r]
    BY DEF Reinforced, EndPasses, Goto, MemorySound, Domains, Same, tx
  <1>2. RequestSound(r) /\ r \notin Ingests /\ r \notin Deleters /\ InFlight(r)
    BY KindsAreApart DEF MemorySound, Reinforced, EndPasses, InFlight
  <1>3. Born' = Born /\ UNCHANGED <<status, weak, count, log, hits, nodes, explained>>
        /\ \A x : Exists(x)' <=> Exists(x)
    BY DEF Born, Exists, Reinforced, EndPasses, db, graph, past
  <1>4. Known(r)' = Known(r) /\ Locks(r)' = Locks(r)
    BY <1>1, <1>3 DEF Known, Locks
  <1>5. StagedSound(r)'
    BY <1>1, <1>2, <1>3, <1>4 DEF RequestSound, StagedSound
  <1>6. RequestSound(r)'
    BY <1>1, <1>2, <1>3, <1>5 DEF RequestSound, Places, InFlight
  <1> QED BY <1>1, <1>2, <1>3, <1>4, <1>6, Local DEF MemorySound, InFlight

LEMMA FlushKeeps ==
  ASSUME MemorySound, NEW r \in Consolidators, FlushRow(r)
  PROVE  MemorySound'
  <1> DEFINE b == Head(todo[r])
             w == PassWrites(r)
  <1>1. /\ r \in Requests /\ Domains' /\ \A q \in Requests \ {r} : Same(q)
        /\ pc'[r] = pc[r] /\ todo'[r] = Tail(todo[r]) /\ bumps'[r] = bumps[r]
        /\ staged'[r] = IF Exists(b) THEN Put(staged[r], b, w) ELSE staged[r]
        /\ entries'[r] = entries[r] /\ target'[r] = target[r]
    BY DEF FlushRow, MemorySound, Domains, Same, Requests
  <1>2. RequestSound(r) /\ r \notin Ingests /\ r \notin Deleters /\ InFlight(r)
    BY <1>1, KindsAreApart DEF MemorySound, FlushRow, InFlight
  <1>3. b \in Born /\ Tail(todo[r]) \in Seq(Born) /\ w \in Statuses \ {"absent"}
    BY <1>2 DEF RequestSound, FlushRow, PassWrites, Statuses
  <1>4. Born' = Born /\ UNCHANGED <<status, weak, count, log, hits, nodes, explained>>
        /\ \A x : Exists(x)' <=> Exists(x)
    BY DEF Born, Exists, FlushRow, db, graph
  <1>5. /\ DOMAIN staged'[r] \subseteq DOMAIN staged[r] \cup {b} /\ DOMAIN staged[r] \subseteq DOMAIN staged'[r]
        /\ \A x \in DOMAIN staged'[r] :
             \/ x \in DOMAIN staged[r] /\ staged'[r][x] = staged[r][x]
             \/ x = b /\ staged'[r][x] = w /\ Exists(b)
    <2> HIDE DEF b, w
    <2> QED BY <1>1 DEF Put
  <1>6. \A x \in DOMAIN staged'[r] :
            /\ x \in Beliefs /\ staged'[r][x] \in Statuses \ {"absent"}
            /\ staged'[r][x] = "gone" => r \in Consolidators
            /\ Exists(x) \/ (x \in OwnOf(r) /\ status[x] = "absent")
    <2> HIDE DEF b, w
    <2> QED BY <1>2, <1>3, <1>5 DEF RequestSound, StagedSound, Born
  <1>7. Known(r)' = Known(r)
    BY <1>3, <1>4, <1>5 DEF Known
  <1>8. StagedSound(r)'
    BY <1>1, <1>2, <1>4, <1>6, <1>7 DEF RequestSound, StagedSound
  <1>9. RequestSound(r)'
    BY <1>1, <1>2, <1>3, <1>4, <1>8 DEF RequestSound, Places, InFlight
  <1>10. \A x \in Locks(r)' : x \in Locks(r) \/ Free(r, x)
    BY <1>1, <1>4, <1>5 DEF Locks, FlushRow
  <1> QED BY <1>1, <1>2, <1>4, <1>9, <1>10, Local DEF MemorySound, InFlight

LEMMA FailKeeps ==
  ASSUME MemorySound, NEW r \in Requests, InFlight(r), Forget(r), Goto(r, "failed"),
         UNCHANGED <<db, graph, past>>
  PROVE  MemorySound'
  <1>1. /\ Domains' /\ \A q \in Requests \ {r} : Same(q)
        /\ pc'[r] = "failed" /\ todo'[r] = <<>> /\ staged'[r] = <<>> /\ bumps'[r] = <<>>
        /\ entries'[r] = {} /\ target'[r] = target[r]
    BY DEF Forget, Goto, MemorySound, Domains, Same
  <1>2. RequestSound(r)
    BY DEF MemorySound
  <1>3. Born' = Born /\ UNCHANGED <<status, weak, count, log, hits, nodes, explained>>
        /\ \A x : Exists(x)' <=> Exists(x)
    BY DEF Born, Exists, db, graph, past
  <1>4. Locks(r)' = {} /\ Written(r)' = {}
    BY <1>1, EmptyFunction DEF Locks, Written
  <1>5. StagedSound(r)' /\ InsertsInOrder(r)'
    BY <1>1, <1>4, EmptyFunction DEF StagedSound, InsertsInOrder
  <1>6. RequestSound(r)'
    BY <1>1, <1>2, <1>3, <1>5 DEF RequestSound, Places, InFlight
  <1> QED BY <1>1, <1>3, <1>4, <1>6, Local DEF MemorySound, InFlight

LEMMA CascadeKeeps ==
  ASSUME MemorySound, NEW d \in Deleters, NEW b \in Born, CascadeOf(d, b)
  PROVE  MemorySound'
  <1>1. /\ d \in Requests /\ Domains' /\ \A q \in Requests \ {d} : Same(q)
        /\ pc[d] = "idle" /\ pc'[d] = "row" /\ todo'[d] = todo[d] /\ staged'[d] = staged[d]
        /\ bumps'[d] = bumps[d] /\ entries'[d] = entries[d] /\ target'[d] = b
    BY DEF CascadeOf, Goto, MemorySound, Domains, Same, Requests
  <1>2. RequestSound(d) /\ d \notin Ingests
    BY <1>1, KindsAreApart DEF MemorySound
  <1>3. Born' = Born /\ UNCHANGED <<status, weak, count, log, hits>> /\ \A x : Exists(x)' <=> Exists(x)
    BY DEF Born, Exists, CascadeOf, db, past
  <1>4. Locks(d)' = Locks(d) /\ Known(d)' = Known(d)
    BY <1>1, <1>3 DEF Locks, Known
  <1>5. nodes' \subseteq Beliefs /\ explained' \subseteq nodes'
    BY DEF CascadeOf, MemorySound
  <1>6. StagedSound(d)'
    BY <1>1, <1>2, <1>3, <1>4 DEF RequestSound, StagedSound, Born
  <1>7. pc'[d] \in Places(d) /\ Born' = Born /\ todo'[d] \in Seq(Born)
        /\ staged'[d] = <<>> /\ bumps'[d] = <<>> /\ entries'[d] = {}
    BY <1>1, <1>2, <1>3, KindsAreApart DEF RequestSound, Places
  <1>8. RequestSound(d)'
    BY <1>1, <1>2, <1>6, <1>7 DEF RequestSound, Places
  <1> QED BY <1>1, <1>3, <1>4, <1>5, <1>8, Local DEF MemorySound

LEMMA CascadeFailsKeeps ==
  ASSUME MemorySound, NEW d \in Deleters, CascadeFails(d)
  PROVE  MemorySound'
  <1>1. /\ d \in Requests /\ Domains' /\ \A q \in Requests \ {d} : Same(q)
        /\ pc[d] = "idle" /\ pc'[d] = "failed" /\ todo'[d] = todo[d] /\ staged'[d] = staged[d]
        /\ bumps'[d] = bumps[d] /\ entries'[d] = entries[d] /\ target'[d] = target[d]
    BY DEF CascadeFails, Goto, MemorySound, Domains, Same, Requests, tx
  <1>2. RequestSound(d) /\ d \notin Ingests
    BY <1>1, KindsAreApart DEF MemorySound
  <1>3. Born' = Born /\ UNCHANGED <<status, weak, count, log, hits, nodes, explained>>
        /\ \A x : Exists(x)' <=> Exists(x)
    BY DEF Born, Exists, CascadeFails, db, graph, past
  <1>4. Locks(d)' = Locks(d) /\ Known(d)' = Known(d)
    BY <1>1, <1>3 DEF Locks, Known
  <1>6. StagedSound(d)'
    BY <1>1, <1>2, <1>3, <1>4 DEF RequestSound, StagedSound
  <1>7. RequestSound(d)'
    BY <1>1, <1>2, <1>3, <1>6 DEF RequestSound, Places, InFlight
  <1> QED BY <1>1, <1>3, <1>4, <1>7, Local DEF MemorySound

-----------------------------------------------------------------------------
(* Steps that change committed rows.                                        *)

\* What a commit elsewhere leaves to the transaction of q.
LEMMA OtherSound ==
  ASSUME NEW q \in Requests, RequestSound(q), Same(q),
         \A b \in Born : b \in Born',
         \A b \in Beliefs : status[b] = "gone" => status'[b] = "gone",
         \A b \in Locks(q) : Exists(b)' /\ (b \in DOMAIN bumps[q] => count'[b] = count[b]),
         pc[q] # "done" => \A b \in OwnOf(q) : status'[b] = status[b]
  PROVE  RequestSound(q)' /\ Locks(q)' \subseteq Locks(q)
  <1>1. (InFlight(q)' <=> InFlight(q)) /\ Known(q) \subseteq Known(q)' /\ Written(q)' = Written(q)
    BY DEF Same, InFlight, Known, Written
  <1>2. \A b \in DOMAIN bumps[q] : b \in Locks(q)
    BY DEF RequestSound, StagedSound, Locks
  <1>3. \A b \in DOMAIN staged[q] : b \in Locks(q) \/ (b \in OwnOf(q) /\ status[b] = "absent" /\ pc[q] # "done")
    BY EmptyFunction DEF RequestSound, StagedSound, Locks, InFlight
  <1>4. \A b \in DOMAIN staged[q] : Exists(b)' \/ (b \in OwnOf(q) /\ status'[b] = "absent")
    BY <1>3
  <1>5. StagedSound(q)'
    BY <1>1, <1>2, <1>4 DEF Same, RequestSound, StagedSound
  <1>6. todo'[q] \in Seq(Born')
    BY DEF Same, RequestSound
  <1>7. InsertsInOrder(q) => InsertsInOrder(q)'
    BY <1>1 DEF Same, InsertsInOrder
  <1>8. q \in Ingests /\ pc'[q] # "done" => OwnOf(q) \cap Born' = {}
    BY DEF Same, RequestSound, Born
  <1>9. RequestSound(q)'
    BY <1>1, <1>5, <1>6, <1>7, <1>8 DEF Same, RequestSound, Born
  <1>10. Locks(q)' \subseteq Locks(q)
    BY <1>2, <1>3 DEF Same, Locks, Exists
  <1> QED BY <1>9, <1>10

LEMMA CommitKeeps ==
  ASSUME MemorySound, NEW r \in Requests, Commit(r)
  PROVE  /\ MemorySound'
         /\ \A b \in Beliefs : status[b] = "gone" => status'[b] = "gone"
  <1>1. /\ Domains' /\ \A q \in Requests \ {r} : Same(q)
        /\ pc[r] = "commit" /\ pc'[r] = "done" /\ todo'[r] = <<>> /\ staged'[r] = <<>>
        /\ bumps'[r] = <<>> /\ entries'[r] = {} /\ target'[r] = target[r]
    BY DEF Commit, Forget, Goto, MemorySound, Domains, Same
  <1>2. RequestSound(r) /\ r \notin Deleters
    BY KindsAreApart DEF MemorySound, RequestSound, Commit, Places
  <1>3. /\ status' = Overlay(status, staged[r]) /\ count' = Overlay(count, bumps[r])
        /\ log' = log \cup entries[r] /\ weak' = weak \ DOMAIN bumps[r]
        /\ nodes' = nodes /\ explained' = explained
        /\ hits' = [b \in Beliefs |-> IF b \in DOMAIN bumps[r] THEN hits[b] + 1 ELSE hits[b]]
    BY DEF Commit, graph
  <1>4. DOMAIN staged[r] \subseteq Beliefs /\ DOMAIN bumps[r] \subseteq Beliefs
    BY <1>2 DEF RequestSound, StagedSound
  <1>5. /\ DOMAIN status' = Beliefs
        /\ \A b \in DOMAIN staged[r] : status'[b] = staged[r][b]
        /\ \A b \in Beliefs \ DOMAIN staged[r] : status'[b] = status[b]
    BY <1>3, <1>4 DEF MemorySound, Overlay
  <1>6. /\ DOMAIN count' = Beliefs
        /\ \A b \in DOMAIN bumps[r] : count'[b] = count[b] + 1
        /\ \A b \in Beliefs \ DOMAIN bumps[r] : count'[b] = count[b]
    <2>1. /\ DOMAIN count' = Beliefs
          /\ \A b \in DOMAIN bumps[r] : count'[b] = bumps[r][b]
          /\ \A b \in Beliefs \ DOMAIN bumps[r] : count'[b] = count[b]
      BY <1>3, <1>4 DEF MemorySound, Overlay
    <2> QED BY <1>2, <2>1 DEF RequestSound, StagedSound
  <1>7. status' \in [Beliefs -> Statuses]
    <2>1. status' = [b \in Beliefs |-> status'[b]]
      BY <1>3, <1>5 DEF Overlay
    <2>2. \A b \in Beliefs : status'[b] \in Statuses
      BY <1>2, <1>5 DEF RequestSound, StagedSound, MemorySound
    <2> QED BY <2>1, <2>2
  <1>8. /\ \A b \in Born : b \in Born'
        /\ Known(r) \subseteq Born'
        /\ \A b \in Beliefs : status[b] = "gone" => status'[b] = "gone"
    BY <1>2, <1>4, <1>5 DEF RequestSound, StagedSound, Born, Known, Exists, Statuses
  <1>9. ASSUME NEW q \in Requests \ {r} PROVE RequestSound(q)' /\ Locks(q)' \subseteq Locks(q)
    <2>1. RequestSound(q) /\ Same(q)
      BY <1>1 DEF MemorySound
    <2>2. \A b \in Locks(q) : b \notin DOMAIN staged[r] /\ b \notin DOMAIN bumps[r]
      BY DEF MemorySound, LocksApart, Locks
    <2>3. \A b \in Locks(q) : b \in Beliefs
      BY <2>1 DEF Locks, RequestSound, StagedSound
    <2>4. \A b \in Locks(q) : Exists(b)' /\ count'[b] = count[b]
      BY <1>5, <1>6, <2>2, <2>3 DEF Locks, Exists
    <2>5. OwnOf(q) \cap OwnOf(r) = {} /\ OwnOf(q) \subseteq Beliefs
      BY DEF OwnOf, Beliefs
    <2>6. pc[q] # "done" => \A b \in OwnOf(q) : status'[b] = status[b]
      BY <1>2, <1>5, <2>1, <2>5 DEF RequestSound, StagedSound, Exists, Born, OwnOf
    <2> QED BY <1>8, <2>1, <2>4, <2>6, OtherSound
  <1>10. Written(r)' = {} /\ Locks(r)' = {}
    BY <1>1, EmptyFunction DEF Written, Locks
  <1>11. RequestSound(r)'
    <2>1. StagedSound(r)' /\ InsertsInOrder(r)'
      BY <1>1, <1>10, EmptyFunction DEF StagedSound, InsertsInOrder
    <2>2. "done" \in Places(r)
      BY DEF Places
    <2> QED BY <1>1, <1>2, <2>1, <2>2 DEF RequestSound, InFlight
  <1>12. LocksApart'
    BY <1>9, <1>10 DEF MemorySound, LocksApart
  <1>13. \A e \in log' : IsEntry(e) /\ {e.a, e.b} \subseteq Born'
    BY <1>2, <1>3, <1>8 DEF MemorySound, RequestSound, StagedSound
  <1>14. CountsAreHits'
    BY <1>3, <1>6 DEF MemorySound, CountsAreHits
  <1>15. \A b \in Beliefs : status'[b] = "gone" =>
       \/ \E d \in Deleters : pc'[d] = "done" /\ target'[d] = b
       \/ \E c \in Consolidators : pc'[c] = "done"
    <2> SUFFICES ASSUME NEW b \in Beliefs, status'[b] = "gone"
                 PROVE  \/ \E d \in Deleters : pc'[d] = "done" /\ target'[d] = b
                        \/ \E c \in Consolidators : pc'[c] = "done"
      OBVIOUS
    <2>1. CASE b \in DOMAIN staged[r]
      BY <1>1, <1>2, <1>5, <2>1 DEF RequestSound, StagedSound
    <2>2. CASE status[b] = "gone"
      BY <1>1, <2>2 DEF MemorySound, Same, Requests
    <2> QED BY <1>5, <2>1, <2>2
  <1> QED BY <1>1, <1>3, <1>6, <1>7, <1>8, <1>9, <1>11, <1>12, <1>13, <1>14, <1>15
          DEF MemorySound, Domains

LEMMA DeleteKeeps ==
  ASSUME MemorySound, NEW d \in Deleters, DeleteRow(d)
  PROVE  /\ MemorySound'
         /\ \A b \in Beliefs : status[b] = "gone" => status'[b] = "gone"
  <1> DEFINE t == target[d]
  <1>1. /\ d \in Requests /\ Domains' /\ \A q \in Requests \ {d} : Same(q)
        /\ pc[d] = "row" /\ pc'[d] = "done" /\ todo'[d] = todo[d] /\ staged'[d] = staged[d]
        /\ bumps'[d] = bumps[d] /\ entries'[d] = entries[d] /\ target'[d] = t
    BY DEF DeleteRow, Goto, MemorySound, Domains, Same, Requests, tx
  <1>2. RequestSound(d) /\ d \notin Ingests /\ t \in Born
    BY <1>1, KindsAreApart DEF MemorySound, RequestSound
  <1>3. /\ status' \in [Beliefs -> Statuses] /\ status'[t] = "gone"
        /\ \A b \in Beliefs \ {t} : status'[b] = status[b]
        /\ UNCHANGED <<weak, count, log, hits, nodes, explained>>
    BY <1>2 DEF DeleteRow, MemorySound, Statuses, Born, graph, past
  <1>4. Born' = Born /\ \A b \in Beliefs : status[b] = "gone" => status'[b] = "gone"
    BY <1>2, <1>3 DEF Born
  <1>5. ASSUME NEW q \in Requests \ {d} PROVE RequestSound(q)' /\ Locks(q)' \subseteq Locks(q)
    <2>1. RequestSound(q) /\ Same(q)
      BY <1>1 DEF MemorySound
    <2>2. \A b \in Locks(q) : b \in Beliefs \ {t}
      BY <2>1 DEF Locks, RequestSound, StagedSound, DeleteRow, Free
    <2>3. \A b \in Locks(q) : Exists(b)' /\ count'[b] = count[b]
      BY <1>3, <2>2 DEF Locks, Exists
    <2>4. pc[q] # "done" => \A b \in OwnOf(q) : status'[b] = status[b]
      BY <1>2, <1>3, <2>1 DEF RequestSound, OwnOf, Beliefs
    <2> QED BY <1>4, <2>1, <2>3, <2>4, OtherSound
  <1>6. staged[d] = <<>> /\ bumps[d] = <<>> /\ entries[d] = {}
    BY <1>2 DEF RequestSound
  <1>7. Locks(d)' = {} /\ StagedSound(d)'
    BY <1>1, <1>6, EmptyFunction DEF Locks, StagedSound
  <1>8. "done" \in Places(d)
    BY DEF Places
  <1>9. RequestSound(d)'
    BY <1>1, <1>2, <1>3, <1>4, <1>6, <1>7, <1>8 DEF RequestSound
  <1>10. LocksApart'
    BY <1>5, <1>7 DEF MemorySound, LocksApart
  <1>11. \A b \in Beliefs : status'[b] = "gone" =>
       \/ \E q \in Deleters : pc'[q] = "done" /\ target'[q] = b
       \/ \E c \in Consolidators : pc'[c] = "done"
    BY <1>1, <1>3 DEF MemorySound, Same, Requests
  <1> QED BY <1>1, <1>3, <1>4, <1>5, <1>9, <1>10, <1>11 DEF MemorySound, Domains, CountsAreHits

LEMMA RecallsKeep ==
  ASSUME MemorySound, NEW S \in SUBSET Beliefs, Recalls(S)
  PROVE  MemorySound'
  <1>1. /\ Domains' /\ \A q \in Requests : Same(q)
        /\ UNCHANGED <<status, log, nodes, explained>> /\ pc' = pc /\ target' = target
        /\ count' = [b \in Beliefs |-> IF b \in S THEN count[b] + 1 ELSE count[b]]
        /\ hits' = [b \in Beliefs |-> IF b \in S THEN hits[b] + 1 ELSE hits[b]]
        /\ weak' = weak \ S
    BY DEF Recalls, MemorySound, Domains, Same, tx, graph
  <1>2. Born' = Born /\ \A b : Exists(b)' <=> Exists(b)
    BY <1>1 DEF Born, Exists
  <1>3. ASSUME NEW q \in Requests PROVE RequestSound(q)' /\ Locks(q)' \subseteq Locks(q)
    <2>1. RequestSound(q) /\ Same(q)
      BY <1>1 DEF MemorySound
    <2>2. \A b \in Locks(q) : b \in Beliefs /\ b \notin S
      BY <2>1 DEF Recalls, Locks, RequestSound, StagedSound
    <2>3. \A b \in Locks(q) : Exists(b)' /\ count'[b] = count[b]
      BY <1>1, <1>2, <2>2 DEF Locks
    <2> QED BY <1>1, <1>2, <2>1, <2>3, OtherSound
  <1>4. LocksApart'
    BY <1>3 DEF MemorySound, LocksApart
  <1>5. CountsAreHits'
    BY <1>1 DEF MemorySound, CountsAreHits
  <1> QED BY <1>1, <1>2, <1>3, <1>4, <1>5 DEF MemorySound, Domains

LEMMA DecayKeeps ==
  ASSUME MemorySound, NEW b \in Beliefs, Decay(b)
  PROVE  MemorySound'
  <1>1. /\ Domains' /\ \A q \in Requests : Same(q)
        /\ UNCHANGED <<status, count, log, nodes, explained, hits>> /\ pc' = pc /\ target' = target
        /\ weak' \subseteq Beliefs
    BY DEF Decay, MemorySound, Domains, Same, tx, graph, past
  <1>2. \A q \in Requests : RequestSound(q)' /\ Locks(q)' = Locks(q)
    BY <1>1, SameSound DEF MemorySound
  <1>3. LocksApart' /\ Born' = Born
    BY <1>1, <1>2 DEF MemorySound, LocksApart, Born
  <1> QED BY <1>1, <1>2, <1>3 DEF MemorySound, Domains, CountsAreHits

\* What the memory engine never does to a card.
CardsRest ==
  /\ \A b \in Beliefs : status[b] = "gone" => status'[b] = "gone"
  /\ log \subseteq log'
  /\ \A p \in Resolvers :
       /\ pc'[p] \in {"row", "done"} => pc[p] \in {"row", "done"} /\ target'[p] = target[p]
       /\ pc[p] = "done" => pc'[p] = "done"

\* A step of r that commits nothing rests the cards, unless r begins a delete.
LEMMA LocalRests ==
  ASSUME MemorySound, NEW r \in Requests, UNCHANGED <<status, log>>, DOMAIN pc' = Requests,
         \A q \in Requests \ {r} : pc'[q] = pc[q] /\ target'[q] = target[q],
         r \notin Resolvers \/ (pc[r] # "done" /\ pc'[r] \notin {"row", "done"})
  PROVE  CardsRest
  BY ResolversDelete DEF CardsRest, Requests

LEMMA StepKeeps ==
  ASSUME MemorySound, NEW r \in Requests, Step(r) \/ Fail(r) \/ DeadlockVictim(r)
  PROVE  MemorySound' /\ CardsRest
  <1>1. RequestSound(r)
    BY DEF MemorySound
  <1>2. r \in Ingests \cup Retrievers \cup Consolidators => r \notin Resolvers
    BY ResolversDelete, KindsAreApart
  <1>3. CASE r \in Ingests /\ IngestStep(r)
    <2>1. MemorySound'
      BY <1>3, ResolveKeeps, RetireKeeps, ProveKeeps DEF IngestStep
    <2>2. UNCHANGED <<status, log>> /\ \A q \in Requests \ {r} : pc'[q] = pc[q] /\ target'[q] = target[q]
      BY <1>3 DEF IngestStep, Resolve, Retire, Prove, Goto, db, tx, MemorySound
    <2> QED BY <1>2, <1>3, <2>1, <2>2, LocalRests DEF MemorySound
  <1>4. CASE r \in Retrievers /\ RetrieveStep(r)
    <2>1. MemorySound'
      BY <1>4, ReinforceKeeps, PassEndsKeep DEF RetrieveStep
    <2>2. UNCHANGED <<status, log>> /\ \A q \in Requests \ {r} : pc'[q] = pc[q] /\ target'[q] = target[q]
      BY <1>4 DEF RetrieveStep, Reinforce, Reinforced, Goto, db, tx, MemorySound
    <2> QED BY <1>2, <1>4, <2>1, <2>2, LocalRests DEF MemorySound
  <1>5. CASE Fail(r) \/ DeadlockVictim(r)
    <2>1. InFlight(r) /\ Forget(r) /\ Goto(r, "failed") /\ UNCHANGED <<db, graph, past>>
      BY <1>5 DEF Fail, DeadlockVictim, Deadlocked
    <2>2. MemorySound'
      BY <2>1, FailKeeps
    <2>3. /\ UNCHANGED <<status, log>> /\ pc[r] # "done" /\ pc'[r] = "failed"
          /\ \A q \in Requests \ {r} : pc'[q] = pc[q] /\ target'[q] = target[q]
      BY <2>1 DEF InFlight, Forget, Goto, db, MemorySound
    <2> QED BY <2>2, <2>3, LocalRests DEF MemorySound
  <1>6. CASE r \in Consolidators /\ PassStep(r)
    <2>1. CASE Fail(r)
      BY <1>5, <2>1
    <2>2. CASE ReadWeak(r) \/ ReadTombstones(r) \/ FlushRow(r) \/ EndPasses(r)
      <3>1. MemorySound'
        BY <1>6, <2>2, ReadsKeep, FlushKeeps, PassEndsKeep
      <3>2. UNCHANGED <<status, log>> /\ \A q \in Requests \ {r} : pc'[q] = pc[q] /\ target'[q] = target[q]
        BY <2>2 DEF ReadWeak, ReadTombstones, FlushRow, EndPasses, Goto, db, tx, MemorySound
      <3> QED BY <1>2, <1>6, <3>1, <3>2, LocalRests DEF MemorySound
    <2> QED BY <1>6, <2>1, <2>2 DEF PassStep
  <1>7. CASE r \in Deleters /\ DeleteRow(r)
    <2>1. /\ log' = log /\ pc[r] = "row" /\ pc'[r] = "done" /\ target' = target
          /\ \A q \in Requests \ {r} : pc'[q] = pc[q]
      BY <1>7 DEF DeleteRow, Goto, tx, MemorySound
    <2> QED BY <1>7, <2>1, DeleteKeeps, ResolversDelete DEF CardsRest, Requests
  <1>8. CASE Commit(r)
    <2>1. /\ log \subseteq log' /\ target' = target /\ \A q \in Requests \ {r} : pc'[q] = pc[q]
      BY <1>8 DEF Commit, Forget, Goto, MemorySound
    <2>2. r \notin Resolvers
      BY <1>1, <1>8, ResolversDelete, KindsAreApart DEF RequestSound, Places, Commit
    <2> QED BY <1>8, <2>1, <2>2, CommitKeeps, ResolversDelete DEF CardsRest, Requests
  <1> QED BY <1>3, <1>4, <1>5, <1>6, <1>7, <1>8 DEF Step

LEMMA MemoryNextKeeps ==
  ASSUME MemorySound, MemoryNext
  PROVE  MemorySound' /\ CardsRest
  <1>1. ASSUME NEW r \in Ingests, ListBeliefs(r) PROVE MemorySound' /\ CardsRest
    <2>1. r \in Requests /\ r \notin Resolvers
      BY ResolversDelete, KindsAreApart DEF Requests
    <2>2. UNCHANGED <<status, log>> /\ \A q \in Requests \ {r} : pc'[q] = pc[q] /\ target'[q] = target[q]
      BY <1>1 DEF ListBeliefs, Goto, db, MemorySound
    <2>3. MemorySound'
      BY <1>1, ListKeeps
    <2> QED BY <2>1, <2>2, <2>3, LocalRests DEF MemorySound
  <1>2. ASSUME NEW r \in Retrievers \cup Consolidators,
               (r \in Retrievers /\ Search(r)) \/ (r \in Consolidators /\ ReadSure(r))
        PROVE  MemorySound' /\ CardsRest
    <2>1. r \in Requests /\ r \notin Resolvers
      BY ResolversDelete, KindsAreApart DEF Requests
    <2>2. UNCHANGED <<status, log>> /\ \A q \in Requests \ {r} : pc'[q] = pc[q] /\ target'[q] = target[q]
      BY <1>2 DEF Search, ReadSure, Goto, db, MemorySound
    <2>3. MemorySound'
      BY <1>2, <2>1, ReadsKeep
    <2> QED BY <2>1, <2>2, <2>3, LocalRests DEF MemorySound
  <1>3. ASSUME NEW b \in Beliefs, Decay(b) PROVE MemorySound' /\ CardsRest
    <2>1. MemorySound'
      BY <1>3, DecayKeeps
    <2> QED BY <1>3, <2>1 DEF Decay, CardsRest, tx
  <1> QED BY <1>1, <1>2, <1>3, StepKeeps DEF MemoryNext

-----------------------------------------------------------------------------
(* The cards.                                                               *)

\* Both sides of a card are, or were, committed memories.
LEMMA CardSides ==
  ASSUME MemorySound, NEW c \in Disputed
  PROVE  c[1] \in Born /\ c[2] \in Born /\ c[1] # c[2]
  <1> DEFINE e == [a |-> c[1], b |-> c[2], resolution |-> "flagged"]
  <1>1. e \in log /\ e.a = c[1] /\ e.b = c[2]
    BY DEF Disputed
  <1>2. IsEntry(e) /\ {e.a, e.b} \subseteq Born
    BY <1>1 DEF MemorySound
  <1> QED BY <1>1, <1>2 DEF IsEntry

LEMMA CardsFrame ==
  ASSUME CardsSound, CardsRest, UNCHANGED cardvars
  PROVE  CardsSound'
  <1>1. Disputed \subseteq Disputed'
    BY DEF CardsRest, Disputed
  <1>2. UNCHANGED <<cards, place, work, made, pick, gone, contested>>
        /\ \A p : (Engaged(p)' <=> Engaged(p)) /\ Loser(p)' = Loser(p)
    BY DEF cardvars, Engaged, Loser
  <1>3. ASSUME NEW p \in Resolvers PROVE ResolverSound(p)'
    BY <1>2 DEF CardsSound, CardsRest, ResolverSound
  <1>4. \A c \in DOMAIN cards : cards[c].deleted =>
            \E b \in {c[1], c[2]} : b # cards[c].winner /\ status'[b] = "gone"
    <2> SUFFICES ASSUME NEW c \in DOMAIN cards, cards[c].deleted
                 PROVE  \E b \in {c[1], c[2]} : b # cards[c].winner /\ status'[b] = "gone"
      OBVIOUS
    <2>1. c[1] \in Beliefs /\ c[2] \in Beliefs
      BY DEF CardsSound, Disputed
    <2>2. PICK b \in {c[1], c[2]} : b # cards[c].winner /\ status[b] = "gone"
      BY DEF CardsSound
    <2> QED BY <2>1, <2>2 DEF CardsRest
  <1> QED BY <1>1, <1>2, <1>3, <1>4 DEF CardsSound

LEMMA RecallsRest ==
  ASSUME NEW S, Recalls(S)
  PROVE  CardsRest
  BY DEF Recalls, CardsRest, tx

LEMMA NothingRests ==
  ASSUME UNCHANGED memory
  PROVE  CardsRest
  BY DEF memory, CardsRest, db, tx

LEMMA SyncKeeps ==
  ASSUME Inv, NEW v \in Viewers, Sync(v)
  PROVE  CardsSound'
  <1>1. UNCHANGED <<status, log, pc, target, cards, made, pick, gone, contested>>
    BY DEF Sync, memory, db, tx
  <1>2. v \notin Resolvers /\ v \in People
    BY ViewersOnlyView DEF People
  <1>3. /\ place' = [place EXCEPT ![v] = place'[v]] /\ place'[v] \in {"done", "join"}
    BY <1>2 DEF Sync, Move, Inv, CardsSound
  <1>4. DOMAIN work' = Viewers /\ \A q \in Viewers : work'[q] \subseteq Disputed
    <2>1. CASE fresh
      BY <2>1 DEF Sync, Inv, CardsSound
    <2>2. CASE ~fresh
      <3>1. PICK up \in BOOLEAN : work' = [work EXCEPT ![v] =
                 {<<e.a, e.b>> : e \in {f \in log : up /\ f.resolution = "flagged"}} \ DOMAIN cards]
        BY <2>2 DEF Sync
      <3>2. \A e \in log : e.resolution = "flagged" => <<e.a, e.b>> \in Disputed
        BY DEF Inv, MemorySound, IsEntry, Disputed
      <3> QED BY <3>1, <3>2 DEF Inv, CardsSound
    <2> QED BY <2>1, <2>2
  <1>5. Disputed' = Disputed /\ \A p \in Resolvers : place'[p] = place[p]
    <2>1. \A p \in Resolvers : place'[p] = place[p]
      BY <1>2 DEF Sync, Move, Inv, CardsSound, People
    <2> QED BY <1>1, <2>1 DEF Disputed
  <1>6. \A p \in Resolvers : (Engaged(p)' <=> Engaged(p)) /\ Loser(p)' = Loser(p)
    BY <1>1, <1>5 DEF Engaged, Loser
  <1>7. \A p \in Resolvers : ResolverSound(p)'
    BY <1>1, <1>5, <1>6 DEF Inv, CardsSound, ResolverSound
  <1>8. place' \in [People -> {"away", "idle", "join", "delete", "reinforce", "write", "done", "failed"}]
    BY <1>3 DEF Inv, CardsSound
  <1>9. \A q \in Viewers : place'[q] \notin {"delete", "reinforce", "write"}
    BY <1>3 DEF Inv, CardsSound, People
  <1> QED BY <1>1, <1>4, <1>5, <1>6, <1>7, <1>8, <1>9 DEF Inv, CardsSound

LEMMA JoinKeeps ==
  ASSUME Inv, NEW v \in Viewers, Join(v)
  PROVE  Inv'
  <1>1. PICK c \in work[v], S \in SUBSET {b \in Beliefs : Live(b)} :
          /\ Recalls(S)
          /\ made' = [made EXCEPT ![v] = IF {c[1], c[2]} \subseteq S THEN made[v] \cup {c} ELSE made[v]]
          /\ work' = [work EXCEPT ![v] = work[v] \ {c}]
          /\ UNCHANGED <<cards, fresh, place, pick, gone, contested>>
    BY DEF Join
  <1>2. MemorySound' /\ CardsRest
    BY <1>1, RecallsKeep, RecallsRest DEF Inv
  <1>3. UNCHANGED <<status, log, pc, target>>
    BY <1>1 DEF Recalls, tx
  <1>4. Disputed' = Disputed /\ \A p : (Engaged(p)' <=> Engaged(p)) /\ Loser(p)' = Loser(p)
    BY <1>1, <1>3 DEF Disputed, Engaged, Loser
  <1>5. DOMAIN work' = Viewers /\ DOMAIN made' = Viewers
        /\ \A q \in Viewers : work'[q] \subseteq Disputed /\ made'[q] \subseteq Disputed
    BY <1>1 DEF Inv, CardsSound
  <1>6. \A p \in Resolvers : ResolverSound(p)'
    BY <1>1, <1>3, <1>4 DEF Inv, CardsSound, ResolverSound
  <1>7. CardsSound'
    BY <1>1, <1>3, <1>4, <1>5, <1>6 DEF Inv, CardsSound
  <1> QED BY <1>2, <1>7 DEF Inv

LEMMA SaveKeeps ==
  ASSUME Inv, NEW v \in Viewers, SaveCards(v)
  PROVE  CardsSound'
  <1>1. UNCHANGED <<status, log, pc, target, work, made, pick, gone, contested>>
    BY DEF SaveCards, memory, db, tx
  <1>2. v \notin Resolvers /\ v \in People
    BY ViewersOnlyView DEF People
  <1>3. place' = [place EXCEPT ![v] = place'[v]] /\ place'[v] \in {"done", "failed"}
    BY <1>2 DEF SaveCards, Move, Inv, CardsSound
  <1>4. /\ DOMAIN cards \subseteq DOMAIN cards' /\ DOMAIN cards' \subseteq DOMAIN cards \cup made[v]
        /\ \A c \in DOMAIN cards : cards'[c] = cards[c]
        /\ \A c \in DOMAIN cards' \ DOMAIN cards :
             cards'[c] = [status |-> "open", winner |-> None, deleted |-> FALSE]
    BY DEF SaveCards, Overlay
  <1>5. Disputed' = Disputed /\ \A p \in Resolvers : place'[p] = place[p]
    <2>1. \A p \in Resolvers : place'[p] = place[p]
      BY <1>2 DEF SaveCards, Move, Inv, CardsSound, People
    <2> QED BY <1>1, <2>1 DEF Disputed
  <1>6. \A p \in Resolvers : (Engaged(p)' <=> Engaged(p)) /\ Loser(p)' = Loser(p)
    BY <1>1, <1>5 DEF Engaged, Loser
  <1>7. \A p \in Resolvers : ResolverSound(p)'
    BY <1>1, <1>4, <1>5, <1>6 DEF Inv, CardsSound, ResolverSound, Engaged
  <1>8. place' \in [People -> {"away", "idle", "join", "delete", "reinforce", "write", "done", "failed"}]
        /\ \A q \in Viewers : place'[q] \notin {"delete", "reinforce", "write"}
    BY <1>3 DEF Inv, CardsSound, People
  <1>9. \A c \in DOMAIN cards' :
       /\ c \in Disputed
       /\ cards'[c].status \in {"open", "resolved"}
       /\ cards'[c].status = "resolved" =>
            \E p \in Resolvers : /\ place'[p] = "done" /\ pick[p].card = c
                                 /\ cards'[c].winner = pick[p].keep
       /\ cards'[c].deleted =>
            \E b \in {c[1], c[2]} : b # cards'[c].winner /\ status[b] = "gone"
    <2> SUFFICES ASSUME NEW c \in DOMAIN cards'
        PROVE  /\ c \in Disputed
               /\ cards'[c].status \in {"open", "resolved"}
               /\ cards'[c].status = "resolved" =>
                    \E p \in Resolvers : /\ place'[p] = "done" /\ pick[p].card = c
                                         /\ cards'[c].winner = pick[p].keep
               /\ cards'[c].deleted =>
                    \E b \in {c[1], c[2]} : b # cards'[c].winner /\ status[b] = "gone"
      OBVIOUS
    <2>1. CASE c \in DOMAIN cards
      BY <1>4, <1>5, <2>1 DEF Inv, CardsSound
    <2>2. CASE c \notin DOMAIN cards
      <3>1. cards'[c].status = "open" /\ cards'[c].deleted = FALSE
        BY <1>4, <2>2
      <3>2. c \in Disputed
        BY <1>4, <2>2 DEF Inv, CardsSound
      <3> QED BY <3>1, <3>2
    <2> QED BY <2>1, <2>2
  <1> QED BY <1>1, <1>5, <1>6, <1>7, <1>8, <1>9 DEF Inv, CardsSound

LEMMA ReadCardKeeps ==
  ASSUME Inv, NEW p \in Resolvers, ReadCard(p)
  PROVE  CardsSound'
  <1>0. PICK c \in DOMAIN cards : \E x \in {c[1], c[2]} :
          /\ CardOpen(c) /\ pick' = [pick EXCEPT ![p] = [card |-> c, keep |-> x]]
          /\ contested' = (contested \/ \E q \in Resolvers \ {p} :
               place[q] \notin {"away", "idle", "done"} /\ pick[q].card = c)
    BY DEF ReadCard
  <1>1. PICK b \in {c[1], c[2]} :
          /\ CardOpen(c) /\ pick' = [pick EXCEPT ![p] = [card |-> c, keep |-> b]]
          /\ contested' = (contested \/ \E q \in Resolvers \ {p} :
               place[q] \notin {"away", "idle", "done"} /\ pick[q].card = c)
    BY <1>0
  <1>2. UNCHANGED <<status, log, pc, target, cards, work, made, gone>> /\ place[p] = "idle"
    BY DEF ReadCard, memory, db, tx
  <1>3. p \in People /\ p \notin Viewers /\ place' = [place EXCEPT ![p] = "delete"]
    BY ViewersOnlyView DEF People, ReadCard, Move
  <1>4. /\ place' \in [People -> {"away", "idle", "join", "delete", "reinforce", "write", "done", "failed"}]
        /\ place'[p] = "delete" /\ \A q \in People \ {p} : place'[q] = place[q]
    BY <1>3 DEF Inv, CardsSound
  <1>5. /\ DOMAIN pick' = Resolvers /\ pick'[p].card = c /\ pick'[p].keep = b
        /\ \A q \in Resolvers \ {p} : pick'[q] = pick[q]
    BY <1>1 DEF Inv, CardsSound
  <1>6. \A q \in Resolvers \ {p} : (Engaged(q)' <=> Engaged(q)) /\ Loser(q)' = Loser(q)
    BY <1>4, <1>5 DEF Engaged, Loser, People
  <1>7. ASSUME NEW q \in Resolvers PROVE ResolverSound(q)'
    <2>1. CASE q = p
      BY <1>2, <1>4, <1>5, <2>1 DEF Inv, CardsSound, ResolverSound, Engaged
    <2>2. CASE q # p
      BY <1>2, <1>4, <1>5, <1>6, <2>2 DEF Inv, CardsSound, ResolverSound, People
    <2> QED BY <2>1, <2>2
  <1>8. \A d \in DOMAIN cards : cards[d].status = "resolved" =>
            \E q \in Resolvers : /\ place'[q] = "done" /\ pick'[q].card = d
                                 /\ cards[d].winner = pick'[q].keep
    <2> SUFFICES ASSUME NEW d \in DOMAIN cards, cards[d].status = "resolved"
                 PROVE  \E q \in Resolvers : /\ place'[q] = "done" /\ pick'[q].card = d
                                             /\ cards[d].winner = pick'[q].keep
      OBVIOUS
    <2>1. PICK q \in Resolvers : place[q] = "done" /\ pick[q].card = d /\ cards[d].winner = pick[q].keep
      BY DEF Inv, CardsSound
    <2> QED BY <1>2, <1>4, <1>5, <2>1 DEF People
  <1>9. ASSUME ~contested', NEW q \in Resolvers \ {p}, Engaged(q) PROVE pick[q].card # c
    <2>1. place[q] = "done" => cards[pick[q].card].status = "resolved"
      BY DEF Inv, CardsSound, ResolverSound
    <2> QED BY <1>1, <1>9, <2>1 DEF CardOpen, Engaged
  <1>10. ~contested' => \A q, r \in Resolvers :
           q # r /\ Engaged(q)' /\ Engaged(r)' => pick'[q].card # pick'[r].card
    <2> SUFFICES ASSUME ~contested', NEW q \in Resolvers, NEW r \in Resolvers,
                        q # r, Engaged(q)', Engaged(r)'
                 PROVE  pick'[q].card # pick'[r].card
      OBVIOUS
    <2>1. CASE q = p
      BY <1>5, <1>6, <1>9, <2>1
    <2>2. CASE r = p
      BY <1>5, <1>6, <1>9, <2>2
    <2>3. CASE q # p /\ r # p
      <3>1. ~contested
        BY <1>1
      <3>2. Engaged(q) /\ Engaged(r) /\ pick'[q] = pick[q] /\ pick'[r] = pick[r]
        BY <1>5, <1>6, <2>3
      <3> QED BY <3>1, <3>2 DEF Inv, CardsSound
    <2> QED BY <2>1, <2>2, <2>3
  <1>11. Disputed' = Disputed
    BY <1>2 DEF Disputed
  <1>12. \A v \in Viewers : place'[v] \notin {"delete", "reinforce", "write"}
    BY <1>3, <1>4 DEF Inv, CardsSound, People
  <1> QED BY <1>2, <1>4, <1>5, <1>7, <1>8, <1>10, <1>11, <1>12 DEF Inv, CardsSound

\* A step of a decision that has read its card, and touches no card.
LEMMA DecisionKeeps ==
  ASSUME Inv, CardsRest, UNCHANGED <<cards, work, made, pick, contested>>,
         NEW p \in People,
         place' \in [People -> {"away", "idle", "join", "delete", "reinforce", "write", "done", "failed"}],
         \A q \in People \ {p} : place'[q] = place[q],
         place[p] \notin {"away", "idle", "done"},
         p \in Resolvers => place'[p] \in {"delete", "reinforce", "write", "failed"},
         p \in Viewers => place'[p] \notin {"delete", "reinforce", "write"},
         gone' \in [Resolvers -> BOOLEAN],
         \A q \in Resolvers : gone'[q] => gone[q] \/ (q = p /\ pc[q] = "done")
  PROVE  CardsSound'
  <1>1. Disputed \subseteq Disputed'
    BY DEF CardsRest, Disputed
  <1>2. \A q \in Resolvers : (Engaged(q)' <=> Engaged(q)) /\ Loser(q)' = Loser(q)
    BY DEF Engaged, Loser, People
  <1>3. ASSUME NEW q \in Resolvers PROVE ResolverSound(q)'
    <2>1. ResolverSound(q)
      BY DEF Inv, CardsSound
    <2>2. CASE q = p
      BY <1>2, <2>1, <2>2 DEF CardsRest, ResolverSound, Engaged
    <2>3. CASE q # p
      BY <1>2, <2>1, <2>3 DEF CardsRest, ResolverSound, People
    <2> QED BY <2>2, <2>3
  <1>4. \A c \in DOMAIN cards : cards[c].deleted =>
            \E b \in {c[1], c[2]} : b # cards[c].winner /\ status'[b] = "gone"
    <2> SUFFICES ASSUME NEW c \in DOMAIN cards, cards[c].deleted
                 PROVE  \E b \in {c[1], c[2]} : b # cards[c].winner /\ status'[b] = "gone"
      OBVIOUS
    <2>1. c[1] \in Beliefs /\ c[2] \in Beliefs
      <3>1. c \in Disputed
        BY DEF Inv, CardsSound
      <3> QED BY <3>1 DEF Disputed
    <2>2. PICK b \in {c[1], c[2]} : b # cards[c].winner /\ status[b] = "gone"
      BY DEF Inv, CardsSound
    <2> QED BY <2>1, <2>2 DEF CardsRest
  <1>5. \A d \in DOMAIN cards : cards[d].status = "resolved" =>
            \E q \in Resolvers : /\ place'[q] = "done" /\ pick[q].card = d
                                 /\ cards[d].winner = pick[q].keep
    <2> SUFFICES ASSUME NEW d \in DOMAIN cards, cards[d].status = "resolved"
                 PROVE  \E q \in Resolvers : /\ place'[q] = "done" /\ pick[q].card = d
                                             /\ cards[d].winner = pick[q].keep
      OBVIOUS
    <2>1. PICK q \in Resolvers : place[q] = "done" /\ pick[q].card = d /\ cards[d].winner = pick[q].keep
      BY DEF Inv, CardsSound
    <2> QED BY <2>1 DEF People
  <1>6. \A v \in Viewers : place'[v] \notin {"delete", "reinforce", "write"}
    BY DEF Inv, CardsSound, People
  <1>7. ~contested' => \A q, r \in Resolvers :
           q # r /\ Engaged(q)' /\ Engaged(r)' => pick'[q].card # pick'[r].card
    BY <1>2 DEF Inv, CardsSound
  <1> QED BY <1>1, <1>3, <1>4, <1>5, <1>6, <1>7 DEF Inv, CardsSound

LEMMA CallDeleteKeeps ==
  ASSUME Inv, NEW p \in Resolvers, CallDelete(p)
  PROVE  Inv'
  <1>1. p \in Deleters /\ p \in Requests
    BY ResolversDelete DEF Requests
  <1>2. ResolverSound(p) /\ Engaged(p) /\ RequestSound(p) /\ pc[p] = "idle"
    BY <1>1 DEF Inv, CardsSound, MemorySound, Engaged, CallDelete, CascadeOf, CascadeFails
  <1>3. pick[p].card \in Disputed
    BY <1>2 DEF ResolverSound, Inv, CardsSound
  <1>4. Loser(p) \in Born
    BY <1>2, <1>3, CardSides DEF Loser, Inv
  <1>5. MemorySound'
    BY <1>1, <1>4, CascadeKeeps, CascadeFailsKeeps DEF CallDelete, Inv
  <1>6. /\ UNCHANGED <<status, log>> /\ UNCHANGED cardvars
        /\ \A q \in Requests \ {p} : pc'[q] = pc[q] /\ target'[q] = target[q]
        /\ pc'[p] = "failed" \/ (pc'[p] = "row" /\ target'[p] = Loser(p))
    BY <1>1 DEF CallDelete, CascadeOf, CascadeFails, Goto, db, tx, Inv, MemorySound
  <1>7. UNCHANGED <<cards, place, work, made, pick, gone, contested>>
        /\ \A q : (Engaged(q)' <=> Engaged(q)) /\ Loser(q)' = Loser(q)
    BY <1>6 DEF cardvars, Engaged, Loser
  <1>8. Disputed' = Disputed
    BY <1>6 DEF Disputed
  <1>9. ASSUME NEW q \in Resolvers PROVE ResolverSound(q)'
    <2>1. CASE q = p
      BY <1>2, <1>6, <1>7, <2>1 DEF ResolverSound
    <2>2. CASE q # p
      BY <1>6, <1>7, <2>2, ResolversDelete DEF Inv, CardsSound, ResolverSound, Requests
    <2> QED BY <2>1, <2>2
  <1> QED BY <1>5, <1>6, <1>7, <1>8, <1>9 DEF Inv, CardsSound

LEMMA SaveDecisionKeeps ==
  ASSUME Inv, NEW p \in Resolvers, SaveDecision(p)
  PROVE  CardsSound'
  <1> DEFINE c == pick[p].card
             card == [status |-> "resolved", winner |-> pick[p].keep, deleted |-> gone[p]]
  <1>1. /\ UNCHANGED <<status, log, pc, target, work, made, pick, gone, contested>>
        /\ place[p] = "write" /\ cards' = Put(cards, c, card)
    BY DEF SaveDecision, memory, db, tx
  <1>2. p \in People /\ p \notin Viewers /\ place' = [place EXCEPT ![p] = "done"]
    BY ViewersOnlyView DEF People, SaveDecision, Move
  <1>3. /\ place' \in [People -> {"away", "idle", "join", "delete", "reinforce", "write", "done", "failed"}]
        /\ place'[p] = "done" /\ \A q \in People \ {p} : place'[q] = place[q]
    BY <1>2 DEF Inv, CardsSound
  <1>4. ResolverSound(p) /\ Engaged(p) /\ c \in DOMAIN cards
        /\ pick[p].keep \in {c[1], c[2]}
    BY <1>1 DEF Inv, CardsSound, ResolverSound, Engaged
  <1>5. /\ DOMAIN cards' = DOMAIN cards /\ cards'[c] = card
        /\ \A d \in DOMAIN cards \ {c} : cards'[d] = cards[d]
    <2> HIDE DEF c, card
    <2> QED BY <1>1, <1>4 DEF Put
  <1>6. \A q \in Resolvers : (Engaged(q)' <=> Engaged(q)) /\ Loser(q)' = Loser(q)
    BY <1>1, <1>3 DEF Engaged, Loser, People
  <1>7. \A d \in DOMAIN cards : cards[d].status = "resolved" => cards'[d].status = "resolved"
    BY <1>5
  <1>8. ASSUME NEW q \in Resolvers PROVE ResolverSound(q)'
    <2>1. ResolverSound(q)
      BY DEF Inv, CardsSound
    <2>2. CASE q = p
      BY <1>1, <1>4, <1>5, <1>6, <2>1, <2>2 DEF ResolverSound
    <2>3. CASE q # p
      <3>1. place'[q] = place[q]
        BY <1>3, <2>3 DEF People
      <3>2. place[q] = "done" => cards'[pick[q].card].status = "resolved"
        BY <1>7, <2>1 DEF ResolverSound, Engaged
      <3> QED BY <1>1, <1>5, <1>6, <2>1, <3>1, <3>2 DEF ResolverSound
    <2> QED BY <2>2, <2>3
  <1>9. gone[p] => \E b \in {c[1], c[2]} : b # pick[p].keep /\ status[b] = "gone"
    <2> SUFFICES ASSUME gone[p] PROVE \E b \in {c[1], c[2]} : b # pick[p].keep /\ status[b] = "gone"
      OBVIOUS
    <2>1. pc[p] = "done" /\ target[p] = Loser(p)
      BY <1>4 DEF ResolverSound
    <2>2. status[Loser(p)] = "gone"
      BY <2>1, ResolversDelete DEF Inv, MemorySound, RequestSound, Requests
    <2>3. c[1] # c[2]
      BY <1>4, CardSides DEF Inv, CardsSound
    <2> QED BY <1>4, <2>2, <2>3 DEF Loser
  <1>10. ASSUME NEW d \in DOMAIN cards
         PROVE  /\ d \in Disputed
                /\ cards'[d].status \in {"open", "resolved"}
                /\ cards'[d].status = "resolved" =>
                     \E q \in Resolvers : /\ place'[q] = "done" /\ pick[q].card = d
                                          /\ cards'[d].winner = pick[q].keep
                /\ cards'[d].deleted =>
                     \E b \in {d[1], d[2]} : b # cards'[d].winner /\ status[b] = "gone"
    <2>1. CASE d = c
      <3>1. d \in Disputed
        BY DEF Inv, CardsSound
      <3>2. cards'[d].status = "resolved" /\ cards'[d].winner = pick[p].keep /\ cards'[d].deleted = gone[p]
        BY <1>5, <2>1
      <3> QED BY <1>3, <1>9, <2>1, <3>1, <3>2
    <2>2. CASE d # c
      <3>1. cards'[d] = cards[d]
        BY <1>5, <2>2
      <3>2. cards[d].status = "resolved" =>
              \E q \in Resolvers : /\ place'[q] = "done" /\ pick[q].card = d
                                   /\ cards[d].winner = pick[q].keep
        <4> SUFFICES ASSUME cards[d].status = "resolved"
                     PROVE  \E q \in Resolvers : /\ place'[q] = "done" /\ pick[q].card = d
                                                 /\ cards[d].winner = pick[q].keep
          OBVIOUS
        <4>1. PICK q \in Resolvers : place[q] = "done" /\ pick[q].card = d /\ cards[d].winner = pick[q].keep
          BY DEF Inv, CardsSound
        <4> QED BY <1>3, <4>1 DEF People
      <3> QED BY <3>1, <3>2 DEF Inv, CardsSound
    <2> QED BY <2>1, <2>2
  <1>11. ~contested' => \A q, r \in Resolvers :
           q # r /\ Engaged(q)' /\ Engaged(r)' => pick'[q].card # pick'[r].card
    BY <1>1, <1>6 DEF Inv, CardsSound
  <1>12. Disputed' = Disputed /\ \A v \in Viewers : place'[v] \notin {"delete", "reinforce", "write"}
    BY <1>1, <1>2, <1>3 DEF Disputed, Inv, CardsSound, People
  <1> QED BY <1>1, <1>3, <1>5, <1>8, <1>10, <1>11, <1>12 DEF Inv, CardsSound

LEMMA MemoryRests ==
  ASSUME MemorySound, UNCHANGED memory
  PROVE  MemorySound' /\ CardsRest
  <1>1. UNCHANGED <<status, weak, count, log, nodes, explained, pc, seen, todo, target, staged, bumps,
                    entries, hits>>
    BY DEF memory, db, graph, tx, past
  <1>2. Born' = Born /\ \A r : Known(r)' = Known(r) /\ Locks(r)' = Locks(r)
        /\ Written(r)' = Written(r) /\ (InFlight(r)' <=> InFlight(r))
    BY <1>1 DEF Born, Known, Locks, Written, InFlight, Exists
  <1>3. \A r \in Requests : RequestSound(r)'
    BY <1>1, <1>2 DEF MemorySound, RequestSound, StagedSound, InsertsInOrder, Exists
  <1> QED BY <1>1, <1>2, <1>3, NothingRests DEF MemorySound, LocksApart, CountsAreHits

LEMMA DecisionsKeep ==
  ASSUME Inv, NEW p \in People,
         (p \in Resolvers /\ (Answer(p) \/ ReinforceWinner(p))) \/ CardFails(p)
  PROVE  Inv'
  <1>1. CASE p \in Resolvers /\ Answer(p)
    <2>1. MemorySound' /\ CardsRest
      BY <1>1, MemoryRests DEF Answer, Inv
    <2>2. /\ p \notin Viewers /\ place[p] = "delete" /\ UNCHANGED <<cards, work, made, pick, contested>>
          /\ place' = [place EXCEPT ![p] = "reinforce"]
          /\ gone' = [gone EXCEPT ![p] = (pc[p] = "done")]
      BY <1>1, ViewersOnlyView DEF Answer, Answered, Move
    <2>3. /\ place' \in [People -> {"away", "idle", "join", "delete", "reinforce", "write", "done", "failed"}]
          /\ place'[p] = "reinforce" /\ \A q \in People \ {p} : place'[q] = place[q]
      BY <2>2 DEF Inv, CardsSound
    <2>4. gone' \in [Resolvers -> BOOLEAN] /\ \A q \in Resolvers : gone'[q] => gone[q] \/ (q = p /\ pc[q] = "done")
      <3>1. gone \in [Resolvers -> BOOLEAN]
        BY DEF Inv, CardsSound
      <3>2. gone' \in [Resolvers -> BOOLEAN]
        BY <2>2, <3>1
      <3>3. \A q \in Resolvers : q # p => gone'[q] = gone[q]
        BY <2>2, <3>1
      <3>4. gone'[p] <=> pc[p] = "done"
        BY <1>1, <2>2, <3>1, Zenon
      <3> QED BY <3>2, <3>3, <3>4
    <2> QED BY <2>1, <2>2, <2>3, <2>4, DecisionKeeps DEF Inv
  <1>2. CASE p \in Resolvers /\ ReinforceWinner(p)
    <2>1. PICK S \in {{}, {b \in Beliefs : Live(b)}} : Recalls(S)
      BY <1>2 DEF ReinforceWinner
    <2>2. MemorySound' /\ CardsRest
      BY <2>1, RecallsKeep, RecallsRest DEF Inv
    <2>3. /\ p \notin Viewers /\ place[p] = "reinforce"
          /\ UNCHANGED <<cards, work, made, pick, contested, gone>>
          /\ place' = [place EXCEPT ![p] = "write"]
      BY <1>2, ViewersOnlyView DEF ReinforceWinner, Move
    <2>4. /\ place' \in [People -> {"away", "idle", "join", "delete", "reinforce", "write", "done", "failed"}]
          /\ place'[p] = "write" /\ \A q \in People \ {p} : place'[q] = place[q]
      BY <2>3 DEF Inv, CardsSound
    <2>5. gone' \in [Resolvers -> BOOLEAN]
      BY <2>3 DEF Inv, CardsSound
    <2> QED BY <2>2, <2>3, <2>4, <2>5, DecisionKeeps DEF Inv
  <1>3. CASE CardFails(p)
    <2>1. MemorySound' /\ CardsRest
      BY <1>3, MemoryRests DEF CardFails, Inv
    <2>2. /\ place[p] \notin {"away", "idle", "done"} /\ UNCHANGED <<cards, work, made, pick, contested, gone>>
          /\ place' = [place EXCEPT ![p] = "failed"]
      BY <1>3 DEF CardFails, Move, Busy
    <2>3. /\ place' \in [People -> {"away", "idle", "join", "delete", "reinforce", "write", "done", "failed"}]
          /\ place'[p] = "failed" /\ \A q \in People \ {p} : place'[q] = place[q]
      BY <2>2 DEF Inv, CardsSound
    <2>4. gone' \in [Resolvers -> BOOLEAN]
      BY <2>2 DEF Inv, CardsSound
    <2> QED BY <2>1, <2>2, <2>3, <2>4, DecisionKeeps DEF Inv
  <1> QED BY <1>1, <1>2, <1>3

-----------------------------------------------------------------------------
(* The theorems.                                                            *)

LEMMA InvInit == CardsInit => Inv
  <1> SUFFICES ASSUME CardsInit PROVE Inv
    OBVIOUS
  <1>1. PICK cast \in Casts :
          InitWith(cast) /\ place = [p \in People |-> IF p \in cast THEN "idle" ELSE "away"]
    BY DEF CardsInit
  <1>2. Domains /\ DOMAIN count = Beliefs /\ DOMAIN hits = Beliefs /\ CountsAreHits
    BY <1>1 DEF InitWith, Domains, CountsAreHits
  <1>3. Old \subseteq Beliefs /\ Born = Old
    BY <1>1 DEF InitWith, Beliefs, Born
  <1>4. status \in [Beliefs -> Statuses] /\ \A b \in Beliefs : status[b] \in {"active", "absent"}
    BY <1>1 DEF InitWith, Statuses
  <1>5. ASSUME NEW r \in Requests PROVE RequestSound(r) /\ Locks(r) = {}
    <2>1. /\ pc[r] \in {"idle", "away"} /\ seen[r] = {} /\ todo[r] = <<>> /\ staged[r] = <<>>
          /\ bumps[r] = <<>> /\ entries[r] = {}
      BY <1>1 DEF InitWith
    <2>2. Written(r) = {} /\ Locks(r) = {} /\ StagedSound(r) /\ InsertsInOrder(r)
      BY <2>1, EmptyFunction DEF Written, Locks, StagedSound, InsertsInOrder
    <2>3. r \in Ingests => OwnOf(r) \cap Born = {}
      BY <1>3, NewIsNotOld DEF OwnOf
    <2>4. pc[r] \in Places(r) /\ ~InFlight(r)
      BY <2>1 DEF Places, InFlight
    <2> QED BY <2>1, <2>2, <2>3, <2>4 DEF RequestSound
  <1>6. \A e \in log : IsEntry(e) /\ {e.a, e.b} \subseteq Born
    BY <1>1, <1>3, FlaggedAreOld DEF InitWith, IsEntry
  <1>7. MemorySound
    BY <1>1, <1>2, <1>3, <1>4, <1>5, <1>6 DEF MemorySound, Domains, LocksApart, InitWith
  <1>8. DOMAIN cards = {}
    BY EmptyFunction DEF CardsInit
  <1>9. \A p \in Resolvers : ~Engaged(p) /\ pc[p] \in {"idle", "away"} /\ gone[p] = FALSE /\ place[p] # "done"
    BY <1>1, ResolversDelete DEF CardsInit, InitWith, Engaged, People, Requests
  <1>10. \A p \in Resolvers : ResolverSound(p)
    BY <1>9 DEF ResolverSound
  <1>11. CardsSound
    BY <1>1, <1>8, <1>9, <1>10 DEF CardsInit, CardsSound, People
  <1> QED BY <1>7, <1>11 DEF Inv

LEMMA InvNext == Inv /\ [Next]_vars => Inv'
  <1> SUFFICES ASSUME Inv, [Next]_vars PROVE Inv'
    OBVIOUS
  <1>1. CASE MemoryNext /\ UNCHANGED cardvars
    BY <1>1, MemoryNextKeeps, CardsFrame DEF Inv
  <1>2. ASSUME NEW d \in Deleters \ Resolvers, Cascade(d) \/ CascadeFails(d), UNCHANGED cardvars PROVE Inv'
    <2>1. MemorySound'
      <3>1. \A b \in Beliefs : Exists(b) => b \in Born
        BY DEF Exists, Born
      <3> QED BY <1>2, <3>1, CascadeKeeps, CascadeFailsKeeps DEF Cascade, Inv
    <2>2. UNCHANGED <<status, log>> /\ \A q \in Requests \ {d} : pc'[q] = pc[q] /\ target'[q] = target[q]
      BY <1>2 DEF Cascade, CascadeOf, CascadeFails, Goto, db, tx, Inv, MemorySound
    <2>3. CardsRest
      BY <2>1, <2>2, LocalRests DEF Inv, MemorySound, Requests
    <2> QED BY <1>2, <2>1, <2>3, CardsFrame DEF Inv
  <1>3. ASSUME NEW v \in Viewers, Sync(v) \/ ViewStep(v) PROVE Inv'
    <2>1. CASE Join(v)
      BY <2>1, JoinKeeps
    <2>2. CASE Sync(v) \/ SaveCards(v)
      BY <2>2, SyncKeeps, SaveKeeps, MemoryRests DEF Inv, Sync, SaveCards
    <2> QED BY <1>3, <2>1, <2>2 DEF ViewStep
  <1>4. ASSUME NEW p \in Resolvers, ReadCard(p) \/ ResolveStep(p) PROVE Inv'
    <2>1. CASE ReadCard(p) \/ SaveDecision(p)
      BY <2>1, ReadCardKeeps, SaveDecisionKeeps, MemoryRests DEF Inv, ReadCard, SaveDecision
    <2>2. CASE CallDelete(p)
      BY <2>2, CallDeleteKeeps
    <2>3. CASE Answer(p) \/ ReinforceWinner(p)
      BY <2>3, DecisionsKeep DEF People
    <2> QED BY <1>4, <2>1, <2>2, <2>3 DEF ResolveStep
  <1>5. ASSUME NEW p \in People, CardFails(p) PROVE Inv'
    BY <1>5, DecisionsKeep
  <1>6. CASE WindowPasses
    <2>1. MemorySound' /\ CardsRest
      BY <1>6, MemoryRests DEF Inv, WindowPasses
    <2>2. UNCHANGED <<status, log, pc, target, cards, place, work, made, pick, gone, contested>>
      BY <1>6 DEF WindowPasses, memory, db, tx
    <2>3. \A p : (Engaged(p)' <=> Engaged(p)) /\ Loser(p)' = Loser(p) /\ (ResolverSound(p)' <=> ResolverSound(p))
      BY <2>2 DEF Engaged, Loser, ResolverSound
    <2> QED BY <2>1, <2>2, <2>3 DEF Inv, CardsSound, Disputed
  <1>7. CASE UNCHANGED vars
    BY <1>7, MemoryRests, CardsFrame DEF vars, Inv
  <1> QED BY <1>1, <1>2, <1>3, <1>4, <1>5, <1>6, <1>7 DEF Next, Quiet

\* Memory engine and cards, together: transactions stage under their locks, and
\* decisions know what became of their deletes.
THEOREM MemoryStaysSound == Spec => []Inv
  <1>1. CardsInit => Inv
    BY InvInit
  <1>2. Inv /\ [Next]_vars => Inv'
    BY InvNext
  <1> QED BY <1>1, <1>2, PTL DEF Spec

\* Reinforcement counts every committed retrieval once, whatever overlaps
\* (reinforcement.py, dynamics.py), and the state of both services is well typed.
THEOREM ReinforcementCounts == Spec => []BeliefsSound
  <1>1. Inv => BeliefsSound
    <2> SUFFICES ASSUME Inv PROVE BeliefsSound
      OBVIOUS
    <2>1. \A r \in Requests : ~InFlight(r) => staged[r] = <<>> /\ bumps[r] = <<>> /\ entries[r] = {}
      BY DEF Inv, MemorySound, RequestSound
    <2>2. \A e \in log : e.a \in Beliefs /\ status[e.b] # "absent"
      BY DEF Inv, MemorySound, IsEntry, Born
    <2>3. \A c \in DOMAIN cards : /\ cards[c].status \in {"open", "resolved"}
                                  /\ [a |-> c[1], b |-> c[2], resolution |-> "flagged"] \in log
      BY DEF Inv, CardsSound, Disputed
    <2> QED BY <2>1, <2>2, <2>3 DEF Inv, MemorySound, CardsSound, BeliefsSound, TypeOK, Statuses
  <1> QED BY <1>1, MemoryStaysSound, PTL

\* A resolved card tells what became of both memories (conflicts.py), also when
\* several cards name one memory.
THEOREM CardsTellTheTruth == Spec => []CardsAreTrue
  <1>1. Inv => CardsAreTrue
    <2> SUFFICES ASSUME Inv PROVE CardsAreTrue
      OBVIOUS
    <2>1. ResolvedIsTrue
      BY DEF Inv, CardsSound, ResolvedIsTrue
    <2>2. ASSUME ~contested, NEW c \in DOMAIN cards, cards[c].status = "resolved",
                 status[cards[c].winner] = "gone"
          PROVE  \/ \E d \in Deleters \ Resolvers : target[d] = cards[c].winner
                 \/ \E p \in Resolvers : target[p] = cards[c].winner /\ pick[p].card # c
                 \/ \E r \in Consolidators : pc[r] = "done"
      <3>1. PICK q \in Resolvers : place[q] = "done" /\ pick[q].card = c /\ cards[c].winner = pick[q].keep
        BY <2>2 DEF Inv, CardsSound
      <3>2. c \in Disputed /\ Engaged(q) /\ pick[q].keep \in {c[1], c[2]}
        BY <3>1 DEF Inv, CardsSound, ResolverSound, Engaged
      <3>3. c[1] # c[2] /\ pick[q].keep \in Beliefs
        BY <3>2, CardSides DEF Inv, Born
      <3>4. CASE \E d \in Deleters : pc[d] = "done" /\ target[d] = pick[q].keep
        <4>1. PICK d \in Deleters : pc[d] = "done" /\ target[d] = pick[q].keep
          BY <3>4
        <4>2. ASSUME d \in Resolvers PROVE pick[d].card # c
          <5>1. Engaged(d) /\ target[d] = Loser(d)
            BY <4>1, <4>2 DEF Inv, CardsSound, ResolverSound
          <5>2. CASE d = q
            BY <3>1, <3>2, <3>3, <4>1, <5>1, <5>2 DEF Loser
          <5>3. CASE d # q
            BY <2>2, <3>1, <3>2, <4>2, <5>1, <5>3 DEF Inv, CardsSound
          <5> QED BY <5>2, <5>3
        <4> QED BY <3>1, <4>1, <4>2
      <3>5. CASE \E r \in Consolidators : pc[r] = "done"
        BY <3>5
      <3> QED BY <2>2, <3>1, <3>3, <3>4, <3>5 DEF Inv, MemorySound
    <2>3. KeptUnlessContested
      BY <2>2 DEF KeptUnlessContested
    <2> QED BY <2>1, <2>3 DEF CardsAreTrue
  <1> QED BY <1>1, MemoryStaysSound, PTL

-----------------------------------------------------------------------------
(* Evidence in the graph.                                                   *)

\* A delete has begun with b.
Erasing(b) == \E d \in Deleters : pc[d] \notin {"away", "idle"} /\ target[d] = b

IngestExplains(r) ==
  /\ Written(r) \subseteq seen[r]
  /\ entries[r] # {} => target[r] \in seen[r]
  /\ pc[r] \in {"away", "idle"} => seen[r] = {}
  /\ \A b \in Written(r) : \/ b \in explained \cup dark
                           \/ pc[r] \in {"retire", "prove"} /\ b = LastOf(r)

\* Whatever exists is explained, dark or being deleted, and only an ingest that
\* had seen it brings an erased node back.
EvidenceSound ==
  /\ \A b \in Beliefs : Exists(b) => b \in explained \cup dark \/ Erasing(b)
  /\ \A r \in Ingests : IngestExplains(r)
  /\ \A d \in Deleters : pc[d] \in {"row", "done"} /\ target[d] \in nodes =>
       \E r \in Ingests : target[d] \in seen[r]

LEMMA InsertCounts ==
  ASSUME NEW r
  PROVE  Cardinality({<<r, 1>>}) = 1 /\ Cardinality({<<r, 1>>, <<r, 2>>}) = 2
  <1>1. Cardinality({<<r, 1>>}) = 1 /\ IsFiniteSet({<<r, 1>>})
    BY FS_Singleton
  <1>2. <<r, 2>> \notin {<<r, 1>>} /\ {<<r, 1>>, <<r, 2>>} = {<<r, 1>>} \cup {<<r, 2>>}
    OBVIOUS
  <1>3. Cardinality({<<r, 1>>} \cup {<<r, 2>>}) = Cardinality({<<r, 1>>}) + 1
    BY <1>1, <1>2, FS_AddElement
  <1> QED BY <1>1, <1>2, <1>3

LEMMA ExplainsStays ==
  ASSUME NEW q, IngestExplains(q), Same(q), explained \cup dark \subseteq explained' \cup dark'
  PROVE  IngestExplains(q)' /\ seen'[q] = seen[q]
  <1>1. Written(q)' = Written(q) /\ LastOf(q)' = LastOf(q)
    BY DEF Same, Written, LastOf
  <1> QED BY <1>1 DEF Same, IngestExplains

\* Deletes that have begun with a belief keep it as their target.
DeletesRest ==
  \A d \in Deleters : /\ pc[d] \notin {"away", "idle"} => pc'[d] \notin {"away", "idle"} /\ target'[d] = target[d]
                      /\ pc'[d] \in {"row", "done"} => pc[d] \in {"row", "done"} /\ target'[d] = target[d]

\* Steps that leave the graph and the ingests alone, or end an ingest.
LEMMA EvidenceFrame ==
  ASSUME EvidenceSound, DeletesRest, UNCHANGED <<nodes, explained, dark>>,
         \A b \in Beliefs : Exists(b)' => Exists(b),
         \A r \in Ingests : seen'[r] = seen[r] /\
            \/ Written(r)' = Written(r) /\ entries'[r] = entries[r] /\ target'[r] = target[r] /\ pc'[r] = pc[r]
            \/ Written(r)' = {} /\ entries'[r] = {} /\ pc'[r] \notin {"away", "idle"}
  PROVE  EvidenceSound'
  <1>1. \A b \in Beliefs : Erasing(b) => Erasing(b)'
    BY DEF DeletesRest, Erasing
  <1>2. ASSUME NEW r \in Ingests PROVE IngestExplains(r)'
    <2>1. CASE Written(r)' = {} /\ entries'[r] = {} /\ pc'[r] \notin {"away", "idle"}
      BY <2>1 DEF IngestExplains
    <2>2. CASE Written(r)' = Written(r) /\ entries'[r] = entries[r] /\ target'[r] = target[r] /\ pc'[r] = pc[r]
      BY <2>2 DEF EvidenceSound, IngestExplains, LastOf
    <2> QED BY <2>1, <2>2
  <1> QED BY <1>1, <1>2 DEF EvidenceSound, DeletesRest

\* A step of r that leaves the graph alone.
LEMMA EvidenceLocal ==
  ASSUME MemorySound, EvidenceSound, NEW r \in Requests, \A q \in Requests \ {r} : Same(q),
         UNCHANGED <<status, nodes, explained, dark>>,
         r \in Deleters => \/ /\ pc[r] = "row" /\ pc'[r] \in {"row", "done", "failed"}
                              /\ target'[r] = target[r]
                           \/ pc[r] = "idle" /\ pc'[r] = "failed",
         r \in Ingests => seen'[r] = seen[r] /\ Written(r)' = {} /\ entries'[r] = {} /\ pc'[r] \notin {"away", "idle"}
  PROVE  EvidenceSound'
  <1>1. DeletesRest
    BY DEF DeletesRest, Same, Requests
  <1>2. \A q \in Ingests : seen'[q] = seen[q] /\
            \/ Written(q)' = Written(q) /\ entries'[q] = entries[q] /\ target'[q] = target[q] /\ pc'[q] = pc[q]
            \/ Written(q)' = {} /\ entries'[q] = {} /\ pc'[q] \notin {"away", "idle"}
    BY DEF Same, Written, Requests
  <1>3. \A b \in Beliefs : Exists(b)' => Exists(b)
    BY DEF Exists
  <1> QED BY <1>1, <1>2, <1>3, EvidenceFrame

LEMMA EvidenceListed ==
  ASSUME MemorySound, EvidenceSound, NEW r \in Ingests, ListBeliefs(r)
  PROVE  EvidenceSound'
  <1>1. /\ \A q \in Requests \ {r} : Same(q)
        /\ pc'[r] = "resolve" /\ seen[r] = {}
        /\ staged'[r] = staged[r] /\ entries'[r] = entries[r] /\ target'[r] = target[r]
        /\ UNCHANGED <<status, nodes, explained, dark>> /\ target' = target
    BY DEF ListBeliefs, Goto, MemorySound, Same, Requests, db, graph, EvidenceSound, IngestExplains
  <1>2. staged[r] = <<>> /\ entries[r] = {} /\ r \notin Deleters
    BY KindsAreApart DEF MemorySound, RequestSound, InFlight, ListBeliefs, Requests
  <1>3. Written(r)' = {}
    BY <1>1, <1>2, EmptyFunction DEF Written
  <1>4. DeletesRest
    BY <1>1, <1>2 DEF DeletesRest, Same, Requests
  <1>5. \A b \in Beliefs : (Erasing(b) => Erasing(b)') /\ (Exists(b)' <=> Exists(b))
    BY <1>1, <1>4 DEF DeletesRest, Erasing, Exists
  <1>6. ASSUME NEW q \in Ingests PROVE IngestExplains(q)' /\ seen[q] \subseteq seen'[q]
    <2>1. CASE q = r
      BY <1>1, <1>2, <1>3, <2>1 DEF IngestExplains
    <2>2. CASE q # r
      <3>1. Same(q)
        BY <1>1, <2>2 DEF Requests
      <3> QED BY <1>1, <3>1, ExplainsStays DEF EvidenceSound
    <2> QED BY <2>1, <2>2
  <1> QED BY <1>1, <1>4, <1>5, <1>6 DEF EvidenceSound, DeletesRest

LEMMA EvidenceResolved ==
  ASSUME MemorySound, EvidenceSound, NEW r \in Ingests, Resolve(r)
  PROVE  EvidenceSound'
  <1> DEFINE b == NewOf(r)
  <1>1. /\ \A q \in Requests \ {r} : Same(q)
        /\ staged'[r] = Put(staged[r], b, "active") /\ seen'[r] = seen[r] \cup {b}
        /\ UNCHANGED <<status, nodes, explained, dark>>
    BY DEF Resolve, Goto, MemorySound, Same, Requests, db, graph, past
  <1>2. InsertsInOrder(r) /\ r \notin Deleters
    BY KindsAreApart DEF MemorySound, RequestSound, Requests
  <1>3. /\ b \in OwnOf(r) /\ b \in Beliefs \ Old /\ b \notin Written(r) /\ b[1] = r
        /\ Written(r) \cup {b} \in {{<<r, 1>>}, {<<r, 1>>, <<r, 2>>}}
    BY <1>2, NextInsert DEF Resolve
  <1>4. DOMAIN staged'[r] = DOMAIN staged[r] \cup {b}
    <2> HIDE DEF b
    <2> QED BY <1>1 DEF Put
  <1>5. Written(r)' = Written(r) \cup {b}
    BY <1>3, <1>4 DEF Written
  <1>6. LastOf(r)' = b
    <2>1. CASE Written(r) = {}
      <3>1. b = <<r, 1>>
        BY <2>1, FS_EmptySet DEF NewOf
      <3>2. Written(r)' = {<<r, 1>>}
        BY <1>5, <2>1, <3>1
      <3> QED BY <3>1, <3>2, InsertCounts DEF LastOf
    <2>2. CASE Written(r) = {<<r, 1>>}
      <3>0. Cardinality(Written(r)) = 1
        BY <2>2, InsertCounts
      <3>1. b = <<r, 2>>
        BY <3>0 DEF NewOf
      <3>2. Written(r)' = {<<r, 1>>, <<r, 2>>}
        BY <1>5, <2>2, <3>1
      <3> QED BY <3>1, <3>2, InsertCounts DEF LastOf
    <2> QED BY <1>2, <2>1, <2>2 DEF InsertsInOrder, Resolve
  <1>7. /\ pc'[r] \in {"retire", "prove"}
        /\ \/ entries'[r] = entries[r] /\ target'[r] = target[r]
           \/ target'[r] \in seen[r]
    <2>1. CASE seen[r] = {}
      BY <2>1, <1>1 DEF Resolve, Goto, MemorySound, Requests
    <2>2. CASE seen[r] # {}
      BY <2>2, <1>1 DEF Resolve, Goto, MemorySound, Requests
    <2> QED BY <2>1, <2>2
  <1>8. \A x \in Written(r) : x \in explained \cup dark
    BY DEF EvidenceSound, IngestExplains, Resolve
  <1>9. IngestExplains(r)'
    <2>1. IngestExplains(r)
      BY DEF EvidenceSound
    <2>2. Written(r)' \subseteq seen'[r]
      BY <1>1, <1>5, <2>1 DEF IngestExplains
    <2>3. entries'[r] # {} => target'[r] \in seen'[r]
      BY <1>1, <1>7, <2>1 DEF IngestExplains
    <2> HIDE DEF b
    <2>4. \A x \in Written(r)' : x \in explained' \cup dark' \/ x = LastOf(r)'
      BY <1>1, <1>5, <1>6, <1>8
    <2> QED BY <1>7, <2>2, <2>3, <2>4 DEF IngestExplains
  <1>10. DeletesRest
    BY <1>1, <1>2 DEF DeletesRest, Same, Requests
  <1>11. \A x \in Beliefs : (Erasing(x) => Erasing(x)') /\ (Exists(x)' <=> Exists(x))
    BY <1>1, <1>10 DEF DeletesRest, Erasing, Exists
  <1>12. ASSUME NEW q \in Ingests PROVE IngestExplains(q)' /\ seen[q] \subseteq seen'[q]
    <2>1. CASE q = r
      BY <1>1, <1>9, <2>1
    <2>2. CASE q # r
      <3>1. Same(q)
        BY <1>1, <2>2 DEF Requests
      <3> QED BY <1>1, <3>1, ExplainsStays DEF EvidenceSound
    <2> QED BY <2>1, <2>2
  <1> QED BY <1>1, <1>10, <1>11, <1>12 DEF EvidenceSound, DeletesRest

LEMMA EvidenceRetired ==
  ASSUME MemorySound, EvidenceSound, NEW r \in Ingests, Retire(r)
  PROVE  EvidenceSound'
  <1> DEFINE e == target[r]
  <1>1. /\ \A q \in Requests \ {r} : Same(q)
        /\ staged'[r] = IF status[e] = "gone" THEN staged[r] ELSE Put(staged[r], e, "tombstoned")
        /\ pc'[r] = "prove" /\ pc[r] = "retire" /\ UNCHANGED <<status, nodes, explained, dark>>
        /\ seen' = seen /\ target' = target /\ entries' = entries
    BY DEF Retire, Goto, MemorySound, Same, Requests, StatusOfRetired, db, graph, past
  <1>2. RequestSound(r) /\ e \in Known(r) /\ r \notin Deleters
    BY <1>1, KindsAreApart DEF MemorySound, RequestSound, InFlight, Requests
  <1>3. DOMAIN staged[r] \subseteq DOMAIN staged'[r] /\ DOMAIN staged'[r] \subseteq DOMAIN staged[r] \cup {e}
    <2> HIDE DEF e
    <2> QED BY <1>1 DEF Put
  <1>4. Written(r)' = Written(r)
    <2>1. e \in DOMAIN staged'[r] \ DOMAIN staged[r] => e \in Beliefs \ OwnOf(r)
      BY <1>1, <1>2 DEF RequestSound, Known, Born
    <2>2. \A x \in Beliefs \ Old : x[1] = r => x \in OwnOf(r)
      BY DEF Beliefs, OwnOf
    <2> QED BY <1>3, <2>1, <2>2 DEF Written
  <1>5. DeletesRest
    BY <1>1, <1>2 DEF DeletesRest, Same, Requests
  <1>6. \A x \in Beliefs : (Erasing(x) => Erasing(x)') /\ (Exists(x)' <=> Exists(x))
    BY <1>1, <1>5 DEF DeletesRest, Erasing, Exists
  <1>7. ASSUME NEW q \in Ingests PROVE IngestExplains(q)'
    <2>1. CASE q = r
      BY <1>1, <1>4, <2>1 DEF EvidenceSound, IngestExplains, LastOf
    <2>2. CASE q # r
      <3>1. Same(q)
        BY <1>1, <2>2 DEF Requests
      <3> QED BY <1>1, <3>1, ExplainsStays DEF EvidenceSound
    <2> QED BY <2>1, <2>2
  <1> QED BY <1>1, <1>5, <1>6, <1>7 DEF EvidenceSound, DeletesRest

LEMMA EvidenceProved ==
  ASSUME MemorySound, EvidenceSound, NEW r \in Ingests, Prove(r)
  PROVE  EvidenceSound'
  <1> DEFINE b == LastOf(r)
             named == {b} \cup (IF entries[r] # {} THEN {target[r]} ELSE {})
  <1>1. /\ \A q \in Requests \ {r} : Same(q)
        /\ pc'[r] \in {"resolve", "commit"} /\ pc[r] = "prove" /\ status' = status
        /\ seen' = seen /\ target' = target /\ entries' = entries /\ staged' = staged
    BY DEF Prove, Goto, MemorySound, Same, Requests, tx, db
  <1>2. InsertsInOrder(r) /\ Written(r) # {} /\ r \notin Deleters
    BY <1>1, KindsAreApart DEF MemorySound, RequestSound, InsertsInOrder, Requests
  <1>3. b \in Written(r)
    BY <1>2, LastInsert
  <1>4. IngestExplains(r)
    BY DEF EvidenceSound
  <1>5. named \subseteq seen[r]
    BY <1>3, <1>4 DEF IngestExplains
  <1>6. PICK W \in {named, {}} : \E ok \in BOOLEAN :
          /\ ok => b \in W
          /\ nodes' = nodes \cup W /\ explained' = IF ok THEN explained \cup {b} ELSE explained
          /\ dark' = IF ok THEN dark ELSE dark \cup {b}
    BY DEF Prove
  <1>7. nodes' \subseteq nodes \cup seen[r] /\ explained \subseteq explained' /\ dark \subseteq dark'
        /\ b \in explained' \cup dark'
    <2> HIDE DEF b, named
    <2> QED BY <1>5, <1>6
  <1>8. \A q \in Ingests : Written(q)' = Written(q)
    BY <1>1 DEF Written
  <1>9. IngestExplains(r)'
    BY <1>1, <1>4, <1>7, <1>8 DEF IngestExplains
  <1>10. DeletesRest
    BY <1>1, <1>2 DEF DeletesRest, Same, Requests
  <1>11. \A x \in Beliefs : (Erasing(x) => Erasing(x)') /\ (Exists(x)' <=> Exists(x))
    BY <1>1, <1>10 DEF DeletesRest, Erasing, Exists
  <1>12. ASSUME NEW q \in Ingests PROVE IngestExplains(q)'
    <2>1. CASE q # r
      <3>1. Same(q)
        BY <1>1, <2>1 DEF Requests
      <3> QED BY <1>7, <3>1, ExplainsStays DEF EvidenceSound
    <2> QED BY <1>9, <2>1
  <1> QED BY <1>1, <1>7, <1>10, <1>11, <1>12 DEF EvidenceSound, DeletesRest

LEMMA EvidenceCommitted ==
  ASSUME MemorySound, EvidenceSound, NEW r \in Requests, Commit(r)
  PROVE  EvidenceSound'
  <1>1. /\ \A q \in Requests \ {r} : Same(q)
        /\ pc[r] = "commit" /\ pc'[r] = "done" /\ staged'[r] = <<>> /\ entries'[r] = {}
        /\ target' = target /\ seen' = seen /\ UNCHANGED <<nodes, explained, dark>>
    BY DEF Commit, Forget, Goto, MemorySound, Same, graph
  <1>2. RequestSound(r) /\ r \notin Deleters
    BY <1>1, KindsAreApart DEF MemorySound, RequestSound, Places
  <1>3. DeletesRest
    BY <1>1, <1>2 DEF DeletesRest, Same, Requests
  <1>4. \A b \in Beliefs : Erasing(b) => Erasing(b)'
    BY <1>3 DEF DeletesRest, Erasing
  <1>5. ASSUME NEW q \in Ingests PROVE IngestExplains(q)'
    <2>1. CASE q = r
      <3>1. Written(r)' = {}
        BY <1>1, EmptyFunction DEF Written
      <3> QED BY <1>1, <2>1, <3>1 DEF IngestExplains
    <2>2. CASE q # r
      <3>1. Same(q)
        BY <1>1, <2>2 DEF Requests
      <3> QED BY <1>1, <3>1, ExplainsStays DEF EvidenceSound
    <2> QED BY <2>1, <2>2
  <1>6. ASSUME NEW b \in Beliefs, Exists(b)' PROVE b \in explained' \cup dark' \/ Erasing(b)'
    <2>1. CASE b \in DOMAIN staged[r] /\ ~Exists(b)
      <3>1. b \in OwnOf(r) /\ r \in Ingests
        BY <1>2, <2>1 DEF RequestSound, StagedSound, OwnOf
      <3>2. b \in Written(r)
        BY <2>1, <3>1, NewIsNotOld DEF OwnOf, Written
      <3> QED BY <1>1, <3>1, <3>2 DEF EvidenceSound, IngestExplains
    <2>2. CASE Exists(b)
      BY <1>1, <1>4, <2>2 DEF EvidenceSound
    <2>3. b \notin DOMAIN staged[r] => status'[b] = status[b]
      BY DEF Commit, Overlay, MemorySound
    <2> QED BY <1>6, <2>1, <2>2, <2>3 DEF Exists
  <1> QED BY <1>1, <1>3, <1>5, <1>6 DEF EvidenceSound, DeletesRest

LEMMA EvidenceErased ==
  ASSUME MemorySound, EvidenceSound, NEW d \in Deleters, NEW b \in Born, CascadeOf(d, b)
  PROVE  EvidenceSound'
  <1>1. /\ \A q \in Requests \ {d} : Same(q)
        /\ pc[d] = "idle" /\ pc'[d] = "row" /\ target'[d] = b /\ d \notin Ingests
        /\ nodes' = nodes \ {b} /\ explained' = explained \ {b} /\ dark' = dark
        /\ seen' = seen /\ status' = status
    BY KindsAreApart DEF CascadeOf, Goto, MemorySound, Same, Requests, Erased, db, past
  <1>2. ASSUME NEW q \in Ingests PROVE IngestExplains(q)'
    <2>1. Same(q) /\ IngestExplains(q)
      BY <1>1 DEF Requests, EvidenceSound
    <2>2. Written(q)' = Written(q) /\ LastOf(q)' = LastOf(q)
      BY <2>1 DEF Same, Written, LastOf
    <2>3. b \notin Written(q)
      <3>1. CASE pc[q] = "done"
        BY <2>1, <3>1, EmptyFunction DEF MemorySound, RequestSound, InFlight, Written, Requests
      <3>2. CASE pc[q] # "done"
        <4>1. OwnOf(q) \cap Born = {}
          BY <3>2 DEF MemorySound, RequestSound, Requests
        <4>2. \A x \in Beliefs \ Old : x[1] = q => x \in OwnOf(q)
          BY DEF Beliefs, OwnOf
        <4> QED BY <4>1, <4>2 DEF Written, Born
      <3> QED BY <3>1, <3>2
    <2> QED BY <1>1, <2>1, <2>2, <2>3 DEF Same, IngestExplains
  <1>3. \A x \in Beliefs : Erasing(x) => Erasing(x)'
    BY <1>1 DEF Erasing, Same, Requests
  <1>4. Erasing(b)'
    BY <1>1 DEF Erasing
  <1>5. \A x \in Beliefs : Exists(x)' => x \in explained' \cup dark' \/ Erasing(x)'
    BY <1>1, <1>3, <1>4 DEF EvidenceSound, Exists
  <1>6. \A q \in Deleters : pc'[q] \in {"row", "done"} /\ target'[q] \in nodes' =>
          \E r \in Ingests : target'[q] \in seen'[r]
    BY <1>1 DEF EvidenceSound, Same, Requests
  <1> QED BY <1>2, <1>5, <1>6 DEF EvidenceSound

\* Steps that change nothing evidence speaks of.
LEMMA EvidenceRests ==
  ASSUME EvidenceSound, UNCHANGED <<status, nodes, explained, pc, tx, dark>>
  PROVE  EvidenceSound'
  <1>1. DeletesRest /\ \A r : Written(r)' = Written(r)
    BY DEF DeletesRest, Written, tx
  <1>2. \A b \in Beliefs : Exists(b)' => Exists(b)
    BY DEF Exists
  <1> QED BY <1>1, <1>2, EvidenceFrame DEF tx

LEMMA EvidenceStep ==
  ASSUME MemorySound, EvidenceSound, NEW r \in Requests, Step(r) \/ Fail(r) \/ DeadlockVictim(r)
  PROVE  EvidenceSound'
  <1>1. RequestSound(r)
    BY DEF MemorySound
  <1>2. CASE r \in Ingests /\ IngestStep(r)
    BY <1>2, EvidenceResolved, EvidenceRetired, EvidenceProved DEF IngestStep
  <1>3. CASE r \in Retrievers /\ RetrieveStep(r)
    <2>1. UNCHANGED <<status, nodes, explained, dark>> /\ \A q \in Requests \ {r} : Same(q)
      BY <1>3 DEF RetrieveStep, Reinforce, Reinforced, Goto, db, tx, graph, past, MemorySound, Same
    <2>2. r \notin Ingests /\ r \notin Deleters
      BY <1>3, KindsAreApart
    <2> QED BY <2>1, <2>2, EvidenceLocal
  <1>4. CASE Fail(r) \/ DeadlockVictim(r)
    <2>1. InFlight(r) /\ Forget(r) /\ Goto(r, "failed") /\ UNCHANGED <<db, graph, past>>
      BY <1>4 DEF Fail, DeadlockVictim, Deadlocked
    <2>2. /\ UNCHANGED <<status, nodes, explained, dark>> /\ \A q \in Requests \ {r} : Same(q)
          /\ pc'[r] = "failed" /\ staged'[r] = <<>> /\ entries'[r] = {}
          /\ seen' = seen /\ target' = target
      BY <2>1 DEF Forget, Goto, db, graph, past, MemorySound, Same
    <2>3. Written(r)' = {}
      BY <2>2, EmptyFunction DEF Written
    <2>4. r \in Deleters => pc[r] = "row"
      BY <1>1, <2>1, KindsAreApart DEF RequestSound, Places, InFlight
    <2> QED BY <2>2, <2>3, <2>4, EvidenceLocal
  <1>5. CASE r \in Consolidators /\ PassStep(r)
    <2>1. CASE Fail(r)
      BY <1>4, <2>1
    <2>2. CASE ReadWeak(r) \/ ReadTombstones(r) \/ FlushRow(r) \/ EndPasses(r)
      <3>1. UNCHANGED <<status, nodes, explained, dark>> /\ \A q \in Requests \ {r} : Same(q)
        BY <2>2 DEF ReadWeak, ReadTombstones, FlushRow, EndPasses, Goto, db, tx, graph, past, MemorySound, Same
      <3>2. r \notin Ingests /\ r \notin Deleters
        BY <1>5, KindsAreApart
      <3> QED BY <3>1, <3>2, EvidenceLocal
    <2> QED BY <1>5, <2>1, <2>2 DEF PassStep
  <1>6. CASE r \in Deleters /\ DeleteRow(r)
    <2>1. /\ UNCHANGED <<nodes, explained, dark, seen, entries, staged>> /\ target' = target
          /\ pc[r] = "row" /\ pc'[r] = "done" /\ \A q \in Requests \ {r} : pc'[q] = pc[q]
      BY <1>6 DEF DeleteRow, Goto, graph, tx, past, MemorySound
    <2>2. \A b \in Beliefs : Exists(b)' => Exists(b)
      <3>1. target[r] \in Beliefs
        BY <1>1, <1>6, <2>1 DEF RequestSound, Born
      <3> QED BY <1>6, <3>1 DEF DeleteRow, Exists, MemorySound
    <2>3. DeletesRest /\ \A q \in Ingests : Written(q)' = Written(q) /\ pc'[q] = pc[q]
      BY <1>6, <2>1, KindsAreApart DEF DeletesRest, Written, Requests
    <2> QED BY <2>1, <2>2, <2>3, EvidenceFrame
  <1>7. CASE Commit(r)
    BY <1>7, EvidenceCommitted
  <1> QED BY <1>2, <1>3, <1>4, <1>5, <1>6, <1>7 DEF Step

LEMMA EvidenceNext == Inv /\ EvidenceSound /\ [Next]_vars => EvidenceSound'
  <1> SUFFICES ASSUME Inv, EvidenceSound, [Next]_vars PROVE EvidenceSound'
    OBVIOUS
  <1>0. MemorySound
    BY DEF Inv
  <1>1. CASE MemoryNext
    <2>1. ASSUME NEW r \in Retrievers \cup Consolidators,
                 (r \in Retrievers /\ Search(r)) \/ (r \in Consolidators /\ ReadSure(r)) PROVE EvidenceSound'
      <3>1. UNCHANGED <<status, nodes, explained, dark>> /\ \A q \in Requests \ {r} : Same(q)
        BY <1>0, <2>1 DEF Search, ReadSure, Goto, db, graph, MemorySound, Same
      <3>2. r \notin Ingests /\ r \notin Deleters /\ r \in Requests
        BY KindsAreApart DEF Requests
      <3> QED BY <1>0, <3>1, <3>2, EvidenceLocal
    <2>2. ASSUME NEW b \in Beliefs, Decay(b) PROVE EvidenceSound'
      BY <2>2, EvidenceRests DEF Decay, graph, past
    <2> QED BY <1>0, <1>1, <2>1, <2>2, EvidenceListed, EvidenceStep DEF MemoryNext
  <1>2. ASSUME NEW d \in Deleters, NEW b \in Born, CascadeOf(d, b) PROVE EvidenceSound'
    BY <1>0, <1>2, EvidenceErased
  <1>3. ASSUME NEW d \in Deleters, CascadeFails(d) PROVE EvidenceSound'
    <2>1. /\ UNCHANGED <<status, nodes, explained, dark>> /\ pc[d] = "idle" /\ pc'[d] = "failed"
          /\ \A q \in Requests \ {d} : Same(q)
      BY <1>0, <1>3 DEF CascadeFails, Goto, MemorySound, Domains, Same, Requests, db, graph, tx, past
    <2>2. d \notin Ingests /\ d \in Requests
      BY KindsAreApart DEF Requests
    <2> QED BY <1>0, <2>1, <2>2, EvidenceLocal
  <1>4. ASSUME NEW d \in Deleters, Cascade(d) PROVE EvidenceSound'
    BY <1>2, <1>4 DEF Cascade, Exists, Born
  <1>5. ASSUME NEW S, Recalls(S) PROVE EvidenceSound'
    BY <1>5, EvidenceRests DEF Recalls, graph
  <1>6. CASE UNCHANGED memory
    BY <1>6, EvidenceRests DEF memory, db, graph, past
  <1>7. ASSUME NEW v \in Viewers, Sync(v) \/ ViewStep(v) PROVE EvidenceSound'
    BY <1>5, <1>6, <1>7 DEF Sync, ViewStep, Join, SaveCards
  <1>8. ASSUME NEW p \in Resolvers, CallDelete(p) PROVE EvidenceSound'
    <2>1. CASE CascadeFails(p)
      BY <1>3, <2>1, ResolversDelete
    <2>2. CASE CascadeOf(p, Loser(p))
      <3>1. Engaged(p) /\ ResolverSound(p)
        BY <1>8 DEF CallDelete, Engaged, Inv, CardsSound
      <3>2. pick[p].card \in Disputed
        BY <3>1 DEF ResolverSound, Inv, CardsSound
      <3>3. Loser(p) \in Born
        BY <1>0, <3>1, <3>2, CardSides DEF Loser
      <3> QED BY <1>2, <2>2, <3>3, ResolversDelete
    <2> QED BY <1>8, <2>1, <2>2 DEF CallDelete
  <1>9. ASSUME NEW p \in Resolvers, ReadCard(p) \/ ResolveStep(p) PROVE EvidenceSound'
    BY <1>5, <1>6, <1>8, <1>9 DEF ReadCard, ResolveStep, Answer, ReinforceWinner, SaveDecision
  <1> QED BY <1>1, <1>3, <1>4, <1>6, <1>7, <1>9 DEF Next, CardFails, WindowPasses, Quiet, vars

LEMMA EvidenceInit == CardsInit => EvidenceSound
  <1> SUFFICES ASSUME CardsInit PROVE EvidenceSound
    OBVIOUS
  <1>1. PICK cast \in Casts : InitWith(cast)
    BY DEF CardsInit
  <1>2. \A b \in Beliefs : Exists(b) => b \in explained
    BY <1>1 DEF InitWith, Exists
  <1>3. ASSUME NEW r \in Ingests PROVE IngestExplains(r)
    <2>1. seen[r] = {} /\ entries[r] = {} /\ staged[r] = <<>>
      BY <1>1 DEF InitWith, Requests
    <2>2. Written(r) = {}
      BY <2>1, EmptyFunction DEF Written
    <2> QED BY <2>1, <2>2 DEF IngestExplains
  <1>4. \A d \in Deleters : pc[d] \in {"idle", "away"}
    BY <1>1 DEF InitWith, Requests
  <1> QED BY <1>2, <1>3, <1>4 DEF EvidenceSound

\* Evidence stays with the belief it is evidence of (provenance.py), whatever
\* rolls back, and an erased node only comes back through an ingest that had
\* listed the belief.
THEOREM EvidenceStaysTrue == Spec => []EvidenceFollows
  <1>1. EvidenceSound => EvidenceFollows
    <2> SUFFICES ASSUME EvidenceSound PROVE EvidenceFollows
      OBVIOUS
    <2>1. Explained
      BY DEF EvidenceSound, Erasing, Explained, Live, Exists
    <2>2. ErasedStaysErased
      BY DEF EvidenceSound, ErasedStaysErased
    <2> QED BY <2>1, <2>2 DEF EvidenceFollows
  <1>2. CardsInit => Inv /\ EvidenceSound
    BY InvInit, EvidenceInit
  <1>3. (Inv /\ EvidenceSound) /\ [Next]_vars => (Inv /\ EvidenceSound)'
    BY InvNext, EvidenceNext
  <1> QED BY <1>1, <1>2, <1>3, PTL DEF Spec

-----------------------------------------------------------------------------
(* The log of resolutions.                                                  *)

\* E has a decisive entry about b.
Superseded(E, b) == \E e \in E : e.a = b /\ e.resolution \in Decisive

\* What r has staged is what its entries say, and the other way round.
RequestLogged(r) ==
  /\ r \notin Ingests => entries[r] = {}
  /\ \A b \in DOMAIN staged[r] :
       /\ staged[r][b] = "active" => b \in OwnOf(r)
       /\ staged[r][b] = "crystallized" => r \in Consolidators
       /\ staged[r][b] = "tombstoned" =>
            r \in Ingests \cup Consolidators /\ (b \in swept \/ Superseded(entries[r], b))
  /\ pc[r] = "retire" => Superseded(entries[r], target[r])
  /\ \A e \in entries[r] : e.resolution \in Decisive =>
       \/ pc[r] = "retire" /\ e.a = target[r]
       \/ e.a \in DOMAIN staged[r] /\ staged[r][e.a] = "tombstoned"
       \/ status[e.a] = "gone"

\* A pass crystallizes nothing that is retired.
PassSound(c) ==
  /\ pc[c] = "crystallize" => \A i \in 1..Len(todo[c]) : status[todo[c][i]] # "tombstoned"
  /\ \A b \in DOMAIN staged[c] : staged[c][b] = "crystallized" => status[b] # "tombstoned"

Writers == Ingests \cup Consolidators
PassesAlone ==
  \A c \in Consolidators : \A q \in Writers \ {c} : InFlight(c) => ~InFlight(q)

\* Undisturbed, what is logged as retired stays retired.
Undisturbed ==
  /\ PassesAlone
  /\ \A c \in Consolidators : PassSound(c)
  /\ \A e \in log : e.resolution \in Decisive => ~Live(e.a)

LogSound ==
  /\ \A b \in Beliefs : status[b] = "tombstoned" => b \in swept \/ Superseded(log, b)
  /\ \A r \in Requests : RequestLogged(r)
  /\ "pass" \notin overlap => Undisturbed

\* A step of r that commits nothing.
LEMMA LogLocal ==
  ASSUME LogSound, NEW r \in Requests, UNCHANGED <<status, log>>,
         \A q \in Requests \ {r} : Same(q),
         swept \subseteq swept', overlap \subseteq overlap',
         RequestLogged(r)',
         "pass" \notin overlap' =>
           /\ r \in Consolidators => PassSound(r)'
           /\ InFlight(r)' /\ ~InFlight(r) /\ r \in Writers =>
                \A q \in Writers \ {r} : InFlight(q) => q \notin Consolidators /\ r \notin Consolidators
  PROVE  LogSound'
  <1>1. ASSUME NEW q \in Requests PROVE RequestLogged(q)'
    BY DEF LogSound, RequestLogged, Same
  <1>2. ASSUME "pass" \notin overlap' PROVE Undisturbed'
    <2>1. Undisturbed
      BY <1>2 DEF LogSound
    <2>2. ASSUME NEW c \in Consolidators PROVE PassSound(c)'
      <3>1. CASE c # r
        <4>1. Same(c) /\ PassSound(c)
          BY <2>1, <3>1 DEF Undisturbed, Requests
        <4> QED BY <4>1 DEF Same, PassSound
      <3> QED BY <1>2, <3>1
    <2>3. PassesAlone'
      <3>1. \A q \in Writers \ {r} : InFlight(q)' <=> InFlight(q)
        BY DEF InFlight, Same, Writers, Requests
      <3>2. Consolidators \subseteq Writers
        BY DEF Writers
      <3> QED BY <1>2, <2>1, <3>1, <3>2 DEF Undisturbed, PassesAlone
    <2>4. \A e \in log' : e.resolution \in Decisive => ~Live(e.a)'
      BY <2>1 DEF Undisturbed, Live
    <2> QED BY <2>2, <2>3, <2>4 DEF Undisturbed
  <1> QED BY <1>1, <1>2 DEF LogSound

\* Steps that write nothing, or roll back.
LEMMA LogMoves ==
  ASSUME LogSound, NEW r \in Requests, UNCHANGED <<status, log, swept, overlap>>,
         \A q \in Requests \ {r} : Same(q),
         \/ staged'[r] = staged[r] /\ entries'[r] = entries[r]
         \/ staged'[r] = <<>> /\ entries'[r] = {},
         pc[r] # "retire" \/ entries'[r] = {}, pc'[r] \notin {"retire", "crystallize"},
         InFlight(r) \/ r \notin Writers \/ ~InFlight(r)'
  PROVE  LogSound'
  <1>1. RequestLogged(r)'
    <2>1. RequestLogged(r)
      BY DEF LogSound
    <2>2. CASE staged'[r] = staged[r] /\ entries'[r] = entries[r]
      BY <2>1, <2>2 DEF RequestLogged
    <2>3. CASE staged'[r] = <<>> /\ entries'[r] = {}
      BY <2>3, EmptyFunction DEF RequestLogged
    <2> QED BY <2>2, <2>3
  <1>2. "pass" \notin overlap' => (r \in Consolidators => PassSound(r)')
    BY EmptyFunction DEF LogSound, Undisturbed, PassSound
  <1> QED BY <1>1, <1>2, LogLocal

\* Meets notes every overlap with a pass.
LEMMA MeetsNotes ==
  ASSUME NEW r \in Writers, Meets(r), "pass" \notin overlap'
  PROVE  /\ overlap \subseteq overlap'
         /\ \A q \in Writers \ {r} : InFlight(q) => q \notin Consolidators /\ r \notin Consolidators
  <1>1. Writers \subseteq Requests
    BY DEF Writers, Requests
  <1> QED BY <1>1 DEF Meets, Writers

LEMMA LogBegun ==
  ASSUME MemorySound, LogSound, NEW r \in Writers,
         (r \in Ingests /\ ListBeliefs(r)) \/ (r \in Consolidators /\ ReadSure(r))
  PROVE  LogSound'
  <1>1. /\ r \in Requests /\ \A q \in Requests \ {r} : Same(q)
        /\ UNCHANGED <<status, log, swept>> /\ Meets(r)
        /\ pc[r] = "idle" /\ pc'[r] \in {"resolve", "crystallize"}
        /\ staged'[r] = staged[r] /\ entries'[r] = entries[r]
    BY DEF ListBeliefs, ReadSure, Goto, MemorySound, Same, Writers, Requests, db, graph
  <1>2. staged[r] = <<>> /\ entries[r] = {}
    BY <1>1 DEF MemorySound, RequestSound, InFlight
  <1>3. RequestLogged(r)'
    BY <1>1, <1>2, EmptyFunction DEF RequestLogged
  <1>4. r \in Consolidators => PassSound(r)'
    <2> SUFFICES ASSUME r \in Consolidators PROVE PassSound(r)'
      OBVIOUS
    <2>1. ReadSure(r)
      BY KindsAreApart
    <2> DEFINE S == {b \in Sure : status[b] = "active"}
    <2>2. PICK s \in SetToSeqs(S) : todo' = [todo EXCEPT ![r] = s]
      BY <2>1 DEF ReadSure
    <2>3. s \in Seq(S) /\ todo'[r] = s
      <3>1. S \in SUBSET Beliefs
        BY SureAreBeliefs
      <3> HIDE DEF S
      <3> QED BY <1>1, <2>2, <3>1, OrdersList DEF MemorySound
    <2>4. \A i \in 1..Len(s) : s[i] \in S
      <3> HIDE DEF S
      <3> QED BY <2>3
    <2> QED BY <1>1, <1>2, <2>3, <2>4, EmptyFunction DEF PassSound
  <1>5. overlap \subseteq overlap'
    BY <1>1 DEF Meets
  <1> QED BY <1>1, <1>3, <1>4, <1>5, MeetsNotes, LogLocal

LEMMA LogResolved ==
  ASSUME MemorySound, LogSound, NEW r \in Ingests, Resolve(r)
  PROVE  LogSound'
  <1> DEFINE b == NewOf(r)
  <1>1. /\ r \in Requests /\ \A q \in Requests \ {r} : Same(q)
        /\ UNCHANGED <<status, log, swept, overlap>> /\ pc[r] = "resolve"
        /\ staged'[r] = Put(staged[r], b, "active")
    BY DEF Resolve, Goto, MemorySound, Same, Requests, db, graph, past
  <1>2. RequestSound(r) /\ RequestLogged(r)
    BY <1>1 DEF MemorySound, LogSound
  <1>3. b \in OwnOf(r) /\ b \notin Written(r) /\ b \in Beliefs \ Old /\ b[1] = r
    BY <1>1, <1>2, NextInsert DEF RequestSound
  <1>4. b \notin Known(r)
    BY <1>1, <1>2, <1>3 DEF Known, RequestSound, Written
  <1>5. /\ DOMAIN staged'[r] = DOMAIN staged[r] \cup {b} /\ staged'[r][b] = "active"
        /\ \A x \in DOMAIN staged[r] : staged'[r][x] = staged[r][x]
    <2>1. b \notin DOMAIN staged[r]
      BY <1>4 DEF Known
    <2> HIDE DEF b
    <2> QED BY <1>1, <2>1 DEF Put
  <1>6. \/ entries'[r] = entries[r] /\ pc'[r] = "prove"
        \/ \E d : \E e \in seen[r] :
             /\ entries'[r] = entries[r] \cup {[a |-> e, b |-> b, resolution |-> d]}
             /\ target'[r] = e /\ pc'[r] = IF d \in Decisive THEN "retire" ELSE "prove"
    <2>1. CASE seen[r] = {}
      BY <1>1, <2>1 DEF Resolve, Goto, MemorySound
    <2>2. CASE seen[r] # {}
      BY <1>1, <2>2 DEF Resolve, Goto, MemorySound, Entry
    <2> QED BY <2>1, <2>2
  <1>7. RequestLogged(r)'
    <2>1. \A x \in DOMAIN staged'[r] :
            /\ staged'[r][x] = "active" => x \in OwnOf(r)
            /\ staged'[r][x] = "crystallized" => r \in Consolidators
            /\ staged'[r][x] = "tombstoned" =>
                 r \in Ingests \cup Consolidators /\ (x \in swept' \/ Superseded(entries'[r], x))
      <3> HIDE DEF b
      <3>1. entries[r] \subseteq entries'[r]
        BY <1>6
      <3> QED BY <1>1, <1>2, <1>3, <1>5, <3>1 DEF RequestLogged, Superseded
    <2>2. ASSUME pc'[r] = "retire" PROVE Superseded(entries'[r], target'[r])
      <3> HIDE DEF b
      <3>1. PICK d : \E e \in seen[r] :
             /\ entries'[r] = entries[r] \cup {[a |-> e, b |-> b, resolution |-> d]}
             /\ target'[r] = e /\ pc'[r] = IF d \in Decisive THEN "retire" ELSE "prove"
        BY <1>6, <2>2
      <3>2. PICK e \in seen[r] :
             /\ entries'[r] = entries[r] \cup {[a |-> e, b |-> b, resolution |-> d]}
             /\ target'[r] = e /\ pc'[r] = IF d \in Decisive THEN "retire" ELSE "prove"
        BY <3>1
      <3>3. d \in Decisive /\ [a |-> e, b |-> b, resolution |-> d] \in entries'[r]
        BY <2>2, <3>2
      <3> DEFINE x == [a |-> e, b |-> b, resolution |-> d]
      <3>4. x.a = target'[r] /\ x.resolution \in Decisive
        BY <3>2, <3>3
      <3> QED BY <3>3, <3>4 DEF Superseded
    <2>3. \A x \in entries'[r] : x.resolution \in Decisive =>
            \/ pc'[r] = "retire" /\ x.a = target'[r]
            \/ x.a \in DOMAIN staged'[r] /\ staged'[r][x.a] = "tombstoned"
            \/ status'[x.a] = "gone"
      <3> HIDE DEF b
      <3>1. \A x \in entries[r] : x.resolution \in Decisive =>
              \/ x.a \in DOMAIN staged'[r] /\ staged'[r][x.a] = "tombstoned"
              \/ status'[x.a] = "gone"
        BY <1>1, <1>2, <1>5 DEF RequestLogged
      <3> QED BY <1>6, <3>1
    <2> QED BY <2>1, <2>2, <2>3 DEF RequestLogged, OwnOf
  <1>8. r \notin Consolidators /\ InFlight(r)
    BY <1>1, KindsAreApart DEF InFlight
  <1> QED BY <1>1, <1>7, <1>8, LogLocal

LEMMA LogRetired ==
  ASSUME MemorySound, LogSound, NEW r \in Ingests, Retire(r)
  PROVE  LogSound'
  <1> DEFINE e == target[r]
  <1>1. /\ r \in Requests /\ \A q \in Requests \ {r} : Same(q)
        /\ UNCHANGED <<status, log, swept, overlap>> /\ pc[r] = "retire" /\ pc'[r] = "prove"
        /\ staged'[r] = IF status[e] = "gone" THEN staged[r] ELSE Put(staged[r], e, "tombstoned")
        /\ entries'[r] = entries[r]
    BY DEF Retire, Goto, MemorySound, Same, Requests, StatusOfRetired, db, graph, past
  <1>2. RequestLogged(r) /\ Superseded(entries[r], e)
    BY <1>1 DEF LogSound, RequestLogged
  <1>3. /\ \A x \in DOMAIN staged[r] : x \in DOMAIN staged'[r] /\ (x # e => staged'[r][x] = staged[r][x])
        /\ \A x \in DOMAIN staged'[r] : x \in DOMAIN staged[r] \/ x = e
        /\ \/ status[e] = "gone" /\ staged'[r] = staged[r]
           \/ e \in DOMAIN staged'[r] /\ staged'[r][e] = "tombstoned"
    <2> HIDE DEF e
    <2> QED BY <1>1 DEF Put
  <1>4. RequestLogged(r)'
    <2> HIDE DEF e
    <2>1. \A x \in DOMAIN staged'[r] :
            /\ staged'[r][x] = "active" => x \in OwnOf(r)
            /\ staged'[r][x] = "crystallized" => r \in Consolidators
            /\ staged'[r][x] = "tombstoned" =>
                 r \in Ingests \cup Consolidators /\ (x \in swept' \/ Superseded(entries'[r], x))
      BY <1>1, <1>2, <1>3 DEF RequestLogged
    <2>2. \A x \in entries'[r] : x.resolution \in Decisive =>
            \/ x.a \in DOMAIN staged'[r] /\ staged'[r][x.a] = "tombstoned"
            \/ status'[x.a] = "gone"
      BY <1>1, <1>2, <1>3 DEF RequestLogged, e
    <2> QED BY <1>1, <2>1, <2>2 DEF RequestLogged, OwnOf
  <1>5. r \notin Consolidators /\ InFlight(r)
    BY <1>1, KindsAreApart DEF InFlight
  <1> QED BY <1>1, <1>4, <1>5, LogLocal

LEMMA LogFlushed ==
  ASSUME MemorySound, LogSound, NEW r \in Consolidators, FlushRow(r)
  PROVE  LogSound'
  <1> DEFINE b == Head(todo[r])
             w == PassWrites(r)
  <1>1. /\ r \in Requests /\ \A q \in Requests \ {r} : Same(q)
        /\ UNCHANGED <<status, log, overlap>> /\ pc'[r] = pc[r]
        /\ pc[r] \in {"crystallize", "sweep", "compact"} /\ todo[r] # <<>> /\ todo'[r] = Tail(todo[r])
        /\ staged'[r] = IF Exists(b) THEN Put(staged[r], b, w) ELSE staged[r]
        /\ entries'[r] = entries[r]
        /\ swept' = IF pc[r] = "sweep" THEN swept \cup {b} ELSE swept
    BY DEF FlushRow, MemorySound, Same, Requests, db, graph
  <1>2. RequestLogged(r) /\ todo[r] \in Seq(Born) /\ r \notin Ingests /\ InFlight(r)
    BY <1>1, KindsAreApart DEF LogSound, MemorySound, RequestSound, InFlight
  <1>3. /\ w = "crystallized" => pc[r] = "crystallize"
        /\ w = "tombstoned" => pc[r] = "sweep"
        /\ w # "active"
    BY <1>1 DEF PassWrites
  <1>4. /\ \A x \in DOMAIN staged'[r] :
             \/ x \in DOMAIN staged[r] /\ staged'[r][x] = staged[r][x]
             \/ x = b /\ staged'[r][x] = w /\ Exists(b)
    <2> HIDE DEF b, w
    <2> QED BY <1>1 DEF Put
  <1>5. RequestLogged(r)'
    <2> HIDE DEF b, w
    <2>1. \A x \in DOMAIN staged'[r] :
            /\ staged'[r][x] = "active" => x \in OwnOf(r)
            /\ staged'[r][x] = "crystallized" => r \in Consolidators
            /\ staged'[r][x] = "tombstoned" =>
                 r \in Ingests \cup Consolidators /\ (x \in swept' \/ Superseded(entries'[r], x))
      BY <1>1, <1>2, <1>3, <1>4 DEF RequestLogged
    <2>2. entries'[r] = {} /\ pc'[r] # "retire"
      BY <1>1, <1>2 DEF RequestLogged
    <2> QED BY <2>1, <2>2 DEF RequestLogged, OwnOf
  <1>6. "pass" \notin overlap' => PassSound(r)'
    <2> SUFFICES ASSUME "pass" \notin overlap' PROVE PassSound(r)'
      OBVIOUS
    <2>1. PassSound(r)
      BY <1>1 DEF LogSound, Undisturbed
    <2>2. pc[r] = "crystallize" =>
            /\ status[b] # "tombstoned"
            /\ \A i \in 1..Len(Tail(todo[r])) : status[Tail(todo[r])[i]] # "tombstoned"
      <3>1. /\ Len(todo[r]) \in Nat \ {0} /\ b = todo[r][1] /\ Len(Tail(todo[r])) = Len(todo[r]) - 1
            /\ \A i \in 1..Len(Tail(todo[r])) : Tail(todo[r])[i] = todo[r][i + 1]
        BY <1>1, <1>2
      <3> HIDE DEF b
      <3> QED BY <2>1, <3>1 DEF PassSound
    <2>3. \A x \in DOMAIN staged'[r] : staged'[r][x] = "crystallized" => status'[x] # "tombstoned"
      <3> HIDE DEF b, w
      <3> QED BY <1>1, <1>3, <1>4, <2>1, <2>2 DEF PassSound
    <2> QED BY <1>1, <2>2, <2>3 DEF PassSound
  <1>7. swept \subseteq swept'
    BY <1>1
  <1> QED BY <1>1, <1>2, <1>5, <1>6, <1>7, LogLocal

LEMMA LogCommitted ==
  ASSUME MemorySound, LogSound, NEW r \in Requests, Commit(r)
  PROVE  LogSound'
  <1>1. /\ \A q \in Requests \ {r} : Same(q)
        /\ pc[r] = "commit" /\ pc'[r] = "done" /\ staged'[r] = <<>> /\ entries'[r] = {}
        /\ status' = Overlay(status, staged[r]) /\ log' = log \cup entries[r]
        /\ UNCHANGED <<swept, overlap>> /\ InFlight(r) /\ ~InFlight(r)'
    BY DEF Commit, Forget, Goto, MemorySound, Same, InFlight
  <1>2. RequestSound(r) /\ RequestLogged(r)
    BY DEF MemorySound, LogSound
  <1>3. /\ \A b \in DOMAIN staged[r] : b \in Beliefs /\ status'[b] = staged[r][b]
        /\ \A b \in Beliefs \ DOMAIN staged[r] : status'[b] = status[b]
    BY <1>1, <1>2 DEF RequestSound, StagedSound, MemorySound, Overlay
  <1>4. \A b \in Beliefs : status[b] = "gone" => status'[b] = "gone"
    BY CommitKeeps
  <1>5. ASSUME NEW b \in Beliefs, status'[b] = "tombstoned" PROVE b \in swept' \/ Superseded(log', b)
    <2>1. CASE b \in DOMAIN staged[r]
      <3>1. b \in swept \/ Superseded(entries[r], b)
        BY <1>2, <1>3, <1>5, <2>1 DEF RequestLogged
      <3> QED BY <1>1, <3>1 DEF Superseded
    <2>2. CASE b \notin DOMAIN staged[r]
      <3>1. b \in swept \/ Superseded(log, b)
        BY <1>3, <1>5, <2>2 DEF LogSound
      <3> QED BY <1>1, <3>1 DEF Superseded
    <2> QED BY <2>1, <2>2
  <1>6. ASSUME NEW q \in Requests PROVE RequestLogged(q)'
    <2>1. CASE q = r
      BY <1>1, <2>1, EmptyFunction DEF RequestLogged
    <2>2. CASE q # r
      <3>1. Same(q) /\ RequestLogged(q)
        BY <1>1, <2>2 DEF LogSound
      <3>2. \A e \in entries[q] : e.a \in Beliefs
        BY DEF MemorySound, RequestSound, StagedSound, IsEntry
      <3>3. \A e \in entries[q] : status[e.a] = "gone" => status'[e.a] = "gone"
        BY <1>4, <3>2
      <3> QED BY <1>1, <3>1, <3>3 DEF Same, RequestLogged, OwnOf
    <2> QED BY <2>1, <2>2
  <1>7. ASSUME "pass" \notin overlap' PROVE Undisturbed'
    <2>1. Undisturbed
      BY <1>1, <1>7 DEF LogSound
    <2>2. PassesAlone'
      <3>1. \A q \in Writers : InFlight(q)' => InFlight(q)
        BY <1>1 DEF InFlight, Same, Writers, Requests
      <3>2. Consolidators \subseteq Writers
        BY DEF Writers
      <3> QED BY <2>1, <3>1, <3>2 DEF Undisturbed, PassesAlone
    <2>3. ASSUME NEW c \in Consolidators PROVE PassSound(c)'
      <3>1. CASE c = r
        BY <1>1, <3>1, EmptyFunction DEF PassSound
      <3>2. CASE c # r
        <4>1. c \in Requests /\ Same(c) /\ PassSound(c) /\ RequestSound(c)
          BY <1>1, <2>1, <3>2 DEF Undisturbed, Requests, MemorySound
        <4>2. CASE ~InFlight(c)
          BY <4>1, <4>2, EmptyFunction DEF Same, PassSound, InFlight, RequestSound
        <4>3. CASE InFlight(c)
          <5>1. r \notin Writers
            BY <1>1, <2>1, <3>2, <4>3 DEF Undisturbed, PassesAlone
          <5>2. ASSUME NEW b \in Beliefs, status'[b] = "tombstoned" PROVE status[b] = "tombstoned"
            <6>1. b \notin DOMAIN staged[r]
              BY <1>2, <1>3, <5>1, <5>2 DEF RequestLogged, Writers
            <6> QED BY <1>3, <5>2, <6>1
          <5>3. /\ \A b \in DOMAIN staged[c] : b \in Beliefs
                /\ \A i \in 1..Len(todo[c]) : todo[c][i] \in Beliefs
            BY <4>1 DEF RequestSound, StagedSound, Born
          <5> QED BY <4>1, <5>2, <5>3 DEF Same, PassSound
        <4> QED BY <4>2, <4>3
      <3> QED BY <3>1, <3>2
    <2>4. ASSUME NEW e \in log', e.resolution \in Decisive PROVE ~Live(e.a)'
      <3>1. CASE e \in entries[r]
        <4>1. e.a \in Beliefs
          BY <1>2, <3>1 DEF RequestSound, StagedSound, IsEntry
        <4>2. status'[e.a] \in {"tombstoned", "gone"}
          BY <1>1, <1>2, <1>3, <1>4, <2>4, <3>1, <4>1 DEF RequestLogged
        <4> QED BY <4>2 DEF Live
      <3>2. CASE e \in log
        <4>1. ~Live(e.a) /\ e.a \in Born /\ e.a \in Beliefs
          BY <2>1, <2>4, <3>2 DEF Undisturbed, MemorySound, Born
        <4>2. CASE e.a \notin DOMAIN staged[r]
          BY <1>3, <4>1, <4>2 DEF Live
        <4>3. CASE e.a \in DOMAIN staged[r]
          <5>1. staged[r][e.a] # "active"
            BY <1>1, <1>2, <4>1, <4>3 DEF RequestLogged, RequestSound, OwnOf
          <5>2. staged[r][e.a] # "crystallized"
            <6> SUFFICES ASSUME staged[r][e.a] = "crystallized" PROVE FALSE
              OBVIOUS
            <6>1. r \in Consolidators
              BY <1>2, <4>3 DEF RequestLogged
            <6>2. status[e.a] # "tombstoned"
              BY <2>1, <4>3, <6>1 DEF Undisturbed, PassSound
            <6>3. Exists(e.a)
              BY <1>2, <4>1, <4>3 DEF RequestSound, StagedSound, Born
            <6>4. status[e.a] \in Statuses
              BY <4>1 DEF MemorySound
            <6> QED BY <4>1, <6>2, <6>3, <6>4 DEF Exists, Live, Statuses
          <5> QED BY <1>3, <4>3, <5>1, <5>2 DEF Live
        <4> QED BY <4>2, <4>3
      <3> QED BY <1>1, <3>1, <3>2
    <2> QED BY <2>2, <2>3, <2>4 DEF Undisturbed
  <1> QED BY <1>5, <1>6, <1>7 DEF LogSound

LEMMA LogDeleted ==
  ASSUME MemorySound, LogSound, NEW d \in Deleters, DeleteRow(d)
  PROVE  LogSound'
  <1>1. /\ d \in Requests /\ pc[d] = "row" /\ pc' = [pc EXCEPT ![d] = "done"]
        /\ UNCHANGED <<log, tx, swept, overlap>> /\ status' = [status EXCEPT ![target[d]] = "gone"]
    BY DEF DeleteRow, Goto, Requests, past
  <1>2. target[d] \in Beliefs /\ d \notin Writers
    BY <1>1, KindsAreApart DEF MemorySound, RequestSound, Born, Writers
  <1>3. \A b \in Beliefs : status'[b] = status[b] \/ status'[b] = "gone"
    BY <1>1, <1>2 DEF MemorySound
  <1>4. \A q \in Requests : pc'[q] = pc[q] \/ (pc'[q] = "done" /\ q = d)
    BY <1>1 DEF MemorySound
  <1>5. ASSUME NEW q \in Requests PROVE RequestLogged(q)'
    <2>1. RequestLogged(q)
      BY DEF LogSound
    <2>2. \A e \in entries[q] : e.a \in Beliefs
      BY DEF MemorySound, RequestSound, StagedSound, IsEntry
    <2>3. \A e \in entries[q] : status[e.a] = "gone" => status'[e.a] = "gone"
      BY <1>3, <2>2
    <2>4. CASE q # d
      BY <1>1, <1>4, <2>1, <2>3, <2>4 DEF tx, RequestLogged, OwnOf
    <2>5. CASE q = d
      <3>1. staged'[q] = <<>> /\ entries'[q] = {} /\ pc'[q] = "done"
        BY <1>1, <2>5 DEF tx, MemorySound, RequestSound
      <3> QED BY <3>1, EmptyFunction DEF RequestLogged
    <2> QED BY <2>4, <2>5
  <1>6. ASSUME "pass" \notin overlap' PROVE Undisturbed'
    <2>1. Undisturbed
      BY <1>1, <1>6 DEF LogSound
    <2>2. \A q \in Writers : pc'[q] = pc[q]
      BY <1>2, <1>4 DEF Writers, Requests
    <2>3. PassesAlone'
      BY <2>1, <2>2 DEF Undisturbed, PassesAlone, InFlight, Writers
    <2>4. ASSUME NEW c \in Consolidators PROVE PassSound(c)'
      <3>1. PassSound(c) /\ RequestSound(c) /\ pc'[c] = pc[c]
        BY <2>1, <2>2 DEF Undisturbed, MemorySound, Requests, Writers
      <3>2. /\ \A b \in DOMAIN staged[c] : b \in Beliefs
            /\ \A i \in 1..Len(todo[c]) : todo[c][i] \in Beliefs
        BY <3>1 DEF RequestSound, StagedSound, Born
      <3> QED BY <1>1, <1>3, <3>1, <3>2 DEF tx, PassSound
    <2>5. \A e \in log' : e.resolution \in Decisive => ~Live(e.a)'
      <3>1. \A e \in log : e.a \in Beliefs
        BY DEF MemorySound, Born
      <3> QED BY <1>1, <1>3, <2>1, <3>1 DEF Undisturbed, Live
    <2> QED BY <2>3, <2>4, <2>5 DEF Undisturbed
  <1>7. \A b \in Beliefs : status'[b] = "tombstoned" => b \in swept' \/ Superseded(log', b)
    BY <1>1, <1>3 DEF LogSound
  <1> QED BY <1>5, <1>6, <1>7 DEF LogSound

\* Steps that change nothing the log speaks of.
LEMMA LogRests ==
  ASSUME LogSound, UNCHANGED <<status, log, pc, tx, swept, overlap>>
  PROVE  LogSound'
  <1>1. \A r \in Requests : RequestLogged(r)'
    BY DEF LogSound, RequestLogged, OwnOf, tx
  <1>2. Undisturbed => Undisturbed'
    BY DEF Undisturbed, PassesAlone, PassSound, InFlight, Live, tx, Writers
  <1> QED BY <1>1, <1>2 DEF LogSound

LEMMA LogStep ==
  ASSUME MemorySound, LogSound, NEW r \in Requests, Step(r) \/ Fail(r) \/ DeadlockVictim(r)
  PROVE  LogSound'
  <1>1. CASE r \in Ingests /\ IngestStep(r)
    <2>1. CASE Prove(r)
      <3>1. /\ UNCHANGED <<status, log, swept, overlap>> /\ \A q \in Requests \ {r} : Same(q)
            /\ pc[r] = "prove" /\ pc'[r] \in {"resolve", "commit"}
            /\ staged'[r] = staged[r] /\ entries'[r] = entries[r]
        BY <2>1 DEF Prove, Goto, MemorySound, Same, tx, db
      <3> QED BY <3>1, LogMoves DEF InFlight
    <2> QED BY <1>1, <2>1, LogResolved, LogRetired DEF IngestStep
  <1>2. CASE r \in Retrievers /\ RetrieveStep(r)
    <2>1. /\ UNCHANGED <<status, log, swept, overlap>> /\ \A q \in Requests \ {r} : Same(q)
          /\ pc[r] = "reinforce" /\ pc'[r] \in {"reinforce", "commit"}
          /\ staged'[r] = staged[r] /\ entries'[r] = entries[r]
      BY <1>2 DEF RetrieveStep, Reinforce, Reinforced, Goto, db, tx, past, MemorySound, Same
    <2> QED BY <2>1, LogMoves DEF InFlight
  <1>3. CASE Fail(r) \/ DeadlockVictim(r)
    <2>1. Forget(r) /\ Goto(r, "failed") /\ UNCHANGED <<db, graph, past>>
      BY <1>3 DEF Fail, DeadlockVictim
    <2>2. /\ UNCHANGED <<status, log, swept, overlap>> /\ \A q \in Requests \ {r} : Same(q)
          /\ pc'[r] = "failed" /\ staged'[r] = <<>> /\ entries'[r] = {}
      BY <2>1 DEF Forget, Goto, db, past, MemorySound, Same
    <2> QED BY <2>2, LogMoves DEF InFlight
  <1>4. CASE r \in Consolidators /\ PassStep(r)
    <2>1. CASE ReadWeak(r) \/ ReadTombstones(r) \/ EndPasses(r)
      <3>1. /\ UNCHANGED <<status, log, swept, overlap>> /\ \A q \in Requests \ {r} : Same(q)
            /\ pc[r] \in {"crystallize", "sweep", "compact"} /\ pc'[r] \in {"sweep", "compact", "commit"}
            /\ staged'[r] = staged[r] /\ entries'[r] = entries[r]
        BY <2>1 DEF ReadWeak, ReadTombstones, EndPasses, Goto, db, tx, past, MemorySound, Same
      <3> QED BY <3>1, LogMoves DEF InFlight
    <2> QED BY <1>3, <1>4, <2>1, LogFlushed DEF PassStep
  <1> QED BY <1>1, <1>2, <1>3, <1>4, LogDeleted, LogCommitted DEF Step

LEMMA LogNext == Inv /\ LogSound /\ [Next]_vars => LogSound'
  <1> SUFFICES ASSUME Inv, LogSound, [Next]_vars PROVE LogSound'
    OBVIOUS
  <1>0. MemorySound
    BY DEF Inv
  <1>1. CASE MemoryNext
    <2>1. ASSUME NEW r \in Retrievers, Search(r) PROVE LogSound'
      <3>1. /\ UNCHANGED <<status, log, swept>> /\ \A q \in Requests \ {r} : Same(q)
            /\ pc[r] = "idle" /\ pc'[r] = "reinforce" /\ r \in Requests /\ Meets(r)
            /\ staged'[r] = staged[r] /\ entries'[r] = entries[r]
        BY <1>0, <2>1 DEF Search, Goto, db, graph, MemorySound, Same, Requests
      <3>2. r \notin Writers
        BY KindsAreApart DEF Writers
      <3>3. overlap' = overlap
        BY <3>1, <3>2 DEF Meets, Writers
      <3> QED BY <3>1, <3>2, <3>3, LogMoves
    <2>2. ASSUME NEW b \in Beliefs, Decay(b) PROVE LogSound'
      BY <2>2, LogRests DEF Decay, past
    <2>3. ASSUME NEW r \in Writers, (r \in Ingests /\ ListBeliefs(r)) \/ (r \in Consolidators /\ ReadSure(r))
          PROVE  LogSound'
      BY <1>0, <2>3, LogBegun
    <2> QED BY <1>0, <1>1, <2>1, <2>2, <2>3, LogStep DEF MemoryNext, Writers
  <1>2. ASSUME NEW d \in Deleters, NEW b, CascadeOf(d, b) \/ CascadeFails(d) PROVE LogSound'
    <2>1. /\ UNCHANGED <<status, log, swept, overlap>> /\ d \in Requests /\ \A q \in Requests \ {d} : Same(q)
          /\ pc[d] = "idle" /\ pc'[d] \in {"row", "failed"}
          /\ staged'[d] = staged[d] /\ entries'[d] = entries[d]
      BY <1>0, <1>2 DEF CascadeOf, CascadeFails, Goto, db, tx, past, MemorySound, Same, Requests
    <2>2. d \notin Writers
      BY KindsAreApart DEF Writers
    <2> QED BY <2>1, <2>2, LogMoves
  <1>3. ASSUME NEW d \in Deleters, Cascade(d) PROVE LogSound'
    BY <1>2, <1>3 DEF Cascade
  <1>4. ASSUME NEW S, Recalls(S) PROVE LogSound'
    BY <1>4, LogRests DEF Recalls
  <1>5. CASE UNCHANGED memory
    BY <1>5, LogRests DEF memory, db, past
  <1>6. ASSUME NEW v \in Viewers, Sync(v) \/ ViewStep(v) PROVE LogSound'
    BY <1>4, <1>5, <1>6 DEF Sync, ViewStep, Join, SaveCards
  <1>7. ASSUME NEW p \in Resolvers, ReadCard(p) \/ ResolveStep(p) PROVE LogSound'
    BY <1>2, <1>4, <1>5, <1>7, ResolversDelete
      DEF ReadCard, ResolveStep, CallDelete, Answer, ReinforceWinner, SaveDecision
  <1> QED BY <1>1, <1>2, <1>3, <1>5, <1>6, <1>7 DEF Next, CardFails, WindowPasses, Quiet, vars

LEMMA LogInit == CardsInit => LogSound
  <1> SUFFICES ASSUME CardsInit PROVE LogSound
    OBVIOUS
  <1>1. PICK cast \in Casts : InitWith(cast)
    BY DEF CardsInit
  <1>2. \A r \in Requests : staged[r] = <<>> /\ entries[r] = {} /\ pc[r] \in {"idle", "away"}
    BY <1>1 DEF InitWith
  <1>3. \A r \in Requests : RequestLogged(r)
    BY <1>2, EmptyFunction DEF RequestLogged
  <1>4. Undisturbed
    <2>1. PassesAlone
      BY <1>2 DEF PassesAlone, InFlight, Writers, Requests
    <2>2. \A c \in Consolidators : PassSound(c)
      BY <1>2, EmptyFunction DEF PassSound, Requests
    <2>3. \A e \in log : e.resolution = "flagged"
      BY <1>1 DEF InitWith
    <2> QED BY <2>1, <2>2, <2>3 DEF Undisturbed, Decisive
  <1>5. \A b \in Beliefs : status[b] # "tombstoned"
    BY <1>1 DEF InitWith
  <1> QED BY <1>3, <1>4, <1>5 DEF LogSound

\* The log and the statuses say the same (conflict.py): whatever is retired was
\* swept or has a logged successor, and a logged retirement lasts unless a pass
\* of a consolidation was in flight together with an ingest or another pass.
THEOREM LogStaysTrue == Spec => []LogIsTrue
  <1>1. Inv /\ LogSound => LogIsTrue
    <2> SUFFICES ASSUME Inv, LogSound PROVE LogIsTrue
      OBVIOUS
    <2>1. EvolutionIsKept
      <3> SUFFICES ASSUME NEW b \in Beliefs, status[b] = "tombstoned", b \notin swept
                   PROVE  \E e \in log : e.a = b /\ e.resolution \in Decisive /\ status[e.b] # "absent"
        BY DEF EvolutionIsKept
      <3>1. PICK e \in log : e.a = b /\ e.resolution \in Decisive
        BY DEF LogSound, Superseded
      <3>2. e.b \in Born
        BY DEF Inv, MemorySound
      <3> QED BY <3>1, <3>2 DEF Born
    <2>2. DecisiveRetires
      BY DEF LogSound, Undisturbed, DecisiveRetires
    <2> QED BY <2>1, <2>2 DEF LogIsTrue
  <1>2. CardsInit => Inv /\ LogSound
    BY InvInit, LogInit
  <1>3. (Inv /\ LogSound) /\ [Next]_vars => (Inv /\ LogSound)'
    BY InvNext, LogNext
  <1> QED BY <1>1, <1>2, <1>3, PTL DEF Spec

-----------------------------------------------------------------------------
(* What is made of beliefs.  Each algorithm is called once, by Algorithms.   *)

-----------------------------------------------------------------------------
(* The tone of a reminder. *)

\* A collections run has answered what it was asked.
ChaseAnswered ==
  call = "chase" =>
    /\ input \in ChaseInputs
    /\ result = C!Sendable(C!Drafts(input.open, input.book, input.claims, input.now))

LEMMA ChaseAnswers == CallSpec => []ChaseAnswered
  <1>1. Uncalled => ChaseAnswered
    BY DEF Uncalled, ChaseAnswered
  <1>2. ChaseAnswered /\ [OneCall]_callVars => ChaseAnswered'
    <2> SUFFICES ASSUME ChaseAnswered, [OneCall]_callVars PROVE ChaseAnswered'
      OBVIOUS
    <2>1. CASE Chase
      BY <2>1 DEF Chase, Return, ChaseAnswered
    <2>2. CASE call' # "chase"
      BY <2>2 DEF ChaseAnswered
    <2>3. CASE UNCHANGED callVars
      BY <2>3 DEF callVars, ChaseAnswered
    <2> QED BY <2>1, <2>2, <2>3 DEF OneCall, AfterCall, Return, Match, Accrue, Forecast, Rank, Scan,
                                    Pack, Mine, Grade, Report, ReadStatement, ReadExport
  <1> QED BY <1>1, <1>2, PTL DEF CallSpec

\* What is past due and not due at that very moment is what was due before.
LEMMA PastDueIsOverdue ==
  ASSUME NEW i, NEW now \in Int, i.due \in Int
  PROVE  C!Overdue(i, now) <=> B!PastDue(i, now) /\ i.due # now
  <1> DEFINE late == now - i.due
  <1>1. late \in Int /\ (i.due < now <=> late > 0) /\ (i.due # now <=> late # 0)
    OBVIOUS
  <1>2. late \div 10 >= 0 <=> late >= 0
    <2> HIDE DEF late
    <2> QED BY <1>1
  <1> QED BY <1>1, <1>2 DEF C!Overdue, B!PastDue, B!DaysOverdue

\* The drafts that can be sent are those of the overdue invoices of clients
\* with an address, one for each.
LEMMA DraftsSent ==
  ASSUME NEW open, NEW book, NEW claims, NEW now
  PROVE  C!Sendable(C!Drafts(open, book, claims, now)) =
           {[invoice |-> i.id, amount |-> i.amount, to |-> book[i.client],
             tone |-> C!Tone(claims[i.client], (now - i.due) \div 10)] :
              i \in {j \in C!CollectionsContext(open, book, now) : book[j.client] > 0}}
  BY DEF C!Sendable, C!Drafts

LEMMA ChasesPastDue ==
  ASSUME ChasesAreGiven, ChaseAnswered
  PROVE  PastDueIsChased
  <1> SUFFICES ASSUME call = "chase"
               PROVE  LET reachable == {i \in input.open : i.client \in DOMAIN input.book /\ input.book[i.client] > 0} IN
                      /\ {<<d.invoice, d.amount>> : d \in result} =
                           {<<i.id, i.amount>> : i \in {j \in reachable : B!PastDue(j, input.now) /\ j.due # input.now}}
                      /\ \A d, e \in result : d.invoice = e.invoice => d = e
    BY DEF PastDueIsChased, Called
  <1> DEFINE Sent == {i \in input.open : i.client \in DOMAIN input.book /\ input.book[i.client] > 0
                                         /\ B!PastDue(i, input.now) /\ i.due # input.now}
             Draft(i) == [invoice |-> i.id, amount |-> i.amount, to |-> input.book[i.client],
                          tone |-> C!Tone(input.claims[i.client], (input.now - i.due) \div 10)]
  <1>1. /\ input \in ChaseInputs /\ input.now \in Int
        /\ \A i \in input.open : i.due \in Int
        /\ \A i, j \in input.open : i.id = j.id => i = j
    BY DEF ChasesAreGiven, ChaseAnswered
  <1>2. {j \in C!CollectionsContext(input.open, input.book, input.now) : input.book[j.client] > 0} = Sent
    BY <1>1, PastDueIsOverdue DEF C!CollectionsContext
  <1>3. result = {Draft(i) : i \in Sent}
    BY <1>2, DraftsSent DEF ChaseAnswered
  <1>4. \A i \in Sent : Draft(i).invoice = i.id /\ Draft(i).amount = i.amount
    OBVIOUS
  <1>5. \A i, j \in Sent : i.id = j.id => i = j
    BY <1>1
  <1> HIDE DEF Draft
  <1>6. \A d, e \in result : d.invoice = e.invoice => d = e
    BY <1>3, <1>4, <1>5
  <1>7. {<<d.invoice, d.amount>> : d \in result} = {<<i.id, i.amount>> : i \in Sent}
    BY <1>3, <1>4
  <1> QED BY <1>6, <1>7

\* One more payment is one more number of days.
LEMMA OneMorePayment ==
  ASSUME NEW S, NEW claims \in Seq(S), NEW late \in Int
  PROVE  C!ParseLateDays(Append(claims, C!TimingClaim(late, 0))) = C!ParseLateDays(claims) \cup {late}
  <1> DEFINE t == C!TimingClaim(late, 0)
             more == Append(claims, t)
             n == Len(claims) + 1
  <1>1. t.kind = "timing" /\ C!DaysLate(t) = late
    BY DEF C!TimingClaim, C!DaysLate
  <1> HIDE DEF t
  <1>2. /\ DOMAIN claims = 1..Len(claims) /\ DOMAIN more = 1..n /\ Len(claims) \in Nat
        /\ more[n] = t /\ \A k \in 1..Len(claims) : more[k] = claims[k]
    <2>1. claims \in Seq(S \cup {t}) /\ t \in S \cup {t}
      OBVIOUS
    <2> QED BY <2>1
  <1>3. n \notin 1..Len(claims) /\ 1..n = (1..Len(claims)) \cup {n}
    BY <1>2
  <1> HIDE DEF more, n
  <1>4. C!Timings(more) = C!Timings(claims) \cup {n}
    BY <1>1, <1>2, <1>3 DEF C!Timings
  <1>5. \A k \in C!Timings(claims) : more[k] = claims[k]
    BY <1>2 DEF C!Timings
  <1>6. {C!DaysLate(more[k]) : k \in C!Timings(claims) \cup {n}} =
        {C!DaysLate(claims[k]) : k \in C!Timings(claims)} \cup {late}
    BY <1>1, <1>2, <1>5
  <1> QED BY <1>4, <1>6 DEF C!ParseLateDays, more, t

\* A payment in time keeps a client reliable, or makes him so if he had no
\* history; a late one never makes anybody reliable.
LEMMA OneMoreCounts ==
  ASSUME NEW S, NEW claims \in Seq(S), NEW late \in Int,
         NEW more, more = Append(claims, C!TimingClaim(late, 0))
  PROVE  /\ late > 21 => ~C!Reliable(more)
         /\ late <= 21 /\ C!Reliable(claims) => C!Reliable(more)
  <1> DEFINE before == C!ParseLateDays(claims)
             after == C!ParseLateDays(more)
  <1>1. after = before \cup {late}
    BY OneMorePayment
  <1>2. /\ C!Reliable(claims) <=> before # {} /\ \A days \in before : days <= 21
        /\ C!Reliable(more) <=> after # {} /\ \A days \in after : days <= 21
    BY DEF C!Reliable, C!RELIABLE_MAX_LATE
  <1> HIDE DEF before, after
  <1>3. late > 21 <=> ~(late <= 21)
    OBVIOUS
  <1> QED BY <1>1, <1>2, <1>3

LEMMA LearnsFairly ==
  ASSUME ChasesAreGiven, ChaseAnswered
  PROVE  LearningIsFair
  <1> SUFFICES ASSUME call = "chase", NEW i \in input.open, NEW late \in {-40, -1, 0, 1, 21, 22, 40}
               PROVE  LET days == (input.now - i.due) \div 10
                          before == Rank3(C!Tone(input.claims[i.client], days))
                          after == Rank3(C!Tone(Append(input.claims[i.client], C!TimingClaim(late, 0)), days))
                      IN  IF late > 21 THEN after >= before ELSE after <= before
    BY DEF LearningIsFair, Called
  <1> DEFINE claims == input.claims[i.client]
             more == Append(claims, C!TimingClaim(late, 0))
             days == (input.now - i.due) \div 10
  <1>1. claims \in Seq({claims[k] : k \in DOMAIN claims}) /\ late \in Int
    <2>1. input \in ChaseInputs
      BY DEF ChaseAnswered
    <2>2. claims \in Seq({claims[k] : k \in DOMAIN claims})
      BY <2>1 DEF ChasesAreGiven
    <2> QED BY <2>2
  <1>2. /\ late > 21 => ~C!Reliable(more)
        /\ late <= 21 /\ C!Reliable(claims) => C!Reliable(more)
    BY <1>1, OneMoreCounts
  <1> HIDE DEF claims, more, days
  <1>3. ASSUME NEW c
        PROVE  Rank3(C!Tone(c, days)) =
                 IF days <= C!GENTLE_MAX_OVERDUE THEN IF C!Reliable(c) THEN 1 ELSE 2 ELSE 3
    BY DEF Rank3, C!Tone
  <1>4. late > 21 \/ late <= 21
    BY <1>1
  <1>5. IF late > 21 THEN Rank3(C!Tone(more, days)) >= Rank3(C!Tone(claims, days))
                     ELSE Rank3(C!Tone(more, days)) <= Rank3(C!Tone(claims, days))
    BY <1>1, <1>2, <1>3, <1>4
  <1> QED BY <1>5 DEF claims, more, days

\* Reminders go to whom they should, in the tone the client has earned,
\* whatever the books, the address book and the claims recalled.
THEOREM ChasersStayFair ==
  ASSUME ChasesAreGiven
  PROVE  CallSpec => []ChasersFair
  <1>1. ChaseAnswered => ChasersFair
    BY ChasesPastDue, LearnsFairly DEF ChasersFair
  <1> QED BY <1>1, ChaseAnswers, PTL

-----------------------------------------------------------------------------
(* What is computed step by step. *)

\* A set of natural numbers has a least one.
LEMMA LeastOf ==
  ASSUME NEW T \in SUBSET Nat, T # {}
  PROVE  \E x \in T : \A y \in T : x <= y
  <1> DEFINE Less == {p \in Nat \X Nat : p[1] < p[2]}
  <1>1. IsWellFoundedOn(Less, Nat)
    BY NatLessThanWellFounded DEF OpToRel
  <1>2. PICK x \in T : \A y \in T : <<y, x>> \notin Less
    <2> HIDE DEF Less
    <2> QED BY <1>1, WFMin
  <1>3. ASSUME NEW y \in T PROVE x <= y
    <2>1. y \in Nat /\ x \in Nat /\ <<y, x>> \in Nat \X Nat
      OBVIOUS
    <2>2. ~(y < x)
      BY <1>2, <2>1
    <2> QED BY <2>1, <2>2
  <1> QED BY <1>3

\* What holds of 0 and goes from each number to the next holds up to N.
LEMMA UpTo ==
  ASSUME NEW N \in Nat, NEW Good, 0 \in Good,
         \A n \in 1..N : n - 1 \in Good => n \in Good
  PROVE  \A n \in 0..N : n \in Good
  <1> DEFINE T == {n \in 0..N : n \notin Good}
  <1> SUFFICES ASSUME T # {} PROVE FALSE
    OBVIOUS
  <1>1. PICK x \in T : \A y \in T : x <= y
    <2>1. T \in SUBSET Nat
      OBVIOUS
    <2> HIDE DEF T
    <2> QED BY <2>1, LeastOf
  <1>2. x \in 1..N /\ x - 1 \in 0..N /\ ~(x <= x - 1)
    OBVIOUS
  <1>3. x - 1 \notin T
    BY <1>1, <1>2
  <1> QED BY <1>2, <1>3

\* f goes from base by the steps F.
Goes(f, N, base, F) == f = [n \in 0..N |-> IF n = 0 THEN base ELSE F[<<n, f[n - 1]>>]]

\* Steps from each state to a next one can be followed as far as they go.
LEMMA StepsLead ==
  ASSUME NEW S, NEW N \in Nat, NEW base \in S, NEW F \in [(1..N) \X S -> S]
  PROVE  \E f \in [0..N -> S] : Goes(f, N, base, F)
  <1> DEFINE Leads(f, k) == f = [n \in 0..k |-> IF n = 0 THEN base ELSE F[<<n, f[n - 1]>>]]
             Good == {k \in 0..N : \E f \in [0..k -> S] : Leads(f, k)}
  <1>1. 0 \in Good
    <2> DEFINE f == [n \in 0..0 |-> base]
    <2>1. f \in [0..0 -> S] /\ Leads(f, 0)
      OBVIOUS
    <2>2. 0 \in 0..N
      OBVIOUS
    <2> HIDE DEF f, Leads
    <2> QED BY <2>1, <2>2
  <1>2. ASSUME NEW k \in 1..N, k - 1 \in Good PROVE k \in Good
    <2>1. PICK g \in [0..(k - 1) -> S] : Leads(g, k - 1)
      BY <1>2
    <2> DEFINE f == [n \in 0..k |-> IF n = k THEN F[<<k, g[k - 1]>>] ELSE g[n]]
    <2>2. \A n \in 0..k : n # k => n \in 0..(k - 1)
      OBVIOUS
    <2>3. k - 1 \in 0..(k - 1) /\ k # 0 /\ k \in 0..k
      OBVIOUS
    <2>4. F[<<k, g[k - 1]>>] \in S
      BY <2>3
    <2>5. f \in [0..k -> S]
      BY <2>2, <2>4
    <2>6. \A n \in 0..k : f[n] = IF n = 0 THEN base ELSE F[<<n, f[n - 1]>>]
      <3> SUFFICES ASSUME NEW n \in 0..k PROVE f[n] = IF n = 0 THEN base ELSE F[<<n, f[n - 1]>>]
        OBVIOUS
      <3>1. CASE n = k
        <4>1. f[k] = F[<<k, g[k - 1]>>] /\ f[k - 1] = g[k - 1]
          BY <2>3
        <4> QED BY <2>3, <3>1, <4>1
      <3>2. CASE n # k
        <4>1. f[n] = g[n] /\ g[n] = IF n = 0 THEN base ELSE F[<<n, g[n - 1]>>]
          BY <2>1, <2>2, <3>2
        <4>2. n # 0 => n - 1 \in 0..k /\ n - 1 # k
          BY <3>2
        <4>3. n # 0 => f[n - 1] = g[n - 1]
          BY <4>2
        <4> HIDE DEF f
        <4> QED BY <4>1, <4>3
      <3> QED BY <3>1, <3>2
    <2>7. Leads(f, k)
      <3>1. f = [n \in 0..k |-> f[n]]
        OBVIOUS
      <3> HIDE DEF f
      <3> QED BY <2>6, <3>1
    <2>8. k \in 0..N
      OBVIOUS
    <2> HIDE DEF f, Leads
    <2> QED BY <2>5, <2>7, <2>8
  <1>3. N \in Good
    <2>1. N \in 0..N
      OBVIOUS
    <2> HIDE DEF Good
    <2> QED BY <1>1, <1>2, <2>1, UpTo
  <1> QED BY <1>3 DEF Goes

-----------------------------------------------------------------------------
(* The token budget. *)

Tokens(items) == TokensOf(items)
Item(Ids) == [id : Ids, tokens : Nat, summarized : BOOLEAN]

LEMMA TokensAre ==
  ASSUME NEW Ids, NEW items \in Seq(Item(Ids))
  PROVE  /\ Tokens(items) \in [0..Len(items) -> Nat]
         /\ Tokens(items)[0] = 0
         /\ \A n \in 1..Len(items) : Tokens(items)[n] = Tokens(items)[n - 1] + items[n].tokens
  <1> DEFINE N == Len(items)
             F == [w \in (1..N) \X Nat |-> w[2] + items[w[1]].tokens]
             Is(f) == f = [n \in 0..N |-> IF n = 0 THEN 0 ELSE f[n - 1] + items[n].tokens]
  <1>0. N \in Nat /\ \A n \in 1..N : items[n].tokens \in Nat
    <2>1. \A n \in 1..N : items[n] \in Item(Ids)
      OBVIOUS
    <2> QED BY <2>1 DEF Item
  <1>1. F \in [(1..N) \X Nat -> Nat]
    BY <1>0
  <1>2. PICK f \in [0..N -> Nat] : Goes(f, N, 0, F)
    <2>1. 0 \in Nat
      OBVIOUS
    <2> HIDE DEF F, N
    <2> QED BY <1>0, <1>1, <2>1, StepsLead
  <1>3. \A n \in 0..N : f[n] = IF n = 0 THEN 0 ELSE f[n - 1] + items[n].tokens
    <2> SUFFICES ASSUME NEW n \in 0..N, n # 0 PROVE f[n] = f[n - 1] + items[n].tokens
      BY <1>2 DEF Goes
    <2>1. n \in 1..N /\ n - 1 \in 0..N
      BY <1>0
    <2>2. f[n - 1] \in Nat
      BY <1>2, <2>1
    <2>3. F[<<n, f[n - 1]>>] = f[n - 1] + items[n].tokens
      BY <2>1, <2>2
    <2> HIDE DEF F
    <2> QED BY <1>2, <2>3 DEF Goes
  <1>4. Is(f)
    <2>1. f = [n \in 0..N |-> f[n]]
      BY <1>2
    <2> HIDE DEF N
    <2> QED BY <1>3, <2>1
  <1>5. Tokens(items) = CHOOSE g : Is(g)
    BY Zenon DEF Tokens, TokensOf
  <1> HIDE DEF Is
  <1>6. Is(Tokens(items))
    BY <1>4, <1>5, Zenon
  <1> HIDE DEF F, N
  <1>7. /\ Tokens(items) = [n \in 0..N |-> Tokens(items)[n]]
        /\ \A n \in 0..N : Tokens(items)[n] = IF n = 0 THEN 0 ELSE Tokens(items)[n - 1] + items[n].tokens
    <2>1. Tokens(items) = [n \in 0..N |-> IF n = 0 THEN 0 ELSE Tokens(items)[n - 1] + items[n].tokens]
      BY <1>6 DEF Is
    <2> HIDE DEF Is
    <2> QED BY <2>1
  <1>8. \A n \in 0..N : Tokens(items)[n] \in Nat
    <2> DEFINE Good == {n \in 0..N : Tokens(items)[n] \in Nat}
    <2>1. 0 \in Good
      BY <1>0, <1>7
    <2>2. \A n \in 1..N : n - 1 \in Good => n \in Good
      <3> SUFFICES ASSUME NEW n \in 1..N, n - 1 \in Good PROVE n \in Good
        OBVIOUS
      <3>1. Tokens(items)[n] = Tokens(items)[n - 1] + items[n].tokens /\ n \in 0..N
        <4>1. n \in 0..N /\ n # 0
          BY <1>0
        <4> QED BY <1>7, <4>1
      <3> QED BY <1>0, <3>1
    <2>3. \A n \in 0..N : n \in Good
      <3> HIDE DEF Good
      <3> QED BY <1>0, <2>1, <2>2, UpTo
    <2> QED BY <2>3
  <1>9. \A n \in 1..N : n \in 0..N /\ n # 0
    BY <1>0
  <1>10. 0 \in 0..N
    BY <1>0
  <1>11. Tokens(items) \in [0..N -> Nat]
    BY <1>7, <1>8
  <1> QED BY <1>7, <1>9, <1>10, <1>11 DEF N

\* One more item adds its tokens.
LEMMA OneMoreItem ==
  ASSUME NEW Ids, NEW items \in Seq(Item(Ids)), NEW i \in Item(Ids)
  PROVE  LET more == Append(items, i) IN
         Tokens(more)[Len(more)] = Tokens(items)[Len(items)] + i.tokens
  <1> DEFINE more == Append(items, i)
             N == Len(items)
             Good == {n \in 0..N : Tokens(more)[n] = Tokens(items)[n]}
  <1>1. /\ more \in Seq(Item(Ids)) /\ Len(more) = N + 1 /\ N \in Nat
        /\ more[N + 1] = i /\ \A n \in 1..N : more[n] = items[n]
    OBVIOUS
  <1> HIDE DEF more
  <1>2. /\ Tokens(items)[0] = 0 /\ Tokens(more)[0] = 0
        /\ \A n \in 1..N : Tokens(items)[n] = Tokens(items)[n - 1] + items[n].tokens
        /\ \A n \in 1..(N + 1) : Tokens(more)[n] = Tokens(more)[n - 1] + more[n].tokens
    <2>1. \A n \in 1..Len(more) : Tokens(more)[n] = Tokens(more)[n - 1] + more[n].tokens
      BY <1>1, TokensAre
    <2> QED BY <1>1, <2>1, TokensAre
  <1> HIDE DEF N
  <1>3. 0 \in Good
    BY <1>1, <1>2
  <1>4. \A n \in 1..N : n - 1 \in Good => n \in Good
    <2> SUFFICES ASSUME NEW n \in 1..N, n - 1 \in Good PROVE n \in Good
      OBVIOUS
    <2>1. n \in 1..(N + 1) /\ n \in 0..N
      BY <1>1
    <2> QED BY <1>1, <1>2, <2>1
  <1>5. N \in Good
    <2>1. N \in 0..N
      BY <1>1
    <2> HIDE DEF Good
    <2> QED BY <1>1, <1>3, <1>4, <2>1, UpTo
  <1>6. N + 1 \in 1..(N + 1) /\ (N + 1) - 1 = N
    BY <1>1
  <1>7. Tokens(more)[N + 1] = Tokens(more)[N] + i.tokens
    BY <1>1, <1>2, <1>6
  <1> QED BY <1>1, <1>5, <1>7 DEF more, N

PackState(Ids) == [items : Seq(Item(Ids)), used : Nat]
Fitting(Ids, m) == m.id \in Ids /\ m.full \in Nat /\ m.short \in Nat

LeftOut(p, m, budget, compress) ==
  p.used + m.full > budget /\ (compress => m.short = 0 \/ p.used + m.short > budget)
Taken(c, p, m, budget) ==
  \E t \in Nat, b \in BOOLEAN :
    /\ p.used + t <= budget
    /\ c = [items |-> Append(p.items, [id |-> m.id, tokens |-> t, summarized |-> b]), used |-> p.used + t]

\* A memory that does not fit does not fit when more is packed.
LEMMA LeftOutStays ==
  ASSUME NEW p, NEW q, NEW m, NEW budget \in Nat, NEW compress \in BOOLEAN,
         p.used \in Nat, q.used \in Nat, p.used <= q.used, m.full \in Nat, m.short \in Nat,
         LeftOut(p, m, budget, compress)
  PROVE  LeftOut(q, m, budget, compress)
  <1>1. q.used + m.full > budget
    BY DEF LeftOut
  <1>2. compress => m.short = 0 \/ q.used + m.short > budget
    BY DEF LeftOut
  <1> QED BY Zenon, <1>1, <1>2 DEF LeftOut

\* A memory is left out because it does not fit, or it is packed and fits.
LEMMA TakenOrLeftOut ==
  ASSUME NEW Ids, NEW p \in PackState(Ids), NEW m, Fitting(Ids, m), NEW budget \in Nat, NEW compress \in BOOLEAN
  PROVE  LET c == R!Consider(p, m, budget, compress) IN
         (c = p /\ LeftOut(p, m, budget, compress)) \/ Taken(c, p, m, budget)
  <1> DEFINE c == R!Consider(p, m, budget, compress)
  <1>1. p.used \in Nat /\ m.full \in Nat /\ m.short \in Nat
    BY DEF PackState, Fitting
  <1>2. CASE R!FitsFull(p.used, m, budget)
    <2>1. c = [items |-> Append(p.items, [id |-> m.id, tokens |-> m.full, summarized |-> FALSE]), used |-> p.used + m.full]
      BY <1>2 DEF R!Consider, R!Pack
    <2>2. p.used + m.full <= budget
      BY <1>2 DEF R!FitsFull
    <2> HIDE DEF c
    <2>3. Taken(c, p, m, budget)
      BY <1>1, <2>1, <2>2 DEF Taken
    <2> QED BY <2>3 DEF c
  <1>3. CASE ~R!FitsFull(p.used, m, budget) /\ compress /\ R!SummaryFits(p.used, m, budget)
    <2>1. c = [items |-> Append(p.items, [id |-> m.id, tokens |-> m.short, summarized |-> TRUE]), used |-> p.used + m.short]
      BY <1>3 DEF R!Consider, R!Pack
    <2>2. p.used + m.short <= budget
      BY <1>3 DEF R!SummaryFits
    <2> HIDE DEF c
    <2>3. Taken(c, p, m, budget)
      BY <1>1, <2>1, <2>2 DEF Taken
    <2> QED BY <2>3 DEF c
  <1>4. CASE ~R!FitsFull(p.used, m, budget) /\ ~(compress /\ R!SummaryFits(p.used, m, budget))
    <2>1. c = p
      BY <1>4 DEF R!Consider
    <2>2. p.used + m.full > budget
      BY <1>1, <1>4 DEF R!FitsFull
    <2>3. compress => m.short = 0 \/ p.used + m.short > budget
      BY <1>1, <1>4 DEF R!SummaryFits
    <2> QED BY <2>1, <2>2, <2>3 DEF LeftOut
  <1> QED BY <1>2, <1>3, <1>4

LEMMA ConsiderStays ==
  ASSUME NEW Ids, NEW p \in PackState(Ids), NEW m, Fitting(Ids, m), NEW budget \in Nat, NEW compress \in BOOLEAN
  PROVE  R!Consider(p, m, budget, compress) \in PackState(Ids)
  <1>1. ASSUME NEW c, Taken(c, p, m, budget)
        PROVE  c \in PackState(Ids)
    <2>1. PICK t \in Nat, b \in BOOLEAN :
            c = [items |-> Append(p.items, [id |-> m.id, tokens |-> t, summarized |-> b]), used |-> p.used + t]
      BY <1>1 DEF Taken
    <2>2. [id |-> m.id, tokens |-> t, summarized |-> b] \in Item(Ids)
      BY DEF Item, Fitting
    <2>3. p.items \in Seq(Item(Ids)) /\ p.used + t \in Nat
      BY DEF PackState
    <2> QED BY <2>1, <2>2, <2>3 DEF PackState
  <1> QED BY <1>1, TakenOrLeftOut

LEMMA PackingIs ==
  ASSUME NEW Ids, NEW scored, NEW budget \in Nat, NEW compress \in BOOLEAN,
         Len(scored) \in Nat, \A n \in 1..Len(scored) : Fitting(Ids, scored[n])
  PROVE  LET Run == R!Packing(scored, budget, compress) IN
         /\ \A n \in 0..Len(scored) : Run[n] \in PackState(Ids)
         /\ Run[0] = [items |-> <<>>, used |-> 0]
         /\ \A n \in 1..Len(scored) : Run[n] = R!Consider(Run[n - 1], scored[n], budget, compress)
  <1> DEFINE N == Len(scored)
             Run == R!Packing(scored, budget, compress)
             Next1(x, n) == R!Consider(x, scored[n], budget, compress)
             base == [items |-> <<>>, used |-> 0]
             F == [w \in (1..N) \X PackState(Ids) |-> Next1(w[2], w[1])]
             Is(f) == f = [n \in 0..N |-> IF n = 0 THEN base ELSE Next1(f[n - 1], n)]
  <1>1. \A n \in 1..N, x \in PackState(Ids) : Next1(x, n) \in PackState(Ids)
    BY ConsiderStays
  <1>2. base \in PackState(Ids)
    BY DEF PackState
  <1>3. Run = CHOOSE f : Is(f)
    BY Zenon DEF R!Packing
  <1> HIDE DEF Next1, base, Run
  <1>4. F \in [(1..N) \X PackState(Ids) -> PackState(Ids)]
    BY <1>1
  <1>5. PICK f \in [0..N -> PackState(Ids)] : Goes(f, N, base, F)
    <2>1. N \in Nat
      OBVIOUS
    <2> HIDE DEF F, N
    <2> QED BY <1>2, <1>4, <2>1, StepsLead
  <1>6. \A n \in 0..N : f[n] = IF n = 0 THEN base ELSE Next1(f[n - 1], n)
    <2> SUFFICES ASSUME NEW n \in 0..N, n # 0 PROVE f[n] = Next1(f[n - 1], n)
      BY <1>5 DEF Goes
    <2>1. n \in 1..N /\ n - 1 \in 0..N
      OBVIOUS
    <2>2. f[n - 1] \in PackState(Ids)
      BY <1>5, <2>1
    <2>3. F[<<n, f[n - 1]>>] = Next1(f[n - 1], n)
      BY <2>1, <2>2
    <2> HIDE DEF F
    <2> QED BY <1>5, <2>3 DEF Goes
  <1>7. Is(f)
    <2>1. f = [n \in 0..N |-> f[n]]
      BY <1>5
    <2> HIDE DEF N
    <2> QED BY <1>6, <2>1
  <1> HIDE DEF Is
  <1>8. Is(Run)
    BY <1>3, <1>7, Zenon
  <1>9. \A n \in 0..N : Run[n] = IF n = 0 THEN base ELSE Next1(Run[n - 1], n)
    <2>1. Run = [n \in 0..N |-> IF n = 0 THEN base ELSE Next1(Run[n - 1], n)]
      BY <1>8 DEF Is
    <2> HIDE DEF Is, N
    <2> QED BY <2>1
  <1> HIDE DEF F
  <1>10. Run[0] = base /\ \A n \in 1..N : Run[n] = Next1(Run[n - 1], n)
    <2>1. 0 \in 0..N /\ \A n \in 1..N : n \in 0..N /\ n # 0
      OBVIOUS
    <2> HIDE DEF N
    <2> QED BY <1>9, <2>1
  <1>11. \A n \in 0..N : Run[n] \in PackState(Ids)
    <2> DEFINE Good == {n \in 0..N : Run[n] \in PackState(Ids)}
    <2>1. 0 \in Good
      BY <1>2, <1>10
    <2>2. \A n \in 1..N : n - 1 \in Good => n \in Good
      <3> SUFFICES ASSUME NEW n \in 1..N, n - 1 \in Good PROVE n \in Good
        OBVIOUS
      <3>1. n \in 0..N /\ Run[n - 1] \in PackState(Ids)
        OBVIOUS
      <3> HIDE DEF N
      <3> QED BY <1>1, <1>10, <3>1
    <2>3. \A n \in 0..N : n \in Good
      <3>1. N \in Nat
        OBVIOUS
      <3> HIDE DEF Good, N
      <3> QED BY <2>1, <2>2, <3>1, UpTo
    <2> QED BY <2>3
  <1> QED BY <1>10, <1>11 DEF Run, Next1, base

\* What is packed of the first n memories keeps the budget, is in their order,
\* and leaves out none that would fit.
Packed(p, scored, budget, compress, n) ==
  /\ Tokens(p.items)[Len(p.items)] = p.used /\ p.used <= budget
  /\ \A k \in DOMAIN p.items : \E j \in 1..n : scored[j].id = p.items[k].id
  /\ \A k, l \in DOMAIN p.items, a, b \in 1..Len(scored) :
       k < l /\ p.items[k].id = scored[a].id /\ p.items[l].id = scored[b].id => a < b
  /\ \A j \in 1..n : (\A k \in DOMAIN p.items : p.items[k].id # scored[j].id) =>
       LeftOut(p, scored[j], budget, compress)

LEMMA PackedGrows ==
  ASSUME NEW Ids, NEW scored, NEW budget \in Nat, NEW compress \in BOOLEAN,
         Len(scored) \in Nat, \A k \in 1..Len(scored) : Fitting(Ids, scored[k]),
         \A j, k \in 1..Len(scored) : scored[j].id = scored[k].id => j = k,
         NEW n \in 1..Len(scored), NEW p \in PackState(Ids), Packed(p, scored, budget, compress, n - 1)
  PROVE  Packed(R!Consider(p, scored[n], budget, compress), scored, budget, compress, n)
  <1> DEFINE m == scored[n]
             c == R!Consider(p, m, budget, compress)
             Left(q, j) == LeftOut(q, scored[j], budget, compress)
  <1>1. /\ n \in Nat /\ n \in 1..Len(scored) /\ n \in 1..n /\ n \notin 1..(n - 1)
        /\ 1..n = (1..(n - 1)) \cup {n} /\ 1..n \subseteq 1..Len(scored)
        /\ \A j \in 1..(n - 1) : j < n
    OBVIOUS
  <1>2. /\ p.items \in Seq(Item(Ids)) /\ p.used \in Nat /\ Len(p.items) \in Nat
        /\ DOMAIN p.items = 1..Len(p.items)
    BY DEF PackState
  <1>3. Fitting(Ids, m) /\ m.full \in Nat /\ m.short \in Nat
    BY DEF Fitting
  <1>4. ASSUME c = p /\ Left(p, n) PROVE Packed(c, scored, budget, compress, n)
    <2>1. \A k \in DOMAIN p.items : \E j \in 1..n : scored[j].id = p.items[k].id
      BY <1>1 DEF Packed
    <2>2. \A j \in 1..n : (\A k \in DOMAIN p.items : p.items[k].id # scored[j].id) => Left(p, j)
      BY <1>1, <1>4 DEF Packed
    <2> HIDE DEF c
    <2>3. Packed(p, scored, budget, compress, n)
      BY <2>1, <2>2 DEF Packed
    <2>4. c = p
      BY <1>4
    <2>5. Packed(c, scored, budget, compress, n)
      BY <2>3, <2>4
    <2> QED BY <2>5
  <1>5. ASSUME NEW t \in Nat, NEW b \in BOOLEAN, NEW i,
               i = [id |-> m.id, tokens |-> t, summarized |-> b], p.used + t <= budget,
               c = [items |-> Append(p.items, i), used |-> p.used + t]
        PROVE  Packed(c, scored, budget, compress, n)
    <2> DEFINE N == Len(p.items)
    <2>1. i \in Item(Ids) /\ i.id = m.id /\ i.tokens = t
      BY <1>3, <1>5 DEF Item, Fitting
    <2>2. c.items = Append(p.items, i) /\ c.used = p.used + t
      BY <1>5
    <2> HIDE DEF c
    <2>3. /\ Len(c.items) = N + 1 /\ DOMAIN c.items = (1..N) \cup {N + 1} /\ c.items[N + 1] = i
          /\ \A k \in 1..N : c.items[k] = p.items[k]
      BY <1>2, <2>1, <2>2
    <2>4. Tokens(c.items)[Len(c.items)] = c.used /\ c.used <= budget
      <3>1. Tokens(c.items)[Len(c.items)] = Tokens(p.items)[N] + i.tokens
        BY <1>2, <2>1, <2>2, OneMoreItem
      <3> QED BY <1>5, <2>1, <2>2, <3>1 DEF Packed
    <2>5. ASSUME NEW k \in DOMAIN c.items PROVE \E j \in 1..n : scored[j].id = c.items[k].id
      <3>1. CASE k = N + 1
        BY <1>1, <2>1, <2>3, <3>1
      <3>2. CASE k \in 1..N
        <4>1. PICK j \in 1..(n - 1) : scored[j].id = p.items[k].id
          BY <1>2, <3>2 DEF Packed
        <4> QED BY <1>1, <2>3, <3>2, <4>1
      <3> QED BY <2>3, <3>1, <3>2
    <2>6. ASSUME NEW k \in DOMAIN c.items, NEW l \in DOMAIN c.items, NEW x \in 1..Len(scored), NEW y \in 1..Len(scored),
                 k < l, c.items[k].id = scored[x].id, c.items[l].id = scored[y].id
          PROVE  x < y
      <3>1. k \in 1..N
        <4>1. k # N + 1
          BY <1>2, <2>3, <2>6
        <4> QED BY <2>3, <4>1
      <3>2. CASE l \in 1..N
        <4>1. p.items[k].id = scored[x].id /\ p.items[l].id = scored[y].id
          BY <2>3, <2>6, <3>1, <3>2
        <4> QED BY <1>2, <2>6, <3>1, <3>2, <4>1 DEF Packed
      <3>3. CASE l = N + 1
        <4>1. y = n
          BY <1>1, <2>1, <2>3, <2>6, <3>3
        <4>2. PICK j \in 1..(n - 1) : scored[j].id = p.items[k].id
          BY <1>2, <3>1 DEF Packed
        <4>3. x = j
          <5>1. j \in 1..Len(scored) /\ scored[j].id = scored[x].id
            BY <1>1, <2>3, <2>6, <3>1, <4>2
          <5> QED BY <5>1
        <4> QED BY <1>1, <4>1, <4>3
      <3> QED BY <2>3, <3>2, <3>3
    <2>7. ASSUME NEW j \in 1..n, \A k \in DOMAIN c.items : c.items[k].id # scored[j].id
          PROVE  Left(c, j)
      <3>1. j # n
        BY <2>1, <2>3, <2>7
      <3>2. j \in 1..(n - 1)
        BY <1>1, <3>1
      <3>3. \A k \in DOMAIN p.items : p.items[k].id # scored[j].id
        BY <1>2, <2>3, <2>7
      <3>4. Left(p, j)
        BY <3>2, <3>3 DEF Packed
      <3>5. scored[j].full \in Nat /\ scored[j].short \in Nat
        BY <1>1 DEF Fitting
      <3>6. c.used \in Nat /\ p.used <= c.used
        BY <1>2, <2>2
      <3> QED BY <1>2, <3>4, <3>5, <3>6, LeftOutStays
    <2> HIDE DEF N
    <2> QED BY <2>4, <2>5, <2>6, <2>7 DEF Packed
  <1>6. (c = p /\ Left(p, n)) \/ Taken(c, p, m, budget)
    BY <1>3, TakenOrLeftOut
  <1> HIDE DEF c
  <1>7. ASSUME Taken(c, p, m, budget) PROVE Packed(c, scored, budget, compress, n)
    <2>1. PICK t \in Nat, b \in BOOLEAN :
            /\ p.used + t <= budget
            /\ c = [items |-> Append(p.items, [id |-> m.id, tokens |-> t, summarized |-> b]), used |-> p.used + t]
      BY <1>7 DEF Taken
    <2> DEFINE i == [id |-> m.id, tokens |-> t, summarized |-> b]
    <2>2. i = [id |-> m.id, tokens |-> t, summarized |-> b] /\ c = [items |-> Append(p.items, i), used |-> p.used + t]
      BY <2>1
    <2> HIDE DEF i
    <2> QED BY <1>5, <2>1, <2>2
  <1>8. Packed(c, scored, budget, compress, n)
    BY <1>4, <1>6, <1>7
  <1> QED BY <1>8 DEF c

LEMMA PackedToTheEnd ==
  ASSUME NEW Ids, NEW scored, NEW budget \in Nat, NEW compress \in BOOLEAN,
         Len(scored) \in Nat, \A k \in 1..Len(scored) : Fitting(Ids, scored[k]),
         \A j, k \in 1..Len(scored) : scored[j].id = scored[k].id => j = k
  PROVE  LET p == R!PackToBudget(scored, budget, compress) IN
         p \in PackState(Ids) /\ Packed(p, scored, budget, compress, Len(scored))
  <1> DEFINE N == Len(scored)
             Run == R!Packing(scored, budget, compress)
             Good == {n \in 0..N : Run[n] \in PackState(Ids) /\ Packed(Run[n], scored, budget, compress, n)}
  <1>1. /\ \A n \in 0..N : Run[n] \in PackState(Ids)
        /\ Run[0] = [items |-> <<>>, used |-> 0]
        /\ \A n \in 1..N : Run[n] = R!Consider(Run[n - 1], scored[n], budget, compress)
    BY PackingIs
  <1> HIDE DEF Run
  <1>2. 0 \in 0..N /\ N \in 0..N
    OBVIOUS
  <1>3. Packed(Run[0], scored, budget, compress, 0)
    <2>1. Run[0].items = <<>> /\ Run[0].used = 0 /\ DOMAIN Run[0].items = {} /\ Len(Run[0].items) = 0
      BY <1>1
    <2>2. Tokens(<<>>)[0] = 0
      <3>1. <<>> \in Seq(Item(Ids))
        OBVIOUS
      <3> QED BY <3>1, TokensAre
    <2>3. Tokens(Run[0].items)[Len(Run[0].items)] = Run[0].used
      BY <2>1, <2>2
    <2>4. 1..0 = {}
      OBVIOUS
    <2> QED BY <2>1, <2>3, <2>4 DEF Packed
  <1>4. 0 \in Good
    BY <1>1, <1>2, <1>3
  <1>5. ASSUME NEW n \in 1..N, n - 1 \in Good PROVE n \in Good
    <2>1. n \in 0..N /\ Run[n - 1] \in PackState(Ids) /\ Packed(Run[n - 1], scored, budget, compress, n - 1)
      BY <1>5
    <2>2. Packed(R!Consider(Run[n - 1], scored[n], budget, compress), scored, budget, compress, n)
      BY <2>1, PackedGrows
    <2> QED BY <1>1, <2>1, <2>2
  <1>6. N \in Good
    <2> HIDE DEF Good
    <2>1. N \in Nat
      OBVIOUS
    <2> HIDE DEF N
    <2> QED BY <1>2, <1>4, <1>5, <2>1, UpTo
  <1> QED BY <1>6 DEF Run, R!PackToBudget

\* A retrieval has answered what it was asked; so has a consolidation.
PackAnswered ==
  call = "pack" =>
    /\ input \in PackInputs
    /\ result = R!PackToBudget(input.scored, input.budget, input.compress)
MineAnswered ==
  call = "mine" => input \in WorkflowInputs /\ result = R!FindRepeatedWorkflows(input)

LEMMA MemoryAnswers == CallSpec => [](PackAnswered /\ MineAnswered)
  <1> DEFINE BothAnswered == PackAnswered /\ MineAnswered
  <1>1. Uncalled => BothAnswered
    BY DEF Uncalled, PackAnswered, MineAnswered
  <1>2. BothAnswered /\ [OneCall]_callVars => BothAnswered'
    <2> SUFFICES ASSUME BothAnswered, [OneCall]_callVars PROVE BothAnswered'
      OBVIOUS
    <2>1. CASE Pack
      BY <2>1 DEF Pack, Return, PackAnswered, MineAnswered
    <2>2. CASE Mine
      BY <2>2 DEF Mine, Return, PackAnswered, MineAnswered
    <2>3. CASE call' \notin {"pack", "mine"}
      BY <2>3 DEF PackAnswered, MineAnswered
    <2>4. CASE UNCHANGED callVars
      BY <2>4 DEF callVars, PackAnswered, MineAnswered
    <2> QED BY <2>1, <2>2, <2>3, <2>4 DEF OneCall, AfterCall, Return, Match, Accrue, Forecast, Rank, Scan,
                                          Chase, Grade, Report, ReadStatement, ReadExport
  <1> QED BY <1>1, <1>2, PTL DEF CallSpec

LEMMA PackingIsSound ==
  ASSUME PacksAreGiven, PackAnswered
  PROVE  BudgetKept /\ NothingFitsLeft
  <1> SUFFICES ASSUME call = "pack" PROVE BudgetKept /\ NothingFitsLeft
    BY DEF BudgetKept, NothingFitsLeft, Called
  <1> DEFINE scored == input.scored
             budget == input.budget
             compress == input.compress
             Ids == {scored[k].id : k \in DOMAIN scored}
             N == Len(scored)
  <1>1. /\ scored \in Seq({scored[k] : k \in DOMAIN scored}) /\ budget \in Nat /\ compress \in BOOLEAN
        /\ \A k \in DOMAIN scored : scored[k].full \in Nat /\ scored[k].short \in Nat
        /\ \A j, k \in DOMAIN scored : scored[j].id = scored[k].id => j = k
        /\ result = R!PackToBudget(scored, budget, compress)
    <2>1. input \in PackInputs /\ result = R!PackToBudget(scored, budget, compress)
      BY DEF PackAnswered
    <2> QED BY <2>1 DEF PacksAreGiven
  <1>2. N \in Nat /\ DOMAIN scored = 1..N
    BY <1>1
  <1> HIDE DEF scored, budget, compress, N
  <1>3. \A k \in 1..N : Fitting(Ids, scored[k])
    BY <1>1, <1>2 DEF Fitting
  <1> HIDE DEF Ids
  <1>4. result \in PackState(Ids) /\ Packed(result, scored, budget, compress, N)
    BY <1>1, <1>2, <1>3, PackedToTheEnd DEF N
  <1>5. result.items \in Seq(Item(Ids)) /\ DOMAIN result.items = 1..Len(result.items)
    BY <1>4 DEF PackState
  <1>6. BudgetKept
    <2> DEFINE rank(id) == CHOOSE k \in DOMAIN scored : scored[k].id = id
    <2>1. ASSUME NEW k \in DOMAIN result.items
          PROVE  rank(result.items[k].id) \in 1..N /\ scored[rank(result.items[k].id)].id = result.items[k].id
      <3>1. \E j \in DOMAIN scored : scored[j].id = result.items[k].id
        BY <1>2, <1>4 DEF Packed, N
      <3> QED BY <1>2, <3>1
    <2> HIDE DEF rank
    <2>2. ASSUME NEW j \in DOMAIN result.items, NEW k \in DOMAIN result.items, j < k
          PROVE  rank(result.items[j].id) < rank(result.items[k].id)
      BY <1>4, <2>1, <2>2 DEF Packed, N
    <2>3. TokensOf(result.items)[Len(result.items)] <= budget
      BY <1>4 DEF Packed, Tokens
    <2> QED BY <2>2, <2>3 DEF BudgetKept, scored, budget, rank
  <1>7. NothingFitsLeft
    <2>1. ASSUME NEW j \in DOMAIN scored, \A k \in DOMAIN result.items : result.items[k].id # scored[j].id
          PROVE  /\ result.used + scored[j].full > budget
                 /\ compress => scored[j].short = 0 \/ result.used + scored[j].short > budget
      <3>1. LeftOut(result, scored[j], budget, compress)
        BY <1>2, <1>4, <2>1 DEF Packed, N
      <3> QED BY <3>1 DEF LeftOut
    <2> QED BY <2>1 DEF NothingFitsLeft, scored, budget, compress
  <1> QED BY <1>6, <1>7

-----------------------------------------------------------------------------
(* Workflows that repeat. *)

\* t is what s has from i to j.
Part(S, s, i, j, t) ==
  /\ t \in Seq(S) /\ Len(t) = IF i <= j THEN j - i + 1 ELSE 0
  /\ \A k \in 1..Len(t) : t[k] = s[i + k - 1]
  /\ i \in 1..Len(s) /\ j \in 1..Len(s) /\ Len(s) \in Nat

LEMMA PartIs ==
  ASSUME NEW S, NEW s \in Seq(S), NEW i \in DOMAIN s, NEW j \in DOMAIN s
  PROVE  Part(S, s, i, j, SubSeq(s, i, j))
  <1>1. i \in 1..Len(s) /\ j \in 1..Len(s) /\ Len(s) \in Nat
    OBVIOUS
  <1> DEFINE t == SubSeq(s, i, j)
  <1>2. CASE i <= j
    <2>1. t \in Seq(S) /\ Len(t) = j - i + 1 /\ \A k \in 1..Len(t) : t[k] = s[i + k - 1]
      BY <1>1, <1>2
    <2> HIDE DEF t
    <2>2. Part(S, s, i, j, t)
      BY <1>1, <1>2, <2>1 DEF Part
    <2> QED BY <2>2 DEF t
  <1>3. CASE ~(i <= j)
    <2>1. t = <<>>
      BY <1>1, <1>3
    <2> HIDE DEF t
    <2>2. Part(S, s, i, j, t)
      BY <1>1, <1>3, <2>1 DEF Part
    <2> QED BY <2>2 DEF t
  <1> QED BY <1>2, <1>3

\* What a sequence holds is a part of it.
LEMMA HeldIsPart ==
  ASSUME NEW S, NEW s \in Seq(S), NEW t
  PROVE  R!Holds(s, t) <=> \E i, j \in DOMAIN s : t = SubSeq(s, i, j) /\ Part(S, s, i, j, t)
  <1>1. R!Holds(s, t) <=> \E i, j \in DOMAIN s : SubSeq(s, i, j) = t
    BY Zenon DEF R!Holds
  <1>2. \A i, j \in DOMAIN s : Part(S, s, i, j, SubSeq(s, i, j))
    BY Zenon, PartIs
  <1> QED BY Zenon, <1>1, <1>2

LEMMA SameParts ==
  ASSUME NEW S, NEW s \in Seq(S), NEW t \in Seq(S), Len(s) = Len(t), \A k \in 1..Len(s) : s[k] = t[k]
  PROVE  s = t
  OBVIOUS

LEMMA PlaceInPart ==
  ASSUME NEW n \in Nat, NEW k \in 1..n, NEW l \in 1..n, NEW m \in 1..(l - k + 1)
  PROVE  k + m - 1 \in 1..n
  OBVIOUS

LEMMA PartOfPart ==
  ASSUME NEW S, NEW a \in Seq(S), NEW b, NEW c, R!Holds(a, b), R!Holds(b, c)
  PROVE  R!Holds(a, c)
  <1>1. PICK i \in DOMAIN a, j \in DOMAIN a : Part(S, a, i, j, b)
    BY HeldIsPart
  <1>2. b \in Seq(S)
    BY <1>1 DEF Part
  <1>3. PICK k \in DOMAIN b, l \in DOMAIN b : Part(S, b, k, l, c)
    BY <1>2, HeldIsPart
  <1> DEFINE p == i + k - 1
             q == i + l - 1
             d == SubSeq(a, p, q)
  <1>4. /\ i \in 1..Len(a) /\ j \in 1..Len(a) /\ Len(a) \in Nat /\ DOMAIN a = 1..Len(a)
        /\ k \in 1..Len(b) /\ l \in 1..Len(b) /\ i <= j /\ Len(b) = j - i + 1
        /\ \A m \in 1..Len(b) : b[m] = a[i + m - 1]
        /\ c \in Seq(S) /\ Len(c) = IF k <= l THEN l - k + 1 ELSE 0
        /\ \A m \in 1..Len(c) : c[m] = b[k + m - 1]
    <2>1. k \in 1..Len(b)
      BY <1>3 DEF Part
    <2>2. i <= j
      BY <1>1, <2>1 DEF Part
    <2>3. i \in 1..Len(a) /\ j \in 1..Len(a) /\ Len(a) \in Nat /\ Len(b) = j - i + 1
          /\ \A m \in 1..Len(b) : b[m] = a[i + m - 1]
      BY <1>1, <2>2 DEF Part
    <2>4. DOMAIN a = 1..Len(a)
      OBVIOUS
    <2>5. /\ k \in 1..Len(b) /\ l \in 1..Len(b)
          /\ c \in Seq(S) /\ Len(c) = IF k <= l THEN l - k + 1 ELSE 0
          /\ \A m \in 1..Len(c) : c[m] = b[k + m - 1]
      BY <1>3 DEF Part
    <2> QED BY Zenon, <2>2, <2>3, <2>4, <2>5
  <1>5. p \in DOMAIN a /\ q \in DOMAIN a
    BY <1>4
  <1> HIDE DEF d
  <1>6. Part(S, a, p, q, d)
    <2> HIDE DEF p, q
    <2> QED BY <1>5, PartIs DEF d
  <1>7. Len(d) = Len(c)
    <2>1. /\ k <= l <=> p <= q
          /\ q - p = l - k
      BY <1>4
    <2>2. Len(d) = IF p <= q THEN q - p + 1 ELSE 0
      BY <1>6 DEF Part
    <2>3. Len(c) = IF k <= l THEN l - k + 1 ELSE 0
      BY <1>4
    <2> HIDE DEF p, q
    <2> QED BY <2>1, <2>2, <2>3
  <1>8. ASSUME NEW m \in 1..Len(c) PROVE d[m] = c[m]
    <2>1. k <= l /\ Len(c) = l - k + 1
      BY <1>4
    <2>2. k + m - 1 \in 1..Len(b)
      <3>1. k \in 1..Len(b) /\ l \in 1..Len(b) /\ Len(b) \in Nat
        BY <1>4
      <3>2. m \in 1..(l - k + 1)
        BY Zenon, <2>1
      <3> QED BY Zenon, <3>1, <3>2, PlaceInPart
    <2>3. i + (k + m - 1) - 1 = p + m - 1
      BY <1>4, <2>1
    <2>4. b[k + m - 1] = a[p + m - 1] /\ c[m] = b[k + m - 1]
      BY <1>4, <2>2, <2>3
    <2>5. d[m] = a[p + m - 1]
      <3> HIDE DEF p, q
      <3> QED BY <1>6, <1>7 DEF Part
    <2> QED BY <2>4, <2>5
  <1>9. d = c
    <2>1. d \in Seq(S)
      BY <1>6 DEF Part
    <2> QED BY <1>4, <1>7, <1>8, <2>1, SameParts
  <1> QED BY <1>5, <1>9 DEF R!Holds, d

\* A part is no longer than the whole, and as long only if it is the whole.
LEMMA PartLength ==
  ASSUME NEW S, NEW a \in Seq(S), NEW b, R!Holds(a, b)
  PROVE  b \in Seq(S) /\ Len(b) <= Len(a) /\ (Len(b) = Len(a) => b = a)
  <1>1. PICK i \in DOMAIN a, j \in DOMAIN a : Part(S, a, i, j, b)
    BY HeldIsPart
  <1>2. b \in Seq(S) /\ Len(a) \in Nat /\ Len(b) <= Len(a)
    BY <1>1 DEF Part
  <1>3. ASSUME Len(b) = Len(a) PROVE b = a
    <2>1. i = 1
      BY <1>1, <1>3 DEF Part
    <2>2. \A m \in 1..Len(b) : b[m] = a[m]
      BY <1>1, <2>1 DEF Part
    <2> QED BY <1>2, <1>3, <2>2, SameParts
  <1> QED BY <1>2, <1>3

LEMMA WholeIsPart ==
  ASSUME NEW S, NEW a \in Seq(S), Len(a) >= 1
  PROVE  R!Holds(a, a)
  <1>1. Len(a) \in Nat /\ DOMAIN a = 1..Len(a) /\ 1 \in DOMAIN a /\ Len(a) \in DOMAIN a
    OBVIOUS
  <1> DEFINE b == SubSeq(a, 1, Len(a))
  <1>2. Part(S, a, 1, Len(a), b)
    BY <1>1, PartIs
  <1> HIDE DEF b
  <1>3. b \in Seq(S) /\ Len(b) = Len(a) /\ \A k \in 1..Len(a) : b[k] = a[k]
    BY <1>1, <1>2 DEF Part
  <1>4. b = a
    BY <1>3, SameParts
  <1> QED BY <1>1, <1>4 DEF R!Holds, b

\* The grams of a run are its parts of two to six calls.
LEMMA GramsAreParts ==
  ASSUME NEW S, NEW run \in Seq(S), NEW g
  PROVE  g \in R!Grams(run) <=> R!Holds(run, g) /\ Len(g) \in 2..6
  <1>0. DOMAIN run = 1..Len(run) /\ Len(run) \in Nat
    OBVIOUS
  <1>1. ASSUME g \in R!Grams(run) PROVE R!Holds(run, g) /\ Len(g) \in 2..6
    <2>1. PICK w \in R!Windows(run) : g = SubSeq(run, w[1], w[2])
      BY <1>1 DEF R!Grams
    <2>2. w[1] \in DOMAIN run /\ w[2] \in DOMAIN run /\ w[2] - w[1] + 1 \in 2..6
      BY <1>0, <2>1 DEF R!Windows, R!MIN_LEN, R!MAX_LEN
    <2>3. Part(S, run, w[1], w[2], g)
      BY <2>1, <2>2, PartIs
    <2>4. w[1] <= w[2]
      BY <1>0, <2>2
    <2>5. Len(g) \in 2..6
      BY <2>2, <2>3, <2>4 DEF Part
    <2> QED BY <2>1, <2>2, <2>5 DEF R!Holds
  <1>2. ASSUME R!Holds(run, g), Len(g) \in 2..6 PROVE g \in R!Grams(run)
    <2>1. PICK i \in DOMAIN run, j \in DOMAIN run : g = SubSeq(run, i, j) /\ Part(S, run, i, j, g)
      BY <1>2, HeldIsPart
    <2>3. j - i + 1 \in 2..6
      BY <1>2, <2>1 DEF Part
    <2>4. <<i, j>> \in R!Windows(run)
      BY <1>0, <2>3 DEF R!Windows, R!MIN_LEN, R!MAX_LEN
    <2> DEFINE w == <<i, j>>
    <2>5. w \in R!Windows(run) /\ w[1] = i /\ w[2] = j
      BY <2>4
    <2> HIDE DEF w
    <2>6. g = SubSeq(run, w[1], w[2])
      BY <2>1, <2>5
    <2> QED BY <2>5, <2>6 DEF R!Grams
  <1> QED BY <1>1, <1>2

\* Recollection counts as this module does.
LEMMA SameCount ==
  ASSUME NEW S
  PROVE  R!Cardinality(S) = Cardinality(S)
  BY Zenon DEF R!Cardinality, Cardinality

\* Runs of calls, and how many of them hold a gram.
Running(Tools, runs) ==
  Len(runs) \in Nat /\ DOMAIN runs = 1..Len(runs) /\ \A r \in DOMAIN runs : runs[r] \in Seq(Tools)

LEMMA CountsOfGrams ==
  ASSUME NEW Tools, NEW runs, Running(Tools, runs), NEW g, Len(g) \in 2..6
  PROVE  /\ R!RunsWith(runs, g) \in Nat
         /\ R!RunsWith(runs, g) = Cardinality({r \in DOMAIN runs : R!Holds(runs[r], g)})
         /\ \A h : R!Holds(h, g) /\ h \in Seq(Tools) => R!RunsWith(runs, h) <= R!RunsWith(runs, g)
  <1> DEFINE With(h) == {r \in DOMAIN runs : h \in R!Grams(runs[r])}
  <1>1. \A h : With(h) \subseteq 1..Len(runs)
    BY DEF Running
  <1>2. IsFiniteSet(1..Len(runs))
    BY FS_Interval DEF Running
  <1>3. ASSUME NEW h PROVE IsFiniteSet(With(h)) /\ R!RunsWith(runs, h) = Cardinality(With(h))
                           /\ R!RunsWith(runs, h) \in Nat
    <2>1. IsFiniteSet(With(h))
      <3> HIDE DEF With
      <3> QED BY <1>1, <1>2, FS_Subset
    <2>2. R!RunsWith(runs, h) = Cardinality(With(h))
      BY SameCount DEF R!RunsWith
    <2> HIDE DEF With
    <2> QED BY <2>1, <2>2, FS_CardinalityType
  <1>4. With(g) = {r \in DOMAIN runs : R!Holds(runs[r], g)}
    BY GramsAreParts DEF Running
  <1>5. ASSUME NEW h, R!Holds(h, g), h \in Seq(Tools)
        PROVE  R!RunsWith(runs, h) <= R!RunsWith(runs, g)
    <2>1. With(h) \subseteq With(g)
      <3> SUFFICES ASSUME NEW r \in DOMAIN runs, h \in R!Grams(runs[r]) PROVE g \in R!Grams(runs[r])
        OBVIOUS
      <3>1. runs[r] \in Seq(Tools)
        BY DEF Running
      <3>2. R!Holds(runs[r], h)
        BY <3>1, GramsAreParts
      <3>3. R!Holds(runs[r], g)
        BY <1>5, <3>1, <3>2, PartOfPart
      <3> QED BY <3>1, <3>3, GramsAreParts
    <2>2. IsFiniteSet(With(g)) /\ IsFiniteSet(With(h))
      BY <1>3
    <2> HIDE DEF With
    <2>3. Cardinality(With(h)) <= Cardinality(With(g))
      BY <2>1, <2>2, FS_Subset
    <2> QED BY <1>3, <2>3
  <1>6. R!RunsWith(runs, g) = Cardinality(With(g)) /\ R!RunsWith(runs, g) \in Nat
    BY <1>3
  <1> QED BY <1>4, <1>5, <1>6

\* The grams that qualify are the parts of the runs that three of them share.
LEMMA QualifyingAre ==
  ASSUME NEW Tools, NEW runs, Running(Tools, runs)
  PROVE  /\ \A g \in R!Qualifying(runs) : g \in Seq(Tools) /\ Len(g) \in 2..6
         /\ R!Qualifying(runs) =
              {g \in UNION {R!Grams(runs[r]) : r \in DOMAIN runs} :
                 Cardinality({r \in DOMAIN runs : R!Holds(runs[r], g)}) >= R!MIN_REPEATS}
  <1> DEFINE All == UNION {R!Grams(runs[r]) : r \in DOMAIN runs}
  <1>1. ASSUME NEW g \in All PROVE g \in Seq(Tools) /\ Len(g) \in 2..6
    <2>1. PICK r \in DOMAIN runs : g \in R!Grams(runs[r])
      OBVIOUS
    <2>2. runs[r] \in Seq(Tools)
      BY DEF Running
    <2>3. R!Holds(runs[r], g) /\ Len(g) \in 2..6
      BY <2>1, <2>2, GramsAreParts
    <2>4. g \in Seq(Tools)
      BY <2>2, <2>3, PartLength
    <2> QED BY <2>3, <2>4
  <1>2. R!Qualifying(runs) = {g \in All : R!RunsWith(runs, g) >= R!MIN_REPEATS}
    BY DEF R!Qualifying
  <1> HIDE DEF All
  <1>3. \A g \in All : R!RunsWith(runs, g) = Cardinality({r \in DOMAIN runs : R!Holds(runs[r], g)})
    BY <1>1, CountsOfGrams
  <1>4. R!Qualifying(runs) = {g \in All : Cardinality({r \in DOMAIN runs : R!Holds(runs[r], g)}) >= R!MIN_REPEATS}
    BY <1>2, <1>3
  <1>5. \A g \in R!Qualifying(runs) : g \in Seq(Tools) /\ Len(g) \in 2..6
    BY <1>1, <1>2
  <1> QED BY <1>4, <1>5 DEF All

LEMMA MiningIsSound ==
  ASSUME WorkflowsAreGiven, MineAnswered
  PROVE  WorkflowsCover
  <1> SUFFICES ASSUME call = "mine" PROVE WorkflowsCover
    BY DEF WorkflowsCover, Called
  <1> DEFINE runs == input
             Tools == UNION {{runs[r][k] : k \in DOMAIN runs[r]} : r \in DOMAIN runs}
             Q == R!Qualifying(runs)
             Count(g) == R!RunsWith(runs, g)
             Shared == {g \in UNION {R!Grams(input[r]) : r \in DOMAIN input} :
                          Cardinality({r \in DOMAIN input : R!Holds(input[r], g)}) >= R!MIN_REPEATS}
  <1>1. /\ runs \in Seq({runs[r] : r \in DOMAIN runs})
        /\ \A r \in DOMAIN runs : runs[r] \in Seq({runs[r][k] : k \in DOMAIN runs[r]})
        /\ result = R!FindRepeatedWorkflows(runs)
    BY DEF MineAnswered, WorkflowsAreGiven
  <1>2. Running(Tools, runs)
    <2>1. Len(runs) \in Nat /\ DOMAIN runs = 1..Len(runs)
      BY <1>1
    <2>2. ASSUME NEW r \in DOMAIN runs PROVE runs[r] \in Seq(Tools)
      <3> DEFINE S == {runs[r][k] : k \in DOMAIN runs[r]}
                 s == runs[r]
      <3>1. S \subseteq Tools /\ s \in Seq(S)
        BY <1>1
      <3> HIDE DEF S, Tools, s
      <3>2. s \in Seq(Tools)
        BY <3>1
      <3> QED BY <3>2 DEF s
    <2> HIDE DEF Tools
    <2> QED BY <2>1, <2>2 DEF Running
  <1>0. /\ \A g \in Shared : \E w \in result :
             /\ R!Holds(w.workflow, g)
             /\ w.count = Cardinality({r \in DOMAIN input : R!Holds(input[r], g)})
        /\ \A v, w \in result : v # w => ~(R!Holds(v.workflow, w.workflow) /\ v.count = w.count)
        => WorkflowsCover
    BY Zenon DEF WorkflowsCover
  <1> HIDE DEF runs, Tools, Q, Count, Shared
  <1>3. Shared = Q /\ \A g \in Q : g \in Seq(Tools) /\ Len(g) \in 2..6
    <2>1. Q = {g \in UNION {R!Grams(runs[r]) : r \in DOMAIN runs} :
                 Cardinality({r \in DOMAIN runs : R!Holds(runs[r], g)}) >= R!MIN_REPEATS}
      BY <1>2, QualifyingAre DEF Q
    <2>2. \A g \in Q : g \in Seq(Tools) /\ Len(g) \in 2..6
      BY <1>2, QualifyingAre DEF Q
    <2>3. Shared = Q
      BY <2>1, SameCount DEF Shared, runs
    <2> QED BY <2>2, <2>3
  <1>4. ASSUME NEW g \in Q
        PROVE  /\ Count(g) \in Nat
               /\ Count(g) = Cardinality({r \in DOMAIN input : R!Holds(input[r], g)})
               /\ \A h \in Q : R!Holds(h, g) => Count(h) <= Count(g)
    BY <1>2, <1>3, CountsOfGrams, SameCount DEF Count, runs
  <1> DEFINE Kept == {h \in Q : ~\E other \in Q : R!Subsumed(runs, h, other)}
             Found(h) == [workflow |-> h, count |-> Count(h)]
  <1>5. result = {Found(h) : h \in Kept}
    BY <1>1 DEF R!FindRepeatedWorkflows, Q, Count
  <1>6. ASSUME NEW g \in Q
        PROVE  \E w \in result : R!Holds(w.workflow, g) /\ w.count = Count(g)
    <2>0. R!Holds(g, g)
      <3>1. g \in Seq(Tools) /\ Len(g) \in 2..6
        BY Zenon, <1>3
      <3>2. \A n \in 2..6 : n >= 1
        OBVIOUS
      <3>3. Len(g) >= 1
        BY Zenon, <3>1, <3>2
      <3> QED BY <3>1, <3>3, WholeIsPart
    <2> DEFINE H == {h \in Q : R!Holds(h, g) /\ Count(h) = Count(g)}
               T == {6 - Len(h) : h \in H}
    <2>1. g \in H
      BY Zenon, <2>0
    <2>2. T \in SUBSET Nat /\ T # {}
      <3>1. \A h \in H : 6 - Len(h) \in Nat
        <4>1. \A n \in 2..6 : 6 - n \in Nat
          OBVIOUS
        <4>2. \A h \in H : Len(h) \in 2..6
          BY <1>3
        <4> HIDE DEF H
        <4> QED BY <4>1, <4>2
      <3> HIDE DEF H
      <3> QED BY <2>1, <3>1
    <2>3. PICK x \in T : \A y \in T : x <= y
      <3> HIDE DEF T
      <3> QED BY <2>2, LeastOf
    <2>4. PICK h \in H : x = 6 - Len(h)
      OBVIOUS
    <2>5. \A k \in H : Len(k) <= Len(h)
      <3> SUFFICES ASSUME NEW k \in H PROVE Len(k) <= Len(h)
        OBVIOUS
      <3>1. 6 - Len(h) <= 6 - Len(k)
        BY <2>3, <2>4
      <3>2. Len(k) \in Nat /\ Len(h) \in Nat
        BY <1>3
      <3> QED BY <3>1, <3>2
    <2>6. h \in Kept
      <3> SUFFICES ASSUME NEW other \in Q, R!Subsumed(runs, h, other) PROVE FALSE
        OBVIOUS
      <3>1. Len(other) > Len(h) /\ Count(h) <= Count(other) /\ R!Holds(other, h)
        BY DEF R!Subsumed, Count
      <3>2. h \in Q /\ R!Holds(h, g) /\ Count(h) = Count(g)
        OBVIOUS
      <3>3. R!Holds(other, g)
        BY <1>3, <3>1, <3>2, PartOfPart
      <3>4. Count(other) <= Count(g) /\ Count(other) \in Nat /\ Count(g) \in Nat
        BY <1>4, <3>3
      <3>5. other \in H
        BY <3>1, <3>2, <3>3, <3>4
      <3> QED BY <1>3, <2>5, <3>1, <3>2, <3>5
    <2>7. Found(h) \in result /\ Found(h).workflow = h /\ Found(h).count = Count(h)
      BY <1>5, <2>6
    <2> HIDE DEF Found
    <2> QED BY <2>7
  <1>7. ASSUME NEW v \in result, NEW w \in result, v # w
        PROVE  ~(R!Holds(v.workflow, w.workflow) /\ v.count = w.count)
    <2>1. PICK g \in Kept : v = Found(g)
      BY <1>5
    <2>2. PICK h \in Kept : w = Found(h)
      BY <1>5
    <2>3. v.workflow = g /\ v.count = Count(g) /\ w.workflow = h /\ w.count = Count(h) /\ g # h
      BY <1>7, <2>1, <2>2
    <2> SUFFICES ASSUME R!Holds(g, h), Count(g) = Count(h) PROVE FALSE
      BY <2>3
    <2>4. Len(h) <= Len(g) /\ Len(h) # Len(g)
      BY <1>3, <2>3, PartLength
    <2>5. Len(g) > Len(h)
      BY <1>3, <2>4
    <2>6. Count(h) <= Count(g)
      BY <1>4
    <2>7. R!Subsumed(runs, h, g)
      BY <2>5, <2>6 DEF R!Subsumed, Count
    <2> QED BY <2>7
  <1>8. \A g \in Shared : \E w \in result :
          R!Holds(w.workflow, g) /\ w.count = Cardinality({r \in DOMAIN input : R!Holds(input[r], g)})
    BY <1>3, <1>4, <1>6
  <1> QED BY <1>0, <1>7, <1>8

\* A retrieval fills its budget and a consolidation reports what repeats,
\* whatever was recalled and whatever the runs called.
THEOREM RecollectionStaysSound ==
  ASSUME PacksAreGiven, WorkflowsAreGiven
  PROVE  CallSpec => []RecollectionSound
  <1>1. PackAnswered /\ MineAnswered => RecollectionSound
    BY PackingIsSound, MiningIsSound DEF RecollectionSound
  <1> QED BY <1>1, MemoryAnswers, PTL

=============================================================================
