---------------------------- MODULE MemoryEngine ----------------------------
(***************************************************************************)
(* The Recall memory engine (memory/recall/core): ingest with conflict     *)
(* resolution, retrieval with reinforcement, the consolidation pass and    *)
(* delete, over rows in Postgres and a provenance graph in Neo4j.          *)
(*                                                                         *)
(* A request is one transaction at READ COMMITTED: it reads committed      *)
(* rows, stages its writes, holds the locks of the rows it updated and     *)
(* publishes everything at COMMIT.  The graph is written in the middle of  *)
(* the transaction, best-effort, and no rollback undoes it.                *)
(*                                                                         *)
(* All beliefs are semantic, of one user, and near each other: any belief  *)
(* a request has listed can be the nearest to a new fact.  The LLM's       *)
(* decisions, the ranking of a retrieval and the age of tombstones are     *)
(* free choices.                                                           *)
(***************************************************************************)
EXTENDS Integers, Sequences, SequencesExt

CONSTANTS
  Old,           \* beliefs there are at the start
  Flagged,       \* pairs of old beliefs in the log as flagged conflicts
  Facts,         \* the facts of each ingest: ingest -> number of facts
  Retrievers, Consolidators, Deleters,
  Fading,        \* bound: beliefs that may decay below tombstone_threshold
  Sure,          \* beliefs with confidence over crystallize_threshold
  None

Ingests == DOMAIN Facts
Requests == Ingests \cup Retrievers \cup Consolidators \cup Deleters
Beliefs == Old \cup {<<r, k>> : r \in Ingests, k \in 1..2}

ASSUME FactCounts == \A r \in Ingests : Facts[r] \in 1..2
ASSUME BeliefsAreFinite == IsFiniteSet(Beliefs)
\* A new unit has an id of its own, and a log entry names two units.
ASSUME NewIsNotOld == Old \cap {<<r, k>> : r \in Ingests, k \in 1..2} = {}
ASSUME FlaggedAreOld == \A p \in Flagged : p \in Old \X Old /\ p[1] # p[2]
ASSUME SureAreBeliefs == Sure \subseteq Beliefs
ASSUME KindsAreApart ==
  /\ Ingests \cap Retrievers = {} /\ Ingests \cap Consolidators = {}
  /\ Retrievers \cap Consolidators = {}
  /\ Deleters \cap (Ingests \cup Retrievers \cup Consolidators) = {}

VARIABLES
  status,    \* memory_units.status, "absent" before the insert, "gone" after the delete
  weak,      \* units whose decayed strength is below tombstone_threshold
  count,     \* memory_units.retrieval_count
  log,       \* conflict_log: [a, b, resolution]
  nodes,     \* :Belief nodes in Neo4j
  explained, \* beliefs with a SUPPORTS evidence in Neo4j
  pc,
  seen,      \* beliefs an ingest listed or added: the candidates of find_nearest
  todo,      \* rows a retrieval or a pass has still to write, in order
  target,    \* the belief an ingest retires or contradicts, or a delete removes
  staged,    \* uncommitted statuses: belief -> status
  bumps,     \* uncommitted reinforcements: belief -> retrieval_count
  entries,   \* uncommitted log entries
  hits,      \* history: committed retrievals that served the belief
  swept,     \* history: units a sweep tombstoned
  dark,      \* history: beliefs whose provenance write failed
  overlap    \* history: kinds of requests that were in flight together

db == <<status, weak, count, log>>
graph == <<nodes, explained>>
tx == <<seen, todo, target, staged, bumps, entries>>
past == <<hits, swept, dark, overlap>>
memory == <<db, graph, pc, tx, past>>

InitWith(cast) ==
  /\ status = [b \in Beliefs |-> IF b \in Old THEN "active" ELSE "absent"]
  /\ weak = {} /\ count = [b \in Beliefs |-> 0]
  /\ log = {[a |-> p[1], b |-> p[2], resolution |-> "flagged"] : p \in Flagged}
  /\ nodes = Old /\ explained = Old
  /\ pc = [r \in Requests |-> IF r \in cast THEN "idle" ELSE "away"]
  /\ seen = [r \in Requests |-> {}] /\ todo = [r \in Requests |-> <<>>]
  /\ target = [r \in Requests |-> None]
  /\ staged = [r \in Requests |-> <<>>] /\ bumps = [r \in Requests |-> <<>>]
  /\ entries = [r \in Requests |-> {}]
  /\ hits = [b \in Beliefs |-> 0] /\ swept = {} /\ dark = {} /\ overlap = {}

\* f with b mapped to v, and f with everything g maps mapped as g does.
Put(f, b, v) == [x \in DOMAIN f \cup {b} |-> IF x = b THEN v ELSE f[x]]
Overlay(f, g) == [x \in DOMAIN f \cup DOMAIN g |-> IF x \in DOMAIN g THEN g[x] ELSE f[x]]

Goto(r, place) == pc' = [pc EXCEPT ![r] = place]
\* r's transaction, or the two of a delete, are under way.
InFlight(r) == pc[r] \notin {"away", "idle", "done", "failed"}

Live(b) == status[b] \in {"active", "crystallized"}
Exists(b) == status[b] \notin {"absent", "gone"}

\* Mutant for BeliefsSound: reinforcement runs outside the transaction's locks.
LocksWithoutBumps(r) == {b \in DOMAIN staged[r] : Exists(b)}
\* Rows r has updated: their locks are kept to COMMIT.
Locks(r) == {b \in DOMAIN staged[r] \cup DOMAIN bumps[r] : Exists(b)}

Free(r, b) == \A q \in Requests \ {r} : b \notin Locks(q)

\* r begins: which kinds of requests have been in flight together.
Meets(r) ==
  overlap' = overlap \cup
    {k \in {"ingests", "pass"} :
       \E q \in Requests \ {r} : InFlight(q) /\ r \in Ingests \cup Consolidators
         /\ IF k = "ingests" THEN {q, r} \subseteq Ingests
            ELSE {q, r} \cap Consolidators # {} /\ {q, r} \subseteq Ingests \cup Consolidators}

-----------------------------------------------------------------------------
(* ingest.                                                                  *)

\* list_semantic_for_user: active units, crystallized ones are not checked.
Candidates == {b \in Beliefs : status[b] = "active"}

\* The facts are extracted and embedded; the transaction opens.
ListBeliefs(r) ==
  /\ pc[r] = "idle"
  /\ seen' = [seen EXCEPT ![r] = Candidates]
  /\ Goto(r, "resolve") /\ Meets(r)
  /\ UNCHANGED <<db, graph, todo, target, staged, bumps, entries, hits, swept, dark>>

Written(r) == {b \in DOMAIN staged[r] : b \notin Old /\ b[1] = r}
NewOf(r) == <<r, Cardinality(Written(r)) + 1>>
LastOf(r) == <<r, Cardinality(Written(r))>>

\* Decisive resolutions retire the existing belief.
Decisive == {"auto_resolved", "merged"}

\* Mutant for LogIsTrue: only what a person must see is logged.
EntryFlaggedOnly(e, b, d) ==
  IF d \in Decisive THEN {} ELSE {[a |-> e, b |-> b, resolution |-> d]}
\* log_conflict.
Entry(e, b, d) == {[a |-> e, b |-> b, resolution |-> d]}

\* find_nearest and resolve (the LLM, or its fallback auto_resolved), then the
\* surviving belief is inserted.  Without candidates the fact is just inserted.
Resolve(r) ==
  LET b == NewOf(r) IN
  /\ pc[r] = "resolve"
  /\ staged' = [staged EXCEPT ![r] = Put(@, b, "active")]
  /\ seen' = [seen EXCEPT ![r] = @ \cup {b}]
  /\ IF seen[r] = {}
     THEN Goto(r, "prove") /\ UNCHANGED <<target, entries>>
     ELSE \E e \in seen[r] : \E d \in Decisive \cup {"flagged"} :
            /\ target' = [target EXCEPT ![r] = e]
            /\ entries' = [entries EXCEPT ![r] = @ \cup Entry(e, b, d)]
            /\ Goto(r, IF d \in Decisive THEN "retire" ELSE "prove")
  /\ UNCHANGED <<db, graph, todo, bumps, past>>

\* set_status(existing, "tombstoned").
StatusOfRetired(b) == "tombstoned"

\* The UPDATE of the superseded unit waits for its lock; a deleted row is
\* matched by no UPDATE.
Retire(r) ==
  LET e == target[r] IN
  /\ pc[r] = "retire"
  /\ Free(r, e)
  /\ staged' = [staged EXCEPT ![r] = IF status[e] = "gone" THEN @
                                     ELSE Put(@, e, StatusOfRetired(e))]
  /\ Goto(r, "prove")
  /\ UNCHANGED <<db, graph, seen, todo, target, bumps, entries, past>>

\* record_direct, record_contradiction and link_resolution: each write MERGEs
\* the nodes it names, and each may fail without stopping the ingest.
Prove(r) ==
  LET b == LastOf(r) IN
  LET named == {b} \cup (IF entries[r] # {} THEN {target[r]} ELSE {}) IN
  /\ pc[r] = "prove"
  /\ \E W \in {named, {}} : \E ok \in BOOLEAN :
       /\ ok => b \in W
       /\ nodes' = nodes \cup W
       /\ explained' = IF ok THEN explained \cup {b} ELSE explained
       /\ dark' = IF ok THEN dark ELSE dark \cup {b}
  /\ Goto(r, IF Cardinality(Written(r)) < Facts[r] THEN "resolve" ELSE "commit")
  /\ UNCHANGED <<db, tx, hits, swept, overlap>>

-----------------------------------------------------------------------------
(* retrieve.                                                                *)

\* search_similar, score_candidates and pack_to_budget: some of the units that
\* are not tombstoned, best first.
Search(q) ==
  /\ pc[q] = "idle"
  /\ \E s \in SetToAllKPermutations({b \in Beliefs : Live(b)}) :
       todo' = [todo EXCEPT ![q] = s]
  /\ Goto(q, "reinforce") /\ Meets(q)
  /\ UNCHANGED <<db, graph, seen, target, staged, bumps, entries, hits, swept, dark>>

\* apply_reinforcement of the next unit: retrieval_count + 1 in the UPDATE.
Reinforce(q) ==
  LET b == Head(todo[q]) IN
  /\ pc[q] = "reinforce" /\ todo[q] # <<>>
  /\ Free(q, b)
  /\ bumps' = [bumps EXCEPT ![q] = IF status[b] = "gone" THEN @
                                   ELSE Put(@, b, count[b] + 1)]
  /\ todo' = [todo EXCEPT ![q] = Tail(@)]
  /\ UNCHANGED <<db, graph, pc, seen, target, staged, entries, past>>

Reinforced(q) ==
  /\ pc[q] = "reinforce" /\ todo[q] = <<>>
  /\ Goto(q, "commit")
  /\ UNCHANGED <<db, graph, tx, past>>

-----------------------------------------------------------------------------
(* consolidate: three passes in one transaction.  Each reads its rows, and  *)
(* the ORM writes them one by one, by primary key, before the next read.    *)

\* apply_dormancy_and_crystallize.
ReadSure(c) ==
  /\ pc[c] = "idle"
  /\ \E s \in SetToSeqs({b \in Sure : status[b] = "active"}) : todo' = [todo EXCEPT ![c] = s]
  /\ Goto(c, "crystallize") /\ Meets(c)
  /\ UNCHANGED <<db, graph, seen, target, staged, bumps, entries, hits, swept, dark>>

\* sweep_tombstones: the active units below the threshold.
ReadWeak(c) ==
  /\ pc[c] = "crystallize" /\ todo[c] = <<>>
  /\ \E s \in SetToSeqs({b \in weak : status[b] = "active" /\ b \notin DOMAIN staged[c]}) :
       todo' = [todo EXCEPT ![c] = s]
  /\ Goto(c, "sweep")
  /\ UNCHANGED <<db, graph, seen, target, staged, bumps, entries, past>>

\* compact: committed tombstones, some of them older than the retention.
ReadTombstones(c) ==
  /\ pc[c] = "sweep" /\ todo[c] = <<>>
  /\ \E S \in SUBSET {b \in Beliefs : status[b] = "tombstoned"} : \E s \in SetToSeqs(S) :
       todo' = [todo EXCEPT ![c] = s]
  /\ Goto(c, "compact")
  /\ UNCHANGED <<db, graph, seen, target, staged, bumps, entries, past>>

PassWrites(c) ==
  CASE pc[c] = "crystallize" -> "crystallized"
    [] pc[c] = "sweep" -> "tombstoned"
    [] pc[c] = "compact" -> "gone"

\* The next row of the pass is flushed; what it is by now is not looked at.
FlushRow(c) ==
  LET b == Head(todo[c]) IN
  /\ pc[c] \in {"crystallize", "sweep", "compact"} /\ todo[c] # <<>>
  /\ Free(c, b)
  /\ Exists(b) \/ pc[c] = "compact"
  /\ staged' = [staged EXCEPT ![c] = IF Exists(b) THEN Put(@, b, PassWrites(c)) ELSE @]
  /\ swept' = IF pc[c] = "sweep" THEN swept \cup {b} ELSE swept
  /\ todo' = [todo EXCEPT ![c] = Tail(@)]
  /\ UNCHANGED <<db, graph, pc, seen, target, bumps, entries, hits, dark, overlap>>

EndPasses(c) ==
  /\ pc[c] = "compact" /\ todo[c] = <<>>
  /\ Goto(c, "commit")
  /\ UNCHANGED <<db, graph, tx, past>>

-----------------------------------------------------------------------------
(* delete, COMMIT and failures.                                             *)

\* Mutant for EvidenceFollows: the cascade follows RESOLVED_FROM as well.
ErasedWithSuccessors(b) == {b} \cup {e.b : e \in {f \in log : f.a = b}}
\* cascade_delete: the node and its evidence.
Erased(b) == {b}

\* The provenance goes first, in a store and a transaction of its own, whether or
\* not the row is still there.
CascadeOf(d, b) ==
  /\ pc[d] = "idle"
  /\ target' = [target EXCEPT ![d] = b]
  /\ nodes' = nodes \ Erased(b) /\ explained' = explained \ Erased(b)
  /\ Goto(d, "row")
  /\ UNCHANGED <<db, seen, todo, staged, bumps, entries, past>>
Cascade(d) == \E b \in Beliefs : Exists(b) /\ CascadeOf(d, b)

\* delete_memory: get, DELETE and COMMIT; a missing row is no error.
DeleteRow(d) ==
  /\ pc[d] = "row"
  /\ Free(d, target[d])
  /\ status' = [status EXCEPT ![target[d]] = "gone"]
  /\ Goto(d, "done")
  /\ UNCHANGED <<weak, count, log, graph, tx, past>>

Forget(r) ==
  /\ staged' = [staged EXCEPT ![r] = <<>>] /\ bumps' = [bumps EXCEPT ![r] = <<>>]
  /\ entries' = [entries EXCEPT ![r] = {}] /\ todo' = [todo EXCEPT ![r] = <<>>]
  /\ UNCHANGED <<seen, target>>

\* session_scope commits.
Commit(r) ==
  /\ pc[r] = "commit"
  /\ status' = Overlay(status, staged[r])
  /\ count' = Overlay(count, bumps[r])
  /\ weak' = weak \ DOMAIN bumps[r]
  /\ log' = log \cup entries[r]
  /\ hits' = [b \in Beliefs |-> IF b \in DOMAIN bumps[r] THEN hits[b] + 1 ELSE hits[b]]
  /\ Forget(r) /\ Goto(r, "done")
  /\ UNCHANGED <<graph, swept, dark, overlap>>

\* session_scope rolls back: an error of the database or of an LLM or embedding
\* call, a crash, or an UPDATE that found its row deleted (StaleDataError).
Fail(r) ==
  /\ InFlight(r)
  /\ Forget(r) /\ Goto(r, "failed")
  /\ UNCHANGED <<db, graph, past>>

\* A cascade that fails is not caught: the delete ends before it changed anything.
CascadeFails(d) ==
  /\ pc[d] = "idle"
  /\ Goto(d, "failed")
  /\ UNCHANGED <<db, graph, tx, past>>

\* Time passes and a live unit's strength falls below the threshold.
Decay(b) ==
  /\ b \in Fading \ weak /\ Live(b)
  /\ weak' = weak \cup {b}
  /\ UNCHANGED <<status, count, log, graph, pc, tx, past>>

\* The row r is waiting to lock.
Wanted(r) ==
  CASE pc[r] \in {"retire", "row"} -> target[r]
    [] pc[r] \in {"reinforce", "crystallize", "sweep", "compact"} /\ todo[r] # <<>> -> Head(todo[r])
    [] OTHER -> None

WaitsFor(r, q) == r # q /\ Wanted(r) \in Locks(q)

\* Mutant for RequestsEnd: locks are waited for without a detector.
DeadlockUnnoticed(r) == FALSE
\* r is on a cycle of waiting transactions.
Deadlocked(r) ==
  \E S \in SUBSET {q \in Requests : InFlight(q)} :
    r \in S /\ \A q \in S : (\E p \in S : WaitsFor(q, p)) /\ (\E p \in S : WaitsFor(p, q))

\* Postgres aborts a transaction of a cycle.
DeadlockVictim(r) ==
  /\ Deadlocked(r)
  /\ Forget(r) /\ Goto(r, "failed")
  /\ UNCHANGED <<db, graph, past>>

IngestStep(r) == Resolve(r) \/ Retire(r) \/ Prove(r)
RetrieveStep(q) == Reinforce(q) \/ Reinforced(q)
PassStep(c) ==
  \/ ReadWeak(c) \/ ReadTombstones(c) \/ FlushRow(c) \/ EndPasses(c)
  \* an ORM UPDATE that matches no row
  \/ /\ pc[c] \in {"crystallize", "sweep"} /\ todo[c] # <<>> /\ ~Exists(Head(todo[c]))
     /\ Fail(c)

\* What a request that has begun does by itself.
Step(r) ==
  \/ r \in Ingests /\ IngestStep(r)
  \/ r \in Retrievers /\ RetrieveStep(r)
  \/ r \in Consolidators /\ PassStep(r)
  \/ r \in Deleters /\ DeleteRow(r)
  \/ Commit(r)

\* Everything but the start of a delete, which has callers of two kinds.
MemoryNext ==
  \/ \E r \in Ingests : ListBeliefs(r)
  \/ \E q \in Retrievers : Search(q)
  \/ \E c \in Consolidators : ReadSure(c)
  \/ \E r \in Requests : Step(r) \/ Fail(r) \/ DeadlockVictim(r)
  \/ \E b \in Beliefs : Decay(b)

-----------------------------------------------------------------------------
(* Properties.                                                              *)

\* No retrieval is lost or counted twice, whatever overlaps: the count of a
\* unit is the number of committed retrievals that served it.
CountsAreHits == \A b \in Beliefs : count[b] = hits[b]

\* "Every resolution is logged permanently" (conflict.py): a unit is only ever
\* retired by a sweep or together with a log entry that names its successor,
\* and the two are never seen apart.
EvolutionIsKept ==
  \A b \in Beliefs : status[b] = "tombstoned" =>
    \/ b \in swept
    \/ \E e \in log : e.a = b /\ e.resolution \in Decisive /\ status[e.b] # "absent"

\* A logged decisive resolution has retired its loser for good, unless a
\* consolidation pass was in flight together with an ingest: the pass writes
\* "crystallized" over what it read as active.
DecisiveRetires ==
  "pass" \notin overlap =>
    \A e \in log : e.resolution \in Decisive => ~Live(e.a)

\* The log of resolutions and the statuses say the same: every retirement is
\* in the log, and what is in the log has been retired.
LogIsTrue == EvolutionIsKept /\ DecisiveRetires

\* Every committed belief nobody began to delete can say why it is held, unless
\* the best-effort write of its evidence failed: rollbacks of other ingests,
\* retirement and consolidation take no evidence away.
Explained ==
  \A b \in Beliefs : Live(b) /\ b \notin dark =>
    \/ b \in explained
    \/ \E d \in Deleters : target[d] = b

\* After a completed delete the belief has no node in the graph again, unless
\* an ingest had listed it before the delete and merged it back.
ErasedStaysErased ==
  \A d \in Deleters : pc[d] = "done" /\ target[d] \in nodes =>
    \E r \in Ingests : target[d] \in seen[r]

\* Evidence stays with the belief it is evidence of, and goes with it.
EvidenceFollows == Explained /\ ErasedStaysErased

\* Every request that begins ends: locks are taken in the order of scores or
\* keys and every circle of them is broken.
RequestsEnd == \A r \in Requests : InFlight(r) ~> ~InFlight(r)
=============================================================================
