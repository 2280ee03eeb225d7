---------------------------- MODULE ConflictCards ----------------------------
(***************************************************************************)
(* Conflict cards of the backend (services/conflicts.py, memoryclient.py,  *)
(* routes_conflicts.py) on top of the memory engine: the lazy sync that    *)
(* makes cards of flagged conflicts, and a person's decision which belief  *)
(* to keep.                                                                *)
(*                                                                         *)
(* The memory service is called over HTTP in the middle of a transaction   *)
(* of the backend: a delete is carried out by the engine's own steps, and  *)
(* the backend goes on when it has an answer or after its timeout.  A      *)
(* retrieval by the backend is taken as one step; how retrievals           *)
(* interleave is in MemoryEngine.                                          *)
(***************************************************************************)
EXTENDS MemoryEngine

CONSTANTS
  Viewers,    \* GET /conflicts
  Resolvers,  \* POST /conflicts/{id}/resolve: each may delete one memory
  Casts       \* bound: the sets of requests, of both services, one behaviour has

ASSUME ResolversDelete == Resolvers \subseteq Deleters
ASSUME ViewersOnlyView == Viewers \cap Resolvers = {}
ASSUME CastsAreRequests == \A cast \in Casts : cast \subseteq Requests \cup Viewers

VARIABLES
  cards,    \* the conflicts table: <<a, b>> -> [status, winner, deleted]
  fresh,    \* _last_sync is less than SYNC_WINDOW_SECONDS ago
  place,    \* where each viewer and resolver is
  work,     \* conflicts a viewer has still to look at
  made,     \* cards a viewer has added and not committed
  pick,     \* the card and winner of a resolver
  gone,     \* what the backend was told of a resolver's delete
  contested \* history: a card was read while or after another decision on it failed to finish

cardvars == <<cards, fresh, place, work, made, pick, gone, contested>>
vars == <<memory, cardvars>>

People == Viewers \cup Resolvers

CardsInit ==
  /\ \E cast \in Casts :
       /\ InitWith(cast)
       /\ place = [p \in People |-> IF p \in cast THEN "idle" ELSE "away"]
  /\ cards = <<>> /\ fresh = FALSE
  /\ work = [v \in Viewers |-> {}] /\ made = [v \in Viewers |-> {}]
  /\ pick = [p \in Resolvers |-> None] /\ gone = [p \in Resolvers |-> FALSE]
  /\ contested = FALSE

Move(p, where) == place' = [place EXCEPT ![p] = where]
Busy(p) == place[p] \notin {"away", "idle", "done", "failed"}

\* A retrieval by the backend: it reinforces what it returns.
Recalls(S) ==
  /\ \A b \in S, r \in Requests : b \notin Locks(r)
  /\ count' = [b \in Beliefs |-> IF b \in S THEN count[b] + 1 ELSE count[b]]
  /\ hits' = [b \in Beliefs |-> IF b \in S THEN hits[b] + 1 ELSE hits[b]]
  /\ weak' = weak \ S
  /\ UNCHANGED <<status, log, graph, pc, tx, swept, dark, overlap>>

-----------------------------------------------------------------------------
(* sync_conflicts.                                                          *)

\* Within the window nothing is pulled.  Otherwise the window starts, the known
\* cards are read and the engine's log is pulled; the memory being down is the
\* same as an empty log.
Sync(v) ==
  /\ place[v] = "idle"
  /\ IF fresh THEN Move(v, "done") /\ UNCHANGED work
     ELSE /\ Move(v, "join")
          /\ \E up \in BOOLEAN :
               work' = [work EXCEPT ![v] =
                 {<<e.a, e.b>> : e \in {f \in log : up /\ f.resolution = "flagged"}} \ DOMAIN cards]
  /\ fresh' = TRUE
  /\ UNCHANGED <<memory, cards, made, pick, gone, contested>>

\* The two sides of the next conflict are retrieved; with one missing there is
\* nothing to decide.
Join(v) ==
  \E c \in work[v] : \E S \in SUBSET {b \in Beliefs : Live(b)} :
    /\ place[v] = "join"
    /\ Recalls(S)
    /\ made' = [made EXCEPT ![v] = IF {c[1], c[2]} \subseteq S THEN @ \cup {c} ELSE @]
    /\ work' = [work EXCEPT ![v] = @ \ {c}]
    /\ UNCHANGED <<cards, fresh, place, pick, gone, contested>>

\* COMMIT of the new cards; memory_conflict_id is unique.
SaveCards(v) ==
  /\ place[v] = "join" /\ work[v] = {}
  /\ IF made[v] \cap DOMAIN cards # {} THEN Move(v, "failed") /\ UNCHANGED cards
     ELSE /\ cards' = Overlay(cards, [c \in made[v] |->
                         [status |-> "open", winner |-> None, deleted |-> FALSE]])
          /\ Move(v, "done")
  /\ UNCHANGED <<memory, fresh, work, made, pick, gone, contested>>

\* The window passes.
WindowPasses == fresh /\ fresh' = FALSE
  /\ UNCHANGED <<memory, cards, place, work, made, pick, gone, contested>>

-----------------------------------------------------------------------------
(* resolve_conflict.                                                        *)

\* Only an open card is resolved.
CardOpen(c) == cards[c].status = "open"

Loser(p) == IF pick[p].keep = pick[p].card[1] THEN pick[p].card[2] ELSE pick[p].card[1]

\* The person picks a winner and the handler finds the card open.
ReadCard(p) ==
  /\ place[p] = "idle"
  /\ \E c \in DOMAIN cards : \E b \in {c[1], c[2]} :
       /\ CardOpen(c)
       /\ pick' = [pick EXCEPT ![p] = [card |-> c, keep |-> b]]
       /\ contested' = (contested \/ \E q \in Resolvers \ {p} :
            place[q] \notin {"away", "idle", "done"} /\ pick[q].card = c)
  /\ Move(p, "delete")
  /\ UNCHANGED <<memory, cards, fresh, work, made, gone>>

\* DELETE /memory/{loser} reaches the engine.
CallDelete(p) ==
  /\ place[p] = "delete"
  /\ CascadeOf(p, Loser(p)) \/ CascadeFails(p)
  /\ UNCHANGED cardvars

\* Mutant for CardsAreTrue: the call counts as a delete once it was sent.
AnsweredWhenSent(p) == pc[p] # "idle"
\* delete_memory returns True for a success of the engine only.
Answered(p) == pc[p] = "done"

\* The backend goes on: with the answer, or after an error or its timeout.
Answer(p) ==
  /\ place[p] = "delete"
  /\ gone' = [gone EXCEPT ![p] = Answered(p)]
  /\ Move(p, "reinforce")
  /\ UNCHANGED <<memory, cards, fresh, work, made, pick, contested>>

\* The winner is reinforced by a retrieval, or the memory is down.
ReinforceWinner(p) ==
  /\ place[p] = "reinforce"
  /\ \E S \in {{}, {b \in Beliefs : Live(b)}} : Recalls(S)
  /\ Move(p, "write")
  /\ UNCHANGED <<cards, fresh, work, made, pick, gone, contested>>

\* The card is resolved, by primary key, and the decision audited.
SaveDecision(p) ==
  /\ place[p] = "write"
  /\ cards' = Put(cards, pick[p].card,
                  [status |-> "resolved", winner |-> pick[p].keep, deleted |-> gone[p]])
  /\ Move(p, "done")
  /\ UNCHANGED <<memory, fresh, work, made, pick, gone, contested>>

\* The request fails: the card stays as it is, the memory as it became.
CardFails(p) ==
  /\ Busy(p)
  /\ Move(p, "failed")
  /\ UNCHANGED <<memory, cards, fresh, work, made, pick, gone, contested>>

-----------------------------------------------------------------------------

ViewStep(v) == Join(v) \/ SaveCards(v)
ResolveStep(p) == CallDelete(p) \/ Answer(p) \/ ReinforceWinner(p) \/ SaveDecision(p)

Quiet ==
  /\ \A r \in Requests : ~InFlight(r)
  /\ \A p \in People : ~Busy(p)
  /\ UNCHANGED vars

Next ==
  \/ MemoryNext /\ UNCHANGED cardvars
  \/ \E d \in Deleters \ Resolvers : (Cascade(d) \/ CascadeFails(d)) /\ UNCHANGED cardvars
  \/ \E v \in Viewers : Sync(v) \/ ViewStep(v)
  \/ \E p \in Resolvers : ReadCard(p) \/ ResolveStep(p)
  \/ \E p \in People : CardFails(p)
  \/ WindowPasses
  \/ Quiet

Spec == CardsInit /\ [][Next]_vars

\* A memory request that has begun keeps running, and Postgres breaks deadlocks.
FairSpec ==
  /\ Spec
  /\ \A r \in Requests : WF_vars((Step(r) \/ DeadlockVictim(r)) /\ UNCHANGED cardvars)

-----------------------------------------------------------------------------
(* Properties.                                                              *)

\* Type invariant of both modules' state: whoever waits for a row has not ended,
\* and a card stands for two committed beliefs.
TypeOK ==
  /\ status \in [Beliefs -> {"absent", "active", "crystallized", "tombstoned", "gone"}]
  /\ explained \subseteq nodes /\ nodes \subseteq Beliefs /\ weak \subseteq Beliefs
  /\ \A r \in Requests : ~InFlight(r) => staged[r] = <<>> /\ bumps[r] = <<>> /\ entries[r] = {}
  /\ \A e \in log : e.a \in Beliefs /\ status[e.b] # "absent"
  /\ \A c \in DOMAIN cards : /\ cards[c].status \in {"open", "resolved"}
                             /\ [a |-> c[1], b |-> c[2], resolution |-> "flagged"] \in log
  /\ place \in [People -> {"away", "idle", "join", "delete", "reinforce", "write", "done", "failed"}]

\* What a resolved card says of its loser is so: loser_deleted is recorded only
\* when the row is gone, whatever fails or times out between the two services,
\* and no ingest, retrieval or pass that was in flight brings it back.
ResolvedIsTrue ==
  \A c \in DOMAIN cards : cards[c].deleted =>
    \E b \in {c[1], c[2]} : b # cards[c].winner /\ status[b] = "gone"

\* "Resolution keeps the winning belief" (conflicts.py), as long as no decision
\* on a card begins while another one is under way or after one has failed: a
\* later click on a resolved card changes nothing.  What can still remove it is
\* a delete or a compaction outside the cards, and the decision on another card
\* that names the same belief: no decision looks at the other cards.
KeptUnlessContested ==
  ~contested => \A c \in DOMAIN cards : cards[c].status = "resolved" =>
    \/ status[cards[c].winner] # "gone"
    \/ \E d \in Deleters \ Resolvers : target[d] = cards[c].winner
    \/ \E p \in Resolvers : target[p] = cards[c].winner /\ pick[p].card # c
    \/ \E r \in Consolidators : pc[r] = "done"

\* The state is well typed, and reinforcement counts what was served.
BeliefsSound == TypeOK /\ CountsAreHits

\* Resolved cards tell what became of both memories.
CardsAreTrue == ResolvedIsTrue /\ KeptUnlessContested
=============================================================================
