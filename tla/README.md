# FinDesk: models, checks and proofs

TLA+ models of FinDesk: sweeps and people posting to the same books, approvals
that act outside the database, the hash-chained audit log, the Redis transport
between backend and workers, the live view of a run, the 45-day enforcer, the
memory engine and the conflict cards on top of it, what comes into the books by
import, and the pure algorithms of agents, backend and memory service. TLC
checks the models on small instances; TLAPS proves for every instance the safety
of the commit engine, of approvals, of the audit chain, of the transport, of the
live stream and of the enforcer, of imports, categories, scans, onboardings and
forecasts, what the memory engine and the cards say of beliefs, and the laws of
all the algorithms.

```
tlc -config MCBooks.cfg MCBooks.tla      # any run: the module and cfg of PROJECT.json
tlapm BooksProofs.tla                    # the proofs; likewise the other *Proofs modules
```

## 1. Inventory

Paths are relative to `src/`.

| Component | Where | State | Operations |
|---|---|---|---|
| Reconciliation commit engine | `backend/app/services/recon.py`, `db/books_repo.py`, `POST /internal/recon/commit` | `invoices.status`, `bank_transactions.match_status`, `matches`, `ledger_entries` | `route_proposal`, `commit_proposal`, the guarded UPDATEs `set_invoice_paid` and `set_transaction_matched`, `revert_invoice_open` |
| Approval engine | `services/approvals.py`, `api/routes_approvals.py` | `approvals` (status, token, payload hash) | `queue_approval`, `decide_approval` with its three effects: commit a match, send an e-mail, list on TReDS |
| Collections, working-capital actions | `api/routes_internal.py`, `api/routes_wc_actions.py`, graph modules | `approvals`, `wc_actions.status` | draft, then queue reminders with pending and cooldown checks; price, propose, supersede, request an option |
| Audit chain | `services/audit.py`, `services/dataroom.py` | `audit_log` (prev_hash, row_hash, created_at) | `write_audit` in every consequential transaction; `verify_audit_chain` |
| Job and event transport | `api/routes_agent.py`, `events/streams.py`, `agents/findesk_agents/worker.py`, `events.py` | two Redis streams with consumer groups, `agent_runs.status`, `agent_steps.status` | `create_run`, worker loop, `consume_run_events`, `_handle_event` |
| Live run stream | `stream_run` in `routes_agent.py`, `subscribe_run`, `frontend/src/hooks/useRunStream.ts` | a subscription, a queue and a set of sent keys per viewer | subscribe, replay, follow, leave |
| 45-day enforcer | `services/clocks.py`, `statutory.py`, `routes_radar.py`, `routes_internal.py`, `agents/.../enforcer` | `statutory_clocks` (level, last_enforced_level), files of papers | recompute clocks, queue act letter, prepare Samadhaan papers |
| Recall memory engine | `memory/recall/core/*`, `db/neo4j_store.py` | memory units and conflict log in Postgres, provenance in Neo4j | ingest with conflict resolution, retrieve with reinforcement, consolidate, delete |
| Conflict cards | `services/conflicts.py`, `memoryclient.py`, `routes_conflicts.py` | `conflicts`, a sync window per process | sync, resolve with a best-effort delete |
| Imports, onboarding, categories, anomalies, forecasts | `routes_books.py`, `routes_internal.py`, `db/books_repo.py`, graph modules | `documents`, `bank_transactions`, `category_code`, `anomalies`, `counterparties`, `invoices`, `forecast_runs` | deduped inserts, guarded category UPDATE, best-effort learning |
| Pure algorithms | `agents/.../matching.py`, `detection.py`, `engine.py`, `options.py`, `collections/*`, `services/statutory.py`, `dataroom.py`, `reports.py`, `recall/core/retrieval.py`, `consolidation.py`, `tools/*/parser.py` | none | match, detect, project, rank, score, report, pack, mine, parse |
| Auth, pages, LLM prompts, infrastructure | `backend/app/auth`, `frontend/`, `infra/` | none shared | see section 7 |

**How they interact.** A person starts a run (`create_run` or an import): the
run row is committed, then a job goes to the jobs stream. A worker runs a graph,
which talks to the backend over `/internal` (one HTTP request is one database
transaction at READ COMMITTED) and reports steps to the events stream. The
backend's consumer saves each event and then publishes it to viewers. What the
agents may not do alone becomes an approval row; a person's decision carries the
effect out. Every such change writes an audit row in its own transaction. What a
graph or a decision learns goes, best-effort, to the memory service, which keeps
its own transactions and a second store; conflicts it flags come back as cards.

**What is hard.** Validation, token checks, cooldowns, chain heads, rungs, known
keys and memory candidates are read in one statement and used in a later one;
only the UPDATEs of the commit engine and of categories carry a guard. Locks are
taken in batch order. Tool effects, papers and provenance are outside the
transaction. Consumer groups start at the end of the stream and pending entries
are never read again. The replay and the subscription of a viewer go to
different servers. PROJECT.json lists each such place under `hazards`, with the
properties that cover it.

**What makes each component correct.**

- *Commit engine*: nothing settled twice; status columns agree with the matches;
  entries balance; below the confidence floor only what a person approved.
- *Approvals*: no effect without an approval; no record of an effect that did
  not happen; decided rows are never reopened; a late decision is refused.
- *Audit chain*: every edit is found; a chain nobody edited verifies.
- *Transport*: no job twice; acknowledgements mean the work was done; relayed
  events are saved; runs do not go back; what can be delivered is answered.
- *Live stream*: nothing twice, outcome last, nothing missed, the stream ends.
- *Enforcer*: each rung is acted on once and none is left out; a mark has its
  artifact; no rung is lowered.
- *Memory engine*: every retired belief has a log entry that names its
  successor; no retrieval is lost; evidence follows the belief.
- *Conflict cards*: a card that says its loser is deleted tells the truth; the
  kept belief exists.
- *Imports*: a statement arrives once and whole; people's categories stay;
  findings, claims and invoices are not doubled.
- *Algorithms*: each has a reference definition or a law, in section 2.

## 2. Modules

| Module | Models | Built on |
|---|---|---|
| `Settlement` | what the commit engine promises: a set of matches that grows by atomic, balanced, authorised settlements of rows not settled before | |
| `Books` | the commit engine and the `commit_match` branch of the approval engine, statement by statement | refines `Settlement` |
| `Approvals` | reminders and TReDS listings: queueing, deciding, the tool call, rollback; working-capital actions | |
| `AuditChain` | appending under concurrent transactions, verification, edits from outside | |
| `RunPipeline` | run request, both streams, workers, event consumers, persistence and relay | |
| `RunStream` | the live stream of one run, fed by the consumer of `RunPipeline` | |
| `Enforcer` | clocks, ticks of the enforcer graph, radar views, letters, papers and their files | |
| `MemoryEngine` | the memory service's requests over its two stores | |
| `ConflictCards` | the backend's cards, calling the memory service | extends `MemoryEngine` |
| `Intake` | imports, categories, anomaly scans, onboarding, forecasts, learning | |
| `Matching`, `Projections`, `Anomalies`, `Recollection`, `BookReports`, `Exports`, `Chasers` | the pure algorithms, as operators | |
| `Algorithms` | one call of an algorithm, and what its answer promises | the seven above |
| `BooksProofs`, `ApprovalsProofs`, `RunPipelineProofs`, `RunStreamProofs`, `EnforcerProofs`, `IntakeProofs` | theorems and proofs | the module each is named after, TLAPS |
| `BeliefsProofs` | theorems and proofs | `ConflictCards` with `MemoryEngine`, and of `Algorithms` what is made of beliefs: packing, mining, chasing; TLAPS |
| `AlgorithmsProofs` | theorems and proofs | the rest of `Algorithms`, and `AuditChain`; TLAPS |
| `MC...` | values and symmetry for TLC (`MCBeliefs` for `ConflictCards` with `MemoryEngine`) | the module each is named after |

PROJECT.json `map` ties each definition to the lines it stands for. Names follow
the source where TLA+ allows. Operators marked "Mutant for" are deliberate
faults: each replaces one definition and must break one property, which shows
that the property depends on that code. Where several invariants speak of one
concern, a run checks their conjunction (`RecordsSound`, `ArtifactsSound`,
`MatchingSound` and so on); the parts keep their names and comments.

### Books

One HTTP request is one transaction, and one action is one statement of it:
`Propose` (context, match and critic nodes), then per proposal
`RejectProposal` / `QueueApproval` / `AcceptProposal` (`route_proposal`),
`Revalidate` (the second `_validate`, which sees the invoice through SQLAlchemy's
identity map), `ClaimInvoice` or `InvoiceLost` (`set_invoice_paid`),
`ClaimTxnAndPost` or `TxnLost` (`set_transaction_matched`, then match, ledger
entry and audit row, or `revert_invoice_open`), and `Commit`. `Fail` rolls back
at any point. `ReadApproval` and `Decide` start a person's request.

`taken`, `matches` and `approvals` are committed state; `staged`, `posted` and
`queued` are what a transaction has written and nobody else sees; `held` is its
row locks. A guarded UPDATE waits while another transaction holds the row and
re-evaluates its WHERE when that one ends, as Postgres does at READ COMMITTED,
so `ClaimInvoice` is enabled only when the row is free and in the guarded state.
`DeadlockVictim` is Postgres's detector. The batches are a constant, any
sequence of well-typed proposals: the model does not rely on the matcher being
right, and the LLM critic's vetoes are an arbitrary set of positions. The
critic's deterministic review is modelled because the safety of TDS matches
depends on it. Amounts are numbers, in units of the model; all arithmetic in the
code is on integer paise. The learn node and the memory calls change no books.

### Approvals

`status`, `token`, `wc` and `sent` are the database, `world` is the files the
tools wrote. A tool acts in the middle of the transaction (`CallTool`) and `Fail`
does not undo it. An ORM flush is an UPDATE by primary key: `FlushDecision`
waits for another decision's lock and then overwrites. Reads of a chaser
(`ReadPending`, `ReadSent`) and of a planner (`ReadProposed`) are steps of their
own because nothing holds what they read. The branch that sets `expired` is left
out: no code writes `action_payload` after the request, so the hashes agree.

### AuditChain

A hash is what was hashed, so two hashes agree exactly when their inputs do.
`WriteAudit` reads the head of the chain, the row appears with its `created_at`
at the flush (`Flush`) and to others at `Commit`. `overlapped` is a history
variable: two transactions have been open at once. `created_at` is unique in the
model; at equal times the code falls back on the UUIDv7 order, which breaks the
tie and keeps the order total.

### RunPipeline

Streams are sequences, a group is the index of the last entry handed out
(`NoGroup` before `XGROUP CREATE`). An entry that was handed out and not
acknowledged is in nobody's hands once its reader lets it go: no code reads the
pending list. The consumer handles an event in the steps `LoadRun`, `FindStep`,
`SaveEvent`, `Publish`, `AckEvent`; `SaveCollides` is the unique `step_id`.
A graph is a script of its nodes' started and finished events and an outcome;
what the nodes do is in the other modules. `GraphFails` may cut it anywhere.
An XADD whose reply is lost has been applied: within the script that is an
`Emit` followed by `GraphFails`, after `succeeded` it is `SuccessDoubted`, and
the run gets two outcomes, the second `failed`. A command is applied at most
once: the client is assumed not to send one again by itself, which
`redis>=5.0` leaves to the installed version's retry settings.

### RunStream

The script of events is saved and published one by one. `Subscribe` is the
moment the relay task's SUBSCRIBE takes effect, which nothing orders with the
replay's two queries (`ReadRun`, `ReadSteps`). `prompt` is a history variable:
the subscription came first. Keepalives change nothing and are `Quiet`. Viewers
share nothing but the published events, so one viewer stands for all of them.

### Enforcer

A tick of the graph reads in one request (`ReadClocks`, `SaveClocks`: invoices
and clocks, then the COMMIT of all recomputed clocks, which the unique
`invoice_id` can refuse) and acts in one more request per crossed rung:
`QueueLetter` is one transaction, a paper is `WritePaper` (the file) and
`SavePaper` (row, audit, rung). A radar view is the same read without the rest.
`NextDay` jumps to the next day on which some invoice reaches a rung; between
those nothing changes. `overlapped` is a history variable. What the letters
become is in `Approvals`, the interest on them in `Projections`.

### MemoryEngine and ConflictCards

A request is one transaction: it reads committed rows, stages its writes,
holds the locks of the rows it updated and publishes at `Commit`. `ListBeliefs`,
`Resolve`, `Retire`, `Prove` are an ingest of one or two facts; `Search` and
`Reinforce` a retrieval, one UPDATE per unit; `ReadSure`, `ReadWeak`,
`ReadTombstones` and `FlushRow` the three passes of a consolidation; `Cascade`
and `DeleteRow` a delete over both stores. `Prove` writes to Neo4j in the middle
of the transaction, may fail without stopping it and is not rolled back. Which
candidate is nearest, what the LLM decides, which units a retrieval packs and
which tombstones are old are free choices: properties hold for every ranking
and every answer. `hits`, `swept`, `dark` and `overlap` are history variables.

`ConflictCards` is the backend on top. `Sync` starts the window and pulls the
flagged conflicts, `Join` retrieves their two sides, `SaveCards` commits the
cards; `ReadCard`, `CallDelete`, `Answer`, `ReinforceWinner` and `SaveDecision`
are a resolution. A resolver's delete is carried out by the engine's own steps,
and `Answer` may come before, after or instead of them: the HTTP call has a
timeout and its errors are swallowed. The composition is one module because the
properties relate both databases.

### Intake

An upload is `StoreUpload` (bytes), `SaveUpload` (document, run and audit row),
`EnqueueImport`, and then its run: `FetchAndParse`, `InsertRow` per line with
ON CONFLICT DO NOTHING, `CommitRows`, `ReadContext`, `Classify`, the guarded
`SetCategory` per debit, `CommitCategories`, `Learn`. A person's correction is
`ReadTxn`, `SetByHand`, `CommitCategories`, `TellMemory`; a scan `ReadDebits`,
`ReadKnown`, `RaiseAnomalies`, `CommitAnomalies`; an onboarding `ReadParties`,
`ReadNumbers`, `OnboardLine`, `CommitOnboarding`; a forecast `ReadCredits`,
`ReadDebitSum`, `SaveForecast`. `wrote` is what an open transaction inserted or
updated, and a statement on the same unique key or row waits for it. `torn` is
a history variable: something else committed while the actor was at work. The
run's matching and posting are left to `Books`, its transport to `RunPipeline`.

### The algorithms

`Algorithms` makes one call in its first step; its state is the call's name, input
and answer, and each invariant speaks of the answers of one algorithm.

| Module | Algorithm | Promises |
|---|---|---|
| `Matching` | exact and TDS matching, the critic | proposals name each row once and are exact to the paisa; a payment is decided as if it were alone, if its candidates are nobody else's; twins are left to a person; a rate learned from a match is recognised next time |
| `Projections` | statutory interest, forecast, gap, financing options | monthly rests compound; every rupee is in one week of one scenario; downside, base and upside are in order; the gap is the first week below zero; options are ranked |
| `Anomalies` | duplicates, overcharges, baselines | each repeat is raised once, again by a rescan; an overcharge is not learned as the norm |
| `Recollection` | packing to a token budget, workflow mining | the budget is kept and filled; every repeated workflow is found once |
| `BookReports` | data-room score, month-end report | the score is 0 to 100 and good deeds do not lower it; months add up; the two reports agree |
| `Exports` | the two file parsers | a bad line costs itself and no other |
| `Chasers` | whom to remind, tone, claims learned and read back | every overdue invoice of a reachable client is chased once; one more payment moves the tone one way |

Words of a name, dates and amounts are sets, numbers and fractions; rounding is
modelled as the code does it (half up for interest, half to even for Python's
`round`). Confidence and rates are in percent and basis points. The ratios of the
data-room score are cut off at 1/5040 (`Ratio`), which is exact for totals of 1 to
10 and 14; for others the code's floats may round to a score one point off.

## 3. Runs

| Run | Instance | Shows |
|---|---|---|
| `books` | 2 sweeps, 2 human requests, 3 invoices (1 paid before), 3 transactions, 4 batches; 121 779 states | `Inv` (the inductive invariant, with the types), `SettledOnce`, `BooksAgree`, `EntriesBalance`, `PostedAsApproved`, `RefinesSettlement`, `RequestsEnd` |
| `approvals` | 2 chasers, 2 planners, 1 asker, 2 deciders, 1 invoice; 297 036 states | `RecordsSound` (types, `RecordsTruthful`, `ActsFollow`), `OnlyApprovedActs`, `DecisionsStand` (`NeverReopened`, `LateDecisionIsRefused`), `RequestsEnd` |
| `audit_chain` | 3 writers, 2 rows each, 1 edit; 14 496 states | `ChainSound` (types, `RowsHashed`, `SerialLinks`, `EditsAreFound`), `SerialChainVerifies` |
| `audit_fork` | 2 writers, no edit | violated: a fork looks like tampering |
| `pipeline` | 2 runs, 2 workers, 1 backend, 1 fault; 1 419 483 states | `TransportSound` (types, `DoneIsLast`, `AcksAreHonest` and what makes them inductive), `RelayedIsSaved`, `RunsAdvance` |
| `pipeline_live` | 1 run of 2 nodes, 2 workers, 2 backends, no fault | `DeliverableEnds` (reached, and kept unless `Overtaken`); fires the step collision; 103 048 states |
| `stream` | 1 viewer, 3 nodes; 4 888 states | `StreamSound` (types, `FramesOnce`, `OutcomeIsLast`, `RelaySound`), `PromptSeesAll`, `PromptEnds` |
| `enforcer` | 2 ticks, 1 radar view, 2 invoices, 30 days, 1 crash; 1 806 671 states | `ArtifactsSound` (types, `WorkIsKnown`, `EnforcedIsBacked`, `PapersHaveFiles`), `EachRungOnce` (`MarksHold`, `RungsFireOnce`, `DoneMeansEnforced`), `NeverLowered` |
| `enforcer_first` | 1 tick, no view, no crash | violated: a clock that is new in the tick itself fails the tick |
| `beliefs` | 11 casts of 1 to 3 requests out of 3 ingests, 2 retrievals, 1 consolidation, 1 delete, 2 viewers, 2 resolvers, over 2 old beliefs; 96 810 states | `BeliefsSound` (types, `CountsAreHits`), `LogIsTrue` (`EvolutionIsKept`, `DecisiveRetires`), `EvidenceFollows` (`Explained`, `ErasedStaysErased`), `CardsAreTrue` (`ResolvedIsTrue`, `KeptUnlessContested`), `RequestsEnd` |
| `intake` | 6 casts of 2 or 3 actors out of 3 uploads, 2 people, 2 scans, 2 onboardings, 1 forecast, 1 crash; 21 305 states | `BooksSound` (types, `OpeningsWereTrue`), `StatementsKept` (`IngestedOnce`, `RunsSucceed`), `OneOfEach` (`ClaimedOnce`, `FindingsKept`, `OnboardedOnce`), `HumanStays`, `ActorsEnd` |
| `algorithms` | every input of a small set per algorithm; 39 739 states | `MatchingSound`, `ProjectionsSound`, `DetectionSound`, `RecollectionSound`, `ReportsSound`, `BadLinesCostThemselves`, `ChasersFair` |

**Bounds.** `books`: two sweeps with opposite orders, one transaction proposed
for two invoices and one invoice for two transactions are every way two batches
can collide; a batch of two is the shortest that deadlocks and the shortest in
which one proposal fails and the next goes on; the two human requests can decide
the same approval or two. `approvals`: two of each client whose requests can
overlap with each other. `audit_chain`: three writers give a fork with a third
row on either side. `pipeline`: `MaxFaults` bounds crashes and lost connections;
one is enough to lose a batch, and a batch of two is the shortest with a rest to
lose. `WorkerCount` and `EventCount` stand for 8 and 32. `enforcer`: the ages put
one invoice on the letter's rung and the other a day below the reminder's, so
that within `LastDay` days both rungs are crossed by one invoice and one by the
other; a second tick is the shortest overlap and the shortest retry. `beliefs` and
`intake`: a *cast* is the set of requests one behaviour has, and TLC takes each
cast in turn. The casts are the pairs and triples that touch a common row; a
request outside them would share nothing with one inside. An ingest has one or
two facts because the second can meet the first. The two old beliefs make one
card; several cards that share a belief are covered by the proof. `intake`: two statements share
two movements in different order, which is the shortest deadlock on their unique
hashes, and a line without reference or amount each. `algorithms`: the inputs put
amounts, days and counts at, one below and one above each constant the code
compares with, two of everything that can tie, and three where an average or a
median needs one. Symmetry is used only in runs without liveness.

**Fairness.** `FairSpec` in each module is weak fairness of the steps a request
or process takes by itself once it has begun: an event loop keeps running its
tasks, and Postgres keeps granting free locks. `Books`, `MemoryEngine` and
`Intake` add the deadlock detector, `RunPipeline` that processes are started (a
container's restart policy). No fairness is assumed of people, of a new request,
of crashes, of time or of a viewer leaving; `ConflictCards` assumes none of the
backend's side, which no property needs. Only a statement that is disabled by
another's lock could need more; the holder ends under its own fairness, so weak
fairness suffices, as `RequestsEnd` and `ActorsEnd` show.

**Deadlock** is checked in every run; `Quiet` is the state in which all that
began has ended and the services wait.

## 4. Known disagreements with the documentation

The two `violation` runs state what a comment says; PROJECT.json `findings`
quotes each. Six more such statements are written down in the modules, under
"What the documentation says and the code does not keep", and are violated by
small instances too:

| Statement | Says | Fails because |
|---|---|---|
| `Approvals!TokenOnRow` | the token is "recorded on the message, the approval row, and the audit chain" (`approvals.py`) | two overlapping approvals of one row both send, and the row keeps one token |
| `Approvals!ChasedOnce` | "an invoice chased in the last 7 days isn't chased again" (`routes_internal.py`) | two overlapping collections runs read before either writes |
| `RunPipeline!JobsAreRun` | "at-least-once delivery" (`worker.py`) | pending entries are never read again |
| `RunPipeline!RelayedIsSaved` with two backends | "after persistence, so replay+live is gapless" (`streams.py`) | a second backend sets an ended run back to running |
| `RunStream!StreamsEnd` | "subscribes FIRST ... so nothing is lost" (`routes_agent.py`) | the outcome can be published between replay and subscription |
| `Intake!MovementOnce` | "stable identity of a statement row across re-uploads" (`schemas.py`) | without a reference the identity holds the line number |

The properties that hold name their exceptions, each of which is a behaviour a
reader of the documentation would not expect:

- a decision that fails after its tool acted leaves the effect without a record,
  and a retry acts a second time (`Fail` after `CallTool` in `Approvals`);
- a planner marks an action stale while its listing awaits a decision
  (`Supersede` in `Approvals`);
- an event whose handling fails once is never handled again, so a run can stay
  running for good (`HandlerFails` in `RunPipeline`);
- with two backends an outcome is reached but may not last: a step handler that
  loaded the run as queued sets it running after the other backend saved the
  outcome, and it stays running for good (`Overtaken`, the exception of
  `DeliverableEnds`; `streams.py:81`);
- a frame that a viewer had buffered may show an older state of a step after a
  newer one (`routes_agent.py:153`; `StreamSound` excludes doubled frames only);
- a consolidation brings a belief back that an ingest retired meanwhile, because
  its UPDATE by primary key does not look at the status (`FlushRow` in
  `MemoryEngine`; `consolidation.py:137`);
- a rolled-back ingest and a compaction leave provenance of beliefs that do not
  exist (`Prove`, `FlushRow`);
- opposite resolutions of one card delete both memories (`contested` in
  `ConflictCards`; `conflicts.py:147`);
- of two cards that share a memory, the decision on one may delete what the other
  kept, for it does not look at other cards (`KeptUnlessContested`;
  `conflicts.py:151`);
- overlapping enforcer ticks queue a letter or a paper twice, and a late letter can
  lower the rung a paper has raised (`overlapped` in `Enforcer`;
  `routes_internal.py:506`);
- overlapping onboardings double invoices and clients (`OneOfEach` in `Intake`);
- an export's invoice that is partly paid is imported as open with its full
  amount (`Exports`);
- a contested invoice goes to the payment whose row comes first
  (`matching.py:9`; `MatchingSound` speaks of payments without rivals);
- the forecast's upside and base change places for clients who pay early, for the
  delay is subtracted from an already negative one (`engine.py:49`);
- the gap's "largest lever" is the first, not the largest (`engine.py:153`);
- TReDS is offered for an invoice already overdue when its client's predicted
  delay is long (`options.py:40`);
- equal debits of one day are raised again by a rescan that lists them in
  another order (`detection.py:51`);
- an older statement imported later pairs duplicates anew: the key holds both
  ids, so of debits on days 1 and 8 the second is raised again, under a new key,
  once one on day 5 is there (`detection.py:52`; `RescansAgree` speaks of one debit a day
  and of a latest debit that is left out);
- collecting an invoice that is not yet due lowers the data-room score while
  others are overdue (`dataroom.py:156`; `GoodDeedsCount` says which do not);
- a statement's line that is cut short refuses the whole file (`parser.py:108`).

## 5. Proofs

For every value of the constants (section 2 says which proof module speaks of
which model):

| Theorem | Statement |
|---|---|
| `BooksProofs!InvHolds` | `Spec => []Inv`, the inductive invariant `TypeOK /\ TransactionsSound` |
| `BooksProofs!TypeCorrect`, `TransactionsStaySound` | its two halves |
| `BooksProofs!NoDoubleSettlement` | `Spec => []SettledOnce` |
| `BooksProofs!StatusAgreesWithMatches` | `Spec => []BooksAgree` |
| `BooksProofs!LedgerBalances` | `Spec => []EntriesBalance` |
| `BooksProofs!MakerChecker` | `Spec => []PostedAsApproved` |
| `BooksProofs!BooksImplementsSettlement` | `Spec => RefinesSettlement` |
| `ApprovalsProofs!RecordsStaySound` | `Spec => []RecordsSound` |
| `ApprovalsProofs!MakerCheckerActs` | `Spec => []OnlyApprovedActs` |
| `ApprovalsProofs!DecisionsAreFinal` | `Spec => DecisionsStand` |
| `AlgorithmsProofs!ChainStaysSound` | `Spec => []ChainSound` |
| `AlgorithmsProofs!EveryEditIsFound` | `Spec => []EditsAreFound` |
| `AlgorithmsProofs!SerialChainsVerify` | `Spec => []SerialChainVerifies` |
| `RunPipelineProofs!TransportStaysSound` | `Spec => []TransportSound` |
| `RunPipelineProofs!RelayStaysSaved` | `OneBackend => (Spec => []RelayedIsSaved)` |
| `RunPipelineProofs!RunsOnlyAdvance` | `OneBackend => (Spec => RunsAdvance)` |
| `RunStreamProofs!StreamStaysSound` | `Spec => []StreamSound` |
| `RunStreamProofs!PromptViewersSeeAll` | `Spec => []PromptSeesAll` |
| `EnforcerProofs!ArtifactsStaySound` | `Spec => []ArtifactsSound` |
| `EnforcerProofs!RungsAreEnforcedOnce` | `Spec => []EachRungOnce` |
| `EnforcerProofs!RungsNeverLowered` | `Spec => NeverLowered` |
| `IntakeProofs!IntakeStaysSound` | `Spec => []IntakeSound`, the inductive invariant |
| `IntakeProofs!BooksStaySound` | `Spec => []BooksSound` |
| `IntakeProofs!StatementsStay` | `Spec => []StatementsKept` |
| `IntakeProofs!EachStaysOne` | `Spec => []OneOfEach` |
| `IntakeProofs!PeopleDecide` | `Spec => HumanStays` |
| `BeliefsProofs!MemoryStaysSound` | `Spec => []Inv`, the inductive invariant `MemorySound /\ CardsSound` |
| `BeliefsProofs!ReinforcementCounts` | `Spec => []BeliefsSound` |
| `BeliefsProofs!CardsTellTheTruth` | `Spec => []CardsAreTrue` |
| `BeliefsProofs!EvidenceStaysTrue` | `Spec => []EvidenceFollows` |
| `BeliefsProofs!LogStaysTrue` | `Spec => []LogIsTrue` |
| `BeliefsProofs!ChasersStayFair` | `ChasesAreGiven => (CallSpec => []ChasersFair)`, of `Algorithms` |
| `BeliefsProofs!RecollectionStaysSound` | `PacksAreGiven /\ WorkflowsAreGiven => (CallSpec => []RecollectionSound)`, of `Algorithms` |
| `AlgorithmsProofs!MatchingStaysSound` | `MatchesAreGiven => (CallSpec => []MatchingSound)` |
| `AlgorithmsProofs!ProjectionsStaySound` | `InterestsAreGiven /\ ForecastsAreGiven /\ OptionsAreGiven => (CallSpec => []ProjectionsSound)` |
| `AlgorithmsProofs!DetectionStaysSound` | `DebitsAreGiven => (CallSpec => []DetectionSound)` |
| `AlgorithmsProofs!ReportsStaySound` | `ScoresAreGiven /\ MonthsAreGiven => (CallSpec => []ReportsSound)` |
| `AlgorithmsProofs!BadLinesAlwaysCostThemselves` | `FilesAreGiven => (CallSpec => []BadLinesCostThemselves)` |

**Assumptions**, all named in the modules that declare the constants. `Books`:
requests of agents and of people are different requests, invoices and
transactions different rows, amounts natural numbers, batches sequences of
well-typed proposals. `Approvals`: the four kinds of client are disjoint, and
the value for "nobody decided" is not a client. `Enforcer`: ages are days, ticks
and views are different callers, and the invoices and days are finite, so that a
maximum exists. `AuditChain`, `RunPipeline` and `RunStream`: their bounds are
natural numbers, and a graph and a batch are not empty. The two theorems about
rows and channel assume `OneBackend`, one consumer of events, as
`docker-compose.yml` starts it; with two they are false (section 4). `Intake`: the casts are
sets of its actors, an actor is of one kind, files are sequences of lines, and
the bank gives a movement one reference, if any (without that a movement could
come under two identities, as it does without a reference); and two movements
differ in a field or in their reference, for `dedupe_hash` would merge two that
agree in all (`Hash` keeps movements apart).
`MemoryEngine` and `ConflictCards`: the beliefs are finite, an ingest has one or
two facts, new ids are not old ones, a flagged pair is two different old beliefs,
the kinds of requests are disjoint, a resolver's delete is one of the deletes and
viewers do not resolve. `Algorithms`: what is read from tables is finite and has
one row per id (payments, invoices, memories, debits, transactions); lists are
sequences of what they hold, files of lines; amounts, days and moments are whole
numbers, and counts, tokens and budgets natural ones; each client has a usual
lateness or none, and a list, perhaps empty, of recalled rates between 1 and 3000
basis points, as `parse_deduction_rates` returns; the months reported are those of
the transactions, whose statuses agree with the committed matches, which is
`BooksAgree` of `Books`. TLC evaluates the conjunction, `InputsAreGiven`, on its
instance. Apart from `Enforcer`, `MemoryEngine` and `Algorithms` nothing is
assumed about finiteness.

**Books.** `SettledOnce` is not inductive: a COMMIT adds what was posted
earlier, under conditions that held earlier. `TransactionsSound` says what keeps
them true. Locks are exclusive; what a transaction staged lies under its locks,
and a locked row has not been taken by anyone (`StagedUnderLock`); what it staged
is exactly what its postings settle, plus one invoice between the two claims
(`StagedIsPosted`). Hence at COMMIT the new rows are disjoint from `taken` and
from every other transaction's, which gives `SettledOnce`, `BooksAgree` and the
refinement step. For balance and authority each posting carries its own evidence
(`SoundPosting`), which rests on what validation established for the current
proposal (`AcceptedSound`), on the critic (`VerdictSound`: `commit_proposal`
takes `tds_paise` from the proposal for a full match too, and only the critic
has checked the sum) and on the decision being bound to the queued proposal
(`DecisionBound`, `ApprovalsNamed`). The refinement maps `taken` and `matches`
to themselves: `Commit` is `Settle`, every other action stutters.

**Approvals.** A record is written after the effect it claims, but not by the
statement that caused it. `RecordsSound` therefore carries what a decision in
progress knows: a row is queued once and names its subject (`QueuedOnce`,
`TargetsKnown`), and between the tool's answer and the flush the effect is
already out (`ActsFollow`). That a decision is final follows from its last parts:
a finished decision has left its row decided, a write only moves a row to
approved or rejected, and a decision that begins reads a row that is pending.

**AuditChain.** Each row's hash covers its content and its predecessor's hash
(`RowsHashed`), so an edited row breaks its own link whoever wrote what around
it. Without overlapping transactions every row links to the newest one before it
(`SerialLinks`), so the verifier meets only edited rows as breaks, and the
earliest of them first. Two lemmas provide the least and the newest row of a
finite prefix.

**RunPipeline.** That a job runs once follows from where entries are: a run has
one entry (`JobsOnce`), an entry that was handed out is in one worker's batch
(`BatchesApart`), and what is left of a batch has no outcome yet except the one
being acknowledged (`OutcomesPend`). Then an emitted event can only follow a
"succeeded" of the same run in the case of the doubted success, and XACK names a
job that has reported. On the backend's side `HandlersKnow` says that a handler
has an event while it is busy and relayed it before it acknowledges. Consumers
touch rows and their own group only, so their actions share `BackendKeeps`.

That rows stay ahead of the channel, and never go back, needs `RelaySound`. A
handler decides on the status it loaded, so a run it read as queued must still be
queued when it commits (`HandlerSound`); with one backend nobody else writes the
row. It overwrites a step without looking, so a step's end must not be followed
by its start: a row's content comes from an event that was handled before
(`StepsReported`), a batch is handled in the order of the stream (`InOrder`), and
of two events of a step the later one is its end, because a run's job goes through
its script once (`ScriptFollowed`, which rests on `TransportSound`). `Advances`
then says what every step does to the rows, and what is saved stays saved
(`SavedStays`).

**RunStream.** `RelaySound` relates the two servers a viewer listens to: rows are
at most one event ahead of the channel, the outcome is in a queue only once
everything was published, and the set of sent keys is what was sent. For a prompt
viewer it adds that one that reads the steps after the last event knows the run
to be over or has the outcome in its queue, so every event is in what it replayed
or in what it follows.

**Enforcer.** `WorkIsKnown` says that what a tick has still to prepare is what it
saw crossed, once each, and that a paper being recorded has its file. `MarksHold`
says, of ticks that do not overlap, that a rung that was prepared stays marked and
that the marks during a tick are those it read, raised for what it has done; this
gives `EachRungOnce`, and `NeverLowered` because a tick only acts upwards from
what it read.

**Intake.** `IntakeSound` follows each kind of actor. What an import has inserted
is new, and every row of its file is still to insert or there, in the books or in
its own open transaction (`ImportSound`); two open imports never hold the same
identity, because an insert waits for whoever has it (`InsertsApart`). So rows are
in the books once and a finished import has brought all of its own. What a run is
about to learn of a vendor was not learned by an undisturbed run before, and of
two runs that learn at the same time one has seen the other commit (`LearnerSound`,
`LearnersApart`). A scan raises all of what it found that was not known, apart
from what others raise (`ScanSound`, `RaisedApart`). An onboarding beside which
nothing was committed knows every name and number there is, its own included
(`ExportSound`), and a forecast that nothing came into has half of a balance, then
a whole one (`OpeningSound`).

`HumanStays` speaks of committed categories, which change at COMMIT
to what was written statements before. `CategoriesGuarded` says what keeps the
guard of `SetCategory` true until then: the row an import wrote is locked by it,
nobody else has it locked, and its committed category is still not a person's.

**Beliefs.** `MemorySound` says of each transaction that it stages committed
units only under their locks, that no two hold one lock, that an increment it
holds is one above the committed count, and that units it inserted are its own;
a unit is never unborn, and a deleted one never comes back. So a commit adds
exactly one hit per bump. `CardsSound` follows a decision through its place: which
of the two memories it drops, whether its delete has been carried out or given
up, and that no two decisions are on one card until one is contested.
`EvidenceSound` says of a running ingest which of its beliefs have evidence
already, and of a delete that a node it erased is back only if an ingest had
listed it. `LogSound` relates what a transaction has staged to the entries it will
log (`RequestLogged`), so that a commit publishes both or neither, and says what
only undisturbed passes keep: while no pass met an ingest or another pass, what a
pass has read as active has not been retired since (`PassSound`, `PassesAlone`).

**Algorithms.** The answer of a call is fixed by its input, so each theorem first
shows, as an invariant, that `result` is the algorithm's answer to an input that
was given, and the rest is about operators. Three things recur. A loop is a
recursive function, and what it keeps is shown by `UpTo`, the induction without an
operator as parameter. A sum over a finite set is a fold, and lemmas say how it
splits when the set is divided or one element changes. A sort is a permutation by
rank, so equals stay in their order.

*Beliefs.* `PastDueIsOverdue` compares the two notions of overdue, and
`OneMorePayment` says what a claim adds to the days read back. A budget is packed
memory by memory: `StepsLead` gives the run of a step that stays in a set, which
is what a recursive function needs to be what it says, and `Packed` is its
invariant (`UpTo` is the induction, by the least counterexample). Among the
workflows that hold a shared one as often as it occurs, a longest is reported,
because whatever subsumed it would hold the shared one too (`PartOfPart`).

*Matching.* A pass offers each payment, in turn, at most one of the invoices that
nobody before it took (`Offering`, `PassKnows`); the match node is two passes, the
second over what the first leaves (`NodeIs`). So nothing is used twice
(`NoneTwice`), and each proposal carries the sum the critic checks (`EachSettles`).
Two invoices that are alike are candidates of the same payments, and as long as
both are free neither is offered; so both stay free (`LeftAlone`,
`NoTwinProposed`). Without a rival, what has been taken in a payment's turn are
invoices it could not settle, so it is offered what it would be offered alone
(`ExactDeserved`, `TdsDeserved`). For what is learned: the rate computed back from
a TDS match is exactly the rate that deducts (`RateGivenBack`), so learning adds
only rates that were tried anyway: the same invoices fit (`TaughtCounts`), and the
second node proposes the same with the higher confidence (`TdsRaised`). That
confidence is still below the floor, so a person decides.

*Projections.* Compounding is followed month by month. Each invoice falls in one
week or past the horizon, so the balance after a week is the opening less the
outflows so far plus every invoice expected by then; a scenario that expects each
of them later is never ahead. The first negative week is the least of a finite
set, and options are compared by cost per unlocked rupee, cross-multiplied.

*Detection.* Debits of one vendor and amount, sorted by day, fall into series, and
each repeat is counted at the series it is in. A rescan's rows tell themselves apart
by day, so a permutation of the input yields the same set of findings. Of a
baseline, the median lies between the extremes, and an overcharge beyond half the
median makes the extremes too far apart for the baseline to be stable.

*Reports and parsers.* The score is a weighted sum of capped shares, and a good
deed raises one of them and leaves the others. A month's counts are cardinalities
of a partition of the transactions. A file's rows are flattened line by line, so
what a line contributes does not depend on the others.

In every module one lemma per action, or per group of actions that touch the same
state, shows that it keeps the invariant.

**Only model-checked:** liveness (`RequestsEnd`, `ActorsEnd`, `DeliverableEnds`,
`PromptEnds`), for the prover handles neither fairness nor ENABLED. Every invariant
and every safety property of a step that a passing run checks is also a theorem.

## 6. Plan

Done: all modules of section 2 and the safety theorems of section 5. What is left, in this order:

1. `MemoryEngine`: promotion of memories between scopes, the prefetch cache and
   the insertion of mined workflows, which is not deduplicated
   (`consolidation.py:189`).
2. A composition of `Enforcer` and `Approvals` in which letters are decided.

## 7. Not modelled

- Authentication and tenancy: every query carries the tenant, and the models fix
  one.
- Pages other than the stream hook; prompts and LLM providers: their effects (the
  critic's veto, the resolution of a conflict, what is extracted) are free
  choices.
- Promotion, prefetch and procedural insertion in the memory service (section 6);
  the radar and why-trail listings, which only read.
- Confidence of a memory and its order among the recalled: the code reads a
  corroboration count it never increments, so confidence does not change.
- Infrastructure, seeds, evaluation and code generation.
- Time, except where order matters: the cooldown of `Approvals` and the window of
  `ConflictCards` are one window each, days of `Enforcer` jump from rung to rung,
  timeouts are a failure at any point.
