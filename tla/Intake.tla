------------------------------- MODULE Intake -------------------------------
(***************************************************************************)
(* What comes into the books and what the agents add to it: statement      *)
(* imports and invoice exports (routes_books.py), the reconciliation run   *)
(* that parses and ingests a statement, categorizes its debits and learns  *)
(* (agents reconciliation/nodes.py), a person's category corrections, the  *)
(* anomaly scan, the forecast run, and the internal routes they call.      *)
(*                                                                         *)
(* Every request is one READ COMMITTED transaction: what it wrote is seen  *)
(* by the others when it commits, and a row it wrote is locked until then. *)
(* Matching and posting are in Books, the job's way to the worker is in    *)
(* RunPipeline, and the memory behind remember is in MemoryEngine.         *)
(***************************************************************************)
EXTENDS Integers, FiniteSets, Sequences, SequencesExt, FiniteSetsExt

CONSTANTS
  Uploads, People, Scans, Exports, Forecasts,
  Casts,      \* sets of actors, one of which is on stage
  NoRef,      \* an empty reference cell
  None,
  Statement,  \* lines of each upload: [ref, move, vendor, amount, direction]
  Invoices,   \* lines of each export: [number, client]
  Correction, \* what each person sets: [move, code]
  RuleCode,   \* LEXICON: the code a vendor's narration has, or None
  Codes,      \* chart of accounts
  MaxCrashes  \* bound: requests and runs that crash

Actors == Uploads \cup People \cup Scans \cup Exports \cup Forecasts

ASSUME CastsAreActors == Casts \subseteq SUBSET Actors /\ MaxCrashes \in Nat
\* Requests of different kinds are different requests.
ASSUME KindsApart ==
  /\ Uploads \cap (People \cup Scans \cup Exports \cup Forecasts) = {}
  /\ People \cap (Scans \cup Exports \cup Forecasts) = {}
  /\ Scans \cap (Exports \cup Forecasts) = {} /\ Exports \cap Forecasts = {}
\* A file is a sequence of lines.
ASSUME InputsAreGiven ==
  /\ Uploads = DOMAIN Statement /\ People = DOMAIN Correction /\ Exports = DOMAIN Invoices
  /\ \A u \in Uploads : Statement[u] \in Seq(ToSet(Statement[u]))
  /\ \A o \in Exports : Invoices[o] \in Seq(ToSet(Invoices[o]))
\* The bank gives a movement one reference, if any.
ASSUME ReferencesAgree ==
  \A u, v \in Uploads : \A l \in ToSet(Statement[u]), m \in ToSet(Statement[v]) :
    l.move = m.move => l.ref = m.ref \/ NoRef \in {l.ref, m.ref}

VARIABLES
  cast,
  files,     \* uploads whose bytes are stored
  runs,      \* uploads with a document and a run row
  txns,      \* bank_transactions: [hash, line, by]
  category,  \* category_code and category_source: hash -> [code, source]
  anomalies, \* [key, by]
  parties,   \* counterparties: [name, by]
  invoices,  \* [number, name, by]
  forecasts, \* [by, opening]
  claims,    \* what was remembered about vendors: [vendor, code, by]
  pc,
  todo,      \* lines or items an actor has still to write, in order
  snap,      \* what an actor read last
  wrote,     \* rows an actor's open transaction wrote
  aborted,   \* actors that crashed or were a deadlock's victim
  torn,      \* history: actors something else committed beside
  balances   \* history: every balance the books had

books == <<txns, category, anomalies, parties, invoices, forecasts>>
vars == <<cast, files, runs, books, claims, pc, todo, snap, wrote, aborted, torn, balances>>

Init ==
  /\ cast \in Casts
  /\ files = {} /\ runs = {} /\ txns = {} /\ category = <<>> /\ anomalies = {}
  /\ parties = {} /\ invoices = {} /\ forecasts = {} /\ claims = {}
  /\ pc = [a \in Actors |-> "idle"]
  /\ todo = [a \in Actors |-> <<>>] /\ snap = [a \in Actors |-> {}] /\ wrote = [a \in Actors |-> {}]
  /\ aborted = {} /\ torn = {} /\ balances = {0}

Goto(a, place) == pc' = [pc EXCEPT ![a] = place]
InFlight(a) == a \in cast /\ pc[a] \notin {"idle", "done", "failed"}
Write(a, rows) == wrote' = [wrote EXCEPT ![a] = @ \cup rows]
Read(a, what) == snap' = [snap EXCEPT ![a] = what]
Take(a) == todo' = [todo EXCEPT ![a] = Tail(@)]
History == UNCHANGED <<cast, aborted, balances>>
\* Everybody at work beside a when it commits.
Beside(a) == torn' = torn \cup {b \in cast \ {a} : InFlight(b)}
                         \cup (IF \E b \in cast \ {a} : InFlight(b) THEN {a} ELSE {})

-----------------------------------------------------------------------------
(* The bank statement: parse_statement and dedupe_hash.                     *)

\* Lines with neither a debit nor a credit are skipped.
ParsedLines(u) == {k \in DOMAIN Statement[u] : Statement[u][k].amount > 0}

\* The identity of a row: its reference, or its place when it has none (the
\* first line after the header is row 2), and the movement.  The code hashes the
\* movement's fields: two movements are taken to differ in them or in their
\* reference.
Hash(u, k) ==
  LET l == Statement[u][k] IN
  [ref |-> l.ref, row |-> IF l.ref = NoRef THEN k + 1 ELSE 0, move |-> l.move]

RowOf(u, k) == [hash |-> Hash(u, k), line |-> Statement[u][k], by |-> u]
Rows(u) == {RowOf(u, k) : k \in ParsedLines(u)}
\* The rows in the order of the file.
RowsInOrder(u) ==
  {[j \in DOMAIN s |-> RowOf(u, s[j])] :
     s \in {t \in SetToSeqs(ParsedLines(u)) : \A i, j \in DOMAIN t : i < j => t[i] < t[j]}}

Sum(dir, rows) == FoldSet(LAMBDA r, total : total + r.line.amount, 0,
                          {r \in rows : r.line.direction = dir})
Balance(rows) == Sum("cr", rows) - Sum("dr", rows)

-----------------------------------------------------------------------------
(* import_statement: bytes, then the rows, then the job.                    *)

Stored(u) == files \cup {u}

StoreUpload(u) ==
  /\ pc[u] = "idle" /\ files' = Stored(u)
  /\ Goto(u, "stored")
  /\ History /\ UNCHANGED <<runs, books, claims, todo, snap, wrote, torn>>

\* Document, run and audit row in one transaction.
SaveUpload(u) ==
  /\ pc[u] = "stored" /\ runs' = runs \cup {u}
  /\ Goto(u, "saved")
  /\ History /\ UNCHANGED <<files, books, claims, todo, snap, wrote, torn>>

EnqueueImport(u) ==
  /\ pc[u] = "saved"
  /\ Goto(u, "queued")
  /\ History /\ UNCHANGED <<files, runs, books, claims, todo, snap, wrote, torn>>

-----------------------------------------------------------------------------
(* The reconciliation run of the import.                                    *)

\* A missing document or file, and a statement without rows, fail the run.
FetchAndParse(u) ==
  /\ pc[u] = "queued"
  /\ LET readable == u \in runs /\ u \in files /\ ParsedLines(u) # {}
     IN  /\ Goto(u, IF readable THEN "ingest" ELSE "failed")
         /\ \E rows \in IF readable THEN RowsInOrder(u) ELSE {<<>>} : todo' = [todo EXCEPT ![u] = rows]
  /\ History /\ UNCHANGED <<files, runs, books, claims, snap, wrote, torn>>

\* Somebody else's open transaction inserted the row.
HashPending(u, h) == \E b \in Uploads \ {u} : \E r \in wrote[b] : pc[b] = "ingest" /\ r.hash = h
\* Mutant for StatementsKept: rows are inserted without looking.
HashUnknown(u, h) == FALSE
HashTaken(u, h) == \E r \in txns \cup wrote[u] : r.hash = h

\* INSERT ... ON CONFLICT DO NOTHING of one row: it waits for an open
\* transaction that inserted the same hash.
InsertRow(u) ==
  /\ pc[u] = "ingest" /\ todo[u] # <<>> /\ ~HashPending(u, Head(todo[u]).hash)
  /\ IF HashTaken(u, Head(todo[u]).hash) THEN UNCHANGED wrote ELSE Write(u, {Head(todo[u])})
  /\ Take(u)
  /\ History /\ UNCHANGED <<files, runs, books, claims, pc, snap, torn>>

CommitRows(u) ==
  /\ pc[u] = "ingest" /\ todo[u] = <<>>
  /\ txns' = txns \cup wrote[u]
  /\ balances' = balances \cup {Balance(txns')}
  /\ wrote' = [wrote EXCEPT ![u] = {}]
  /\ Goto(u, "context") /\ Beside(u)
  /\ UNCHANGED <<cast, files, runs, category, anomalies, parties, invoices, forecasts,
                 claims, todo, snap, aborted>>

\* recon_context: the uncategorized debits, among the rest.
ReadContext(u) ==
  /\ pc[u] = "context"
  /\ Read(u, {r \in txns : r.line.direction = "dr" /\ r.hash \notin DOMAIN category})
  /\ Goto(u, "classify")
  /\ History /\ UNCHANGED <<files, runs, books, claims, todo, wrote, torn>>

\* The codes remembered for a vendor; the most confident one is used, and
\* confidence is the memory's own affair.
Remembered(vendor) == {c.code : c \in {d \in claims : d.vendor = vendor}}

\* categorize: a remembered code first, the lexicon otherwise, only codes of
\* the chart of accounts.
ItemsFor(row, recalled) ==
  LET known == recalled[row.line.vendor]
      rule == RuleCode[row.line.vendor]
  IN  IF known \in Codes THEN {[hash |-> row.hash, vendor |-> row.line.vendor, code |-> known, source |-> "memory"]}
      ELSE IF rule \in Codes THEN {[hash |-> row.hash, vendor |-> row.line.vendor, code |-> rule, source |-> "rule"]}
      ELSE {}

\* Memory answers each vendor with one of its claims, or with nothing when it
\* has none.  A run without items sends none.
Classify(u) ==
  /\ pc[u] = "classify"
  /\ \E recalled \in [{r.line.vendor : r \in snap[u]} -> Codes \cup {None}] :
       /\ \A v \in DOMAIN recalled :
            IF Remembered(v) = {} THEN recalled[v] = None ELSE recalled[v] \in Remembered(v)
       /\ LET items == UNION {ItemsFor(r, recalled) : r \in snap[u]} IN
          /\ \E s \in SetToSeqs(items) : todo' = [todo EXCEPT ![u] = s]
          \* what learn will remember: rule codes of vendors without a claim
          /\ Read(u, {i \in items : i.source = "rule" /\ recalled[i.vendor] = None})
          /\ Goto(u, IF items = {} THEN "learn" ELSE "categorize")
  /\ History /\ UNCHANGED <<files, runs, books, claims, wrote, torn>>

-----------------------------------------------------------------------------
(* Categories: the agent's guarded UPDATE and the person's correction.      *)

RowLocked(a, h) == \E b \in (Uploads \cup People) \ {a} :
  pc[b] \in {"categorize", "correct"} /\ \E w \in wrote[b] : w.hash = h

SourceOf(h) == IF h \in DOMAIN category THEN category[h].source ELSE None

\* Mutant for HumanStays: the guard is left to the reader of the context.
MayAlwaysSet(h) == TRUE
\* "Agent sources never overwrite a human decision" (set_category).
MayCategorize(h) == SourceOf(h) # "human"

\* One guarded UPDATE of categorize_transactions, once the row is free.
SetCategory(u) ==
  /\ pc[u] = "categorize" /\ todo[u] # <<>> /\ ~RowLocked(u, Head(todo[u]).hash)
  /\ IF MayCategorize(Head(todo[u]).hash) THEN Write(u, {Head(todo[u])}) ELSE UNCHANGED wrote
  /\ Take(u)
  /\ History /\ UNCHANGED <<files, runs, books, claims, pc, snap, torn>>

CategoriesAfter(a) ==
  LET new == {w.hash : w \in wrote[a]} IN
  [h \in DOMAIN category \cup new |->
     IF h \in new THEN LET w == CHOOSE w \in wrote[a] : w.hash = h
                       IN  [code |-> w.code, source |-> w.source]
     ELSE category[h]]

CommitCategories(a) ==
  /\ \/ pc[a] = "categorize" /\ todo[a] = <<>> /\ Goto(a, "learn")
     \/ pc[a] = "correct" /\ wrote[a] # {} /\ Goto(a, "tell")
  /\ category' = CategoriesAfter(a)
  /\ wrote' = [wrote EXCEPT ![a] = {}]
  /\ Beside(a)
  /\ History /\ UNCHANGED <<files, runs, txns, anomalies, parties, invoices, forecasts,
                            claims, todo, snap>>

\* learn: a claim for each vendor the lexicon named and memory did not know.
ClaimsOf(u) == {[vendor |-> i.vendor, code |-> i.code, by |-> u] : i \in snap[u]}

\* The observations go to memory one by one; memory may be down for any.
Learn(u) ==
  /\ pc[u] = "learn"
  /\ \E kept \in SUBSET ClaimsOf(u) : claims' = claims \cup kept
  /\ Goto(u, "done")
  /\ History /\ UNCHANGED <<files, runs, books, todo, snap, wrote, torn>>

\* correct_category refuses an unknown code (422), and an unknown transaction
\* (404), which may be asked for again.
ReadTxn(p) ==
  /\ pc[p] = "idle"
  /\ LET found == {r \in txns : r.line.move = Correction[p].move} IN
     IF Correction[p].code \notin Codes THEN Goto(p, "failed") /\ UNCHANGED snap
     ELSE IF found = {} THEN UNCHANGED <<pc, snap>>
     ELSE Goto(p, "correct") /\ \E r \in found : Read(p, {r})
  /\ History /\ UNCHANGED <<files, runs, books, claims, todo, wrote, torn>>

SetByHand(p) ==
  /\ pc[p] = "correct" /\ wrote[p] = {}
  /\ \E r \in snap[p] :
       /\ ~RowLocked(p, r.hash)
       /\ Write(p, {[hash |-> r.hash, code |-> Correction[p].code, source |-> "human"]})
  /\ History /\ UNCHANGED <<files, runs, books, claims, pc, todo, snap, torn>>

\* After the commit the vendor's code goes to memory, best effort.
TellMemory(p) ==
  /\ pc[p] = "tell"
  /\ \E told \in BOOLEAN : \E r \in snap[p] :
       claims' = IF told THEN claims \cup {[vendor |-> r.line.vendor, code |-> Correction[p].code, by |-> p]}
                 ELSE claims
  /\ Goto(p, "done")
  /\ History /\ UNCHANGED <<files, runs, books, todo, snap, wrote, torn>>

-----------------------------------------------------------------------------
(* The anomaly scan: what two debits alike give (Anomalies has the details  *)
(* of detection) and persist_anomalies.                                     *)

ReadDebits(s) ==
  /\ pc[s] = "idle"
  /\ Read(s, {{x[1].hash, x[2].hash} : x \in {y \in txns \X txns :
        /\ y[1] # y[2] /\ y[1].line.direction = "dr" /\ y[2].line.direction = "dr"
        /\ y[1].line.vendor = y[2].line.vendor /\ y[1].line.amount = y[2].line.amount}})
  /\ Goto(s, "persist")
  /\ History /\ UNCHANGED <<files, runs, books, claims, todo, wrote, torn>>

KnownKeys == {f.key : f \in anomalies}

\* The known keys are read; what is new will be inserted.
ReadKnown(s) ==
  /\ pc[s] = "persist"
  /\ todo' = [todo EXCEPT ![s] = SetToSeq(snap[s] \ KnownKeys)]
  /\ Goto(s, "raise")
  /\ History /\ UNCHANGED <<files, runs, books, claims, snap, wrote, torn>>

NewKeys(s) == ToSet(todo[s])
KeyPending(s) == \E b \in Scans \ {s} : \E f \in wrote[b] : f.key \in NewKeys(s)

\* Mutant for OneOfEach: the key is compared with the known ones only.
CollidesNever(s) == FALSE
\* dedupe_key is unique: the whole request fails on one that is taken.
Collides(s) == NewKeys(s) \cap KnownKeys # {}

RaiseAnomalies(s) ==
  /\ pc[s] = "raise" /\ wrote[s] = {} /\ NewKeys(s) # {} /\ ~KeyPending(s)
  /\ IF Collides(s) THEN Goto(s, "failed") /\ UNCHANGED wrote
     ELSE Write(s, {[key |-> k, by |-> s] : k \in NewKeys(s)}) /\ UNCHANGED pc
  /\ History /\ UNCHANGED <<files, runs, books, claims, todo, snap, torn>>

CommitAnomalies(s) ==
  /\ pc[s] = "raise" /\ (wrote[s] # {} \/ NewKeys(s) = {})
  /\ anomalies' = anomalies \cup wrote[s]
  /\ wrote' = [wrote EXCEPT ![s] = {}]
  /\ Goto(s, "done") /\ Beside(s)
  /\ History /\ UNCHANGED <<files, runs, txns, category, parties, invoices, forecasts,
                            claims, todo, snap>>

-----------------------------------------------------------------------------
(* onboard_invoices: one transaction that reads the names and numbers and   *)
(* inserts what is new; neither has a unique key.                           *)

ReadParties(o) ==
  /\ pc[o] = "idle"
  /\ Read(o, {p.name : p \in parties} \X {"name"})
  /\ Goto(o, "numbers")
  /\ History /\ UNCHANGED <<files, runs, books, claims, todo, wrote, torn>>

ReadNumbers(o) ==
  /\ pc[o] = "numbers"
  /\ Read(o, snap[o] \cup ({i.number : i \in invoices} \X {"number"}))
  /\ todo' = [todo EXCEPT ![o] = Invoices[o]]
  /\ Goto(o, "onboard")
  /\ History /\ UNCHANGED <<files, runs, books, claims, wrote, torn>>

Seen(o, inv) == {<<inv.client, "name">>, <<inv.number, "number">>}

\* One line: its client unless the name is known, and the invoice unless the
\* number is.
NewRows(o, inv, place) ==
  (IF <<inv.client, "name">> \in snap[o] THEN {}
   ELSE {[row |-> "party", name |-> inv.client, place |-> place]})
  \cup
  (IF <<inv.number, "number">> \in snap[o] THEN {}
   ELSE {[row |-> "invoice", name |-> inv.client, number |-> inv.number, place |-> place]})

OnboardLine(o) ==
  /\ pc[o] = "onboard" /\ todo[o] # <<>>
  /\ Write(o, NewRows(o, Head(todo[o]), Len(Invoices[o]) - Len(todo[o]) + 1))
  /\ Read(o, snap[o] \cup Seen(o, Head(todo[o])))
  /\ Take(o)
  /\ History /\ UNCHANGED <<files, runs, books, claims, pc, torn>>

\* The paid ones are remembered after the commit (the client's claims are not
\* followed here).
CommitOnboarding(o) ==
  /\ pc[o] = "onboard" /\ todo[o] = <<>>
  /\ parties' = parties \cup {[name |-> w.name, by |-> <<o, w.place>>] :
                                w \in {v \in wrote[o] : v.row = "party"}}
  /\ invoices' = invoices \cup {[number |-> w.number, name |-> w.name, by |-> <<o, w.place>>] :
                                  w \in {v \in wrote[o] : v.row = "invoice"}}
  /\ wrote' = [wrote EXCEPT ![o] = {}]
  /\ Goto(o, "done") /\ Beside(o)
  /\ History /\ UNCHANGED <<files, runs, txns, category, anomalies, forecasts, claims, todo, snap>>

-----------------------------------------------------------------------------
(* The forecast run: forecast_context sums the credits and the debits with  *)
(* a statement each, and persist_forecast saves the result.                 *)

ReadCredits(f) ==
  /\ pc[f] = "idle"
  /\ Read(f, {Sum("cr", txns)})
  /\ Goto(f, "debits")
  /\ History /\ UNCHANGED <<files, runs, books, claims, todo, wrote, torn>>

\* Mutant for BooksSound: both sums are added.
OpeningGross(credits, debits) == credits + debits
Opening(credits, debits) == credits - debits

ReadDebitSum(f) ==
  /\ pc[f] = "debits"
  /\ \E credits \in snap[f] : Read(f, {Opening(credits, Sum("dr", txns))})
  /\ Goto(f, "forecast")
  /\ History /\ UNCHANGED <<files, runs, books, claims, todo, wrote, torn>>

SaveForecast(f) ==
  /\ pc[f] = "forecast"
  /\ forecasts' = forecasts \cup {[by |-> f, opening |-> o] : o \in snap[f]}
  /\ Goto(f, "done") /\ Beside(f)
  /\ History /\ UNCHANGED <<files, runs, txns, category, anomalies, parties, invoices,
                            claims, todo, snap, wrote>>

-----------------------------------------------------------------------------
(* Failures.                                                                *)

\* The open transaction is rolled back, and the run or request ends there.
Abort(a) ==
  /\ aborted' = aborted \cup {a}
  /\ wrote' = [wrote EXCEPT ![a] = {}] /\ todo' = [todo EXCEPT ![a] = <<>>]
  /\ Goto(a, "failed")
  /\ UNCHANGED <<cast, files, runs, books, claims, snap, torn, balances>>

Crash(a) == InFlight(a) /\ Cardinality(aborted) < MaxCrashes /\ Abort(a)

\* a's next statement waits for b's transaction.
WaitsFor(a, b) ==
  /\ a # b
  /\ \/ /\ pc[a] = "ingest" /\ pc[b] = "ingest" /\ todo[a] # <<>>
        /\ \E r \in wrote[b] : r.hash = Head(todo[a]).hash
     \/ /\ pc[a] = "categorize" /\ pc[b] \in {"categorize", "correct"} /\ todo[a] # <<>>
        /\ \E w \in wrote[b] : w.hash = Head(todo[a]).hash

\* Mutant for ActorsEnd: the cycle is not noticed.
DeadlockUnnoticed(a) == FALSE
Deadlocked(a) == \E S \in SUBSET {b \in cast : InFlight(b)} :
  a \in S /\ \A b \in S : (\E c \in S : WaitsFor(b, c)) /\ (\E c \in S : WaitsFor(c, b))

DeadlockVictim(a) == Deadlocked(a) /\ Abort(a)

-----------------------------------------------------------------------------

UploadStep(u) ==
  \/ StoreUpload(u) \/ SaveUpload(u) \/ EnqueueImport(u) \/ FetchAndParse(u)
  \/ InsertRow(u) \/ CommitRows(u) \/ ReadContext(u) \/ Classify(u)
  \/ SetCategory(u) \/ CommitCategories(u) \/ Learn(u)
PersonStep(p) == ReadTxn(p) \/ SetByHand(p) \/ CommitCategories(p) \/ TellMemory(p)
ScanStep(s) == ReadDebits(s) \/ ReadKnown(s) \/ RaiseAnomalies(s) \/ CommitAnomalies(s)
ExportStep(o) == ReadParties(o) \/ ReadNumbers(o) \/ OnboardLine(o) \/ CommitOnboarding(o)
ForecastStep(f) == ReadCredits(f) \/ ReadDebitSum(f) \/ SaveForecast(f)

Step(a) ==
  \/ a \in Uploads /\ UploadStep(a)
  \/ a \in People /\ PersonStep(a)
  \/ a \in Scans /\ ScanStep(a)
  \/ a \in Exports /\ ExportStep(a)
  \/ a \in Forecasts /\ ForecastStep(a)

\* The pages that list transactions, exceptions and accounts, at any moment;
\* that nobody waits for ever is ActorsEnd.
ListBooks == UNCHANGED vars

Next ==
  \/ \E a \in cast : Step(a) \/ Crash(a) \/ DeadlockVictim(a)
  \/ ListBooks

Spec == Init /\ [][Next]_vars

\* Requests, once begun, and runs are carried on.
FairSpec == Spec /\ \A a \in Actors : WF_vars(a \in cast /\ (Step(a) \/ DeadlockVictim(a)))

-----------------------------------------------------------------------------
(* Properties.                                                              *)

\* Type invariant of the module's state.
TypeOK ==
  /\ files \subseteq Uploads /\ runs \subseteq Uploads /\ aborted \subseteq cast
  /\ \A r \in txns : r.by \in Uploads /\ r.line.amount > 0
  /\ \A h \in DOMAIN category : category[h].code \in Codes
                                /\ category[h].source \in {"memory", "rule", "human"}
  /\ \A f \in anomalies : f.by \in Scans
  /\ \A c \in claims : c.by \in Uploads \cup People /\ c.code \in Codes
  /\ \A a \in Actors : pc[a] \in {"idle", "stored", "saved", "queued", "ingest", "context", "classify",
       "categorize", "learn", "correct", "tell", "persist", "raise", "numbers", "onboard",
       "debits", "forecast", "done", "failed"}

\* A movement that carries its reference, or stands in the same row of each
\* upload, is one transaction, whatever is uploaded again or at the same time.
IngestedOnce ==
  \A r, q \in txns :
    r.line.move = q.line.move /\ r.hash.row = q.hash.row => r = q

\* The run of an import that no crash or deadlock hit succeeds, bytes and rows
\* being there when the job arrives, and a statement that was ingested has
\* every one of its movements in the books, whoever inserted it.
RunsSucceed ==
  \A u \in cast \cap Uploads :
    /\ pc[u] = "failed" => u \in aborted \/ ParsedLines(u) = {}
    /\ pc[u] \in {"context", "classify", "categorize", "learn", "done"} =>
         \A r \in Rows(u) : \E t \in txns : t.hash = r.hash

\* What is uploaded arrives, once.
StatementsKept == IngestedOnce /\ RunsSucceed

\* "Agent sources never overwrite a human decision": once a person has set a
\* category it changes only to what a person sets, even when the agent decided
\* before the person did and the updates wait for one another.
HumanStays ==
  [][\A h \in DOMAIN category :
       category[h].source = "human" =>
         h \in DOMAIN category' /\ category'[h].source = "human"]_vars

\* "Only when no claim exists yet for that vendor" (learn): agents that did not
\* overlap never tell memory about a vendor twice.
ClaimedOnce ==
  \A c, d \in claims :
    c.by \in Uploads \ torn /\ d.by \in Uploads \ torn /\ c.vendor = d.vendor
    /\ c.code = d.code => c = d

\* A finding has one anomaly however many scans raise it, and a scan that ends
\* well has an anomaly for every finding: what a collision or a crash lost is
\* raised by the next scan.
FindingsKept ==
  /\ \A f, g \in anomalies : f.key = g.key => f = g
  /\ \A s \in cast \cap Scans : pc[s] = "done" => snap[s] \subseteq KnownKeys

\* "Idempotent by name/number" (onboard_invoices): exports imported one after
\* the other, with lines repeated in one or both, give each client and each
\* invoice once.
OnboardedOnce ==
  torn = {} => /\ \A p, q \in parties : p.name = q.name => p = q
               /\ \A i, j \in invoices : i.number = j.number => i = j

\* Claims, findings, clients and invoices are there once, and findings stay.
OneOfEach == ClaimedOnce /\ FindingsKept /\ OnboardedOnce

\* "Cash position derived from the books: net of all recorded movements": the
\* opening balance of a forecast that no commit fell into is one the books had.
OpeningsWereTrue == \A f \in forecasts : f.by \notin torn => f.opening \in balances

\* The state is well typed, and forecasts start from a balance the books had.
BooksSound == TypeOK /\ OpeningsWereTrue

\* Every request and run ends, whichever rows they insert or update in
\* whatever order.
ActorsEnd == \A a \in Actors : InFlight(a) ~> pc[a] \in {"done", "failed"}

-----------------------------------------------------------------------------
(* What the documentation says and the code does not keep.                  *)

\* "Stable identity of a statement row across re-uploads" (dedupe_hash): a
\* movement is one transaction.  Fails for one without a reference in two
\* statements that overlap, for its place in the file is part of the hash.
MovementOnce == \A r, q \in txns : r.line.move = q.line.move => r = q
=============================================================================
