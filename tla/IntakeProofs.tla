---------------------------- MODULE IntakeProofs ----------------------------
(***************************************************************************)
(* A proof about Intake for any uploads, people and requests: no agent     *)
(* overwrites a category that a person set, however their transactions     *)
(* interleave.                                                             *)
(***************************************************************************)
EXTENDS Intake, FiniteSetTheorems, TLAPS

\* The rows an actor's transaction has set a category of.
Setting(a) == pc[a] \in {"categorize", "correct"}
Touches(a, h) == Setting(a) /\ \E w \in wrote[a] : w.hash = h

\* Rows are locked by one transaction each; what a person writes is a person's,
\* and what an agent wrote was not a person's and still is not.
CategoriesGuarded ==
  /\ cast \subseteq Actors /\ DOMAIN pc = Actors /\ DOMAIN wrote = Actors
  /\ \A a \in Actors :
       /\ pc[a] \in {"idle", "context", "classify"} => wrote[a] = {}
       /\ Setting(a) => a \in Uploads \cup People
       /\ pc[a] = "correct" => \A w \in wrote[a] : w.source = "human"
       /\ pc[a] = "categorize" => \A w \in wrote[a] : SourceOf(w.hash) # "human"
  /\ \A a, b \in Actors : a # b => \A h : ~(Touches(a, h) /\ Touches(b, h))

LEMMA GuardedInit == Init => CategoriesGuarded
  <1> SUFFICES ASSUME Init PROVE CategoriesGuarded
    OBVIOUS
  <1>1. cast \subseteq Actors /\ DOMAIN pc = Actors /\ DOMAIN wrote = Actors
    BY CastsAreActors DEF Init
  <1>2. \A a \in Actors : pc[a] = "idle" /\ wrote[a] = {}
    BY DEF Init
  <1> QED BY <1>1, <1>2 DEF CategoriesGuarded, Setting, Touches

\* What a step of a that sets no category has to show.
LEMMA OthersKeep ==
  ASSUME CategoriesGuarded, NEW a \in Actors, UNCHANGED <<cast, category>>,
         DOMAIN pc' = Actors, DOMAIN wrote' = Actors,
         \A b \in Actors \ {a} : pc'[b] = pc[b] /\ wrote'[b] = wrote[b],
         pc'[a] \in {"idle", "context", "classify", "categorize", "correct"} => wrote'[a] = {},
         Setting(a)' => a \in Uploads \cup People
  PROVE  CategoriesGuarded'
  <1>1. \A h : ~Touches(a, h)'
    BY DEF Touches, Setting
  <1>2. \A b \in Actors \ {a} : (Setting(b)' <=> Setting(b)) /\ \A h : Touches(b, h)' <=> Touches(b, h)
    BY DEF Touches, Setting
  <1>3. \A h : SourceOf(h)' = SourceOf(h)
    BY DEF SourceOf
  <1>4. \A b \in Actors :
          /\ pc'[b] \in {"idle", "context", "classify"} => wrote'[b] = {}
          /\ Setting(b)' => b \in Uploads \cup People
          /\ pc'[b] = "correct" => \A w \in wrote'[b] : w.source = "human"
    BY <1>2 DEF CategoriesGuarded
  <1>5. ASSUME NEW b \in Actors, pc'[b] = "categorize", NEW w \in wrote'[b] PROVE SourceOf(w.hash)' # "human"
    <2>1. b # a
      BY <1>5
    <2>2. SourceOf(w.hash) # "human"
      BY <1>5, <2>1 DEF CategoriesGuarded
    <2> QED BY <2>2 DEF SourceOf
  <1>6. ASSUME NEW b \in Actors, NEW c \in Actors, b # c, NEW h PROVE ~(Touches(b, h)' /\ Touches(c, h)')
    BY <1>1, <1>2, <1>6 DEF CategoriesGuarded
  <1> QED BY <1>4, <1>5, <1>6 DEF CategoriesGuarded

\* What an UPDATE of one row's category has to show.
LEMMA SettingKeeps ==
  ASSUME CategoriesGuarded, NEW a \in Uploads \cup People, UNCHANGED <<cast, category, pc>>, Setting(a),
         NEW x, ~RowLocked(a, x.hash), wrote' = [wrote EXCEPT ![a] = wrote[a] \cup {x}],
         pc[a] = "correct" => x.source = "human",
         pc[a] = "categorize" => SourceOf(x.hash) # "human"
  PROVE  CategoriesGuarded'
  <1>1. a \in Actors /\ wrote'[a] = wrote[a] \cup {x} /\ DOMAIN wrote' = Actors
        /\ \A b \in Actors \ {a} : wrote'[b] = wrote[b]
    BY DEF Actors, CategoriesGuarded
  <1>2. \A b \in Actors : Setting(b)' <=> Setting(b)
    BY DEF Setting
  <1>3. \A b \in Actors \ {a} : \A h : Touches(b, h)' <=> Touches(b, h)
    BY <1>1, <1>2 DEF Touches
  <1>4. \A h : Touches(a, h)' => Touches(a, h) \/ h = x.hash
    BY <1>1, <1>2 DEF Touches
  <1>5. \A b \in Actors \ {a} : ~Touches(b, x.hash)
    BY DEF RowLocked, Touches, Setting, CategoriesGuarded
  <1>6. ASSUME NEW b \in Actors, NEW c \in Actors, b # c, NEW h PROVE ~(Touches(b, h)' /\ Touches(c, h)')
    BY <1>3, <1>4, <1>5, <1>6 DEF CategoriesGuarded
  <1>7. \A h : SourceOf(h)' = SourceOf(h)
    BY DEF SourceOf
  <1>8. ASSUME NEW b \in Actors
        PROVE  /\ pc'[b] \in {"idle", "context", "classify"} => wrote'[b] = {}
               /\ Setting(b)' => b \in Uploads \cup People
               /\ pc'[b] = "correct" => \A w \in wrote'[b] : w.source = "human"
               /\ pc'[b] = "categorize" => \A w \in wrote'[b] : SourceOf(w.hash) # "human"
    <2>1. CASE b = a
      BY <1>1, <1>2, <2>1 DEF CategoriesGuarded, Setting
    <2>2. CASE b # a
      BY <1>1, <1>2, <2>2 DEF CategoriesGuarded
    <2> QED BY <2>1, <2>2
  <1>9. \A b \in Actors : pc'[b] = "categorize" => \A w \in wrote'[b] : SourceOf(w.hash)' # "human"
    BY <1>8 DEF SourceOf
  <1> QED BY <1>1, <1>6, <1>8, <1>9 DEF CategoriesGuarded

\* A commit writes the rows its transaction has locked.
LEMMA CommitKeeps ==
  ASSUME CategoriesGuarded, NEW a \in Uploads \cup People, CommitCategories(a)
  PROVE  /\ CategoriesGuarded'
         /\ \A h \in DOMAIN category : category[h].source = "human" =>
              h \in DOMAIN category' /\ category'[h].source = "human"
  <1>1. a \in Actors /\ Setting(a)
    BY DEF Actors, CommitCategories, Setting
  <1>2. /\ category' = CategoriesAfter(a) /\ cast' = cast
        /\ wrote' = [wrote EXCEPT ![a] = {}]
        /\ \E place \in {"learn", "tell"} : pc' = [pc EXCEPT ![a] = place]
    BY DEF CommitCategories, Goto, History
  <1> DEFINE new == {w.hash : w \in wrote[a]}
  <1>3. /\ DOMAIN category' = DOMAIN category \cup new
        /\ \A h \in DOMAIN category \ new : category'[h] = category[h]
    BY <1>2 DEF CategoriesAfter
  <1>4. ASSUME NEW h \in new PROVE \E w \in wrote[a] : w.hash = h /\ category'[h].source = w.source
    <2> DEFINE w == CHOOSE w \in wrote[a] : w.hash = h
    <2>1. w \in wrote[a] /\ w.hash = h
      OBVIOUS
    <2>2. category'[h] = [code |-> w.code, source |-> w.source]
      BY <1>2 DEF CategoriesAfter
    <2> HIDE DEF w
    <2> QED BY <2>1, <2>2
  <1>5. \A h : Touches(a, h) <=> h \in new
    BY <1>1 DEF Touches
  <1> HIDE DEF new
  <1>6. ASSUME NEW h, h \notin new PROVE SourceOf(h)' = SourceOf(h)
    BY <1>3, <1>6 DEF SourceOf
  <1>7. ASSUME NEW h \in DOMAIN category, category[h].source = "human"
        PROVE  h \in DOMAIN category' /\ category'[h].source = "human"
    <2>1. CASE h \notin new
      BY <1>3, <1>7, <2>1
    <2>2. CASE h \in new
      <3>1. PICK w \in wrote[a] : w.hash = h /\ category'[h].source = w.source
        BY <1>4, <2>2
      <3>2. pc[a] # "categorize"
        BY <1>1, <1>7, <3>1 DEF CategoriesGuarded, SourceOf
      <3>3. w.source = "human"
        BY <1>1, <3>1, <3>2 DEF CategoriesGuarded, Setting
      <3> QED BY <1>3, <2>2, <3>1, <3>3
    <2> QED BY <2>1, <2>2
  <1>8. CategoriesGuarded'
    <2>1. /\ DOMAIN pc' = Actors /\ DOMAIN wrote' = Actors /\ wrote'[a] = {} /\ ~Setting(a)'
          /\ \A b \in Actors \ {a} : pc'[b] = pc[b] /\ wrote'[b] = wrote[b]
      BY <1>1, <1>2 DEF CategoriesGuarded, Setting
    <2>2. \A b \in Actors \ {a} : (Setting(b)' <=> Setting(b)) /\ \A h : Touches(b, h)' <=> Touches(b, h)
      BY <2>1 DEF Touches, Setting
    <2>3. \A h : ~Touches(a, h)'
      BY <2>1 DEF Touches
    <2>4. ASSUME NEW b \in Actors, pc'[b] = "categorize", NEW w \in wrote'[b] PROVE SourceOf(w.hash)' # "human"
      <3>1. b # a /\ w \in wrote[b] /\ pc[b] = "categorize"
        BY <2>1, <2>4
      <3>2. Touches(b, w.hash) /\ SourceOf(w.hash) # "human"
        BY <3>1 DEF Touches, Setting, CategoriesGuarded
      <3>3. w.hash \notin new
        BY <1>1, <1>5, <3>1, <3>2 DEF CategoriesGuarded
      <3> QED BY <1>6, <3>2, <3>3
    <2>5. \A b, c \in Actors : b # c => \A h : ~(Touches(b, h)' /\ Touches(c, h)')
      BY <2>2, <2>3 DEF CategoriesGuarded
    <2>6. ASSUME NEW b \in Actors
          PROVE  /\ pc'[b] \in {"idle", "context", "classify"} => wrote'[b] = {}
                 /\ Setting(b)' => b \in Uploads \cup People
                 /\ pc'[b] = "correct" => \A w \in wrote'[b] : w.source = "human"
      BY <2>1, <2>2 DEF CategoriesGuarded
    <2> QED BY <1>2, <2>1, <2>4, <2>5, <2>6 DEF CategoriesGuarded
  <1> QED BY <1>7, <1>8

-----------------------------------------------------------------------------
(* The actions. *)

LEMMA StutterKeeps ==
  ASSUME CategoriesGuarded, UNCHANGED <<cast, category, pc, wrote>>
  PROVE  CategoriesGuarded'
  BY DEF CategoriesGuarded, Setting, Touches, SourceOf

\* The run of an import, but for the UPDATEs of categories and their commit.
LEMMA ImportKeeps ==
  ASSUME CategoriesGuarded, NEW u \in Uploads,
         \/ StoreUpload(u) \/ SaveUpload(u) \/ EnqueueImport(u) \/ FetchAndParse(u)
         \/ InsertRow(u) \/ CommitRows(u) \/ ReadContext(u) \/ Classify(u) \/ Learn(u)
  PROVE  CategoriesGuarded'
  <1>1. u \in Actors /\ DOMAIN pc = Actors /\ DOMAIN wrote = Actors
    BY DEF Actors, CategoriesGuarded
  <1>2. CASE StoreUpload(u) \/ SaveUpload(u) \/ EnqueueImport(u) \/ FetchAndParse(u) \/ Learn(u)
    <2>1. PICK where \in {"stored", "saved", "queued", "ingest", "failed", "done"} : pc' = [pc EXCEPT ![u] = where]
      BY <1>2 DEF StoreUpload, SaveUpload, EnqueueImport, FetchAndParse, Learn, Goto
    <2>2. UNCHANGED <<cast, category, wrote>>
      BY <1>2 DEF StoreUpload, SaveUpload, EnqueueImport, FetchAndParse, Learn, History, books
    <2>3. pc'[u] = where /\ \A b \in Actors \ {u} : pc'[b] = pc[b]
      BY <1>1, <2>1
    <2> QED BY <1>1, <2>1, <2>2, <2>3, OthersKeep DEF Setting
  <1>3. CASE InsertRow(u)
    <2>1. pc[u] = "ingest" /\ UNCHANGED <<cast, category, pc>>
      BY <1>3 DEF InsertRow, History, books
    <2>2. DOMAIN wrote' = Actors /\ \A b \in Actors \ {u} : wrote'[b] = wrote[b]
      BY <1>1, <1>3 DEF InsertRow, Write
    <2> QED BY <1>1, <2>1, <2>2, OthersKeep DEF Setting
  <1>4. CASE CommitRows(u)
    <2>1. pc' = [pc EXCEPT ![u] = "context"] /\ wrote' = [wrote EXCEPT ![u] = {}] /\ UNCHANGED <<cast, category>>
      BY <1>4 DEF CommitRows, Goto
    <2> QED BY <1>1, <2>1, OthersKeep DEF Setting
  <1>5. CASE ReadContext(u)
    <2>1. pc[u] = "context" /\ pc' = [pc EXCEPT ![u] = "classify"] /\ UNCHANGED <<cast, category, wrote>>
      BY <1>5 DEF ReadContext, Goto, History, books
    <2>2. wrote[u] = {}
      BY <1>1, <2>1 DEF CategoriesGuarded
    <2> QED BY <1>1, <2>1, <2>2, OthersKeep DEF Setting
  <1>6. CASE Classify(u)
    <2>1. pc[u] = "classify" /\ UNCHANGED <<cast, category, wrote>>
      BY <1>6 DEF Classify, History, books
    <2>2. PICK where \in {"learn", "categorize"} : pc' = [pc EXCEPT ![u] = where]
      BY <1>6 DEF Classify, Goto
    <2>3. wrote[u] = {}
      BY <1>1, <2>1 DEF CategoriesGuarded
    <2>4. \A b \in Actors \ {u} : pc'[b] = pc[b]
      BY <1>1, <2>2
    <2> QED BY <1>1, <2>1, <2>2, <2>3, <2>4, OthersKeep
  <1> QED BY <1>2, <1>3, <1>4, <1>5, <1>6

LEMMA SetCategoryKeeps ==
  ASSUME CategoriesGuarded, NEW u \in Uploads, SetCategory(u)
  PROVE  CategoriesGuarded'
  <1>1. pc[u] = "categorize" /\ ~RowLocked(u, Head(todo[u]).hash) /\ UNCHANGED <<cast, category, pc>>
    BY DEF SetCategory, History, books
  <1>2. CASE MayCategorize(Head(todo[u]).hash)
    <2>1. wrote' = [wrote EXCEPT ![u] = wrote[u] \cup {Head(todo[u])}]
      BY <1>2 DEF SetCategory, Write
    <2> QED BY <1>1, <1>2, <2>1, SettingKeeps DEF Setting, MayCategorize
  <1>3. CASE ~MayCategorize(Head(todo[u]).hash)
    BY <1>1, <1>3, StutterKeeps DEF SetCategory
  <1> QED BY <1>2, <1>3

LEMMA PersonKeeps ==
  ASSUME CategoriesGuarded, NEW p \in People, ReadTxn(p) \/ SetByHand(p) \/ TellMemory(p)
  PROVE  CategoriesGuarded'
  <1>1. p \in Actors /\ DOMAIN pc = Actors /\ DOMAIN wrote = Actors
    BY DEF Actors, CategoriesGuarded
  <1>2. CASE ReadTxn(p)
    <2>1. pc[p] = "idle" /\ UNCHANGED <<cast, category, wrote>>
      BY <1>2 DEF ReadTxn, History, books
    <2>2. \/ pc' = pc
          \/ pc' = [pc EXCEPT ![p] = "failed"]
          \/ pc' = [pc EXCEPT ![p] = "correct"]
      BY <1>2 DEF ReadTxn, Goto
    <2>3. wrote[p] = {}
      BY <1>1, <2>1 DEF CategoriesGuarded
    <2>4. DOMAIN pc' = Actors /\ \A b \in Actors \ {p} : pc'[b] = pc[b]
      BY <1>1, <2>2
    <2> QED BY <1>1, <2>1, <2>3, <2>4, OthersKeep
  <1>3. CASE SetByHand(p)
    <2>1. pc[p] = "correct" /\ UNCHANGED <<cast, category, pc>>
      BY <1>3 DEF SetByHand, History, books
    <2>2. PICK r \in snap[p] :
            /\ ~RowLocked(p, r.hash)
            /\ wrote' = [wrote EXCEPT ![p] = wrote[p] \cup
                           {[hash |-> r.hash, code |-> Correction[p].code, source |-> "human"]}]
      BY <1>3 DEF SetByHand, Write
    <2> DEFINE x == [hash |-> r.hash, code |-> Correction[p].code, source |-> "human"]
    <2>3. x.hash = r.hash /\ x.source = "human" /\ wrote' = [wrote EXCEPT ![p] = wrote[p] \cup {x}]
      BY <2>2
    <2>4. ~RowLocked(p, x.hash) /\ p \in Uploads \cup People /\ Setting(p)
      BY <2>1, <2>2 DEF Setting
    <2> HIDE DEF x
    <2> QED BY <2>1, <2>3, <2>4, SettingKeeps
  <1>4. CASE TellMemory(p)
    <2>1. pc' = [pc EXCEPT ![p] = "done"] /\ UNCHANGED <<cast, category, wrote>>
      BY <1>4 DEF TellMemory, Goto, History, books
    <2> QED BY <1>1, <2>1, OthersKeep DEF Setting
  <1> QED BY <1>2, <1>3, <1>4

\* Scans, onboardings and forecasts set no category, and an abort undoes.
LEMMA OthersStep ==
  ASSUME CategoriesGuarded, NEW a \in Actors,
         ScanStep(a) \/ ExportStep(a) \/ ForecastStep(a) \/ Abort(a)
  PROVE  CategoriesGuarded'
  <1> DEFINE Elsewhere == {"persist", "raise", "numbers", "onboard", "debits", "forecast", "done", "failed"}
  <1>1. DOMAIN pc = Actors /\ DOMAIN wrote = Actors
    BY DEF CategoriesGuarded
  <1>2. UNCHANGED <<cast, category>> /\ pc'[a] \in Elsewhere /\ DOMAIN pc' = Actors /\ DOMAIN wrote' = Actors
        /\ \A b \in Actors \ {a} : pc'[b] = pc[b] /\ wrote'[b] = wrote[b]
    <2>1. CASE ScanStep(a)
      <3>1. CASE ReadDebits(a) BY <1>1, <3>1 DEF ReadDebits, Goto, History, books
      <3>2. CASE ReadKnown(a) BY <1>1, <3>2 DEF ReadKnown, Goto, History, books
      <3>3. CASE RaiseAnomalies(a) BY <1>1, <3>3 DEF RaiseAnomalies, Write, Goto, History, books
      <3>4. CASE CommitAnomalies(a) BY <1>1, <3>4 DEF CommitAnomalies, Goto, History, books
      <3> QED BY <2>1, <3>1, <3>2, <3>3, <3>4 DEF ScanStep
    <2>2. CASE ExportStep(a)
      <3>1. CASE ReadParties(a) BY <1>1, <3>1 DEF ReadParties, Goto, History, books
      <3>2. CASE ReadNumbers(a) BY <1>1, <3>2 DEF ReadNumbers, Goto, History, books
      <3>3. CASE OnboardLine(a) BY <1>1, <3>3 DEF OnboardLine, Write, History, books
      <3>4. CASE CommitOnboarding(a) BY <1>1, <3>4 DEF CommitOnboarding, Goto, History, books
      <3> QED BY <2>2, <3>1, <3>2, <3>3, <3>4 DEF ExportStep
    <2>3. CASE ForecastStep(a)
      BY <1>1, <2>3 DEF ForecastStep, ReadCredits, ReadDebitSum, SaveForecast, Goto, History, books
    <2>4. CASE Abort(a)
      BY <1>1, <2>4 DEF Abort, Goto, books
    <2> QED BY <2>1, <2>2, <2>3, <2>4
  <1>3. pc'[a] \notin {"idle", "context", "classify", "categorize", "correct"}
    BY <1>2
  <1> HIDE DEF Elsewhere
  <1> QED BY <1>2, <1>3, OthersKeep DEF Setting

\* Only the two commits of categories change one.
LEMMA OnlyCommitsSet ==
  ASSUME NEW a, Step(a) \/ Abort(a)
  PROVE  category' = category \/ (a \in Uploads \cup People /\ CommitCategories(a))
  <1>1. CASE a \in Uploads /\ UploadStep(a)
    BY <1>1 DEF UploadStep, StoreUpload, SaveUpload, EnqueueImport, FetchAndParse, InsertRow, CommitRows,
                ReadContext, Classify, SetCategory, Learn, books
  <1>2. CASE a \in People /\ PersonStep(a)
    BY <1>2 DEF PersonStep, ReadTxn, SetByHand, TellMemory, books
  <1>3. CASE ScanStep(a) \/ ExportStep(a) \/ ForecastStep(a) \/ Abort(a)
    BY <1>3 DEF ScanStep, ReadDebits, ReadKnown, RaiseAnomalies, CommitAnomalies, ExportStep, ReadParties,
                ReadNumbers, OnboardLine, CommitOnboarding, ForecastStep, ReadCredits, ReadDebitSum,
                SaveForecast, Abort, books
  <1> QED BY <1>1, <1>2, <1>3 DEF Step

LEMMA GuardedNext == CategoriesGuarded /\ [Next]_vars => CategoriesGuarded'
  <1> SUFFICES ASSUME CategoriesGuarded, [Next]_vars PROVE CategoriesGuarded'
    OBVIOUS
  <1>1. ASSUME NEW a \in cast, Step(a) PROVE CategoriesGuarded'
    <2>1. a \in Actors
      BY DEF CategoriesGuarded
    <2>2. CASE a \in Uploads /\ UploadStep(a)
      BY <2>2, ImportKeeps, SetCategoryKeeps, CommitKeeps DEF UploadStep
    <2>3. CASE a \in People /\ PersonStep(a)
      BY <2>3, PersonKeeps, CommitKeeps DEF PersonStep
    <2>4. CASE ScanStep(a) \/ ExportStep(a) \/ ForecastStep(a)
      BY <2>1, <2>4, OthersStep
    <2> QED BY <1>1, <2>2, <2>3, <2>4 DEF Step
  <1>2. ASSUME NEW a \in cast, Crash(a) \/ DeadlockVictim(a) PROVE CategoriesGuarded'
    <2>1. a \in Actors
      BY DEF CategoriesGuarded
    <2> QED BY <1>2, <2>1, OthersStep DEF Crash, DeadlockVictim
  <1>3. CASE UNCHANGED vars
    BY <1>3, StutterKeeps DEF vars, books
  <1> QED BY <1>1, <1>2, <1>3 DEF Next, ListBooks

-----------------------------------------------------------------------------

LEMMA GuardHolds == Spec => []CategoriesGuarded
  BY GuardedInit, GuardedNext, PTL DEF Spec

LEMMA HumanKept ==
  ASSUME CategoriesGuarded, [Next]_vars
  PROVE  \A h \in DOMAIN category :
           category[h].source = "human" => h \in DOMAIN category' /\ category'[h].source = "human"
  <1>1. ASSUME NEW a \in cast, Step(a) \/ Crash(a) \/ DeadlockVictim(a),
               ~(a \in Uploads \cup People /\ CommitCategories(a))
        PROVE  category' = category
    BY <1>1, OnlyCommitsSet DEF Crash, DeadlockVictim
  <1>2. CASE UNCHANGED vars
    BY <1>2 DEF vars, books
  <1>3. CASE \E a \in cast : a \in Uploads \cup People /\ CommitCategories(a)
    BY <1>3, CommitKeeps
  <1> QED BY <1>1, <1>2, <1>3 DEF Next, ListBooks

\* What set_category promises, for every interleaving of imports and people: a
\* category a person set is only ever replaced by a person.
THEOREM PeopleDecide == Spec => HumanStays
  <1>1. CategoriesGuarded /\ [Next]_vars =>
          [\A h \in DOMAIN category :
             category[h].source = "human" => h \in DOMAIN category' /\ category'[h].source = "human"]_vars
    BY HumanKept
  <1> QED BY <1>1, GuardHolds, PTL DEF Spec, HumanStays

-----------------------------------------------------------------------------
(* The inductive invariant, one part per kind of work.                      *)

Committing == {"ingest", "categorize", "correct", "raise", "onboard"}

\* An actor's place is one of its kind, and only an open transaction has rows.
PlacesOf(a) ==
  {"idle", "done", "failed"} \cup
  (IF a \in Uploads THEN {"stored", "saved", "queued", "ingest", "context", "classify", "categorize", "learn"}
   ELSE IF a \in People THEN {"correct", "tell"}
   ELSE IF a \in Scans THEN {"persist", "raise"}
   ELSE IF a \in Exports THEN {"numbers", "onboard"} ELSE {"debits", "forecast"})
Placed(a) ==
  /\ pc[a] # "idle" => a \in cast
  /\ pc[a] \in PlacesOf(a)
  /\ todo[a] # <<>> => todo[a] \in Seq(ToSet(todo[a]))
  /\ pc[a] \notin Committing => wrote[a] = {}

ActorsSound ==
  /\ cast \subseteq Actors /\ aborted \subseteq cast /\ torn \subseteq cast
  /\ DOMAIN pc = Actors /\ DOMAIN todo = Actors /\ DOMAIN snap = Actors /\ DOMAIN wrote = Actors
  /\ \A a \in Actors : Placed(a)

\* What an import has read is still to insert or there, and what it inserted is
\* new.
ImportSound(u) ==
  /\ pc[u] \in {"stored", "saved", "queued"} => u \in files
  /\ pc[u] \in {"saved", "queued"} => u \in runs
  /\ pc[u] = "failed" => u \in aborted \/ ParsedLines(u) = {}
  /\ pc[u] = "ingest" =>
       /\ wrote[u] \subseteq Rows(u) /\ ToSet(todo[u]) \subseteq Rows(u)
       /\ \A r, q \in wrote[u] : r.hash = q.hash => r = q
       /\ \A r \in wrote[u], t \in txns : r.hash # t.hash
       /\ \A r \in Rows(u) : r \in ToSet(todo[u]) \/ HashTaken(u, r.hash)
  /\ pc[u] \in {"context", "classify", "categorize", "learn", "done"} =>
       \A r \in Rows(u) : \E t \in txns : t.hash = r.hash

\* Open imports have inserted different rows.
InsertsApart(u, v) ==
  pc[u] = "ingest" /\ pc[v] = "ingest" => \A r \in wrote[u], q \in wrote[v] : r.hash # q.hash

\* Rows in the books come from statements, one per hash.
RowsSound ==
  /\ files \subseteq Uploads /\ runs \subseteq Uploads /\ IsFiniteSet(txns)
  /\ \A t \in txns : \E u \in Uploads : t \in Rows(u)
  /\ \A t, q \in txns : t.hash = q.hash => t = q
  /\ \A u \in Uploads : ImportSound(u)
  /\ \A u, v \in Uploads : u # v => InsertsApart(u, v)

\* Codes come from the chart of accounts, and of two imports that learn at the
\* same time one has seen the other commit.
Learning(u) == pc[u] \in {"context", "classify", "categorize", "learn"}
LearnerSound(u) ==
  /\ pc[u] = "classify" => IsFiniteSet(snap[u])
  /\ pc[u] = "categorize" => \A i \in ToSet(todo[u]) \cup wrote[u] :
       i.code \in Codes /\ i.source \in {"memory", "rule"}
  /\ pc[u] \in {"categorize", "learn"} => \A i \in snap[u] :
       /\ i.code \in Codes
       /\ \A c \in claims : u \notin torn /\ c.by \in Uploads \ torn => c.vendor # i.vendor
LearnersApart(u, v) == Learning(u) /\ Learning(v) => u \in torn \/ v \in torn
HandSound(p) ==
  /\ pc[p] \in {"correct", "tell"} => Correction[p].code \in Codes
  /\ pc[p] = "correct" => \A w \in wrote[p] : w.code \in Codes /\ w.source = "human"
CodesSound ==
  /\ \A h \in DOMAIN category : category[h].code \in Codes
                                /\ category[h].source \in {"memory", "rule", "human"}
  /\ \A c \in claims : c.by \in Uploads \cup People /\ c.code \in Codes
  /\ \A u \in Uploads : LearnerSound(u)
  /\ \A u, v \in Uploads : u # v => LearnersApart(u, v)
  /\ \A p \in People : HandSound(p)
  /\ ClaimedOnce

\* What a scan raises is new, its own, and all it found that was not known.
ScanSound(s) ==
  /\ pc[s] \in {"persist", "raise"} => IsFiniteSet(snap[s])
  /\ pc[s] = "raise" =>
       /\ snap[s] \subseteq KnownKeys \cup NewKeys(s)
       /\ wrote[s] # {} => wrote[s] = {[key |-> k, by |-> s] : k \in NewKeys(s)}
                           /\ NewKeys(s) \cap KnownKeys = {}
  /\ pc[s] = "done" => snap[s] \subseteq KnownKeys
RaisedApart(s, t) == \A f \in wrote[s], g \in wrote[t] : f.key # g.key
FindingsSound ==
  /\ \A f \in anomalies : f.by \in Scans
  /\ \A f, g \in anomalies : f.key = g.key => f = g
  /\ \A s \in Scans : ScanSound(s)
  /\ \A s, t \in Scans : s # t => RaisedApart(s, t)

\* An onboarding that nothing was committed beside knows every name and number
\* there is, its own included.
NewParty(o, w) ==
  w.row = "party" /\ <<w.name, "name">> \in snap[o] /\ \A p \in parties : p.name # w.name
NewInvoice(o, w) ==
  w.row = "invoice" /\ <<w.number, "number">> \in snap[o] /\ \A i \in invoices : i.number # w.number
ExportSound(o) ==
  /\ pc[o] \in {"numbers", "onboard"} => \A p \in parties : <<p.name, "name">> \in snap[o]
  /\ pc[o] = "onboard" =>
       /\ \A i \in invoices : <<i.number, "number">> \in snap[o]
       /\ \A w \in wrote[o] : NewParty(o, w) \/ NewInvoice(o, w)
       /\ \A w, v \in wrote[o] :
            \/ w.row # v.row
            \/ w.row = "party" /\ (w.name = v.name => w = v)
            \/ w.row = "invoice" /\ (w.number = v.number => w = v)
OnboardingSound == (\A o \in Exports \ torn : ExportSound(o)) /\ OnboardedOnce

\* What a forecast has read is a balance, or half of one, unless something was
\* committed meanwhile.
OpeningSound(f) ==
  /\ pc[f] = "debits" => snap[f] = {Sum("cr", txns)}
  /\ pc[f] = "forecast" => snap[f] \subseteq balances
OpeningsSound ==
  Balance(txns) \in balances /\ (\A f \in Forecasts \ torn : OpeningSound(f)) /\ OpeningsWereTrue

IntakeSound ==
  /\ ActorsSound /\ RowsSound /\ CodesSound /\ FindingsSound /\ OnboardingSound /\ OpeningsSound

-----------------------------------------------------------------------------
(* Sequences and finite sets. *)

LEMMA ListOf ==
  ASSUME NEW n \in Nat, NEW S, NEW s \in [1..n -> S]
  PROVE  s \in Seq(ToSet(s)) /\ ToSet(s) = {s[k] : k \in 1..n} /\ ToSet(s) \subseteq S
  <1>1. DOMAIN s = 1..n
    OBVIOUS
  <1>2. ToSet(s) = {s[k] : k \in 1..n}
    BY <1>1 DEF ToSet
  <1>3. s \in [1..n -> ToSet(s)]
    BY <1>2
  <1>4. \A q \in [1..n -> ToSet(s)] : q \in Seq(ToSet(s))
    OBVIOUS
  <1> QED BY <1>2, <1>3, <1>4

LEMMA HeadAndTail ==
  ASSUME NEW s, s \in Seq(ToSet(s)), s # <<>>
  PROVE  /\ Head(s) \in ToSet(s) /\ ToSet(s) = {Head(s)} \cup ToSet(Tail(s))
         /\ Tail(s) \in Seq(ToSet(Tail(s)))
  <1>1. /\ Len(s) \in Nat \ {0} /\ DOMAIN s = 1..Len(s) /\ Head(s) = s[1] /\ Tail(s) \in Seq(ToSet(s))
        /\ Len(Tail(s)) = Len(s) - 1
        /\ DOMAIN Tail(s) = 1..(Len(s) - 1) /\ \A k \in 1..(Len(s) - 1) : Tail(s)[k] = s[k + 1]
    OBVIOUS
  <1>2. \A k \in DOMAIN Tail(s) : k + 1 \in DOMAIN s /\ Tail(s)[k] = s[k + 1]
    BY <1>1
  <1>3. \A k \in DOMAIN s : k = 1 \/ (k - 1 \in DOMAIN Tail(s) /\ Tail(s)[k - 1] = s[k])
    BY <1>1
  <1>4. 1 \in DOMAIN s
    BY <1>1
  <1>5. ToSet(s) = {Head(s)} \cup ToSet(Tail(s))
    BY <1>1, <1>2, <1>3, <1>4 DEF ToSet
  <1>6. Len(s) - 1 \in Nat /\ Tail(s) \in [1..(Len(s) - 1) -> ToSet(s)]
    <2>1. \A q \in Seq(ToSet(s)) : q \in [1..Len(q) -> ToSet(s)]
      OBVIOUS
    <2>2. Tail(s) \in [1..Len(Tail(s)) -> ToSet(s)]
      BY <1>1, <2>1
    <2> QED BY <1>1, <2>2
  <1>7. Tail(s) \in Seq(ToSet(Tail(s)))
    BY <1>6, ListOf
  <1>8. Head(s) \in ToSet(s)
    BY <1>5
  <1> QED BY <1>5, <1>7, <1>8

LEMMA NothingListed == \A a : todo[a] = <<>> => ToSet(todo[a]) = {}
  BY DEF ToSet

LEMMA ImageFinite ==
  ASSUME NEW S, IsFiniteSet(S), NEW f
  PROVE  IsFiniteSet({f[x] : x \in S})
  <1> DEFINE g == [x \in S |-> f[x]]
             T == {f[x] : x \in S}
  <1>1. g \in [S -> T] /\ \A t \in T : \E x \in S : g[x] = t
    OBVIOUS
  <1>2. g \in Surjection(S, T)
    BY <1>1 DEF Surjection
  <1> QED BY <1>2, FS_Surjection

\* A sequence that lists a finite set once lists all of it.
LEMMA ListsAll ==
  ASSUME NEW S, IsFiniteSet(S), NEW s \in [1..Cardinality(S) -> S],
         \A i, j \in 1..Cardinality(S) : i # j => s[i] # s[j]
  PROVE  s \in Seq(ToSet(s)) /\ ToSet(s) = S
  <1> DEFINE n == Cardinality(S)
  <1>1. n \in Nat
    BY FS_CardinalityType
  <1>2. IsFiniteSet(1..n) /\ Cardinality(1..n) = n
    BY <1>1, FS_Interval
  <1>3. s \in Injection(1..n, S)
    BY DEF Injection, IsInjective
  <1>4. s \in Surjection(1..n, S)
    BY <1>2, <1>3, FS_Injection
  <1>5. \A x \in S : \E k \in 1..n : s[k] = x
    BY <1>4 DEF Surjection
  <1>6. ToSet(s) = {s[k] : k \in 1..n} /\ s \in Seq(ToSet(s))
    BY <1>1, ListOf
  <1> QED BY <1>5, <1>6

LEMMA SetToSeqLists ==
  ASSUME NEW S, IsFiniteSet(S)
  PROVE  SetToSeq(S) \in Seq(ToSet(SetToSeq(S))) /\ ToSet(SetToSeq(S)) = S
  <1> DEFINE n == Cardinality(S)
  <1>1. PICK f \in Bijection(1..n, S) : TRUE
    BY FS_CardinalityType DEF ExistsBijection
  <1>2. f \in [1..n -> S] /\ IsInjective(f)
    BY <1>1 DEF Bijection, Injection, IsInjective
  <1>3. SetToSeq(S) \in [1..n -> S] /\ IsInjective(SetToSeq(S))
    BY <1>2 DEF SetToSeq
  <1>4. \A i, j \in 1..n : i # j => SetToSeq(S)[i] # SetToSeq(S)[j]
    BY <1>3 DEF IsInjective
  <1> QED BY <1>3, <1>4, ListsAll

LEMMA SetToSeqsList ==
  ASSUME NEW S, IsFiniteSet(S), NEW s \in SetToSeqs(S)
  PROVE  s \in [1..Cardinality(S) -> S] /\ Cardinality(S) \in Nat
         /\ s \in Seq(ToSet(s)) /\ ToSet(s) = S
  <1>1. s \in [1..Cardinality(S) -> S] /\ \A i, j \in 1..Cardinality(S) : i # j => s[i] # s[j]
    BY DEF SetToSeqs
  <1> QED BY <1>1, ListsAll, FS_CardinalityType

-----------------------------------------------------------------------------
(* What a step touches. *)

\* The place and the rows of an actor after its step.
LEMMA ActorsInit == Init => ActorsSound
  <1> SUFFICES ASSUME Init PROVE ActorsSound
    OBVIOUS
  <1>1. cast \subseteq Actors
    BY CastsAreActors DEF Init
  <1>2. \A a \in Actors : pc[a] = "idle" /\ todo[a] = <<>> /\ wrote[a] = {}
    BY DEF Init
  <1>3. DOMAIN pc = Actors /\ DOMAIN todo = Actors /\ DOMAIN snap = Actors /\ DOMAIN wrote = Actors
        /\ aborted = {} /\ torn = {}
    BY DEF Init
  <1> QED BY <1>1, <1>2, <1>3 DEF ActorsSound, Placed, PlacesOf

\* A step of a leaves the other actors' places, reads and rows alone.
OthersKept(a) ==
  /\ cast' = cast /\ torn \subseteq torn' /\ aborted \subseteq aborted'
  /\ DOMAIN pc' = Actors /\ DOMAIN todo' = Actors /\ DOMAIN snap' = Actors /\ DOMAIN wrote' = Actors
  /\ \A b \in Actors \ {a} :
       pc'[b] = pc[b] /\ todo'[b] = todo[b] /\ snap'[b] = snap[b] /\ wrote'[b] = wrote[b]

LEMMA UpdateOne ==
  ASSUME NEW D, NEW f, DOMAIN f = D, NEW a \in D, NEW x
  PROVE  /\ DOMAIN [f EXCEPT ![a] = x] = D /\ [f EXCEPT ![a] = x][a] = x
         /\ \A b \in D \ {a} : [f EXCEPT ![a] = x][b] = f[b]
  OBVIOUS

LEMMA ImportTouches ==
  ASSUME ActorsSound, NEW a \in Uploads, UploadStep(a)
  PROVE  OthersKept(a) /\ aborted' = aborted
  <1>1. /\ a \in Actors /\ DOMAIN pc = Actors /\ DOMAIN todo = Actors
        /\ DOMAIN snap = Actors /\ DOMAIN wrote = Actors
    BY DEF Actors, ActorsSound
  <1>2. CASE StoreUpload(a) \/ SaveUpload(a) \/ EnqueueImport(a)
    BY <1>1, <1>2 DEF StoreUpload, SaveUpload, EnqueueImport, OthersKept, Goto, History
  <1>3. CASE FetchAndParse(a)
    BY <1>1, <1>3 DEF FetchAndParse, OthersKept, Goto, History
  <1>4. CASE InsertRow(a) \/ CommitRows(a) \/ ReadContext(a)
    BY <1>1, <1>4 DEF InsertRow, CommitRows, ReadContext, OthersKept, Goto, Take, Read, Write, Beside, History
  <1>5. CASE Classify(a)
    BY <1>1, <1>5 DEF Classify, OthersKept, Goto, Read, History
  <1>6. CASE SetCategory(a) \/ CommitCategories(a) \/ Learn(a)
    BY <1>1, <1>6 DEF SetCategory, CommitCategories, Learn, OthersKept, Goto, Take, Write, Beside, History
  <1> QED BY <1>2, <1>3, <1>4, <1>5, <1>6 DEF UploadStep

LEMMA StepTouches ==
  ASSUME ActorsSound, NEW a \in Actors, Step(a)
  PROVE  OthersKept(a) /\ aborted' = aborted
  <1>1. DOMAIN pc = Actors /\ DOMAIN todo = Actors /\ DOMAIN snap = Actors /\ DOMAIN wrote = Actors
    BY DEF ActorsSound
  <1>2. CASE PersonStep(a)
    BY <1>1, <1>2 DEF PersonStep, ReadTxn, SetByHand, CommitCategories, TellMemory, OthersKept,
                      Goto, Read, Write, Beside, History
  <1>3. CASE ScanStep(a)
    BY <1>1, <1>3 DEF ScanStep, ReadDebits, ReadKnown, RaiseAnomalies, CommitAnomalies, OthersKept,
                      Goto, Read, Write, Beside, History
  <1>4. CASE ExportStep(a)
    BY <1>1, <1>4 DEF ExportStep, ReadParties, ReadNumbers, OnboardLine, CommitOnboarding, OthersKept,
                      Goto, Read, Write, Take, Beside, History
  <1>5. CASE ForecastStep(a)
    BY <1>1, <1>5 DEF ForecastStep, ReadCredits, ReadDebitSum, SaveForecast, OthersKept,
                      Goto, Read, Beside, History
  <1> QED BY <1>2, <1>3, <1>4, <1>5, ImportTouches DEF Step

LEMMA AbortTouches ==
  ASSUME ActorsSound, NEW a \in Actors, Abort(a)
  PROVE  /\ OthersKept(a) /\ aborted' = aborted \cup {a} /\ pc'[a] = "failed" /\ wrote'[a] = {}
         /\ UNCHANGED <<files, runs, txns, category, anomalies, parties, invoices, forecasts,
                        claims, balances, torn>>
  BY DEF ActorsSound, Abort, OthersKept, Goto, books

\* Who changes what the actors share.
LEMMA WhoChanges ==
  ASSUME NEW a, Step(a)
  PROVE  /\ UNCHANGED <<files, runs>> \/ (a \in Uploads /\ (StoreUpload(a) \/ SaveUpload(a)))
         /\ UNCHANGED <<txns, balances>> \/ (a \in Uploads /\ CommitRows(a))
         /\ category' = category \/ (a \in Uploads \cup People /\ CommitCategories(a))
         /\ claims' = claims \/ (a \in Uploads /\ Learn(a)) \/ (a \in People /\ TellMemory(a))
         /\ anomalies' = anomalies \/ (a \in Scans /\ CommitAnomalies(a))
         /\ UNCHANGED <<parties, invoices>> \/ (a \in Exports /\ CommitOnboarding(a))
         /\ forecasts' = forecasts \/ (a \in Forecasts /\ SaveForecast(a))
  <1>1. CASE a \in Uploads /\ (StoreUpload(a) \/ SaveUpload(a) \/ EnqueueImport(a) \/ FetchAndParse(a)
                               \/ InsertRow(a) \/ CommitRows(a))
    BY <1>1 DEF StoreUpload, SaveUpload, EnqueueImport, FetchAndParse, InsertRow, CommitRows, History, books
  <1>2. CASE a \in Uploads /\ (ReadContext(a) \/ Classify(a) \/ SetCategory(a) \/ Learn(a))
    BY <1>2 DEF ReadContext, Classify, SetCategory, Learn, History, books
  <1>3. CASE a \in Uploads \cup People /\ CommitCategories(a)
    BY <1>3 DEF CommitCategories, History
  <1>4. CASE a \in People /\ (ReadTxn(a) \/ SetByHand(a) \/ TellMemory(a))
    BY <1>4 DEF ReadTxn, SetByHand, TellMemory, History, books
  <1>5. CASE a \in Scans /\ ScanStep(a)
    BY <1>5 DEF ScanStep, ReadDebits, ReadKnown, RaiseAnomalies, CommitAnomalies, History, books
  <1>6. CASE a \in Exports /\ ExportStep(a)
    BY <1>6 DEF ExportStep, ReadParties, ReadNumbers, OnboardLine, CommitOnboarding, History, books
  <1>7. CASE a \in Forecasts /\ ForecastStep(a)
    BY <1>7 DEF ForecastStep, ReadCredits, ReadDebitSum, SaveForecast, History, books
  <1> QED BY <1>1, <1>2, <1>3, <1>4, <1>5, <1>6, <1>7 DEF Step, UploadStep, PersonStep

\* Commits tear what is at work beside them.
LEMMA CommitsTear ==
  ASSUME NEW a, Step(a), txns' # txns \/ parties' # parties \/ invoices' # invoices \/ forecasts' # forecasts
                         \/ (a \in Uploads /\ CommitRows(a))
  PROVE  Beside(a)
  BY WhoChanges DEF CommitRows, CommitOnboarding, SaveForecast

-----------------------------------------------------------------------------
(* Places, plans and open transactions. *)

\* The rows of a statement are in its plan once and for all.
LEMMA ParsedFinite == \A u \in Uploads : IsFiniteSet(ParsedLines(u)) /\ IsFiniteSet(Rows(u))
  <1> SUFFICES ASSUME NEW u \in Uploads PROVE IsFiniteSet(ParsedLines(u)) /\ IsFiniteSet(Rows(u))
    OBVIOUS
  <1>1. PICK n \in Nat : DOMAIN Statement[u] = 1..n
    BY InputsAreGiven
  <1>2. IsFiniteSet(DOMAIN Statement[u])
    BY <1>1, FS_Interval
  <1>3. IsFiniteSet(ParsedLines(u))
    BY <1>2, FS_Subset DEF ParsedLines
  <1> DEFINE f == [k \in ParsedLines(u) |-> RowOf(u, k)]
  <1>4. IsFiniteSet({f[k] : k \in ParsedLines(u)})
    BY <1>3, ImageFinite
  <1>5. Rows(u) = {f[k] : k \in ParsedLines(u)}
    BY DEF Rows
  <1> QED BY <1>3, <1>4, <1>5

LEMMA PlanOfImport ==
  ASSUME NEW u \in Uploads, NEW rows \in RowsInOrder(u)
  PROVE  rows \in Seq(ToSet(rows)) /\ ToSet(rows) = Rows(u)
  <1>1. PICK s \in SetToSeqs(ParsedLines(u)) : rows = [j \in DOMAIN s |-> RowOf(u, s[j])]
    BY DEF RowsInOrder
  <1> DEFINE n == Cardinality(ParsedLines(u))
  <1>2. n \in Nat /\ s \in [1..n -> ParsedLines(u)] /\ ToSet(s) = ParsedLines(u)
    BY ParsedFinite, SetToSeqsList
  <1>3. ToSet(s) = {s[k] : k \in 1..n}
    BY <1>2, ListOf
  <1> HIDE DEF n
  <1>4. rows = [j \in 1..n |-> RowOf(u, s[j])]
    BY <1>1, <1>2
  <1>5. rows \in [1..n -> Rows(u)]
    BY <1>2, <1>4 DEF Rows
  <1>6. ToSet(rows) = {rows[k] : k \in 1..n} /\ rows \in Seq(ToSet(rows))
    BY <1>2, <1>5, ListOf
  <1>7. \A k \in ParsedLines(u) : \E j \in 1..n : s[j] = k
    BY <1>2, <1>3
  <1>8. \A r \in Rows(u) : \E j \in 1..n : rows[j] = r
    BY <1>4, <1>7 DEF Rows
  <1> QED BY <1>5, <1>6, <1>8

\* A run's items have codes of the chart, and a rule's item no claim.
ItemSound(i, recalled, S) ==
  /\ i.code \in Codes /\ i.source \in {"memory", "rule"}
  /\ i.source = "rule" => recalled[i.vendor] \notin Codes
  /\ \E r \in S : i.vendor = r.line.vendor
LEMMA ItemsKnown ==
  ASSUME NEW S, IsFiniteSet(S), NEW recalled, NEW items,
         items = UNION {ItemsFor(r, recalled) : r \in S}
  PROVE  IsFiniteSet(items) /\ \A i \in items : ItemSound(i, recalled, S)
  <1> DEFINE f == [r \in S |-> ItemsFor(r, recalled)]
             T == {f[r] : r \in S}
  <1>1. IsFiniteSet(T)
    BY ImageFinite
  <1>2. ASSUME NEW r \in S PROVE IsFiniteSet(ItemsFor(r, recalled))
    BY FS_EmptySet, FS_Singleton DEF ItemsFor
  <1>3. \A t \in T : IsFiniteSet(t)
    BY <1>2
  <1>4. items = UNION T
    OBVIOUS
  <1>5. IsFiniteSet(items)
    BY <1>1, <1>3, <1>4, FS_UNION
  <1>6. ASSUME NEW r \in S, NEW i \in ItemsFor(r, recalled)
        PROVE  /\ i.code \in Codes /\ i.source \in {"memory", "rule"} /\ i.vendor = r.line.vendor
               /\ i.source = "rule" => recalled[i.vendor] \notin Codes
    BY <1>6 DEF ItemsFor
  <1>7. \A i \in items : \E r \in S : i \in ItemsFor(r, recalled)
    OBVIOUS
  <1> QED BY <1>5, <1>6, <1>7 DEF ItemSound

\* What a step has to show of the actor that takes it.
LEMMA ActorsKeep ==
  ASSUME ActorsSound, NEW a \in cast, OthersKept(a), aborted' \subseteq cast,
         torn' = torn \/ Beside(a), Placed(a)'
  PROVE  ActorsSound'
  <1>1. torn' \subseteq cast
    BY DEF ActorsSound, Beside
  <1>2. ASSUME NEW b \in Actors PROVE Placed(b)'
    BY DEF ActorsSound, OthersKept, Placed, PlacesOf
  <1> QED BY <1>1, <1>2 DEF ActorsSound, OthersKept

\* Taking the head of a plan leaves a plan.
LEMMA TakeKeeps ==
  ASSUME ActorsSound, NEW a \in Actors, todo[a] # <<>>, Take(a)
  PROVE  /\ todo'[a] = Tail(todo[a])
         /\ todo'[a] # <<>> => todo'[a] \in Seq(ToSet(todo'[a]))
         /\ Head(todo[a]) \in ToSet(todo[a]) /\ ToSet(todo[a]) = {Head(todo[a])} \cup ToSet(todo'[a])
  <1>1. todo'[a] = Tail(todo[a])
    BY DEF Take, ActorsSound
  <1>2. todo[a] \in Seq(ToSet(todo[a]))
    BY DEF ActorsSound, Placed
  <1> QED BY <1>1, <1>2, HeadAndTail

LEMMA ImportPlaced ==
  ASSUME IntakeSound, NEW u \in Uploads, u \in cast, UploadStep(u)
  PROVE  Placed(u)' /\ (torn' = torn \/ Beside(u))
  <1> USE DEF IntakeSound
  <1>1. /\ u \in Actors /\ DOMAIN pc = Actors /\ DOMAIN todo = Actors
        /\ DOMAIN snap = Actors /\ DOMAIN wrote = Actors /\ Placed(u)
    BY DEF Actors, ActorsSound
  <1>2. CASE StoreUpload(u) \/ SaveUpload(u) \/ EnqueueImport(u)
    <2>1. UNCHANGED <<cast, todo, wrote, torn>> /\ pc[u] \in {"idle", "stored", "saved"}
          /\ pc'[u] \in {"stored", "saved", "queued"}
      BY <1>1, <1>2 DEF StoreUpload, SaveUpload, EnqueueImport, Goto, History
    <2> QED BY <1>1, <2>1 DEF Placed, PlacesOf, Committing
  <1>3. CASE FetchAndParse(u)
    <2>1. UNCHANGED <<cast, wrote, torn>> /\ pc[u] = "queued" /\ pc'[u] \in {"ingest", "failed"}
      BY <1>1, <1>3 DEF FetchAndParse, Goto, History
    <2>2. PICK rows \in RowsInOrder(u) \cup {<<>>} : todo' = [todo EXCEPT ![u] = rows]
      BY <1>3 DEF FetchAndParse
    <2>3. todo'[u] # <<>> => todo'[u] \in Seq(ToSet(todo'[u]))
      BY <1>1, <2>2, PlanOfImport
    <2> QED BY <1>1, <2>1, <2>3 DEF Placed, PlacesOf, Committing
  <1>4. CASE InsertRow(u)
    <2>1. UNCHANGED <<cast, pc, torn>> /\ pc[u] = "ingest" /\ todo[u] # <<>> /\ Take(u)
      BY <1>4 DEF InsertRow, History
    <2> QED BY <1>1, <2>1, TakeKeeps DEF Placed, PlacesOf, Committing
  <1>5. CASE CommitRows(u)
    <2>1. UNCHANGED <<cast, todo>> /\ pc'[u] = "context" /\ wrote'[u] = {} /\ Beside(u)
      BY <1>1, <1>5 DEF CommitRows, Goto
    <2> QED BY <1>1, <2>1 DEF Placed, PlacesOf
  <1>6. CASE ReadContext(u)
    <2>1. UNCHANGED <<cast, todo, wrote, torn>> /\ pc[u] = "context" /\ pc'[u] = "classify"
      BY <1>1, <1>6 DEF ReadContext, Goto, History
    <2> QED BY <1>1, <2>1 DEF Placed, PlacesOf, Committing
  <1>7. CASE Classify(u)
    <2>1. UNCHANGED <<cast, wrote, torn>> /\ pc[u] = "classify" /\ pc'[u] \in {"learn", "categorize"}
      BY <1>1, <1>7 DEF Classify, Goto, History
    <2>2. PICK recalled \in [{r.line.vendor : r \in snap[u]} -> Codes \cup {None}] :
            \E items \in {UNION {ItemsFor(r, recalled) : r \in snap[u]}} :
              \E s \in SetToSeqs(items) : todo' = [todo EXCEPT ![u] = s]
      BY <1>7 DEF Classify
    <2>3. PICK items \in {UNION {ItemsFor(r, recalled) : r \in snap[u]}} :
            \E s \in SetToSeqs(items) : todo' = [todo EXCEPT ![u] = s]
      BY <2>2
    <2>6. PICK s \in SetToSeqs(items) : todo' = [todo EXCEPT ![u] = s]
      BY <2>3
    <2>4. IsFiniteSet(items)
      <3>1. IsFiniteSet(snap[u]) /\ items = UNION {ItemsFor(r, recalled) : r \in snap[u]}
        BY <2>1, <2>3 DEF CodesSound, LearnerSound
      <3> QED BY <3>1, ItemsKnown
    <2>5. todo'[u] \in Seq(ToSet(todo'[u]))
      BY <1>1, <2>6, <2>4, SetToSeqsList
    <2> QED BY <1>1, <2>1, <2>5 DEF Placed, PlacesOf, Committing
  <1>8. CASE SetCategory(u)
    <2>1. UNCHANGED <<cast, pc, torn>> /\ pc[u] = "categorize" /\ todo[u] # <<>> /\ Take(u)
      BY <1>8 DEF SetCategory, History
    <2> QED BY <1>1, <2>1, TakeKeeps DEF Placed, PlacesOf, Committing
  <1>9. CASE CommitCategories(u)
    <2>1. UNCHANGED <<cast, todo>> /\ pc'[u] \in {"learn", "tell"} /\ pc[u] \in {"categorize", "correct"}
          /\ (pc[u] = "categorize" => pc'[u] = "learn") /\ wrote'[u] = {} /\ Beside(u)
      BY <1>1, <1>9 DEF CommitCategories, Goto, History
    <2> QED BY <1>1, <2>1, KindsApart DEF Placed, PlacesOf
  <1>10. CASE Learn(u)
    <2>1. UNCHANGED <<cast, todo, wrote, torn>> /\ pc[u] = "learn" /\ pc'[u] = "done"
      BY <1>1, <1>10 DEF Learn, Goto, History
    <2> QED BY <1>1, <2>1 DEF Placed, PlacesOf, Committing
  <1> QED BY <1>2, <1>3, <1>4, <1>5, <1>6, <1>7, <1>8, <1>9, <1>10 DEF UploadStep

LEMMA PersonPlaced ==
  ASSUME IntakeSound, NEW p \in People, p \in cast, PersonStep(p)
  PROVE  Placed(p)' /\ (torn' = torn \/ Beside(p))
  <1> USE DEF IntakeSound
  <1>1. /\ p \in Actors /\ DOMAIN pc = Actors /\ DOMAIN wrote = Actors /\ Placed(p) /\ p \notin Uploads
    BY KindsApart DEF Actors, ActorsSound
  <1>2. CASE ReadTxn(p)
    <2>1. UNCHANGED <<cast, todo, wrote, torn>> /\ pc[p] = "idle" /\ pc'[p] \in {"idle", "correct", "failed"}
      BY <1>1, <1>2 DEF ReadTxn, Goto, History
    <2> QED BY <1>1, <2>1 DEF Placed, PlacesOf, Committing
  <1>3. CASE SetByHand(p)
    <2>1. UNCHANGED <<cast, todo, pc, torn>> /\ pc[p] = "correct"
      BY <1>3 DEF SetByHand, History
    <2> QED BY <1>1, <2>1 DEF Placed, PlacesOf, Committing
  <1>4. CASE CommitCategories(p)
    <2>1. UNCHANGED <<cast, todo>> /\ pc'[p] \in {"learn", "tell"} /\ pc[p] \in {"categorize", "correct"}
          /\ (pc[p] = "correct" => pc'[p] = "tell") /\ wrote'[p] = {} /\ Beside(p)
      BY <1>1, <1>4 DEF CommitCategories, Goto, History
    <2> QED BY <1>1, <2>1 DEF Placed, PlacesOf
  <1>5. CASE TellMemory(p)
    <2>1. UNCHANGED <<cast, todo, wrote, torn>> /\ pc[p] = "tell" /\ pc'[p] = "done"
      BY <1>1, <1>5 DEF TellMemory, Goto, History
    <2> QED BY <1>1, <2>1 DEF Placed, PlacesOf, Committing
  <1> QED BY <1>2, <1>3, <1>4, <1>5 DEF PersonStep

LEMMA ScanPlaced ==
  ASSUME IntakeSound, NEW s \in Scans, s \in cast, ScanStep(s)
  PROVE  Placed(s)' /\ (torn' = torn \/ Beside(s))
  <1> USE DEF IntakeSound
  <1>1. /\ s \in Actors /\ DOMAIN pc = Actors /\ DOMAIN todo = Actors /\ DOMAIN wrote = Actors /\ Placed(s)
        /\ s \notin Uploads /\ s \notin People
    BY KindsApart DEF Actors, ActorsSound
  <1>2. CASE ReadDebits(s)
    <2>1. UNCHANGED <<cast, todo, wrote, torn>> /\ pc[s] = "idle" /\ pc'[s] = "persist"
      BY <1>1, <1>2 DEF ReadDebits, Goto, History
    <2> QED BY <1>1, <2>1 DEF Placed, PlacesOf, Committing
  <1>3. CASE ReadKnown(s)
    <2>1. UNCHANGED <<cast, wrote, torn>> /\ pc[s] = "persist" /\ pc'[s] = "raise"
          /\ todo'[s] = SetToSeq(snap[s] \ KnownKeys)
      BY <1>1, <1>3 DEF ReadKnown, Goto, History
    <2>2. IsFiniteSet(snap[s] \ KnownKeys)
      BY <2>1, FS_Difference DEF FindingsSound, ScanSound
    <2>3. todo'[s] \in Seq(ToSet(todo'[s]))
      BY <2>1, <2>2, SetToSeqLists
    <2> QED BY <1>1, <2>1, <2>3 DEF Placed, PlacesOf, Committing
  <1>4. CASE RaiseAnomalies(s)
    <2>1. UNCHANGED <<cast, todo, torn>> /\ pc[s] = "raise" /\ pc'[s] \in {"raise", "failed"}
          /\ (pc'[s] = "failed" => wrote'[s] = {})
      BY <1>1, <1>4 DEF RaiseAnomalies, Goto, History
    <2> QED BY <1>1, <2>1 DEF Placed, PlacesOf, Committing
  <1>5. CASE CommitAnomalies(s)
    <2>1. UNCHANGED <<cast, todo>> /\ pc'[s] = "done" /\ wrote'[s] = {} /\ Beside(s)
      BY <1>1, <1>5 DEF CommitAnomalies, Goto, History
    <2> QED BY <1>1, <2>1 DEF Placed, PlacesOf
  <1> QED BY <1>2, <1>3, <1>4, <1>5 DEF ScanStep

LEMMA ExportPlaced ==
  ASSUME IntakeSound, NEW o \in Exports, o \in cast, ExportStep(o)
  PROVE  Placed(o)' /\ (torn' = torn \/ Beside(o))
  <1> USE DEF IntakeSound
  <1>1. /\ o \in Actors /\ DOMAIN pc = Actors /\ DOMAIN todo = Actors /\ DOMAIN wrote = Actors /\ Placed(o)
        /\ o \notin Uploads /\ o \notin People /\ o \notin Scans
    BY KindsApart DEF Actors, ActorsSound
  <1>2. CASE ReadParties(o)
    <2>1. UNCHANGED <<cast, todo, wrote, torn>> /\ pc[o] = "idle" /\ pc'[o] = "numbers"
      BY <1>1, <1>2 DEF ReadParties, Goto, History
    <2> QED BY <1>1, <2>1 DEF Placed, PlacesOf, Committing
  <1>3. CASE ReadNumbers(o)
    <2>1. UNCHANGED <<cast, wrote, torn>> /\ pc[o] = "numbers" /\ pc'[o] = "onboard" /\ todo'[o] = Invoices[o]
      BY <1>1, <1>3 DEF ReadNumbers, Goto, History
    <2> QED BY <1>1, <2>1, InputsAreGiven DEF Placed, PlacesOf, Committing
  <1>4. CASE OnboardLine(o)
    <2>1. UNCHANGED <<cast, pc, torn>> /\ pc[o] = "onboard" /\ todo[o] # <<>> /\ Take(o)
      BY <1>4 DEF OnboardLine, History
    <2> QED BY <1>1, <2>1, TakeKeeps DEF Placed, PlacesOf, Committing
  <1>5. CASE CommitOnboarding(o)
    <2>1. UNCHANGED <<cast, todo>> /\ pc'[o] = "done" /\ wrote'[o] = {} /\ Beside(o)
      BY <1>1, <1>5 DEF CommitOnboarding, Goto, History
    <2> QED BY <1>1, <2>1 DEF Placed, PlacesOf
  <1> QED BY <1>2, <1>3, <1>4, <1>5 DEF ExportStep

LEMMA ForecastPlaced ==
  ASSUME IntakeSound, NEW f \in Forecasts, f \in cast, ForecastStep(f)
  PROVE  Placed(f)' /\ (torn' = torn \/ Beside(f))
  <1> USE DEF IntakeSound
  <1>1. /\ f \in Actors /\ DOMAIN pc = Actors /\ DOMAIN wrote = Actors /\ Placed(f)
        /\ f \notin Uploads /\ f \notin People /\ f \notin Scans /\ f \notin Exports
    BY KindsApart DEF Actors, ActorsSound
  <1>2. UNCHANGED <<cast, todo, wrote>> /\ (torn' = torn \/ Beside(f))
        /\ pc[f] \in {"idle", "debits", "forecast"} /\ pc'[f] \in {"debits", "forecast", "done"}
    BY <1>1 DEF ForecastStep, ReadCredits, ReadDebitSum, SaveForecast, Goto, History
  <1> QED BY <1>1, <1>2 DEF Placed, PlacesOf, Committing

LEMMA ActorsStep ==
  ASSUME IntakeSound, NEW a \in cast, Step(a) \/ Abort(a)
  PROVE  ActorsSound'
  <1>1. a \in Actors /\ ActorsSound
    BY DEF IntakeSound, ActorsSound
  <1>2. CASE Step(a)
    <2>1. OthersKept(a) /\ aborted' = aborted
      BY <1>1, <1>2, StepTouches
    <2>2. Placed(a)' /\ (torn' = torn \/ Beside(a))
      BY <1>2, ImportPlaced, PersonPlaced, ScanPlaced, ExportPlaced, ForecastPlaced DEF Step
    <2> QED BY <1>1, <2>1, <2>2, ActorsKeep DEF ActorsSound
  <1>3. CASE Abort(a)
    <2>1. /\ OthersKept(a) /\ aborted' = aborted \cup {a} /\ pc'[a] = "failed" /\ wrote'[a] = {}
          /\ UNCHANGED <<cast, torn>>
      BY <1>1, <1>3, AbortTouches DEF OthersKept
    <2>2. todo'[a] = <<>>
      BY <1>1, <1>3 DEF Abort, ActorsSound
    <2>3. Placed(a)'
      BY <2>1, <2>2 DEF Placed, PlacesOf
    <2> QED BY <1>1, <2>1, <2>3, ActorsKeep DEF ActorsSound
  <1> QED BY <1>2, <1>3

-----------------------------------------------------------------------------
(* Rows. *)

LEMMA RowsInit == Init => RowsSound
  <1> SUFFICES ASSUME Init PROVE RowsSound
    OBVIOUS
  <1>1. files = {} /\ runs = {} /\ txns = {} /\ \A u \in Uploads : pc[u] = "idle"
    BY DEF Init, Actors
  <1> QED BY <1>1, FS_EmptySet DEF RowsSound, ImportSound, InsertsApart

\* What a step that commits no rows has to show.
LEMMA RowsKeep ==
  ASSUME IntakeSound, NEW a \in Actors, OthersKept(a), txns' = txns,
         files \subseteq files', files' \subseteq Uploads, runs \subseteq runs', runs' \subseteq Uploads,
         a \in Uploads => ImportSound(a)',
         pc'[a] = "ingest" => \A u \in Uploads \ {a} : InsertsApart(u, a)'
  PROVE  RowsSound'
  <1> USE DEF IntakeSound
  <1>1. ASSUME NEW u \in Uploads, u # a PROVE ImportSound(u)'
    <2>1. u \in Actors \ {a} /\ ImportSound(u)
      BY <1>1 DEF Actors, RowsSound
    <2>2. \A h : HashTaken(u, h)' <=> HashTaken(u, h)
      BY <2>1 DEF HashTaken, OthersKept
    <2> QED BY <2>1, <2>2 DEF OthersKept, ImportSound
  <1>2. ASSUME NEW u \in Uploads, NEW v \in Uploads, u # v PROVE InsertsApart(u, v)'
    <2>1. CASE u # a /\ v # a
      BY <1>2, <2>1 DEF Actors, RowsSound, OthersKept, InsertsApart
    <2>2. CASE u = a \/ v = a
      BY <1>2, <2>2 DEF InsertsApart
    <2> QED BY <2>1, <2>2
  <1>3. /\ IsFiniteSet(txns') /\ \A t \in txns' : \E u \in Uploads : t \in Rows(u)
        /\ \A t, q \in txns' : t.hash = q.hash => t = q
    BY DEF RowsSound
  <1>4. \A u \in Uploads : ImportSound(u)'
    BY <1>1
  <1> QED BY <1>2, <1>3, <1>4 DEF RowsSound

\* An INSERT adds a row whose hash nobody has.
LEMMA InsertKeeps ==
  ASSUME IntakeSound, NEW u \in Uploads, OthersKept(u), InsertRow(u)
  PROVE  RowsSound'
  <1> USE DEF IntakeSound
  <1> DEFINE row == Head(todo[u])
  <1>1. /\ u \in Actors /\ pc[u] = "ingest" /\ pc' = pc /\ todo[u] # <<>> /\ Take(u)
        /\ UNCHANGED <<files, runs, txns>> /\ ~HashPending(u, row.hash)
    BY DEF InsertRow, Actors, History, books
  <1>2. /\ \/ HashTaken(u, row.hash) /\ wrote'[u] = wrote[u]
           \/ ~HashTaken(u, row.hash) /\ wrote'[u] = wrote[u] \cup {row}
    BY <1>1 DEF InsertRow, Write, ActorsSound
  <1>3. row \in Rows(u) /\ ToSet(todo[u]) = {row} \cup ToSet(todo'[u]) /\ ImportSound(u)
    BY <1>1, TakeKeeps DEF RowsSound, ImportSound
  <1> HIDE DEF row
  <1>4. wrote'[u] \subseteq Rows(u) /\ ToSet(todo'[u]) \subseteq Rows(u)
    BY <1>1, <1>2, <1>3 DEF ImportSound
  <1>5. \A h : HashTaken(u, h)' <=> HashTaken(u, h) \/ \E r \in wrote'[u] \ wrote[u] : r.hash = h
    BY <1>1, <1>2 DEF HashTaken
  <1>6. \E r \in txns' \cup wrote'[u] : r.hash = row.hash
    BY <1>1, <1>2 DEF HashTaken
  <1>7. ImportSound(u)'
    <2>1. \A r, q \in wrote'[u] : r.hash = q.hash => r = q
      BY <1>1, <1>2, <1>3 DEF HashTaken, ImportSound
    <2>2. \A r \in wrote'[u], t \in txns : r.hash # t.hash
      BY <1>1, <1>2, <1>3 DEF HashTaken, ImportSound
    <2>3. ASSUME NEW r \in Rows(u) PROVE r \in ToSet(todo'[u]) \/ HashTaken(u, r.hash)'
      <3>1. CASE r = row
        BY <1>6, <3>1 DEF HashTaken
      <3>2. CASE r # row
        BY <1>1, <1>3, <1>5, <3>2 DEF ImportSound
      <3> QED BY <3>1, <3>2
    <2> QED BY <1>1, <1>4, <2>1, <2>2, <2>3 DEF ImportSound
  <1>8. ASSUME NEW v \in Uploads \ {u} PROVE InsertsApart(v, u)'
    <2>1. v \in Actors /\ wrote'[v] = wrote[v] /\ InsertsApart(v, u)
      BY DEF Actors, OthersKept, RowsSound
    <2>2. pc[v] = "ingest" => \A r \in wrote[v] : r.hash # row.hash
      BY <1>1 DEF HashPending
    <2> QED BY <1>1, <1>2, <2>1, <2>2 DEF InsertsApart
  <1>9. files \subseteq Uploads /\ runs \subseteq Uploads
    BY DEF RowsSound
  <1> QED BY <1>1, <1>7, <1>8, <1>9, RowsKeep

\* A COMMIT adds them all.
LEMMA RowsCommit ==
  ASSUME IntakeSound, NEW u \in Uploads, OthersKept(u), CommitRows(u)
  PROVE  RowsSound'
  <1> USE DEF IntakeSound
  <1>1. /\ u \in Actors /\ pc[u] = "ingest" /\ todo[u] = <<>> /\ pc'[u] = "context" /\ wrote'[u] = {}
        /\ txns' = txns \cup wrote[u] /\ UNCHANGED <<files, runs>> /\ ImportSound(u)
    BY DEF CommitRows, Goto, Actors, ActorsSound, RowsSound
  <1>2. IsFiniteSet(txns')
    <2>1. IsFiniteSet(wrote[u])
      BY <1>1, ParsedFinite, FS_Subset DEF ImportSound
    <2> QED BY <1>1, <2>1, FS_Union DEF RowsSound
  <1>3. /\ \A t \in txns' : \E v \in Uploads : t \in Rows(v)
        /\ \A t, q \in txns' : t.hash = q.hash => t = q
    BY <1>1 DEF RowsSound, ImportSound
  <1>4. ASSUME NEW v \in Uploads PROVE ImportSound(v)'
    <2>1. CASE v = u
      <3>1. ToSet(todo[u]) = {}
        BY <1>1, NothingListed
      <3>2. \A r \in Rows(u) : \E t \in txns' : t.hash = r.hash
        BY <1>1, <3>1 DEF ImportSound, HashTaken
      <3> QED BY <1>1, <2>1, <3>2 DEF ImportSound
    <2>2. CASE v # u
      <3>1. /\ pc'[v] = pc[v] /\ todo'[v] = todo[v] /\ wrote'[v] = wrote[v] /\ ImportSound(v)
            /\ InsertsApart(v, u) /\ aborted \subseteq aborted'
        BY <2>2 DEF OthersKept, Actors, RowsSound
      <3>2. \A h : HashTaken(v, h) => HashTaken(v, h)'
        BY <1>1, <3>1 DEF HashTaken
      <3>3. pc[v] = "ingest" => \A r \in wrote[v], t \in txns' : r.hash # t.hash
        BY <1>1, <3>1 DEF ImportSound, InsertsApart
      <3> QED BY <1>1, <3>1, <3>2, <3>3 DEF ImportSound
    <2> QED BY <2>1, <2>2
  <1>5. ASSUME NEW v \in Uploads, NEW w \in Uploads, v # w PROVE InsertsApart(v, w)'
    BY <1>1, <1>5 DEF InsertsApart, RowsSound, OthersKept, Actors
  <1> QED BY <1>1, <1>2, <1>3, <1>4, <1>5 DEF RowsSound

LEMMA RowsStep ==
  ASSUME IntakeSound, NEW a \in cast, Step(a) \/ Abort(a)
  PROVE  RowsSound'
  <1> USE DEF IntakeSound
  <1>1. a \in Actors /\ OthersKept(a) /\ files \subseteq Uploads /\ runs \subseteq Uploads
    BY StepTouches, AbortTouches DEF ActorsSound, RowsSound
  <1>2. CASE a \notin Uploads /\ Step(a)
    <2>1. UNCHANGED <<files, runs, txns>>
      BY <1>2, WhoChanges
    <2>2. pc'[a] # "ingest"
      BY <1>1, <1>2, ActorsStep DEF ActorsSound, Placed, PlacesOf
    <2> QED BY <1>1, <1>2, <2>1, <2>2, RowsKeep
  <1>3. CASE Abort(a)
    <2>1. UNCHANGED <<files, runs, txns>> /\ pc'[a] = "failed" /\ a \in aborted'
      BY <1>1, <1>3, AbortTouches
    <2>2. ImportSound(a)'
      BY <2>1 DEF ImportSound
    <2> QED BY <1>1, <2>1, <2>2, RowsKeep
  <1>4. CASE a \in Uploads /\ UploadStep(a)
    <2>1. CASE StoreUpload(a) \/ SaveUpload(a) \/ EnqueueImport(a)
      <3>1. /\ files' \in {files, files \cup {a}} /\ runs' \in {runs, runs \cup {a}} /\ txns' = txns
            /\ pc'[a] \in {"stored", "saved", "queued"}
        BY <1>1, <2>1 DEF StoreUpload, SaveUpload, EnqueueImport, Stored, Goto, History, books, ActorsSound
      <3>2. a \in files' /\ (pc'[a] # "stored" => a \in runs')
        BY <1>1, <1>4, <2>1 DEF StoreUpload, SaveUpload, EnqueueImport, Stored, Goto, ActorsSound,
                                RowsSound, ImportSound
      <3>3. ImportSound(a)'
        BY <3>1, <3>2 DEF ImportSound
      <3> QED BY <1>1, <1>4, <3>1, <3>3, RowsKeep
    <2>2. CASE FetchAndParse(a)
      <3>1. UNCHANGED <<files, runs, txns, wrote>> /\ pc[a] = "queued" /\ ImportSound(a) /\ wrote[a] = {}
        BY <1>1, <1>4, <2>2 DEF FetchAndParse, History, books, RowsSound, ActorsSound, Placed, Committing
      <3>2. CASE ParsedLines(a) = {}
        <4>1. pc'[a] = "failed"
          BY <1>1, <2>2, <3>2 DEF FetchAndParse, Goto, ActorsSound
        <4>2. ImportSound(a)'
          BY <3>2, <4>1 DEF ImportSound
        <4> QED BY <1>1, <3>1, <4>1, <4>2, RowsKeep
      <3>3. CASE ParsedLines(a) # {}
        <4>1. a \in runs /\ a \in files
          BY <3>1 DEF ImportSound
        <4>2. PICK rows \in RowsInOrder(a) : todo' = [todo EXCEPT ![a] = rows]
          BY <2>2, <3>3, <4>1 DEF FetchAndParse
        <4>3. pc'[a] = "ingest" /\ ToSet(todo'[a]) = Rows(a)
          BY <1>1, <1>4, <2>2, <3>3, <4>1, <4>2, PlanOfImport DEF FetchAndParse, Goto, ActorsSound
        <4>4. ImportSound(a)'
          BY <3>1, <4>3 DEF ImportSound
        <4>5. \A v \in Uploads : InsertsApart(v, a)'
          BY <3>1 DEF InsertsApart
        <4> QED BY <1>1, <3>1, <4>4, <4>5, RowsKeep
      <3> QED BY <3>2, <3>3
    <2>3. CASE ReadContext(a) \/ Classify(a) \/ SetCategory(a) \/ CommitCategories(a) \/ Learn(a)
      <3>1. UNCHANGED <<files, runs, txns>>
        BY <2>3 DEF ReadContext, Classify, SetCategory, CommitCategories, Learn, History, books
      <3>2. /\ pc[a] \in {"context", "classify", "categorize", "learn"}
            /\ pc'[a] \in {"context", "classify", "categorize", "learn", "done"}
        <4>1. CASE CommitCategories(a)
          <5>1. pc[a] # "correct"
            BY <1>1, <1>4 DEF ActorsSound, Placed, PlacesOf
          <5> QED BY <1>1, <4>1, <5>1 DEF CommitCategories, Goto, ActorsSound
        <4>2. CASE ReadContext(a) \/ Classify(a) \/ SetCategory(a) \/ Learn(a)
          BY <1>1, <4>2 DEF ReadContext, Classify, SetCategory, Learn, Goto, ActorsSound
        <4> QED BY <2>3, <4>1, <4>2
      <3>3. ImportSound(a)'
        BY <1>4, <3>1, <3>2 DEF ImportSound, RowsSound
      <3> QED BY <1>1, <3>1, <3>2, <3>3, RowsKeep
    <2> QED BY <1>1, <1>4, <2>1, <2>2, <2>3, InsertKeeps, RowsCommit DEF UploadStep
  <1> QED BY <1>2, <1>3, <1>4, KindsApart DEF Step

-----------------------------------------------------------------------------
(* Codes and claims. *)

LEMMA CodesInit == Init => CodesSound
  <1> SUFFICES ASSUME Init PROVE CodesSound
    OBVIOUS
  <1>1. DOMAIN category = {} /\ claims = {} /\ \A a \in Actors : pc[a] = "idle"
    BY DEF Init
  <1> QED BY <1>1 DEF CodesSound, LearnerSound, LearnersApart, Learning, HandSound, ClaimedOnce, Actors

\* What a step that learns nothing has to show.
LEMMA CodesKeep ==
  ASSUME IntakeSound, NEW a \in Actors, OthersKept(a),
         \A h \in DOMAIN category' : /\ category'[h].code \in Codes
                                     /\ category'[h].source \in {"memory", "rule", "human"},
         \A c \in claims' \ claims : c.by \in People \ Uploads /\ c.code \in Codes,
         a \in Uploads => LearnerSound(a)',
         a \in Uploads /\ Learning(a)' => \A u \in Uploads \ {a} : LearnersApart(u, a)',
         a \in People => HandSound(a)'
  PROVE  CodesSound'
  <1>1. CodesSound
    BY DEF IntakeSound
  <1>2. ASSUME NEW b \in Actors \ {a}
        PROVE pc'[b] = pc[b] /\ todo'[b] = todo[b] /\ snap'[b] = snap[b] /\ wrote'[b] = wrote[b]
              /\ torn \subseteq torn'
    BY DEF OthersKept
  <1>3. ASSUME NEW u \in Uploads, u # a PROVE LearnerSound(u)'
    <2>1. u \in Actors \ {a} /\ LearnerSound(u)
      BY <1>1, <1>3 DEF Actors, CodesSound
    <2>2. \A c \in claims' : c.by \in Uploads \ torn' => c \in claims /\ c.by \in Uploads \ torn
      BY <1>2, <2>1
    <2> QED BY <1>2, <2>1, <2>2 DEF LearnerSound
  <1>4. ASSUME NEW u \in Uploads, NEW v \in Uploads, u # v PROVE LearnersApart(u, v)'
    <2>1. CASE u # a /\ v # a
      <3>1. u \in Actors \ {a} /\ v \in Actors \ {a} /\ LearnersApart(u, v)
        BY <1>1, <1>4, <2>1 DEF Actors, CodesSound
      <3> QED BY <1>2, <3>1 DEF LearnersApart, Learning
    <2>2. CASE u = a \/ v = a
      BY <1>4, <2>2 DEF LearnersApart
    <2> QED BY <2>1, <2>2
  <1>5. ASSUME NEW p \in People, p # a PROVE HandSound(p)'
    <2>1. p \in Actors \ {a} /\ HandSound(p)
      BY <1>1, <1>5 DEF Actors, CodesSound
    <2> QED BY <1>2, <2>1 DEF HandSound
  <1>6. torn \subseteq torn'
    BY DEF OthersKept
  <1>7. ClaimedOnce'
    BY <1>1, <1>6 DEF ClaimedOnce, CodesSound
  <1>8. \A c \in claims' : c.by \in Uploads \cup People /\ c.code \in Codes
    BY <1>1 DEF CodesSound
  <1>9. /\ \A u \in Uploads : LearnerSound(u)'
        /\ \A p \in People : HandSound(p)'
    BY <1>3, <1>5
  <1> QED BY <1>4, <1>7, <1>8, <1>9 DEF CodesSound

\* The claims of a run are about vendors that no run before it has claimed.
LEMMA LearnKeeps ==
  ASSUME IntakeSound, NEW u \in Uploads, OthersKept(u), Learn(u)
  PROVE  CodesSound'
  <1>1. /\ u \in Actors /\ pc[u] = "learn" /\ pc'[u] = "done" /\ UNCHANGED <<category, torn>>
        /\ CodesSound /\ LearnerSound(u)
    BY DEF Learn, Goto, Actors, History, books, IntakeSound, ActorsSound, CodesSound
  <1>2. PICK kept \in SUBSET ClaimsOf(u) : claims' = claims \cup kept
    BY DEF Learn
  <1>3. \A c \in kept : c.by = u /\ c = [vendor |-> c.vendor, code |-> c.code, by |-> u]
                        /\ \E i \in snap[u] : c.vendor = i.vendor /\ c.code = i.code
    BY <1>2 DEF ClaimsOf
  <1>4. ASSUME NEW v \in Uploads PROVE LearnerSound(v)'
    <2>1. CASE v = u
      BY <1>1, <2>1 DEF LearnerSound
    <2>2. CASE v # u
      <3>1. /\ pc'[v] = pc[v] /\ todo'[v] = todo[v] /\ snap'[v] = snap[v] /\ wrote'[v] = wrote[v]
            /\ LearnerSound(v) /\ LearnersApart(v, u)
        BY <1>1, <2>2 DEF OthersKept, Actors, CodesSound
      <3>2. pc[v] \in {"categorize", "learn"} /\ v \notin torn => u \in torn
        BY <1>1, <3>1 DEF LearnersApart, Learning
      <3> QED BY <1>1, <1>2, <1>3, <3>1, <3>2 DEF LearnerSound
    <2> QED BY <2>1, <2>2
  <1>5. ASSUME NEW v \in Uploads, NEW w \in Uploads, v # w PROVE LearnersApart(v, w)'
    <2>1. LearnersApart(v, w) /\ v \in Actors /\ w \in Actors
      BY <1>1, <1>5 DEF CodesSound, Actors
    <2> QED BY <1>1, <2>1 DEF LearnersApart, Learning, OthersKept
  <1>6. ASSUME NEW p \in People PROVE HandSound(p)'
    <2>1. HandSound(p) /\ p \in Actors \ {u}
      BY <1>1, KindsApart DEF CodesSound, Actors
    <2> QED BY <2>1 DEF HandSound, OthersKept
  <1>7. ClaimedOnce'
    <2> SUFFICES ASSUME NEW c \in claims', NEW d \in claims', c.by \in Uploads \ torn, d.by \in Uploads \ torn,
                        c.vendor = d.vendor, c.code = d.code
                 PROVE  c = d
      BY <1>1 DEF ClaimedOnce
    <2>1. CASE c \in claims /\ d \in claims
      BY <1>1, <2>1 DEF ClaimedOnce, CodesSound
    <2>2. CASE c \in kept /\ d \in kept
      BY <1>3, <2>2
    <2>3. CASE c \in kept /\ d \in claims
      BY <1>1, <1>3, <2>3 DEF LearnerSound
    <2>4. CASE c \in claims /\ d \in kept
      BY <1>1, <1>3, <2>4 DEF LearnerSound
    <2> QED BY <1>2, <2>1, <2>2, <2>3, <2>4
  <1>8. \A c \in claims' : c.by \in Uploads \cup People /\ c.code \in Codes
    BY <1>1, <1>2, <1>3 DEF CodesSound, LearnerSound
  <1>9. \A h \in DOMAIN category' : category'[h].code \in Codes
                                    /\ category'[h].source \in {"memory", "rule", "human"}
    BY <1>1 DEF CodesSound
  <1> QED BY <1>4, <1>5, <1>6, <1>7, <1>8, <1>9 DEF CodesSound

\* What a transaction writes into the categories are its own rows.
LEMMA CategoriesSound ==
  ASSUME CodesSound, NEW a, category' = CategoriesAfter(a),
         \A w \in wrote[a] : w.code \in Codes /\ w.source \in {"memory", "rule", "human"}
  PROVE  \A h \in DOMAIN category' : /\ category'[h].code \in Codes
                                     /\ category'[h].source \in {"memory", "rule", "human"}
  <1> DEFINE new == {w.hash : w \in wrote[a]}
             last(h) == CHOOSE w \in wrote[a] : w.hash = h
  <1>1. \A h \in new : last(h) \in wrote[a]
    OBVIOUS
  <1>2. /\ DOMAIN category' = DOMAIN category \cup new
        /\ \A h \in DOMAIN category' :
             category'[h] = IF h \in new THEN [code |-> last(h).code, source |-> last(h).source] ELSE category[h]
    BY DEF CategoriesAfter
  <1> HIDE DEF new, last
  <1>3. ASSUME NEW h \in DOMAIN category', h \in new
        PROVE  category'[h].code \in Codes /\ category'[h].source \in {"memory", "rule", "human"}
    <2>1. category'[h] = [code |-> last(h).code, source |-> last(h).source]
      BY <1>2, <1>3
    <2>2. category'[h].code = last(h).code /\ category'[h].source = last(h).source
      BY <2>1
    <2>3. last(h) \in wrote[a]
      BY <1>1, <1>3
    <2> QED BY <2>2, <2>3
  <1>4. ASSUME NEW h \in DOMAIN category', h \notin new
        PROVE  category'[h].code \in Codes /\ category'[h].source \in {"memory", "rule", "human"}
    BY <1>2, <1>4 DEF CodesSound
  <1> QED BY <1>3, <1>4

LEMMA ClassifyKeeps ==
  ASSUME IntakeSound, NEW u \in Uploads, OthersKept(u), Classify(u)
  PROVE  CodesSound'
  <1>1. /\ u \in Actors /\ pc[u] = "classify" /\ pc'[u] \in {"learn", "categorize"} /\ wrote[u] = {}
        /\ UNCHANGED <<category, claims, torn, wrote>> /\ CodesSound /\ IsFiniteSet(snap[u])
    BY DEF Classify, Goto, Actors, History, books, IntakeSound, ActorsSound, CodesSound, LearnerSound,
           Placed, Committing
  <1>2. PICK recalled \in [{r.line.vendor : r \in snap[u]} -> Codes \cup {None}] :
          /\ \A v \in DOMAIN recalled :
               IF Remembered(v) = {} THEN recalled[v] = None ELSE recalled[v] \in Remembered(v)
          /\ \E items \in {UNION {ItemsFor(r, recalled) : r \in snap[u]}} :
               /\ \E s \in SetToSeqs(items) : todo' = [todo EXCEPT ![u] = s]
               /\ Read(u, {i \in items : i.source = "rule" /\ recalled[i.vendor] = None})
    BY DEF Classify
  <1>3. PICK items \in {UNION {ItemsFor(r, recalled) : r \in snap[u]}} :
          /\ \E s \in SetToSeqs(items) : todo' = [todo EXCEPT ![u] = s]
          /\ Read(u, {i \in items : i.source = "rule" /\ recalled[i.vendor] = None})
    BY <1>2
  <1>4. PICK s \in SetToSeqs(items) : todo' = [todo EXCEPT ![u] = s]
    BY <1>3
  <1>5. IsFiniteSet(items) /\ \A i \in items : ItemSound(i, recalled, snap[u])
    <2>1. items = UNION {ItemsFor(r, recalled) : r \in snap[u]}
      BY <1>3
    <2>2. IsFiniteSet(snap[u])
      BY <1>1
    <2>3. IsFiniteSet(items)
      BY <2>1, <2>2, ItemsKnown
    <2>4. ASSUME NEW i \in items PROVE ItemSound(i, recalled, snap[u])
      BY <2>1, <2>2, ItemsKnown
    <2> QED BY <2>3, <2>4
  <1>6. todo'[u] = s /\ ToSet(s) = items /\ wrote'[u] = {}
        /\ snap'[u] = {i \in items : i.source = "rule" /\ recalled[i.vendor] = None}
    BY <1>1, <1>3, <1>4, <1>5, SetToSeqsList DEF Read, IntakeSound, ActorsSound
  <1>7. ASSUME NEW i \in snap'[u], NEW c \in claims PROVE c.vendor # i.vendor
    <2>1. i \in items /\ i.source = "rule" /\ i.vendor \in DOMAIN recalled
      BY <1>2, <1>5, <1>6 DEF ItemSound
    <2>2. Remembered(i.vendor) # {} => recalled[i.vendor] \in Remembered(i.vendor)
      BY <1>2, <2>1
    <2>3. Remembered(i.vendor) \subseteq Codes
      BY <1>1 DEF Remembered, CodesSound
    <2>4. Remembered(i.vendor) = {}
      <3>1. ItemSound(i, recalled, snap[u])
        BY Zenon, <1>5, <2>1
      <3>2. recalled[i.vendor] \notin Codes
        BY Zenon, <2>1, <3>1 DEF ItemSound
      <3> QED BY Zenon, <2>2, <2>3, <3>2
    <2> QED BY <2>4 DEF Remembered
  <1>8. LearnerSound(u)'
    BY <1>1, <1>5, <1>6, <1>7 DEF LearnerSound, ItemSound
  <1>9. ASSUME NEW v \in Uploads \ {u} PROVE LearnersApart(v, u)'
    <2>1. LearnersApart(v, u) /\ pc'[v] = pc[v]
      BY <1>1 DEF CodesSound, OthersKept, Actors
    <2> QED BY <1>1, <2>1 DEF LearnersApart, Learning
  <1> QED BY <1>1, <1>8, <1>9, CodesKeep, KindsApart DEF CodesSound

LEMMA ImportCodes ==
  ASSUME IntakeSound, NEW u \in Uploads, u \in cast, OthersKept(u), UploadStep(u)
  PROVE  CodesSound'
  <1>1. /\ u \in Actors /\ u \notin People /\ CodesSound /\ LearnerSound(u) /\ Placed(u)
        /\ DOMAIN pc = Actors /\ DOMAIN todo = Actors /\ DOMAIN snap = Actors /\ DOMAIN wrote = Actors
    BY KindsApart DEF Actors, IntakeSound, ActorsSound, CodesSound
  <1>2. ASSUME NEW v \in Uploads \ {u}
        PROVE LearnersApart(v, u) /\ pc'[v] = pc[v] /\ torn \subseteq torn' /\ (Learning(v) => v \in cast)
    BY <1>1 DEF CodesSound, OthersKept, Actors, Learning, ActorsSound, Placed, IntakeSound
  <1>3. \A h \in DOMAIN category : /\ category[h].code \in Codes
                                   /\ category[h].source \in {"memory", "rule", "human"}
    BY <1>1 DEF CodesSound
  <1>4. CASE StoreUpload(u) \/ SaveUpload(u) \/ EnqueueImport(u) \/ FetchAndParse(u) \/ InsertRow(u)
    <2>1. UNCHANGED <<category, claims>> /\ pc'[u] \in {"stored", "saved", "queued", "ingest", "failed"}
      BY <1>1, <1>4 DEF StoreUpload, SaveUpload, EnqueueImport, FetchAndParse, InsertRow, Goto, History, books
    <2>2. LearnerSound(u)' /\ ~Learning(u)'
      BY <2>1 DEF LearnerSound, Learning
    <2> QED BY <1>1, <1>3, <2>1, <2>2, CodesKeep
  <1>5. CASE CommitRows(u)
    <2>1. UNCHANGED <<category, claims>> /\ pc'[u] = "context" /\ Beside(u)
      BY <1>1, <1>5 DEF CommitRows, Goto
    <2>2. LearnerSound(u)'
      BY <2>1 DEF LearnerSound
    <2>3. ASSUME NEW v \in Uploads \ {u} PROVE LearnersApart(v, u)'
      <3>1. Learning(v) => v \in cast \ {u} /\ InFlight(v)
        BY <1>2 DEF Learning, InFlight
      <3>2. Learning(v) => v \in torn'
        BY <2>1, <3>1 DEF Beside
      <3> QED BY <1>2, <3>2 DEF LearnersApart, Learning
    <2> QED BY <1>1, <1>3, <2>1, <2>2, <2>3, CodesKeep
  <1>6. CASE ReadContext(u)
    <2>1. /\ UNCHANGED <<category, claims>> /\ pc[u] = "context" /\ pc'[u] = "classify" /\ snap'[u] \subseteq txns
      BY <1>1, <1>6 DEF ReadContext, Goto, Read, History, books
    <2>2. IsFiniteSet(snap'[u])
      BY <2>1, FS_Subset DEF IntakeSound, RowsSound
    <2>3. LearnerSound(u)' /\ Learning(u)
      BY <2>1, <2>2 DEF LearnerSound, Learning
    <2>4. \A v \in Uploads \ {u} : LearnersApart(v, u)'
      BY <1>2, <2>3 DEF LearnersApart, Learning
    <2> QED BY <1>1, <1>3, <2>1, <2>3, <2>4, CodesKeep
  <1>7. CASE SetCategory(u)
    <2>1. /\ UNCHANGED <<category, claims, pc, snap, torn>> /\ pc[u] = "categorize" /\ todo[u] # <<>> /\ Take(u)
          /\ wrote'[u] \subseteq wrote[u] \cup {Head(todo[u])}
      BY <1>1, <1>7 DEF SetCategory, Write, History, books
    <2>2. Head(todo[u]) \in ToSet(todo[u]) /\ ToSet(todo'[u]) \subseteq ToSet(todo[u])
      BY <1>1, <2>1, TakeKeeps DEF IntakeSound
    <2>3. LearnerSound(u)'
      BY <1>1, <2>1, <2>2 DEF LearnerSound
    <2>4. \A v \in Uploads \ {u} : LearnersApart(v, u)'
      BY <1>2, <2>1 DEF LearnersApart, Learning
    <2> QED BY <1>1, <1>3, <2>1, <2>3, <2>4, CodesKeep
  <1>8. CASE CommitCategories(u)
    <2>1. pc[u] # "correct"
      BY <1>1 DEF Placed, PlacesOf
    <2>2. /\ UNCHANGED <<claims, snap>> /\ pc[u] = "categorize" /\ pc'[u] = "learn" /\ category' = CategoriesAfter(u)
          /\ torn \subseteq torn'
      BY <1>1, <1>8, <2>1 DEF CommitCategories, Goto, Beside, History
    <2>3. \A w \in wrote[u] : w.code \in Codes /\ w.source \in {"memory", "rule", "human"}
      BY <1>1, <2>2 DEF LearnerSound
    <2>4. \A h \in DOMAIN category' : /\ category'[h].code \in Codes
                                      /\ category'[h].source \in {"memory", "rule", "human"}
      BY <1>1, <2>2, <2>3, CategoriesSound
    <2>5. LearnerSound(u)'
      BY <1>1, <2>2 DEF LearnerSound
    <2>6. \A v \in Uploads \ {u} : LearnersApart(v, u)'
      BY <1>2, <2>2 DEF LearnersApart, Learning
    <2> QED BY <1>1, <2>2, <2>4, <2>5, <2>6, CodesKeep
  <1> QED BY <1>4, <1>5, <1>6, <1>7, <1>8, ClassifyKeeps, LearnKeeps DEF UploadStep

LEMMA PersonCodes ==
  ASSUME IntakeSound, NEW p \in People, p \in cast, OthersKept(p), PersonStep(p)
  PROVE  CodesSound'
  <1>1. /\ p \in Actors /\ p \notin Uploads /\ CodesSound /\ HandSound(p) /\ Placed(p)
        /\ DOMAIN pc = Actors /\ DOMAIN snap = Actors /\ DOMAIN wrote = Actors
    BY KindsApart DEF Actors, IntakeSound, ActorsSound, CodesSound
  <1>2. \A h \in DOMAIN category : /\ category[h].code \in Codes
                                   /\ category[h].source \in {"memory", "rule", "human"}
    BY <1>1 DEF CodesSound
  <1>3. CASE ReadTxn(p)
    <2>1. /\ UNCHANGED <<category, claims, wrote>> /\ pc[p] = "idle" /\ pc'[p] \in {"idle", "correct", "failed"}
          /\ pc'[p] = "correct" => Correction[p].code \in Codes
      BY <1>1, <1>3 DEF ReadTxn, Goto, History, books
    <2>2. HandSound(p)'
      BY <1>1, <2>1 DEF HandSound, Placed, Committing
    <2> QED BY <1>1, <1>2, <2>1, <2>2, CodesKeep
  <1>4. CASE SetByHand(p)
    <2>1. /\ UNCHANGED <<category, claims, pc>> /\ pc[p] = "correct" /\ wrote[p] = {}
      BY <1>4 DEF SetByHand, History, books
    <2>2. PICK r \in snap[p] :
            wrote'[p] = wrote[p] \cup {[hash |-> r.hash, code |-> Correction[p].code, source |-> "human"]}
      BY <1>1, <1>4 DEF SetByHand, Write
    <2>3. \A w \in wrote'[p] : w.code = Correction[p].code /\ w.source = "human"
      BY <2>1, <2>2
    <2>4. HandSound(p)'
      BY <1>1, <2>1, <2>3 DEF HandSound
    <2> QED BY <1>1, <1>2, <2>1, <2>4, CodesKeep
  <1>5. CASE CommitCategories(p)
    <2>1. /\ claims' = claims /\ pc[p] = "correct" /\ pc'[p] = "tell" /\ category' = CategoriesAfter(p)
      BY <1>1, <1>5 DEF CommitCategories, Goto, History, Placed, PlacesOf
    <2>2. \A w \in wrote[p] : w.code \in Codes /\ w.source \in {"memory", "rule", "human"}
      BY <1>1, <2>1 DEF HandSound
    <2>3. \A h \in DOMAIN category' : /\ category'[h].code \in Codes
                                      /\ category'[h].source \in {"memory", "rule", "human"}
      BY <1>1, <2>1, <2>2, CategoriesSound
    <2>4. HandSound(p)'
      BY <1>1, <2>1 DEF HandSound
    <2> QED BY <1>1, <2>1, <2>3, <2>4, CodesKeep
  <1>6. CASE TellMemory(p)
    <2>1. /\ UNCHANGED category /\ pc[p] = "tell" /\ pc'[p] = "done"
      BY <1>1, <1>6 DEF TellMemory, Goto, History, books
    <2>2. PICK r \in snap[p] :
            claims' \subseteq claims \cup {[vendor |-> r.line.vendor, code |-> Correction[p].code, by |-> p]}
      BY <1>6 DEF TellMemory
    <2>3. \A c \in claims' \ claims : c.by \in People \ Uploads /\ c.code \in Codes
      BY <1>1, <2>1, <2>2 DEF HandSound
    <2>4. HandSound(p)'
      BY <2>1 DEF HandSound
    <2> QED BY <1>1, <1>2, <2>1, <2>3, <2>4, CodesKeep
  <1> QED BY <1>3, <1>4, <1>5, <1>6 DEF PersonStep

LEMMA CodesStep ==
  ASSUME IntakeSound, NEW a \in cast, Step(a) \/ Abort(a)
  PROVE  CodesSound'
  <1>1. a \in Actors /\ OthersKept(a) /\ CodesSound
    BY StepTouches, AbortTouches DEF ActorsSound, IntakeSound
  <1>2. \A h \in DOMAIN category : /\ category[h].code \in Codes
                                   /\ category[h].source \in {"memory", "rule", "human"}
    BY <1>1 DEF CodesSound
  <1>3. CASE a \notin Uploads \cup People /\ Step(a)
    <2>1. UNCHANGED <<category, claims>>
      BY <1>3, WhoChanges
    <2> QED BY <1>1, <1>2, <1>3, <2>1, CodesKeep
  <1>4. CASE Abort(a)
    <2>1. UNCHANGED <<category, claims>> /\ pc'[a] = "failed"
      BY <1>1, <1>4, AbortTouches DEF IntakeSound
    <2>2. LearnerSound(a)' /\ HandSound(a)' /\ ~Learning(a)'
      BY <2>1 DEF LearnerSound, HandSound, Learning
    <2> QED BY <1>1, <1>2, <2>1, <2>2, CodesKeep
  <1> QED BY <1>1, <1>3, <1>4, ImportCodes, PersonCodes, KindsApart DEF Step

-----------------------------------------------------------------------------
(* Findings. *)

LEMMA FindingsInit == Init => FindingsSound
  <1> SUFFICES ASSUME Init PROVE FindingsSound
    OBVIOUS
  <1>1. anomalies = {} /\ \A s \in Scans : pc[s] = "idle" /\ wrote[s] = {}
    BY DEF Init, Actors
  <1> QED BY <1>1 DEF FindingsSound, ScanSound, RaisedApart

\* What a step that commits no finding has to show.
LEMMA FindingsKeep ==
  ASSUME IntakeSound, NEW a \in Actors, OthersKept(a), anomalies' = anomalies,
         a \in Scans => ScanSound(a)' /\ \A t \in Scans \ {a} : RaisedApart(t, a)'
  PROVE  FindingsSound'
  <1>1. FindingsSound /\ KnownKeys' = KnownKeys
    BY DEF IntakeSound, KnownKeys
  <1>2. ASSUME NEW s \in Scans, s # a PROVE ScanSound(s)'
    <2>1. /\ pc'[s] = pc[s] /\ todo'[s] = todo[s] /\ snap'[s] = snap[s] /\ wrote'[s] = wrote[s] /\ ScanSound(s)
      BY <1>1, <1>2 DEF OthersKept, Actors, FindingsSound
    <2>2. NewKeys(s)' = NewKeys(s)
      BY <2>1 DEF NewKeys
    <2> QED BY <1>1, <2>1, <2>2 DEF ScanSound
  <1>3. ASSUME NEW s \in Scans, NEW t \in Scans, s # t PROVE RaisedApart(s, t)'
    <2>1. CASE s # a /\ t # a
      BY <1>1, <1>3, <2>1 DEF FindingsSound, OthersKept, Actors, RaisedApart
    <2>2. CASE s = a \/ t = a
      BY <1>3, <2>2 DEF RaisedApart
    <2> QED BY <2>1, <2>2
  <1>4. \A s \in Scans : ScanSound(s)'
    BY <1>2
  <1>5. /\ \A f \in anomalies' : f.by \in Scans
        /\ \A f, g \in anomalies' : f.key = g.key => f = g
    BY <1>1 DEF FindingsSound
  <1> QED BY <1>3, <1>4, <1>5 DEF FindingsSound

\* The pairs of debits alike are finitely many.
LEMMA PairsFinite ==
  ASSUME NEW S, S \subseteq txns \X txns, IsFiniteSet(txns)
  PROVE  IsFiniteSet({{x[1].hash, x[2].hash} : x \in S})
  <1>1. IsFiniteSet(S)
    BY FS_Product, FS_Subset
  <1> DEFINE f == [x \in S |-> {x[1].hash, x[2].hash}]
  <1>2. IsFiniteSet({f[x] : x \in S})
    <2> HIDE DEF f
    <2> QED BY <1>1, ImageFinite
  <1>3. {f[x] : x \in S} = {{x[1].hash, x[2].hash} : x \in S}
    OBVIOUS
  <1> QED BY <1>2, <1>3

LEMMA CommitFindings ==
  ASSUME IntakeSound, NEW s \in Scans, OthersKept(s), CommitAnomalies(s)
  PROVE  FindingsSound'
  <1>1. /\ s \in Actors /\ pc[s] = "raise" /\ pc'[s] = "done" /\ wrote'[s] = {} /\ snap' = snap /\ todo' = todo
        /\ anomalies' = anomalies \cup wrote[s] /\ (wrote[s] # {} \/ NewKeys(s) = {})
        /\ FindingsSound /\ ScanSound(s)
    BY DEF CommitAnomalies, Goto, Actors, IntakeSound, ActorsSound, FindingsSound
  <1>2. /\ KnownKeys' = KnownKeys \cup {f.key : f \in wrote[s]}
        /\ \A t : NewKeys(t)' = NewKeys(t)
    BY <1>1 DEF KnownKeys, NewKeys
  <1>3. NewKeys(s) \subseteq KnownKeys'
    <2>1. CASE NewKeys(s) = {}
      BY <2>1
    <2>2. CASE wrote[s] # {}
      <3>1. \A k \in NewKeys(s) : [key |-> k, by |-> s] \in wrote[s] /\ [key |-> k, by |-> s].key = k
        BY <1>1, <2>2 DEF ScanSound
      <3> QED BY <1>2, <3>1
    <2> QED BY <1>1, <2>1, <2>2
  <1>4. \A f \in wrote[s] : f.by = s /\ f.key \notin KnownKeys /\ f = [key |-> f.key, by |-> s]
    BY <1>1 DEF ScanSound
  <1>5. ASSUME NEW t \in Scans PROVE ScanSound(t)'
    <2>1. CASE t = s
      BY <1>1, <1>2, <1>3, <2>1 DEF ScanSound
    <2>2. CASE t # s
      <3>1. pc'[t] = pc[t] /\ wrote'[t] = wrote[t] /\ ScanSound(t) /\ RaisedApart(t, s)
        BY <1>1, <2>2 DEF OthersKept, Actors, FindingsSound
      <3>2. pc[t] = "raise" /\ wrote[t] # {} => NewKeys(t) \cap {f.key : f \in wrote[s]} = {}
        <4> SUFFICES ASSUME pc[t] = "raise", wrote[t] # {}, NEW f \in wrote[s], f.key \in NewKeys(t)
                     PROVE  FALSE
          OBVIOUS
        <4>1. [key |-> f.key, by |-> t] \in wrote[t]
          BY <3>1 DEF ScanSound
        <4>2. [key |-> f.key, by |-> t].key = f.key
          OBVIOUS
        <4> QED BY <3>1, <4>1, <4>2 DEF RaisedApart
      <3> QED BY <1>1, <1>2, <3>1, <3>2 DEF ScanSound
    <2> QED BY <2>1, <2>2
  <1>6. ASSUME NEW t \in Scans, NEW v \in Scans, t # v PROVE RaisedApart(t, v)'
    BY <1>1, <1>6 DEF FindingsSound, RaisedApart, OthersKept, Actors
  <1>7. \A f \in anomalies' : f.by \in Scans
    BY <1>1, <1>4 DEF FindingsSound
  <1>8. \A f, g \in anomalies' : f.key = g.key => f = g
    <2>1. \A f \in anomalies : f.key \in KnownKeys
      BY DEF KnownKeys
    <2> QED BY <1>1, <1>4, <2>1 DEF FindingsSound
  <1> QED BY <1>5, <1>6, <1>7, <1>8 DEF FindingsSound

LEMMA ScanFindings ==
  ASSUME IntakeSound, NEW s \in Scans, s \in cast, OthersKept(s), ScanStep(s)
  PROVE  FindingsSound'
  <1>1. /\ s \in Actors /\ FindingsSound /\ ScanSound(s) /\ Placed(s)
        /\ DOMAIN pc = Actors /\ DOMAIN todo = Actors /\ DOMAIN snap = Actors /\ DOMAIN wrote = Actors
    BY DEF Actors, IntakeSound, ActorsSound, FindingsSound
  <1>2. CASE ReadDebits(s)
    <2>1. UNCHANGED <<anomalies, wrote>> /\ pc[s] = "idle" /\ pc'[s] = "persist" /\ wrote[s] = {}
      BY <1>1, <1>2 DEF ReadDebits, Goto, History, books, Placed, Committing
    <2>2. IsFiniteSet(snap'[s])
      <3> DEFINE S == {y \in txns \X txns :
                         /\ y[1] # y[2] /\ y[1].line.direction = "dr" /\ y[2].line.direction = "dr"
                         /\ y[1].line.vendor = y[2].line.vendor /\ y[1].line.amount = y[2].line.amount}
      <3>1. snap'[s] = {{x[1].hash, x[2].hash} : x \in S}
        BY <1>1, <1>2 DEF ReadDebits, Read
      <3>2. S \subseteq txns \X txns /\ IsFiniteSet(txns)
        BY DEF IntakeSound, RowsSound
      <3> QED BY <3>1, <3>2, PairsFinite
    <2>3. ScanSound(s)'
      BY <2>1, <2>2 DEF ScanSound
    <2> QED BY <1>1, <2>1, <2>3, FindingsKeep DEF RaisedApart
  <1>3. CASE ReadKnown(s)
    <2>1. UNCHANGED <<anomalies, wrote, snap>> /\ pc[s] = "persist" /\ pc'[s] = "raise" /\ wrote[s] = {}
          /\ todo'[s] = SetToSeq(snap[s] \ KnownKeys)
      BY <1>1, <1>3 DEF ReadKnown, Goto, History, books, Placed, Committing
    <2>2. IsFiniteSet(snap[s]) /\ IsFiniteSet(snap[s] \ KnownKeys)
      BY <1>1, <2>1, FS_Difference DEF ScanSound
    <2>3. NewKeys(s)' = snap[s] \ KnownKeys /\ KnownKeys' = KnownKeys
      BY <2>1, <2>2, SetToSeqLists DEF NewKeys, KnownKeys
    <2>4. ScanSound(s)'
      BY <2>1, <2>2, <2>3 DEF ScanSound
    <2> QED BY <1>1, <2>1, <2>4, FindingsKeep DEF RaisedApart
  <1>4. CASE RaiseAnomalies(s)
    <2>1. /\ UNCHANGED <<anomalies, todo, snap>> /\ pc[s] = "raise" /\ wrote[s] = {} /\ ~KeyPending(s)
          /\ \/ pc'[s] = "failed" /\ wrote' = wrote
             \/ pc' = pc /\ wrote'[s] = {[key |-> k, by |-> s] : k \in NewKeys(s)}
                /\ NewKeys(s) \cap KnownKeys = {}
      BY <1>1, <1>4 DEF RaiseAnomalies, Goto, Write, Collides, History, books
    <2>2. NewKeys(s)' = NewKeys(s) /\ KnownKeys' = KnownKeys
      BY <2>1 DEF NewKeys, KnownKeys
    <2>3. ScanSound(s)'
      BY <1>1, <2>1, <2>2 DEF ScanSound
    <2>4. ASSUME NEW t \in Scans \ {s} PROVE RaisedApart(t, s)'
      <3>1. wrote'[t] = wrote[t] /\ \A f \in wrote[t] : f.key \notin NewKeys(s)
        BY <2>1 DEF KeyPending, OthersKept, Actors
      <3>2. \A g \in wrote'[s] : g.key \in NewKeys(s)
        BY <2>1
      <3> QED BY <3>1, <3>2 DEF RaisedApart
    <2> QED BY <1>1, <2>1, <2>3, <2>4, FindingsKeep
  <1> QED BY <1>2, <1>3, <1>4, CommitFindings DEF ScanStep

LEMMA FindingsStep ==
  ASSUME IntakeSound, NEW a \in cast, Step(a) \/ Abort(a)
  PROVE  FindingsSound'
  <1>1. a \in Actors /\ OthersKept(a)
    BY StepTouches, AbortTouches DEF ActorsSound, IntakeSound
  <1>2. CASE a \notin Scans /\ Step(a)
    <2>1. anomalies' = anomalies
      BY <1>2, WhoChanges
    <2> QED BY <1>1, <1>2, <2>1, FindingsKeep
  <1>3. CASE Abort(a)
    <2>1. anomalies' = anomalies /\ pc'[a] = "failed" /\ wrote'[a] = {}
      BY <1>1, <1>3, AbortTouches DEF IntakeSound
    <2>2. ScanSound(a)' /\ \A t \in Scans : RaisedApart(t, a)'
      BY <2>1 DEF ScanSound, RaisedApart
    <2> QED BY <1>1, <2>1, <2>2, FindingsKeep
  <1> QED BY <1>1, <1>2, <1>3, ScanFindings, KindsApart DEF Step

-----------------------------------------------------------------------------
(* Clients and invoices. *)

LEMMA OnboardingInit == Init => OnboardingSound
  <1> SUFFICES ASSUME Init PROVE OnboardingSound
    OBVIOUS
  <1>1. parties = {} /\ invoices = {} /\ \A o \in Exports : pc[o] = "idle"
    BY DEF Init, Actors
  <1> QED BY <1>1 DEF OnboardingSound, ExportSound, OnboardedOnce

\* What a step that commits no client and no invoice has to show.
LEMMA OnboardingKeep ==
  ASSUME IntakeSound, NEW a \in Actors, OthersKept(a), UNCHANGED <<parties, invoices>>,
         a \in Exports \ torn => ExportSound(a)'
  PROVE  OnboardingSound'
  <1>1. OnboardingSound /\ torn \subseteq torn'
    BY DEF IntakeSound, OthersKept
  <1>2. ASSUME NEW o \in Exports \ torn', o # a PROVE ExportSound(o)'
    <2>1. pc'[o] = pc[o] /\ snap'[o] = snap[o] /\ wrote'[o] = wrote[o] /\ ExportSound(o)
      BY <1>1, <1>2 DEF OthersKept, Actors, OnboardingSound
    <2> QED BY <2>1 DEF ExportSound, NewParty, NewInvoice
  <1>3. OnboardedOnce'
    BY <1>1 DEF OnboardingSound, OnboardedOnce
  <1>4. \A o \in Exports \ torn' : ExportSound(o)'
    BY <1>1, <1>2
  <1> QED BY <1>3, <1>4 DEF OnboardingSound

\* A line adds what the export has not seen.
LEMMA LineKeeps ==
  ASSUME IntakeSound, NEW o \in Exports, OthersKept(o), OnboardLine(o), o \notin torn
  PROVE  ExportSound(o)'
  <1> DEFINE inv == Head(todo[o])
  <1>1. PICK place : wrote'[o] = wrote[o] \cup NewRows(o, inv, place)
    BY DEF OnboardLine, Write, IntakeSound, ActorsSound, Actors
  <1>2. /\ UNCHANGED <<pc, parties, invoices>> /\ pc[o] = "onboard"
        /\ snap'[o] = snap[o] \cup {<<inv.client, "name">>, <<inv.number, "number">>}
        /\ ExportSound(o)
    BY DEF OnboardLine, Read, Seen, History, books, IntakeSound, ActorsSound, Actors, OnboardingSound
  <1> HIDE DEF inv
  <1>3. ASSUME NEW w \in NewRows(o, inv, place)
        PROVE  \/ w.row = "party" /\ w.name = inv.client /\ <<inv.client, "name">> \notin snap[o]
                  /\ w = [row |-> "party", name |-> inv.client, place |-> place]
               \/ w.row = "invoice" /\ w.number = inv.number /\ <<inv.number, "number">> \notin snap[o]
                  /\ w = [row |-> "invoice", name |-> inv.client, number |-> inv.number, place |-> place]
    BY DEF NewRows
  <1>4. ASSUME NEW w \in wrote'[o] PROVE NewParty(o, w)' \/ NewInvoice(o, w)'
    <2>1. CASE w \in wrote[o]
      BY <1>2, <2>1 DEF ExportSound, NewParty, NewInvoice
    <2>2. CASE w \in NewRows(o, inv, place) /\ w.row = "party"
      <3>1. w.name = inv.client /\ <<inv.client, "name">> \notin snap[o]
        BY <1>3, <2>2
      <3>2. \A p \in parties : p.name # w.name
        BY <1>2, <3>1 DEF ExportSound
      <3> QED BY <1>2, <2>2, <3>1, <3>2 DEF NewParty
    <2>3. CASE w \in NewRows(o, inv, place) /\ w.row = "invoice"
      <3>1. w.number = inv.number /\ <<inv.number, "number">> \notin snap[o]
        BY <1>3, <2>3
      <3>2. \A i \in invoices : i.number # w.number
        BY <1>2, <3>1 DEF ExportSound
      <3> QED BY <1>2, <2>3, <3>1, <3>2 DEF NewInvoice
    <2> QED BY <1>1, <1>3, <2>1, <2>2, <2>3
  <1>5. ASSUME NEW w \in wrote'[o], NEW v \in wrote'[o]
        PROVE  \/ w.row # v.row
               \/ w.row = "party" /\ (w.name = v.name => w = v)
               \/ w.row = "invoice" /\ (w.number = v.number => w = v)
    <2>1. CASE w \in wrote[o] /\ v \in wrote[o]
      BY <1>2, <2>1 DEF ExportSound
    <2>2. CASE w \in wrote[o] /\ v \in NewRows(o, inv, place)
      <3>1. NewParty(o, w) \/ NewInvoice(o, w)
        BY <1>2, <2>2 DEF ExportSound
      <3> QED BY <1>3, <2>2, <3>1 DEF NewParty, NewInvoice
    <2>3. CASE v \in wrote[o] /\ w \in NewRows(o, inv, place)
      <3>1. NewParty(o, v) \/ NewInvoice(o, v)
        BY <1>2, <2>3 DEF ExportSound
      <3> QED BY <1>3, <2>3, <3>1 DEF NewParty, NewInvoice
    <2>4. CASE w \in NewRows(o, inv, place) /\ v \in NewRows(o, inv, place)
      <3>1. w.row \in {"party", "invoice"}
        BY <1>3, <2>4
      <3>2. w.row = v.row => w = v
        BY <1>3, <2>4
      <3> QED BY <3>1, <3>2
    <2> QED BY <1>1, <2>1, <2>2, <2>3, <2>4
  <1>6. /\ \A p \in parties : <<p.name, "name">> \in snap'[o]
        /\ \A i \in invoices : <<i.number, "number">> \in snap'[o]
    BY <1>2 DEF ExportSound
  <1>7. \A w \in wrote'[o] : NewParty(o, w)' \/ NewInvoice(o, w)'
    BY <1>4
  <1> QED BY <1>2, <1>5, <1>6, <1>7 DEF ExportSound

LEMMA CommitOnboarded ==
  ASSUME IntakeSound, NEW o \in Exports, o \in cast, OthersKept(o), CommitOnboarding(o)
  PROVE  OnboardingSound'
  <1>1. /\ o \in Actors /\ pc[o] = "onboard" /\ pc'[o] = "done" /\ Beside(o) /\ OnboardingSound
        /\ parties' = parties \cup {[name |-> w.name, by |-> <<o, w.place>>] :
                                      w \in {v \in wrote[o] : v.row = "party"}}
        /\ invoices' = invoices \cup {[number |-> w.number, name |-> w.name, by |-> <<o, w.place>>] :
                                        w \in {v \in wrote[o] : v.row = "invoice"}}
    BY DEF CommitOnboarding, Goto, Actors, IntakeSound, ActorsSound
  <1>2. ASSUME NEW e \in Exports \ torn' PROVE ExportSound(e)'
    <2>1. CASE e = o
      BY <1>1, <2>1 DEF ExportSound
    <2>2. CASE e # o
      <3>1. pc'[e] = pc[e] /\ (pc[e] # "idle" => e \in cast)
        BY <2>2 DEF OthersKept, Actors, IntakeSound, ActorsSound, Placed
      <3>2. pc[e] \notin {"numbers", "onboard"}
        BY <1>1, <2>2, <3>1 DEF Beside, InFlight
      <3> QED BY <3>1, <3>2 DEF ExportSound
    <2> QED BY <2>1, <2>2
  <1>3. OnboardedOnce'
    <2> SUFFICES ASSUME torn' = {}
                 PROVE  /\ \A p, q \in parties' : p.name = q.name => p = q
                        /\ \A i, j \in invoices' : i.number = j.number => i = j
      BY DEF OnboardedOnce
    <2>1. torn = {} /\ ExportSound(o)
      BY <1>1 DEF OthersKept, OnboardingSound
    <2>2. \A w \in wrote[o] : NewParty(o, w) \/ NewInvoice(o, w)
      BY <1>1, <2>1 DEF ExportSound
    <2>3. \A w, v \in wrote[o] : w.row = v.row =>
             /\ w.row = "party" => (w.name = v.name => w = v)
             /\ w.row = "invoice" => (w.number = v.number => w = v)
      BY <1>1, <2>1 DEF ExportSound
    <2>4. ASSUME NEW p \in parties', NEW q \in parties', p.name = q.name PROVE p = q
      <3>1. CASE p \in parties /\ q \in parties
        BY <1>1, <2>1, <2>4, <3>1 DEF OnboardingSound, OnboardedOnce
      <3>2. ASSUME NEW x \in parties' \ parties
            PROVE \E w \in wrote[o] : /\ w.row = "party" /\ x.name = w.name /\ x = [name |-> w.name, by |-> <<o, w.place>>]
                                      /\ \A y \in parties : y.name # x.name
        <4>1. PICK w \in wrote[o] : w.row = "party" /\ x = [name |-> w.name, by |-> <<o, w.place>>]
          BY <1>1, <3>2
        <4>2. x.name = w.name
          BY <4>1
        <4>3. NewParty(o, w)
          BY <2>2, <4>1 DEF NewParty, NewInvoice
        <4> QED BY <4>1, <4>2, <4>3 DEF NewParty
      <3>3. CASE p \notin parties /\ q \notin parties
        <4>1. PICK w \in wrote[o] : w.row = "party" /\ p.name = w.name /\ p = [name |-> w.name, by |-> <<o, w.place>>]
          BY <3>2, <3>3
        <4>2. PICK v \in wrote[o] : v.row = "party" /\ q.name = v.name /\ q = [name |-> v.name, by |-> <<o, v.place>>]
          BY <3>2, <3>3
        <4>3. w = v
          BY <2>3, <2>4, <4>1, <4>2
        <4> QED BY <4>1, <4>2, <4>3
      <3> QED BY <2>4, <3>1, <3>2, <3>3
    <2>5. ASSUME NEW i \in invoices', NEW j \in invoices', i.number = j.number PROVE i = j
      <3>1. CASE i \in invoices /\ j \in invoices
        BY <1>1, <2>1, <2>5, <3>1 DEF OnboardingSound, OnboardedOnce
      <3>2. ASSUME NEW x \in invoices' \ invoices
            PROVE \E w \in wrote[o] : /\ w.row = "invoice" /\ x.number = w.number
                                      /\ x = [number |-> w.number, name |-> w.name, by |-> <<o, w.place>>]
                                      /\ \A y \in invoices : y.number # x.number
        <4>1. PICK w \in wrote[o] : w.row = "invoice" /\ x = [number |-> w.number, name |-> w.name, by |-> <<o, w.place>>]
          BY <1>1, <3>2
        <4>2. x.number = w.number
          BY <4>1
        <4>3. NewInvoice(o, w)
          BY <2>2, <4>1 DEF NewParty, NewInvoice
        <4> QED BY <4>1, <4>2, <4>3 DEF NewInvoice
      <3>3. CASE i \notin invoices /\ j \notin invoices
        <4>1. PICK w \in wrote[o] : /\ w.row = "invoice" /\ i.number = w.number
                                    /\ i = [number |-> w.number, name |-> w.name, by |-> <<o, w.place>>]
          BY <3>2, <3>3
        <4>2. PICK v \in wrote[o] : /\ v.row = "invoice" /\ j.number = v.number
                                    /\ j = [number |-> v.number, name |-> v.name, by |-> <<o, v.place>>]
          BY <3>2, <3>3
        <4>3. w = v
          BY <2>3, <2>5, <4>1, <4>2
        <4> QED BY <4>1, <4>2, <4>3
      <3> QED BY <2>5, <3>1, <3>2, <3>3
    <2> QED BY <2>4, <2>5
  <1>4. \A e \in Exports \ torn' : ExportSound(e)'
    BY <1>2
  <1> QED BY <1>3, <1>4 DEF OnboardingSound

LEMMA OnboardingStep ==
  ASSUME IntakeSound, NEW a \in cast, Step(a) \/ Abort(a)
  PROVE  OnboardingSound'
  <1>1. /\ a \in Actors /\ OthersKept(a) /\ Placed(a)
        /\ DOMAIN pc = Actors /\ DOMAIN snap = Actors /\ DOMAIN wrote = Actors
    BY StepTouches, AbortTouches DEF ActorsSound, IntakeSound
  <1>2. CASE a \notin Exports /\ Step(a)
    <2>1. UNCHANGED <<parties, invoices>>
      BY <1>2, WhoChanges
    <2> QED BY <1>1, <1>2, <2>1, OnboardingKeep
  <1>3. CASE Abort(a)
    <2>1. UNCHANGED <<parties, invoices>> /\ pc'[a] = "failed"
      BY <1>1, <1>3, AbortTouches DEF IntakeSound
    <2>2. ExportSound(a)'
      BY <2>1 DEF ExportSound
    <2> QED BY <1>1, <2>1, <2>2, OnboardingKeep
  <1>4. CASE a \in Exports /\ ReadParties(a)
    <2>1. UNCHANGED <<parties, invoices>> /\ pc'[a] = "numbers" /\ snap'[a] = {p.name : p \in parties} \X {"name"}
      BY <1>1, <1>4 DEF ReadParties, Goto, Read, History, books
    <2>2. ExportSound(a)'
      BY <2>1 DEF ExportSound
    <2> QED BY <1>1, <2>1, <2>2, OnboardingKeep
  <1>5. CASE a \in Exports /\ ReadNumbers(a)
    <2>1. /\ UNCHANGED <<parties, invoices, wrote>> /\ pc[a] = "numbers" /\ pc'[a] = "onboard" /\ wrote[a] = {}
          /\ snap'[a] = snap[a] \cup ({i.number : i \in invoices} \X {"number"})
      BY <1>1, <1>5 DEF ReadNumbers, Goto, Read, History, books, Placed, Committing
    <2>2. a \notin torn => ExportSound(a)
      BY <1>5 DEF IntakeSound, OnboardingSound
    <2>3. a \notin torn => ExportSound(a)'
      BY <2>1, <2>2 DEF ExportSound
    <2> QED BY <1>1, <2>1, <2>3, OnboardingKeep
  <1>6. CASE a \in Exports /\ OnboardLine(a)
    <2>1. UNCHANGED <<parties, invoices>>
      BY <1>6 DEF OnboardLine, History, books
    <2> QED BY <1>1, <1>6, <2>1, LineKeeps, OnboardingKeep
  <1> QED BY <1>1, <1>2, <1>3, <1>4, <1>5, <1>6, CommitOnboarded, KindsApart DEF Step, ExportStep

-----------------------------------------------------------------------------
(* Openings. *)

LEMMA NothingSummed == Balance({}) = 0
  <1>1. ASSUME NEW dir PROVE Sum(dir, {}) = 0
    <2>1. {r \in {} : r.line.direction = dir} = {}
      OBVIOUS
    <2>2. FoldSet(LAMBDA r, total : total + r.line.amount, 0, {}) = 0
      BY DEF FoldSet, MapThenFoldSet
    <2> QED BY <2>1, <2>2 DEF Sum
  <1> QED BY <1>1 DEF Balance

LEMMA OpeningsInit == Init => OpeningsSound
  <1> SUFFICES ASSUME Init PROVE OpeningsSound
    OBVIOUS
  <1>1. txns = {} /\ forecasts = {} /\ balances = {0} /\ \A f \in Forecasts : pc[f] = "idle"
    BY DEF Init, Actors
  <1>2. Balance(txns) \in balances
    BY <1>1, NothingSummed
  <1> QED BY <1>1, <1>2 DEF OpeningsSound, OpeningSound, OpeningsWereTrue

\* What a step that moves no money and saves no forecast has to show.
LEMMA OpeningsKeep ==
  ASSUME IntakeSound, NEW a \in Actors, OthersKept(a), UNCHANGED <<txns, balances, forecasts>>,
         a \in Forecasts \ torn => OpeningSound(a)'
  PROVE  OpeningsSound'
  <1>1. OpeningsSound /\ torn \subseteq torn'
    BY DEF IntakeSound, OthersKept
  <1>2. ASSUME NEW f \in Forecasts \ torn', f # a PROVE OpeningSound(f)'
    <2>1. pc'[f] = pc[f] /\ snap'[f] = snap[f] /\ OpeningSound(f)
      BY <1>1, <1>2 DEF OthersKept, Actors, OpeningsSound
    <2> QED BY <2>1 DEF OpeningSound
  <1>3. OpeningsWereTrue' /\ Balance(txns') \in balances'
    BY <1>1 DEF OpeningsSound, OpeningsWereTrue
  <1>4. \A f \in Forecasts \ torn' : OpeningSound(f)'
    BY <1>1, <1>2
  <1> QED BY <1>3, <1>4 DEF OpeningsSound

\* Whoever was summing when rows were committed is torn.
LEMMA CommitSummed ==
  ASSUME IntakeSound, NEW u \in Uploads, OthersKept(u), CommitRows(u)
  PROVE  OpeningsSound'
  <1>1. /\ u \in Actors /\ u \notin Forecasts /\ Beside(u) /\ forecasts' = forecasts /\ torn \subseteq torn'
        /\ balances' = balances \cup {Balance(txns')} /\ OpeningsSound
    BY KindsApart DEF CommitRows, Actors, IntakeSound, OthersKept
  <1>2. ASSUME NEW f \in Forecasts \ torn' PROVE OpeningSound(f)'
    <2>1. pc'[f] = pc[f] /\ (pc[f] # "idle" => f \in cast)
      BY <1>1 DEF OthersKept, Actors, IntakeSound, ActorsSound, Placed
    <2>2. pc[f] \notin {"debits", "forecast"}
      BY <1>1, <2>1 DEF Beside, InFlight
    <2> QED BY <2>1, <2>2 DEF OpeningSound
  <1>3. OpeningsWereTrue' /\ Balance(txns') \in balances'
    BY <1>1 DEF OpeningsSound, OpeningsWereTrue
  <1>4. \A f \in Forecasts \ torn' : OpeningSound(f)'
    BY <1>2
  <1> QED BY <1>3, <1>4 DEF OpeningsSound

LEMMA ForecastOpenings ==
  ASSUME IntakeSound, NEW f \in Forecasts, OthersKept(f), ForecastStep(f)
  PROVE  OpeningsSound'
  <1>1. /\ f \in Actors /\ OpeningsSound /\ (f \notin torn => OpeningSound(f)) /\ torn \subseteq torn'
        /\ DOMAIN pc = Actors /\ DOMAIN snap = Actors
    BY DEF Actors, IntakeSound, ActorsSound, OpeningsSound, OthersKept
  <1>2. CASE ReadCredits(f)
    <2>1. UNCHANGED <<txns, balances, forecasts>> /\ pc'[f] = "debits" /\ snap'[f] = {Sum("cr", txns)}
      BY <1>1, <1>2 DEF ReadCredits, Goto, Read, History, books
    <2>2. OpeningSound(f)'
      BY <2>1 DEF OpeningSound
    <2> QED BY <1>1, <2>1, <2>2, OpeningsKeep
  <1>3. CASE ReadDebitSum(f)
    <2>1. /\ UNCHANGED <<txns, balances, forecasts>> /\ pc[f] = "debits" /\ pc'[f] = "forecast"
          /\ \E credits \in snap[f] : snap'[f] = {credits - Sum("dr", txns)}
      BY <1>1, <1>3 DEF ReadDebitSum, Goto, Read, Opening, History, books
    <2>2. f \notin torn => snap'[f] = {Balance(txns)}
      BY <1>1, <2>1 DEF OpeningSound, Balance
    <2>3. f \notin torn => OpeningSound(f)'
      BY <1>1, <2>1, <2>2 DEF OpeningSound, OpeningsSound
    <2> QED BY <1>1, <2>1, <2>3, OpeningsKeep
  <1>4. CASE SaveForecast(f)
    <2>1. /\ UNCHANGED <<txns, balances>> /\ pc[f] = "forecast" /\ pc'[f] = "done"
          /\ forecasts' = forecasts \cup {[by |-> f, opening |-> o] : o \in snap[f]}
      BY <1>1, <1>4 DEF SaveForecast, Goto, History
    <2>2. ASSUME NEW g \in Forecasts \ torn' PROVE OpeningSound(g)'
      <3>1. CASE g = f
        BY <2>1, <3>1 DEF OpeningSound
      <3>2. CASE g # f
        BY <1>1, <2>1, <3>2 DEF OthersKept, Actors, OpeningsSound, OpeningSound
      <3> QED BY <3>1, <3>2
    <2>3. ASSUME NEW g \in forecasts', g.by \notin torn' PROVE g.opening \in balances'
      <3>1. CASE g \in forecasts
        BY <1>1, <2>1, <2>3, <3>1 DEF OpeningsSound, OpeningsWereTrue
      <3>2. CASE g \notin forecasts
        <4>1. PICK o \in snap[f] : g = [by |-> f, opening |-> o]
          BY <2>1, <3>2
        <4> QED BY <1>1, <2>1, <2>3, <4>1 DEF OpeningSound
      <3> QED BY <3>1, <3>2
    <2>4. OpeningsWereTrue'
      BY <2>3 DEF OpeningsWereTrue
    <2>5. \A g \in Forecasts \ torn' : OpeningSound(g)'
      BY <2>2
    <2> QED BY <1>1, <2>1, <2>4, <2>5 DEF OpeningsSound
  <1> QED BY <1>2, <1>3, <1>4 DEF ForecastStep

LEMMA OpeningsStep ==
  ASSUME IntakeSound, NEW a \in cast, Step(a) \/ Abort(a)
  PROVE  OpeningsSound'
  <1>1. a \in Actors /\ OthersKept(a)
    BY StepTouches, AbortTouches DEF ActorsSound, IntakeSound
  <1>2. CASE Step(a) /\ a \notin Forecasts /\ ~(a \in Uploads /\ CommitRows(a))
    <2>1. UNCHANGED <<txns, balances, forecasts>>
      BY <1>2, WhoChanges
    <2> QED BY <1>1, <1>2, <2>1, OpeningsKeep
  <1>3. CASE Abort(a)
    <2>1. UNCHANGED <<txns, balances, forecasts>> /\ pc'[a] = "failed"
      BY <1>1, <1>3, AbortTouches DEF IntakeSound
    <2>2. OpeningSound(a)'
      BY <2>1 DEF OpeningSound
    <2> QED BY <1>1, <2>1, <2>2, OpeningsKeep
  <1>4. CASE Step(a) /\ a \in Forecasts
    BY <1>1, <1>4, ForecastOpenings, KindsApart DEF Step
  <1> QED BY <1>1, <1>2, <1>3, <1>4, CommitSummed

-----------------------------------------------------------------------------
(* The theorems. *)

LEMMA IntakeInit == Init => IntakeSound
  BY ActorsInit, RowsInit, CodesInit, FindingsInit, OnboardingInit, OpeningsInit DEF IntakeSound

LEMMA IntakeStutter == IntakeSound /\ UNCHANGED vars => IntakeSound'
  <1> SUFFICES ASSUME IntakeSound, UNCHANGED vars PROVE IntakeSound'
    OBVIOUS
  <1> USE DEF vars, books
  <1>1. ActorsSound'
    BY DEF IntakeSound, ActorsSound, Placed, PlacesOf
  <1>2. RowsSound'
    BY DEF IntakeSound, RowsSound, ImportSound, InsertsApart, HashTaken
  <1>3. CodesSound'
    BY DEF IntakeSound, CodesSound, LearnerSound, LearnersApart, Learning, HandSound, ClaimedOnce
  <1>4. FindingsSound'
    BY DEF IntakeSound, FindingsSound, ScanSound, RaisedApart, KnownKeys, NewKeys
  <1>5. OnboardingSound'
    BY DEF IntakeSound, OnboardingSound, ExportSound, NewParty, NewInvoice, OnboardedOnce
  <1>6. OpeningsSound'
    BY DEF IntakeSound, OpeningsSound, OpeningSound, OpeningsWereTrue
  <1> QED BY <1>1, <1>2, <1>3, <1>4, <1>5, <1>6 DEF IntakeSound

LEMMA IntakeNext == IntakeSound /\ [Next]_vars => IntakeSound'
  <1> SUFFICES ASSUME IntakeSound, [Next]_vars PROVE IntakeSound'
    OBVIOUS
  <1>1. ASSUME NEW a \in cast, Step(a) \/ Abort(a) PROVE IntakeSound'
    BY <1>1, ActorsStep, RowsStep, CodesStep, FindingsStep, OnboardingStep, OpeningsStep DEF IntakeSound
  <1> QED BY <1>1, IntakeStutter DEF Next, Crash, DeadlockVictim, ListBooks

\* The invariant the module's invariants follow from: where each actor is, what
\* its open transaction has written, and what it has read that is still so.
THEOREM IntakeStaysSound == Spec => []IntakeSound
  <1> QED BY IntakeInit, IntakeNext, PTL DEF Spec

\* A row's identity is its movement's reference, or its place.
LEMMA RowHash ==
  ASSUME NEW u \in Uploads, NEW r \in Rows(u)
  PROVE  /\ r.by = u /\ r.line \in ToSet(Statement[u]) /\ r.line.amount > 0
         /\ r.hash = [ref |-> r.line.ref, row |-> r.hash.row, move |-> r.line.move]
         /\ r.hash.row = 0 <=> r.line.ref # NoRef
  <1>1. PICK k \in ParsedLines(u) : r = RowOf(u, k)
    BY DEF Rows
  <1>2. PICK n \in Nat : DOMAIN Statement[u] = 1..n
    BY InputsAreGiven
  <1>3. k \in DOMAIN Statement[u] /\ k \in Nat \ {0} /\ Statement[u][k].amount > 0
    BY <1>2 DEF ParsedLines
  <1>4. r.by = u /\ r.line = Statement[u][k] /\ r.hash = Hash(u, k)
    BY <1>1 DEF RowOf
  <1>5. r.line \in ToSet(Statement[u])
    BY <1>3, <1>4 DEF ToSet
  <1>6. /\ r.hash.row = IF r.line.ref = NoRef THEN k + 1 ELSE 0
        /\ r.hash = [ref |-> r.line.ref, row |-> r.hash.row, move |-> r.line.move]
    BY <1>4 DEF Hash
  <1> QED BY <1>3, <1>4, <1>5, <1>6

\* The state is well typed and forecasts start from a balance the books had,
\* whatever is imported, learned, raised and committed meanwhile.
THEOREM BooksStaySound == Spec => []BooksSound
  <1>1. ASSUME IntakeSound PROVE BooksSound
    <2> USE <1>1 DEF IntakeSound
    <2>1. \A r \in txns : r.by \in Uploads /\ r.line.amount > 0
      BY RowHash DEF RowsSound
    <2>2. \A a \in Actors : pc[a] \in PlacesOf(a)
      BY DEF ActorsSound, Placed
    <2>3. TypeOK
      BY <2>1, <2>2 DEF TypeOK, ActorsSound, RowsSound, CodesSound, FindingsSound, PlacesOf
    <2> QED BY <2>3 DEF BooksSound, OpeningsSound
  <1> QED BY <1>1, IntakeStaysSound, PTL

\* A movement uploaded again, or twice at once, is one transaction, and an
\* import that nothing interrupted has every movement of its statement in the
\* books.
THEOREM StatementsStay == Spec => []StatementsKept
  <1>1. ASSUME IntakeSound PROVE StatementsKept
    <2> USE <1>1 DEF IntakeSound
    <2>1. ASSUME NEW r \in txns, NEW q \in txns, r.line.move = q.line.move, r.hash.row = q.hash.row
          PROVE  r = q
      <3>1. PICK u \in Uploads : r \in Rows(u)
        BY DEF RowsSound
      <3>2. PICK v \in Uploads : q \in Rows(v)
        BY DEF RowsSound
      <3>3. /\ r.line \in ToSet(Statement[u]) /\ (r.hash.row = 0 <=> r.line.ref # NoRef)
            /\ r.hash = [ref |-> r.line.ref, row |-> r.hash.row, move |-> r.line.move]
        BY <3>1, RowHash
      <3>4. /\ q.line \in ToSet(Statement[v]) /\ (q.hash.row = 0 <=> q.line.ref # NoRef)
            /\ q.hash = [ref |-> q.line.ref, row |-> q.hash.row, move |-> q.line.move]
        BY <3>2, RowHash
      <3>5. r.line.ref = q.line.ref
        BY <2>1, <3>3, <3>4, ReferencesAgree
      <3>6. r.hash = q.hash
        BY <2>1, <3>3, <3>4, <3>5
      <3> QED BY <3>6 DEF RowsSound
    <2>2. RunsSucceed
      BY DEF RunsSucceed, RowsSound, ImportSound
    <2> QED BY <2>1, <2>2 DEF StatementsKept, IngestedOnce
  <1> QED BY <1>1, IntakeStaysSound, PTL

\* Claims, findings, clients and invoices are there once, whoever finds them.
THEOREM EachStaysOne == Spec => []OneOfEach
  <1>1. ASSUME IntakeSound PROVE OneOfEach
    <2>1. ClaimedOnce /\ OnboardedOnce
      BY <1>1 DEF IntakeSound, CodesSound, OnboardingSound
    <2>2. FindingsKept
      BY <1>1 DEF IntakeSound, FindingsSound, ScanSound, FindingsKept
    <2> QED BY <2>1, <2>2 DEF OneOfEach
  <1> QED BY <1>1, IntakeStaysSound, PTL

=============================================================================
