------------------------------ MODULE Enforcer ------------------------------
(***************************************************************************)
(* The 45-day enforcer: statutory clocks (services/clocks.py), the radar   *)
(* that recomputes them (routes_radar.py), and runs of the enforcer graph  *)
(* (agents enforcer/nodes.py) with the three internal routes they call.    *)
(*                                                                         *)
(* A run of the graph, a tick, reads the crossed rungs in one request and  *)
(* records what it prepared in one more request per invoice.  Every        *)
(* request is one transaction.  Letters wait for a person's approval,      *)
(* which is in Approvals.                                                  *)
(***************************************************************************)
EXTENDS Integers, FiniteSets, Sequences, SequencesExt

CONSTANTS
  Invoices,
  Age,      \* days overdue of each invoice on day 0
  LastDay,  \* bound: days that pass
  Ticks, Views,
  MaxCrashes \* bound: requests or graphs that crash

ASSUME AgesAreDays == Age \in [Invoices -> Nat] /\ LastDay \in Nat /\ MaxCrashes \in Nat
ASSUME CallersApart == Ticks \cap Views = {}
ASSUME FiniteBooks == IsFiniteSet(Invoices)

Callers == Ticks \cup Views

VARIABLES
  day,
  open,     \* invoices with status open
  clocks,   \* statutory_clocks: [known, level, enforced]
  letters,  \* approvals queued for act letters: [by, invoice]
  papers,   \* documents of kind samadhaan_prep: [by, invoice]
  files,    \* files in the upload directory: [by, invoice]
  pc,
  snap,     \* what a caller computed: the crossed rung of each open invoice
  found,    \* transitions a tick has still to prepare, in order
  crashes,
  overlapped \* history: two ticks have been under way at once

vars == <<day, open, clocks, letters, papers, files, pc, snap, found, crashes, overlapped>>

LADDER == <<"none", "nudge", "reminder", "act_letter", "samadhaan_prep">>
Rung(level) == CHOOSE k \in 1..5 : LADDER[k] = level
ENFORCED_LEVELS == {"act_letter", "samadhaan_prep"}

Thresholds == <<0, 1, 16, 31, 61>>
\* escalation_level: the last rung whose threshold is reached.
EscalationLevel(days) == LADDER[CHOOSE k \in 1..5 :
  Thresholds[k] <= days /\ \A j \in 1..5 : Thresholds[j] <= days => j <= k]

Init ==
  /\ day = 0 /\ open = Invoices
  /\ clocks \in [Invoices -> {[known |-> k, level |-> "none", enforced |-> "none"] : k \in BOOLEAN}]
  /\ letters = {} /\ papers = {} /\ files = {}
  /\ pc = [c \in Callers |-> "idle"]
  /\ snap = [c \in Callers |-> <<>>] /\ found = [c \in Callers |-> <<>>]
  /\ crashes = 0 /\ overlapped = FALSE

Goto(c, place) == pc' = [pc EXCEPT ![c] = place]
InFlight(c) == pc[c] \notin {"idle", "done", "failed"}

-----------------------------------------------------------------------------
(* recompute_clocks, for the radar and for enforcer_context.                *)

\* clock_snapshot of the open invoices, beside the clock rows as read.
Snapshot == [i \in open |->
  [new |-> ~clocks[i].known, level |-> EscalationLevel(Age[i] + day), enforced |-> clocks[i].enforced]]

\* A clock added a moment ago has no last_enforced_level before its INSERT, so
\* looking it up in the ladder raises ValueError.
LooksUpNothing(c) ==
  c \in Ticks /\ \E i \in open : Snapshot[i].new /\ Snapshot[i].level \in ENFORCED_LEVELS

\* The request opens its transaction and reads invoices and clocks.
ReadClocks(c) ==
  /\ pc[c] = "idle"
  /\ snap' = [snap EXCEPT ![c] = Snapshot]
  /\ Goto(c, IF LooksUpNothing(c) THEN "failed" ELSE "save")
  /\ overlapped' = (overlapped \/ (c \in Ticks /\ \E t \in Ticks : InFlight(t)))
  /\ UNCHANGED <<day, open, clocks, letters, papers, files, found, crashes>>

\* Mutant for EachRungOnce: a rung that is reached again fires again.
CrossedAgain(s) == s.level \in ENFORCED_LEVELS /\ Rung(s.level) >= Rung(s.enforced)
\* Rungs that nothing, or only a lower one, was prepared for.
Crossed(s) == s.level \in ENFORCED_LEVELS /\ Rung(s.level) > Rung(s.enforced)

\* Mutant for ArtifactsSound: the rungs are marked when they are read.
EnforcedWhenRead(c, i) ==
  IF Crossed(snap[c][i]) THEN snap[c][i].level ELSE clocks[i].enforced
\* Mutant for NeverLowered: a recomputation resets the rung of a clock.
EnforcedReset(c, i) == "none"
\* A recomputation leaves last_enforced_level alone.
EnforcedAfterSave(c, i) == clocks[i].enforced

\* The transitions of the response.
Transitions(c) == {i \in DOMAIN snap[c] : Crossed(snap[c][i])}

\* COMMIT: missing clocks are inserted, the others updated; invoice_id is
\* unique, so a clock somebody else inserted meanwhile fails the request.
SaveClocks(c) ==
  /\ pc[c] = "save"
  /\ IF \E i \in DOMAIN snap[c] : snap[c][i].new /\ clocks[i].known
     THEN Goto(c, "failed") /\ UNCHANGED <<clocks, found>>
     ELSE /\ clocks' = [i \in Invoices |-> IF i \in DOMAIN snap[c]
               THEN [known |-> TRUE, level |-> snap[c][i].level,
                     enforced |-> EnforcedAfterSave(c, i)]
               ELSE clocks[i]]
          /\ \E s \in SetToSeqs(Transitions(c)) :
               found' = [found EXCEPT ![c] = IF c \in Ticks THEN s ELSE <<>>]
          /\ Goto(c, IF c \in Ticks THEN "prepare" ELSE "done")
  /\ UNCHANGED <<day, open, letters, papers, files, snap, crashes, overlapped>>

-----------------------------------------------------------------------------
(* prepare: one artifact per transition, in the order of the response.      *)

Current(t) == Head(found[t])
Next1(t) == found' = [found EXCEPT ![t] = Tail(@)]

\* last_enforced_level takes the rung, whatever it is by now.
Mark(i, level) == [clocks EXCEPT ![i].enforced = level]

\* queue_act_letter: the approval and the rung in one transaction.
QueueLetter(t) ==
  LET i == Current(t) IN
  /\ pc[t] = "prepare" /\ found[t] # <<>> /\ snap[t][i].level = "act_letter"
  /\ letters' = letters \cup {[by |-> t, invoice |-> i]}
  /\ clocks' = Mark(i, "act_letter")
  /\ Next1(t)
  /\ UNCHANGED <<day, open, papers, files, pc, snap, crashes, overlapped>>

\* The file is written before the transaction.
FilesWith(t, i) == files \cup {[by |-> t, invoice |-> i]}

\* persist_samadhaan writes the file.
WritePaper(t) ==
  LET i == Current(t) IN
  /\ pc[t] = "prepare" /\ found[t] # <<>> /\ snap[t][i].level = "samadhaan_prep"
  /\ files' = FilesWith(t, i)
  /\ Goto(t, "paper")
  /\ UNCHANGED <<day, open, clocks, letters, papers, snap, found, crashes, overlapped>>

\* Then the document, its audit row and the rung are committed.
SavePaper(t) ==
  /\ pc[t] = "paper"
  /\ papers' = papers \cup {[by |-> t, invoice |-> Current(t)]}
  /\ clocks' = Mark(Current(t), "samadhaan_prep")
  /\ Next1(t) /\ Goto(t, "prepare")
  /\ UNCHANGED <<day, open, letters, files, snap, crashes, overlapped>>

EndTick(t) ==
  /\ pc[t] = "prepare" /\ found[t] = <<>>
  /\ Goto(t, "done")
  /\ UNCHANGED <<day, open, clocks, letters, papers, files, snap, found, crashes, overlapped>>

-----------------------------------------------------------------------------

\* A crash of the backend or the worker, a full disk, an answer that is lost:
\* the request rolls back or had committed, and the graph ends either way.
Crash(c) ==
  /\ InFlight(c) /\ crashes < MaxCrashes
  /\ crashes' = crashes + 1
  /\ Goto(c, "failed")
  /\ UNCHANGED <<day, open, clocks, letters, papers, files, snap, found, overlapped>>

\* Invoices are paid and days pass at any moment.
Pay(i) ==
  /\ i \in open
  /\ open' = open \ {i}
  /\ UNCHANGED <<day, clocks, letters, papers, files, pc, snap, found, crashes, overlapped>>

NextDay ==
  /\ day < LastDay
  /\ \E d \in {Thresholds[k] - Age[i] : k \in 1..5, i \in Invoices} :
       d > day /\ d <= LastDay /\ day' = d
  /\ UNCHANGED <<open, clocks, letters, papers, files, pc, snap, found, crashes, overlapped>>

Quiet == (\A c \in Callers : ~InFlight(c)) /\ UNCHANGED vars

TickStep(t) == QueueLetter(t) \/ WritePaper(t) \/ SavePaper(t) \/ EndTick(t)

Next ==
  \/ \E c \in Callers : ReadClocks(c) \/ SaveClocks(c) \/ Crash(c)
  \/ \E t \in Ticks : TickStep(t)
  \/ \E i \in Invoices : Pay(i)
  \/ NextDay
  \/ Quiet

Spec == Init /\ [][Next]_vars

-----------------------------------------------------------------------------
(* Properties.                                                              *)

Levels == Range(LADDER)
Clock == [known : BOOLEAN, level : Levels, enforced : Levels]
Snap == [new : BOOLEAN, level : Levels, enforced : Levels]
Artifact == [by : Ticks, invoice : Invoices]

\* Type invariant of the module's state.
TypeOK ==
  /\ open \subseteq Invoices /\ day \in 0..LastDay
  /\ clocks \in [Invoices -> Clock]
  /\ letters \subseteq Artifact /\ papers \subseteq Artifact /\ files \subseteq Artifact
  /\ pc \in [Callers -> {"idle", "save", "prepare", "paper", "done", "failed"}]
  /\ DOMAIN snap = Callers /\ DOMAIN found = Callers
  /\ \A c \in Callers : DOMAIN snap[c] \subseteq Invoices /\ found[c] \in Seq(Invoices)
  /\ \A c \in Callers : \A i \in DOMAIN snap[c] : snap[c][i] \in Snap
  /\ overlapped \in BOOLEAN

\* "Fires once per rung crossing" (enforcer/nodes.py): ticks that do not overlap
\* never prepare two letters or two papers for an invoice, whatever crashes
\* between the artifacts and however days pass and radar views interleave.
RungsFireOnce ==
  ~overlapped => \A S \in {letters, papers} : \A a, b \in S : a.invoice = b.invoice => a = b

\* A rung is marked enforced only together with its artifact, in every
\* interleaving: what a crash or a late request leaves behind is never a mark
\* that keeps the artifact from being prepared.
EnforcedIsBacked ==
  \A i \in Invoices :
    /\ clocks[i].enforced = "act_letter" => \E a \in letters : a.invoice = i
    /\ clocks[i].enforced = "samadhaan_prep" => \E a \in papers : a.invoice = i

\* "A failed write aborts cleanly with no DB row; a rolled-back transaction
\* leaves only a harmless file" (persist_samadhaan).
PapersHaveFiles == papers \subseteq files

\* A tick prepares rungs it saw crossed, each once, and writes the paper first.
WorkIsKnown ==
  \A t \in Ticks :
    /\ pc[t] \in {"prepare", "paper"} =>
         /\ \A k \in DOMAIN found[t] : found[t][k] \in Transitions(t)
         /\ \A j, k \in DOMAIN found[t] : found[t][j] = found[t][k] => j = k
    /\ pc[t] = "paper" =>
         /\ found[t] # <<>> /\ snap[t][Current(t)].level = "samadhaan_prep"
         /\ [by |-> t, invoice |-> Current(t)] \in files

\* The state is well typed, marks have their artifacts and artifacts their files.
ArtifactsSound == TypeOK /\ WorkIsKnown /\ EnforcedIsBacked /\ PapersHaveFiles

\* "Highest rung an enforcement artifact has been prepared for" (models.py): as
\* long as ticks do not overlap it never goes down.
NeverLowered ==
  [][~overlapped' => \A i \in Invoices :
       Rung(clocks'[i].enforced) >= Rung(clocks[i].enforced)]_vars

\* What a tick saw: each invoice over an enforced rung is enforced to it.
Kept(t) ==
  \A i \in DOMAIN snap[t] : snap[t][i].level \in ENFORCED_LEVELS =>
    Rung(clocks[i].enforced) >= Rung(snap[t][i].level)

\* A tick that ends well has enforced every rung it read, also the ones an
\* earlier tick crashed over: nothing is skipped by the comparison with
\* last_enforced_level.
DoneMeansEnforced == ~overlapped => \A t \in Ticks : pc[t] = "done" => Kept(t)

\* What keeps ticks that do not overlap apart: an artifact has its mark, and
\* but for what a tick has prepared itself the marks are as it read them.
MarksHold ==
  ~overlapped =>
    /\ \A s, t \in Ticks : InFlight(s) /\ InFlight(t) => s = t
    /\ \A a \in letters : Rung(clocks[a.invoice].enforced) >= Rung("act_letter")
    /\ \A a \in papers : clocks[a.invoice].enforced = "samadhaan_prep"
    /\ \A t \in Ticks : InFlight(t) => \A i \in DOMAIN snap[t] :
         clocks[i].enforced =
           IF pc[t] # "save" /\ i \in Transitions(t) \ Range(found[t])
           THEN snap[t][i].level ELSE snap[t][i].enforced

\* Exactly once: no rung twice, and none left out by a tick that ends well.
EachRungOnce == MarksHold /\ RungsFireOnce /\ DoneMeansEnforced

-----------------------------------------------------------------------------
(* What the documentation says and the code does not keep.                  *)

\* The graph fires for every rung crossed, unless something crashes or collides
\* with a view: fails for an invoice whose clock is new in the tick itself.
TicksEnforce == Views = {} /\ crashes = 0 /\ ~overlapped =>
  \A t \in Ticks : pc[t] \in {"done", "failed"} => Kept(t)
=============================================================================
