----------------------------- MODULE RunPipeline -----------------------------
(***************************************************************************)
(* Agent runs from the request to the database: POST /agent/runs           *)
(* (routes_agent.py), the worker loop (agents/findesk_agents/worker.py)    *)
(* with its event emitter (events.py), and the backend's event consumer    *)
(* (backend/app/events/streams.py).                                        *)
(*                                                                         *)
(* Two Redis streams carry jobs and events.  A consumer group is created   *)
(* by whoever starts first, at the end of the stream (redis-py's default   *)
(* id "$"); XREADGROUP with ">" hands every later entry to one consumer,   *)
(* once.  An entry that was handed out and not acknowledged stays in the   *)
(* pending list, which no code reads.                                      *)
(***************************************************************************)
EXTENDS Integers, Sequences, FiniteSets, SequencesExt

CONSTANTS
  Runs,        \* agent_runs rows
  NodeCount,   \* nodes of a graph
  Workers,     \* worker processes
  Consumers,   \* backend processes, one event consumer task each
  WorkerCount, \* bound of one worker read (count=8)
  EventCount,  \* bound of one consumer read (count=32)
  MaxFaults    \* bound: crashes and lost connections in one behaviour

ASSUME Bounds ==
  /\ NodeCount \in Nat \ {0}
  /\ WorkerCount \in Nat \ {0} /\ EventCount \in Nat \ {0} /\ MaxFaults \in Nat

VARIABLES
  status,      \* agent_runs.status, "absent" before the request
  step,        \* agent_steps.status of each node's step, "absent" before
  asked,       \* runs whose request is between COMMIT and XADD
  jobs,        \* the jobs stream: runs
  jobsRead,    \* last entry handed to the workers' group, NoGroup before
  jobsAcked,
  events,      \* the events stream: [run, kind, status]
  eventsRead,  \* last entry handed to the consumers' group, NoGroup before
  eventsAcked,
  published,   \* events relayed to the run's channel
  wpc, wjobs,  \* each worker's place, and the job entries it still has
  wnext,       \* the next event of the job it runs
  cpc, cevents,\* each consumer's place, and the event entries it still has
  crun, cstep, \* the run status and step status a consumer read
  faults       \* crashes and lost connections so far

streams == <<jobs, jobsRead, jobsAcked, events, eventsRead, eventsAcked>>
workers == <<wpc, wjobs, wnext>>
consumers == <<cpc, cevents, crun, cstep>>
vars == <<status, step, asked, streams, published, workers, consumers, faults>>

NoGroup == -1

Nodes == 1..NodeCount

\* What a graph emits for one run: each node announces its start and its end
\* under a step_id of its own, and dispatch the outcome.
Script ==
  [k \in 1..(2 * NodeCount + 1) |->
     IF k > 2 * NodeCount THEN [kind |-> "done", node |-> 0, status |-> "succeeded"]
     ELSE [kind |-> "step", node |-> (k + 1) \div 2,
           status |-> IF k % 2 = 1 THEN "started" ELSE "finished"]]

EventOf(r, e) == [run |-> r, kind |-> e.kind, node |-> e.node, status |-> e.status]
Failure(r) == [run |-> r, kind |-> "done", node |-> 0, status |-> "failed"]

Init ==
  /\ status = [r \in Runs |-> "absent"]
  /\ step = [r \in Runs |-> [n \in Nodes |-> "absent"]]
  /\ asked = {}
  /\ jobs = <<>> /\ jobsRead = NoGroup /\ jobsAcked = {}
  /\ events = <<>> /\ eventsRead = NoGroup /\ eventsAcked = {}
  /\ published = {}
  /\ wpc = [w \in Workers |-> "off"]
  /\ wjobs = [w \in Workers |-> <<>>]
  /\ wnext = [w \in Workers |-> 1]
  /\ cpc = [c \in Consumers |-> "off"]
  /\ cevents = [c \in Consumers |-> <<>>]
  /\ crun = [c \in Consumers |-> "absent"]
  /\ cstep = [c \in Consumers |-> "absent"]
  /\ faults = 0

Fault == faults < MaxFaults /\ faults' = faults + 1

-----------------------------------------------------------------------------
(* The request.                                                             *)

\* create_run commits the queued run.
SaveRun(r) ==
  /\ status[r] = "absent"
  /\ status' = [status EXCEPT ![r] = "queued"]
  /\ asked' = asked \cup {r}
  /\ UNCHANGED <<step, streams, published, workers, consumers, faults>>

\* Only then does enqueue_job add the job to the stream.
EnqueueJob(r) ==
  /\ r \in asked
  /\ jobs' = Append(jobs, r)
  /\ asked' = asked \ {r}
  /\ UNCHANGED <<status, step, jobsRead, jobsAcked, events, eventsRead,
                 eventsAcked, published, workers, consumers, faults>>

\* The process dies or Redis refuses in between: nothing enqueues the run later.
EnqueueFails(r) ==
  /\ r \in asked
  /\ Fault
  /\ asked' = asked \ {r}
  /\ UNCHANGED <<status, step, streams, published, workers, consumers>>

-----------------------------------------------------------------------------
(* Reading from a consumer group.                                           *)

\* Mutant for RunsAdvance: a starting process creates the group
\* anew, at the beginning of the stream.
GroupRecreated(read, stream) == 0
\* Mutant for DeliverableEnds: every starting process moves the group to the end.
GroupMovedToEnd(read, stream) == Len(stream)
\* XGROUP CREATE at "$"; BUSYGROUP leaves an existing group as it is.
GroupAfterStart(read, stream) == IF read = NoGroup THEN Len(stream) ELSE read

\* The entries XREADGROUP ">" hands out.
Handed(read, stream, count) ==
  [k \in 1..(IF Len(stream) - read < count THEN Len(stream) - read ELSE count) |-> read + k]

-----------------------------------------------------------------------------
(* The worker.                                                              *)

\* main() makes sure the group exists and starts polling.
StartWorker(w) ==
  /\ wpc[w] = "off"
  /\ jobsRead' = GroupAfterStart(jobsRead, jobs)
  /\ wpc' = [wpc EXCEPT ![w] = "poll"]
  /\ UNCHANGED <<status, step, asked, jobs, jobsAcked, events, eventsRead,
                 eventsAcked, published, wjobs, wnext, consumers, faults>>

\* XREADGROUP: a batch of new entries.
ReadJobs(w) ==
  LET batch == Handed(jobsRead, jobs, WorkerCount) IN
  /\ wpc[w] = "poll"
  /\ batch # <<>>
  /\ jobsRead' = jobsRead + Len(batch)
  /\ wjobs' = [wjobs EXCEPT ![w] = batch]
  /\ wnext' = [wnext EXCEPT ![w] = 1]
  /\ wpc' = [wpc EXCEPT ![w] = "run"]
  /\ UNCHANGED <<status, step, asked, jobs, jobsAcked, events, eventsRead,
                 eventsAcked, published, consumers, faults>>

\* dispatch: the graph emits its next event, and "succeeded" at the end.
Emit(w) ==
  /\ wpc[w] = "run"
  /\ events' = Append(events, EventOf(jobs[Head(wjobs[w])], Script[wnext[w]]))
  /\ wnext' = [wnext EXCEPT ![w] = @ + 1]
  /\ wpc' = [wpc EXCEPT ![w] = IF wnext[w] = Len(Script) THEN "ack" ELSE "run"]
  /\ UNCHANGED <<status, step, asked, jobs, jobsRead, jobsAcked, eventsRead,
                 eventsAcked, published, wjobs, consumers, faults>>

\* The graph raises: dispatch reports the run as failed.
GraphFails(w) ==
  /\ wpc[w] = "run"
  /\ events' = Append(events, Failure(jobs[Head(wjobs[w])]))
  /\ wpc' = [wpc EXCEPT ![w] = "ack"]
  /\ UNCHANGED <<status, step, asked, jobs, jobsRead, jobsAcked, eventsRead,
                 eventsAcked, published, wjobs, wnext, consumers, faults>>

\* Redis adds "succeeded" and the reply is lost: the same except branch reports
\* the run as failed too.
SuccessDoubted(w) ==
  /\ wpc[w] = "ack" /\ wnext[w] > Len(Script)
  /\ Fault
  /\ events' = Append(events, Failure(jobs[Head(wjobs[w])]))
  /\ wnext' = [wnext EXCEPT ![w] = 1]
  /\ UNCHANGED <<status, step, asked, jobs, jobsRead, jobsAcked, eventsRead,
                 eventsAcked, published, wpc, wjobs, consumers>>

\* Where a loop goes after the first entry of its batch.
NextPlace(batch, more) == IF Len(batch) > 1 THEN more ELSE "poll"

\* Mutant for TransportSound: one XACK for the whole batch.
AckedBatch(w) == ToSet(wjobs[w])
\* XACK names the job that was just run.
Acked(w) == {Head(wjobs[w])}

\* XACK, and on to the next job of the batch.
AckJob(w) ==
  /\ wpc[w] = "ack"
  /\ jobsAcked' = jobsAcked \cup Acked(w)
  /\ wpc' = [wpc EXCEPT ![w] = NextPlace(wjobs[w], "run")]
  /\ wjobs' = [wjobs EXCEPT ![w] = Tail(@)]
  /\ wnext' = [wnext EXCEPT ![w] = 1]
  /\ UNCHANGED <<status, step, asked, jobs, jobsRead, events, eventsRead,
                 eventsAcked, published, consumers, faults>>

\* Redis fails while the outcome is reported or acknowledged, or the process
\* dies: the rest of the batch is dropped, and the loop polls for new entries
\* or the process starts again under a new consumer name.
WorkerLosesBatch(w) ==
  /\ wpc[w] \in {"run", "ack"}
  /\ Fault
  /\ wjobs' = [wjobs EXCEPT ![w] = <<>>]
  /\ \E place \in {"poll", "off"} : wpc' = [wpc EXCEPT ![w] = place]
  /\ UNCHANGED <<status, step, asked, streams, published, wnext, consumers>>

-----------------------------------------------------------------------------
(* The backend's event consumer.                                            *)

StartConsumer(c) ==
  /\ cpc[c] = "off"
  /\ eventsRead' = GroupAfterStart(eventsRead, events)
  /\ cpc' = [cpc EXCEPT ![c] = "poll"]
  /\ UNCHANGED <<status, step, asked, jobs, jobsRead, jobsAcked, events,
                 eventsAcked, published, workers, cevents, crun, cstep, faults>>

\* Only ResponseError is suppressed around XGROUP CREATE: if Redis cannot be
\* reached the task ends, while the process goes on serving requests.
ConsumerNeverStarts(c) ==
  /\ cpc[c] = "off"
  /\ Fault
  /\ cpc' = [cpc EXCEPT ![c] = "ended"]
  /\ UNCHANGED <<status, step, asked, streams, published, workers, cevents, crun, cstep>>

ReadEvents(c) ==
  LET batch == Handed(eventsRead, events, EventCount) IN
  /\ cpc[c] = "poll"
  /\ batch # <<>>
  /\ eventsRead' = eventsRead + Len(batch)
  /\ cevents' = [cevents EXCEPT ![c] = batch]
  /\ cpc' = [cpc EXCEPT ![c] = "load"]
  /\ UNCHANGED <<status, step, asked, jobs, jobsRead, jobsAcked, events,
                 eventsAcked, published, workers, crun, cstep, faults>>

Current(c) == events[Head(cevents[c])]

\* Mutant for RelayedIsSaved: an outcome is relayed without being saved.
AfterLoadRelayed(c) == IF Current(c).kind = "step" THEN "find" ELSE "publish"
\* A step is looked for, an outcome written at once.
AfterLoad(c) == IF Current(c).kind = "step" THEN "find" ELSE "save"

\* _handle_event opens its transaction and loads the run.
LoadRun(c) ==
  /\ cpc[c] = "load"
  /\ crun' = [crun EXCEPT ![c] = status[Current(c).run]]
  /\ cpc' = [cpc EXCEPT ![c] = AfterLoad(c)]
  /\ UNCHANGED <<status, step, asked, streams, published, workers, cevents, cstep, faults>>

\* c's transaction has updated the run's row and keeps its lock.
HoldsRun(c, r) ==
  /\ cpc[c] = "save" /\ Current(c).run = r
  /\ Current(c).kind = "step" /\ crun[c] = "queued"

\* A run read as queued is set running at once (an UPDATE that waits for the
\* row's lock); then upsert_step looks for the step.
FindStep(c) ==
  /\ cpc[c] = "find"
  /\ crun[c] = "queued" => \A d \in Consumers : ~HoldsRun(d, Current(c).run)
  /\ cstep' = [cstep EXCEPT ![c] = step[Current(c).run][Current(c).node]]
  /\ cpc' = [cpc EXCEPT ![c] = "save"]
  /\ UNCHANGED <<status, step, asked, streams, published, workers, cevents, crun, faults>>

\* The run's status after the handler's COMMIT: it depends on what was loaded.
StatusAfter(c) ==
  LET e == Current(c) IN
  IF e.kind = "done" THEN e.status
  ELSE IF crun[c] = "queued" THEN "running" ELSE status[e.run]

\* COMMIT.  A step nobody had inserted is inserted; one that was there is
\* overwritten.
SaveEvent(c) ==
  LET e == Current(c) IN
  /\ cpc[c] = "save"
  /\ e.kind = "step" => (cstep[c] = "absent" => step[e.run][e.node] = "absent")
  /\ e.kind = "done" => \A d \in Consumers \ {c} : ~HoldsRun(d, e.run)
  /\ status' = [status EXCEPT ![e.run] = StatusAfter(c)]
  /\ step' = IF e.kind = "step" THEN [step EXCEPT ![e.run][e.node] = e.status] ELSE step
  /\ cpc' = [cpc EXCEPT ![c] = "publish"]
  /\ UNCHANGED <<asked, streams, published, workers, cevents, crun, cstep, faults>>

\* On to the next entry of the batch.
NextEvent(c) ==
  /\ cpc' = [cpc EXCEPT ![c] = NextPlace(cevents[c], "load")]
  /\ cevents' = [cevents EXCEPT ![c] = Tail(@)]

\* Another consumer inserted the step meanwhile: step_id is unique, the INSERT
\* fails, the exception is logged and the entry is never read again.
SaveCollides(c) ==
  LET e == Current(c) IN
  /\ cpc[c] = "save"
  /\ e.kind = "step" /\ cstep[c] = "absent" /\ step[e.run][e.node] # "absent"
  /\ NextEvent(c)
  /\ UNCHANGED <<status, step, asked, streams, published, workers, crun, cstep, faults>>

\* PUBLISH to the run's channel, after COMMIT.
Publish(c) ==
  /\ cpc[c] = "publish"
  /\ published' = published \cup {Head(cevents[c])}
  /\ cpc' = [cpc EXCEPT ![c] = "ack"]
  /\ UNCHANGED <<status, step, asked, streams, workers, cevents, crun, cstep, faults>>

AckEvent(c) ==
  /\ cpc[c] = "ack"
  /\ eventsAcked' = eventsAcked \cup {Head(cevents[c])}
  /\ NextEvent(c)
  /\ UNCHANGED <<status, step, asked, jobs, jobsRead, jobsAcked, events,
                 eventsRead, published, workers, crun, cstep, faults>>

Handling(c) == cpc[c] \in {"load", "find", "save", "publish", "ack"}

\* The database or Redis fails while an event is handled: it is logged, left
\* unacknowledged and skipped.
HandlerFails(c) ==
  /\ Handling(c)
  /\ Fault
  /\ NextEvent(c)
  /\ UNCHANGED <<status, step, asked, streams, published, workers, crun, cstep>>

\* The backend restarts: what its consumer had read stays pending for a name
\* that never comes back.
ConsumerRestarts(c) ==
  /\ cpc[c] # "off"
  /\ Fault
  /\ cevents' = [cevents EXCEPT ![c] = <<>>]
  /\ cpc' = [cpc EXCEPT ![c] = "off"]
  /\ UNCHANGED <<status, step, asked, streams, published, workers, crun, cstep>>

-----------------------------------------------------------------------------

WorkerStep(w) == StartWorker(w) \/ ReadJobs(w) \/ Emit(w) \/ GraphFails(w) \/ AckJob(w)
HandlerStep(c) ==
  \/ LoadRun(c) \/ FindStep(c) \/ SaveEvent(c) \/ SaveCollides(c) \/ Publish(c) \/ AckEvent(c)
ConsumerStep(c) == StartConsumer(c) \/ ReadEvents(c) \/ HandlerStep(c)

\* Everything was answered and the loops poll empty streams.
Quiet ==
  /\ asked = {}
  /\ \A w \in Workers : wpc[w] = "poll" /\ jobsRead = Len(jobs)
  /\ \A c \in Consumers : cpc[c] = "ended" \/ (cpc[c] = "poll" /\ eventsRead = Len(events))
  /\ UNCHANGED vars

Next ==
  \/ \E r \in Runs : SaveRun(r) \/ EnqueueJob(r) \/ EnqueueFails(r)
  \/ \E w \in Workers : WorkerStep(w) \/ SuccessDoubted(w) \/ WorkerLosesBatch(w)
  \/ \E c \in Consumers : ConsumerStep(c) \/ ConsumerNeverStarts(c)
                          \/ HandlerFails(c) \/ ConsumerRestarts(c)
  \/ Quiet

Spec == Init /\ [][Next]_vars

\* Every process that is up keeps running, and one that is down is started.
FairSpec ==
  /\ Spec
  /\ \A r \in Runs : WF_vars(EnqueueJob(r))
  /\ \A w \in Workers : WF_vars(WorkerStep(w))
  /\ \A c \in Consumers : WF_vars(ConsumerStep(c))

-----------------------------------------------------------------------------
(* Properties.                                                              *)

Ended == {"succeeded", "failed"}
Statuses == {"absent", "queued", "running"} \cup Ended
Positions == 1..Len(events)

Event == {EventOf(r, Script[k]) : r \in Runs, k \in 1..Len(Script)} \cup {Failure(r) : r \in Runs}

\* Type invariant of the module's state.
TypeOK ==
  /\ status \in [Runs -> Statuses]
  /\ step \in [Runs -> [Nodes -> {"absent", "started", "finished"}]]
  /\ asked \subseteq Runs
  /\ jobs \in Seq(Runs) /\ jobsRead \in NoGroup..Len(jobs)
  /\ jobsAcked \subseteq 1..Len(jobs)
  /\ events \in Seq(Event) /\ eventsRead \in NoGroup..Len(events)
  /\ eventsAcked \subseteq Positions /\ published \subseteq Positions
  /\ wpc \in [Workers -> {"off", "poll", "run", "ack"}] /\ wnext \in [Workers -> Nat]
  /\ DOMAIN wjobs = Workers /\ \A w \in Workers : wjobs[w] \in Seq(1..Len(jobs))
  /\ cpc \in [Consumers -> {"off", "ended", "poll", "load", "find", "save", "publish", "ack"}]
  /\ DOMAIN cevents = Consumers /\ \A c \in Consumers : cevents[c] \in Seq(Positions)
  /\ faults \in 0..MaxFaults

\* A job runs at most once, by one worker, however workers crash and restart:
\* after the done event of its run comes at most a "failed" that contradicts a
\* "succeeded" whose reply was lost.
DoneIsLast ==
  \A j, k \in Positions :
    events[j].run = events[k].run /\ events[j].kind = "done" /\ j < k =>
      events[j].status = "succeeded" /\ events[k] = Failure(events[j].run)

\* An acknowledged job has reported its outcome, and an acknowledged event has
\* been saved and relayed.
AcksAreHonest ==
  /\ \A j \in jobsAcked : \E k \in Positions : events[k].run = jobs[j] /\ events[k].kind = "done"
  /\ eventsAcked \subseteq published

\* A run has one job, which comes after its row.
JobsOnce ==
  /\ \A j, k \in DOMAIN jobs : jobs[j] = jobs[k] => j = k
  /\ \A r \in asked : r \notin ToSet(jobs)
  /\ \A r \in Runs : status[r] = "absent" => r \notin asked /\ r \notin ToSet(jobs)

\* Every job that was handed out is with one worker.
BatchesApart ==
  /\ \A w \in Workers :
       /\ wpc[w] \in {"run", "ack"} <=> wjobs[w] # <<>>
       /\ wpc[w] # "off" => jobsRead # NoGroup
       /\ \A j, k \in DOMAIN wjobs[w] : wjobs[w][j] = wjobs[w][k] => j = k
       /\ \A j \in ToSet(wjobs[w]) : j <= jobsRead
  /\ \A v, w \in Workers : v # w => ToSet(wjobs[v]) \cap ToSet(wjobs[w]) = {}

\* What a worker has still to run has no outcome; what it has to acknowledge
\* has one, and only success can still be contradicted.
Outcomes(r) == {k \in Positions : events[k].run = r /\ events[k].kind = "done"}
OutcomesPend ==
  /\ \A k \in Positions : \E j \in 1..jobsRead : jobs[j] = events[k].run
  /\ \A w \in Workers :
       /\ \A k \in DOMAIN wjobs[w] :
            Outcomes(jobs[wjobs[w][k]]) # {} <=> k = 1 /\ wpc[w] = "ack"
       /\ wpc[w] = "run" => wnext[w] \in 1..Len(Script)
       /\ wpc[w] = "ack" /\ wnext[w] > Len(Script) =>
            \A k \in Outcomes(jobs[Head(wjobs[w])]) : events[k].status = "succeeded"

\* A consumer handles what it was handed, and acknowledges what it relayed.
HandlersKnow ==
  \A c \in Consumers :
    /\ Handling(c) <=> cevents[c] # <<>>
    /\ cpc[c] = "poll" \/ Handling(c) => eventsRead # NoGroup
    /\ cpc[c] = "ack" => Head(cevents[c]) \in published

\* The streams are well formed, every run is executed once, and what is
\* acknowledged was done: the inductive invariant of the module.
TransportSound ==
  /\ TypeOK /\ JobsOnce /\ BatchesApart /\ OutcomesPend /\ HandlersKnow
  /\ DoneIsLast /\ AcksAreHonest

\* How far along a status is.
Rank(s) ==
  CASE s = "absent" -> 0 [] s = "queued" -> 1 [] s \in {"running", "started"} -> 2
    [] s \in Ended \cup {"finished"} -> 3

\* "After persistence, so replay+live is gapless" (_handle_event): what was
\* relayed to the run's channel is in the rows a later replay reads, or a later
\* event of the run is.
RelayedIsSaved ==
  \A k \in published :
    LET e == events[k] IN
    IF e.kind = "done" THEN status[e.run] \in Ended
    ELSE Rank(step[e.run][e.node]) >= Rank(e.status)

\* A run never goes back: not from its outcome to running, and no step from
\* finished to started.
RunsAdvance ==
  [][\A r \in Runs :
       /\ Rank(status'[r]) >= Rank(status[r])
       /\ \A n \in Nodes : Rank(step'[r][n]) >= Rank(step[r][n])]_vars

\* A backend's step handler that loaded the run as queued is about to set it
\* running, though another backend has saved the outcome meanwhile
\* (streams.py:81-82).
Overtaken(r) ==
  /\ status[r] \in Ended
  /\ \E c \in Consumers : cpc[c] = "find" /\ Current(c).run = r /\ crun[c] = "queued"

\* Without crashes, a job that is in the stream when the group exists, or
\* comes later, reaches its outcome in the database, once the backend's own
\* group exists too; and the outcome stays, unless the late step handler of
\* another backend overtakes it.  One handler alone never does (RunsAdvance).
Deliverable(r) == jobsRead # NoGroup /\ eventsRead # NoGroup
                  /\ \E k \in (jobsRead + 1)..Len(jobs) : jobs[k] = r
DeliverableEnds ==
  \A r \in Runs :
    /\ Deliverable(r) ~> status[r] \in Ended
    /\ Deliverable(r) ~> (Overtaken(r) \/ [](status[r] \in Ended))

-----------------------------------------------------------------------------
(* What the documentation says and the code does not keep.                  *)

\* "At-least-once delivery" (worker.py): a job in the stream is run.
Reported(r) == \E k \in Positions : events[k].run = r /\ events[k].kind = "done"
JobsAreRun == \A r \in Runs : r \in ToSet(jobs) ~> Reported(r)
=============================================================================
