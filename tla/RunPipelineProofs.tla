-------------------------- MODULE RunPipelineProofs --------------------------
(***************************************************************************)
(* Proofs about RunPipeline for any number of runs, workers, backends and  *)
(* faults: whatever crashes, a job is executed once and acknowledgements   *)
(* are honest.                                                             *)
(***************************************************************************)
EXTENDS RunPipeline, TLAPS

LEMMA ScriptEnds ==
  /\ Len(Script) \in Nat \ {0} /\ DOMAIN Script = 1..Len(Script)
  /\ Script[Len(Script)] = [kind |-> "done", node |-> 0, status |-> "succeeded"]
  /\ \A k \in 1..Len(Script) :
       k # Len(Script) => Script[k].kind = "step" /\ Script[k].node \in Nodes
                          /\ Script[k].status \in {"started", "finished"}
  <1> DEFINE n == 2 * NodeCount + 1
  <1>1. n \in Nat \ {0} /\ DOMAIN Script = 1..n /\ Len(Script) = n
    BY Bounds DEF Script
  <1>2. Script[n] = [kind |-> "done", node |-> 0, status |-> "succeeded"]
    BY Bounds DEF Script
  <1>3. ASSUME NEW k \in 1..n, k # n
        PROVE  Script[k].kind = "step" /\ Script[k].node \in Nodes
               /\ Script[k].status \in {"started", "finished"}
    <2>1. ~(k > 2 * NodeCount) /\ (k + 1) \div 2 \in Nodes
      BY <1>3, Bounds DEF Nodes
    <2>2. Script[k] = [kind |-> "step", node |-> (k + 1) \div 2,
                       status |-> IF k % 2 = 1 THEN "started" ELSE "finished"]
      BY <1>3, <2>1 DEF Script
    <2> QED BY <2>1, <2>2
  <1> QED BY <1>1, <1>2, <1>3

\* An event is a step's or an outcome.
LEMMA EventKinds ==
  /\ \A r \in Runs : Failure(r) \in Event /\ Failure(r).run = r /\ Failure(r).kind = "done"
                     /\ Failure(r).status = "failed"
  /\ \A r \in Runs, k \in 1..Len(Script) :
       LET e == EventOf(r, Script[k]) IN
       /\ e \in Event /\ e.run = r
       /\ IF k = Len(Script) THEN e.kind = "done" /\ e.status = "succeeded" ELSE e.kind = "step"
  /\ \A e \in Event : e.run \in Runs
       /\ \/ e.kind = "done" /\ e.status \in Ended
          \/ e.kind = "step" /\ e.node \in Nodes /\ e.status \in {"started", "finished"}
  <1>1. \A r \in Runs : Failure(r) \in Event /\ Failure(r).run = r /\ Failure(r).kind = "done"
                        /\ Failure(r).status = "failed"
    <2>1. \A r \in Runs : Failure(r) \in Event
      BY DEF Event
    <2>2. \A r \in Runs : Failure(r).run = r /\ Failure(r).kind = "done" /\ Failure(r).status = "failed"
      BY DEF Failure
    <2> QED BY <2>1, <2>2
  <1>2. ASSUME NEW r \in Runs, NEW k \in 1..Len(Script), NEW e, e = EventOf(r, Script[k])
        PROVE  /\ e \in Event /\ e.run = r
               /\ e.kind = Script[k].kind /\ e.node = Script[k].node /\ e.status = Script[k].status
    BY <1>2 DEF EventOf, Event
  <1>3. ASSUME NEW r \in Runs, NEW k \in 1..Len(Script), NEW e, e = EventOf(r, Script[k])
        PROVE  /\ IF k = Len(Script) THEN e.kind = "done" /\ e.status = "succeeded" ELSE e.kind = "step"
               /\ \/ e.kind = "done" /\ e.status \in Ended
                  \/ e.kind = "step" /\ e.node \in Nodes /\ e.status \in {"started", "finished"}
    <2>0. e.kind = Script[k].kind /\ e.node = Script[k].node /\ e.status = Script[k].status
      BY <1>2, <1>3
    <2>1. CASE k = Len(Script)
      <3>1. Script[k].kind = "done" /\ Script[k].status = "succeeded"
        BY <2>1, ScriptEnds
      <3> QED BY <2>0, <2>1, <3>1 DEF Ended
    <2>2. CASE k # Len(Script)
      <3>1. Script[k].kind = "step" /\ Script[k].node \in Nodes /\ Script[k].status \in {"started", "finished"}
        BY <2>2, ScriptEnds
      <3> QED BY <2>0, <2>2, <3>1
    <2> QED BY <2>1, <2>2
  <1>4. ASSUME NEW e \in Event
        PROVE  e.run \in Runs
               /\ \/ e.kind = "done" /\ e.status \in Ended
                  \/ e.kind = "step" /\ e.node \in Nodes /\ e.status \in {"started", "finished"}
    <2>1. CASE \E r \in Runs : e = Failure(r)
      BY <1>1, <2>1 DEF Ended
    <2>2. CASE \E r \in Runs, k \in 1..Len(Script) : e = EventOf(r, Script[k])
      BY <1>2, <1>3, <2>2
    <2> QED BY <2>1, <2>2 DEF Event
  <1> QED BY <1>1, <1>2, <1>3, <1>4

LEMMA AppendGrows ==
  ASSUME NEW S, NEW s \in Seq(S), NEW e \in S
  PROVE  /\ Append(s, e) \in Seq(S) /\ Len(Append(s, e)) = Len(s) + 1 /\ Len(s) \in Nat
         /\ DOMAIN s = 1..Len(s) /\ DOMAIN Append(s, e) = 1..(Len(s) + 1)
         /\ Append(s, e)[Len(s) + 1] = e /\ \A k \in 1..Len(s) : Append(s, e)[k] = s[k]
         /\ ToSet(Append(s, e)) = ToSet(s) \cup {e}
  <1>1. /\ Append(s, e) \in Seq(S) /\ Len(Append(s, e)) = Len(s) + 1 /\ Len(s) \in Nat
        /\ DOMAIN s = 1..Len(s) /\ DOMAIN Append(s, e) = 1..(Len(s) + 1)
        /\ Append(s, e)[Len(s) + 1] = e /\ \A k \in 1..Len(s) : Append(s, e)[k] = s[k]
    OBVIOUS
  <1>2. \A k \in 1..(Len(s) + 1) : k \in 1..Len(s) \/ k = Len(s) + 1
    BY <1>1
  <1>3. 1..Len(s) \subseteq 1..(Len(s) + 1) /\ Len(s) + 1 \in 1..(Len(s) + 1)
    BY <1>1
  <1>4. ToSet(Append(s, e)) = ToSet(s) \cup {e}
    BY <1>1, <1>2, <1>3 DEF ToSet
  <1> QED BY <1>1, <1>4

\* The rest of a batch is the batch without its head.
LEMMA TailOfBatch ==
  ASSUME NEW S, NEW s \in Seq(S), s # <<>>
  PROVE  /\ Head(s) \in S /\ Head(s) \in ToSet(s) /\ Head(s) = s[1] /\ 1 \in DOMAIN s
         /\ Tail(s) \in Seq(S) /\ ToSet(Tail(s)) \subseteq ToSet(s)
         /\ Tail(s) # <<>> <=> Len(s) > 1
         /\ \A k \in DOMAIN Tail(s) : k + 1 \in DOMAIN s /\ k + 1 # 1 /\ Tail(s)[k] = s[k + 1] /\ k \in Nat
  <1>1. /\ Len(s) \in Nat \ {0} /\ DOMAIN s = 1..Len(s) /\ Head(s) = s[1] /\ Tail(s) \in Seq(S)
        /\ Len(Tail(s)) = Len(s) - 1
        /\ DOMAIN Tail(s) = 1..(Len(s) - 1) /\ \A k \in 1..(Len(s) - 1) : Tail(s)[k] = s[k + 1]
    OBVIOUS
  <1>2. \A k \in DOMAIN Tail(s) : k + 1 \in DOMAIN s /\ k + 1 # 1 /\ Tail(s)[k] = s[k + 1] /\ k \in Nat
    BY <1>1
  <1>3. ToSet(Tail(s)) \subseteq ToSet(s)
    BY <1>2 DEF ToSet
  <1>4. Tail(s) # <<>> <=> Len(s) > 1
    <2>1. \A t \in Seq(S) : t = <<>> <=> Len(t) = 0
      OBVIOUS
    <2>2. Tail(s) = <<>> <=> Len(Tail(s)) = 0
      BY <1>1, <2>1
    <2>3. Len(Tail(s)) = 0 <=> ~(Len(s) > 1)
      BY <1>1
    <2> QED BY <2>2, <2>3
  <1>5. 1 \in DOMAIN s /\ Head(s) \in S /\ Head(s) \in ToSet(s)
    BY <1>1 DEF ToSet
  <1> QED BY <1>1, <1>2, <1>3, <1>4, <1>5

\* XREADGROUP hands out entries that were not handed out before.
LEMMA HandedIsNew ==
  ASSUME NEW S, NEW stream \in Seq(S), NEW read \in 0..Len(stream), NEW count \in Nat \ {0},
         NEW batch, batch = Handed(read, stream, count)
  PROVE  /\ batch \in Seq(1..Len(stream)) /\ read + Len(batch) \in read..Len(stream)
         /\ DOMAIN batch = 1..Len(batch) /\ Len(batch) \in Nat
         /\ \A k \in DOMAIN batch : batch[k] = read + k
         /\ \A j \in ToSet(batch) : read < j /\ j <= read + Len(batch) /\ j \in Nat
         /\ \A j, k \in DOMAIN batch : batch[j] = batch[k] => j = k
  <1> DEFINE n == IF Len(stream) - read < count THEN Len(stream) - read ELSE count
  <1>1. n \in 0..(Len(stream) - read) /\ n \in Nat /\ Len(stream) \in Nat
    OBVIOUS
  <1>2. batch = [k \in 1..n |-> read + k]
    BY DEF Handed
  <1> HIDE DEF n
  <1>3. \A k \in 1..n : read + k \in 1..Len(stream)
    BY <1>1
  <1>4. batch \in Seq(1..Len(stream)) /\ Len(batch) = n /\ DOMAIN batch = 1..n
    BY <1>1, <1>2, <1>3
  <1>5. \A k \in DOMAIN batch : batch[k] = read + k
    BY <1>2, <1>4
  <1>6. \A j \in ToSet(batch) : read < j /\ j <= read + Len(batch) /\ j \in Nat
    BY <1>1, <1>4, <1>5 DEF ToSet
  <1>7. read + Len(batch) \in read..Len(stream)
    BY <1>1, <1>4
  <1>8. \A j, k \in DOMAIN batch : batch[j] = batch[k] => j = k
    BY <1>1, <1>4, <1>5
  <1> QED BY <1>1, <1>4, <1>5, <1>6, <1>7, <1>8

\* A sequence of positions stays one when the stream grows.
LEMMA SeqGrows ==
  ASSUME NEW m \in Nat, NEW n \in Nat, m <= n, NEW s \in Seq(1..m)
  PROVE  s \in Seq(1..n)
  <1>1. 1..m \subseteq 1..n
    OBVIOUS
  <1>2. Len(s) \in Nat /\ s \in [1..Len(s) -> 1..m]
    OBVIOUS
  <1>3. s \in [1..Len(s) -> 1..n]
    BY <1>1, <1>2
  <1> QED BY <1>2, <1>3

-----------------------------------------------------------------------------
(* The inductive invariant. *)

LEMMA InvInit == Init => TransportSound
  <1> SUFFICES ASSUME Init PROVE TransportSound
    OBVIOUS
  <1>1. jobs = <<>> /\ events = <<>> /\ Len(jobs) = 0 /\ Len(events) = 0 /\ DOMAIN jobs = {} /\ Positions = {}
    BY DEF Init, Positions
  <1>2. TypeOK
    BY <1>1, Bounds DEF Init, TypeOK, Statuses, NoGroup
  <1> QED BY <1>1, <1>2 DEF Init, TransportSound, JobsOnce, BatchesApart, OutcomesPend, HandlersKnow,
             DoneIsLast, AcksAreHonest, Handling, ToSet, Outcomes, NoGroup

\* Requests touch runs and the end of the jobs stream.
LEMMA RequestKeeps ==
  ASSUME TransportSound, NEW r \in Runs, SaveRun(r) \/ EnqueueJob(r) \/ EnqueueFails(r)
  PROVE  TransportSound'
  <1> USE DEF TransportSound
  <1>1. UNCHANGED <<step, jobsRead, jobsAcked, events, eventsRead, eventsAcked, published, workers, consumers>>
    BY DEF SaveRun, EnqueueJob, EnqueueFails, streams
  <1>2. \A q \in Runs : status'[q] = "absent" => status[q] = "absent" /\ q \notin asked' \ asked
    BY DEF SaveRun, EnqueueJob, EnqueueFails, TypeOK
  <1>3. /\ jobs' \in Seq(Runs) /\ Len(jobs) \in Nat /\ Len(jobs') \in Nat /\ Len(jobs) <= Len(jobs')
        /\ DOMAIN jobs = 1..Len(jobs) /\ DOMAIN jobs' = 1..Len(jobs')
        /\ \A k \in 1..Len(jobs) : jobs'[k] = jobs[k]
    <2>1. jobs \in Seq(Runs) BY DEF TypeOK
    <2>2. CASE jobs' = jobs BY <2>1, <2>2
    <2>3. CASE jobs' = Append(jobs, r) BY <2>1, <2>3, AppendGrows
    <2> QED BY <2>2, <2>3 DEF SaveRun, EnqueueJob, EnqueueFails, streams
  <1>4. TypeOK'
    <2>1. /\ status' \in [Runs -> Statuses] /\ asked' \subseteq Runs /\ faults' \in 0..MaxFaults
      <3>1. CASE SaveRun(r) BY <3>1 DEF SaveRun, TypeOK, Statuses
      <3>2. CASE EnqueueJob(r) BY <3>2 DEF EnqueueJob, TypeOK
      <3>3. CASE EnqueueFails(r)
        <4>1. faults' \in 0..MaxFaults
          BY <3>3, Bounds DEF EnqueueFails, Fault, TypeOK
        <4> QED BY <3>3, <4>1 DEF EnqueueFails, TypeOK
      <3> QED BY <3>1, <3>2, <3>3
    <2>2. \A w \in Workers : wjobs'[w] \in Seq(1..Len(jobs'))
      BY <1>1, <1>3, SeqGrows DEF TypeOK, workers
    <2>3. jobsRead' \in NoGroup..Len(jobs') /\ jobsAcked' \subseteq 1..Len(jobs')
      BY <1>1, <1>3 DEF TypeOK, NoGroup
    <2> QED BY <1>1, <1>3, <2>1, <2>2, <2>3 DEF TypeOK, workers, consumers, Positions
  <1>5. JobsOnce'
    <2>1. CASE jobs' = jobs
      <3>1. \A q \in asked' : q \in asked \/ (q = r /\ status[r] = "absent" /\ status'[r] = "queued")
        BY <2>1 DEF SaveRun, EnqueueJob, EnqueueFails, TypeOK
      <3> QED BY <1>2, <2>1, <3>1 DEF JobsOnce, TypeOK
    <2>2. CASE EnqueueJob(r)
      <3>1. /\ r \in asked /\ jobs' = Append(jobs, r) /\ asked' = asked \ {r} /\ status' = status
        BY <2>2 DEF EnqueueJob
      <3>2. ToSet(jobs') = ToSet(jobs) \cup {r} /\ DOMAIN jobs' = 1..(Len(jobs) + 1) /\ jobs'[Len(jobs) + 1] = r
        BY <3>1, AppendGrows DEF TypeOK
      <3>3. r \notin ToSet(jobs) /\ \A k \in DOMAIN jobs : jobs[k] # r
        BY <3>1 DEF JobsOnce, ToSet
      <3>4. \A k \in DOMAIN jobs' : k \in DOMAIN jobs \/ k = Len(jobs) + 1
        BY <1>3, <3>2
      <3>5. \A j, k \in DOMAIN jobs' : jobs'[j] = jobs'[k] => j = k
        BY <1>3, <3>2, <3>3, <3>4 DEF JobsOnce
      <3>6. \A q \in asked' : q \notin ToSet(jobs')
        BY <3>1, <3>2 DEF JobsOnce
      <3>7. \A q \in Runs : status'[q] = "absent" => q \notin asked' /\ q \notin ToSet(jobs')
        BY <3>1, <3>2 DEF JobsOnce
      <3> QED BY <3>5, <3>6, <3>7 DEF JobsOnce
    <2> QED BY <2>1, <2>2 DEF SaveRun, EnqueueJob, EnqueueFails, streams
  <1>6. BatchesApart'
    BY <1>1 DEF BatchesApart, workers
  <1>7. \A q : Outcomes(q)' = Outcomes(q)
    BY <1>1 DEF Outcomes, Positions
  <1>8. OutcomesPend'
    <2>1. \A k \in Positions' : \E j \in 1..jobsRead' : jobs'[j] = events'[k].run
      <3>1. \A j \in 1..jobsRead : jobs'[j] = jobs[j]
        BY <1>3 DEF TypeOK, NoGroup
      <3> QED BY <1>1, <3>1 DEF OutcomesPend, Positions
    <2>2. ASSUME NEW w \in Workers, NEW k \in DOMAIN wjobs[w] PROVE jobs'[wjobs[w][k]] = jobs[wjobs[w][k]]
      BY <1>3, <2>2 DEF TypeOK
    <2>3. ASSUME NEW w \in Workers, wpc[w] = "ack" PROVE jobs'[Head(wjobs[w])] = jobs[Head(wjobs[w])]
      <3>1. wjobs[w] # <<>> /\ wjobs[w] \in Seq(1..Len(jobs))
        BY <2>3 DEF BatchesApart, TypeOK
      <3> QED BY <1>3, <3>1, TailOfBatch
    <2>4. ASSUME NEW w \in Workers
          PROVE  /\ \A k \in DOMAIN wjobs'[w] :
                      Outcomes(jobs[wjobs[w][k]])' # {} <=> k = 1 /\ wpc'[w] = "ack"
                 /\ wpc'[w] = "run" => wnext'[w] \in 1..Len(Script)
                 /\ wpc'[w] = "ack" /\ wnext'[w] > Len(Script) =>
                      \A k \in Outcomes(jobs[Head(wjobs[w])])' : events'[k].status = "succeeded"
      <3>1. wjobs' = wjobs /\ wpc' = wpc /\ wnext' = wnext /\ events' = events
        BY <1>1 DEF workers
      <3>2. ASSUME NEW k \in DOMAIN wjobs[w] PROVE Outcomes(jobs[wjobs[w][k]])' = Outcomes(jobs[wjobs[w][k]])
        BY <2>2, <3>1 DEF Outcomes, Positions
      <3>3. wpc[w] = "ack" => Outcomes(jobs[Head(wjobs[w])])' = Outcomes(jobs[Head(wjobs[w])])
        BY <2>3, <3>1 DEF Outcomes, Positions
      <3> QED BY <3>1, <3>2, <3>3 DEF OutcomesPend
    <2> QED BY <2>1, <2>4 DEF OutcomesPend
  <1>9. HandlersKnow'
    BY <1>1 DEF HandlersKnow, consumers, Handling
  <1>10. DoneIsLast'
    BY <1>1 DEF DoneIsLast, Positions
  <1>11. AcksAreHonest'
    <2>1. \A j \in jobsAcked : jobs'[j] = jobs[j]
      BY <1>3 DEF TypeOK
    <2> QED BY <1>1, <2>1 DEF AcksAreHonest, Positions
  <1> QED BY <1>4, <1>5, <1>6, <1>8, <1>9, <1>10, <1>11

\* The backend's consumers touch rows and their own group.
LEMMA BackendKeeps ==
  ASSUME TransportSound, UNCHANGED <<asked, jobs, jobsRead, jobsAcked, events, workers>>,
         TypeOK', HandlersKnow', eventsAcked' \subseteq published',
         \A r \in Runs : status'[r] = "absent" => status[r] = "absent"
  PROVE  TransportSound'
  <1> USE DEF TransportSound
  <1>1. JobsOnce' /\ BatchesApart'
    BY DEF JobsOnce, BatchesApart, workers
  <1>2. \A q : Outcomes(q)' = Outcomes(q)
    BY DEF Outcomes, Positions
  <1>3. OutcomesPend'
    BY <1>2 DEF OutcomesPend, workers, Positions
  <1>4. DoneIsLast' /\ AcksAreHonest'
    BY DEF DoneIsLast, AcksAreHonest, Positions
  <1> QED BY <1>1, <1>3, <1>4

-----------------------------------------------------------------------------
(* The backend's consumers. *)

Places == {"off", "ended", "poll", "load", "find", "save", "publish", "ack"}
Busy == {"load", "find", "save", "publish", "ack"}

\* What a step of one consumer has to show.
LEMMA ConsumerMoves ==
  ASSUME TransportSound, NEW c \in Consumers, NEW place \in Places, NEW batch \in Seq(Positions),
         cpc' = [cpc EXCEPT ![c] = place], DOMAIN cevents' = Consumers, cevents'[c] = batch,
         \A d \in Consumers \ {c} : cevents'[d] = cevents[d],
         UNCHANGED <<asked, jobs, jobsRead, jobsAcked, events, workers>>,
         status' \in [Runs -> Statuses], \A r \in Runs : status'[r] = "absent" => status[r] = "absent",
         step' \in [Runs -> [Nodes -> {"absent", "started", "finished"}]],
         eventsRead' \in NoGroup..Len(events), eventsRead # NoGroup => eventsRead' # NoGroup,
         published \subseteq published', published' \subseteq Positions, eventsAcked' \subseteq published',
         faults' \in 0..MaxFaults,
         place \in Busy <=> batch # <<>>, place \notin {"off", "ended"} => eventsRead' # NoGroup,
         place = "ack" => Head(batch) \in published'
  PROVE  TransportSound'
  <1> USE DEF TransportSound
  <1>1. cpc'[c] = place /\ \A d \in Consumers \ {c} : cpc'[d] = cpc[d]
    BY DEF TypeOK
  <1>2. TypeOK'
    <2>1. cpc' \in [Consumers -> Places]
      BY DEF TypeOK, Places
    <2>2. \A d \in Consumers : cevents'[d] \in Seq(Positions)
      BY DEF TypeOK
    <2>3. eventsAcked' \subseteq Positions /\ Positions' = Positions
      BY DEF Positions
    <2> QED BY <2>1, <2>2, <2>3 DEF TypeOK, workers, Places
  <1>3. HandlersKnow'
    <2> SUFFICES ASSUME NEW d \in Consumers
                 PROVE  /\ Handling(d)' <=> cevents'[d] # <<>>
                        /\ cpc'[d] = "poll" \/ Handling(d)' => eventsRead' # NoGroup
                        /\ cpc'[d] = "ack" => Head(cevents'[d]) \in published'
      BY DEF HandlersKnow
    <2>1. CASE d = c
      BY <1>1, <2>1 DEF Handling, Busy, Places
    <2>2. CASE d # c
      BY <1>1, <2>2 DEF HandlersKnow, Handling
    <2> QED BY <2>1, <2>2
  <1> QED BY <1>2, <1>3, BackendKeeps

LEMMA StartConsumerKeeps ==
  ASSUME TransportSound, NEW c \in Consumers, StartConsumer(c) \/ ConsumerNeverStarts(c)
  PROVE  TransportSound'
  <1> USE DEF TransportSound
  <1>1. cevents[c] = <<>> /\ cevents[c] \in Seq(Positions)
    BY DEF StartConsumer, ConsumerNeverStarts, HandlersKnow, Handling, TypeOK
  <1>2. eventsAcked \subseteq published /\ published \subseteq Positions
    BY DEF AcksAreHonest, TypeOK
  <1>3. CASE StartConsumer(c)
    <2>1. /\ eventsRead' \in NoGroup..Len(events) /\ eventsRead' # NoGroup
      <3>1. events \in Seq(Event) /\ Len(events) \in Nat
        BY DEF TypeOK
      <3> QED BY <1>3, <3>1 DEF StartConsumer, GroupAfterStart, TypeOK, NoGroup
    <2> QED BY <1>1, <1>2, <1>3, <2>1, ConsumerMoves DEF StartConsumer, TypeOK, workers, Places, Busy
  <1>4. CASE ConsumerNeverStarts(c)
    <2>1. faults' \in 0..MaxFaults
      BY <1>4, Bounds DEF ConsumerNeverStarts, Fault, TypeOK
    <2> QED BY <1>1, <1>2, <1>4, <2>1, ConsumerMoves DEF ConsumerNeverStarts, TypeOK, streams, workers, Places, Busy
  <1> QED BY <1>3, <1>4

LEMMA ReadEventsKeeps ==
  ASSUME TransportSound, NEW c \in Consumers, ReadEvents(c)
  PROVE  TransportSound'
  <1> USE DEF TransportSound
  <1> DEFINE batch == Handed(eventsRead, events, EventCount)
  <1>1. /\ cpc[c] = "poll" /\ batch # <<>> /\ eventsRead' = eventsRead + Len(batch)
        /\ cevents' = [cevents EXCEPT ![c] = batch] /\ cpc' = [cpc EXCEPT ![c] = "load"]
        /\ UNCHANGED <<status, step, asked, jobs, jobsRead, jobsAcked, events,
                       eventsAcked, published, workers, faults>>
    BY DEF ReadEvents
  <1>2. eventsRead \in 0..Len(events) /\ events \in Seq(Event) /\ Len(events) \in Nat
    BY <1>1 DEF HandlersKnow, TypeOK, NoGroup
  <1>3. batch \in Seq(Positions) /\ eventsRead + Len(batch) \in eventsRead..Len(events)
    BY <1>2, HandedIsNew, Bounds DEF Positions
  <1> HIDE DEF batch
  <1>4. eventsRead' \in NoGroup..Len(events) /\ eventsRead' # NoGroup
    BY <1>1, <1>2, <1>3 DEF NoGroup
  <1>5. eventsAcked \subseteq published /\ published \subseteq Positions
    BY DEF AcksAreHonest, TypeOK
  <1>6. DOMAIN cevents' = Consumers /\ cevents'[c] = batch
        /\ \A d \in Consumers \ {c} : cevents'[d] = cevents[d]
    BY <1>1 DEF TypeOK
  <1> QED BY <1>1, <1>3, <1>4, <1>5, <1>6, ConsumerMoves DEF TypeOK, Places, Busy

\* A handler goes on with the event it has.
LEMMA HandlerGoesOn ==
  ASSUME TransportSound, NEW c \in Consumers, Handling(c), NEW place \in Busy,
         cpc' = [cpc EXCEPT ![c] = place],
         UNCHANGED <<asked, streams, workers, cevents, faults>>,
         status' \in [Runs -> Statuses], \A r \in Runs : status'[r] = "absent" => status[r] = "absent",
         step' \in [Runs -> [Nodes -> {"absent", "started", "finished"}]],
         published' = IF place = "ack" THEN published \cup {Head(cevents[c])} ELSE published
  PROVE  TransportSound'
  <1> USE DEF TransportSound
  <1>1. cevents[c] # <<>> /\ cevents[c] \in Seq(Positions) /\ eventsRead # NoGroup
    BY DEF HandlersKnow, TypeOK
  <1>2. Head(cevents[c]) \in Positions
    BY <1>1, TailOfBatch
  <1>3. eventsAcked' \subseteq published' /\ published \subseteq published' /\ published' \subseteq Positions
    BY <1>2 DEF AcksAreHonest, TypeOK, streams
  <1> QED BY <1>1, <1>3, ConsumerMoves DEF TypeOK, streams, Places, Busy

\* A handler is done with the event it has.
LEMMA HandlerEnds ==
  ASSUME TransportSound, NEW c \in Consumers, Handling(c), NextEvent(c),
         UNCHANGED <<asked, jobs, jobsRead, jobsAcked, events, eventsRead, workers, status, step, published>>,
         eventsAcked' \subseteq published, faults' \in 0..MaxFaults
  PROVE  TransportSound'
  <1> USE DEF TransportSound
  <1>1. cevents[c] # <<>> /\ cevents[c] \in Seq(Positions) /\ eventsRead # NoGroup
    BY DEF HandlersKnow, TypeOK
  <1>2. Tail(cevents[c]) \in Seq(Positions) /\ (Tail(cevents[c]) # <<>> <=> Len(cevents[c]) > 1)
    BY <1>1, TailOfBatch
  <1>3. NextPlace(cevents[c], "load") \in {"load", "poll"}
        /\ (NextPlace(cevents[c], "load") = "load" <=> Len(cevents[c]) > 1)
    BY DEF NextPlace
  <1>4. /\ cpc' = [cpc EXCEPT ![c] = NextPlace(cevents[c], "load")]
        /\ DOMAIN cevents' = Consumers /\ cevents'[c] = Tail(cevents[c])
        /\ \A d \in Consumers \ {c} : cevents'[d] = cevents[d]
    BY DEF NextEvent, TypeOK
  <1>5. published \subseteq Positions
    BY DEF TypeOK
  <1> QED BY <1>1, <1>2, <1>3, <1>4, <1>5, ConsumerMoves DEF TypeOK, Places, Busy

\* A saved event belongs to a run that was queued, and leaves a status behind.
LEMMA SaveEventKeeps ==
  ASSUME TransportSound, NEW c \in Consumers, SaveEvent(c)
  PROVE  TransportSound'
  <1> USE DEF TransportSound
  <1> DEFINE e == Current(c)
  <1>1. Handling(c) /\ cevents[c] # <<>> /\ cevents[c] \in Seq(Positions)
    BY DEF SaveEvent, Handling, HandlersKnow, TypeOK
  <1>2. Head(cevents[c]) \in Positions
    BY <1>1, TailOfBatch
  <1>3. e \in Event /\ e.run \in Runs
    <2>1. events \in Seq(Event)
      BY DEF TypeOK
    <2>2. e \in Event
      BY <1>2, <2>1 DEF Current, Positions
    <2> QED BY <2>2, EventKinds
  <1>4. status[e.run] # "absent"
    <2>1. PICK j \in 1..jobsRead : jobs[j] = e.run
      BY <1>2 DEF OutcomesPend, Current
    <2>2. j \in DOMAIN jobs
      BY DEF TypeOK, NoGroup
    <2> QED BY <1>3, <2>1, <2>2 DEF JobsOnce, ToSet
  <1>5. StatusAfter(c) \in Statuses \ {"absent"}
    BY <1>3, <1>4, EventKinds DEF StatusAfter, Statuses, Ended, TypeOK
  <1>6. status' \in [Runs -> Statuses] /\ \A r \in Runs : status'[r] = "absent" => status[r] = "absent"
    BY <1>5 DEF SaveEvent, TypeOK
  <1>7. step' \in [Runs -> [Nodes -> {"absent", "started", "finished"}]]
    <2>1. CASE e.kind = "step"
      <3>1. e.node \in Nodes /\ e.status \in {"absent", "started", "finished"}
        BY <1>3, <2>1, EventKinds
      <3>2. step' = [step EXCEPT ![e.run][e.node] = e.status]
        BY <2>1 DEF SaveEvent
      <3> HIDE DEF e
      <3> QED BY <1>3, <3>1, <3>2 DEF TypeOK
    <2>2. CASE e.kind # "step"
      BY <2>2 DEF SaveEvent, TypeOK
    <2> QED BY <2>1, <2>2
  <1>8. cpc' = [cpc EXCEPT ![c] = "publish"] /\ UNCHANGED <<asked, streams, published, workers, cevents, faults>>
    BY DEF SaveEvent
  <1> QED BY <1>1, <1>6, <1>7, <1>8, HandlerGoesOn DEF Busy

LEMMA HandlerKeeps ==
  ASSUME TransportSound, NEW c \in Consumers, HandlerStep(c) \/ HandlerFails(c)
  PROVE  TransportSound'
  <1> USE DEF TransportSound
  <1>1. CASE LoadRun(c)
    <2>1. AfterLoad(c) \in Busy
      BY DEF AfterLoad, Busy
    <2> QED BY <1>1, <2>1, HandlerGoesOn DEF LoadRun, Handling, TypeOK, AfterLoad
  <1>2. CASE FindStep(c)
    BY <1>2, HandlerGoesOn DEF FindStep, Handling, TypeOK, Busy
  <1>3. CASE SaveEvent(c)
    BY <1>3, SaveEventKeeps
  <1>4. CASE SaveCollides(c)
    BY <1>4, HandlerEnds DEF SaveCollides, Handling, TypeOK, AcksAreHonest, streams
  <1>5. CASE Publish(c)
    BY <1>5, HandlerGoesOn DEF Publish, Handling, TypeOK, Busy
  <1>6. CASE AckEvent(c)
    <2>1. Head(cevents[c]) \in published
      BY <1>6 DEF AckEvent, HandlersKnow
    <2> QED BY <1>6, <2>1, HandlerEnds DEF AckEvent, Handling, TypeOK, AcksAreHonest
  <1>7. CASE HandlerFails(c)
    <2>1. faults' \in 0..MaxFaults
      BY <1>7, Bounds DEF HandlerFails, Fault, TypeOK
    <2> QED BY <1>7, <2>1, HandlerEnds DEF HandlerFails, TypeOK, AcksAreHonest, streams
  <1> QED BY <1>1, <1>2, <1>3, <1>4, <1>5, <1>6, <1>7 DEF HandlerStep

LEMMA ConsumerRestartsKeeps ==
  ASSUME TransportSound, NEW c \in Consumers, ConsumerRestarts(c)
  PROVE  TransportSound'
  <1> USE DEF TransportSound
  <1>1. faults' \in 0..MaxFaults
    BY Bounds DEF ConsumerRestarts, Fault, TypeOK
  <1>2. /\ cpc' = [cpc EXCEPT ![c] = "off"] /\ DOMAIN cevents' = Consumers /\ cevents'[c] = <<>>
        /\ \A d \in Consumers \ {c} : cevents'[d] = cevents[d]
        /\ UNCHANGED <<status, step, asked, streams, published, workers>>
    BY DEF ConsumerRestarts, TypeOK
  <1>3. eventsAcked \subseteq published /\ <<>> \in Seq(Positions)
    BY DEF AcksAreHonest
  <1> QED BY <1>1, <1>2, <1>3, ConsumerMoves DEF TypeOK, streams, Places, Busy

-----------------------------------------------------------------------------
(* The workers. *)

\* What a step that gives a worker another batch has to show.
LEMMA WorkerMoves ==
  ASSUME TransportSound, NEW w \in Workers, NEW place \in {"off", "poll", "run"}, NEW batch \in Seq(1..Len(jobs)),
         wpc' = [wpc EXCEPT ![w] = place], DOMAIN wjobs' = Workers, wjobs'[w] = batch,
         \A v \in Workers \ {w} : wjobs'[v] = wjobs[v],
         wnext' \in [Workers -> Nat], \A v \in Workers \ {w} : wnext'[v] = wnext[v],
         UNCHANGED <<status, step, asked, jobs, events, eventsRead, eventsAcked, published, consumers>>,
         jobsRead' \in NoGroup..Len(jobs), jobsRead <= jobsRead',
         jobsAcked' \subseteq 1..Len(jobs), faults' \in 0..MaxFaults,
         place = "run" <=> batch # <<>>, place # "off" => jobsRead' # NoGroup,
         place = "run" => wnext'[w] \in 1..Len(Script),
         \A j, k \in DOMAIN batch : batch[j] = batch[k] => j = k,
         \A j \in ToSet(batch) : j <= jobsRead' /\ Outcomes(jobs[j]) = {},
         \A v \in Workers \ {w} : ToSet(wjobs[v]) \cap ToSet(batch) = {},
         \A j \in jobsAcked' \ jobsAcked : Outcomes(jobs[j]) # {}
  PROVE  TransportSound'
  <1> USE DEF TransportSound
  <1>1. wpc'[w] = place /\ \A v \in Workers \ {w} : wpc'[v] = wpc[v]
    BY DEF TypeOK
  <1>2. TypeOK'
    <2>1. wpc' \in [Workers -> {"off", "poll", "run", "ack"}]
      BY DEF TypeOK
    <2>2. \A v \in Workers : wjobs'[v] \in Seq(1..Len(jobs))
      BY DEF TypeOK
    <2>3. Positions' = Positions
      BY DEF Positions
    <2> QED BY <2>1, <2>2, <2>3 DEF TypeOK, consumers
  <1>3. JobsOnce'
    BY DEF JobsOnce
  <1>4. \A q : Outcomes(q)' = Outcomes(q)
    BY DEF Outcomes, Positions
  <1>5. jobsRead # NoGroup => jobsRead' # NoGroup
    BY DEF TypeOK, NoGroup
  <1>6. BatchesApart'
    <2>1. ASSUME NEW v \in Workers
          PROVE  /\ wpc'[v] \in {"run", "ack"} <=> wjobs'[v] # <<>>
                 /\ wpc'[v] # "off" => jobsRead' # NoGroup
                 /\ \A j, k \in DOMAIN wjobs'[v] : wjobs'[v][j] = wjobs'[v][k] => j = k
      <3>1. CASE v = w
        BY <1>1, <3>1
      <3>2. CASE v # w
        BY <1>1, <1>5, <3>2 DEF BatchesApart
      <3> QED BY <3>1, <3>2
    <2>2. ASSUME NEW v \in Workers, NEW j \in ToSet(wjobs'[v]) PROVE j <= jobsRead'
      <3>1. CASE v = w
        BY <2>2, <3>1
      <3>2. CASE v # w
        <4>1. j <= jobsRead
          BY <2>2, <3>2 DEF BatchesApart
        <4>2. j \in Int
          <5>1. wjobs'[v] = wjobs[v] /\ wjobs[v] \in Seq(1..Len(jobs))
            BY <3>2 DEF TypeOK
          <5> QED BY <2>2, <5>1 DEF ToSet
        <4> QED BY <4>1, <4>2 DEF TypeOK, NoGroup
      <3> QED BY <3>1, <3>2
    <2>3. ASSUME NEW u \in Workers, NEW v \in Workers, u # v
          PROVE  ToSet(wjobs'[u]) \cap ToSet(wjobs'[v]) = {}
      <3>1. CASE u = w
        BY <2>3, <3>1
      <3>2. CASE v = w
        BY <2>3, <3>2
      <3>3. CASE u # w /\ v # w
        BY <2>3, <3>3 DEF BatchesApart
      <3> QED BY <3>1, <3>2, <3>3
    <2> QED BY <2>1, <2>2, <2>3 DEF BatchesApart
  <1>7. OutcomesPend'
    <2>1. \A k \in Positions : \E j \in 1..jobsRead' : jobs[j] = events[k].run
      <3>1. 1..jobsRead \subseteq 1..jobsRead'
        BY DEF TypeOK, NoGroup
      <3> QED BY <3>1 DEF OutcomesPend
    <2>2. ASSUME NEW v \in Workers
          PROVE  /\ \A k \in DOMAIN wjobs'[v] : Outcomes(jobs[wjobs'[v][k]]) # {} <=> k = 1 /\ wpc'[v] = "ack"
                 /\ wpc'[v] = "run" => wnext'[v] \in 1..Len(Script)
                 /\ wpc'[v] = "ack" /\ wnext'[v] > Len(Script) =>
                      \A k \in Outcomes(jobs[Head(wjobs'[v])]) : events[k].status = "succeeded"
      <3>1. CASE v = w
        <4>1. \A k \in DOMAIN batch : batch[k] \in ToSet(batch)
          BY DEF ToSet
        <4> QED BY <1>1, <3>1, <4>1
      <3>2. CASE v # w
        <4>1. wpc'[v] = wpc[v] /\ wjobs'[v] = wjobs[v] /\ wnext'[v] = wnext[v]
          BY <1>1, <3>2
        <4>2. /\ \A k \in DOMAIN wjobs[v] : Outcomes(jobs[wjobs[v][k]]) # {} <=> k = 1 /\ wpc[v] = "ack"
              /\ wpc[v] = "run" => wnext[v] \in 1..Len(Script)
              /\ wpc[v] = "ack" /\ wnext[v] > Len(Script) =>
                   \A k \in Outcomes(jobs[Head(wjobs[v])]) : events[k].status = "succeeded"
          BY DEF OutcomesPend
        <4> QED BY <4>1, <4>2
      <3> QED BY <3>1, <3>2
    <2>3. ASSUME NEW v \in Workers
          PROVE  /\ \A k \in DOMAIN wjobs'[v] : Outcomes(jobs[wjobs[v][k]])' # {} <=> k = 1 /\ wpc'[v] = "ack"
                 /\ wpc'[v] = "ack" /\ wnext'[v] > Len(Script) =>
                      \A k \in Outcomes(jobs[Head(wjobs[v])])' : events'[k].status = "succeeded"
      BY <2>2 DEF Outcomes, Positions
    <2>4. \A k \in Positions' : \E j \in 1..jobsRead' : jobs'[j] = events'[k].run
      BY <2>1 DEF Positions
    <2> QED BY <2>2, <2>3, <2>4 DEF OutcomesPend
  <1>8. HandlersKnow' /\ DoneIsLast'
    BY DEF HandlersKnow, Handling, consumers, DoneIsLast, Positions
  <1>9. AcksAreHonest'
    <2>1. \A j \in jobsAcked' : \E k \in Positions : events[k].run = jobs[j] /\ events[k].kind = "done"
      BY DEF AcksAreHonest, Outcomes
    <2> QED BY <2>1 DEF AcksAreHonest, Positions
  <1> QED BY <1>2, <1>3, <1>6, <1>7, <1>8, <1>9

\* A worker without a batch.
LEMMA WorkerIdles ==
  ASSUME TransportSound, NEW w \in Workers, NEW place \in {"off", "poll"},
         wpc' = [wpc EXCEPT ![w] = place], DOMAIN wjobs' = Workers, wjobs'[w] = <<>>,
         \A v \in Workers \ {w} : wjobs'[v] = wjobs[v],
         UNCHANGED <<status, step, asked, jobs, jobsAcked, events, eventsRead, eventsAcked, published,
                     wnext, consumers>>,
         jobsRead' \in NoGroup..Len(jobs), jobsRead <= jobsRead', faults' \in 0..MaxFaults,
         place # "off" => jobsRead' # NoGroup
  PROVE  TransportSound'
  <1> USE DEF TransportSound
  <1> DEFINE batch == <<>>
  <1>1. batch = <<>> /\ batch \in Seq(1..Len(jobs)) /\ DOMAIN batch = {} /\ ToSet(batch) = {}
    <2>1. DOMAIN batch = {}
      OBVIOUS
    <2> QED BY <2>1 DEF ToSet
  <1> HIDE DEF batch
  <1>2. wnext' \in [Workers -> Nat] /\ jobsAcked' \subseteq 1..Len(jobs)
    BY DEF TypeOK
  <1>3. \A v \in Workers \ {w} : ToSet(wjobs[v]) \cap ToSet(batch) = {}
    BY <1>1
  <1> QED BY <1>1, <1>2, <1>3, WorkerMoves

LEMMA StartWorkerKeeps ==
  ASSUME TransportSound, NEW w \in Workers, StartWorker(w)
  PROVE  TransportSound'
  <1> USE DEF TransportSound
  <1>1. wpc[w] = "off" /\ wjobs[w] = <<>>
    BY DEF StartWorker, BatchesApart
  <1>2. jobsRead' \in NoGroup..Len(jobs) /\ jobsRead <= jobsRead' /\ jobsRead' # NoGroup
    <2>1. Len(jobs) \in Nat /\ jobsRead \in NoGroup..Len(jobs)
      BY DEF TypeOK
    <2> QED BY <2>1 DEF StartWorker, GroupAfterStart, NoGroup
  <1>3. wpc' = [wpc EXCEPT ![w] = "poll"]
        /\ UNCHANGED <<status, step, asked, jobs, jobsAcked, events, eventsRead, eventsAcked,
                       published, wjobs, wnext, consumers, faults>>
    BY DEF StartWorker
  <1> QED BY <1>1, <1>2, <1>3, WorkerIdles DEF TypeOK

LEMMA ReadJobsKeeps ==
  ASSUME TransportSound, NEW w \in Workers, ReadJobs(w)
  PROVE  TransportSound'
  <1> USE DEF TransportSound
  <1> DEFINE batch == Handed(jobsRead, jobs, WorkerCount)
  <1>1. /\ wpc[w] = "poll" /\ batch # <<>> /\ jobsRead' = jobsRead + Len(batch)
        /\ wjobs' = [wjobs EXCEPT ![w] = batch] /\ wnext' = [wnext EXCEPT ![w] = 1]
        /\ wpc' = [wpc EXCEPT ![w] = "run"]
        /\ UNCHANGED <<status, step, asked, jobs, jobsAcked, events, eventsRead, eventsAcked,
                       published, consumers, faults>>
    BY DEF ReadJobs
  <1>2. jobsRead \in 0..Len(jobs) /\ jobs \in Seq(Runs) /\ Len(jobs) \in Nat /\ DOMAIN jobs = 1..Len(jobs)
    BY <1>1 DEF BatchesApart, TypeOK, NoGroup
  <1>3. /\ batch \in Seq(1..Len(jobs)) /\ jobsRead + Len(batch) \in jobsRead..Len(jobs)
        /\ \A j \in ToSet(batch) : jobsRead < j /\ j <= jobsRead + Len(batch) /\ j \in Nat
        /\ \A j, k \in DOMAIN batch : batch[j] = batch[k] => j = k
    BY <1>2, HandedIsNew, Bounds
  <1>4. ToSet(batch) \subseteq DOMAIN jobs
    BY <1>2, <1>3 DEF ToSet
  <1> HIDE DEF batch
  <1>5. ASSUME NEW j \in ToSet(batch) PROVE Outcomes(jobs[j]) = {}
    <2> SUFFICES ASSUME NEW k \in Outcomes(jobs[j]) PROVE FALSE
      OBVIOUS
    <2>1. PICK i \in 1..jobsRead : jobs[i] = jobs[j]
      BY DEF Outcomes, OutcomesPend
    <2>2. i \in DOMAIN jobs /\ i # j
      BY <1>2, <1>3
    <2> QED BY <1>4, <2>1, <2>2 DEF JobsOnce
  <1>6. ASSUME NEW v \in Workers PROVE ToSet(wjobs[v]) \cap ToSet(batch) = {}
    <2> SUFFICES ASSUME NEW j \in ToSet(wjobs[v]), j \in ToSet(batch) PROVE FALSE
      OBVIOUS
    <2>1. j <= jobsRead
      BY DEF BatchesApart
    <2> QED BY <1>2, <1>3, <2>1
  <1>7. jobsRead' \in NoGroup..Len(jobs) /\ jobsRead <= jobsRead' /\ jobsRead' # NoGroup
    BY <1>1, <1>2, <1>3 DEF NoGroup
  <1>8. 1 \in 1..Len(Script)
    <2>1. Len(Script) \in Nat \ {0}
      BY ScriptEnds
    <2> QED BY <2>1
  <1>9. DOMAIN wjobs' = Workers /\ wjobs'[w] = batch /\ \A v \in Workers \ {w} : wjobs'[v] = wjobs[v]
    BY <1>1 DEF TypeOK
  <1>10. wnext' \in [Workers -> Nat] /\ wnext'[w] = 1 /\ \A v \in Workers \ {w} : wnext'[v] = wnext[v]
    BY <1>1 DEF TypeOK
  <1> QED BY <1>1, <1>3, <1>5, <1>6, <1>7, <1>8, <1>9, <1>10, WorkerMoves DEF TypeOK

LEMMA AckJobKeeps ==
  ASSUME TransportSound, NEW w \in Workers, AckJob(w)
  PROVE  TransportSound'
  <1> USE DEF TransportSound
  <1> DEFINE batch == Tail(wjobs[w])
  <1>1. /\ wpc[w] = "ack" /\ jobsAcked' = jobsAcked \cup {Head(wjobs[w])}
        /\ wpc' = [wpc EXCEPT ![w] = NextPlace(wjobs[w], "run")]
        /\ wjobs' = [wjobs EXCEPT ![w] = batch] /\ wnext' = [wnext EXCEPT ![w] = 1]
        /\ UNCHANGED <<status, step, asked, jobs, jobsRead, events, eventsRead, eventsAcked,
                       published, consumers, faults>>
    BY DEF AckJob, Acked
  <1>2. wjobs[w] # <<>> /\ wjobs[w] \in Seq(1..Len(jobs)) /\ jobsRead # NoGroup
    BY <1>1 DEF BatchesApart, TypeOK
  <1>3. /\ Head(wjobs[w]) \in 1..Len(jobs) /\ Head(wjobs[w]) = wjobs[w][1] /\ 1 \in DOMAIN wjobs[w]
        /\ batch \in Seq(1..Len(jobs)) /\ ToSet(batch) \subseteq ToSet(wjobs[w])
        /\ (batch # <<>> <=> Len(wjobs[w]) > 1)
        /\ \A k \in DOMAIN batch : k + 1 \in DOMAIN wjobs[w] /\ k + 1 # 1 /\ batch[k] = wjobs[w][k + 1] /\ k \in Nat
    BY <1>2, TailOfBatch
  <1> HIDE DEF batch
  <1>4. PICK place \in {"poll", "run"} :
          wpc' = [wpc EXCEPT ![w] = place] /\ (place = "run" <=> batch # <<>>)
    BY <1>1, <1>3 DEF NextPlace
  <1>5. \A j \in ToSet(batch) : j <= jobsRead
    BY <1>3 DEF BatchesApart
  <1>6. \A k \in DOMAIN wjobs[w] : Outcomes(jobs[wjobs[w][k]]) # {} <=> k = 1
    BY <1>1 DEF OutcomesPend
  <1>7. \A k \in DOMAIN batch : Outcomes(jobs[batch[k]]) = {}
    BY <1>3, <1>6
  <1>8. \A j \in ToSet(batch) : Outcomes(jobs[j]) = {}
    BY <1>7 DEF ToSet
  <1>9. \A j, k \in DOMAIN batch : batch[j] = batch[k] => j = k
    <2> SUFFICES ASSUME NEW j \in DOMAIN batch, NEW k \in DOMAIN batch, batch[j] = batch[k] PROVE j = k
      OBVIOUS
    <2>1. j + 1 = k + 1
      BY <1>3 DEF BatchesApart
    <2> QED BY <1>3, <2>1
  <1>10. \A v \in Workers \ {w} : ToSet(wjobs[v]) \cap ToSet(batch) = {}
    BY <1>3 DEF BatchesApart
  <1>11. \A j \in jobsAcked' \ jobsAcked : Outcomes(jobs[j]) # {}
    BY <1>1, <1>3, <1>6
  <1>12. jobsAcked' \subseteq 1..Len(jobs)
    BY <1>1, <1>3 DEF TypeOK
  <1>13. 1 \in 1..Len(Script)
    <2>1. Len(Script) \in Nat \ {0}
      BY ScriptEnds
    <2> QED BY <2>1
  <1>14. DOMAIN wjobs' = Workers /\ wjobs'[w] = batch /\ \A v \in Workers \ {w} : wjobs'[v] = wjobs[v]
    BY <1>1 DEF TypeOK
  <1>15. wnext' \in [Workers -> Nat] /\ wnext'[w] = 1 /\ \A v \in Workers \ {w} : wnext'[v] = wnext[v]
    BY <1>1 DEF TypeOK
  <1>16. jobsRead' \in NoGroup..Len(jobs) /\ jobsRead <= jobsRead' /\ jobsRead' = jobsRead
    BY <1>1 DEF TypeOK, NoGroup
  <1>17. \A j \in ToSet(batch) : j <= jobsRead' /\ Outcomes(jobs[j]) = {}
    BY <1>5, <1>8, <1>16
  <1>18. /\ UNCHANGED <<status, step, asked, jobs, events, eventsRead, eventsAcked, published, consumers>>
         /\ faults' \in 0..MaxFaults /\ jobsRead' # NoGroup /\ batch \in Seq(1..Len(jobs))
    BY <1>1, <1>2, <1>3, <1>16 DEF TypeOK
  <1>19. /\ place \in {"off", "poll", "run"} /\ wpc' = [wpc EXCEPT ![w] = place]
         /\ place = "run" <=> batch # <<>>
         /\ place # "off" => jobsRead' # NoGroup
         /\ place = "run" => wnext'[w] \in 1..Len(Script)
    BY <1>4, <1>13, <1>15, <1>18
  <1>20. jobsRead' \in NoGroup..Len(jobs) /\ jobsRead <= jobsRead'
    BY <1>16
  <1>21. wnext' \in [Workers -> Nat] /\ \A v \in Workers \ {w} : wnext'[v] = wnext[v]
    BY <1>15
  <1> QED BY <1>9, <1>10, <1>11, <1>12, <1>14, <1>17, <1>18, <1>19, <1>20, <1>21, WorkerMoves

LEMMA WorkerLosesBatchKeeps ==
  ASSUME TransportSound, NEW w \in Workers, WorkerLosesBatch(w)
  PROVE  TransportSound'
  <1> USE DEF TransportSound
  <1>1. PICK place \in {"poll", "off"} : wpc' = [wpc EXCEPT ![w] = place]
    BY DEF WorkerLosesBatch
  <1>2. faults' \in 0..MaxFaults
    BY Bounds DEF WorkerLosesBatch, Fault, TypeOK
  <1>3. DOMAIN wjobs' = Workers /\ wjobs'[w] = <<>> /\ \A v \in Workers \ {w} : wjobs'[v] = wjobs[v]
    BY DEF WorkerLosesBatch, TypeOK
  <1>4. jobsRead \in NoGroup..Len(jobs) /\ jobsRead <= jobsRead /\ jobsRead # NoGroup
    BY DEF WorkerLosesBatch, BatchesApart, TypeOK, NoGroup
  <1>5. UNCHANGED <<status, step, asked, jobs, jobsRead, jobsAcked, events, eventsRead, eventsAcked,
                   published, wnext, consumers>>
    BY DEF WorkerLosesBatch, streams
  <1> QED BY <1>1, <1>2, <1>3, <1>4, <1>5, WorkerIdles

\* What an emitted event has to show.
LEMMA Report ==
  ASSUME TransportSound, NEW w \in Workers, wpc[w] \in {"run", "ack"}, NEW e \in Event,
         e.run = jobs[Head(wjobs[w])], events' = Append(events, e), NEW place \in {"run", "ack"},
         wpc' = [wpc EXCEPT ![w] = place], wnext' \in [Workers -> Nat],
         \A v \in Workers \ {w} : wnext'[v] = wnext[v],
         UNCHANGED <<status, step, asked, jobs, jobsRead, jobsAcked, eventsRead, eventsAcked,
                     published, wjobs, consumers>>,
         faults' \in 0..MaxFaults, e.kind = "done" <=> place = "ack",
         place = "run" => wnext'[w] \in 1..Len(Script),
         wpc[w] = "ack" => e = Failure(e.run) /\ wnext[w] > Len(Script),
         place = "ack" /\ wnext'[w] > Len(Script) => wpc[w] = "run" /\ e.status = "succeeded"
  PROVE  TransportSound'
  <1> USE DEF TransportSound
  <1> DEFINE n == Len(events) + 1
             job == Head(wjobs[w])
  <1>1. wpc'[w] = place /\ \A v \in Workers \ {w} : wpc'[v] = wpc[v]
    BY DEF TypeOK
  <1>2. /\ events \in Seq(Event) /\ events' \in Seq(Event) /\ Len(events) \in Nat /\ Len(events') = n
        /\ events'[n] = e /\ \A k \in Positions : events'[k] = events[k]
    BY AppendGrows DEF TypeOK, Positions
  <1>3. n \notin Positions /\ Positions' = Positions \cup {n} /\ n \in Nat
        /\ \A k \in Positions : k < n /\ k \in Nat
    <2>1. 1..n = (1..Len(events)) \cup {n} /\ n \notin 1..Len(events)
      BY <1>2
    <2> QED BY <1>2, <2>1 DEF Positions
  <1> HIDE DEF n
  <1>4. wjobs[w] # <<>> /\ wjobs[w] \in Seq(1..Len(jobs)) /\ jobsRead # NoGroup
    BY DEF BatchesApart, TypeOK
  <1>5. job \in 1..Len(jobs) /\ job \in ToSet(wjobs[w]) /\ job = wjobs[w][1] /\ 1 \in DOMAIN wjobs[w]
    BY <1>4, TailOfBatch
  <1>6. job \in 1..jobsRead /\ DOMAIN jobs = 1..Len(jobs)
    BY <1>4, <1>5 DEF BatchesApart, TypeOK, NoGroup
  <1>7. /\ \A q : q # e.run => Outcomes(q)' = Outcomes(q)
        /\ e.kind = "done" => Outcomes(e.run)' = Outcomes(e.run) \cup {n}
        /\ e.kind # "done" => Outcomes(e.run)' = Outcomes(e.run)
    <2>1. ASSUME NEW q
          PROVE  Outcomes(q)' = {k \in Positions \cup {n} : events'[k].run = q /\ events'[k].kind = "done"}
      BY <1>3 DEF Outcomes
    <2>2. ASSUME NEW q
          PROVE  Outcomes(q) = {k \in Positions : events'[k].run = q /\ events'[k].kind = "done"}
      BY <1>2 DEF Outcomes
    <2>3. \A q : q # e.run => Outcomes(q)' = Outcomes(q)
      BY <1>2, <2>1, <2>2
    <2>4. e.kind = "done" => Outcomes(e.run)' = Outcomes(e.run) \cup {n}
      BY <1>2, <2>1, <2>2
    <2>5. e.kind # "done" => Outcomes(e.run)' = Outcomes(e.run)
      BY <1>2, <2>1, <2>2
    <2> QED BY <2>3, <2>4, <2>5
  <1>8. /\ wpc[w] = "run" => Outcomes(e.run) = {}
        /\ wpc[w] = "ack" => e = Failure(e.run) /\ e.kind = "done"
                            /\ \A k \in Outcomes(e.run) : events[k].status = "succeeded"
    <2>1. Outcomes(jobs[job]) # {} <=> wpc[w] = "ack"
      <3>1. \A k \in DOMAIN wjobs[w] : Outcomes(jobs[wjobs[w][k]]) # {} <=> k = 1 /\ wpc[w] = "ack"
        BY Zenon DEF OutcomesPend
      <3> QED BY Zenon, <1>5, <3>1
    <2>2. wpc[w] = "ack" => \A k \in Outcomes(jobs[job]) : events[k].status = "succeeded"
      BY DEF OutcomesPend
    <2>3. wpc[w] = "ack" => e.kind = "done"
      BY EventKinds
    <2> QED BY <2>1, <2>2, <2>3
  <1>9. TypeOK'
    <2>1. wpc' \in [Workers -> {"off", "poll", "run", "ack"}]
      BY DEF TypeOK
    <2>2. eventsRead' \in NoGroup..Len(events') /\ eventsAcked' \subseteq Positions' /\ published' \subseteq Positions'
      BY <1>2, <1>3 DEF TypeOK, NoGroup, n
    <2>3. ASSUME NEW c \in Consumers PROVE cevents'[c] \in Seq(Positions)'
      <3>1. cevents[c] \in Seq(1..Len(events)) /\ cevents' = cevents
        BY DEF TypeOK, Positions, consumers
      <3>2. Len(events') \in Nat /\ Len(events) <= Len(events')
        BY <1>2 DEF n
      <3>3. cevents[c] \in Seq(1..Len(events'))
        BY <1>2, <3>1, <3>2, SeqGrows
      <3> QED BY <3>1, <3>3 DEF Positions
    <2> QED BY <1>2, <2>1, <2>2, <2>3 DEF TypeOK, consumers
  <1>10. JobsOnce' /\ HandlersKnow'
    BY DEF JobsOnce, HandlersKnow, Handling, consumers
  <1>11. BatchesApart'
    <2>1. \A v \in Workers :
            (wpc'[v] \in {"run", "ack"} <=> wpc[v] \in {"run", "ack"}) /\ (wpc'[v] # "off" <=> wpc[v] # "off")
      BY <1>1
    <2> QED BY <2>1 DEF BatchesApart
  <1>12. OutcomesPend'
    <2>1. ASSUME NEW k \in Positions' PROVE \E j \in 1..jobsRead' : jobs'[j] = events'[k].run
      <3>1. CASE k \in Positions
        <4>1. PICK j \in 1..jobsRead : jobs[j] = events[k].run
          BY <3>1 DEF OutcomesPend
        <4> QED BY <1>2, <3>1, <4>1
      <3>2. CASE k = n
        BY <1>2, <1>6, <3>2
      <3> QED BY <1>3, <3>1, <3>2
    <2>2. ASSUME NEW v \in Workers, NEW k \in DOMAIN wjobs[v], v # w \/ k # 1
          PROVE  jobs[wjobs[v][k]] # e.run
      <3>1. wjobs[v][k] \in ToSet(wjobs[v]) /\ wjobs[v][k] \in 1..Len(jobs)
        <4>1. wjobs[v] \in Seq(1..Len(jobs))
          BY Zenon DEF TypeOK
        <4> QED BY <4>1 DEF ToSet
      <3>2. wjobs[v][k] # job
        <4>1. CASE v # w
          BY <1>5, <3>1, <4>1 DEF BatchesApart
        <4>2. CASE v = w
          BY <1>5, <2>2, <4>2 DEF BatchesApart
        <4> QED BY <4>1, <4>2
      <3> QED BY <1>5, <1>6, <3>1, <3>2 DEF JobsOnce
    <2>3. ASSUME NEW v \in Workers, NEW k \in DOMAIN wjobs[v]
          PROVE  Outcomes(jobs[wjobs[v][k]])' # {} <=> k = 1 /\ wpc'[v] = "ack"
      <3>1. CASE v # w \/ k # 1
        <4>1. Outcomes(jobs[wjobs[v][k]])' = Outcomes(jobs[wjobs[v][k]])
          <5>1. jobs[wjobs[v][k]] # e.run
            BY <2>2, <3>1
          <5>2. ASSUME NEW q, q # e.run PROVE Outcomes(q)' = Outcomes(q)
            BY <1>7, <5>2
          <5> QED BY <1>2, <1>3, <5>1 DEF Outcomes
        <4>2. Outcomes(jobs[wjobs[v][k]]) # {} <=> k = 1 /\ wpc[v] = "ack"
          BY DEF OutcomesPend
        <4>3. k = 1 => wpc'[v] = wpc[v]
          BY <1>1, <3>1
        <4> QED BY <4>1, <4>2, <4>3
      <3>2. CASE v = w /\ k = 1
        <4>1. Outcomes(jobs[wjobs[v][k]])' = Outcomes(e.run)'
          <5>1. wjobs'[v][k] = job /\ jobs'[job] = e.run
            BY Zenon, <1>5, <3>2
          <5> QED BY Zenon, <5>1 DEF Outcomes
        <4>2. Outcomes(e.run)' # {} <=> place = "ack"
          BY <1>7, <1>8
        <4> QED BY <1>1, <3>2, <4>1, <4>2
      <3> QED BY <3>1, <3>2
    <2>4. ASSUME NEW v \in Workers, wpc'[v] = "run" PROVE wnext'[v] \in 1..Len(Script)
      BY <1>1, <2>4 DEF OutcomesPend
    <2>5. ASSUME NEW v \in Workers, wpc'[v] = "ack", wnext'[v] > Len(Script),
                 NEW k \in Outcomes(jobs[Head(wjobs[v])])'
          PROVE  events'[k].status = "succeeded"
      <3>1. k \in Positions' /\ events'[k].run = jobs[Head(wjobs[v])] /\ events'[k].kind = "done"
        BY <2>5 DEF Outcomes
      <3>2. CASE v = w
        <4>1. wpc[w] = "run" /\ e.status = "succeeded" /\ Outcomes(e.run) = {}
          BY <1>1, <1>8, <2>5, <3>2
        <4>2. k \notin Positions
          BY <1>2, <3>1, <3>2, <4>1 DEF Outcomes
        <4> QED BY <1>2, <1>3, <3>1, <4>1, <4>2
      <3>3. CASE v # w
        <4>1. wpc[v] = "ack" /\ wnext[v] > Len(Script) /\ wjobs[v] # <<>> /\ wjobs[v] \in Seq(1..Len(jobs))
          BY <1>1, <2>5, <3>3 DEF BatchesApart, TypeOK
        <4>2. Head(wjobs[v]) = wjobs[v][1] /\ 1 \in DOMAIN wjobs[v]
          BY <4>1, TailOfBatch
        <4>3. k # n
          BY <1>2, <2>2, <3>1, <3>3, <4>2
        <4>4. k \in Positions /\ k \in Outcomes(jobs[Head(wjobs[v])])
          BY <1>2, <1>3, <3>1, <4>3 DEF Outcomes
        <4>5. events[k].status = "succeeded"
          BY <4>1, <4>4 DEF OutcomesPend
        <4> QED BY <1>2, <4>4, <4>5
      <3> QED BY <3>2, <3>3
    <2> QED BY <2>1, <2>3, <2>4, <2>5 DEF OutcomesPend
  <1>13. DoneIsLast'
    <2> SUFFICES ASSUME NEW j \in Positions', NEW k \in Positions',
                        events'[j].run = events'[k].run, events'[j].kind = "done", j < k
                 PROVE  events'[j].status = "succeeded" /\ events'[k] = Failure(events'[j].run)
      BY DEF DoneIsLast
    <2>1. j \in Positions
      BY <1>3
    <2>2. CASE k \in Positions
      BY <1>2, <2>1, <2>2 DEF DoneIsLast
    <2>3. CASE k = n
      <3>1. j \in Outcomes(e.run)
        BY <1>2, <2>1, <2>3 DEF Outcomes
      <3> QED BY <1>2, <1>8, <2>1, <2>3, <3>1
    <2> QED BY <1>3, <2>2, <2>3
  <1>14. AcksAreHonest'
    <2>1. ASSUME NEW j \in jobsAcked PROVE \E k \in Positions' : events'[k].run = jobs[j] /\ events'[k].kind = "done"
      <3>1. PICK k \in Positions : events[k].run = jobs[j] /\ events[k].kind = "done"
        BY DEF AcksAreHonest
      <3> QED BY <1>2, <1>3, <3>1
    <2> QED BY <2>1 DEF AcksAreHonest
  <1> QED BY <1>9, <1>10, <1>11, <1>12, <1>13, <1>14

LEMMA ReportsKeep ==
  ASSUME TransportSound, NEW w \in Workers, Emit(w) \/ GraphFails(w) \/ SuccessDoubted(w)
  PROVE  TransportSound'
  <1> USE DEF TransportSound
  <1> DEFINE r == jobs[Head(wjobs[w])]
  <1>1. r \in Runs
    <2>1. wjobs[w] # <<>> /\ wjobs[w] \in Seq(1..Len(jobs)) /\ jobs \in Seq(Runs)
      BY DEF Emit, GraphFails, SuccessDoubted, BatchesApart, TypeOK
    <2>2. Head(wjobs[w]) \in 1..Len(jobs)
      BY <2>1, TailOfBatch
    <2> QED BY <2>1, <2>2
  <1> HIDE DEF r
  <1>2. Len(Script) \in Nat \ {0}
    BY ScriptEnds
  <1>3. CASE Emit(w)
    <2> DEFINE e == EventOf(r, Script[wnext[w]])
               place == IF wnext[w] = Len(Script) THEN "ack" ELSE "run"
    <2>1. /\ wpc[w] = "run" /\ events' = Append(events, e) /\ wnext' = [wnext EXCEPT ![w] = @ + 1]
          /\ wpc' = [wpc EXCEPT ![w] = place]
          /\ UNCHANGED <<status, step, asked, jobs, jobsRead, jobsAcked, eventsRead, eventsAcked,
                         published, wjobs, consumers, faults>>
      BY <1>3 DEF Emit, r
    <2>2. wnext[w] \in 1..Len(Script)
      BY <2>1 DEF OutcomesPend
    <2>3. e \in Event /\ e.run = r
          /\ IF wnext[w] = Len(Script) THEN e.kind = "done" /\ e.status = "succeeded" ELSE e.kind = "step"
      BY <1>1, <2>2, EventKinds
    <2> HIDE DEF e
    <2>4. wnext' \in [Workers -> Nat] /\ wnext'[w] = wnext[w] + 1 /\ \A v \in Workers \ {w} : wnext'[v] = wnext[v]
      BY <2>1 DEF TypeOK
    <2>5. place \in {"run", "ack"} /\ (e.kind = "done" <=> place = "ack")
      BY <2>3
    <2>6. place = "run" => wnext'[w] \in 1..Len(Script)
      BY <1>2, <2>2, <2>4
    <2>7. place = "ack" => e.status = "succeeded"
      BY <2>3
    <2> HIDE DEF place
    <2>8. faults' \in 0..MaxFaults /\ wpc[w] # "ack" /\ e.run = jobs[Head(wjobs[w])]
      BY <2>1, <2>3 DEF TypeOK, r
    <2> QED BY <2>1, <2>3, <2>4, <2>5, <2>6, <2>7, <2>8, Report
  <1>4. CASE GraphFails(w) \/ SuccessDoubted(w)
    <2> DEFINE e == Failure(r)
    <2>1. /\ events' = Append(events, e) /\ wpc' = [wpc EXCEPT ![w] = "ack"]
          /\ UNCHANGED <<status, step, asked, jobs, jobsRead, jobsAcked, eventsRead, eventsAcked,
                         published, wjobs, consumers>>
      BY <1>4 DEF GraphFails, SuccessDoubted, TypeOK, r
    <2>2. e \in Event /\ e.run = r /\ e.kind = "done" /\ e = Failure(e.run)
      BY <1>1, EventKinds
    <2> HIDE DEF e
    <2>3. wnext' \in [Workers -> Nat] /\ \A v \in Workers \ {w} : wnext'[v] = wnext[v]
      <3>1. wnext \in [Workers -> Nat]
        BY DEF TypeOK
      <3>2. wnext' = wnext \/ wnext' = [wnext EXCEPT ![w] = 1]
        BY <1>4 DEF GraphFails, SuccessDoubted
      <3> QED BY <3>1, <3>2
    <2>4. wpc[w] \in {"run", "ack"} /\ (wpc[w] = "ack" => wnext[w] > Len(Script)) /\ ~(wnext'[w] > Len(Script))
      <3>1. CASE GraphFails(w)
        <4>1. wnext[w] \in 1..Len(Script)
          BY <3>1 DEF GraphFails, OutcomesPend
        <4> QED BY <1>2, <3>1, <4>1 DEF GraphFails
      <3>2. CASE SuccessDoubted(w)
        BY <1>2, <3>2 DEF SuccessDoubted, TypeOK
      <3> QED BY <1>4, <3>1, <3>2
    <2>5. faults' \in 0..MaxFaults /\ e.run = jobs[Head(wjobs[w])]
      BY <1>4, <2>2, Bounds DEF GraphFails, SuccessDoubted, Fault, TypeOK, r
    <2> QED BY <2>1, <2>2, <2>3, <2>4, <2>5, Report
  <1> QED BY <1>3, <1>4

-----------------------------------------------------------------------------

LEMMA InvNext == TransportSound /\ [Next]_vars => TransportSound'
  <1> SUFFICES ASSUME TransportSound, [Next]_vars PROVE TransportSound'
    OBVIOUS
  <1>1. CASE \E r \in Runs : SaveRun(r) \/ EnqueueJob(r) \/ EnqueueFails(r)
    BY <1>1, RequestKeeps
  <1>2. CASE \E w \in Workers : WorkerStep(w) \/ SuccessDoubted(w) \/ WorkerLosesBatch(w)
    BY <1>2, StartWorkerKeeps, ReadJobsKeeps, ReportsKeep, AckJobKeeps, WorkerLosesBatchKeeps DEF WorkerStep
  <1>3. CASE \E c \in Consumers : ConsumerStep(c) \/ ConsumerNeverStarts(c)
                                  \/ HandlerFails(c) \/ ConsumerRestarts(c)
    BY <1>3, StartConsumerKeeps, ReadEventsKeeps, HandlerKeeps, ConsumerRestartsKeeps DEF ConsumerStep
  <1>4. CASE UNCHANGED vars
    <2>1. UNCHANGED <<status, step, asked, jobs, jobsRead, jobsAcked, events, eventsRead, eventsAcked,
                      published, wpc, wjobs, wnext, cpc, cevents, faults>>
      BY <1>4 DEF vars, streams, workers, consumers
    <2>2. TypeOK' /\ JobsOnce' /\ BatchesApart'
      BY <2>1 DEF TransportSound, TypeOK, JobsOnce, BatchesApart, Positions
    <2>3. OutcomesPend'
      BY <2>1 DEF TransportSound, OutcomesPend, Outcomes, Positions
    <2>4. HandlersKnow' /\ DoneIsLast' /\ AcksAreHonest'
      BY <2>1 DEF TransportSound, HandlersKnow, Handling, DoneIsLast, AcksAreHonest, Positions
    <2> QED BY <2>2, <2>3, <2>4 DEF TransportSound
  <1> QED BY <1>1, <1>2, <1>3, <1>4 DEF Next, Quiet

\* Whatever crashes or loses its connection, and however many workers and
\* backends share the streams: a job of create_run is handed to one worker and
\* reports one outcome, after which at most a "failed" follows that doubts a
\* "succeeded"; what worker.py acknowledges has reported, and what streams.py
\* acknowledges was relayed.
THEOREM TransportStaysSound == Spec => []TransportSound
  <1>1. Init => TransportSound
    BY InvInit
  <1>2. TransportSound /\ [Next]_vars => TransportSound'
    BY InvNext
  <1> QED BY <1>1, <1>2, PTL DEF Spec

-----------------------------------------------------------------------------
(* What one backend saves and relays. *)

\* One process consumes the events, as docker-compose.yml starts it.
OneBackend == \A c, d \in Consumers : c = d

\* A run reports each node's start before its end, once, as far as its worker
\* has come.
SameStep(j, k) ==
  /\ events[j].run = events[k].run /\ events[j].node = events[k].node
  /\ events[j].kind = "step" /\ events[k].kind = "step"
ReportedUpTo(k, w) == \E n \in 1..(wnext[w] - 1) : events[k] = EventOf(events[k].run, Script[n])
ScriptFollowed ==
  /\ \A j, k \in Positions : SameStep(j, k) /\ j < k => events[k].status = "finished"
  /\ \A w \in Workers : \A i \in DOMAIN wjobs[w] : \A k \in Positions :
       events[k].run = jobs[wjobs[w][i]] => i = 1 /\ (wpc[w] = "ack" \/ ReportedUpTo(k, w))

\* An event is in the rows, or a later one of its step or run is.
Saved(k) ==
  IF events[k].kind = "done" THEN status[events[k].run] \in Ended
  ELSE Rank(step[events[k].run][events[k].node]) >= Rank(events[k].status)

\* A consumer handles events in the order of the stream, decides on what the
\* run's row still says, and relays what is saved.
InOrder(c) ==
  \A i, j \in DOMAIN cevents[c] : cevents[c][i] <= eventsRead /\ (i < j => cevents[c][i] < cevents[c][j])
Relays(c) == cpc[c] \in {"publish", "ack"}
HandlerSound(c) ==
  /\ InOrder(c) /\ c \in DOMAIN crun
  /\ cpc[c] \in {"find", "save"} /\ crun[c] = "queued" => status[Current(c).run] = "queued"
  /\ Relays(c) => Saved(Head(cevents[c]))

\* What a step's row says comes from an event that was handled.
Behind(k, c) ==
  k <= eventsRead /\ \A i \in DOMAIN cevents[c] : k < cevents[c][i] \/ (Relays(c) /\ k = cevents[c][1])
StepsReported ==
  \A r \in Runs, n \in Nodes : step[r][n] # "absent" =>
    \E k \in Positions :
      /\ events[k].kind = "step" /\ events[k].run = r /\ events[k].node = n /\ events[k].status = step[r][n]
      /\ \A c \in Consumers : Behind(k, c)

RelaySound ==
  TransportSound /\ ScriptFollowed /\ (\A c \in Consumers : HandlerSound(c)) /\ StepsReported /\ RelayedIsSaved

\* Of two events of a node the second is its end.
LEMMA ScriptOrder ==
  ASSUME NEW m \in 1..Len(Script), NEW n \in 1..Len(Script), m < n,
         Script[m].kind = "step", Script[n].kind = "step", Script[m].node = Script[n].node
  PROVE  Script[n].status = "finished"
  <1>1. Len(Script) = 2 * NodeCount + 1 /\ NodeCount \in Nat
    BY Bounds DEF Script
  <1>2. m # Len(Script) /\ n # Len(Script)
    <2>1. Script[Len(Script)] = [kind |-> "done", node |-> 0, status |-> "succeeded"]
      BY ScriptEnds
    <2>2. Script[Len(Script)].kind = "done"
      BY <2>1
    <2> QED BY <2>2
  <1>3. ASSUME NEW k \in 1..Len(Script), k # Len(Script)
        PROVE  Script[k].node = (k + 1) \div 2 /\ Script[k].status = IF k % 2 = 1 THEN "started" ELSE "finished"
    <2>1. k \in 1..(2 * NodeCount + 1) /\ ~(k > 2 * NodeCount)
      BY <1>1, <1>3
    <2>2. Script[k] = [kind |-> "step", node |-> (k + 1) \div 2,
                       status |-> IF k % 2 = 1 THEN "started" ELSE "finished"]
      BY <2>1 DEF Script
    <2> QED BY <2>2
  <1>4. m \in Nat /\ n \in Nat /\ (m + 1) \div 2 = (n + 1) \div 2
    BY <1>1, <1>2, <1>3
  <1>5. n % 2 # 1
    <2> DEFINE q == (m + 1) \div 2
    <2>1. \A k \in Nat : k \div 2 \in Nat /\ 2 * (k \div 2) <= k /\ k < 2 * (k \div 2) + 2
      OBVIOUS
    <2>2. q \in Nat /\ 2 * q <= m + 1 /\ n + 1 < 2 * q + 2
      BY <1>4, <2>1
    <2> HIDE DEF q
    <2>3. n = 2 * q
      BY <1>4, <2>2
    <2> QED BY <2>2, <2>3
  <1> QED BY <1>2, <1>3, <1>5

\* The jobs the workers hold are of different runs.
LEMMA JobsApart ==
  ASSUME TransportSound, NEW w \in Workers, wpc[w] \in {"run", "ack"},
         NEW v \in Workers, NEW i \in DOMAIN wjobs[v], v # w \/ i # 1
  PROVE  jobs[wjobs[v][i]] # jobs[Head(wjobs[w])]
  <1> USE DEF TransportSound
  <1>1. wjobs[w] # <<>> /\ wjobs[w] \in Seq(1..Len(jobs)) /\ jobs \in Seq(Runs)
    BY DEF BatchesApart, TypeOK
  <1>2. /\ Head(wjobs[w]) \in 1..Len(jobs) /\ Head(wjobs[w]) \in ToSet(wjobs[w])
        /\ Head(wjobs[w]) = wjobs[w][1] /\ 1 \in DOMAIN wjobs[w] /\ DOMAIN jobs = 1..Len(jobs)
    BY <1>1, TailOfBatch
  <1>3. wjobs[v][i] \in ToSet(wjobs[v]) /\ wjobs[v][i] \in 1..Len(jobs)
    BY DEF ToSet, TypeOK
  <1>4. wjobs[v][i] # Head(wjobs[w])
    <2>1. CASE v # w
      BY <1>2, <1>3, <2>1 DEF BatchesApart
    <2>2. CASE v = w
      BY <1>2, <2>2 DEF BatchesApart
    <2> QED BY <2>1, <2>2
  <1> QED BY <1>2, <1>3, <1>4 DEF JobsOnce

LEMMA ScriptSame ==
  ASSUME TransportSound, ScriptFollowed, UNCHANGED <<events, workers>>,
         \A j \in 1..Len(jobs) : jobs'[j] = jobs[j]
  PROVE  ScriptFollowed'
  <1>1. \A w \in Workers : \A i \in DOMAIN wjobs[w] : jobs'[wjobs[w][i]] = jobs[wjobs[w][i]]
    <2> SUFFICES ASSUME NEW w \in Workers, NEW i \in DOMAIN wjobs[w] PROVE jobs'[wjobs[w][i]] = jobs[wjobs[w][i]]
      OBVIOUS
    <2>1. wjobs[w] \in Seq(1..Len(jobs))
      BY DEF TransportSound, TypeOK
    <2>2. wjobs[w][i] \in 1..Len(jobs)
      BY <2>1
    <2> QED BY <2>2
  <1>2. Positions' = Positions /\ \A j, k : SameStep(j, k)' <=> SameStep(j, k)
    BY DEF Positions, SameStep
  <1>3. \A k, w : ReportedUpTo(k, w)' <=> ReportedUpTo(k, w)
    BY DEF ReportedUpTo, workers
  <1> QED BY <1>1, <1>2, <1>3 DEF ScriptFollowed, workers

\* A batch that nothing was reported of.
LEMMA ScriptBatch ==
  ASSUME TransportSound, ScriptFollowed, NEW w \in Workers, UNCHANGED <<jobs, events>>,
         \A v \in Workers \ {w} : wpc'[v] = wpc[v] /\ wjobs'[v] = wjobs[v] /\ wnext'[v] = wnext[v],
         \A i \in DOMAIN wjobs'[w], k \in Positions : events[k].run # jobs[wjobs'[w][i]]
  PROVE  ScriptFollowed'
  <1>1. Positions' = Positions /\ \A j, k : SameStep(j, k)' <=> SameStep(j, k)
    BY DEF Positions, SameStep
  <1>2. ASSUME NEW v \in Workers, NEW i \in DOMAIN wjobs'[v], NEW k \in Positions,
               events[k].run = jobs[wjobs'[v][i]]
        PROVE  i = 1 /\ (wpc'[v] = "ack" \/ ReportedUpTo(k, v)')
    <2>1. v # w
      BY <1>2
    <2>2. ReportedUpTo(k, v)' <=> ReportedUpTo(k, v)
      BY <2>1 DEF ReportedUpTo
    <2> QED BY <1>2, <2>1, <2>2 DEF ScriptFollowed
  <1> QED BY <1>1, <1>2 DEF ScriptFollowed

LEMMA ScriptBatches ==
  ASSUME TransportSound, ScriptFollowed, NEW w \in Workers,
         StartWorker(w) \/ ReadJobs(w) \/ AckJob(w) \/ WorkerLosesBatch(w)
  PROVE  ScriptFollowed'
  <1> USE DEF TransportSound
  <1>1. /\ DOMAIN wpc = Workers /\ DOMAIN wjobs = Workers /\ DOMAIN wnext = Workers
        /\ jobs \in Seq(Runs) /\ wjobs[w] \in Seq(1..Len(jobs)) /\ DOMAIN jobs = 1..Len(jobs)
    BY DEF TypeOK
  <1>2. CASE StartWorker(w)
    <2>1. wjobs' = wjobs /\ DOMAIN wjobs[w] = {}
      <3>1. wjobs[w] = <<>>
        BY <1>2 DEF StartWorker, BatchesApart
      <3> QED BY <1>2, <3>1 DEF StartWorker
    <2> QED BY <1>1, <1>2, <2>1, ScriptBatch DEF StartWorker
  <1>3. CASE WorkerLosesBatch(w)
    <2>1. DOMAIN wjobs'[w] = {}
      BY <1>1, <1>3 DEF WorkerLosesBatch
    <2> QED BY <1>1, <1>3, <2>1, ScriptBatch DEF WorkerLosesBatch, streams
  <1>4. CASE ReadJobs(w)
    <2> DEFINE batch == Handed(jobsRead, jobs, WorkerCount)
    <2>1. /\ wpc[w] = "poll" /\ wjobs' = [wjobs EXCEPT ![w] = batch] /\ wnext' = [wnext EXCEPT ![w] = 1]
          /\ wpc' = [wpc EXCEPT ![w] = "run"] /\ UNCHANGED <<jobs, events>>
      BY <1>4 DEF ReadJobs
    <2>2. jobsRead \in 0..Len(jobs)
      BY <2>1 DEF BatchesApart, TypeOK, NoGroup
    <2>3. batch \in Seq(1..Len(jobs)) /\ \A j \in ToSet(batch) : jobsRead < j
      BY <1>1, <2>2, HandedIsNew, Bounds
    <2> HIDE DEF batch
    <2>4. ASSUME NEW i \in DOMAIN batch, NEW k \in Positions PROVE events[k].run # jobs[batch[i]]
      <3>1. batch[i] \in 1..Len(jobs) /\ jobsRead < batch[i]
        BY <2>3 DEF ToSet
      <3>2. PICK j \in 1..jobsRead : jobs[j] = events[k].run
        BY DEF OutcomesPend
      <3>3. j \in DOMAIN jobs /\ j # batch[i]
        BY <1>1, <2>2, <3>1
      <3> QED BY <1>1, <3>1, <3>2, <3>3 DEF JobsOnce
    <2> QED BY <1>1, <2>1, <2>4, ScriptBatch
  <1>5. CASE AckJob(w)
    <2> DEFINE batch == Tail(wjobs[w])
    <2>1. /\ wpc[w] = "ack" /\ wjobs' = [wjobs EXCEPT ![w] = batch] /\ wnext' = [wnext EXCEPT ![w] = 1]
          /\ wpc' = [wpc EXCEPT ![w] = NextPlace(wjobs[w], "run")] /\ UNCHANGED <<jobs, events>>
      BY <1>5 DEF AckJob
    <2>2. wjobs[w] # <<>>
      BY <2>1 DEF BatchesApart
    <2>3. \A i \in DOMAIN batch : i + 1 \in DOMAIN wjobs[w] /\ i + 1 # 1 /\ batch[i] = wjobs[w][i + 1]
      BY <1>1, <2>2, TailOfBatch
    <2> HIDE DEF batch
    <2>4. \A i \in DOMAIN batch, k \in Positions : events[k].run # jobs[batch[i]]
      BY <2>3 DEF ScriptFollowed
    <2> QED BY <1>1, <2>1, <2>4, ScriptBatch
  <1> QED BY <1>2, <1>3, <1>4, <1>5

\* What an emitted event has to show of the script.
LEMMA ScriptGrows ==
  ASSUME TransportSound, ScriptFollowed, NEW w \in Workers, wpc[w] \in {"run", "ack"},
         NEW e \in Event, e.run = jobs[Head(wjobs[w])], events' = Append(events, e),
         UNCHANGED <<jobs, wjobs>>,
         \A v \in Workers \ {w} : wpc'[v] = wpc[v] /\ wnext'[v] = wnext[v],
         e.kind = "step" =>
           \A k \in Positions : events[k].run = e.run /\ events[k].node = e.node /\ events[k].kind = "step" =>
             e.status = "finished",
         \/ wpc'[w] = "ack"
         \/ wpc[w] = "run" /\ wnext[w] \in Nat \ {0} /\ wnext'[w] = wnext[w] + 1
            /\ e = EventOf(e.run, Script[wnext[w]])
  PROVE  ScriptFollowed'
  <1> USE DEF TransportSound
  <1> DEFINE n == Len(events) + 1
  <1>1. /\ events \in Seq(Event) /\ Len(events) \in Nat /\ events'[n] = e
        /\ Len(events') = n /\ \A k \in Positions : events'[k] = events[k]
    BY AppendGrows DEF TypeOK, Positions
  <1>2. n \notin Positions /\ Positions' = Positions \cup {n} /\ n \in Nat /\ \A k \in Positions : k < n /\ k \in Nat
    BY <1>1 DEF Positions
  <1> HIDE DEF n
  <1>3. ASSUME NEW j \in Positions', NEW k \in Positions', SameStep(j, k)', j < k
        PROVE  events'[k].status = "finished"
    <2>1. j \in Positions
      BY <1>2, <1>3
    <2>2. CASE k \in Positions
      <3>1. SameStep(j, k)
        BY <1>1, <1>3, <2>1, <2>2 DEF SameStep
      <3> QED BY <1>1, <1>3, <2>1, <2>2, <3>1 DEF ScriptFollowed
    <2>3. CASE k = n
      BY <1>1, <1>3, <2>1, <2>3 DEF SameStep
    <2> QED BY <1>2, <2>2, <2>3
  <1>4. ASSUME NEW v \in Workers, NEW i \in DOMAIN wjobs[v], NEW k \in Positions',
               events'[k].run = jobs[wjobs[v][i]]
        PROVE  i = 1 /\ (wpc'[v] = "ack" \/ ReportedUpTo(k, v)')
    <2>1. CASE v # w
      <3>1. k # n
        BY <1>1, <1>4, <2>1, JobsApart
      <3>2. k \in Positions /\ events'[k] = events[k]
        BY <1>1, <1>2, <3>1
      <3>3. i = 1 /\ (wpc[v] = "ack" \/ ReportedUpTo(k, v))
        BY <1>4, <3>2 DEF ScriptFollowed
      <3>4. wnext'[v] = wnext[v] /\ wpc'[v] = wpc[v]
        BY <2>1
      <3>5. ReportedUpTo(k, v) => ReportedUpTo(k, v)'
        BY <3>2, <3>4 DEF ReportedUpTo
      <3> QED BY <3>3, <3>4, <3>5
    <2>2. CASE v = w
      <3>1. CASE k \in Positions
        <4>1. i = 1 /\ (wpc[w] = "ack" \/ ReportedUpTo(k, w))
          <5>1. events[k].run = jobs[wjobs[w][i]] /\ i \in DOMAIN wjobs[w]
            BY <1>1, <1>4, <2>2, <3>1
          <5> QED BY <3>1, <5>1 DEF ScriptFollowed
        <4>2. CASE wpc'[w] = "ack"
          BY <2>2, <4>1, <4>2
        <4>3. CASE wpc[w] = "run" /\ wnext[w] \in Nat \ {0} /\ wnext'[w] = wnext[w] + 1
          <5>1. PICK m \in 1..(wnext[w] - 1) : events[k] = EventOf(events[k].run, Script[m])
            BY <4>1, <4>3 DEF ReportedUpTo
          <5>2. m \in 1..(wnext'[w] - 1)
            BY <4>3, <5>1
          <5> QED BY <1>1, <2>2, <3>1, <4>1, <5>1, <5>2 DEF ReportedUpTo
        <4> QED BY <4>2, <4>3
      <3>2. CASE k = n
        <4>1. i = 1
          BY <1>1, <1>4, <2>2, <3>2, JobsApart
        <4>2. CASE wpc'[w] = "ack"
          BY <2>2, <4>1, <4>2
        <4>3. CASE wpc[w] = "run" /\ wnext[w] \in Nat \ {0} /\ wnext'[w] = wnext[w] + 1
                   /\ e = EventOf(e.run, Script[wnext[w]])
          <5>1. wnext[w] \in 1..(wnext'[w] - 1)
            BY <4>3
          <5>2. ReportedUpTo(k, w)'
            BY <1>1, <3>2, <4>3, <5>1 DEF ReportedUpTo
          <5> QED BY <2>2, <4>1, <5>2
        <4> QED BY <4>2, <4>3
      <3> QED BY <1>2, <3>1, <3>2
    <2> QED BY <2>1, <2>2
  <1> QED BY <1>3, <1>4 DEF ScriptFollowed

LEMMA ScriptReports ==
  ASSUME TransportSound, ScriptFollowed, NEW w \in Workers, Emit(w) \/ GraphFails(w) \/ SuccessDoubted(w)
  PROVE  ScriptFollowed'
  <1> USE DEF TransportSound
  <1> DEFINE r == jobs[Head(wjobs[w])]
  <1>1. /\ wpc[w] \in {"run", "ack"} /\ wjobs[w] # <<>> /\ wjobs[w] \in Seq(1..Len(jobs)) /\ jobs \in Seq(Runs)
        /\ DOMAIN wpc = Workers /\ DOMAIN wnext = Workers
    BY DEF Emit, GraphFails, SuccessDoubted, BatchesApart, TypeOK
  <1>2. r \in Runs /\ 1 \in DOMAIN wjobs[w] /\ Head(wjobs[w]) = wjobs[w][1]
    <2>1. Head(wjobs[w]) \in 1..Len(jobs) /\ 1 \in DOMAIN wjobs[w] /\ Head(wjobs[w]) = wjobs[w][1]
      BY <1>1, TailOfBatch
    <2> QED BY <1>1, <2>1
  <1> HIDE DEF r
  <1>3. CASE Emit(w)
    <2> DEFINE e == EventOf(r, Script[wnext[w]])
    <2>1. /\ wpc[w] = "run" /\ events' = Append(events, e) /\ wnext' = [wnext EXCEPT ![w] = @ + 1]
          /\ wpc' = [wpc EXCEPT ![w] = IF wnext[w] = Len(Script) THEN "ack" ELSE "run"]
          /\ UNCHANGED <<jobs, wjobs>>
      BY <1>3 DEF Emit, r
    <2>2. wnext[w] \in 1..Len(Script)
      BY <2>1 DEF OutcomesPend
    <2>3. e \in Event /\ e.run = r
      BY <1>2, <2>2, EventKinds
    <2>4. ASSUME e.kind = "step", NEW k \in Positions, events[k].run = r, events[k].node = e.node,
                 events[k].kind = "step"
          PROVE  e.status = "finished"
      <3>1. PICK m \in 1..(wnext[w] - 1) : events[k] = EventOf(events[k].run, Script[m])
        BY <1>2, <2>1, <2>4 DEF ScriptFollowed, ReportedUpTo, r
      <3>2. m \in 1..Len(Script) /\ m < wnext[w]
        BY <2>2
      <3>3. /\ events[k].kind = Script[m].kind /\ events[k].node = Script[m].node
            /\ e.kind = Script[wnext[w]].kind /\ e.node = Script[wnext[w]].node
            /\ e.status = Script[wnext[w]].status
        BY <3>1 DEF EventOf
      <3> HIDE DEF e
      <3> QED BY <2>2, <2>4, <3>2, <3>3, ScriptOrder
    <2>5. wnext'[w] = wnext[w] + 1 /\ wnext[w] \in Nat \ {0} /\ e = EventOf(e.run, Script[wnext[w]])
      BY <1>1, <2>1, <2>2, <2>3
    <2>6. e.run = jobs[Head(wjobs[w])]
      BY <2>3 DEF r
    <2> HIDE DEF e
    <2> QED BY <1>1, <2>1, <2>3, <2>4, <2>5, <2>6, ScriptGrows
  <1>4. CASE GraphFails(w) \/ SuccessDoubted(w)
    <2> DEFINE e == Failure(r)
    <2>1. /\ events' = Append(events, e) /\ wpc'[w] = "ack" /\ UNCHANGED <<jobs, wjobs>>
          /\ \A v \in Workers \ {w} : wpc'[v] = wpc[v] /\ wnext'[v] = wnext[v]
      BY <1>1, <1>4 DEF GraphFails, SuccessDoubted, r
    <2>2. e \in Event /\ e.run = r /\ e.kind = "done"
      BY <1>2, EventKinds
    <2>3. e.run = jobs[Head(wjobs[w])]
      BY <2>2 DEF r
    <2> HIDE DEF e
    <2> QED BY <1>1, <2>1, <2>2, <2>3, ScriptGrows
  <1> QED BY <1>3, <1>4

LEMMA ScriptNext == TransportSound /\ ScriptFollowed /\ [Next]_vars => ScriptFollowed'
  <1> SUFFICES ASSUME TransportSound, ScriptFollowed, [Next]_vars PROVE ScriptFollowed'
    OBVIOUS
  <1>1. CASE UNCHANGED <<events, workers>> /\ \A j \in 1..Len(jobs) : jobs'[j] = jobs[j]
    BY <1>1, ScriptSame
  <1>2. CASE \E r \in Runs : SaveRun(r) \/ EnqueueJob(r) \/ EnqueueFails(r)
    <2>1. UNCHANGED <<events, workers>> /\ (jobs' = jobs \/ \E r \in Runs : jobs' = Append(jobs, r))
      BY <1>2 DEF SaveRun, EnqueueJob, EnqueueFails, streams
    <2>2. \A j \in 1..Len(jobs) : jobs'[j] = jobs[j]
      <3>1. jobs \in Seq(Runs)
        BY DEF TransportSound, TypeOK
      <3>2. ASSUME NEW r \in Runs, jobs' = Append(jobs, r) PROVE \A j \in 1..Len(jobs) : jobs'[j] = jobs[j]
        BY <3>1, <3>2, AppendGrows
      <3> QED BY <2>1, <3>2
    <2> QED BY <1>1, <2>1, <2>2
  <1>3. CASE \E w \in Workers : WorkerStep(w) \/ SuccessDoubted(w) \/ WorkerLosesBatch(w)
    BY <1>3, ScriptBatches, ScriptReports DEF WorkerStep
  <1>4. CASE \E c \in Consumers : ConsumerStep(c) \/ ConsumerNeverStarts(c)
                                  \/ HandlerFails(c) \/ ConsumerRestarts(c)
    <2>1. UNCHANGED <<events, workers, jobs>>
      BY <1>4 DEF ConsumerStep, HandlerStep, StartConsumer, ConsumerNeverStarts, ReadEvents, LoadRun, FindStep,
                  SaveEvent, SaveCollides, Publish, AckEvent, HandlerFails, ConsumerRestarts, streams
    <2> QED BY <1>1, <2>1
  <1>5. CASE UNCHANGED vars
    BY <1>1, <1>5 DEF vars, streams
  <1> QED BY <1>2, <1>3, <1>4, <1>5 DEF Next, Quiet

\* What is saved stays saved when runs and steps advance.
Advances ==
  /\ \A r \in Runs : /\ Rank(status'[r]) >= Rank(status[r])
                     /\ status[r] \in Ended => status'[r] \in Ended
  /\ \A r \in Runs, n \in Nodes : Rank(step'[r][n]) >= Rank(step[r][n])

LEMMA Ranks ==
  /\ \A s \in Statuses \cup {"started", "finished"} : Rank(s) \in 0..3
  /\ \A s \in Statuses : s \in Ended => Rank(s) = 3
  /\ Rank("absent") = 0 /\ Rank("queued") = 1 /\ Rank("running") = 2 /\ Rank("started") = 2 /\ Rank("finished") = 3
  BY DEF Rank, Statuses, Ended

LEMMA EventAt ==
  ASSUME TransportSound, NEW k \in Positions
  PROVE  /\ events[k] \in Event /\ events[k].run \in Runs
         /\ \/ events[k].kind = "done" /\ events[k].status \in Ended
            \/ events[k].kind = "step" /\ events[k].node \in Nodes /\ events[k].status \in {"started", "finished"}
  <1>1. events \in Seq(Event)
    BY DEF TransportSound, TypeOK
  <1>2. events[k] \in Event
    BY <1>1 DEF Positions
  <1> QED BY <1>2, EventKinds

LEMMA SavedStays ==
  ASSUME TransportSound, TransportSound', Advances, NEW k \in Positions, events'[k] = events[k], Saved(k)
  PROVE  Saved(k)'
  <1>1. /\ events[k].run \in Runs
        /\ \/ events[k].kind = "done"
           \/ events[k].kind = "step" /\ events[k].node \in Nodes /\ events[k].status \in {"started", "finished"}
    BY EventAt
  <1>2. CASE events[k].kind = "done"
    BY <1>1, <1>2 DEF Saved, Advances
  <1>3. CASE events[k].kind = "step"
    <2> DEFINE r == events[k].run
               n == events[k].node
    <2>1. r \in Runs /\ n \in Nodes /\ Rank(step[r][n]) >= Rank(events[k].status)
      BY <1>1, <1>3 DEF Saved
    <2>2. Rank(step'[r][n]) >= Rank(step[r][n])
      BY <2>1 DEF Advances
    <2>3. step[r][n] \in {"absent", "started", "finished"} /\ step'[r][n] \in {"absent", "started", "finished"}
      BY <2>1 DEF TransportSound, TypeOK
    <2>4. Rank(step[r][n]) \in Int /\ Rank(step'[r][n]) \in Int /\ Rank(events[k].status) \in Int
      BY <1>1, <1>3, <2>3, Ranks DEF Statuses
    <2>5. Rank(step'[r][n]) >= Rank(events[k].status)
      BY <2>1, <2>2, <2>4
    <2> QED BY <1>3, <2>5 DEF Saved
  <1> QED BY <1>1, <1>2, <1>3

\* Who leaves the rows alone lets nothing go back.
LEMMA RowsStand ==
  ASSUME TransportSound, UNCHANGED step,
         \A r \in Runs : status'[r] = status[r] \/ (status[r] = "absent" /\ status'[r] = "queued")
  PROVE  Advances
  <1>1. \A r \in Runs : Rank(status[r]) \in 0..3 /\ status[r] \in Statuses
    BY Ranks DEF TransportSound, TypeOK
  <1>2. \A r \in Runs, n \in Nodes : Rank(step[r][n]) \in 0..3
    <2> SUFFICES ASSUME NEW r \in Runs, NEW n \in Nodes PROVE Rank(step[r][n]) \in 0..3
      OBVIOUS
    <2>1. step[r][n] \in {"absent", "started", "finished"}
      BY DEF TransportSound, TypeOK
    <2> QED BY <2>1, Ranks DEF Statuses
  <1>3. \A r \in Runs : status[r] \in Ended => status[r] # "absent"
    BY DEF Ended
  <1>4. \A i \in 0..3 : i >= i /\ i >= 0
    OBVIOUS
  <1> QED BY <1>1, <1>2, <1>3, <1>4, Ranks DEF Advances

-----------------------------------------------------------------------------
(* Every step keeps the rows ahead of the channel. *)

LEMMA RelayInit == Init => RelaySound
  <1> SUFFICES ASSUME Init PROVE RelaySound
    OBVIOUS
  <1>1. events = <<>> /\ Positions = {} /\ published = {}
    BY DEF Init, Positions
  <1>2. \A w \in Workers : DOMAIN wjobs[w] = {}
    BY DEF Init
  <1>3. \A c \in Consumers : DOMAIN cevents[c] = {} /\ cpc[c] = "off" /\ c \in DOMAIN crun
    BY DEF Init
  <1>4. ScriptFollowed
    BY <1>1, <1>2 DEF ScriptFollowed
  <1>5. \A c \in Consumers : HandlerSound(c)
    BY <1>3 DEF HandlerSound, InOrder, Relays
  <1>6. StepsReported
    BY DEF Init, StepsReported
  <1>7. RelayedIsSaved
    BY <1>1 DEF RelayedIsSaved
  <1> QED BY <1>4, <1>5, <1>6, <1>7, InvInit DEF RelaySound

LEMMA PublishedIsSaved == RelayedIsSaved <=> \A k \in published : Saved(k)
  BY DEF RelayedIsSaved, Saved

\* Requests and workers leave what is saved, and who saves it, alone.
LEMMA RelayStands ==
  ASSUME RelaySound, TransportSound', ScriptFollowed',
         UNCHANGED <<step, published, eventsRead, consumers>>,
         \A k \in Positions : events'[k] = events[k] /\ k \in Positions',
         \A r \in Runs : status'[r] = status[r] \/ (status[r] = "absent" /\ status'[r] = "queued")
  PROVE  RelaySound' /\ Advances
  <1> USE DEF RelaySound
  <1>1. Advances
    BY RowsStand
  <1>2. \A k \in Positions : Saved(k) => Saved(k)'
    BY <1>1, SavedStays
  <1>3. \A c \in Consumers : \A k : Behind(k, c)' <=> Behind(k, c)
    BY DEF Behind, Relays, consumers
  <1>4. ASSUME NEW c \in Consumers PROVE HandlerSound(c)'
    <2>1. HandlerSound(c) /\ cevents' = cevents /\ cpc' = cpc /\ crun' = crun /\ cevents[c] \in Seq(Positions)
      BY DEF consumers, TransportSound, TypeOK
    <2>2. InOrder(c)'
      BY <2>1 DEF HandlerSound, InOrder
    <2>3. ASSUME Handling(c)
          PROVE  Head(cevents[c]) \in Positions
      BY <2>1, <2>3, TailOfBatch DEF TransportSound, HandlersKnow
    <2>4. ASSUME cpc[c] \in {"find", "save"}, crun[c] = "queued" PROVE status'[Current(c)'.run] = "queued"
      <3>1. Head(cevents[c]) \in Positions /\ status[Current(c).run] = "queued"
        BY <2>1, <2>3, <2>4 DEF Handling, HandlerSound
      <3>2. Current(c)' = Current(c) /\ Current(c).run \in Runs
        BY <2>1, <3>1, EventAt DEF Current
      <3> QED BY <3>1, <3>2
    <2>5. ASSUME Relays(c) PROVE Saved(Head(cevents[c]))'
      <3>1. Head(cevents[c]) \in Positions /\ Saved(Head(cevents[c]))
        BY <2>1, <2>3, <2>5 DEF Handling, Relays, HandlerSound
      <3>2. Saved(Head(cevents[c])) => Saved(Head(cevents[c]))'
        BY <1>2, <2>1, <3>1 DEF Saved
      <3> QED BY <3>1, <3>2
    <2> QED BY <2>1, <2>2, <2>4, <2>5 DEF HandlerSound, Relays
  <1>5. StepsReported'
    <2> SUFFICES ASSUME NEW r \in Runs, NEW n \in Nodes, step[r][n] # "absent"
                 PROVE  \E k \in Positions' :
                          /\ events'[k].kind = "step" /\ events'[k].run = r /\ events'[k].node = n
                          /\ events'[k].status = step[r][n]
                          /\ \A c \in Consumers : Behind(k, c)'
      BY DEF StepsReported
    <2>1. PICK k \in Positions :
            /\ events[k].kind = "step" /\ events[k].run = r /\ events[k].node = n
            /\ events[k].status = step[r][n] /\ \A c \in Consumers : Behind(k, c)
      BY DEF StepsReported
    <2> QED BY <1>3, <2>1
  <1>6. RelayedIsSaved'
    <2>1. \A k \in published' : k \in Positions /\ Saved(k)
      BY PublishedIsSaved DEF TransportSound, TypeOK
    <2>2. \A k \in published' : Saved(k)'
      BY <1>2, <2>1
    <2> QED BY <2>2 DEF RelayedIsSaved, Saved
  <1> QED BY <1>1, <1>4, <1>5, <1>6

LEMMA RequestsRelay ==
  ASSUME RelaySound, TransportSound', ScriptFollowed', NEW r \in Runs,
         SaveRun(r) \/ EnqueueJob(r) \/ EnqueueFails(r)
  PROVE  RelaySound' /\ Advances
  <1>1. UNCHANGED <<step, published, eventsRead, consumers, events>>
    BY DEF SaveRun, EnqueueJob, EnqueueFails, streams
  <1>2. \A q \in Runs : status'[q] = status[q] \/ (status[q] = "absent" /\ status'[q] = "queued")
    BY DEF SaveRun, EnqueueJob, EnqueueFails, RelaySound, TransportSound, TypeOK
  <1> QED BY <1>1, <1>2, RelayStands DEF Positions

LEMMA WorkersRelay ==
  ASSUME RelaySound, TransportSound', ScriptFollowed', NEW w \in Workers,
         WorkerStep(w) \/ SuccessDoubted(w) \/ WorkerLosesBatch(w)
  PROVE  RelaySound' /\ Advances
  <1>1. UNCHANGED <<status, step, published, eventsRead, consumers>>
    BY DEF WorkerStep, StartWorker, ReadJobs, Emit, GraphFails, AckJob, SuccessDoubted, WorkerLosesBatch, streams
  <1>2. \/ UNCHANGED events
        \/ \E e \in Event : events' = Append(events, e)
    <2>1. CASE Emit(w) \/ GraphFails(w) \/ SuccessDoubted(w)
      <3>1. PICK e : events' = Append(events, e)
        BY <2>1 DEF Emit, GraphFails, SuccessDoubted
      <3>2. events' \in Seq(Event) /\ events \in Seq(Event)
        BY DEF RelaySound, TransportSound, TypeOK, Event
      <3>3. e \in Event
        <4>1. Len(events) + 1 \in 1..Len(events') /\ events'[Len(events) + 1] = e
          BY <3>1, <3>2
        <4> QED BY <3>2, <4>1
      <3> QED BY <3>1, <3>3
    <2> QED BY <2>1 DEF WorkerStep, StartWorker, ReadJobs, AckJob, WorkerLosesBatch, streams
  <1>3. \A k \in Positions : events'[k] = events[k] /\ k \in Positions'
    <2>1. events \in Seq(Event)
      BY DEF RelaySound, TransportSound, TypeOK
    <2>2. ASSUME NEW e \in Event, events' = Append(events, e), NEW k \in Positions
          PROVE  events'[k] = events[k] /\ k \in Positions'
      <3>1. events'[k] = events[k] /\ Len(events') = Len(events) + 1 /\ Len(events) \in Nat
        BY <2>1, <2>2, AppendGrows DEF Positions
      <3> QED BY <3>1 DEF Positions
    <2>3. CASE UNCHANGED events
      BY <2>3 DEF Positions
    <2> QED BY <1>2, <2>2, <2>3
  <1> QED BY <1>1, <1>3, RelayStands

\* A consumer that goes through its batch without touching the rows.
LEMMA ConsumerPasses ==
  ASSUME OneBackend, RelaySound, TransportSound', ScriptFollowed', NEW c \in Consumers,
         UNCHANGED <<status, step, events>>, HandlerSound(c)',
         \A k \in Positions : Behind(k, c) => Behind(k, c)',
         \A k \in published' \ published : Saved(k)
  PROVE  RelaySound' /\ Advances
  <1> USE DEF RelaySound
  <1>1. Advances
    BY RowsStand
  <1>2. Positions' = Positions /\ \A k : Saved(k)' <=> Saved(k)
    BY DEF Positions, Saved
  <1>3. \A d \in Consumers : HandlerSound(d)'
    BY DEF OneBackend
  <1>4. StepsReported'
    BY <1>2 DEF StepsReported, OneBackend
  <1>5. RelayedIsSaved'
    <2>1. \A k \in published' : Saved(k)
      BY PublishedIsSaved
    <2> QED BY <2>1 DEF RelayedIsSaved, Saved
  <1> QED BY <1>1, <1>3, <1>4, <1>5

\* The rest of a batch is in order, and after its head.
LEMMA RestInOrder ==
  ASSUME TransportSound, NEW c \in Consumers, Handling(c), InOrder(c)
  PROVE  /\ Head(cevents[c]) \in Positions /\ Head(cevents[c]) = cevents[c][1] /\ 1 \in DOMAIN cevents[c]
         /\ Head(cevents[c]) <= eventsRead
         /\ \A i \in DOMAIN cevents[c] : i # 1 => cevents[c][1] < cevents[c][i]
         /\ \A i \in DOMAIN Tail(cevents[c]) :
              /\ i + 1 \in DOMAIN cevents[c] /\ Tail(cevents[c])[i] = cevents[c][i + 1]
              /\ Tail(cevents[c])[i] <= eventsRead /\ cevents[c][1] < Tail(cevents[c])[i]
         /\ \A i, j \in DOMAIN Tail(cevents[c]) : i < j => Tail(cevents[c])[i] < Tail(cevents[c])[j]
  <1> DEFINE s == cevents[c]
  <1>1. s \in Seq(Positions) /\ s # <<>>
    BY DEF TransportSound, TypeOK, HandlersKnow
  <1>2. Head(s) \in Positions /\ Head(s) = s[1] /\ 1 \in DOMAIN s /\ DOMAIN s = 1..Len(s)
    BY <1>1, TailOfBatch
  <1>3. \A i \in DOMAIN Tail(s) : i + 1 \in DOMAIN s /\ i + 1 # 1 /\ Tail(s)[i] = s[i + 1] /\ i \in Nat
    BY <1>1, TailOfBatch
  <1>4. \A i, j \in DOMAIN s : s[i] <= eventsRead /\ (i < j => s[i] < s[j])
    BY DEF InOrder
  <1> HIDE DEF s
  <1>5. \A i \in DOMAIN s : i # 1 => 1 < i
    BY <1>2
  <1>6. \A i, j \in DOMAIN Tail(s) : i < j => i + 1 < j + 1
    BY <1>3
  <1>7. /\ Head(s) <= eventsRead /\ \A i \in DOMAIN s : i # 1 => s[1] < s[i]
    BY <1>2, <1>4, <1>5
  <1>8. \A i \in DOMAIN Tail(s) : /\ i + 1 \in DOMAIN s /\ Tail(s)[i] = s[i + 1]
                                 /\ Tail(s)[i] <= eventsRead /\ s[1] < Tail(s)[i]
    BY <1>3, <1>4, <1>7
  <1>9. \A i, j \in DOMAIN Tail(s) : i < j => Tail(s)[i] < Tail(s)[j]
    BY <1>3, <1>4, <1>6
  <1> QED BY <1>2, <1>7, <1>8, <1>9 DEF s

\* Going on to the next entry leaves the first behind.
LEMMA NextEventRelays ==
  ASSUME OneBackend, RelaySound, TransportSound', ScriptFollowed', NEW c \in Consumers,
         Handling(c), NextEvent(c), UNCHANGED <<status, step, events, eventsRead, published, crun>>
  PROVE  RelaySound' /\ Advances
  <1> USE DEF RelaySound
  <1>1. cevents'[c] = Tail(cevents[c]) /\ cpc'[c] \in {"load", "poll"}
    BY DEF NextEvent, NextPlace, TransportSound, TypeOK
  <1>2. InOrder(c) /\ c \in DOMAIN crun
    BY DEF HandlerSound
  <1>3. InOrder(c)'
    BY <1>1, <1>2, RestInOrder DEF InOrder
  <1>4. HandlerSound(c)'
    BY <1>1, <1>2, <1>3 DEF HandlerSound, Relays
  <1>5. ASSUME NEW k \in Positions, Behind(k, c) PROVE Behind(k, c)'
    <2>1. k <= eventsRead /\ \A i \in DOMAIN cevents[c] : k < cevents[c][i] \/ k = cevents[c][1]
      BY <1>5 DEF Behind
    <2>2. ASSUME NEW i \in DOMAIN Tail(cevents[c]) PROVE k < Tail(cevents[c])[i]
      BY <1>2, <2>1, <2>2, RestInOrder
    <2> QED BY <1>1, <2>1, <2>2 DEF Behind
  <1> QED BY <1>4, <1>5, ConsumerPasses

LEMMA IdlesRelay ==
  ASSUME OneBackend, RelaySound, TransportSound', ScriptFollowed', NEW c \in Consumers,
         StartConsumer(c) \/ ConsumerNeverStarts(c) \/ ConsumerRestarts(c)
  PROVE  RelaySound' /\ Advances
  <1> USE DEF RelaySound
  <1>1. UNCHANGED <<status, step, events, published, crun>> /\ cpc'[c] \in {"poll", "ended", "off"}
    BY DEF StartConsumer, ConsumerNeverStarts, ConsumerRestarts, streams, TransportSound, TypeOK
  <1>2. DOMAIN cevents'[c] = {}
    <2>1. CASE StartConsumer(c) \/ ConsumerNeverStarts(c)
      <3>1. cevents[c] = <<>> /\ cevents' = cevents
        BY <2>1 DEF StartConsumer, ConsumerNeverStarts, TransportSound, HandlersKnow, Handling
      <3> QED BY <3>1
    <2>2. CASE ConsumerRestarts(c)
      BY <2>2 DEF ConsumerRestarts, TransportSound, TypeOK
    <2> QED BY <2>1, <2>2
  <1>3. eventsRead \in Int /\ eventsRead' \in Int /\ eventsRead <= eventsRead'
    <2>1. eventsRead \in NoGroup..Len(events) /\ Len(events) \in Nat
      BY AppendGrows DEF TransportSound, TypeOK
    <2> QED BY <2>1 DEF StartConsumer, ConsumerNeverStarts, ConsumerRestarts, GroupAfterStart, streams, NoGroup
  <1>4. HandlerSound(c)'
    BY <1>1, <1>2 DEF HandlerSound, InOrder, Relays
  <1>5. \A k \in Positions : Behind(k, c) => Behind(k, c)'
    BY <1>2, <1>3 DEF Behind, Positions
  <1> QED BY <1>1, <1>4, <1>5, ConsumerPasses

LEMMA ReadEventsRelays ==
  ASSUME OneBackend, RelaySound, TransportSound', ScriptFollowed', NEW c \in Consumers, ReadEvents(c)
  PROVE  RelaySound' /\ Advances
  <1> USE DEF RelaySound
  <1> DEFINE batch == Handed(eventsRead, events, EventCount)
  <1>1. /\ cpc[c] = "poll" /\ eventsRead' = eventsRead + Len(batch) /\ cevents'[c] = batch /\ cpc'[c] = "load"
        /\ UNCHANGED <<status, step, events, published, crun>>
    BY DEF ReadEvents, TransportSound, TypeOK
  <1>2. events \in Seq(Event) /\ eventsRead \in 0..Len(events)
    BY <1>1 DEF TransportSound, HandlersKnow, TypeOK, NoGroup
  <1>3. /\ eventsRead + Len(batch) \in eventsRead..Len(events) /\ DOMAIN batch = 1..Len(batch)
        /\ \A k \in DOMAIN batch : batch[k] = eventsRead + k
        /\ Len(batch) \in Nat
    BY <1>2, HandedIsNew, Bounds
  <1> HIDE DEF batch
  <1>4. \A i, j \in DOMAIN batch : batch[i] <= eventsRead + Len(batch) /\ (i < j => batch[i] < batch[j])
    BY <1>2, <1>3
  <1>5. HandlerSound(c)'
    BY <1>1, <1>4 DEF HandlerSound, InOrder, Relays
  <1>6. ASSUME NEW k \in Positions, Behind(k, c) PROVE Behind(k, c)'
    <2>1. k <= eventsRead /\ k \in Int
      BY <1>6 DEF Behind, Positions
    <2>2. k <= eventsRead + Len(batch) /\ \A i \in DOMAIN batch : k < batch[i]
      BY <1>2, <1>3, <2>1
    <2> QED BY <1>1, <2>2 DEF Behind
  <1> QED BY <1>1, <1>5, <1>6, ConsumerPasses

LEMMA LooksRelay ==
  ASSUME OneBackend, RelaySound, TransportSound', ScriptFollowed', NEW c \in Consumers,
         LoadRun(c) \/ FindStep(c) \/ Publish(c)
  PROVE  RelaySound' /\ Advances
  <1> USE DEF RelaySound
  <1>1. UNCHANGED <<status, step, events, eventsRead, cevents>> /\ Handling(c)
    BY DEF LoadRun, FindStep, Publish, streams, Handling
  <1>2. InOrder(c) /\ InOrder(c)' /\ c \in DOMAIN crun
    BY <1>1 DEF HandlerSound, InOrder
  <1>3. HandlerSound(c)'
    <2>1. Current(c)' = Current(c)
      BY <1>1 DEF Current
    <2>2. CASE LoadRun(c)
      <3>1. cpc'[c] \in {"find", "save"} /\ crun' = [crun EXCEPT ![c] = status[Current(c).run]]
        BY <2>2 DEF LoadRun, AfterLoad, TransportSound, TypeOK
      <3>2. c \in DOMAIN crun' /\ (crun'[c] = "queued" => status[Current(c).run] = "queued")
        BY <1>2, <3>1
      <3> QED BY <1>1, <1>2, <2>1, <3>1, <3>2 DEF HandlerSound, Relays
    <2>3. CASE FindStep(c)
      <3>1. cpc[c] = "find" /\ cpc'[c] = "save" /\ crun' = crun
        BY <2>3 DEF FindStep, TransportSound, TypeOK
      <3> QED BY <1>1, <1>2, <2>1, <3>1 DEF HandlerSound, Relays
    <2>4. CASE Publish(c)
      <3>1. cpc[c] = "publish" /\ cpc'[c] = "ack" /\ crun' = crun
        BY <2>4 DEF Publish, TransportSound, TypeOK
      <3>2. Saved(Head(cevents[c]))
        BY <3>1 DEF HandlerSound, Relays
      <3> QED BY <1>1, <1>2, <3>1, <3>2 DEF HandlerSound, Relays, Saved
    <2> QED BY <2>2, <2>3, <2>4
  <1>4. Relays(c) => Relays(c)'
    BY DEF LoadRun, FindStep, Publish, Relays, TransportSound, TypeOK
  <1>5. \A k \in Positions : Behind(k, c) => Behind(k, c)'
    BY <1>1, <1>4 DEF Behind
  <1>6. \A k \in published' \ published : Saved(k)
    BY DEF LoadRun, FindStep, Publish, HandlerSound, Relays
  <1> QED BY <1>1, <1>3, <1>5, <1>6, ConsumerPasses

\* COMMIT moves a run and a step forward: the run was still queued, and the
\* end of a step comes after its start.
LEMMA SaveAdvances ==
  ASSUME RelaySound, TransportSound', NEW c \in Consumers, SaveEvent(c)
  PROVE  Advances
  <1> USE DEF RelaySound
  <1> DEFINE h == Head(cevents[c])
             e == events[h]
  <1>1. /\ cpc[c] = "save" /\ Handling(c) /\ InOrder(c)
        /\ crun[c] = "queued" => status[Current(c).run] = "queued"
    BY DEF SaveEvent, Handling, HandlerSound
  <1>2. h \in Positions /\ h = cevents[c][1] /\ 1 \in DOMAIN cevents[c]
    BY <1>1, RestInOrder
  <1>3. /\ e.run \in Runs
        /\ \/ e.kind = "done" /\ e.status \in Ended
           \/ e.kind = "step" /\ e.node \in Nodes /\ e.status \in {"started", "finished"}
    BY <1>2, EventAt
  <1>4. /\ status' = [status EXCEPT ![e.run] = StatusAfter(c)]
        /\ step' = IF e.kind = "step" THEN [step EXCEPT ![e.run][e.node] = e.status] ELSE step
        /\ status \in [Runs -> Statuses] /\ step \in [Runs -> [Nodes -> {"absent", "started", "finished"}]]
    BY DEF SaveEvent, Current, TransportSound, TypeOK
  <1>5. StatusAfter(c) = IF e.kind = "done" THEN e.status
                         ELSE IF crun[c] = "queued" THEN "running" ELSE status[e.run]
    BY DEF StatusAfter, Current
  <1>6. crun[c] = "queued" => status[e.run] = "queued"
    BY <1>1 DEF Current
  <1> HIDE DEF e
  <1>7. ASSUME NEW r \in Runs
        PROVE  Rank(status'[r]) >= Rank(status[r]) /\ (status[r] \in Ended => status'[r] \in Ended)
    <2>1. Rank(status[r]) \in 0..3 /\ status[r] \in Statuses
      BY <1>4, Ranks
    <2>2. CASE status'[r] = status[r]
      BY <2>1, <2>2
    <2>3. CASE r = e.run /\ e.kind = "done"
      <3>1. status'[r] \in Ended /\ status'[r] \in Statuses
        BY <1>3, <1>4, <1>5, <2>3 DEF Statuses
      <3> QED BY <2>1, <3>1, Ranks
    <2>4. CASE status[r] = "queued" /\ status'[r] = "running"
      BY <2>4, Ranks DEF Ended
    <2> QED BY <1>3, <1>4, <1>5, <1>6, <2>2, <2>3, <2>4
  <1>8. ASSUME NEW r \in Runs, NEW n \in Nodes
        PROVE  Rank(step'[r][n]) >= Rank(step[r][n])
    <2>1. step[r][n] \in {"absent", "started", "finished"} /\ Rank(step[r][n]) \in 0..3
      <3>1. step[r][n] \in {"absent", "started", "finished"}
        BY <1>4
      <3> QED BY <3>1, Ranks DEF Statuses
    <2>2. CASE step'[r][n] = step[r][n]
      BY <2>1, <2>2
    <2>3. CASE e.kind = "step" /\ r = e.run /\ n = e.node
      <3>1. step'[r][n] = e.status /\ e.status \in {"started", "finished"}
        BY <1>3, <1>4, <2>3
      <3>2. CASE step[r][n] = "finished"
        <4>1. PICK k \in Positions :
                /\ events[k].kind = "step" /\ events[k].run = r /\ events[k].node = n
                /\ \A d \in Consumers : Behind(k, d)
          BY <3>2 DEF StepsReported
        <4>2. k < h
          BY <1>1, <1>2, <4>1 DEF Behind, Relays
        <4>3. SameStep(k, h)
          BY <2>3, <4>1 DEF SameStep, e
        <4>4. e.status = "finished"
          BY <1>2, <4>2, <4>3 DEF ScriptFollowed, e
        <4> QED BY <2>1, <3>1, <3>2, <4>4
      <3>3. CASE step[r][n] \in {"absent", "started"}
        <4>1. Rank(step[r][n]) \in {0, 2} /\ Rank(e.status) \in {2, 3}
          BY <3>1, <3>3, Ranks
        <4> QED BY <3>1, <4>1
      <3> QED BY <2>1, <3>2, <3>3
    <2>4. step'[r][n] = step[r][n] \/ (e.kind = "step" /\ r = e.run /\ n = e.node)
      BY <1>3, <1>4
    <2> QED BY <2>2, <2>3, <2>4
  <1> QED BY <1>7, <1>8 DEF Advances

LEMMA SaveRelays ==
  ASSUME OneBackend, RelaySound, TransportSound', ScriptFollowed', NEW c \in Consumers, SaveEvent(c)
  PROVE  RelaySound' /\ Advances
  <1> USE DEF RelaySound
  <1> DEFINE h == Head(cevents[c])
             e == events[h]
  <1>1. cpc[c] = "save" /\ Handling(c) /\ InOrder(c)
    BY DEF SaveEvent, Handling, HandlerSound
  <1>2. /\ h \in Positions /\ h = cevents[c][1] /\ h <= eventsRead
        /\ \A i \in DOMAIN cevents[c] : i # 1 => h < cevents[c][i]
    BY <1>1, RestInOrder
  <1>3. /\ e.run \in Runs
        /\ \/ e.kind = "done" /\ e.status \in Ended
           \/ e.kind = "step" /\ e.node \in Nodes /\ e.status \in {"started", "finished"}
    BY <1>2, EventAt
  <1>4. /\ status' = [status EXCEPT ![e.run] = StatusAfter(c)]
        /\ step' = IF e.kind = "step" THEN [step EXCEPT ![e.run][e.node] = e.status] ELSE step
        /\ status \in [Runs -> Statuses] /\ step \in [Runs -> [Nodes -> {"absent", "started", "finished"}]]
        /\ UNCHANGED <<events, eventsRead, published, cevents, crun>> /\ cpc'[c] = "publish"
    BY DEF SaveEvent, Current, TransportSound, TypeOK, streams
  <1>5. e.kind = "done" => StatusAfter(c) = e.status
    BY DEF StatusAfter, Current
  <1>6. Positions' = Positions /\ Advances
    BY <1>4, SaveAdvances DEF Positions
  <1>7. Saved(h)'
    <2>1. e.kind = "done" => status'[e.run] \in Ended
      BY <1>3, <1>4, <1>5
    <2>2. e.kind = "step" => step'[e.run][e.node] = e.status
      BY <1>3, <1>4
    <2>3. e.kind = "step" => Rank(e.status) \in 0..3
      BY <1>3, Ranks DEF Statuses
    <2>4. h' = h /\ events' = events
      BY <1>4
    <2>5. e.kind = "step" => Rank(step'[e.run][e.node]) >= Rank(e.status)
      BY <2>2, <2>3
    <2> QED BY <1>3, <2>1, <2>4, <2>5 DEF Saved
  <1>8. HandlerSound(c)'
    <2>1. InOrder(c)' /\ c \in DOMAIN crun'
      BY <1>1, <1>4 DEF InOrder, HandlerSound
    <2> QED BY <1>4, <1>7, <2>1 DEF HandlerSound
  <1>9. \A k \in Positions : Behind(k, c) \/ k = h => \A d \in Consumers : Behind(k, d)'
    <2>1. \A k \in Positions : Behind(k, c) \/ k = h => Behind(k, c)'
      BY <1>1, <1>2, <1>4 DEF Behind, Relays
    <2> QED BY <2>1 DEF OneBackend
  <1>10. StepsReported'
    <2> HIDE DEF e, h
    <2>0. events' = events /\ Positions' = Positions
      BY <1>4, <1>6
    <2> SUFFICES ASSUME NEW r \in Runs, NEW n \in Nodes, step'[r][n] # "absent"
                 PROVE  \E k \in Positions :
                          /\ events[k].kind = "step" /\ events[k].run = r /\ events[k].node = n
                          /\ events[k].status = step'[r][n]
                          /\ \A d \in Consumers : Behind(k, d)'
      BY <2>0 DEF StepsReported
    <2>1. CASE step'[r][n] = step[r][n]
      <3>1. PICK k \in Positions :
              /\ events[k].kind = "step" /\ events[k].run = r /\ events[k].node = n
              /\ events[k].status = step[r][n] /\ \A d \in Consumers : Behind(k, d)
        BY <2>1 DEF StepsReported
      <3> QED BY <1>9, <2>1, <3>1
    <2>2. CASE e.kind = "step" /\ r = e.run /\ n = e.node
      <3>1. step'[r][n] = e.status
        BY <1>3, <1>4, <2>2
      <3> QED BY <1>2, <1>9, <2>2, <3>1 DEF e
    <2>3. step'[r][n] = step[r][n] \/ (e.kind = "step" /\ r = e.run /\ n = e.node)
      BY <1>3, <1>4
    <2> QED BY <2>1, <2>2, <2>3
  <1>11. RelayedIsSaved'
    <2>1. \A k \in published' : k \in Positions /\ Saved(k) /\ events'[k] = events[k]
      BY <1>4, PublishedIsSaved DEF TransportSound, TypeOK
    <2>2. \A k \in published' : Saved(k)'
      BY <1>6, <2>1, SavedStays
    <2> QED BY <2>2 DEF RelayedIsSaved, Saved
  <1> QED BY <1>6, <1>8, <1>10, <1>11 DEF OneBackend

LEMMA RelayNext ==
  ASSUME OneBackend
  PROVE  RelaySound /\ [Next]_vars => RelaySound' /\ Advances
  <1> SUFFICES ASSUME RelaySound, [Next]_vars PROVE RelaySound' /\ Advances
    OBVIOUS
  <1>1. TransportSound' /\ ScriptFollowed'
    BY InvNext, ScriptNext DEF RelaySound
  <1>2. CASE \E r \in Runs : SaveRun(r) \/ EnqueueJob(r) \/ EnqueueFails(r)
    BY <1>1, <1>2, RequestsRelay
  <1>3. CASE \E w \in Workers : WorkerStep(w) \/ SuccessDoubted(w) \/ WorkerLosesBatch(w)
    BY <1>1, <1>3, WorkersRelay
  <1>4. ASSUME NEW c \in Consumers,
               ConsumerStep(c) \/ ConsumerNeverStarts(c) \/ HandlerFails(c) \/ ConsumerRestarts(c)
        PROVE  RelaySound' /\ Advances
    <2>1. CASE StartConsumer(c) \/ ConsumerNeverStarts(c) \/ ConsumerRestarts(c)
      BY <1>1, <2>1, IdlesRelay
    <2>2. CASE ReadEvents(c)
      BY <1>1, <2>2, ReadEventsRelays
    <2>3. CASE LoadRun(c) \/ FindStep(c) \/ Publish(c)
      BY <1>1, <2>3, LooksRelay
    <2>4. CASE SaveEvent(c)
      BY <1>1, <2>4, SaveRelays
    <2>5. CASE SaveCollides(c) \/ AckEvent(c) \/ HandlerFails(c)
      <3>1. Handling(c) /\ NextEvent(c) /\ UNCHANGED <<status, step, events, eventsRead, published, crun>>
        BY <2>5 DEF SaveCollides, AckEvent, HandlerFails, Handling, streams
      <3> QED BY <1>1, <3>1, NextEventRelays
    <2> QED BY <1>4, <2>1, <2>2, <2>3, <2>4, <2>5 DEF ConsumerStep, HandlerStep
  <1>5. CASE UNCHANGED vars
    <2>1. UNCHANGED <<status, step, published, eventsRead, consumers, events>>
      BY <1>5 DEF vars, streams
    <2> QED BY <1>1, <2>1, RelayStands DEF Positions
  <1> QED BY <1>2, <1>3, <1>4, <1>5 DEF Next, Quiet

-----------------------------------------------------------------------------

\* With one backend, whatever crashes: what _handle_event published to the
\* run's channel is in the rows that stream_run replays, or something later of
\* the same step or run is.
THEOREM RelayStaysSaved ==
  ASSUME OneBackend
  PROVE  Spec => []RelayedIsSaved
  <1>1. Init => RelaySound
    BY RelayInit
  <1>2. RelaySound /\ [Next]_vars => RelaySound'
    BY RelayNext
  <1>3. RelaySound => RelayedIsSaved
    BY DEF RelaySound
  <1> QED BY <1>1, <1>2, <1>3, PTL DEF Spec

\* With one backend, no commit of _handle_event takes a run back from its
\* outcome or from running, or a step back from its end to its start.
THEOREM RunsOnlyAdvance ==
  ASSUME OneBackend
  PROVE  Spec => RunsAdvance
  <1> DEFINE Forward ==
        \A r \in Runs :
          /\ Rank(status'[r]) >= Rank(status[r])
          /\ \A n \in Nodes : Rank(step'[r][n]) >= Rank(step[r][n])
  <1>1. Init => RelaySound
    BY RelayInit
  <1>2. RelaySound /\ [Next]_vars => RelaySound' /\ Forward
    BY RelayNext DEF Advances
  <1>3. RunsAdvance <=> [][Forward]_vars
    BY DEF RunsAdvance
  <1> HIDE DEF Forward
  <1> QED BY <1>1, <1>2, <1>3, PTL DEF Spec

=============================================================================
