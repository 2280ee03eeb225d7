------------------------------ MODULE RunStream ------------------------------
(***************************************************************************)
(* The live view of one run: GET /agent/runs/{id}/stream (gen() in         *)
(* routes_agent.py), subscribe_run in events/streams.py and the            *)
(* browser's useRunStream.ts, fed by the event consumer of RunPipeline.    *)
(*                                                                         *)
(* The consumer saves each event and then publishes it to whoever is       *)
(* subscribed at that moment.  A viewer's request starts a relay task that *)
(* subscribes, and reads the saved run meanwhile; the two go to different  *)
(* servers and nothing orders them.                                        *)
(***************************************************************************)
EXTENDS Integers, Sequences, FiniteSets, SequencesExt

CONSTANTS
  Viewers,   \* requests for the stream
  NodeCount  \* nodes of the run's graph

ASSUME Bounds == NodeCount \in Nat \ {0}

Nodes == 1..NodeCount

\* The run's events in the order the consumer handles them.
Script ==
  [k \in 1..(2 * NodeCount + 1) |->
     IF k > 2 * NodeCount THEN [node |-> 0, status |-> "succeeded"]
     ELSE [node |-> (k + 1) \div 2, status |-> IF k % 2 = 1 THEN "started" ELSE "finished"]]

IsDone(f) == f.node = 0

VARIABLES
  saved,      \* events of the script that are in the database
  published,  \* events of the script that were published
  vpc,        \* each viewer's place
  subscribed, \* its relay task's subscription is in force
  queue,      \* events the relay task has put in the viewer's queue
  terminal,   \* the run row it read was terminal
  seen,       \* the keys gen() has sent
  shown,      \* frames the browser received, in order
  prompt      \* history: the subscription was in force before the replay read

viewer == <<vpc, subscribed, queue, terminal, seen, shown, prompt>>
vars == <<saved, published, viewer>>

Init ==
  /\ saved = 0 /\ published = 0
  /\ vpc = [v \in Viewers |-> "idle"]
  /\ subscribed = [v \in Viewers |-> FALSE]
  /\ queue = [v \in Viewers |-> <<>>]
  /\ terminal = [v \in Viewers |-> FALSE]
  /\ seen = [v \in Viewers |-> {}]
  /\ shown = [v \in Viewers |-> <<>>]
  /\ prompt = [v \in Viewers |-> FALSE]

-----------------------------------------------------------------------------
(* The event consumer.                                                      *)

\* _handle_event saves the next event ...
Save ==
  /\ saved < Len(Script)
  /\ saved = published
  /\ saved' = saved + 1
  /\ UNCHANGED <<published, viewer>>

\* Mutant for PromptEnds: the channel is listened to after the replay only.
ReceivesLive(v) == subscribed[v] /\ vpc[v] = "live"
\* The relay task receives what is published while it is subscribed.
Receives(v) == subscribed[v]

\* ... and then publishes it to the subscriptions that are in force.
Publish ==
  /\ published < saved
  /\ published' = published + 1
  /\ queue' = [v \in Viewers |->
                 IF Receives(v) THEN Append(queue[v], Script[published + 1]) ELSE queue[v]]
  /\ UNCHANGED <<saved, vpc, subscribed, terminal, seen, shown, prompt>>

-----------------------------------------------------------------------------
(* The viewer.                                                              *)

\* The status of a step's row after the first k events of the script.
StepAfter(k, n) ==
  IF k >= 2 * n THEN "finished" ELSE IF k = 2 * n - 1 THEN "started" ELSE "absent"

\* The tenancy check passed; gen() creates the relay task and goes on.
Connect(v) ==
  /\ vpc[v] = "idle"
  /\ vpc' = [vpc EXCEPT ![v] = "run"]
  /\ UNCHANGED <<saved, published, subscribed, queue, terminal, seen, shown, prompt>>

\* The relay task's SUBSCRIBE takes effect, whenever that is.
Subscribe(v) ==
  /\ vpc[v] \in {"run", "steps", "live"}
  /\ ~subscribed[v]
  /\ subscribed' = [subscribed EXCEPT ![v] = TRUE]
  /\ prompt' = [prompt EXCEPT ![v] = vpc[v] = "run"]
  /\ UNCHANGED <<saved, published, vpc, queue, terminal, seen, shown>>

\* The replay reads the run's row.
ReadRun(v) ==
  /\ vpc[v] = "run"
  /\ terminal' = [terminal EXCEPT ![v] = saved = Len(Script)]
  /\ vpc' = [vpc EXCEPT ![v] = "steps"]
  /\ UNCHANGED <<saved, published, subscribed, queue, seen, shown, prompt>>

\* The frames of the replay: one for each step that has a row.
Replay ==
  LET rows == {n \in Nodes : StepAfter(saved, n) # "absent"} IN
  [n \in 1..Cardinality(rows) |-> [node |-> n, status |-> StepAfter(saved, n)]]

\* A run that was terminal ends the stream.
AfterReplay(v) == IF terminal[v] THEN "ended" ELSE "live"

\* The finally clause: the relay task goes with the stream.
KeepRelay(v, over) == subscribed[v] /\ ~over

\* The replay reads the steps' rows, sends them, and the outcome of a terminal run.
ReadSteps(v) ==
  /\ vpc[v] = "steps"
  /\ seen' = [seen EXCEPT ![v] = ToSet(Replay)]
  /\ shown' = [shown EXCEPT ![v] =
                 IF terminal[v] THEN Append(Replay, Script[Len(Script)]) ELSE Replay]
  /\ vpc' = [vpc EXCEPT ![v] = AfterReplay(v)]
  /\ subscribed' = [subscribed EXCEPT ![v] = KeepRelay(v, terminal[v])]
  /\ UNCHANGED <<saved, published, queue, terminal, prompt>>

\* Mutant for PromptSeesAll: the key is the step alone.
AlreadySentByStep(v, f) == ~IsDone(f) /\ \E g \in seen[v] : g.node = f.node
\* Mutant for StreamSound: what the replay sent is not remembered.
AlreadySentNever(v, f) == FALSE
\* A step event whose key was sent is skipped.
AlreadySent(v, f) == ~IsDone(f) /\ f \in seen[v]

\* The live loop takes one event from the queue; run.done ends the stream.
Forward(v) ==
  LET f == Head(queue[v]) IN
  /\ vpc[v] = "live"
  /\ queue[v] # <<>>
  /\ queue' = [queue EXCEPT ![v] = Tail(@)]
  /\ IF AlreadySent(v, f)
     THEN UNCHANGED <<vpc, seen, shown, subscribed>>
     ELSE /\ seen' = [seen EXCEPT ![v] = @ \cup {f}]
          /\ shown' = [shown EXCEPT ![v] = Append(@, f)]
          /\ vpc' = [vpc EXCEPT ![v] = IF IsDone(f) THEN "ended" ELSE @]
          /\ subscribed' = [subscribed EXCEPT ![v] = KeepRelay(v, IsDone(f))]
  /\ UNCHANGED <<saved, published, terminal, prompt>>

\* The page is left: the request is aborted and the relay task cancelled.
Leave(v) ==
  /\ vpc[v] \in {"run", "steps", "live"}
  /\ vpc' = [vpc EXCEPT ![v] = "left"]
  /\ subscribed' = [subscribed EXCEPT ![v] = FALSE]
  /\ UNCHANGED <<saved, published, queue, terminal, seen, shown, prompt>>

\* Keepalives, or no viewer at all, once the run has ended.
Quiet ==
  /\ published = Len(Script)
  /\ \A v \in Viewers :
       vpc[v] \in {"idle", "ended", "left"} \/ (vpc[v] = "live" /\ queue[v] = <<>>)
  /\ UNCHANGED vars

ViewerStep(v) == Subscribe(v) \/ ReadRun(v) \/ ReadSteps(v) \/ Forward(v)

Next ==
  \/ Save
  \/ Publish
  \/ \E v \in Viewers : Connect(v) \/ ViewerStep(v) \/ Leave(v)
  \/ Quiet

Spec == Init /\ [][Next]_vars

\* The run goes on and so does a viewer's request; nobody has to leave.
FairSpec ==
  /\ Spec
  /\ WF_vars(Save) /\ WF_vars(Publish)
  /\ \A v \in Viewers :
       WF_vars(Subscribe(v)) /\ WF_vars(ReadRun(v) \/ ReadSteps(v)) /\ WF_vars(Forward(v))

-----------------------------------------------------------------------------
(* Properties.                                                              *)

Frames == ToSet(Script)
Places == {"idle", "run", "steps", "live", "ended", "left"}

\* Type invariant of the module's state.
TypeOK ==
  /\ saved \in 0..Len(Script) /\ published \in 0..Len(Script)
  /\ vpc \in [Viewers -> Places]
  /\ subscribed \in [Viewers -> BOOLEAN] /\ prompt \in [Viewers -> BOOLEAN]
  /\ terminal \in [Viewers -> BOOLEAN]
  /\ DOMAIN queue = Viewers /\ DOMAIN shown = Viewers /\ DOMAIN seen = Viewers
  /\ \A v \in Viewers : /\ queue[v] \in Seq(Frames) /\ shown[v] \in Seq(Frames)
                        /\ seen[v] \subseteq Frames
                        /\ subscribed[v] => vpc[v] \in {"run", "steps", "live"}

\* No frame is sent twice, though the replay and the queue overlap.
FramesOnce ==
  \A v \in Viewers : \A j, k \in DOMAIN shown[v] : shown[v][j] = shown[v][k] => j = k

\* The outcome is sent last, ends the stream, and a stream that ended has shown
\* it, whether it came from the row or from the channel.
OutcomeIsLast ==
  \A v \in Viewers : \A k \in DOMAIN shown[v] :
    IsDone(shown[v][k]) <=> k = Len(shown[v]) /\ vpc[v] = "ended"

\* What the relay and the replay rely on: events are published in step with the
\* database, seen is what was shown, and a subscription from before the replay
\* has the outcome if the row did not.
HasOutcome(frames) == \E f \in ToSet(frames) : IsDone(f)
RelaySound ==
  /\ published <= saved /\ saved <= published + 1
  /\ \A v \in Viewers :
       /\ vpc[v] \in {"idle", "run", "steps"} => shown[v] = <<>>
       /\ vpc[v] = "idle" => ~prompt[v]
       /\ vpc[v] = "live" => seen[v] = ToSet(shown[v])
       /\ vpc[v] = "ended" => HasOutcome(shown[v])
       /\ terminal[v] \/ vpc[v] = "ended" => saved = Len(Script)
       /\ HasOutcome(queue[v]) => published = Len(Script)
       /\ prompt[v] /\ vpc[v] \in {"run", "steps", "live"} => subscribed[v]
       /\ prompt[v] /\ vpc[v] = "steps" /\ published = Len(Script) =>
            terminal[v] \/ HasOutcome(queue[v])

\* The state is well typed, and what is shown has no repetition and one end.
StreamSound == TypeOK /\ FramesOnce /\ OutcomeIsLast /\ RelaySound

\* What a viewer has seen of a run, or will see from its queue.
Coming(v) == ToSet(shown[v] \o queue[v])

\* The order gen() is written for: a viewer whose subscription was in force
\* before the replay read has been shown, or has in its queue, every published
\* step at least as far as it was published.
PromptSeesAll ==
  \A v \in Viewers : prompt[v] /\ vpc[v] \in {"live", "ended"} =>
    \A k \in 1..published :
      \E f \in Coming(v) : f.node = Script[k].node /\ f.status \in {Script[k].status, "finished"}

\* And its stream ends.
PromptEnds == \A v \in Viewers : prompt[v] ~> vpc[v] \in {"ended", "left"}

-----------------------------------------------------------------------------
(* What the comments say and the code does not keep.                        *)

\* "A relay task subscribes to the live channel FIRST, then we read the
\* persisted replay ... so nothing is lost" (stream_run): every stream ends
\* with the run.
StreamsEnd == \A v \in Viewers : vpc[v] = "run" ~> vpc[v] \in {"ended", "left"}
=============================================================================
