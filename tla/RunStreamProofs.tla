--------------------------- MODULE RunStreamProofs ---------------------------
(***************************************************************************)
(* Proofs about RunStream for any number of viewers and a run of any       *)
(* length: what a viewer is sent has no repetition and one end, and a      *)
(* subscription from before the replay misses nothing.                     *)
(***************************************************************************)
EXTENDS RunStream, FiniteSetTheorems, TLAPS

End == 2 * NodeCount + 1

LEMMA ScriptFacts ==
  /\ End \in Nat /\ Len(Script) = End /\ DOMAIN Script = 1..End
  /\ Script[End] = [node |-> 0, status |-> "succeeded"]
  /\ \A n \in Nodes : /\ Script[2 * n - 1] = [node |-> n, status |-> "started"]
                      /\ Script[2 * n] = [node |-> n, status |-> "finished"]
                      /\ 2 * n - 1 \in 1..(End - 1) /\ 2 * n \in 1..(End - 1)
  /\ \A k \in 1..(End - 1) : \E n \in Nodes : k = 2 * n - 1 \/ k = 2 * n
  <1>1. End \in Nat /\ DOMAIN Script = 1..End /\ Len(Script) = End
    BY Bounds DEF Script, End
  <1>2. Script[End] = [node |-> 0, status |-> "succeeded"]
    BY Bounds DEF Script, End
  <1>3. ASSUME NEW n \in Nodes
        PROVE  /\ Script[2 * n - 1] = [node |-> n, status |-> "started"]
               /\ Script[2 * n] = [node |-> n, status |-> "finished"]
               /\ 2 * n - 1 \in 1..(End - 1) /\ 2 * n \in 1..(End - 1)
    <2>1. 2 * n - 1 \in 1..(End - 1) /\ 2 * n \in 1..(End - 1) /\ n \in Int
      BY Bounds DEF Nodes, End
    <2>2. /\ ((2 * n - 1) + 1) \div 2 = n /\ (2 * n + 1) \div 2 = n
          /\ (2 * n - 1) % 2 = 1 /\ (2 * n) % 2 = 0
      BY <2>1
    <2>3. Script[2 * n - 1] = [node |-> n, status |-> "started"]
      BY <2>1, <2>2, Bounds DEF Script, End
    <2>4. Script[2 * n] = [node |-> n, status |-> "finished"]
      BY <2>1, <2>2, Bounds DEF Script, End
    <2> QED BY <2>1, <2>3, <2>4
  <1>4. ASSUME NEW k \in 1..(End - 1) PROVE \E n \in Nodes : k = 2 * n - 1 \/ k = 2 * n
    <2>1. (k + 1) \div 2 \in Nodes /\ (k = 2 * ((k + 1) \div 2) - 1 \/ k = 2 * ((k + 1) \div 2))
      BY Bounds DEF Nodes, End
    <2> QED BY <2>1
  <1> QED BY <1>1, <1>2, <1>3, <1>4

LEMMA FrameFacts ==
  /\ Frames = {Script[k] : k \in 1..End}
  /\ \A k \in 1..End : Script[k] \in Frames /\ (IsDone(Script[k]) <=> k = End)
  <1>1. Frames = {Script[k] : k \in 1..End}
    BY ScriptFacts DEF Frames, ToSet
  <1>2. ASSUME NEW k \in 1..End PROVE IsDone(Script[k]) <=> k = End
    <2>1. CASE k = End
      BY <2>1, ScriptFacts DEF IsDone
    <2>2. CASE k # End
      <3>1. k \in 1..(End - 1)
        BY <2>2, ScriptFacts
      <3>2. PICK n \in Nodes : k = 2 * n - 1 \/ k = 2 * n
        BY <3>1, ScriptFacts
      <3>3. \/ Script[k] = [node |-> n, status |-> "started"]
            \/ Script[k] = [node |-> n, status |-> "finished"]
        BY <3>2, ScriptFacts
      <3>4. Script[k].node = n
        BY <3>3
      <3>5. n # 0
        BY DEF Nodes
      <3> QED BY <2>2, <3>4, <3>5 DEF IsDone
    <2> QED BY <2>1, <2>2
  <1> QED BY <1>1, <1>2

\* A frame that tells of the k-th event at least.
Tells(f, k) == f.node = Script[k].node /\ f.status \in {Script[k].status, "finished"}

\* The replay has one frame per step that has a row, and tells of all that is
\* saved but the outcome.
LEMMA ReplayFacts ==
  ASSUME saved \in 0..End
  PROVE  /\ Replay \in Seq(Frames)
         /\ \A j, k \in DOMAIN Replay : Replay[j] = Replay[k] => j = k
         /\ ~HasOutcome(Replay)
         /\ \A k \in 1..saved : k # End => \E f \in ToSet(Replay) : Tells(f, k)
  <1> DEFINE rows == {n \in Nodes : StepAfter(saved, n) # "absent"}
             m == IF saved = End THEN NodeCount ELSE (saved + 1) \div 2
  <1>1. m \in 0..NodeCount /\ m \in Nat
    BY Bounds DEF End
  <1>2. \A n \in Nodes : StepAfter(saved, n) # "absent" <=> n <= m
    <2>1. \A n \in Nodes : StepAfter(saved, n) # "absent" <=> saved >= 2 * n - 1
      BY DEF StepAfter, End, Nodes
    <2>2. \A n \in Nodes : saved >= 2 * n - 1 <=> n <= m
      BY Bounds DEF End, Nodes
    <2> QED BY <2>1, <2>2
  <1>3. rows = 1..m
    BY <1>1, <1>2, Bounds DEF Nodes
  <1>4. Cardinality(rows) = m
    <2>1. Cardinality(1..m) = m
      BY <1>1, FS_Interval
    <2> QED BY <1>3, <2>1
  <1>5. Replay = [n \in 1..m |-> [node |-> n, status |-> StepAfter(saved, n)]]
    BY <1>4 DEF Replay
  <1> HIDE DEF m, rows
  <1>6. \A n \in 1..m : /\ n \in Nodes /\ StepAfter(saved, n) \in {"started", "finished"}
                        /\ Replay[n] = [node |-> n, status |-> StepAfter(saved, n)]
    BY <1>1, <1>2, <1>5, Bounds DEF Nodes, StepAfter
  <1>7. \A n \in 1..m : Replay[n] \in Frames
    <2> SUFFICES ASSUME NEW n \in 1..m PROVE Replay[n] \in Frames
      OBVIOUS
    <2>0. n \in Nodes
      BY <1>6
    <2>1. 2 * n - 1 \in 1..End /\ 2 * n \in 1..End
      BY <2>0, Bounds DEF Nodes, End
    <2>2. Script[2 * n - 1] \in Frames /\ Script[2 * n] \in Frames
      BY <2>1, FrameFacts
    <2>3. \/ Replay[n] = [node |-> n, status |-> "started"]
          \/ Replay[n] = [node |-> n, status |-> "finished"]
      BY <1>6
    <2> QED BY <2>0, <2>2, <2>3, ScriptFacts
  <1>8. Replay \in Seq(Frames) /\ DOMAIN Replay = 1..m
    BY <1>1, <1>5, <1>7
  <1>9. \A j, k \in DOMAIN Replay : Replay[j] = Replay[k] => j = k
    BY <1>6, <1>8
  <1>10. ~HasOutcome(Replay)
    BY <1>6, <1>8 DEF HasOutcome, ToSet, IsDone, Nodes
  <1>11. ASSUME NEW k \in 1..saved, k # End PROVE \E f \in ToSet(Replay) : Tells(f, k)
    <2>1. k \in 1..(End - 1)
      BY <1>11, ScriptFacts
    <2>2. PICK n \in Nodes : k = 2 * n - 1 \/ k = 2 * n
      BY <2>1, ScriptFacts
    <2>3. StepAfter(saved, n) # "absent" /\ (k = 2 * n => StepAfter(saved, n) = "finished")
      BY <1>11, <2>2, ScriptFacts DEF StepAfter, Nodes
    <2>4. n \in 1..m
      BY <1>1, <1>2, <2>3 DEF Nodes
    <2>5. /\ Replay[n] = [node |-> n, status |-> StepAfter(saved, n)]
          /\ StepAfter(saved, n) \in {"started", "finished"}
      BY <1>6, <2>4
    <2>6. Tells(Replay[n], k)
      <3>1. Replay[n].node = n /\ Replay[n].status = StepAfter(saved, n)
        BY <2>5
      <3>2. CASE k = 2 * n
        <4>1. Script[k] = [node |-> n, status |-> "finished"]
          BY <3>2, ScriptFacts
        <4>2. Script[k].node = n
          BY <4>1
        <4> QED BY <2>3, <3>1, <3>2, <4>2 DEF Tells
      <3>3. CASE k = 2 * n - 1
        <4>1. Script[k] = [node |-> n, status |-> "started"]
          BY <3>3, ScriptFacts
        <4>2. Script[k].node = n /\ Script[k].status = "started"
          BY <4>1
        <4> QED BY <2>5, <3>1, <4>2 DEF Tells
      <3> QED BY <2>2, <3>2, <3>3
    <2> QED BY <1>8, <2>4, <2>6 DEF ToSet
  <1> QED BY <1>8, <1>9, <1>10, <1>11

-----------------------------------------------------------------------------
(* Sequences and what they hold. *)

LEMMA AppendHolds ==
  ASSUME NEW S, NEW s \in Seq(S), NEW e \in S
  PROVE  /\ Append(s, e) \in Seq(S) /\ ToSet(Append(s, e)) = ToSet(s) \cup {e}
         /\ Len(Append(s, e)) = Len(s) + 1 /\ DOMAIN Append(s, e) = 1..(Len(s) + 1)
         /\ Append(s, e)[Len(s) + 1] = e /\ \A k \in DOMAIN s : Append(s, e)[k] = s[k]
         /\ DOMAIN s = 1..Len(s) /\ Len(s) \in Nat
  <1>1. /\ Append(s, e) \in Seq(S) /\ Len(Append(s, e)) = Len(s) + 1
        /\ DOMAIN Append(s, e) = 1..(Len(s) + 1) /\ DOMAIN s = 1..Len(s) /\ Len(s) \in Nat
        /\ Append(s, e)[Len(s) + 1] = e /\ \A k \in 1..Len(s) : Append(s, e)[k] = s[k]
    OBVIOUS
  <1>2. \A k \in 1..(Len(s) + 1) : k \in 1..Len(s) \/ k = Len(s) + 1
    BY <1>1
  <1>3. 1..Len(s) \subseteq 1..(Len(s) + 1) /\ Len(s) + 1 \in 1..(Len(s) + 1)
    BY <1>1
  <1>4. ToSet(Append(s, e)) = ToSet(s) \cup {e}
    BY <1>1, <1>2, <1>3 DEF ToSet
  <1> QED BY <1>1, <1>4

LEMMA HeadAndTail ==
  ASSUME NEW S, NEW s \in Seq(S), s # <<>>
  PROVE  /\ Head(s) \in S /\ Tail(s) \in Seq(S)
         /\ ToSet(s) = ToSet(Tail(s)) \cup {Head(s)}
  <1>1. /\ Len(s) \in Nat \ {0} /\ DOMAIN s = 1..Len(s) /\ Head(s) = s[1] /\ Tail(s) \in Seq(S)
        /\ DOMAIN Tail(s) = 1..(Len(s) - 1) /\ \A k \in 1..(Len(s) - 1) : Tail(s)[k] = s[k + 1]
    OBVIOUS
  <1>2. \A k \in 1..(Len(s) - 1) : k + 1 \in DOMAIN s
    BY <1>1
  <1>3. \A k \in DOMAIN s : k = 1 \/ (k - 1 \in 1..(Len(s) - 1) /\ (k - 1) + 1 = k)
    BY <1>1
  <1>4. ToSet(s) \subseteq ToSet(Tail(s)) \cup {Head(s)}
    <2> SUFFICES ASSUME NEW k \in DOMAIN s PROVE s[k] \in ToSet(Tail(s)) \cup {Head(s)}
      BY DEF ToSet
    <2>1. k # 1 => s[k] = Tail(s)[k - 1] /\ k - 1 \in DOMAIN Tail(s)
      BY <1>1, <1>3
    <2> QED BY <1>1, <2>1 DEF ToSet
  <1>5. ToSet(Tail(s)) \subseteq ToSet(s)
    BY <1>1, <1>2 DEF ToSet
  <1>6. Head(s) \in ToSet(s) /\ Head(s) \in S
    BY <1>1 DEF ToSet
  <1> QED BY <1>1, <1>4, <1>5, <1>6

LEMMA ConcatHolds ==
  ASSUME NEW S, NEW s \in Seq(S), NEW t \in Seq(S)
  PROVE  ToSet(s \o t) = ToSet(s) \cup ToSet(t)
  <1>1. /\ DOMAIN s = 1..Len(s) /\ DOMAIN t = 1..Len(t) /\ Len(s) \in Nat /\ Len(t) \in Nat
        /\ DOMAIN (s \o t) = 1..(Len(s) + Len(t))
        /\ \A k \in 1..(Len(s) + Len(t)) : (s \o t)[k] = IF k <= Len(s) THEN s[k] ELSE t[k - Len(s)]
    OBVIOUS
  <1>2. ASSUME NEW k \in DOMAIN (s \o t) PROVE (s \o t)[k] \in ToSet(s) \cup ToSet(t)
    <2>1. k \in 1..Len(s) \/ (k > Len(s) /\ k - Len(s) \in 1..Len(t))
      BY <1>1
    <2> QED BY <1>1, <2>1 DEF ToSet
  <1>3. ASSUME NEW k \in DOMAIN s PROVE s[k] \in ToSet(s \o t)
    <2>1. k \in 1..(Len(s) + Len(t)) /\ k <= Len(s)
      BY <1>1
    <2> QED BY <1>1, <2>1 DEF ToSet
  <1>4. ASSUME NEW k \in DOMAIN t PROVE t[k] \in ToSet(s \o t)
    <2>1. Len(s) + k \in 1..(Len(s) + Len(t)) /\ ~(Len(s) + k <= Len(s)) /\ (Len(s) + k) - Len(s) = k
      BY <1>1
    <2>2. (s \o t)[Len(s) + k] = t[k]
      BY <1>1, <2>1
    <2> QED BY <1>1, <2>1, <2>2 DEF ToSet
  <1> QED BY <1>2, <1>3, <1>4 DEF ToSet

-----------------------------------------------------------------------------
(* The inductive invariant, viewer by viewer. *)

Inv == StreamSound /\ PromptSeesAll

InStep == published <= saved /\ saved <= published + 1

Told(v, k) == \E f \in ToSet(shown[v]) \cup ToSet(queue[v]) : Tells(f, k)

ViewerSound(v) ==
  /\ \A j, k \in DOMAIN shown[v] : shown[v][j] = shown[v][k] => j = k
  /\ \A k \in DOMAIN shown[v] : IsDone(shown[v][k]) <=> k = Len(shown[v]) /\ vpc[v] = "ended"
  /\ vpc[v] \in {"idle", "run", "steps"} => shown[v] = <<>>
  /\ vpc[v] = "idle" => ~prompt[v]
  /\ vpc[v] = "live" => seen[v] = ToSet(shown[v])
  /\ vpc[v] = "ended" => HasOutcome(shown[v])
  /\ terminal[v] \/ vpc[v] = "ended" => saved = Len(Script)
  /\ HasOutcome(queue[v]) => published = Len(Script)
  /\ prompt[v] /\ vpc[v] \in {"run", "steps", "live"} => subscribed[v]
  /\ prompt[v] /\ vpc[v] = "steps" /\ published = Len(Script) => terminal[v] \/ HasOutcome(queue[v])
  /\ prompt[v] /\ vpc[v] \in {"live", "ended"} => \A k \in 1..published : Told(v, k)

LEMMA InvByViewer == TypeOK => (Inv <=> InStep /\ \A v \in Viewers : ViewerSound(v))
  <1> SUFFICES ASSUME TypeOK PROVE Inv <=> InStep /\ \A v \in Viewers : ViewerSound(v)
    OBVIOUS
  <1>1. \A v \in Viewers : shown[v] \in Seq(Frames) /\ queue[v] \in Seq(Frames)
    BY DEF TypeOK
  <1>2. \A v \in Viewers : Coming(v) = ToSet(shown[v]) \cup ToSet(queue[v])
    BY <1>1, ConcatHolds DEF Coming
  <1>3. PromptSeesAll <=>
          \A v \in Viewers : prompt[v] /\ vpc[v] \in {"live", "ended"} =>
            \A k \in 1..published : Told(v, k)
    BY <1>2 DEF PromptSeesAll, Told, Tells
  <1>4. ASSUME Inv PROVE InStep /\ \A v \in Viewers : ViewerSound(v)
    BY <1>3, <1>4 DEF Inv, InStep, StreamSound, FramesOnce, OutcomeIsLast, RelaySound, ViewerSound
  <1>5. ASSUME InStep, \A v \in Viewers : ViewerSound(v) PROVE Inv
    <2>1. RelaySound
      BY <1>5 DEF InStep, RelaySound, ViewerSound
    <2>2. FramesOnce
      BY <1>5 DEF FramesOnce, ViewerSound
    <2>3. OutcomeIsLast
      BY <1>5 DEF OutcomeIsLast, ViewerSound
    <2>4. PromptSeesAll
      BY <1>3, <1>5 DEF ViewerSound
    <2> QED BY <2>1, <2>2, <2>3, <2>4 DEF Inv, StreamSound
  <1> QED BY <1>4, <1>5

LEMMA InvByViewerNext == (TypeOK => (Inv <=> InStep /\ \A v \in Viewers : ViewerSound(v)))'
  BY InvByViewer, PTL

LEMMA InvInit == Init => Inv
  <1> SUFFICES ASSUME Init PROVE Inv
    OBVIOUS
  <1>1. TypeOK
    <2>1. 0 \in 0..Len(Script)
      BY ScriptFacts
    <2> QED BY <2>1 DEF Init, TypeOK, Places
  <1>2. InStep
    BY DEF Init, InStep
  <1>3. \A v \in Viewers : ViewerSound(v)
    <2>1. Len(Script) # 0
      BY ScriptFacts, Bounds DEF End
    <2> QED BY <2>1 DEF Init, ViewerSound, HasOutcome, ToSet
  <1> QED BY <1>1, <1>2, <1>3, InvByViewer

\* Outside the events, a viewer whose state does not change stays sound.
LEMMA OthersStay ==
  ASSUME NEW d \in Viewers, ViewerSound(d), saved' = saved, published' = published,
         vpc'[d] = vpc[d], subscribed'[d] = subscribed[d], queue'[d] = queue[d],
         terminal'[d] = terminal[d], seen'[d] = seen[d], shown'[d] = shown[d], prompt'[d] = prompt[d]
  PROVE  ViewerSound(d)'
  BY DEF ViewerSound, HasOutcome, Told

LEMMA SaveKeeps == Inv /\ Save => Inv'
  <1> SUFFICES ASSUME Inv, Save PROVE Inv'
    OBVIOUS
  <1> USE DEF Inv, StreamSound
  <1>1. saved' = saved + 1 /\ saved = published /\ saved < Len(Script)
        /\ UNCHANGED <<published, vpc, subscribed, queue, terminal, seen, shown, prompt>>
    BY DEF Save, viewer
  <1>2. TypeOK'
    BY <1>1, ScriptFacts DEF TypeOK
  <1>3. InStep'
    BY <1>1, ScriptFacts DEF InStep, TypeOK
  <1>4. \A v \in Viewers : ViewerSound(v)
    BY InvByViewer
  <1>5. ASSUME NEW v \in Viewers PROVE ViewerSound(v)'
    BY <1>1, <1>4, ScriptFacts DEF ViewerSound, HasOutcome, Told
  <1> QED BY <1>2, <1>3, <1>5, InvByViewerNext

LEMMA PublishKeeps == Inv /\ Publish => Inv'
  <1> SUFFICES ASSUME Inv, Publish PROVE Inv'
    OBVIOUS
  <1> USE DEF Inv, StreamSound
  <1> DEFINE e == Script[published + 1]
  <1>1. /\ published < saved /\ published' = published + 1
        /\ \A v \in Viewers : queue'[v] = IF subscribed[v] THEN Append(queue[v], e) ELSE queue[v]
        /\ DOMAIN queue' = Viewers
        /\ UNCHANGED <<saved, vpc, subscribed, terminal, seen, shown, prompt>>
    BY DEF Publish, Receives
  <1>2. InStep /\ published + 1 \in 1..End /\ published \in Nat /\ saved \in 0..End
    BY <1>1, ScriptFacts, InvByViewer DEF TypeOK, InStep
  <1>3. e \in Frames /\ (IsDone(e) <=> published + 1 = Len(Script))
    BY <1>2, FrameFacts, ScriptFacts
  <1> HIDE DEF e
  <1>4. ASSUME NEW v \in Viewers
        PROVE  /\ queue'[v] \in Seq(Frames) /\ ToSet(queue[v]) \subseteq ToSet(queue'[v])
               /\ ToSet(queue'[v]) \subseteq ToSet(queue[v]) \cup {e}
               /\ subscribed[v] => e \in ToSet(queue'[v])
    <2>1. queue[v] \in Seq(Frames)
      BY DEF TypeOK
    <2>2. /\ Append(queue[v], e) \in Seq(Frames)
          /\ ToSet(Append(queue[v], e)) = ToSet(queue[v]) \cup {e}
      BY <1>3, <2>1, AppendHolds
    <2> QED BY <1>1, <2>1, <2>2
  <1>5. TypeOK'
    BY <1>1, <1>2, <1>4, ScriptFacts DEF TypeOK
  <1>6. InStep'
    BY <1>1, <1>2 DEF InStep
  <1>7. \A v \in Viewers : ViewerSound(v)
    BY InvByViewer
  <1>8. ASSUME NEW v \in Viewers PROVE ViewerSound(v)'
    <2>1. ViewerSound(v)
      BY <1>7
    <2>2. HasOutcome(queue'[v]) => published' = Len(Script)
      <3>1. HasOutcome(queue[v]) => published = Len(Script)
        BY <2>1 DEF ViewerSound
      <3>2. ~HasOutcome(queue[v])
        BY <1>2, <3>1, ScriptFacts
      <3> QED BY <1>1, <1>3, <1>4, <3>2 DEF HasOutcome
    <2>3. prompt[v] /\ vpc[v] = "steps" /\ published' = Len(Script) => HasOutcome(queue'[v])
      <3>1. prompt[v] /\ vpc[v] = "steps" => e \in ToSet(queue'[v])
        BY <1>4, <2>1 DEF ViewerSound
      <3> QED BY <1>1, <1>3, <3>1 DEF HasOutcome
    <2>4. ASSUME prompt[v], vpc[v] \in {"live", "ended"}, NEW k \in 1..published'
          PROVE  \E f \in ToSet(shown[v]) \cup ToSet(queue'[v]) : Tells(f, k)
      <3>1. CASE k \in 1..published
        <4>1. PICK f \in ToSet(shown[v]) \cup ToSet(queue[v]) : Tells(f, k)
          BY <2>1, <2>4, <3>1 DEF ViewerSound, Told
        <4> QED BY <1>4, <4>1
      <3>2. CASE k = published + 1 /\ vpc[v] = "live"
        <4>1. Tells(e, k) /\ e \in ToSet(queue'[v])
          BY <1>4, <2>1, <2>4, <3>2 DEF ViewerSound, Tells, e
        <4> QED BY <4>1
      <3>3. CASE k = published + 1 /\ vpc[v] = "ended"
        <4>1. saved = Len(Script) /\ HasOutcome(shown[v])
          BY <2>1, <3>3 DEF ViewerSound
        <4>2. k = End
          BY <1>1, <1>2, <3>3, <4>1, ScriptFacts DEF InStep
        <4>3. PICK f \in ToSet(shown[v]) : IsDone(f)
          BY <4>1 DEF HasOutcome
        <4>4. f \in Frames
          BY <4>3 DEF TypeOK, ToSet
        <4>5. f = Script[End]
          BY <4>3, <4>4, FrameFacts
        <4> QED BY <4>2, <4>3, <4>5 DEF Tells
      <3>4. k \in 1..published \/ k = published + 1
        BY <1>1, <1>2
      <3> QED BY <2>4, <3>1, <3>2, <3>3, <3>4
    <2> QED BY <1>1, <2>1, <2>2, <2>3, <2>4 DEF ViewerSound, Told
  <1> QED BY <1>5, <1>6, <1>8, InvByViewerNext

\* A step of one viewer: what is left to show is its own part.
LEMMA ViewerKeeps ==
  ASSUME Inv, NEW v \in Viewers, saved' = saved, published' = published, TypeOK', ViewerSound(v)',
         \A d \in Viewers \ {v} :
           /\ vpc'[d] = vpc[d] /\ subscribed'[d] = subscribed[d] /\ queue'[d] = queue[d]
           /\ terminal'[d] = terminal[d] /\ seen'[d] = seen[d] /\ shown'[d] = shown[d]
           /\ prompt'[d] = prompt[d]
  PROVE  Inv'
  <1>1. TypeOK /\ InStep /\ \A d \in Viewers : ViewerSound(d)
    BY InvByViewer DEF Inv, StreamSound
  <1>2. \A d \in Viewers : ViewerSound(d)'
    BY <1>1, OthersStay
  <1>3. InStep'
    BY <1>1 DEF InStep
  <1> QED BY <1>2, <1>3, InvByViewerNext

LEMMA ConnectKeeps ==
  ASSUME Inv, NEW v \in Viewers, Connect(v)
  PROVE  Inv'
  <1>1. TypeOK /\ ViewerSound(v)
    BY InvByViewer DEF Inv, StreamSound
  <1>2. /\ vpc[v] = "idle" /\ vpc'[v] = "run" /\ \A d \in Viewers \ {v} : vpc'[d] = vpc[d]
        /\ UNCHANGED <<saved, published, subscribed, queue, terminal, seen, shown, prompt>>
    BY <1>1 DEF Connect, TypeOK
  <1>3. TypeOK'
    BY <1>1 DEF Connect, TypeOK, Places
  <1>4. ViewerSound(v)'
    BY <1>1, <1>2 DEF ViewerSound, HasOutcome
  <1> QED BY <1>2, <1>3, <1>4, ViewerKeeps

LEMMA SubscribeKeeps ==
  ASSUME Inv, NEW v \in Viewers, Subscribe(v)
  PROVE  Inv'
  <1>1. TypeOK /\ ViewerSound(v)
    BY InvByViewer DEF Inv, StreamSound
  <1>2. /\ vpc[v] \in {"run", "steps", "live"}
        /\ subscribed'[v] = TRUE /\ \A d \in Viewers \ {v} : subscribed'[d] = subscribed[d]
        /\ (prompt'[v] <=> vpc[v] = "run") /\ \A d \in Viewers \ {v} : prompt'[d] = prompt[d]
        /\ UNCHANGED <<saved, published, vpc, queue, terminal, seen, shown>>
    BY <1>1 DEF Subscribe, TypeOK
  <1>3. TypeOK'
    <2>1. subscribed' \in [Viewers -> BOOLEAN] /\ prompt' \in [Viewers -> BOOLEAN]
      BY <1>1 DEF Subscribe, TypeOK
    <2>2. \A d \in Viewers : subscribed'[d] => vpc'[d] \in {"run", "steps", "live"}
      BY <1>1, <1>2 DEF TypeOK
    <2> QED BY <1>1, <1>2, <2>1, <2>2 DEF TypeOK
  <1>4. ViewerSound(v)'
    BY <1>1, <1>2 DEF ViewerSound, HasOutcome
  <1> QED BY <1>2, <1>3, <1>4, ViewerKeeps

\* If all was published before the replay read, the row it reads is terminal.
LEMMA ReadRunKeeps ==
  ASSUME Inv, NEW v \in Viewers, ReadRun(v)
  PROVE  Inv'
  <1>1. TypeOK /\ InStep /\ ViewerSound(v)
    BY InvByViewer DEF Inv, StreamSound
  <1>2. /\ vpc[v] = "run" /\ vpc'[v] = "steps" /\ \A d \in Viewers \ {v} : vpc'[d] = vpc[d]
        /\ (terminal'[v] <=> saved = Len(Script)) /\ \A d \in Viewers \ {v} : terminal'[d] = terminal[d]
        /\ UNCHANGED <<saved, published, subscribed, queue, seen, shown, prompt>>
    BY <1>1 DEF ReadRun, TypeOK
  <1>3. TypeOK'
    <2>1. terminal' \in [Viewers -> BOOLEAN] /\ vpc' \in [Viewers -> Places]
      BY <1>1 DEF ReadRun, TypeOK, Places
    <2>2. \A d \in Viewers : subscribed'[d] => vpc'[d] \in {"run", "steps", "live"}
      BY <1>1, <1>2 DEF TypeOK
    <2> QED BY <1>1, <1>2, <2>1, <2>2 DEF TypeOK
  <1>4. published = Len(Script) => saved = Len(Script)
    BY <1>1, ScriptFacts DEF InStep, TypeOK
  <1>5. ViewerSound(v)'
    BY <1>1, <1>2, <1>4 DEF ViewerSound, HasOutcome
  <1> QED BY <1>2, <1>3, <1>5, ViewerKeeps

\* The replay tells of every step that is saved; the outcome is in the row that
\* was read, or still in the queue of a prompt subscription.
LEMMA ReadStepsKeeps ==
  ASSUME Inv, NEW v \in Viewers, ReadSteps(v)
  PROVE  Inv'
  <1> DEFINE outcome == Script[Len(Script)]
  <1>1. TypeOK /\ InStep /\ ViewerSound(v)
    BY InvByViewer DEF Inv, StreamSound
  <1>2. /\ vpc[v] = "steps" /\ vpc'[v] = IF terminal[v] THEN "ended" ELSE "live"
        /\ subscribed'[v] = (subscribed[v] /\ ~terminal[v])
        /\ seen'[v] = ToSet(Replay)
        /\ shown'[v] = IF terminal[v] THEN Append(Replay, outcome) ELSE Replay
        /\ \A d \in Viewers \ {v} : /\ vpc'[d] = vpc[d] /\ subscribed'[d] = subscribed[d]
                                     /\ seen'[d] = seen[d] /\ shown'[d] = shown[d]
        /\ UNCHANGED <<saved, published, queue, terminal, prompt>>
    BY <1>1 DEF ReadSteps, TypeOK, AfterReplay, KeepRelay
  <1>3. saved \in 0..End
    BY <1>1, ScriptFacts DEF TypeOK
  <1>4. /\ Replay \in Seq(Frames)
        /\ \A j, k \in DOMAIN Replay : Replay[j] = Replay[k] => j = k
        /\ ~HasOutcome(Replay)
        /\ \A k \in 1..saved : k # End => \E f \in ToSet(Replay) : Tells(f, k)
    BY <1>3, ReplayFacts
  <1>5. outcome \in Frames /\ IsDone(outcome) /\ Tells(outcome, End) /\ Len(Script) = End /\ End \in 1..End
    <2>1. End \in 1..End
      BY Bounds DEF End
    <2> QED BY <2>1, ScriptFacts, FrameFacts DEF Tells
  <1> HIDE DEF outcome
  <1>6. /\ Append(Replay, outcome) \in Seq(Frames)
        /\ ToSet(Append(Replay, outcome)) = ToSet(Replay) \cup {outcome}
        /\ Len(Append(Replay, outcome)) = Len(Replay) + 1
        /\ DOMAIN Append(Replay, outcome) = 1..(Len(Replay) + 1)
        /\ Append(Replay, outcome)[Len(Replay) + 1] = outcome
        /\ \A k \in DOMAIN Replay : Append(Replay, outcome)[k] = Replay[k]
        /\ DOMAIN Replay = 1..Len(Replay) /\ Len(Replay) \in Nat
    BY <1>4, <1>5, AppendHolds
  <1>7. TypeOK'
    <2>1. /\ vpc' \in [Viewers -> Places] /\ subscribed' \in [Viewers -> BOOLEAN]
          /\ DOMAIN seen' = Viewers /\ DOMAIN shown' = Viewers
      BY <1>1 DEF ReadSteps, TypeOK, Places, AfterReplay, KeepRelay
    <2>2. shown'[v] \in Seq(Frames)
      BY <1>2, <1>4, <1>6
    <2>3. seen'[v] \subseteq Frames
      BY <1>2, <1>4 DEF ToSet
    <2>4. \A d \in Viewers : subscribed'[d] => vpc'[d] \in {"run", "steps", "live"}
      BY <1>1, <1>2 DEF TypeOK
    <2> QED BY <1>1, <1>2, <2>1, <2>2, <2>3, <2>4 DEF TypeOK
  <1>8. \A k \in DOMAIN Replay : ~IsDone(Replay[k])
    BY <1>4 DEF HasOutcome, ToSet
  <1>9. ViewerSound(v)'
    <2>1. CASE terminal[v]
      <3>1. \A j, k \in DOMAIN shown'[v] : shown'[v][j] = shown'[v][k] => j = k
        <4>1. \A k \in DOMAIN shown'[v] : k = Len(Replay) + 1 \/ k \in DOMAIN Replay
          BY <1>2, <1>6, <2>1
        <4> QED BY <1>2, <1>4, <1>5, <1>6, <1>8, <2>1, <4>1
      <3>2. \A k \in DOMAIN shown'[v] : IsDone(shown'[v][k]) <=> k = Len(shown'[v])
        <4>1. \A k \in DOMAIN shown'[v] : k = Len(Replay) + 1 \/ (k \in DOMAIN Replay /\ k # Len(Replay) + 1)
          BY <1>2, <1>6, <2>1
        <4> QED BY <1>2, <1>5, <1>6, <1>8, <2>1, <4>1
      <3>3. HasOutcome(shown'[v])
        BY <1>2, <1>5, <1>6, <2>1 DEF HasOutcome
      <3>4. \A k \in 1..published : \E f \in ToSet(shown'[v]) : Tells(f, k)
        <4>1. \A k \in 1..published : k \in 1..saved
          BY <1>1, <1>3 DEF InStep, TypeOK
        <4> QED BY <1>2, <1>4, <1>5, <1>6, <2>1, <4>1
      <3> QED BY <1>1, <1>2, <2>1, <3>1, <3>2, <3>3, <3>4 DEF ViewerSound, Told
    <2>2. CASE ~terminal[v]
      <3>1. /\ \A j, k \in DOMAIN shown'[v] : shown'[v][j] = shown'[v][k] => j = k
            /\ \A k \in DOMAIN shown'[v] : ~IsDone(shown'[v][k])
        BY <1>2, <1>4, <1>8, <2>2
      <3>2. ASSUME prompt[v], NEW k \in 1..published PROVE Told(v, k)'
        <4>1. k \in 1..saved
          BY <1>1, <1>3 DEF InStep, TypeOK
        <4>2. CASE k # End
          BY <1>2, <1>4, <2>2, <4>1, <4>2 DEF Told
        <4>3. CASE k = End
          <5>1. published = Len(Script)
            BY <1>1, <1>5, <4>3 DEF TypeOK
          <5>2. PICK f \in ToSet(queue[v]) : IsDone(f)
            BY <1>1, <1>2, <2>2, <3>2, <5>1 DEF ViewerSound, HasOutcome
          <5>3. f = Script[End]
            <6>1. f \in Frames
              BY <1>1, <5>2 DEF TypeOK, ToSet
            <6> QED BY <5>2, <6>1, FrameFacts
          <5> QED BY <1>2, <4>3, <5>2, <5>3 DEF Told, Tells
        <4> QED BY <4>2, <4>3
      <3> QED BY <1>1, <1>2, <2>2, <3>1, <3>2 DEF ViewerSound
    <2> QED BY <2>1, <2>2
  <1> QED BY <1>2, <1>7, <1>9, ViewerKeeps

\* What is taken from the queue was shown before, or is shown now.
LEMMA ForwardKeeps ==
  ASSUME Inv, NEW v \in Viewers, Forward(v)
  PROVE  Inv'
  <1> DEFINE f == Head(queue[v])
  <1>1. TypeOK /\ InStep /\ ViewerSound(v) /\ queue[v] \in Seq(Frames) /\ shown[v] \in Seq(Frames)
    BY InvByViewer DEF Inv, StreamSound, TypeOK
  <1>2. /\ vpc[v] = "live" /\ queue[v] # <<>> /\ queue'[v] = Tail(queue[v])
        /\ IF AlreadySent(v, f)
           THEN UNCHANGED <<vpc, seen, shown, subscribed>>
           ELSE /\ seen'[v] = seen[v] \cup {f} /\ shown'[v] = Append(shown[v], f)
                /\ vpc'[v] = IF IsDone(f) THEN "ended" ELSE "live"
                /\ subscribed'[v] = (subscribed[v] /\ ~IsDone(f))
        /\ UNCHANGED <<saved, published, terminal, prompt>>
    BY <1>1 DEF Forward, KeepRelay, TypeOK
  <1>3. \A d \in Viewers \ {v} :
          /\ vpc'[d] = vpc[d] /\ subscribed'[d] = subscribed[d] /\ queue'[d] = queue[d]
          /\ seen'[d] = seen[d] /\ shown'[d] = shown[d]
    BY <1>1 DEF Forward, TypeOK
  <1>4. /\ f \in Frames /\ Tail(queue[v]) \in Seq(Frames)
        /\ ToSet(queue[v]) = ToSet(Tail(queue[v])) \cup {f}
    BY <1>1, <1>2, HeadAndTail
  <1> HIDE DEF f
  <1>5. /\ Append(shown[v], f) \in Seq(Frames)
        /\ ToSet(Append(shown[v], f)) = ToSet(shown[v]) \cup {f}
        /\ Len(Append(shown[v], f)) = Len(shown[v]) + 1
        /\ DOMAIN Append(shown[v], f) = 1..(Len(shown[v]) + 1)
        /\ Append(shown[v], f)[Len(shown[v]) + 1] = f
        /\ \A k \in DOMAIN shown[v] : Append(shown[v], f)[k] = shown[v][k]
        /\ DOMAIN shown[v] = 1..Len(shown[v]) /\ Len(shown[v]) \in Nat
    BY <1>1, <1>4, AppendHolds
  <1>6. TypeOK'
    <2>1. /\ vpc' \in [Viewers -> Places] /\ subscribed' \in [Viewers -> BOOLEAN]
          /\ DOMAIN seen' = Viewers /\ DOMAIN shown' = Viewers /\ DOMAIN queue' = Viewers
      BY <1>1 DEF Forward, TypeOK, Places, KeepRelay
    <2>2. shown'[v] \in Seq(Frames) /\ seen'[v] \subseteq Frames /\ queue'[v] \in Seq(Frames)
      BY <1>1, <1>2, <1>4, <1>5 DEF TypeOK
    <2>3. subscribed'[v] => vpc'[v] \in {"run", "steps", "live"}
      BY <1>1, <1>2 DEF TypeOK
    <2> QED BY <1>1, <1>2, <1>3, <2>1, <2>2, <2>3 DEF TypeOK
  <1>7. \A k \in DOMAIN shown[v] : ~IsDone(shown[v][k])
    BY <1>1, <1>2 DEF ViewerSound
  \* Nothing leaves the queue that is not shown.
  <1>8. ToSet(shown[v]) \cup ToSet(queue[v]) \subseteq ToSet(shown'[v]) \cup ToSet(queue'[v])
    <2>1. CASE AlreadySent(v, f)
      <3>1. f \in ToSet(shown[v])
        BY <1>1, <1>2, <2>1 DEF AlreadySent, ViewerSound
      <3> QED BY <1>2, <1>4, <2>1, <3>1
    <2>2. CASE ~AlreadySent(v, f)
      BY <1>2, <1>4, <1>5, <2>2
    <2> QED BY <2>1, <2>2
  <1>9. prompt[v] => \A k \in 1..published : Told(v, k)'
    BY <1>1, <1>2, <1>8 DEF ViewerSound, Told, Tells
  <1>10. /\ HasOutcome(queue'[v]) => published = Len(Script)
         /\ IsDone(f) => published = Len(Script)
    BY <1>1, <1>2, <1>4 DEF ViewerSound, HasOutcome
  <1>11. ViewerSound(v)'
    <2>1. CASE AlreadySent(v, f)
      BY <1>1, <1>2, <1>9, <1>10, <2>1 DEF ViewerSound
    <2>2. CASE ~AlreadySent(v, f)
      <3>1. \A k \in DOMAIN shown'[v] : k = Len(shown[v]) + 1 \/ (k \in DOMAIN shown[v] /\ k # Len(shown[v]) + 1)
        BY <1>2, <1>5, <2>2
      <3>2. f \notin ToSet(shown[v])
        <4>1. IsDone(f) => f \notin ToSet(shown[v])
          BY <1>7 DEF ToSet
        <4>2. ~IsDone(f) => f \notin ToSet(shown[v])
          BY <1>1, <1>2, <2>2 DEF AlreadySent, ViewerSound
        <4> QED BY <4>1, <4>2
      <3>3. \A k \in DOMAIN shown[v] : shown[v][k] # f
        BY <3>2 DEF ToSet
      <3>4. \A j, k \in DOMAIN shown'[v] : shown'[v][j] = shown'[v][k] => j = k
        <4>1. \A j, k \in DOMAIN shown[v] : shown[v][j] = shown[v][k] => j = k
          BY <1>1 DEF ViewerSound
        <4> QED BY <1>2, <1>5, <2>2, <3>1, <3>3, <4>1
      <3>5. \A k \in DOMAIN shown'[v] : IsDone(shown'[v][k]) <=> k = Len(shown'[v]) /\ vpc'[v] = "ended"
        BY <1>2, <1>5, <1>7, <2>2, <3>1
      <3>6. vpc'[v] = "live" => seen'[v] = ToSet(shown'[v])
        BY <1>1, <1>2, <1>5, <2>2 DEF ViewerSound
      <3>7. vpc'[v] = "ended" => HasOutcome(shown'[v]) /\ published = Len(Script)
        BY <1>2, <1>5, <1>10, <2>2 DEF HasOutcome
      <3>8. published = Len(Script) => saved = Len(Script)
        BY <1>1, ScriptFacts DEF InStep, TypeOK
      <3>9. prompt[v] /\ vpc'[v] = "live" => subscribed'[v]
        BY <1>1, <1>2, <2>2 DEF ViewerSound
      <3> QED BY <1>1, <1>2, <1>9, <1>10, <2>2, <3>4, <3>5, <3>6, <3>7, <3>8, <3>9 DEF ViewerSound
    <2> QED BY <2>1, <2>2
  <1> QED BY <1>2, <1>3, <1>6, <1>11, ViewerKeeps

LEMMA LeaveKeeps ==
  ASSUME Inv, NEW v \in Viewers, Leave(v)
  PROVE  Inv'
  <1>1. TypeOK /\ ViewerSound(v)
    BY InvByViewer DEF Inv, StreamSound
  <1>2. /\ vpc[v] \in {"run", "steps", "live"} /\ vpc'[v] = "left" /\ subscribed'[v] = FALSE
        /\ \A d \in Viewers \ {v} : vpc'[d] = vpc[d] /\ subscribed'[d] = subscribed[d]
        /\ UNCHANGED <<saved, published, queue, terminal, seen, shown, prompt>>
    BY <1>1 DEF Leave, TypeOK
  <1>3. TypeOK'
    <2>1. vpc' \in [Viewers -> Places] /\ subscribed' \in [Viewers -> BOOLEAN]
      BY <1>1 DEF Leave, TypeOK, Places
    <2>2. \A d \in Viewers : subscribed'[d] => vpc'[d] \in {"run", "steps", "live"}
      BY <1>1, <1>2 DEF TypeOK
    <2> QED BY <1>1, <1>2, <2>1, <2>2 DEF TypeOK
  <1>4. ViewerSound(v)'
    BY <1>1, <1>2 DEF ViewerSound, HasOutcome
  <1> QED BY <1>2, <1>3, <1>4, ViewerKeeps

LEMMA InvNext == Inv /\ [Next]_vars => Inv'
  <1> SUFFICES ASSUME Inv, [Next]_vars PROVE Inv'
    OBVIOUS
  <1>1. CASE Save
    BY <1>1, SaveKeeps
  <1>2. CASE Publish
    BY <1>2, PublishKeeps
  <1>3. ASSUME NEW v \in Viewers, Connect(v) \/ ViewerStep(v) \/ Leave(v) PROVE Inv'
    BY <1>3, ConnectKeeps, SubscribeKeeps, ReadRunKeeps, ReadStepsKeeps, ForwardKeeps, LeaveKeeps
       DEF ViewerStep
  <1>4. CASE UNCHANGED vars
    <2>1. TypeOK'
      BY <1>4 DEF Inv, StreamSound, TypeOK, vars, viewer
    <2>2. InStep' /\ \A v \in Viewers : ViewerSound(v)'
      <3>1. TypeOK /\ InStep /\ \A v \in Viewers : ViewerSound(v)
        BY InvByViewer DEF Inv, StreamSound
      <3> QED BY <1>4, <3>1, OthersStay DEF vars, viewer, InStep
    <2> QED BY <2>1, <2>2, InvByViewerNext
  <1> QED BY <1>1, <1>2, <1>3, <1>4 DEF Next, Quiet

-----------------------------------------------------------------------------

LEMMA InvHolds == Spec => []Inv
  BY InvInit, InvNext, PTL DEF Spec

\* What a viewer is sent has no repetition and one end, which is the outcome, for
\* any number of viewers and nodes, whenever its subscription takes effect.
THEOREM StreamStaysSound == Spec => []StreamSound
  <1>1. Inv => StreamSound
    BY DEF Inv
  <1> QED BY <1>1, InvHolds, PTL

\* A viewer whose subscription was in force before the replay read has been
\* shown, or has in its queue, whatever was published.
THEOREM PromptViewersSeeAll == Spec => []PromptSeesAll
  <1>1. Inv => PromptSeesAll
    BY DEF Inv
  <1> QED BY <1>1, InvHolds, PTL

=============================================================================
