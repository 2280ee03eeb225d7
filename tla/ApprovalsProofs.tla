---------------------------- MODULE ApprovalsProofs ----------------------------
(***************************************************************************)
(* Proofs about Approvals for every set of invoices and requests: the      *)
(* inductive invariant RecordsSound, that nothing leaves the system        *)
(* without an approval, and that decisions stand.                          *)
(***************************************************************************)
EXTENDS Approvals, TLAPS

\* Reminders and listings are different approvals, and both are pairs.
LEMMA Ids ==
  /\ \A c \in Chasers, i \in Invoices : <<c, i>> \in ApprovalIds
  /\ \A k \in Askers, a \in Actions : <<k, a>> \in ApprovalIds /\ <<k, a>> \in ListingApprovals
  /\ \A x \in ApprovalIds : x = <<x[1], x[2]>>
  /\ \A x \in EmailApprovals : x[1] \in Chasers /\ x[2] \in Invoices
  /\ \A x \in ListingApprovals : x[1] \in Askers /\ x[2] \in Actions
  BY DEF ApprovalIds, EmailApprovals, ListingApprovals

LEMMA RecordsInit == Init => RecordsSound
  <1> SUFFICES ASSUME Init PROVE RecordsSound
    OBVIOUS
  <1>1. TypeOK
    BY DEF Init, TypeOK
  <1> QED
    BY <1>1 DEF Init, RecordsSound, RecordsTruthful, QueuedOnce, TargetsKnown, ActsFollow, Clients

LEMMA ClientsDiffer ==
  /\ \A c \in Chasers : c \in Clients /\ c \notin Planners /\ c \notin Askers /\ c \notin Deciders
  /\ \A p \in Planners : p \in Clients /\ p \notin Askers /\ p \notin Deciders
  /\ \A k \in Askers : k \in Clients /\ k \notin Deciders
  /\ Deciders \subseteq Clients
  BY ClientsApart DEF Clients

\* Reads, the flush of a rejection, a failing tool and a failing request write
\* nothing and leave what is known of approvals as it is.
LEMMA QuietStep ==
  ASSUME RecordsSound, UNCHANGED <<db, world, decision>>, NEW c \in Clients,
         NEW place \in {"read_sent", "write", "failed"},
         pc' = [pc EXCEPT ![c] = place],
         c \in Deciders => /\ place \in {"failed", "write"} /\ target' = target
                           /\ place = "write" => decision[c] # "approved"
                           /\ pc[c] \notin {"idle", "done"},
         c \notin Deciders => pc[c] # "done" /\ \A d \in Clients \ {c} : target'[d] = target[d],
         c \in Askers => target'[c] \in Actions,
         DOMAIN target' = Clients,
         seen' \in [Clients -> SUBSET (Invoices \cup Actions)]
  PROVE  RecordsSound'
  <1> USE DEF RecordsSound
  <1>1. pc'[c] = place /\ \A d \in Clients \ {c} : pc'[d] = pc[d]
    BY DEF TypeOK
  <1>2. TypeOK'
    BY DEF TypeOK, db, Effects
  <1>3. RecordsTruthful'
    BY DEF RecordsTruthful, db
  <1>4. QueuedOnce'
    <2>1. ASSUME NEW x \in ApprovalIds, status[x] # "absent" PROVE pc'[x[1]] = "done"
      <3>1. pc[x[1]] = "done" /\ x[1] \in Clients /\ x[1] \notin Deciders
        BY <2>1, Ids, ClientsDiffer DEF QueuedOnce, ApprovalIds
      <3>2. x[1] # c
        BY <3>1
      <3> QED BY <1>1, <3>1, <3>2
    <2> QED BY <2>1 DEF QueuedOnce, db
  <1>5. \A d \in Deciders : target'[d] = target[d] /\ d \in Clients
    BY ClientsDiffer
  <1>6. TargetsKnown'
    BY <1>1, <1>5, ClientsDiffer DEF TargetsKnown, db
  <1>7. ActsFollow'
    <2>1. \A e \in world : e.token \in Deciders
      BY DEF TypeOK, Effects
    <2> QED BY <1>1, <1>5, <2>1 DEF ActsFollow, db
  <1> QED BY <1>2, <1>3, <1>4, <1>6, <1>7

\* A client that queues writes nothing a decider has touched: what it writes
\* was absent.
LEMMA QueueStep ==
  ASSUME RecordsSound, NEW c \in Chasers \cup Askers, pc[c] = "write",
         pc' = [pc EXCEPT ![c] = "done"], NEW S,
         \A x \in S : x[1] = c,
         status' = [x \in ApprovalIds |-> IF x \in S THEN "pending" ELSE status[x]],
         UNCHANGED <<token, sent, world, seen, target, decision>>,
         wc' \in [Actions -> {"absent", "proposed", "approval_requested",
                             "executed", "rejected", "stale"}],
         \A a \in Actions : wc'[a] = "executed" => wc[a] = "executed"
  PROVE  RecordsSound'
  <1> USE DEF RecordsSound
  <1>1. c \in Clients /\ c \notin Deciders
    BY ClientsDiffer
  <1>2. pc'[c] = "done" /\ \A d \in Clients \ {c} : pc'[d] = pc[d]
    BY <1>1 DEF TypeOK
  <1>3. \A x \in ApprovalIds \cap S : status[x] = "absent"
    BY DEF QueuedOnce
  <1>4. TypeOK'
    BY DEF TypeOK
  <1>5. RecordsTruthful'
    BY DEF RecordsTruthful
  <1>6. QueuedOnce'
    <2>1. ASSUME NEW x \in ApprovalIds, status'[x] # "absent" PROVE pc'[x[1]] = "done"
      <3>1. x[1] \in Clients
        BY Ids, ClientsDiffer DEF ApprovalIds
      <3>2. CASE x[1] = c
        BY <1>2, <3>2
      <3>3. CASE x[1] # c
        <4>1. status[x] # "absent"
          BY <2>1, <3>3
        <4> QED BY <1>2, <3>1, <3>3, <4>1 DEF QueuedOnce
      <3> QED BY <3>2, <3>3
    <2> QED BY <2>1 DEF QueuedOnce
  <1>7. TargetsKnown'
    BY <1>1, <1>2, <1>3, ClientsDiffer DEF TargetsKnown
  <1>8. ActsFollow'
    <2>1. \A d \in Deciders : d \in Clients /\ pc'[d] = pc[d]
      BY <1>1, <1>2, ClientsDiffer
    <2>2. \A e \in world : e.token \in Deciders
      BY DEF TypeOK, Effects
    <2>3. \A d \in Deciders : pc[d] = "done" => status'[target[d]] = status[target[d]]
      BY <1>3 DEF ActsFollow, TargetsKnown
    <2>4. \A x \in ApprovalIds : status'[x] = "rejected" => status[x] = "rejected"
      OBVIOUS
    <2> QED BY <2>1, <2>2, <2>3, <2>4 DEF ActsFollow
  <1> QED BY <1>4, <1>5, <1>6, <1>7, <1>8

LEMMA ReadApprovalKeeps ==
  ASSUME RecordsSound, NEW d \in Deciders, ReadApproval(d)
  PROVE  RecordsSound'
  <1> USE DEF RecordsSound
  <1>1. PICK x \in ApprovalIds, v \in {"approved", "rejected"} :
          /\ pc[d] = "idle" /\ status[x] = "pending"
          /\ target' = [target EXCEPT ![d] = x] /\ decision' = [decision EXCEPT ![d] = v]
          /\ pc' = [pc EXCEPT ![d] = "flush"]
          /\ UNCHANGED <<db, world, seen>>
    BY DEF ReadApproval, Decidable, Goto
  <1>2. d \in Clients /\ Deciders \subseteq Clients
    BY ClientsDiffer
  <1>3. /\ pc'[d] = "flush" /\ target'[d] = x /\ decision'[d] = v
        /\ \A c \in Clients \ {d} : pc'[c] = pc[c] /\ target'[c] = target[c]
        /\ \A c \in Deciders \ {d} : decision'[c] = decision[c]
    BY <1>1, <1>2 DEF TypeOK
  <1>4. TypeOK'
    BY <1>1, <1>2 DEF TypeOK, db, Effects
  <1>5. RecordsTruthful'
    BY <1>1 DEF RecordsTruthful, db
  <1>6. QueuedOnce'
    <2>1. ASSUME NEW y \in ApprovalIds, status[y] # "absent" PROVE pc'[y[1]] = "done"
      <3>1. pc[y[1]] = "done" /\ y[1] \in Clients /\ y[1] \notin Deciders
        BY <2>1, Ids, ClientsDiffer DEF QueuedOnce, ApprovalIds
      <3> QED BY <1>3, <3>1
    <2> QED BY <1>1, <2>1 DEF QueuedOnce, db
  <1>7. TargetsKnown'
    BY <1>1, <1>2, <1>3, ClientsDiffer DEF TargetsKnown, db
  <1>8. ActsFollow'
    <2>1. \A e \in world : e.token \in Deciders \ {d}
      BY <1>1 DEF TypeOK, Effects, ActsFollow
    <2> QED BY <1>1, <1>2, <1>3, <2>1 DEF ActsFollow, db
  <1> QED BY <1>4, <1>5, <1>6, <1>7, <1>8

\* The tool is called by who approved, on a row that is still there.
LEMMA CallToolKeeps ==
  ASSUME RecordsSound, NEW d \in Deciders, CallTool(d)
  PROVE  RecordsSound'
  <1> USE DEF RecordsSound
  <1> DEFINE e == [approval |-> target[d], token |-> d]
  <1>1. /\ pc[d] = "tool" /\ pc' = [pc EXCEPT ![d] = "write"]
        /\ world' = world \cup {e} /\ UNCHANGED <<db, seen, target, decision>>
    BY DEF CallTool, Goto
  <1>2. d \in Clients /\ Deciders \subseteq Clients
    BY ClientsDiffer
  <1>3. pc'[d] = "write" /\ \A c \in Clients \ {d} : pc'[c] = pc[c]
    BY <1>1, <1>2 DEF TypeOK
  <1>4. e \in Effects /\ decision[d] = "approved"
    BY <1>1 DEF TargetsKnown, ActsFollow, Effects
  <1>5. TypeOK'
    BY <1>1, <1>2, <1>4 DEF TypeOK, db
  <1>6. RecordsTruthful'
    BY <1>1 DEF RecordsTruthful, db
  <1>7. QueuedOnce'
    <2>1. ASSUME NEW y \in ApprovalIds, status[y] # "absent" PROVE pc'[y[1]] = "done"
      <3>1. pc[y[1]] = "done" /\ y[1] \in Clients /\ y[1] \notin Deciders
        BY <2>1, Ids, ClientsDiffer DEF QueuedOnce, ApprovalIds
      <3> QED BY <1>3, <3>1
    <2> QED BY <1>1, <2>1 DEF QueuedOnce, db
  <1>8. TargetsKnown'
    BY <1>1, <1>2, <1>3, ClientsDiffer DEF TargetsKnown, db
  <1>9. ActsFollow'
    <2>1. \A f \in world : f.token \in Deciders
      BY DEF TypeOK, Effects
    <2> QED BY <1>1, <1>2, <1>3, <1>4, <2>1 DEF ActsFollow, db
  <1> QED BY <1>5, <1>6, <1>7, <1>8, <1>9

\* COMMIT records what was decided, and for an approval what was done.
LEMMA CommitKeeps ==
  ASSUME RecordsSound, NEW d \in Deciders, CommitDecision(d)
  PROVE  RecordsSound'
  <1> USE DEF RecordsSound
  <1> DEFINE x == target[d]
             e == [approval |-> x, token |-> d]
  <1>1. /\ pc[d] = "write" /\ pc' = [pc EXCEPT ![d] = "done"]
        /\ status' = [status EXCEPT ![x] = decision[d]]
        /\ token' = [token EXCEPT ![x] = IF decision[d] = "approved" THEN d ELSE @]
        /\ sent' = IF decision[d] = "approved" THEN sent \cup {e} ELSE sent
        /\ wc' = IF x \in ListingApprovals THEN [wc EXCEPT ![x[2]] = ActionStatus(d)] ELSE wc
        /\ UNCHANGED <<world, seen, target, decision>>
    BY DEF CommitDecision, Goto
  <1>2. d \in Clients /\ Deciders \subseteq Clients
    BY ClientsDiffer
  <1>3. pc'[d] = "done" /\ \A c \in Clients \ {d} : pc'[c] = pc[c]
    BY <1>1, <1>2 DEF TypeOK
  <1>4. /\ x \in ApprovalIds /\ status[x] # "absent"
        /\ decision[d] \in {"approved", "rejected"}
        /\ decision[d] = "approved" => e \in world
    BY <1>1 DEF TargetsKnown, TypeOK, ActsFollow
  <1>5. status'[x] = decision[d] /\ \A y \in ApprovalIds \ {x} : status'[y] = status[y]
    BY <1>1, <1>4 DEF TypeOK
  <1> HIDE DEF x, e
  <1>6. TypeOK'
    <2>1. status' \in [ApprovalIds -> {"absent", "pending", "approved", "rejected"}]
      BY <1>1, <1>4 DEF TypeOK
    <2>2. token' \in [ApprovalIds -> Deciders \cup {None}]
      BY <1>1, <1>4 DEF TypeOK
    <2>3. sent' \subseteq Effects
      BY <1>1, <1>4 DEF TypeOK
    <2>4. wc' \in [Actions -> {"absent", "proposed", "approval_requested",
                              "executed", "rejected", "stale"}]
      BY <1>1 DEF TypeOK, ActionStatus
    <2>5. pc' \in [Clients -> {"idle", "read_sent", "flush", "tool", "write", "done", "failed"}]
      BY <1>1 DEF TypeOK
    <2> QED BY <1>1, <2>1, <2>2, <2>3, <2>4, <2>5 DEF TypeOK
  <1>7. RecordsTruthful'
    <2>1. sent' \subseteq world'
      BY <1>1, <1>4 DEF RecordsTruthful
    <2>2. ASSUME NEW y \in ApprovalIds, status'[y] = "approved"
          PROVE  token'[y] # None /\ [approval |-> y, token |-> token'[y]] \in world'
      <3>1. CASE y = x
        <4>1. decision[d] = "approved" /\ token'[x] = d
          BY <1>1, <1>4, <1>5, <2>2, <3>1 DEF TypeOK
        <4> QED BY <1>1, <1>4, <3>1, <4>1, NoneIsNoDecider DEF e
      <3>2. CASE y # x
        <4>1. status[y] = "approved" /\ token'[y] = token[y]
          BY <1>1, <1>4, <1>5, <2>2, <3>2 DEF TypeOK
        <4> QED BY <1>1, <4>1 DEF RecordsTruthful
      <3> QED BY <3>1, <3>2
    <2>3. ASSUME NEW a \in Actions, wc'[a] = "executed"
          PROVE  \E f \in world' : f.approval \in ListingApprovals /\ f.approval[2] = a
      <3>1. CASE x \in ListingApprovals /\ a = x[2]
        <4>1. decision[d] = "approved"
          BY <1>1, <2>3, <3>1 DEF TypeOK, ActionStatus
        <4>2. e \in world' /\ e.approval = x
          BY <1>1, <1>4, <4>1 DEF e
        <4> QED BY <3>1, <4>2
      <3>2. CASE ~(x \in ListingApprovals /\ a = x[2])
        <4>1. wc[a] = "executed"
          BY <1>1, <2>3, <3>2 DEF TypeOK
        <4> QED BY <1>1, <4>1 DEF RecordsTruthful
      <3> QED BY <3>1, <3>2
    <2> QED BY <2>1, <2>2, <2>3 DEF RecordsTruthful
  <1>8. QueuedOnce'
    <2>1. ASSUME NEW y \in ApprovalIds, status'[y] # "absent" PROVE pc'[y[1]] = "done"
      <3>1. status[y] # "absent"
        BY <1>4, <1>5, <2>1
      <3>2. pc[y[1]] = "done" /\ y[1] \in Clients /\ y[1] \notin Deciders
        BY <3>1, Ids, ClientsDiffer DEF QueuedOnce, ApprovalIds
      <3> QED BY <1>3, <3>2
    <2> QED BY <2>1 DEF QueuedOnce
  <1>9. TargetsKnown'
    <2>1. \A y \in ApprovalIds : status[y] # "absent" => status'[y] # "absent"
      BY <1>4, <1>5
    <2> QED BY <1>1, <1>2, <1>3, <2>1, ClientsDiffer DEF TargetsKnown
  <1>10. ActsFollow'
    <2>1. \A f \in world : f.token \in Deciders
      BY DEF TypeOK, Effects
    <2>2. \A c \in Deciders : pc'[c] = "tool" => decision'[c] = "approved"
      BY <1>1, <1>2, <1>3 DEF ActsFollow
    <2>3. \A c \in Deciders : pc'[c] \in {"write", "done"} /\ decision'[c] = "approved" =>
            [approval |-> target'[c], token |-> c] \in world'
      BY <1>1, <1>2, <1>3, <1>4 DEF ActsFollow, e, x
    <2>4. \A f \in world' : /\ decision'[f.token] = "approved" /\ target'[f.token] = f.approval
                            /\ pc'[f.token] \in {"write", "done", "failed"}
      BY <1>1, <1>2, <1>3, <2>1 DEF ActsFollow
    <2>5. \A c \in Deciders : pc'[c] = "done" => status'[target'[c]] \in {"approved", "rejected"}
      <3>1. \A c \in Deciders \ {d} : pc'[c] = "done" =>
              target[c] \in ApprovalIds /\ status[target[c]] \in {"approved", "rejected"}
        BY <1>2, <1>3 DEF ActsFollow, TargetsKnown
      <3> QED BY <1>1, <1>3, <1>4, <1>5, <3>1 DEF x
    <2>6. ASSUME NEW y \in ApprovalIds, status'[y] = "rejected"
          PROVE  \E c \in Deciders : pc'[c] = "done" /\ target'[c] = y /\ decision'[c] = "rejected"
      <3>1. CASE y = x
        BY <1>1, <1>3, <1>5, <2>6, <3>1 DEF x
      <3>2. CASE y # x
        <4>1. PICK c \in Deciders : pc[c] = "done" /\ target[c] = y /\ decision[c] = "rejected"
          BY <1>5, <2>6, <3>2 DEF ActsFollow
        <4> QED BY <1>1, <1>2, <1>3, <4>1
      <3> QED BY <3>1, <3>2
    <2> QED BY <2>2, <2>3, <2>4, <2>5, <2>6 DEF ActsFollow
  <1> QED BY <1>6, <1>7, <1>8, <1>9, <1>10

-----------------------------------------------------------------------------

LEMMA RecordsNext == RecordsSound /\ [Next]_vars => RecordsSound'
  <1> SUFFICES ASSUME RecordsSound, [Next]_vars PROVE RecordsSound'
    OBVIOUS
  <1>0. TypeOK
    BY DEF RecordsSound
  <1>1. ASSUME NEW c \in Chasers, ReadPending(c) \/ ReadSent(c) PROVE RecordsSound'
    <2>1. /\ c \in Clients /\ c \notin Deciders /\ c \notin Askers
          /\ pc[c] # "done" /\ UNCHANGED <<db, world, target, decision>>
          /\ DOMAIN target' = Clients
          /\ seen' \in [Clients -> SUBSET (Invoices \cup Actions)]
      BY <1>0, <1>1, ClientsDiffer DEF ReadPending, ReadSent, TypeOK
    <2>2. \E place \in {"read_sent", "write"} : pc' = [pc EXCEPT ![c] = place]
      BY <1>1 DEF ReadPending, ReadSent, Goto
    <2> QED BY <2>1, <2>2, QuietStep
  <1>2. ASSUME NEW c \in Chasers, QueueReminders(c) PROVE RecordsSound'
    <2> DEFINE S == {x \in ApprovalIds : x[1] = c /\ x[2] \notin seen[c]}
    <2>1. /\ pc[c] = "write" /\ pc' = [pc EXCEPT ![c] = "done"]
          /\ \A x \in S : x[1] = c
          /\ status' = [x \in ApprovalIds |-> IF x \in S THEN "pending" ELSE status[x]]
          /\ UNCHANGED <<token, wc, sent, world, seen, target, decision>>
      BY <1>2 DEF QueueReminders, Goto
    <2>2. wc' \in [Actions -> {"absent", "proposed", "approval_requested",
                              "executed", "rejected", "stale"}]
      BY <1>0, <2>1 DEF TypeOK
    <2> HIDE DEF S
    <2> QED BY <2>1, <2>2, QueueStep
  <1>3. ASSUME NEW p \in Planners, ReadProposed(p) PROVE RecordsSound'
    <2>1. /\ p \in Clients /\ p \notin Deciders /\ p \notin Askers
          /\ pc[p] # "done" /\ UNCHANGED <<db, world, target, decision>>
          /\ DOMAIN target' = Clients
          /\ seen' \in [Clients -> SUBSET (Invoices \cup Actions)]
          /\ pc' = [pc EXCEPT ![p] = "write"]
      BY <1>0, <1>3, ClientsDiffer DEF ReadProposed, TypeOK, Goto
    <2> QED BY <2>1, QuietStep
  <1>4. ASSUME NEW p \in Planners, Supersede(p) PROVE RecordsSound'
    <2>1. p \in Clients /\ p \notin Deciders /\ p \notin Chasers /\ p \notin Askers
      BY ClientsDiffer
    <2>2. /\ pc[p] = "write" /\ pc' = [pc EXCEPT ![p] = "done"]
          /\ UNCHANGED <<status, token, sent, world, seen, target, decision>>
          /\ \A a \in Actions : wc'[a] = "executed" => wc[a] = "executed"
          /\ wc' \in [Actions -> {"absent", "proposed", "approval_requested",
                                  "executed", "rejected", "stale"}]
      BY <1>0, <1>4 DEF Supersede, Goto, TypeOK
    <2>3. pc'[p] = "done" /\ \A c \in Clients \ {p} : pc'[c] = pc[c]
      BY <1>0, <2>1, <2>2 DEF TypeOK
    <2>4. TypeOK'
      BY <1>0, <2>2 DEF TypeOK
    <2>5. RecordsTruthful'
      BY <2>2 DEF RecordsSound, RecordsTruthful
    <2>6. QueuedOnce'
      <3>1. \A x \in ApprovalIds : x[1] \in Clients \ {p}
        BY <2>1, Ids, ClientsDiffer DEF ApprovalIds
      <3> QED BY <2>2, <2>3, <3>1 DEF RecordsSound, QueuedOnce
    <2>7. TargetsKnown'
      BY <2>1, <2>2, <2>3, ClientsDiffer DEF RecordsSound, TargetsKnown
    <2>8. ActsFollow'
      <3>1. \A d \in Deciders : d \in Clients \ {p}
        BY <2>1, ClientsDiffer
      <3>2. \A e \in world : e.token \in Deciders
        BY <1>0 DEF TypeOK, Effects
      <3> QED BY <2>2, <2>3, <3>1, <3>2 DEF RecordsSound, ActsFollow
    <2> QED BY <2>4, <2>5, <2>6, <2>7, <2>8 DEF RecordsSound
  <1>5. ASSUME NEW k \in Askers, ReadAction(k) PROVE RecordsSound'
    <2>1. /\ k \in Clients /\ k \notin Deciders
          /\ pc[k] # "done" /\ UNCHANGED <<db, world, seen, decision>>
          /\ pc' = [pc EXCEPT ![k] = "write"]
          /\ \E a \in Actions : target' = [target EXCEPT ![k] = a]
      BY <1>5, ClientsDiffer DEF ReadAction, Goto
    <2>2. /\ DOMAIN target' = Clients /\ target'[k] \in Actions
          /\ \A d \in Clients \ {k} : target'[d] = target[d]
          /\ seen' \in [Clients -> SUBSET (Invoices \cup Actions)]
      BY <1>0, <2>1 DEF TypeOK
    <2> QED BY <2>1, <2>2, QuietStep
  <1>6. ASSUME NEW k \in Askers, RequestListing(k) PROVE RecordsSound'
    <2> DEFINE S == {<<k, target[k]>>}
    <2>1. k \in Clients /\ pc[k] = "write" /\ target[k] \in Actions
      BY <1>6, ClientsDiffer DEF RequestListing, RecordsSound, TargetsKnown
    <2>2. /\ pc[k] = "write" /\ pc' = [pc EXCEPT ![k] = "done"]
          /\ \A x \in S : x[1] = k
          /\ UNCHANGED <<token, sent, world, seen, target, decision>>
          /\ wc' = [wc EXCEPT ![target[k]] = "approval_requested"]
          /\ status' = [status EXCEPT ![<<k, target[k]>>] = "pending"]
      BY <1>6 DEF RequestListing, Goto
    <2>3. /\ wc' \in [Actions -> {"absent", "proposed", "approval_requested",
                                 "executed", "rejected", "stale"}]
          /\ \A a \in Actions : wc'[a] = "executed" => wc[a] = "executed"
      BY <1>0, <2>1, <2>2 DEF TypeOK
    <2>4. status' = [x \in ApprovalIds |-> IF x \in S THEN "pending" ELSE status[x]]
      BY <1>0, <2>1, <2>2, Ids DEF TypeOK
    <2> HIDE DEF S
    <2> QED BY <2>2, <2>3, <2>4, QueueStep
  <1>7. ASSUME NEW d \in Deciders, FlushDecision(d) PROVE RecordsSound'
    <2>1. /\ d \in Clients /\ d \notin Askers /\ pc[d] = "flush"
          /\ UNCHANGED <<db, world, seen, target, decision>>
          /\ pc' = [pc EXCEPT ![d] = AfterFlush(d)]
      BY <1>7, ClientsDiffer DEF FlushDecision, Goto
    <2>2. DOMAIN target' = Clients /\ seen' \in [Clients -> SUBSET (Invoices \cup Actions)]
      BY <1>0, <2>1 DEF TypeOK
    <2>3. CASE decision[d] # "approved"
      BY <2>1, <2>2, <2>3, QuietStep DEF AfterFlush
    <2>4. CASE decision[d] = "approved"
      <3>1. pc'[d] = "tool" /\ \A c \in Clients \ {d} : pc'[c] = pc[c]
        BY <1>0, <2>1, <2>4 DEF TypeOK, AfterFlush
      <3>2. TypeOK'
        BY <1>0, <2>1, <2>4 DEF TypeOK, AfterFlush, db
      <3>3. RecordsTruthful'
        BY <2>1 DEF RecordsSound, RecordsTruthful, db
      <3>4. QueuedOnce'
        <4>1. \A x \in ApprovalIds : x[1] \in Clients \ {d}
          BY Ids, ClientsDiffer DEF ApprovalIds
        <4> QED BY <2>1, <3>1, <4>1 DEF RecordsSound, QueuedOnce, db
      <3>5. TargetsKnown'
        BY <2>1, <3>1, ClientsDiffer DEF RecordsSound, TargetsKnown, db
      <3>6. ActsFollow'
        <4>1. \A c \in Deciders : c \in Clients
          BY ClientsDiffer
        <4>2. \A e \in world : e.token \in Deciders \ {d}
          BY <1>0, <2>1 DEF TypeOK, Effects, RecordsSound, ActsFollow
        <4> QED BY <2>1, <2>4, <3>1, <4>1, <4>2 DEF RecordsSound, ActsFollow, db
      <3> QED BY <3>2, <3>3, <3>4, <3>5, <3>6 DEF RecordsSound
    <2> QED BY <2>3, <2>4
  <1>8. ASSUME NEW c \in Clients,
               Fail(c) \/ (c \in Deciders /\ ToolFails(c)) PROVE RecordsSound'
    <2>1. /\ UNCHANGED <<db, world, seen, target, decision>>
          /\ pc' = [pc EXCEPT ![c] = "failed"]
          /\ pc[c] \notin {"idle", "done", "failed"}
      BY <1>8 DEF Fail, ToolFails, Goto, InFlight
    <2>2. /\ DOMAIN target' = Clients /\ seen' \in [Clients -> SUBSET (Invoices \cup Actions)]
          /\ c \in Askers => target'[c] \in Actions
      BY <1>0, <2>1 DEF TypeOK, RecordsSound, TargetsKnown
    <2>3. CASE c \notin Deciders
      BY <2>1, <2>2, <2>3, QuietStep
    <2>4. CASE c \in Deciders
      BY <2>1, <2>2, <2>4, QuietStep
    <2> QED BY <2>3, <2>4
  <1>9. ASSUME UNCHANGED vars PROVE RecordsSound'
    BY <1>9 DEF vars, db, RecordsSound, TypeOK, RecordsTruthful, QueuedOnce, TargetsKnown, ActsFollow
  <1> QED BY <1>1, <1>2, <1>3, <1>4, <1>5, <1>6, <1>7, <1>8, <1>9,
             ReadApprovalKeeps, CallToolKeeps, CommitKeeps, ClientsDiffer
          DEF Next, Write, DecideStep, Quiet

-----------------------------------------------------------------------------
(* Theorems.                                                                *)

\* The state is well typed and the books claim no effect that did not happen.
THEOREM RecordsStaySound == Spec => []RecordsSound
  BY RecordsInit, RecordsNext, PTL DEF Spec

LEMMA SoundMeansApproved == RecordsSound => OnlyApprovedActs
  <1> SUFFICES ASSUME RecordsSound, NEW e \in world
               PROVE  /\ decision[e.token] = "approved" /\ target[e.token] = e.approval
                      /\ status[e.approval] = "rejected" =>
                           \E d \in Deciders : d # e.token /\ target[d] = e.approval /\ decision[d] = "rejected"
    BY DEF OnlyApprovedActs
  <1>1. e.approval \in ApprovalIds
    BY DEF RecordsSound, TypeOK, Effects
  <1> QED BY <1>1 DEF RecordsSound, ActsFollow

\* Nothing leaves the system that a person did not approve, and only another
\* person's decision can leave an acted-on row rejected.
THEOREM MakerCheckerActs == Spec => []OnlyApprovedActs
  BY RecordsStaySound, SoundMeansApproved, PTL

\* A step that writes a decided row decides it again, or leaves it.
LEMMA DecidedStaysDecided ==
  ASSUME RecordsSound, [Next]_vars, NEW x \in ApprovalIds,
         status[x] \in {"approved", "rejected"}
  PROVE  status'[x] \in {"approved", "rejected"}
  <1>1. pc[x[1]] = "done"
    BY DEF RecordsSound, QueuedOnce
  <1>2. ASSUME NEW c \in Chasers, QueueReminders(c) PROVE status'[x] = status[x]
    BY <1>1, <1>2 DEF QueueReminders
  <1>3. ASSUME NEW k \in Askers, RequestListing(k) PROVE status'[x] = status[x]
    <2>1. <<k, target[k]>> # x
      BY <1>1, <1>3 DEF RequestListing
    <2> QED BY <1>3, <2>1 DEF RequestListing, RecordsSound, TypeOK
  <1>4. ASSUME NEW d \in Deciders, CommitDecision(d) PROVE status'[x] \in {"approved", "rejected"}
    <2>1. decision[d] \in {"approved", "rejected"}
      BY <1>4 DEF CommitDecision, RecordsSound, TypeOK, TargetsKnown
    <2> QED BY <1>4, <2>1 DEF CommitDecision, RecordsSound, TypeOK
  <1>5. CASE status' = status
    BY <1>5
  <1> QED
    BY <1>2, <1>3, <1>4, <1>5
    DEF Next, Write, DecideStep, Quiet, vars, db, ReadPending, ReadProposed, ReadAction, ReadApproval,
        FlushDecision, CallTool, ToolFails, ReadSent, Supersede, Fail

\* Who decides after another decision of the row committed is refused.
LEMMA LateIsRefused ==
  ASSUME RecordsSound, [Next]_vars, NEW d \in Deciders, pc[d] = "idle", pc'[d] # "idle",
         NEW g \in Deciders, pc[g] = "done"
  PROVE  target[g] # target'[d]
  <1>1. status[target[g]] # "pending"
    BY DEF RecordsSound, ActsFollow
  <1>2. d \in Clients /\ d \notin Chasers /\ d \notin Planners /\ d \notin Askers
    BY ClientsDiffer
  <1>3. ReadApproval(d)
    <2>1. ASSUME NEW c \in Clients \ {d}, NEW place, Goto(c, place) PROVE FALSE
      BY <1>2, <2>1 DEF Goto, RecordsSound, TypeOK
    <2>2. pc' # pc
      OBVIOUS
    <2>3. \A c \in Chasers \cup Planners \cup Askers \cup Deciders : c \in Clients
      BY DEF Clients
    <2>4. ASSUME NEW c \in Clients, Write(c) \/ Fail(c) PROVE FALSE
      BY <1>2, <2>1, <2>4
      DEF Write, Fail, InFlight, ReadSent, QueueReminders, Supersede, RequestListing, CommitDecision
    <2>5. ASSUME NEW c \in Deciders, DecideStep(c) PROVE FALSE
      BY <2>1, <2>3, <2>5 DEF DecideStep, FlushDecision, CallTool, ToolFails
    <2>6. ASSUME NEW c \in Clients \ {d}, ReadPending(c) \/ ReadProposed(c) \/ ReadAction(c) \/ ReadApproval(c)
          PROVE  FALSE
      BY <2>1, <2>6 DEF ReadPending, ReadProposed, ReadAction, ReadApproval
    <2> QED BY <1>2, <2>2, <2>3, <2>4, <2>5, <2>6 DEF Next, Quiet, vars
  <1> QED BY <1>1, <1>2, <1>3 DEF ReadApproval, Decidable, RecordsSound, TypeOK

\* A decision is final, for the row and for whoever comes later.
THEOREM DecisionsAreFinal == Spec => DecisionsStand
  <1>1. RecordsSound /\ [Next]_vars =>
          [\A x \in ApprovalIds :
             status[x] \in {"approved", "rejected"} => status'[x] \in {"approved", "rejected"}]_vars
    BY DecidedStaysDecided
  <1>2. RecordsSound /\ [Next]_vars =>
          [\A d \in Deciders :
             pc[d] = "idle" /\ pc'[d] # "idle" =>
               \A g \in Deciders : pc[g] = "done" => target[g] # target'[d]]_vars
    BY LateIsRefused
  <1> QED
    BY <1>1, <1>2, RecordsStaySound, PTL DEF Spec, DecisionsStand, NeverReopened, LateDecisionIsRefused
=============================================================================
