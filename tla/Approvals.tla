------------------------------ MODULE Approvals ------------------------------
(***************************************************************************)
(* The approval queue for actions that leave the system: reminder e-mails  *)
(* and TReDS listings.  Sources: services/approvals.py (queue_approval,    *)
(* decide_approval), POST /internal/collections/queue and                  *)
(* POST /internal/wc-actions in routes_internal.py, and                    *)
(* POST /wc-actions/{id}/request in routes_wc_actions.py.                  *)
(*                                                                         *)
(* Each request is one database transaction.  It reads committed rows      *)
(* first and writes them at COMMIT, by primary key and without a guard, so *)
(* what it read may be stale by then.  The tool call in the middle of a    *)
(* decision writes a file outside the database and is not undone by a      *)
(* rollback.  The commit_match kind, whose effect is in the database, is   *)
(* in Books.                                                               *)
(***************************************************************************)
EXTENDS Integers, FiniteSets

CONSTANTS
  Invoices,  \* overdue invoices the collections graph drafts reminders for
  Chasers,   \* runs of the collections graph: one call of collections/queue each
  Planners,  \* runs of the working-capital graph: one call of wc-actions each
  Askers,    \* requests of a person to list an action on TReDS
  Deciders,  \* decisions of a person on an approval
  None

ASSUME ClientsApart ==
  /\ Chasers \cap Planners = {} /\ Chasers \cap Askers = {} /\ Chasers \cap Deciders = {}
  /\ Planners \cap Askers = {} /\ Planners \cap Deciders = {}
  /\ Askers \cap Deciders = {}
ASSUME NoneIsNoDecider == None \notin Deciders

Clients == Chasers \cup Planners \cup Askers \cup Deciders

\* One TReDS option per run of the graph: the action is named by its run.
Actions == Planners

\* An approval is named by who queued it and what it is about.
EmailApprovals == Chasers \X Invoices
ListingApprovals == Askers \X Actions
ApprovalIds == EmailApprovals \cup ListingApprovals

VARIABLES
  status,    \* approvals.status
  token,     \* approvals.token_id: the decision that minted it, or None
  wc,        \* wc_actions.status
  world,     \* messages in the outbox and listings on TReDS: [approval, token]
  sent,      \* committed email.sent and treds.listed audit rows
  pc,        \* where each request is
  seen,      \* rows a chaser or planner read
  target,    \* the approval or action a decider or asker works on
  decision   \* what the decider decided

db == <<status, token, wc, sent>>
vars == <<status, token, wc, world, sent, pc, seen, target, decision>>

Init ==
  /\ status = [x \in ApprovalIds |-> "absent"]
  /\ token = [x \in ApprovalIds |-> None]
  /\ wc = [a \in Actions |-> "absent"]
  /\ world = {}
  /\ sent = {}
  /\ pc = [c \in Clients |-> "idle"]
  /\ seen = [c \in Clients |-> {}]
  /\ target = [c \in Clients |-> None]
  /\ decision = [d \in Deciders |-> "none"]

Goto(c, place) == pc' = [pc EXCEPT ![c] = place]

-----------------------------------------------------------------------------
(* Reminders.                                                               *)

\* queue_email_drafts reads the invoices with a reminder pending.
ReadPending(c) ==
  /\ pc[c] = "idle"
  /\ seen' = [seen EXCEPT ![c] =
       {i \in Invoices : \E q \in Chasers : status[<<q, i>>] = "pending"}]
  /\ Goto(c, "read_sent")
  /\ UNCHANGED <<db, world, target, decision>>

\* Then the ones a reminder was sent for within the cooldown of seven days;
\* the model's whole run is one such window.
ReadSent(c) ==
  /\ pc[c] = "read_sent"
  /\ seen' = [seen EXCEPT ![c] = @ \cup
       {i \in Invoices : \E e \in sent : \E q \in Chasers : e.approval = <<q, i>>}]
  /\ Goto(c, "write")
  /\ UNCHANGED <<db, world, target, decision>>

\* It queues an approval for every draft it found neither pending nor sent.
QueueReminders(c) ==
  /\ pc[c] = "write"
  /\ status' = [x \in ApprovalIds |->
                  IF x[1] = c /\ x[2] \notin seen[c] THEN "pending" ELSE status[x]]
  /\ Goto(c, "done")
  /\ UNCHANGED <<token, wc, sent, world, seen, target, decision>>

-----------------------------------------------------------------------------
(* Working-capital actions.                                                 *)

\* persist_wc_actions reads the options that are still proposed.
ReadProposed(p) ==
  /\ pc[p] = "idle"
  /\ seen' = [seen EXCEPT ![p] = {a \in Actions : wc[a] = "proposed"}]
  /\ Goto(p, "write")
  /\ UNCHANGED <<db, world, target, decision>>

\* It marks what it read stale, whatever happened since, and adds its own.
Supersede(p) ==
  /\ pc[p] = "write"
  /\ wc' = [a \in Actions |-> IF a = p THEN "proposed"
                              ELSE IF a \in seen[p] THEN "stale" ELSE wc[a]]
  /\ Goto(p, "done")
  /\ UNCHANGED <<status, token, sent, world, seen, target, decision>>

\* request_approval finds the action proposed.
ReadAction(k) ==
  /\ pc[k] = "idle"
  /\ \E a \in Actions :
       /\ wc[a] = "proposed"
       /\ target' = [target EXCEPT ![k] = a]
  /\ Goto(k, "write")
  /\ UNCHANGED <<db, world, seen, decision>>

\* It queues the approval and moves the action to approval_requested.
RequestListing(k) ==
  /\ pc[k] = "write"
  /\ status' = [status EXCEPT ![<<k, target[k]>>] = "pending"]
  /\ wc' = [wc EXCEPT ![target[k]] = "approval_requested"]
  /\ Goto(k, "done")
  /\ UNCHANGED <<token, sent, world, seen, target, decision>>

-----------------------------------------------------------------------------
(* Decisions.                                                               *)

\* Mutant for DecisionsStand: decided rows can be decided again.
DecidableExists(x) == status[x] # "absent"

\* Only a pending row goes on; action_payload is never written after the
\* request, so the hash always matches.
Decidable(x) == status[x] = "pending"

\* decide_approval reads the row without a lock.
ReadApproval(d) ==
  /\ pc[d] = "idle"
  /\ \E x \in ApprovalIds : \E v \in {"approved", "rejected"} :
       /\ Decidable(x)
       /\ target' = [target EXCEPT ![d] = x]
       /\ decision' = [decision EXCEPT ![d] = v]
  /\ Goto(d, "flush")
  /\ UNCHANGED <<db, world, seen>>

\* Mutant for RequestsEnd: the lock is taken with the read.
HoldsFromRead(d, x) == target[d] = x /\ pc[d] \in {"flush", "tool", "write"}

\* d's transaction has flushed its UPDATE of approval x and keeps the lock.
Holds(d, x) == target[d] = x /\ pc[d] \in {"tool", "write"}

\* Mutant for RecordsSound: the tool is left to a later job.
AfterFlushDeferred(d) == "write"
\* Mutant for OnlyApprovedActs: the tool runs whatever was decided.
AfterFlushAlways(d) == "tool"
\* Only an approval calls the tool.
AfterFlush(d) == IF decision[d] = "approved" THEN "tool" ELSE "write"

\* write_audit's query flushes status, decider and token: the UPDATE by
\* primary key waits for another decision's transaction on the same row.
FlushDecision(d) ==
  /\ pc[d] = "flush"
  /\ \A g \in Deciders \ {d} : ~Holds(g, target[d])
  /\ Goto(d, AfterFlush(d))
  /\ UNCHANGED <<db, world, seen, target, decision>>

\* SandboxEmailProvider.send or SandboxTredsProvider.list_invoice: the file is
\* written with the token d minted.
CallTool(d) ==
  /\ pc[d] = "tool"
  /\ world' = world \cup {[approval |-> target[d], token |-> d]}
  /\ Goto(d, "write")
  /\ UNCHANGED <<db, seen, target, decision>>


\* ToolExecutionError: the tool failed before writing anything, and the
\* transaction rolls back.
ToolFails(d) ==
  /\ pc[d] = "tool"
  /\ Goto(d, "failed")
  /\ UNCHANGED <<db, world, seen, target, decision>>

\* wc_action.status after the decision.
ActionStatus(d) == IF decision[d] = "approved" THEN "executed" ELSE "rejected"

\* COMMIT of the decision: the row, the audit of the effect, and the state of
\* the working-capital action, written whatever it is by now.
CommitDecision(d) ==
  LET x == target[d] IN
  /\ pc[d] = "write"
  /\ status' = [status EXCEPT ![x] = decision[d]]
  /\ token' = [token EXCEPT ![x] = IF decision[d] = "approved" THEN d ELSE @]
  /\ sent' = IF decision[d] = "approved"
             THEN sent \cup {[approval |-> x, token |-> d]} ELSE sent
  /\ wc' = IF x \in ListingApprovals
           THEN [wc EXCEPT ![x[2]] = ActionStatus(d)] ELSE wc
  /\ Goto(d, "done")
  /\ UNCHANGED <<world, seen, target, decision>>

-----------------------------------------------------------------------------

InFlight(c) == pc[c] \notin {"idle", "done", "failed"}

\* A crash or a database error: everything but the tool's file is undone.
Fail(c) ==
  /\ InFlight(c)
  /\ Goto(c, "failed")
  /\ UNCHANGED <<db, world, seen, target, decision>>

\* Nothing in flight: the service waits for the next request.
Quiet == (\A c \in Clients : ~InFlight(c)) /\ UNCHANGED vars

Write(c) ==
  \/ c \in Chasers /\ (ReadSent(c) \/ QueueReminders(c))
  \/ c \in Planners /\ Supersede(c)
  \/ c \in Askers /\ RequestListing(c)
  \/ c \in Deciders /\ CommitDecision(c)

DecideStep(d) == FlushDecision(d) \/ CallTool(d) \/ ToolFails(d)

Next ==
  \/ \E c \in Chasers : ReadPending(c)
  \/ \E p \in Planners : ReadProposed(p)
  \/ \E k \in Askers : ReadAction(k)
  \/ \E d \in Deciders : ReadApproval(d) \/ DecideStep(d)
  \/ \E c \in Clients : Write(c) \/ Fail(c)
  \/ Quiet

Spec == Init /\ [][Next]_vars

\* A request that has begun keeps running.
FairSpec ==
  /\ Spec
  /\ \A c \in Clients : WF_vars(Write(c))
  /\ \A d \in Deciders : WF_vars(DecideStep(d))

-----------------------------------------------------------------------------
(* Properties.                                                              *)

Effects == [approval : ApprovalIds, token : Deciders]

\* Type invariant of the module's state.
TypeOK ==
  /\ status \in [ApprovalIds -> {"absent", "pending", "approved", "rejected"}]
  /\ token \in [ApprovalIds -> Deciders \cup {None}]
  /\ wc \in [Actions -> {"absent", "proposed", "approval_requested",
                         "executed", "rejected", "stale"}]
  /\ world \subseteq Effects
  /\ sent \subseteq Effects
  /\ pc \in [Clients -> {"idle", "read_sent", "flush", "tool", "write", "done", "failed"}]
  /\ seen \in [Clients -> SUBSET (Invoices \cup Actions)]
  /\ DOMAIN target = Clients
  /\ decision \in [Deciders -> {"none", "approved", "rejected"}]

\* The books never claim an effect the world has not seen: an audit row, the
\* token on an approved row and an executed action all have their message or
\* listing, because the tool runs before the decision commits.
RecordsTruthful ==
  /\ sent \subseteq world
  /\ \A x \in ApprovalIds : status[x] = "approved" =>
       token[x] # None /\ [approval |-> x, token |-> token[x]] \in world
  /\ \A a \in Actions : wc[a] = "executed" =>
       \E e \in world : e.approval \in ListingApprovals /\ e.approval[2] = a

\* Guardrail P2: whatever left the system was approved by a person on a row
\* that was pending, and no rejected row that nobody else approved has an
\* effect.
OnlyApprovedActs ==
  \A e \in world :
    /\ decision[e.token] = "approved" /\ target[e.token] = e.approval
    /\ status[e.approval] = "rejected" =>
         \E d \in Deciders : d # e.token /\ target[d] = e.approval /\ decision[d] = "rejected"

\* A decided approval never returns to the queue, whoever fails or retries.
NeverReopened ==
  [][\A x \in ApprovalIds :
       status[x] \in {"approved", "rejected"} => status'[x] \in {"approved", "rejected"}]_vars

\* A request to queue writes what nobody queued before.
QueuedOnce == \A x \in ApprovalIds : status[x] # "absent" => pc[x[1]] = "done"

\* A request under way knows what it works on.
TargetsKnown ==
  /\ \A k \in Askers : pc[k] # "idle" => target[k] \in Actions
  /\ \A d \in Deciders : pc[d] # "idle" =>
       target[d] \in ApprovalIds /\ status[target[d]] # "absent" /\ decision[d] # "none"

\* Who acts has approved, what is to be recorded was done, and a rejected row
\* was rejected by somebody.
ActsFollow ==
  /\ \A d \in Deciders : pc[d] = "tool" => decision[d] = "approved"
  /\ \A d \in Deciders : pc[d] \in {"write", "done"} /\ decision[d] = "approved" =>
       [approval |-> target[d], token |-> d] \in world
  /\ \A e \in world : /\ decision[e.token] = "approved" /\ target[e.token] = e.approval
                       /\ pc[e.token] \in {"write", "done", "failed"}
  /\ \A d \in Deciders : pc[d] = "done" => status[target[d]] \in {"approved", "rejected"}
  /\ \A x \in ApprovalIds : status[x] = "rejected" =>
       \E d \in Deciders : pc[d] = "done" /\ target[d] = x /\ decision[d] = "rejected"

\* The state is well typed, and what it records happened: the inductive
\* invariant of the module.
RecordsSound == TypeOK /\ RecordsTruthful /\ QueuedOnce /\ TargetsKnown /\ ActsFollow

\* A decision that begins after another one on the same approval committed
\* acts on nothing: only overlapping or failed decisions can act twice.
LateDecisionIsRefused ==
  [][\A d \in Deciders :
       pc[d] = "idle" /\ pc'[d] # "idle" =>
         \A g \in Deciders : pc[g] = "done" => target[g] # target'[d]]_vars

\* A decision is final, for the row and for whoever comes later.
DecisionsStand == NeverReopened /\ LateDecisionIsRefused

\* Every request that begins ends; deciders of one approval queue on its row
\* lock and never wait for each other in a circle.
RequestsEnd == \A c \in Clients : InFlight(c) ~> ~InFlight(c)

-----------------------------------------------------------------------------
(* What the documentation says and the code does not keep.                  *)

\* "It exists only for this send and is recorded on the message, the approval
\* row, and the audit chain" (decide_approval): the three agree.
TokenOnRow == \A e \in sent : token[e.approval] = e.token

\* "An invoice chased in the last 7 days isn't chased again"
\* (queue_email_drafts): no second approval for it leads to a send.
ChasedOnce ==
  \A e, f \in sent :
    e.approval \in EmailApprovals /\ f.approval \in EmailApprovals
      /\ e.approval[2] = f.approval[2] => e.approval = f.approval
=============================================================================
