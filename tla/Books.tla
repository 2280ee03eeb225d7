-------------------------------- MODULE Books --------------------------------
(***************************************************************************)
(* The reconciliation commit engine: backend/app/services/recon.py, its    *)
(* repository (books_repo.py), POST /internal/recon/commit, and the        *)
(* commit_match branch of decide_approval in services/approvals.py.        *)
(*                                                                         *)
(* Every request is one database transaction at READ COMMITTED.  An agent  *)
(* request carries a batch of critic-reviewed proposals; a human request   *)
(* decides one queued proposal.  Reads see committed rows and the          *)
(* transaction's own writes; a guarded UPDATE takes the row lock, waits    *)
(* while another transaction holds it, and reports rowcount 0 when the row *)
(* is no longer in the state the guard names.                              *)
(***************************************************************************)
EXTENDS Integers, Sequences, FiniteSets

CONSTANTS
  Invoices,          \* invoice rows
  Txns,              \* bank_transactions rows
  InvoiceAmount,     \* amount_paise of each invoice
  PaidAtOnboarding,  \* invoices imported as already paid
  Agents,            \* one id per reconciliation sweep that reaches commit
  Humans,            \* one id per decision request on the approval queue
  Batches,           \* the proposal sequences a sweep may come up with
  CONFIDENCE_FLOOR,  \* recon.CONFIDENCE_FLOOR, in percent
  None               \* no approval

Requests == Agents \cup Humans
Rows == Invoices \cup Txns

ProposalType ==
  [txn : Txns, invoice : Invoices, amount : Nat, tds : Nat,
   kind : {"full", "tds_adjusted"}, confidence : Nat]

ReviewedType ==
  [txn : Txns, invoice : Invoices, amount : Nat, tds : Nat,
   kind : {"full", "tds_adjusted"}, confidence : Nat, verdict : {"pass", "fail"}]

ASSUME RequestsApart == Agents \cap Humans = {}
ASSUME RowsApart == Invoices \cap Txns = {}
ASSUME OnboardedRows == PaidAtOnboarding \subseteq Invoices
ASSUME AmountsAreNat == InvoiceAmount \in [Invoices -> Nat]
ASSUME BatchesTyped == Batches \subseteq Seq(ProposalType)
ASSUME FloorIsNat == CONFIDENCE_FLOOR \in Nat

\* An approval row is named by the sweep that queued it and the position of
\* its proposal in that sweep's batch.
ApprovalIds == Agents \X Nat

VARIABLES
  taken,      \* committed: invoices with status paid, txns with status matched
  matches,    \* committed matches, each with the ledger lines posted for it
  approvals,  \* committed approval rows: a set of [id, status]
  pc,         \* where each request is
  pos,        \* index of the proposal being worked on
  batch,      \* the request's reviewed proposals
  ap,         \* the approval a human request decides
  decision,   \* what the human decided
  held,       \* rows whose lock the request's transaction holds
  staged,     \* rows it has flipped to paid/matched, not yet committed
  posted,     \* matches it has inserted, not yet committed
  queued      \* positions of the proposals it has queued, not yet committed

books == <<taken, matches, approvals>>
txvars == <<held, staged, posted, queued>>
vars == <<taken, matches, approvals, pc, pos, batch, ap, decision,
          held, staged, posted, queued>>

Init ==
  /\ taken = PaidAtOnboarding
  /\ matches = {}
  /\ approvals = {}
  /\ pc = [r \in Requests |-> "idle"]
  /\ pos = [r \in Requests |-> 1]
  /\ batch = [r \in Requests |-> <<>>]
  /\ ap = [r \in Requests |-> None]
  /\ decision = [r \in Requests |-> "none"]
  /\ held = [r \in Requests |-> {}]
  /\ staged = [r \in Requests |-> {}]
  /\ posted = [r \in Requests |-> {}]
  /\ queued = [r \in Requests |-> {}]

-----------------------------------------------------------------------------
(* The sweep: match and critic nodes of the reconciliation graph.           *)

\* critic_review: the amount and the deduction add up to the invoice, a
\* tds_adjusted proposal has a deduction, and neither row was seen earlier in
\* the batch.
CriticPasses(b, k) ==
  LET p == b[k] IN
  /\ p.amount + p.tds = InvoiceAmount[p.invoice]
  /\ p.kind = "tds_adjusted" => p.tds > 0
  /\ \A j \in 1..(k - 1) : b[j].txn # p.txn /\ b[j].invoice # p.invoice

\* The critic node: the deterministic verdict, minus the vetoes of the LLM
\* pass, which can fail a proposal and never revive one.
Review(b, vetoes) ==
  [k \in DOMAIN b |->
     [txn |-> b[k].txn, invoice |-> b[k].invoice, amount |-> b[k].amount,
      tds |-> b[k].tds, kind |-> b[k].kind, confidence |-> b[k].confidence,
      verdict |-> IF CriticPasses(b, k) /\ k \notin vetoes
                  THEN "pass" ELSE "fail"]]

\* A sweep reads the open invoices and unmatched transactions, proposes and
\* reviews.  By the time its batch is committed the context may be stale.
Propose(a) ==
  /\ pc[a] = "idle"
  /\ \E b \in Batches : \E vetoes \in SUBSET DOMAIN b :
       /\ b # <<>>
       /\ \A k \in DOMAIN b : b[k].txn \notin taken /\ b[k].invoice \notin taken
       /\ batch' = [batch EXCEPT ![a] = Review(b, vetoes)]
  /\ pc' = [pc EXCEPT ![a] = "validate"]
  /\ UNCHANGED <<taken, matches, approvals, pos, ap, decision,
                 held, staged, posted, queued>>

-----------------------------------------------------------------------------
(* One proposal: route_proposal and commit_proposal.                        *)

Current(r) == batch[r][pos[r]]

\* _balance_problem found nothing.
Balances(p) ==
  IF p.kind = "tds_adjusted"
  THEN p.tds > 0 /\ p.amount + p.tds = InvoiceAmount[p.invoice]
  ELSE p.amount = InvoiceAmount[p.invoice]

\* committed_match_for_target, as r's transaction sees it.
TargetMatched(r, i) == \E m \in matches \cup posted[r] : m.prop.invoice = i

\* _validate: invoice open, no committed match, critic pass, amounts balance.
Valid(r, p) ==
  /\ p.invoice \notin taken \cup staged[r]
  /\ ~TargetMatched(r, p.invoice)
  /\ p.verdict = "pass"
  /\ Balances(p)

\* Mutant for PostedAsApproved: the floor is not checked.
MayPostAny(r, p) == TRUE
\* The confidence floor; a human decision stands in for it.
MayPost(r, p) == r \in Humans \/ p.confidence >= CONFIDENCE_FLOOR

\* On to the next proposal, or to COMMIT after the last one.
Advance(r) ==
  /\ pos' = [pos EXCEPT ![r] = @ + 1]
  /\ pc' = [pc EXCEPT ![r] = IF pos[r] < Len(batch[r]) THEN "validate" ELSE "commit"]

\* The proposal is refused and the batch goes on.
RejectProposal(r) ==
  /\ pc[r] = "validate"
  /\ ~Valid(r, Current(r))
  /\ Advance(r)
  /\ UNCHANGED <<books, batch, ap, decision, txvars>>

\* Valid but below the floor: route_proposal queues it for a person.
QueueApproval(r) ==
  /\ pc[r] = "validate"
  /\ Valid(r, Current(r)) /\ ~MayPost(r, Current(r))
  /\ queued' = [queued EXCEPT ![r] = @ \cup {pos[r]}]
  /\ Advance(r)
  /\ UNCHANGED <<books, batch, ap, decision, held, staged, posted>>

\* Valid and allowed to post.  route_proposal still holds the invoice object,
\* so commit_proposal's second _validate reads it from the session's identity
\* map; a human request validates once.
AcceptProposal(r) ==
  /\ pc[r] = "validate"
  /\ Valid(r, Current(r)) /\ MayPost(r, Current(r))
  /\ pc' = [pc EXCEPT ![r] = IF r \in Humans THEN "claim_invoice" ELSE "revalidate"]
  /\ UNCHANGED <<books, pos, batch, ap, decision, txvars>>

\* The second _validate of an agent request: only the match query goes to the
\* database again.
Revalidate(r) ==
  /\ pc[r] = "revalidate"
  /\ IF TargetMatched(r, Current(r).invoice)
     THEN Advance(r)
     ELSE pc' = [pc EXCEPT ![r] = "claim_invoice"] /\ UNCHANGED pos
  /\ UNCHANGED <<books, batch, ap, decision, txvars>>

-----------------------------------------------------------------------------
(* Guarded UPDATEs under row locks.                                         *)

HeldByOther(r, row) == \E q \in Requests \ {r} : row \in held[q]

\* Mutant for SettledOnce: the UPDATE has no guard on the status.
GuardFailsOwn(r, row) == row \in staged[r]
\* The guard no longer holds: rowcount 0, no lock taken, no waiting.
GuardFails(r, row) == row \in taken \cup staged[r]

\* Mutant for Inv: the UPDATE does not wait for the row's lock.
GuardHoldsUnlocked(r, row) == ~GuardFails(r, row)
\* The row is in the guarded state and its lock is free or already ours.
GuardHolds(r, row) == ~GuardFails(r, row) /\ ~HeldByOther(r, row)

\* set_invoice_paid found the invoice paid.
InvoiceLost(r) ==
  /\ pc[r] = "claim_invoice"
  /\ GuardFails(r, Current(r).invoice)
  /\ Advance(r)
  /\ UNCHANGED <<books, batch, ap, decision, txvars>>

\* set_invoice_paid: open -> paid, staged under the row lock.
ClaimInvoice(r) ==
  /\ pc[r] = "claim_invoice"
  /\ GuardHolds(r, Current(r).invoice)
  /\ held' = [held EXCEPT ![r] = @ \cup {Current(r).invoice}]
  /\ staged' = [staged EXCEPT ![r] = @ \cup {Current(r).invoice}]
  /\ pc' = [pc EXCEPT ![r] = "claim_txn"]
  /\ UNCHANGED <<books, pos, batch, ap, decision, posted, queued>>

\* Mutant for BooksAgree: the staged flip of the invoice is not undone.
TxnLostKeepsInvoice(r) ==
  /\ pc[r] = "claim_txn"
  /\ GuardFails(r, Current(r).txn)
  /\ Advance(r)
  /\ UNCHANGED <<books, batch, ap, decision, txvars>>

\* set_transaction_matched found the transaction matched: revert_invoice_open
\* undoes the staged flip; the invoice's lock is kept until the end.
TxnLost(r) ==
  /\ pc[r] = "claim_txn"
  /\ GuardFails(r, Current(r).txn)
  /\ staged' = [staged EXCEPT ![r] = @ \ {Current(r).invoice}]
  /\ Advance(r)
  /\ UNCHANGED <<books, batch, ap, decision, held, posted, queued>>

\* Mutant for EntriesBalance: the deduction gets no line.
LinesWithoutTds(p) ==
  [bank |-> p.amount, tds_receivable |-> 0, receivable |-> -InvoiceAmount[p.invoice]]
\* The lines of the ledger entry commit_proposal writes for p.
Lines(p) ==
  [bank |-> p.amount, tds_receivable |-> p.tds, receivable |-> -InvoiceAmount[p.invoice]]

\* set_transaction_matched: unmatched -> matched, then the match, its ledger
\* entry and the audit row are inserted in the same transaction.
ClaimTxnAndPost(r) ==
  /\ pc[r] = "claim_txn"
  /\ GuardHolds(r, Current(r).txn)
  /\ held' = [held EXCEPT ![r] = @ \cup {Current(r).txn}]
  /\ staged' = [staged EXCEPT ![r] = @ \cup {Current(r).txn}]
  /\ posted' = [posted EXCEPT ![r] =
                  @ \cup {[prop |-> Current(r), req |-> r, lines |-> Lines(Current(r))]}]
  /\ Advance(r)
  /\ UNCHANGED <<books, batch, ap, decision, queued>>

-----------------------------------------------------------------------------
(* The human side: decide_approval on a queued commit_match.                *)

\* The decision reads the row without a lock and goes on only if it is
\* pending.  action_payload is never written after the request, so the hash
\* check holds and the payload is the queued proposal.
ReadApproval(h) ==
  /\ pc[h] = "idle"
  /\ \E row \in approvals : \E d \in {"approved", "rejected"} :
       /\ row.status = "pending"
       /\ ap' = [ap EXCEPT ![h] = row.id]
       /\ batch' = [batch EXCEPT ![h] = <<batch[row.id[1]][row.id[2]]>>]
       /\ decision' = [decision EXCEPT ![h] = d]
  /\ pc' = [pc EXCEPT ![h] = "decide"]
  /\ UNCHANGED <<books, pos, txvars>>

\* h's transaction has flushed its UPDATE of the approval row.
HoldsApproval(h) ==
  h \in Humans /\ pc[h] \in {"validate", "claim_invoice", "claim_txn", "commit"}

\* The first flush (write_audit's query) updates the row by primary key: it
\* waits for another decider's transaction and then overwrites what that one
\* wrote.  Approval goes on to commit_proposal, rejection straight to COMMIT.
Decide(h) ==
  /\ pc[h] = "decide"
  /\ \A g \in Humans \ {h} : HoldsApproval(g) => ap[g] # ap[h]
  /\ pc' = [pc EXCEPT ![h] = IF decision[h] = "approved" THEN "validate" ELSE "commit"]
  /\ UNCHANGED <<books, pos, batch, ap, decision, txvars>>

-----------------------------------------------------------------------------
(* The end of a transaction.                                                *)

\* Mutant for RequestsEnd: the session is not ended, and its row locks stay.
LocksKept(r) ==
  /\ staged' = [staged EXCEPT ![r] = {}]
  /\ posted' = [posted EXCEPT ![r] = {}]
  /\ queued' = [queued EXCEPT ![r] = {}]
  /\ UNCHANGED held
\* The session ends: its row locks go, and what it had staged.
Release(r) ==
  /\ held' = [held EXCEPT ![r] = {}]
  /\ staged' = [staged EXCEPT ![r] = {}]
  /\ posted' = [posted EXCEPT ![r] = {}]
  /\ queued' = [queued EXCEPT ![r] = {}]

\* The approval rows after r's COMMIT: its own inserts, or its decision.
ApprovalsAfter(r) ==
  IF r \in Humans
  THEN {row \in approvals : row.id # ap[r]} \cup {[id |-> ap[r], status |-> decision[r]]}
  ELSE approvals \cup {[id |-> <<r, k>>, status |-> "pending"] : k \in queued[r]}

\* Mutant for RefinesSettlement: the matches are committed without the flips.
CommitMatchesOnly(r) ==
  /\ pc[r] = "commit"
  /\ matches' = matches \cup posted[r]
  /\ approvals' = ApprovalsAfter(r)
  /\ Release(r)
  /\ pc' = [pc EXCEPT ![r] = "done"]
  /\ UNCHANGED <<taken, pos, batch, ap, decision>>

\* session_scope commits: everything the request staged appears at once.
Commit(r) ==
  /\ pc[r] = "commit"
  /\ taken' = taken \cup staged[r]
  /\ matches' = matches \cup posted[r]
  /\ approvals' = ApprovalsAfter(r)
  /\ Release(r)
  /\ pc' = [pc EXCEPT ![r] = "done"]
  /\ UNCHANGED <<pos, batch, ap, decision>>

InFlight(r) == pc[r] \notin {"idle", "done", "failed", "victim"}

\* A crash, a lost connection or an exception: the transaction rolls back.
Fail(r) ==
  /\ InFlight(r)
  /\ Release(r)
  /\ pc' = [pc EXCEPT ![r] = "failed"]
  /\ UNCHANGED <<books, pos, batch, ap, decision>>

\* r is blocked in an UPDATE of a row q has locked.
WaitsFor(r, q) ==
  \/ /\ pc[r] = "claim_invoice"
     /\ Current(r).invoice \in held[q] \ (taken \cup staged[r])
  \/ /\ pc[r] = "claim_txn"
     /\ Current(r).txn \in held[q] \ (taken \cup staged[r])

\* r is on a cycle of waiting transactions.
Deadlocked(r) ==
  \E S \in SUBSET Requests :
    /\ r \in S
    /\ \A q \in S : /\ \E p \in S \ {q} : WaitsFor(q, p)
                    /\ \E p \in S \ {q} : WaitsFor(p, q)

\* Postgres's deadlock detector aborts a transaction of the cycle.
DeadlockVictim(r) ==
  /\ Deadlocked(r)
  /\ Release(r)
  /\ pc' = [pc EXCEPT ![r] = "victim"]
  /\ UNCHANGED <<books, pos, batch, ap, decision>>

\* Nothing is in flight; the service waits for the next request.
Quiet == (\A r \in Requests : ~InFlight(r)) /\ UNCHANGED vars

\* What a request that has begun does by itself.
Step(r) ==
  \/ RejectProposal(r)
  \/ QueueApproval(r)
  \/ AcceptProposal(r)
  \/ Revalidate(r)
  \/ InvoiceLost(r)
  \/ ClaimInvoice(r)
  \/ TxnLost(r)
  \/ ClaimTxnAndPost(r)
  \/ Commit(r)

Next ==
  \/ \E a \in Agents : Propose(a)
  \/ \E h \in Humans : ReadApproval(h)
  \/ \E h \in Humans : Decide(h)
  \/ \E r \in Requests : Step(r)
  \/ \E r \in Requests : Fail(r)
  \/ \E r \in Requests : DeadlockVictim(r)
  \/ Quiet

Spec == Init /\ [][Next]_vars

\* A request that has begun keeps running, and the deadlock detector runs.
FairSpec ==
  /\ Spec
  /\ \A r \in Requests : WF_vars(Step(r))
  /\ \A h \in Humans : WF_vars(Decide(h))
  /\ \A r \in Requests : WF_vars(DeadlockVictim(r))
-----------------------------------------------------------------------------
(* Properties.                                                              *)

RowsOf(m) == {m.prop.invoice, m.prop.txn}
AllRows(S) == UNION {RowsOf(m) : m \in S}

LinesType == [bank : Nat, tds_receivable : Nat, receivable : Int]
MatchType == [prop : ReviewedType, req : Requests, lines : LinesType]
ApprovalType == [id : ApprovalIds, status : {"pending", "approved", "rejected"}]

PCs == {"idle", "decide", "validate", "revalidate", "claim_invoice", "claim_txn",
        "commit", "done", "failed", "victim"}

\* Type invariant of the module's state.
TypeOK ==
  /\ taken \in SUBSET Rows
  /\ matches \in SUBSET MatchType
  /\ approvals \in SUBSET ApprovalType
  /\ pc \in [Requests -> PCs]
  /\ pos \in [Requests -> Nat \ {0}]
  /\ batch \in [Requests -> Seq(ReviewedType)]
  /\ ap \in [Requests -> ApprovalIds \cup {None}]
  /\ decision \in [Requests -> {"none", "approved", "rejected"}]
  /\ held \in [Requests -> SUBSET Rows]
  /\ staged \in [Requests -> SUBSET Rows]
  /\ posted \in [Requests -> SUBSET MatchType]
  /\ queued \in [Requests -> SUBSET (Nat \ {0})]

\* No invoice and no bank transaction is settled by two committed matches,
\* whatever sweeps and human decisions interleave: the guarded UPDATEs of
\* books_repo.py make exactly one committer win, so the unique index
\* uq_committed_match_target of migration 0011 never has to fire.
SettledOnce ==
  \A m, n \in matches : m # n => RowsOf(m) \cap RowsOf(n) = {}

\* The status columns and the matches table never drift apart: a row is paid
\* or matched exactly when a committed match (or onboarding) settled it, so
\* revert_invoice_open and every rollback leave no half-settled pair.
BooksAgree == taken = PaidAtOnboarding \cup AllRows(matches)

\* Every posted ledger entry sums to zero, for TDS-adjusted matches too.
EntriesBalance ==
  \A m \in matches : m.lines.bank + m.lines.tds_receivable + m.lines.receivable = 0

\* A match below the confidence floor was posted by a human request that
\* approved exactly the proposal the agent queued (guardrail P3 and the
\* no-approve-then-mutate rule of approvals.py).
PostedAsApproved ==
  \A m \in matches :
    \/ m.prop.confidence >= CONFIDENCE_FLOOR
    \/ /\ m.req \in Humans
       /\ decision[m.req] = "approved"
       /\ m.prop = batch[ap[m.req][1]][ap[m.req][2]]

\* A commit of one transaction is one atomic settlement of the abstract books:
\* the settled rows stand for the statuses, the matches for themselves.
Promise == INSTANCE Settlement WITH
    PaidAtOnboarding <- PaidAtOnboarding, Humans <- Humans,
    CONFIDENCE_FLOOR <- CONFIDENCE_FLOOR, taken <- taken, matches <- matches
RefinesSettlement == Promise!Spec

\* Every request that begins ends, by COMMIT or ROLLBACK: row locks taken in
\* batch order can deadlock, but the detector breaks every cycle.
RequestsEnd == \A r \in Requests : InFlight(r) ~> ~InFlight(r)

-----------------------------------------------------------------------------
(* The inductive invariant behind the safety properties.                    *)

Claiming == {"revalidate", "claim_invoice", "claim_txn"}
Working == {"validate"} \cup Claiming

\* Row locks are exclusive.
LocksExclusive ==
  \A r, q \in Requests : r # q => held[r] \cap held[q] = {}

\* A flip is staged only under the row's lock, and a locked row is still in
\* the state the guarded UPDATE asked for.
StagedUnderLock ==
  \A r \in Requests : staged[r] \subseteq held[r] /\ held[r] \cap taken = {}

\* What a transaction has flipped is what its matches settle, plus the invoice
\* of a proposal whose bank transaction is still to be claimed.
StagedIsPosted ==
  \A r \in Requests :
    IF pc[r] = "claim_txn"
    THEN /\ staged[r] = AllRows(posted[r]) \cup {Current(r).invoice}
         /\ Current(r).invoice \notin AllRows(posted[r])
    ELSE staged[r] = AllRows(posted[r])

\* A proposal that reached the guarded UPDATEs passed every check on the way.
AcceptedSound ==
  \A r \in Requests :
    /\ pc[r] \in {"idle", "decide"} => pos[r] = 1
    /\ pc[r] \in Working => pos[r] \in DOMAIN batch[r]
    /\ pc[r] \in Claiming => /\ Current(r).verdict = "pass"
                             /\ Balances(Current(r))
                             /\ MayPost(r, Current(r))

\* The critic passes only proposals whose amounts add up.
VerdictSound ==
  \A r \in Requests : \A k \in DOMAIN batch[r] :
    batch[r][k].verdict = "pass" =>
      batch[r][k].amount + batch[r][k].tds = InvoiceAmount[batch[r][k].invoice]

\* A queued approval names a proposal of a sweep that has begun.
Names(x) == x[1] \in Agents /\ pc[x[1]] # "idle" /\ x[2] \in DOMAIN batch[x[1]]
ApprovalsNamed ==
  /\ \A row \in approvals : Names(row.id)
  /\ \A r \in Requests : \A k \in queued[r] : r \in Agents /\ k \in DOMAIN batch[r] /\ pc[r] # "idle"

\* A human request works on exactly the proposal that was queued.
DecisionBound ==
  \A h \in Humans : pc[h] # "idle" =>
    /\ ap[h] \in ApprovalIds /\ Names(ap[h])
    /\ decision[h] # "none"
    /\ batch[h] = <<batch[ap[h][1]][ap[h][2]]>>
    /\ pc[h] \in Working => decision[h] = "approved"

\* m is the record of a sound posting by request r.
SoundPosting(m, r) ==
  /\ m.req = r
  /\ pc[r] # "idle"
  /\ m.lines.bank + m.lines.tds_receivable + m.lines.receivable = 0
  /\ \/ m.prop.confidence >= CONFIDENCE_FLOOR
     \/ /\ r \in Humans
        /\ decision[r] = "approved"
        /\ m.prop = batch[ap[r][1]][ap[r][2]]

PostedSound ==
  /\ \A r \in Requests : \A m \in posted[r] : SoundPosting(m, r)
  /\ \A m \in matches : SoundPosting(m, m.req)
  /\ \A r \in Requests : \A m, n \in posted[r] : m # n => RowsOf(m) \cap RowsOf(n) = {}

\* Every transaction's uncommitted work is private and consistent: this is
\* what makes COMMIT a sound atomic step whatever else is in flight.
TransactionsSound ==
  /\ LocksExclusive
  /\ StagedUnderLock
  /\ StagedIsPosted
  /\ AcceptedSound
  /\ VerdictSound
  /\ ApprovalsNamed
  /\ DecisionBound
  /\ PostedSound
  /\ BooksAgree
  /\ SettledOnce
\* The inductive invariant: the state is well typed and every transaction's
\* uncommitted work sound.
Inv == TypeOK /\ TransactionsSound
=============================================================================
