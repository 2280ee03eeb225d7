----------------------------- MODULE BooksProofs -----------------------------
(***************************************************************************)
(* Proofs about Books for every set of requests, rows and batches: type    *)
(* correctness, the inductive invariant behind the row locks, the safety   *)
(* properties of the books, and that Books implements Settlement.          *)
(***************************************************************************)
EXTENDS Books, SequenceTheorems, TLAPS

-----------------------------------------------------------------------------
(* The sweep's review.                                                      *)

\* A reviewed batch has the length of the proposed one.
LEMMA ReviewDomain ==
  ASSUME NEW b \in Batches, NEW vetoes
  PROVE  /\ Review(b, vetoes) \in Seq(ReviewedType)
         /\ DOMAIN Review(b, vetoes) = DOMAIN b
  <1>1. /\ b \in Seq(ProposalType)
        /\ DOMAIN b = 1..Len(b) /\ Len(b) \in Nat
        /\ \A k \in DOMAIN b : b[k] \in ProposalType
    BY BatchesTyped
  <1>2. ASSUME NEW k \in DOMAIN b
        PROVE  Review(b, vetoes)[k] \in ReviewedType
    BY <1>1 DEF Review, ProposalType, ReviewedType
  <1>3. Review(b, vetoes) \in [1..Len(b) -> ReviewedType]
    BY <1>1, <1>2 DEF Review
  <1>4. QED
    BY <1>1, <1>3, SeqDef

\* What the critic passes adds up to the invoice.
LEMMA ReviewSound ==
  ASSUME NEW b \in Batches, NEW vetoes, NEW k \in DOMAIN b,
         Review(b, vetoes)[k].verdict = "pass"
  PROVE  Review(b, vetoes)[k].amount + Review(b, vetoes)[k].tds
           = InvoiceAmount[Review(b, vetoes)[k].invoice]
  BY DEF Review, CriticPasses

-----------------------------------------------------------------------------
(* Type correctness.                                                        *)

LEMMA TypeInit == Init => TypeOK
  BY OnboardedRows DEF Init, TypeOK, Requests, Rows, PCs

LEMMA CurrentTyped ==
  ASSUME TypeOK, NEW r \in Requests, pos[r] \in DOMAIN batch[r]
  PROVE  Current(r) \in ReviewedType
  BY DEF TypeOK, Current

-----------------------------------------------------------------------------
(* The inductive invariant.                                                 *)

LEMMA InvInit == Init => Inv
  <1> SUFFICES ASSUME Init PROVE Inv
    OBVIOUS
  <1>1. TypeOK
    BY TypeInit
  <1>2. LocksExclusive /\ StagedUnderLock
    BY DEF Init, LocksExclusive, StagedUnderLock
  <1>3. StagedIsPosted
    BY DEF Init, StagedIsPosted, AllRows
  <1>4. AcceptedSound /\ VerdictSound
    BY DEF Init, AcceptedSound, VerdictSound, Working, Claiming
  <1>5. ApprovalsNamed /\ DecisionBound /\ PostedSound
    BY DEF Init, ApprovalsNamed, DecisionBound, PostedSound, Requests
  <1>6. BooksAgree /\ SettledOnce
    BY DEF Init, BooksAgree, SettledOnce, AllRows
  <1> QED
    BY <1>1, <1>2, <1>3, <1>4, <1>5, <1>6 DEF Inv, TransactionsSound

\* Moving the request's program counter without touching any row keeps the
\* invariant, provided the new place in the batch deserves it.
LEMMA MoveKeepsInv ==
  ASSUME Inv, NEW r \in Requests, NEW s \in PCs \ {"idle", "decide", "claim_txn"}, NEW n \in Nat \ {0},
         pc[r] \notin {"idle", "claim_txn"},
         pc' = [pc EXCEPT ![r] = s],
         pos' = [pos EXCEPT ![r] = n],
         s \in Working => n \in DOMAIN batch[r],
         s \in Claiming => /\ batch[r][n].verdict = "pass"
                          /\ Balances(batch[r][n])
                          /\ MayPost(r, batch[r][n]),
         s \in Working /\ r \in Humans => decision[r] = "approved",
         UNCHANGED <<books, batch, ap, decision, txvars>>
  PROVE  Inv'
  <1> USE DEF Inv, TransactionsSound, books, txvars
  <1>1. TypeOK'
    BY DEF TypeOK
  <1>2. LocksExclusive' /\ StagedUnderLock'
    BY DEF LocksExclusive, StagedUnderLock
  <1>3. StagedIsPosted'
    <2> SUFFICES ASSUME NEW q \in Requests
                 PROVE  (IF pc[q] = "claim_txn"
                         THEN /\ staged[q] = AllRows(posted[q]) \cup {Current(q).invoice}
                              /\ Current(q).invoice \notin AllRows(posted[q])
                         ELSE staged[q] = AllRows(posted[q]))'
      BY DEF StagedIsPosted
    <2>1. CASE q = r
      BY <2>1 DEF TypeOK, StagedIsPosted
    <2>2. CASE q # r
      <3>1. pc'[q] = pc[q] /\ Current(q)' = Current(q)
        BY <2>2 DEF TypeOK, Current
      <3> QED
        BY <3>1 DEF StagedIsPosted
    <2> QED
      BY <2>1, <2>2
  <1>4. AcceptedSound'
    BY DEF AcceptedSound, TypeOK, Current, Working, Claiming, Balances, MayPost
  <1>5. VerdictSound'
    BY DEF VerdictSound
  <1>6. ApprovalsNamed'
    BY DEF ApprovalsNamed, Names, TypeOK
  <1>7. DecisionBound'
    BY DEF DecisionBound, Names, TypeOK, Requests, Working, Claiming
  <1>8. PostedSound'
    BY DEF PostedSound, SoundPosting, TypeOK, RowsOf
  <1>9. BooksAgree' /\ SettledOnce'
    BY DEF BooksAgree, SettledOnce
  <1> QED
    BY <1>1, <1>2, <1>3, <1>4, <1>5, <1>6, <1>7, <1>8, <1>9

\* After a proposal is dealt with, the next place is inside the batch or COMMIT.
LEMMA AdvanceTarget ==
  ASSUME TypeOK, AcceptedSound, NEW r \in Requests, pc[r] \in Working, Advance(r)
  PROVE  \E s \in {"validate", "commit"} : \E n \in Nat \ {0} :
           /\ pc' = [pc EXCEPT ![r] = s]
           /\ pos' = [pos EXCEPT ![r] = n]
           /\ s = "validate" => n \in DOMAIN batch[r]
  <1>1. pos[r] \in Nat \ {0} /\ batch[r] \in Seq(ReviewedType)
    BY DEF TypeOK
  <1>2. DOMAIN batch[r] = 1..Len(batch[r]) /\ Len(batch[r]) \in Nat
    BY <1>1
  <1> DEFINE n == pos[r] + 1
  <1> DEFINE s == IF pos[r] < Len(batch[r]) THEN "validate" ELSE "commit"
  <1>3. pos' = [pos EXCEPT ![r] = n] /\ pc' = [pc EXCEPT ![r] = s]
    BY DEF Advance
  <1>4. /\ n \in Nat \ {0} /\ s \in {"validate", "commit"}
        /\ s = "validate" => n \in DOMAIN batch[r]
    BY <1>1, <1>2
  <1> HIDE DEF n, s
  <1> QED
    BY <1>3, <1>4

\* A human request is past the decision only if it approved.
LEMMA HumansApproved ==
  ASSUME Inv, NEW r \in Requests, pc[r] \in Working, r \in Humans
  PROVE  decision[r] = "approved"
  BY DEF Inv, TransactionsSound, DecisionBound, Working, Claiming

LEMMA AdvanceKeepsInv ==
  ASSUME Inv, NEW r \in Requests, pc[r] \in {"validate", "revalidate", "claim_invoice"},
         Advance(r), UNCHANGED <<books, batch, ap, decision, txvars>>
  PROVE  Inv'
  <1>1. pc[r] \in Working /\ TypeOK /\ AcceptedSound
    BY DEF Working, Claiming, Inv, TransactionsSound
  <1>2. PICK s \in {"validate", "commit"} : \E n \in Nat \ {0} :
           /\ pc' = [pc EXCEPT ![r] = s]
           /\ pos' = [pos EXCEPT ![r] = n]
           /\ s = "validate" => n \in DOMAIN batch[r]
    BY <1>1, AdvanceTarget
  <1>3. PICK n \in Nat \ {0} :
           /\ pc' = [pc EXCEPT ![r] = s]
           /\ pos' = [pos EXCEPT ![r] = n]
           /\ s = "validate" => n \in DOMAIN batch[r]
    BY <1>2
  <1>4. /\ s \in PCs \ {"idle", "decide", "claim_txn"}
        /\ s \in Working => n \in DOMAIN batch[r]
        /\ s \notin Claiming
        /\ r \in Humans => decision[r] = "approved"
    BY <1>1, <1>3, HumansApproved DEF PCs, Working, Claiming
  <1> QED
    BY <1>3, <1>4, MoveKeepsInv

LEMMA StayKeepsInv ==
  ASSUME Inv, NEW r \in Requests, NEW s \in PCs \ {"idle", "decide", "claim_txn"},
         pc[r] \notin {"idle", "claim_txn"},
         pc' = [pc EXCEPT ![r] = s],
         s \in Working => pos[r] \in DOMAIN batch[r],
         s \in Claiming => /\ Current(r).verdict = "pass"
                          /\ Balances(Current(r))
                          /\ MayPost(r, Current(r)),
         s \in Working /\ r \in Humans => decision[r] = "approved",
         UNCHANGED <<books, pos, batch, ap, decision, txvars>>
  PROVE  Inv'
  <1>1. pos[r] \in Nat \ {0} /\ pos' = [pos EXCEPT ![r] = pos[r]]
    BY DEF Inv, TypeOK
  <1> QED
    BY <1>1, MoveKeepsInv DEF Current

LEMMA RejectProposalInv ==
  ASSUME Inv, NEW r \in Requests, RejectProposal(r) PROVE Inv'
  BY AdvanceKeepsInv DEF RejectProposal

LEMMA AcceptProposalInv ==
  ASSUME Inv, NEW r \in Requests, AcceptProposal(r) PROVE Inv'
  <1> DEFINE s == IF r \in Humans THEN "claim_invoice" ELSE "revalidate"
  <1>1. pc[r] = "validate" /\ pc' = [pc EXCEPT ![r] = s]
    BY DEF AcceptProposal
  <1>2. s \in PCs \ {"idle", "decide", "claim_txn"}
    BY DEF PCs
  <1>3. pos[r] \in DOMAIN batch[r]
    BY <1>1 DEF Inv, TransactionsSound, AcceptedSound, Working
  <1>4. Current(r).verdict = "pass" /\ Balances(Current(r)) /\ MayPost(r, Current(r))
    BY DEF AcceptProposal, Valid
  <1>5. r \in Humans => decision[r] = "approved"
    BY <1>1, HumansApproved DEF Working
  <1>6. UNCHANGED <<books, pos, batch, ap, decision, txvars>>
    BY DEF AcceptProposal
  <1> HIDE DEF s
  <1> QED
    BY <1>1, <1>2, <1>3, <1>4, <1>5, <1>6, StayKeepsInv

LEMMA RevalidateInv ==
  ASSUME Inv, NEW r \in Requests, Revalidate(r) PROVE Inv'
  <1>1. pc[r] = "revalidate" /\ UNCHANGED <<books, batch, ap, decision, txvars>>
    BY DEF Revalidate
  <1>2. CASE TargetMatched(r, Current(r).invoice)
    <2>1. Advance(r)
      BY <1>2 DEF Revalidate
    <2> QED
      BY <1>1, <2>1, AdvanceKeepsInv
  <1>3. CASE ~TargetMatched(r, Current(r).invoice)
    <2>1. pc' = [pc EXCEPT ![r] = "claim_invoice"] /\ UNCHANGED pos
      BY <1>3 DEF Revalidate
    <2>2. /\ pos[r] \in DOMAIN batch[r]
          /\ Current(r).verdict = "pass" /\ Balances(Current(r)) /\ MayPost(r, Current(r))
      BY <1>1 DEF Inv, TransactionsSound, AcceptedSound, Working, Claiming
    <2>3. r \in Humans => decision[r] = "approved"
      BY <1>1, HumansApproved DEF Working, Claiming
    <2>4. "claim_invoice" \in PCs \ {"idle", "decide", "claim_txn"}
      BY DEF PCs
    <2> QED
      BY <1>1, <2>1, <2>2, <2>3, <2>4, StayKeepsInv
  <1> QED
    BY <1>2, <1>3

LEMMA InvoiceLostInv ==
  ASSUME Inv, NEW r \in Requests, InvoiceLost(r) PROVE Inv'
  BY AdvanceKeepsInv DEF InvoiceLost

LEMMA DecideInv ==
  ASSUME Inv, NEW h \in Humans, Decide(h) PROVE Inv'
  <1> DEFINE s == IF decision[h] = "approved" THEN "validate" ELSE "commit"
  <1>1. h \in Requests /\ pc[h] = "decide" /\ pc' = [pc EXCEPT ![h] = s]
    BY DEF Decide, Requests
  <1>2. s \in PCs \ {"idle", "decide", "claim_txn"} /\ s \notin Claiming
    BY DEF PCs, Claiming
  <1>3. s \in Working => decision[h] = "approved"
    BY DEF Working, Claiming
  <1>4. pos[h] \in DOMAIN batch[h]
    <2>1. pos[h] = 1
      BY <1>1 DEF Inv, TransactionsSound, AcceptedSound
    <2>2. batch[h] = <<batch[ap[h][1]][ap[h][2]]>>
      BY <1>1 DEF Inv, TransactionsSound, DecisionBound
    <2> QED
      BY <2>1, <2>2
  <1>5. UNCHANGED <<books, pos, batch, ap, decision, txvars>>
    BY DEF Decide
  <1> HIDE DEF s
  <1> QED
    BY <1>1, <1>2, <1>3, <1>4, <1>5, StayKeepsInv

LEMMA QueueApprovalInv ==
  ASSUME Inv, NEW r \in Requests, QueueApproval(r) PROVE Inv'
  <1>1. pc[r] = "validate" /\ Advance(r) /\ ~MayPost(r, Current(r))
    BY DEF QueueApproval
  <1>2. r \in Agents
    BY <1>1 DEF MayPost, Requests
  <1>3. pos[r] \in DOMAIN batch[r]
    BY <1>1 DEF Inv, TransactionsSound, AcceptedSound, Working
  <1>4. queued' = [queued EXCEPT ![r] = @ \cup {pos[r]}]
        /\ UNCHANGED <<taken, matches, approvals, batch, ap, decision, held, staged, posted>>
    BY DEF QueueApproval, books
  <1>5. PICK s \in {"validate", "commit"} : \E n \in Nat \ {0} :
           /\ pc' = [pc EXCEPT ![r] = s]
           /\ pos' = [pos EXCEPT ![r] = n]
           /\ s = "validate" => n \in DOMAIN batch[r]
    BY <1>1, AdvanceTarget DEF Inv, TransactionsSound, Working
  <1>6. PICK n \in Nat \ {0} :
           /\ pc' = [pc EXCEPT ![r] = s]
           /\ pos' = [pos EXCEPT ![r] = n]
           /\ s = "validate" => n \in DOMAIN batch[r]
    BY <1>5
  <1> USE DEF Inv, TransactionsSound
  <1>7. TypeOK'
    BY <1>4, <1>6 DEF TypeOK, PCs
  <1>8. LocksExclusive' /\ StagedUnderLock'
    BY <1>4 DEF LocksExclusive, StagedUnderLock
  <1>9. StagedIsPosted'
    BY <1>1, <1>4, <1>6 DEF StagedIsPosted, TypeOK, Current
  <1>10. AcceptedSound' /\ VerdictSound'
    BY <1>4, <1>6 DEF AcceptedSound, VerdictSound, TypeOK, Current, Working, Claiming,
                      Balances, MayPost
  <1>11. ApprovalsNamed'
    BY <1>1, <1>2, <1>3, <1>4, <1>6 DEF ApprovalsNamed, Names, TypeOK
  <1>12. DecisionBound'
    BY <1>2, <1>4, <1>6, RequestsApart DEF DecisionBound, Names, TypeOK, Requests, Working, Claiming
  <1>13. PostedSound'
    BY <1>4, <1>6 DEF PostedSound, SoundPosting, TypeOK, RowsOf
  <1>14. BooksAgree' /\ SettledOnce'
    BY <1>4 DEF BooksAgree, SettledOnce
  <1> QED
    BY <1>7, <1>8, <1>9, <1>10, <1>11, <1>12, <1>13, <1>14

\* A rollback drops only what was private to the request.
LEMMA RollbackInv ==
  ASSUME Inv, NEW r \in Requests, NEW s \in {"failed", "victim"}, InFlight(r), Release(r),
         pc' = [pc EXCEPT ![r] = s], UNCHANGED <<books, pos, batch, ap, decision>>
  PROVE  Inv'
  <1> USE DEF Inv, TransactionsSound, Release, books
  <1>1. pc[r] # "idle"
    BY DEF InFlight
  <1>2. TypeOK'
    BY DEF TypeOK, PCs
  <1>3. LocksExclusive' /\ StagedUnderLock'
    BY DEF LocksExclusive, StagedUnderLock, TypeOK
  <1>4. StagedIsPosted'
    BY DEF StagedIsPosted, TypeOK, Current, AllRows
  <1>5. AcceptedSound' /\ VerdictSound'
    BY DEF AcceptedSound, VerdictSound, TypeOK, Current, Working, Claiming, Balances, MayPost
  <1>6. ApprovalsNamed' /\ DecisionBound'
    BY <1>1 DEF ApprovalsNamed, DecisionBound, Names, TypeOK, Requests, Working, Claiming
  <1>7. PostedSound'
    BY <1>1 DEF PostedSound, SoundPosting, TypeOK, RowsOf
  <1>8. BooksAgree' /\ SettledOnce'
    BY DEF BooksAgree, SettledOnce
  <1> QED
    BY <1>2, <1>3, <1>4, <1>5, <1>6, <1>7, <1>8

LEMMA FailInv ==
  ASSUME Inv, NEW r \in Requests, Fail(r) PROVE Inv'
  BY RollbackInv DEF Fail

LEMMA DeadlockVictimInv ==
  ASSUME Inv, NEW r \in Requests, DeadlockVictim(r) PROVE Inv'
  <1>1. InFlight(r)
    BY DEF DeadlockVictim, Deadlocked, WaitsFor, InFlight
  <1> QED
    BY <1>1, RollbackInv DEF DeadlockVictim

LEMMA ClaimInvoiceInv ==
  ASSUME Inv, NEW r \in Requests, ClaimInvoice(r) PROVE Inv'
  <1> DEFINE i == Current(r).invoice
  <1>1. /\ pc[r] = "claim_invoice" /\ pc' = [pc EXCEPT ![r] = "claim_txn"]
        /\ i \notin taken /\ i \notin staged[r]
        /\ \A q \in Requests \ {r} : i \notin held[q]
        /\ held' = [held EXCEPT ![r] = @ \cup {i}]
        /\ staged' = [staged EXCEPT ![r] = @ \cup {i}]
        /\ UNCHANGED <<taken, matches, approvals, pos, batch, ap, decision, posted, queued>>
    BY DEF ClaimInvoice, GuardHolds, GuardFails, HeldByOther, books
  <1> USE DEF Inv, TransactionsSound
  <1>2. pos[r] \in DOMAIN batch[r] /\ Current(r) \in ReviewedType
    BY <1>1, CurrentTyped DEF AcceptedSound, Working, Claiming
  <1>3. i \in Rows
    BY <1>2 DEF ReviewedType, Rows
  <1>4. Current(r)' = Current(r)
    BY <1>1 DEF Current
  <1>5. TypeOK'
    BY <1>1, <1>3 DEF TypeOK, PCs
  <1>6. LocksExclusive' /\ StagedUnderLock'
    BY <1>1 DEF LocksExclusive, StagedUnderLock, TypeOK
  <1>7. StagedIsPosted'
    <2>1. staged[r] = AllRows(posted[r])
      BY <1>1 DEF StagedIsPosted
    <2>2. AllRows(posted[r])' = AllRows(posted[r])
      BY <1>1 DEF AllRows
    <2>3. staged'[r] = staged[r] \cup {i} /\ pc'[r] = "claim_txn"
      BY <1>1 DEF TypeOK
    <2>4. ASSUME NEW q \in Requests, q # r
          PROVE  pc'[q] = pc[q] /\ staged'[q] = staged[q] /\ posted'[q] = posted[q]
                 /\ Current(q)' = Current(q)
      BY <1>1, <2>4 DEF TypeOK, Current
    <2> HIDE DEF i
    <2>5. ASSUME NEW q \in Requests, q # r
          PROVE  IF pc'[q] = "claim_txn"
                 THEN /\ staged'[q] = AllRows(posted'[q]) \cup {Current(q)'.invoice}
                      /\ Current(q)'.invoice \notin AllRows(posted'[q])
                 ELSE staged'[q] = AllRows(posted'[q])
      BY <2>4, <2>5 DEF StagedIsPosted
    <2>6. staged'[r] = AllRows(posted'[r]) \cup {Current(r)'.invoice}
          /\ Current(r)'.invoice \notin AllRows(posted'[r])
      BY <1>1, <1>4, <2>1, <2>2, <2>3 DEF i
    <2> QED
      BY <2>3, <2>5, <2>6 DEF StagedIsPosted
  <1>8. AcceptedSound' /\ VerdictSound'
    BY <1>1, <1>2 DEF AcceptedSound, VerdictSound, TypeOK, Current, Working, Claiming, Balances, MayPost
  <1>9. ApprovalsNamed' /\ DecisionBound'
    BY <1>1 DEF ApprovalsNamed, DecisionBound, Names, TypeOK, Requests, Working, Claiming
  <1>10. PostedSound'
    BY <1>1 DEF PostedSound, SoundPosting, TypeOK, RowsOf
  <1>11. BooksAgree' /\ SettledOnce'
    BY <1>1 DEF BooksAgree, SettledOnce
  <1> QED
    BY <1>5, <1>6, <1>7, <1>8, <1>9, <1>10, <1>11

LEMMA TxnLostInv ==
  ASSUME Inv, NEW r \in Requests, TxnLost(r) PROVE Inv'
  <1>1. /\ pc[r] = "claim_txn" /\ Advance(r)
        /\ staged' = [staged EXCEPT ![r] = @ \ {Current(r).invoice}]
        /\ UNCHANGED <<taken, matches, approvals, batch, ap, decision, held, posted, queued>>
    BY DEF TxnLost, books
  <1> USE DEF Inv, TransactionsSound
  <1>2. PICK s \in {"validate", "commit"} : \E n \in Nat \ {0} :
           /\ pc' = [pc EXCEPT ![r] = s]
           /\ pos' = [pos EXCEPT ![r] = n]
           /\ s = "validate" => n \in DOMAIN batch[r]
    BY <1>1, AdvanceTarget DEF Working, Claiming
  <1>3. PICK n \in Nat \ {0} :
           /\ pc' = [pc EXCEPT ![r] = s]
           /\ pos' = [pos EXCEPT ![r] = n]
           /\ s = "validate" => n \in DOMAIN batch[r]
    BY <1>2
  <1>4. r \in Humans => decision[r] = "approved"
    BY <1>1, HumansApproved DEF Working, Claiming
  <1>5. TypeOK'
    BY <1>1, <1>3 DEF TypeOK, PCs
  <1>6. LocksExclusive' /\ StagedUnderLock'
    BY <1>1 DEF LocksExclusive, StagedUnderLock, TypeOK
  <1>7. StagedIsPosted'
    <2>1. staged[r] = AllRows(posted[r]) \cup {Current(r).invoice}
          /\ Current(r).invoice \notin AllRows(posted[r])
      BY <1>1 DEF StagedIsPosted
    <2>2. staged'[r] = AllRows(posted[r]) /\ pc'[r] # "claim_txn"
      BY <1>1, <1>3, <2>1 DEF TypeOK
    <2>3. ASSUME NEW q \in Requests, q # r
          PROVE  pc'[q] = pc[q] /\ staged'[q] = staged[q] /\ Current(q)' = Current(q)
      BY <1>1, <1>3, <2>3 DEF TypeOK, Current
    <2> QED
      BY <1>1, <2>2, <2>3 DEF StagedIsPosted
  <1>8. AcceptedSound' /\ VerdictSound'
    BY <1>1, <1>3 DEF AcceptedSound, VerdictSound, TypeOK, Current, Working, Claiming, Balances, MayPost
  <1>9. ApprovalsNamed' /\ DecisionBound'
    BY <1>1, <1>3, <1>4 DEF ApprovalsNamed, DecisionBound, Names, TypeOK, Requests, Working, Claiming
  <1>10. PostedSound'
    BY <1>1, <1>3 DEF PostedSound, SoundPosting, TypeOK, RowsOf
  <1>11. BooksAgree' /\ SettledOnce'
    BY <1>1 DEF BooksAgree, SettledOnce
  <1> QED
    BY <1>5, <1>6, <1>7, <1>8, <1>9, <1>10, <1>11

\* What ClaimTxnAndPost inserts is sound, typed and settles two rows that no
\* earlier match of the transaction settled.
LEMMA NewPosting ==
  ASSUME Inv, NEW r \in Requests, pc[r] = "claim_txn",
         NEW m, m = [prop |-> Current(r), req |-> r, lines |-> Lines(Current(r))]
  PROVE  /\ Current(r) \in ReviewedType
         /\ m \in MatchType
         /\ RowsOf(m) = {Current(r).invoice, Current(r).txn}
         /\ RowsOf(m) \subseteq Rows
         /\ SoundPosting(m, r)
  <1> USE DEF Inv, TransactionsSound
  <1>1. /\ pos[r] \in DOMAIN batch[r]
        /\ Current(r).verdict = "pass" /\ MayPost(r, Current(r))
    BY DEF AcceptedSound, Working, Claiming
  <1>2. Current(r) \in ReviewedType
    BY <1>1, CurrentTyped
  <1>3. /\ Current(r).invoice \in Invoices /\ Current(r).txn \in Txns
        /\ Current(r).amount \in Nat /\ Current(r).tds \in Nat
    BY <1>2 DEF ReviewedType
  <1>4. InvoiceAmount[Current(r).invoice] \in Nat
    BY <1>3, AmountsAreNat
  <1>5. Current(r).amount + Current(r).tds = InvoiceAmount[Current(r).invoice]
    BY <1>1 DEF VerdictSound, Current
  <1>6. Lines(Current(r)) \in LinesType
    BY <1>3, <1>4 DEF Lines, LinesType
  <1>7. m.lines.bank + m.lines.tds_receivable + m.lines.receivable = 0
    BY <1>3, <1>4, <1>5 DEF Lines
  <1>8. ASSUME r \in Humans
        PROVE  decision[r] = "approved" /\ m.prop = batch[ap[r][1]][ap[r][2]]
    <2>1. decision[r] = "approved" /\ batch[r] = <<batch[ap[r][1]][ap[r][2]]>>
      BY <1>8 DEF DecisionBound, Working, Claiming
    <2>2. pos[r] = 1
      BY <1>1, <2>1
    <2> QED
      BY <2>1, <2>2 DEF Current
  <1>9. SoundPosting(m, r)
    BY <1>1, <1>7, <1>8 DEF SoundPosting, MayPost
  <1> QED
    BY <1>2, <1>3, <1>6, <1>9 DEF MatchType, RowsOf, Rows

LEMMA ClaimTxnAndPostInv ==
  ASSUME Inv, NEW r \in Requests, ClaimTxnAndPost(r) PROVE Inv'
  <1> DEFINE t == Current(r).txn
             i == Current(r).invoice
             m == [prop |-> Current(r), req |-> r, lines |-> Lines(Current(r))]
  <1>1. /\ pc[r] = "claim_txn" /\ Advance(r)
        /\ t \notin taken /\ t \notin staged[r]
        /\ \A q \in Requests \ {r} : t \notin held[q]
        /\ held' = [held EXCEPT ![r] = @ \cup {t}]
        /\ staged' = [staged EXCEPT ![r] = @ \cup {t}]
        /\ posted' = [posted EXCEPT ![r] = @ \cup {m}]
        /\ UNCHANGED <<taken, matches, approvals, batch, ap, decision, queued>>
    BY DEF ClaimTxnAndPost, GuardHolds, GuardFails, HeldByOther, books
  <1>2. m \in MatchType /\ RowsOf(m) = {i, t} /\ {i, t} \subseteq Rows /\ SoundPosting(m, r)
    BY <1>1, NewPosting
  <1> HIDE DEF m, t, i
  <1> USE DEF Inv, TransactionsSound
  <1>3. PICK s \in {"validate", "commit"} : \E n \in Nat \ {0} :
           /\ pc' = [pc EXCEPT ![r] = s]
           /\ pos' = [pos EXCEPT ![r] = n]
           /\ s = "validate" => n \in DOMAIN batch[r]
    BY <1>1, AdvanceTarget DEF Working, Claiming
  <1>4. PICK n \in Nat \ {0} :
           /\ pc' = [pc EXCEPT ![r] = s]
           /\ pos' = [pos EXCEPT ![r] = n]
           /\ s = "validate" => n \in DOMAIN batch[r]
    BY <1>3
  <1>5. r \in Humans => decision[r] = "approved"
    BY <1>1, HumansApproved DEF Working, Claiming
  <1>6. staged[r] = AllRows(posted[r]) \cup {i} /\ i \notin AllRows(posted[r])
    BY <1>1 DEF StagedIsPosted, i
  <1>7. TypeOK'
    BY <1>1, <1>2, <1>4 DEF TypeOK, PCs
  <1>8. LocksExclusive' /\ StagedUnderLock'
    BY <1>1 DEF LocksExclusive, StagedUnderLock, TypeOK
  <1>9. StagedIsPosted'
    <2>1. AllRows(posted[r] \cup {m}) = AllRows(posted[r]) \cup RowsOf(m)
      BY DEF AllRows
    <2>2. staged'[r] = AllRows(posted'[r]) /\ pc'[r] # "claim_txn"
      BY <1>1, <1>2, <1>4, <1>6, <2>1 DEF TypeOK
    <2>3. ASSUME NEW q \in Requests, q # r
          PROVE  pc'[q] = pc[q] /\ staged'[q] = staged[q] /\ posted'[q] = posted[q]
                 /\ Current(q)' = Current(q)
      BY <1>1, <1>4, <2>3 DEF TypeOK, Current
    <2> QED
      BY <2>2, <2>3 DEF StagedIsPosted
  <1>10. AcceptedSound' /\ VerdictSound'
    BY <1>1, <1>4 DEF AcceptedSound, VerdictSound, TypeOK, Current, Working, Claiming, Balances, MayPost
  <1>11. ApprovalsNamed' /\ DecisionBound'
    BY <1>1, <1>4, <1>5 DEF ApprovalsNamed, DecisionBound, Names, TypeOK, Requests, Working, Claiming
  <1>12. PostedSound'
    <2>1. ASSUME NEW x, NEW q \in Requests
          PROVE  SoundPosting(x, q) => SoundPosting(x, q)'
      BY <1>1, <1>4 DEF SoundPosting, TypeOK
    <2>2. posted'[r] = posted[r] \cup {m}
          /\ \A q \in Requests \ {r} : posted'[q] = posted[q]
      BY <1>1 DEF TypeOK
    <2>3. \A x \in posted[r] : RowsOf(x) \subseteq AllRows(posted[r])
      BY DEF AllRows
    <2>4. RowsOf(m) \cap AllRows(posted[r]) = {}
      BY <1>1, <1>2, <1>6
    <2>5. \A x \in posted[r] : RowsOf(x) \cap RowsOf(m) = {}
      BY <2>3, <2>4
    <2>6. ASSUME NEW q \in Requests, NEW x \in posted'[q], NEW y \in posted'[q], x # y
          PROVE  RowsOf(x) \cap RowsOf(y) = {}
      BY <2>2, <2>5, <2>6 DEF PostedSound
    <2>7. \A q \in Requests : \A x \in posted'[q] : SoundPosting(x, q)'
      BY <1>2, <2>1, <2>2 DEF PostedSound
    <2>8. \A x \in matches : x.req \in Requests
      BY DEF TypeOK, MatchType
    <2>9. \A x \in matches' : SoundPosting(x, x.req)'
      BY <1>1, <2>1, <2>8 DEF PostedSound
    <2> QED
      BY <2>6, <2>7, <2>9 DEF PostedSound, RowsOf
  <1>13. BooksAgree' /\ SettledOnce'
    BY <1>1 DEF BooksAgree, SettledOnce
  <1> QED
    BY <1>7, <1>8, <1>9, <1>10, <1>11, <1>12, <1>13

LEMMA CommitInv ==
  ASSUME Inv, NEW r \in Requests, Commit(r) PROVE Inv'
  <1>1. /\ pc[r] = "commit" /\ pc' = [pc EXCEPT ![r] = "done"]
        /\ taken' = taken \cup staged[r]
        /\ matches' = matches \cup posted[r]
        /\ approvals' = ApprovalsAfter(r)
        /\ held' = [held EXCEPT ![r] = {}] /\ staged' = [staged EXCEPT ![r] = {}]
        /\ posted' = [posted EXCEPT ![r] = {}] /\ queued' = [queued EXCEPT ![r] = {}]
        /\ UNCHANGED <<pos, batch, ap, decision>>
    BY DEF Commit, Release
  <1> USE DEF Inv, TransactionsSound
  <1>2. staged[r] = AllRows(posted[r])
    BY <1>1 DEF StagedIsPosted
  <1>3. \A row \in approvals' \ approvals :
          row \in ApprovalType /\ Names(row.id)
    <2>1. CASE r \in Humans
      <3>1. ap[r] \in ApprovalIds /\ Names(ap[r]) /\ decision[r] \in {"approved", "rejected"}
        BY <1>1, <2>1 DEF DecisionBound, TypeOK
      <3>2. \A row \in approvals' \ approvals : row = [id |-> ap[r], status |-> decision[r]]
        BY <1>1, <2>1 DEF ApprovalsAfter
      <3> QED
        BY <3>1, <3>2 DEF ApprovalType
    <2>2. CASE r \notin Humans
      <3>1. r \in Agents /\ \A k \in queued[r] : k \in DOMAIN batch[r] /\ k \in Nat
        BY <2>2 DEF Requests, ApprovalsNamed, TypeOK
      <3>2. \A row \in approvals' \ approvals :
              \E k \in queued[r] : row = [id |-> <<r, k>>, status |-> "pending"]
        BY <1>1, <2>2 DEF ApprovalsAfter
      <3> QED
        BY <1>1, <3>1, <3>2 DEF ApprovalType, ApprovalIds, Names
    <2> QED
      BY <2>1, <2>2
  <1>4. TypeOK'
    BY <1>1, <1>3 DEF TypeOK, PCs
  <1>5. LocksExclusive' /\ StagedUnderLock'
    BY <1>1 DEF LocksExclusive, StagedUnderLock, TypeOK
  <1>6. StagedIsPosted'
    BY <1>1 DEF StagedIsPosted, TypeOK, Current, AllRows
  <1>7. AcceptedSound' /\ VerdictSound'
    BY <1>1 DEF AcceptedSound, VerdictSound, TypeOK, Current, Working, Claiming, Balances, MayPost
  <1>8. ApprovalsNamed'
    BY <1>1, <1>3 DEF ApprovalsNamed, Names, TypeOK
  <1>9. DecisionBound'
    BY <1>1 DEF DecisionBound, Names, TypeOK, Requests, Working, Claiming
  <1>10. PostedSound'
    <2>1. ASSUME NEW x, NEW q \in Requests
          PROVE  SoundPosting(x, q) => SoundPosting(x, q)'
      BY <1>1 DEF SoundPosting, TypeOK
    <2>2. \A q \in Requests : posted'[q] \subseteq posted[q]
      BY <1>1 DEF TypeOK
    <2>3. \A x \in matches' : x.req \in Requests /\ SoundPosting(x, x.req)
      BY <1>1 DEF PostedSound, TypeOK, MatchType, SoundPosting
    <2>4. \A x \in matches' : SoundPosting(x, x.req)'
      BY <2>1, <2>3
    <2>5. \A q \in Requests : \A x \in posted'[q] : SoundPosting(x, q)'
      BY <2>1, <2>2 DEF PostedSound
    <2> QED
      BY <2>2, <2>4, <2>5 DEF PostedSound, RowsOf
  <1>11. BooksAgree'
    <2>1. AllRows(matches \cup posted[r]) = AllRows(matches) \cup AllRows(posted[r])
      BY DEF AllRows
    <2> QED
      BY <1>1, <1>2, <2>1 DEF BooksAgree
  <1>12. SettledOnce'
    <2>1. \A x \in matches : RowsOf(x) \subseteq taken
      BY DEF BooksAgree, AllRows
    <2>2. \A y \in posted[r] : RowsOf(y) \subseteq staged[r]
      BY <1>2 DEF AllRows
    <2>3. staged[r] \cap taken = {}
      BY DEF StagedUnderLock
    <2>4. \A x \in matches : \A y \in posted[r] : RowsOf(x) \cap RowsOf(y) = {}
      BY <2>1, <2>2, <2>3
    <2> QED
      BY <1>1, <2>4 DEF SettledOnce, PostedSound, RowsOf
  <1> QED
    BY <1>4, <1>5, <1>6, <1>7, <1>8, <1>9, <1>10, <1>11, <1>12

\* Giving an idle request its batch disturbs nobody: what is bound to another
\* sweep's batch is bound to a sweep that is no longer idle.
LEMMA BeginInv ==
  ASSUME Inv, NEW r \in Requests, pc[r] = "idle",
         NEW b \in Seq(ReviewedType), b # <<>>,
         \A k \in DOMAIN b : b[k].verdict = "pass" =>
           b[k].amount + b[k].tds = InvoiceAmount[b[k].invoice],
         batch' = [batch EXCEPT ![r] = b],
         NEW s \in {"validate", "decide"}, pc' = [pc EXCEPT ![r] = s],
         ap' \in [Requests -> ApprovalIds \cup {None}],
         decision' \in [Requests -> {"none", "approved", "rejected"}],
         \A q \in Requests \ {r} : ap'[q] = ap[q] /\ decision'[q] = decision[q],
         r \in Humans =>
           /\ s = "decide" /\ decision'[r] # "none"
           /\ ap'[r] \in ApprovalIds /\ Names(ap'[r])
           /\ b = <<batch[ap'[r][1]][ap'[r][2]]>>,
         UNCHANGED <<books, pos, txvars>>
  PROVE  Inv'
  <1> USE DEF Inv, TransactionsSound, books, txvars
  <1>1. \A q \in Requests \ {r} : pc'[q] = pc[q] /\ batch'[q] = batch[q] /\ Current(q)' = Current(q)
    BY DEF TypeOK, Current
  <1>2. pc'[r] = s /\ batch'[r] = b /\ pos[r] = 1 /\ 1 \in DOMAIN b
    <2>1. Len(b) \in Nat /\ DOMAIN b = 1..Len(b) /\ Len(b) # 0
      BY EmptySeq
    <2> QED
      BY <2>1 DEF TypeOK, AcceptedSound
  <1>3. ASSUME NEW x, Names(x)
        PROVE  Names(x)' /\ x[1] # r /\ x[1] \in Requests /\ batch'[x[1]] = batch[x[1]]
    BY <1>1, <1>3 DEF Names, Requests
  <1>4. TypeOK'
    BY DEF TypeOK, PCs
  <1>5. LocksExclusive' /\ StagedUnderLock'
    BY DEF LocksExclusive, StagedUnderLock
  <1>6. StagedIsPosted'
    BY <1>1, <1>2 DEF StagedIsPosted
  <1>7. AcceptedSound'
    BY <1>1, <1>2 DEF AcceptedSound, Working, Claiming, Balances, MayPost
  <1>8. VerdictSound'
    BY <1>1, <1>2 DEF VerdictSound
  <1>9. ApprovalsNamed'
    <2>1. \A row \in approvals : Names(row.id)'
      BY <1>3 DEF ApprovalsNamed
    <2>2. \A q \in Requests : \A k \in queued[q] : q \in Agents /\ q # r /\ k \in DOMAIN batch[q] /\ pc[q] # "idle"
      BY DEF ApprovalsNamed
    <2> QED
      BY <1>1, <2>1, <2>2 DEF ApprovalsNamed
  <1>10. DecisionBound'
    <2> SUFFICES ASSUME NEW h \in Humans, pc'[h] # "idle"
                 PROVE  /\ ap'[h] \in ApprovalIds /\ Names(ap[h])'
                        /\ decision'[h] # "none"
                        /\ batch'[h] = <<batch'[ap'[h][1]][ap'[h][2]]>>
                        /\ pc'[h] \in Working => decision'[h] = "approved"
      BY DEF DecisionBound
    <2>1. CASE h = r
      <3>1. Names(ap'[r]) /\ batch'[ap'[r][1]] = batch[ap'[r][1]]
        BY <1>3, <2>1
      <3>2. Names(ap[r])'
        BY <1>1, <3>1, <1>3 DEF Names
      <3> QED
        BY <1>2, <2>1, <3>1, <3>2 DEF Working, Claiming
    <2>2. CASE h # r
      <3>1. h \in Requests /\ pc'[h] = pc[h] /\ batch'[h] = batch[h] /\ ap'[h] = ap[h]
            /\ decision'[h] = decision[h]
        BY <1>1, <2>2 DEF Requests
      <3>2. Names(ap[h]) /\ ap[h] \in ApprovalIds /\ decision[h] # "none"
            /\ batch[h] = <<batch[ap[h][1]][ap[h][2]]>>
            /\ (pc[h] \in Working => decision[h] = "approved")
        BY <3>1 DEF DecisionBound
      <3>3. batch'[ap[h][1]] = batch[ap[h][1]] /\ ap[h][1] # r /\ ap[h][1] \in Requests
        BY <1>3, <3>2
      <3>4. Names(ap[h])'
        BY <1>1, <3>1, <3>2, <3>3 DEF Names
      <3> QED
        BY <3>1, <3>2, <3>3, <3>4
    <2> QED
      BY <2>1, <2>2
  <1>11. PostedSound'
    <2>1. ASSUME NEW x, NEW q \in Requests, SoundPosting(x, q)
          PROVE  SoundPosting(x, q)'
      <3>1. q # r /\ pc'[q] = pc[q] /\ ap'[q] = ap[q] /\ decision'[q] = decision[q]
        BY <1>1, <2>1 DEF SoundPosting
      <3>2. CASE q \in Humans
        <4>1. Names(ap[q])
          BY <2>1, <3>2 DEF DecisionBound, SoundPosting
        <4>2. batch'[ap[q][1]] = batch[ap[q][1]]
          BY <1>3, <4>1
        <4> QED
          BY <2>1, <3>1, <4>2 DEF SoundPosting
      <3>3. CASE q \notin Humans
        BY <2>1, <3>1, <3>3 DEF SoundPosting
      <3> QED
        BY <3>2, <3>3
    <2>2. \A x \in matches : x.req \in Requests
      BY DEF TypeOK, MatchType
    <2> QED
      BY <2>1, <2>2 DEF PostedSound, RowsOf
  <1>12. BooksAgree' /\ SettledOnce'
    BY DEF BooksAgree, SettledOnce
  <1> QED
    BY <1>4, <1>5, <1>6, <1>7, <1>8, <1>9, <1>10, <1>11, <1>12

LEMMA ProposeInv ==
  ASSUME Inv, NEW a \in Agents, Propose(a) PROVE Inv'
  <1>1. a \in Requests /\ pc[a] = "idle" /\ pc' = [pc EXCEPT ![a] = "validate"]
        /\ a \notin Humans /\ UNCHANGED <<books, pos, ap, decision, txvars>>
    BY RequestsApart DEF Propose, Requests, books, txvars
  <1>2. PICK b \in Batches : \E vetoes \in SUBSET DOMAIN b :
          b # <<>> /\ batch' = [batch EXCEPT ![a] = Review(b, vetoes)]
    BY DEF Propose
  <1>2a. PICK vetoes \in SUBSET DOMAIN b :
          b # <<>> /\ batch' = [batch EXCEPT ![a] = Review(b, vetoes)]
    BY <1>2
  <1> DEFINE rb == Review(b, vetoes)
  <1>3. rb \in Seq(ReviewedType) /\ DOMAIN rb = DOMAIN b
    BY ReviewDomain
  <1>4. rb # <<>>
    <2>1. b \in Seq(ProposalType)
      BY BatchesTyped
    <2> HIDE DEF rb
    <2>2. DOMAIN b = 1..Len(b) /\ DOMAIN rb = 1..Len(rb)
          /\ Len(b) \in Nat \ {0} /\ Len(rb) \in Nat
      BY <1>2a, <1>3, <2>1, EmptySeq
    <2>3. 1 \in DOMAIN rb
      BY <1>3, <2>2
    <2> QED
      BY <2>3
  <1>5. \A k \in DOMAIN rb : rb[k].verdict = "pass" =>
          rb[k].amount + rb[k].tds = InvoiceAmount[rb[k].invoice]
    BY <1>3, ReviewSound
  <1>6. ap' \in [Requests -> ApprovalIds \cup {None}]
        /\ decision' \in [Requests -> {"none", "approved", "rejected"}]
    BY <1>1 DEF Inv, TypeOK
  <1> HIDE DEF rb
  <1>7. batch' = [batch EXCEPT ![a] = rb]
    BY <1>2a DEF rb
  <1>8. \A q \in Requests \ {a} : ap'[q] = ap[q] /\ decision'[q] = decision[q]
    BY <1>1
  <1>9. UNCHANGED <<books, pos, txvars>>
    BY <1>1
  <1> QED
    BY <1>1, <1>3, <1>4, <1>5, <1>6, <1>7, <1>8, <1>9, BeginInv

LEMMA ReadApprovalInv ==
  ASSUME Inv, NEW h \in Humans, ReadApproval(h) PROVE Inv'
  <1>1. h \in Requests /\ pc[h] = "idle" /\ pc' = [pc EXCEPT ![h] = "decide"]
        /\ UNCHANGED <<books, pos, txvars>>
    BY DEF ReadApproval, Requests
  <1>2. PICK row \in approvals, d \in {"approved", "rejected"} :
          /\ ap' = [ap EXCEPT ![h] = row.id]
          /\ batch' = [batch EXCEPT ![h] = <<batch[row.id[1]][row.id[2]]>>]
          /\ decision' = [decision EXCEPT ![h] = d]
    BY DEF ReadApproval
  <1> DEFINE p == batch[row.id[1]][row.id[2]]
  <1> USE DEF Inv, TransactionsSound
  <1>3. row.id \in ApprovalIds /\ Names(row.id)
    BY DEF TypeOK, ApprovalType, ApprovalsNamed
  <1>4. row.id[1] \in Requests /\ row.id[2] \in DOMAIN batch[row.id[1]]
    BY <1>3 DEF Names, Requests
  <1>5. p \in ReviewedType
    BY <1>4 DEF TypeOK
  <1>6. p.verdict = "pass" => p.amount + p.tds = InvoiceAmount[p.invoice]
    BY <1>4 DEF VerdictSound
  <1>7. ap' \in [Requests -> ApprovalIds \cup {None}] /\ ap'[h] = row.id
        /\ decision' \in [Requests -> {"none", "approved", "rejected"}] /\ decision'[h] = d
        /\ \A q \in Requests \ {h} : ap'[q] = ap[q] /\ decision'[q] = decision[q]
    BY <1>1, <1>2, <1>3 DEF TypeOK
  <1> DEFINE b == <<p>>
  <1> HIDE DEF p
  <1>8. b \in Seq(ReviewedType) /\ b # <<>>
        /\ \A k \in DOMAIN b : b[k].verdict = "pass" =>
              b[k].amount + b[k].tds = InvoiceAmount[b[k].invoice]
    BY <1>5, <1>6
  <1>9. b = <<batch[row.id[1]][row.id[2]]>> /\ batch' = [batch EXCEPT ![h] = b]
    BY <1>2 DEF p
  <1> HIDE DEF b
  <1>10. h \in Humans => /\ decision'[h] # "none"
                         /\ ap'[h] \in ApprovalIds /\ Names(ap'[h])
                         /\ b = <<batch[ap'[h][1]][ap'[h][2]]>>
    BY <1>3, <1>7, <1>9
  <1> QED
    BY <1>1, <1>7, <1>8, <1>9, <1>10, BeginInv

LEMMA StepInv ==
  ASSUME Inv, NEW r \in Requests, Step(r) PROVE Inv'
  BY RejectProposalInv, QueueApprovalInv, AcceptProposalInv, RevalidateInv, InvoiceLostInv,
     ClaimInvoiceInv, TxnLostInv, ClaimTxnAndPostInv, CommitInv DEF Step

LEMMA StutterInv ==
  ASSUME Inv, UNCHANGED vars PROVE Inv'
  <1> USE DEF Inv, TransactionsSound, vars
  <1>1. TypeOK'
    BY DEF TypeOK
  <1>2. LocksExclusive' /\ StagedUnderLock' /\ StagedIsPosted'
    BY DEF LocksExclusive, StagedUnderLock, StagedIsPosted, Current
  <1>3. AcceptedSound' /\ VerdictSound'
    BY DEF AcceptedSound, VerdictSound, Current
  <1>4. ApprovalsNamed' /\ DecisionBound'
    BY DEF ApprovalsNamed, DecisionBound, Names
  <1>5. PostedSound' /\ BooksAgree' /\ SettledOnce'
    BY DEF PostedSound, SoundPosting, BooksAgree, SettledOnce
  <1> QED
    BY <1>1, <1>2, <1>3, <1>4, <1>5

LEMMA NextInv == Inv /\ [Next]_vars => Inv'
  <1> SUFFICES ASSUME Inv, [Next]_vars PROVE Inv'
    OBVIOUS
  <1>1. CASE \E a \in Agents : Propose(a)
    BY <1>1, ProposeInv
  <1>2. CASE \E h \in Humans : ReadApproval(h)
    BY <1>2, ReadApprovalInv
  <1>3. CASE \E h \in Humans : Decide(h)
    BY <1>3, DecideInv
  <1>4. CASE \E r \in Requests : Step(r)
    BY <1>4, StepInv
  <1>5. CASE \E r \in Requests : Fail(r)
    BY <1>5, FailInv
  <1>6. CASE \E r \in Requests : DeadlockVictim(r)
    BY <1>6, DeadlockVictimInv
  <1>7. CASE Quiet \/ UNCHANGED vars
    BY <1>7, StutterInv DEF Quiet
  <1> QED
    BY <1>1, <1>2, <1>3, <1>4, <1>5, <1>6, <1>7 DEF Next

\* The inductive invariant holds of every behaviour of Books.
THEOREM InvHolds == Spec => []Inv
  <1> QED
    BY InvInit, NextInv, PTL DEF Spec

-----------------------------------------------------------------------------
(* The properties of the books.                                             *)

\* Books keeps its state well-typed for every set of requests and batches.
THEOREM TypeCorrect == Spec => []TypeOK
  <1>1. Inv => TypeOK
    BY DEF Inv
  <1> QED
    BY <1>1, InvHolds, PTL

\* Uncommitted work stays private: row locks are exclusive, flips are staged
\* under them, and every staged posting is sound (recon.commit_proposal).
THEOREM TransactionsStaySound == Spec => []TransactionsSound
  <1>1. Inv => TransactionsSound
    BY DEF Inv
  <1> QED
    BY <1>1, InvHolds, PTL

\* No invoice and no bank transaction is settled twice, for any number of
\* concurrent sweeps and human decisions.
THEOREM NoDoubleSettlement == Spec => []SettledOnce
  <1>1. Inv => SettledOnce
    BY DEF Inv, TransactionsSound
  <1> QED
    BY <1>1, InvHolds, PTL

\* The status columns agree with the committed matches at every moment.
THEOREM StatusAgreesWithMatches == Spec => []BooksAgree
  <1>1. Inv => BooksAgree
    BY DEF Inv, TransactionsSound
  <1> QED
    BY <1>1, InvHolds, PTL

\* Every ledger entry that reaches the books sums to zero.
THEOREM LedgerBalances == Spec => []EntriesBalance
  <1>1. Inv => EntriesBalance
    BY DEF Inv, TransactionsSound, PostedSound, SoundPosting, EntriesBalance
  <1> QED
    BY <1>1, InvHolds, PTL

\* Below the confidence floor only an approving human posts, and what is
\* posted is the very proposal the agent queued.
THEOREM MakerChecker == Spec => []PostedAsApproved
  <1>1. Inv => PostedAsApproved
    BY DEF Inv, TransactionsSound, PostedSound, SoundPosting, PostedAsApproved
  <1> QED
    BY <1>1, InvHolds, PTL

-----------------------------------------------------------------------------
(* Books implements Settlement.                                             *)

\* A COMMIT is one atomic settlement of everything the transaction posted.
LEMMA CommitSettles ==
  ASSUME Inv, NEW r \in Requests, Commit(r), <<taken, matches>>' # <<taken, matches>>
  PROVE  Promise!Settle
  <1>1. taken' = taken \cup staged[r] /\ matches' = matches \cup posted[r]
    BY DEF Commit
  <1>2. staged[r] = AllRows(posted[r]) /\ staged[r] \cap taken = {}
    BY DEF Inv, TransactionsSound, StagedIsPosted, StagedUnderLock, Commit
  <1>3. \A m \in matches : RowsOf(m) \subseteq taken
    BY DEF Inv, TransactionsSound, BooksAgree, AllRows
  <1> DEFINE new == matches' \ matches
  <1>4. AllRows(posted[r]) \subseteq taken \cup AllRows(new)
    BY <1>1, <1>3 DEF AllRows
  <1>5. new \subseteq posted[r] /\ AllRows(new) \subseteq AllRows(posted[r])
    BY <1>1 DEF AllRows
  <1>6. taken' = taken \cup AllRows(new)
    BY <1>1, <1>2, <1>4, <1>5
  <1>7. \A m \in posted[r] : SoundPosting(m, r) /\ RowsOf(m) \cap taken = {}
    BY <1>2 DEF Inv, TransactionsSound, PostedSound, AllRows
  <1>8. \A m \in new : Promise!Balanced(m) /\ Promise!Authorised(m) /\ RowsOf(m) \cap taken = {}
    BY <1>5, <1>7 DEF SoundPosting, Promise!Balanced, Promise!Authorised
  <1>9. \A m, n \in new : m # n => RowsOf(m) \cap RowsOf(n) = {}
    BY <1>5 DEF Inv, TransactionsSound, PostedSound
  <1> QED
    BY <1>1, <1>6, <1>8, <1>9
    DEF Promise!Settle, Promise!RowsOf, Promise!AllRows, RowsOf, AllRows

LEMMA NextSettles == Inv /\ [Next]_vars => [Promise!Settle]_<<taken, matches>>
  <1> SUFFICES ASSUME Inv, [Next]_vars, <<taken, matches>>' # <<taken, matches>>
               PROVE  Promise!Settle
    OBVIOUS
  <1>1. \E r \in Requests : Commit(r)
    BY DEF Next, Step, vars, books, Propose, ReadApproval, Decide, Fail, DeadlockVictim, Quiet,
           RejectProposal, QueueApproval, AcceptProposal, Revalidate, InvoiceLost,
           ClaimInvoice, TxnLost, ClaimTxnAndPost
  <1> QED
    BY <1>1, CommitSettles

\* Every behaviour of the commit engine is a behaviour of the abstract books:
\* matches only accumulate, each an atomic, balanced, authorised settlement.
THEOREM BooksImplementsSettlement == Spec => RefinesSettlement
  <1>1. Init => Promise!Init
    BY DEF Init, Promise!Init
  <1>2. Inv /\ [Next]_vars => [Promise!Settle]_(Promise!vars)
    BY NextSettles DEF Promise!vars
  <1> QED
    BY <1>1, <1>2, InvHolds, PTL DEF Spec, RefinesSettlement, Promise!Spec
=============================================================================
