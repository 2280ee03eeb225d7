------------------------------- MODULE MCBooks -------------------------------
(***************************************************************************)
(* Small instances of Books: two open invoices and three bank transactions *)
(* whose amounts make both kinds of proposal possible.                     *)
(***************************************************************************)
EXTENDS Books, TLC

CONSTANTS i1, i2, i3, t1, t2, t3

MCInvoices == {i1, i2, i3}
MCTxns == {t1, t2, t3}
MCPaid == {i3}

\* i1 and i2 are for the same amount, so that one payment fits both: t1 and t3
\* pay it in full, t2 less 2% TDS.  i3 was paid before the agents started.
MCAmount == (i1 :> 100) @@ (i2 :> 100) @@ (i3 :> 100)

\* matching.py: 95 for a named candidate, 90 for a unique amount.
Full(t, i, conf) ==
  [txn |-> t, invoice |-> i, amount |-> 100, tds |-> 0, kind |-> "full",
   confidence |-> conf]
\* TDS_STANDARD_RATE_CONFIDENCE, below the floor.
Tds(t, i) ==
  [txn |-> t, invoice |-> i, amount |-> 98, tds |-> 2, kind |-> "tds_adjusted",
   confidence |-> 80]

\* What sweeps over different snapshots of the books may come up with: the
\* same pairs in opposite orders, one transaction for different invoices, one
\* invoice for different transactions, full matches before TDS ones.
MCBatches ==
  { <<Full(t1, i1, 95), Full(t3, i2, 95)>>,
    <<Full(t3, i2, 95), Full(t1, i1, 95)>>,
    <<Full(t1, i2, 90), Tds(t2, i1)>>,
    <<Tds(t2, i2)>> }
=============================================================================
