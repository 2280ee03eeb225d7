----------------------------- MODULE Settlement -----------------------------
(***************************************************************************)
(* What the reconciliation service promises about the books, with no       *)
(* transactions, locks, batches or approval rows: a set of matches that    *)
(* only grows, each of which settles one open invoice with one unmatched   *)
(* bank transaction, balances to the paisa, and was either confident       *)
(* enough to post by itself or posted by a human decision.  Books refines  *)
(* this module: one COMMIT there is one Settle here.                       *)
(***************************************************************************)
EXTENDS Integers

CONSTANTS
  PaidAtOnboarding,  \* rows that were settled before the agents started
  Humans,            \* the decisions a person takes on the approval queue
  CONFIDENCE_FLOOR   \* confidence, in percent, above which an agent may post

VARIABLES
  taken,    \* the invoices that are paid and the bank transactions matched
  matches   \* the committed matches, each with its ledger lines

vars == <<taken, matches>>

\* The two rows a match settles.
RowsOf(m) == {m.prop.invoice, m.prop.txn}
AllRows(S) == UNION {RowsOf(m) : m \in S}

\* Debits and credits of the posted entry cancel.
Balanced(m) == m.lines.bank + m.lines.tds_receivable + m.lines.receivable = 0

\* Maker-checker: below the floor only a human decision posts.
Authorised(m) == m.prop.confidence >= CONFIDENCE_FLOOR \/ m.req \in Humans

Init == taken = PaidAtOnboarding /\ matches = {}

\* Post a non-empty set of new matches in one atomic step.
Settle ==
  LET new == matches' \ matches IN
  /\ matches \subseteq matches'
  /\ \A m \in new : Balanced(m) /\ Authorised(m) /\ RowsOf(m) \cap taken = {}
  /\ \A m, n \in new : m # n => RowsOf(m) \cap RowsOf(n) = {}
  /\ taken' = taken \cup AllRows(new)

Spec == Init /\ [][Settle]_vars
=============================================================================
