------------------------------ MODULE Exports -------------------------------
(***************************************************************************)
(* The two file parsers: bank statements (tools/bank_statements/parser.py) *)
(* and invoice exports (tools/ledger_import/parser.py).                    *)
(*                                                                         *)
(* A file is the sequence of its lines below a recognised header; a cell   *)
(* is Blank, Bad (a text that is no date or no amount) or what it stands   *)
(* for, amounts being paise of either sign.                                *)
(***************************************************************************)
EXTENDS Integers, Sequences, SequencesExt, FiniteSetsExt

CONSTANTS Blank, Bad

\* The loop of both parsers: a line gives a row or is counted as skipped.
ReadLines(lines, Keeps(_), Row(_)) ==
  LET read[n \in 0..Len(lines)] ==
        IF n = 0 THEN [rows |-> <<>>, skipped |-> 0]
        ELSE IF Keeps(lines[n]) THEN [read[n - 1] EXCEPT !.rows = Append(@, Row(lines[n]))]
        ELSE [read[n - 1] EXCEPT !.skipped = @ + 1]
  IN  read[Len(lines)]

-----------------------------------------------------------------------------

PAID_WORDS == {"paid", "closed", "settled"}

\* _parse_paise of a statement: nothing, zero and less are no amount.
IsAmount(cell) == cell \notin {Blank, Bad} /\ cell > 0

\* The movement of a statement line, if it has one: the credit if both cells
\* hold an amount.
Movement(line) ==
  [date |-> line.date,
   amount |-> IF IsAmount(line.credit) THEN line.credit ELSE line.debit,
   direction |-> IF IsAmount(line.credit) THEN "cr" ELSE "dr"]

HasAmount(line) == IsAmount(line.debit) \/ IsAmount(line.credit)

\* ToolError: an unreadable amount, balance or date.
Unreadable(line) ==
  \/ Bad \in {line.debit, line.credit}
  \/ HasAmount(line) /\ (line.balance = Bad \/ line.date \in {Bad, Blank})

\* A line that ends before its narration, its amounts standing earlier, raises
\* what the loop does not catch.
CutShort(line) == line.cut /\ HasAmount(line) /\ Bad \notin {line.debit, line.credit}

Kept(line) == HasAmount(line) /\ ~Unreadable(line)

\* parse_statement: {} when it raises, else its one result.
ParseStatement(lines) ==
  LET read == ReadLines(lines, Kept, Movement)
      days == {t.date : t \in ToSet(read.rows)}
  IN  IF read.rows = <<>> \/ \E k \in DOMAIN lines : CutShort(lines[k]) THEN {}
      ELSE {[rows |-> read.rows, skipped |-> read.skipped, first |-> Min(days), last |-> Max(days)]}

-----------------------------------------------------------------------------
\* A status decides; without one, a balance of nothing does.
IsPaid(line) ==
  IF line.status # Blank THEN line.status \in PAID_WORDS
  ELSE line.balance \notin {Blank, Bad} /\ line.balance = 0

DueDate(line) == IF line.due = Blank THEN line.issue ELSE line.due

\* An invoice of a positive amount whose dates, and whose balance where it is
\* asked for, can be read.
KeptInvoice(line) ==
  /\ IsAmount(line.amount)
  /\ line.issue \notin {Bad, Blank} /\ line.due # Bad
  /\ line.status = Blank => line.balance # Bad
  /\ IsPaid(line) => line.paidOn # Bad

\* The paid date is read of paid invoices only.
Invoice(line) ==
  [number |-> line.number, issue |-> line.issue, due |-> DueDate(line), amount |-> line.amount,
   status |-> IF IsPaid(line) THEN "paid" ELSE "open",
   paidOn |-> IF IsPaid(line) THEN line.paidOn ELSE Blank]

\* Mutant for BadLinesCostThemselves: parsing stops at the first bad line.
InvoicesUntilBad(lines) ==
  LET bad == {k \in DOMAIN lines : ~KeptInvoice(lines[k])}
  IN  ReadLines(IF bad = {} THEN lines ELSE SubSeq(lines, 1, Min(bad)), KeptInvoice, Invoice)
Invoices(lines) == ReadLines(lines, KeptInvoice, Invoice)

\* parse_invoice_export: {} when it raises.
ParseInvoiceExport(lines) ==
  LET read == Invoices(lines) IN IF read.rows = <<>> THEN {} ELSE {read}
=============================================================================
