------------------------------ MODULE Matching ------------------------------
(***************************************************************************)
(* The rules matcher and its deterministic critic                          *)
(* (agents reconciliation/matching.py) as the match and critic nodes call  *)
(* them.                                                                   *)
(*                                                                         *)
(* A payment is [id, day, amount, cr, says], says the words of its hint    *)
(* and narration; an invoice is [id, day, amount, party, tokens], tokens   *)
(* the words of its client's name.  Confidence is in percent.              *)
(***************************************************************************)
EXTENDS Integers, FiniteSets, Sequences, SequencesExt

NAME_MATCH_CONFIDENCE == 95
UNIQUE_AMOUNT_CONFIDENCE == 90
TDS_REMEMBERED_CONFIDENCE == 85
TDS_STANDARD_RATE_CONFIDENCE == 80
STANDARD_TDS_BPS == <<100, 200, 500, 1000>>

AtLeast(low, n) == IF n < low THEN low ELSE n

\* Half of the name's words, and at least one, are in the payment's text.
HintMatches(txn, inv) ==
  inv.tokens # {} /\ Cardinality(inv.tokens \cap txn.says) >= AtLeast(1, Cardinality(inv.tokens) \div 2)

Taken(proposals, inv) == inv.id \in {p.invoice : p \in ToSet(proposals)}

\* Money in, of the invoice's amount, on or after its issue.
FitsExactly(txn, inv) == txn.cr /\ inv.amount = txn.amount /\ txn.day >= inv.day

\* Zero or several is an exception for a person.
OnlyOf(set) == IF Cardinality(set) = 1 THEN set ELSE {}

\* The invoice of an exact match: the only named candidate, or the only
\* candidate when none is named.
Chosen(candidates, named) == IF named # {} THEN OnlyOf(named) ELSE OnlyOf(candidates)

Proposal(txn, inv, tds, kind, confidence) ==
  [txn |-> txn.id, invoice |-> inv.id, party |-> inv.party, amount |-> txn.amount,
   tds |-> tds, kind |-> kind, confidence |-> confidence]

\* The match of one payment from the invoices not yet taken, if there is one.
ExactMatch(txn, free) ==
  LET candidates == {i \in free : FitsExactly(txn, i)}
      named == {i \in candidates : HintMatches(txn, i)}
      confidence == IF named # {} THEN NAME_MATCH_CONFIDENCE ELSE UNIQUE_AMOUNT_CONFIDENCE
  IN  SetToSeq({Proposal(txn, i, 0, "full", confidence) : i \in Chosen(candidates, named)})

\* Each payment in turn, from the invoices left to it.
ProposeMatches(unmatched, open) ==
  LET proposals[n \in 0..Len(unmatched)] ==
        IF n = 0 THEN <<>>
        ELSE proposals[n - 1] \o ExactMatch(unmatched[n], {i \in open : ~Taken(proposals[n - 1], i)})
  IN  proposals[Len(unmatched)]

\* A rate turns the invoice into the payment, to the paisa.
Deducts(txn, inv, bps) ==
  /\ (inv.amount * bps) % 10000 = 0 /\ inv.amount * bps > 0
  /\ txn.amount = inv.amount - ((inv.amount * bps) \div 10000)
AnyDeducts(txn, inv, rates) == \E bps \in ToSet(rates) : Deducts(txn, inv, bps)

FitsWithTds(txn, inv, remembered) ==
  /\ txn.cr /\ txn.day >= inv.day /\ HintMatches(txn, inv)
  /\ AnyDeducts(txn, inv, remembered[inv.party] \o STANDARD_TDS_BPS)

\* The remembered rates are tried first.
TdsMatch(txn, free, remembered) ==
  LET candidates == {i \in free : FitsWithTds(txn, i, remembered)}
      confidence(i) == IF AnyDeducts(txn, i, remembered[i.party])
                       THEN TDS_REMEMBERED_CONFIDENCE ELSE TDS_STANDARD_RATE_CONFIDENCE
  IN  SetToSeq({Proposal(txn, i, i.amount - txn.amount, "tds_adjusted", confidence(i)) : i \in OnlyOf(candidates)})

ProposeTdsMatches(unmatched, open, remembered) ==
  LET proposals[n \in 0..Len(unmatched)] ==
        IF n = 0 THEN <<>>
        ELSE proposals[n - 1] \o TdsMatch(unmatched[n], {i \in open : ~Taken(proposals[n - 1], i)}, remembered)
  IN  proposals[Len(unmatched)]

\* Mutant for MatchingSound: what was matched exactly is tried again.
ResidualOfAll(all, matched) == all
Residual(all, matched) == {i \in all : i.id \notin matched}

\* The match node: exact matches, then TDS on what they leave.
MatchNode(unmatched, open, remembered) ==
  LET exact == ProposeMatches(unmatched, open)
      left == FlattenSeq([k \in DOMAIN unmatched |->
                IF unmatched[k].id \in {p.txn : p \in ToSet(exact)} THEN <<>> ELSE <<unmatched[k]>>])
  IN  exact \o ProposeTdsMatches(left, Residual(open, {p.invoice : p \in ToSet(exact)}), remembered)

\* critic_review of the k-th proposal: open, to the paisa, and first for its
\* payment and its invoice.
Passes(proposals, open, k) ==
  LET p == proposals[k] IN
  /\ \E i \in open : i.id = p.invoice /\ i.amount = p.amount + p.tds
  /\ p.kind = "tds_adjusted" => p.tds > 0
  /\ \A j \in 1..(k - 1) : proposals[j].txn # p.txn /\ proposals[j].invoice # p.invoice
=============================================================================
