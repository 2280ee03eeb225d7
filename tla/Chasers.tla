------------------------------ MODULE Chasers -------------------------------
(***************************************************************************)
(* What is learned of a client's payments and what it is used for: the     *)
(* learn node of reconciliation and the approval of a match, which write   *)
(* claims; the parsers that read them; and the collections graph, which    *)
(* drafts a reminder for each overdue invoice.                             *)
(*                                                                         *)
(* Claims are the facts their wording carries.  An open invoice is         *)
(* [id, client, due, amount], moments being tenths of a day; a client is   *)
(* in the address book with the number of its e-mail addresses.            *)
(***************************************************************************)
EXTENDS Integers, Sequences, SequencesExt, FiniteSetsExt

\* "paid N days late", "paid N days early", of two days: 0 early on the day.
TimingClaim(paid, due) ==
  IF paid > due THEN [kind |-> "timing", n |-> paid - due, word |-> "late"]
  ELSE [kind |-> "timing", n |-> due - paid, word |-> "early"]

\* "deducts R% TDS", R being the rate in basis points over 100, which an
\* exact-paise deduction gives back exactly.
RateClaim(tds, amount) == [kind |-> "rate", bps |-> (tds * 10000) \div (amount + tds)]

\* The claims a committed match leaves, whoever committed it.
ClaimsOfMatch(p, paid, due) ==
  <<TimingClaim(paid, due)>> \o IF p.kind = "tds_adjusted" THEN <<RateClaim(p.tds, p.amount)>> ELSE <<>>

\* Mutant for ChasersFair: the days are read without their word.
DaysOnly(claim) == claim.n
DaysLate(claim) == IF claim.word = "late" THEN claim.n ELSE 0 - claim.n

\* parse_late_days: the days of the claims that tell of a payment.
Timings(claims) == {k \in DOMAIN claims : claims[k].kind = "timing"}
ParseLateDays(claims) == {DaysLate(claims[k]) : k \in Timings(claims)}

Plausible(bps) == bps \in 1..3000

\* parse_deduction_rates: each plausible rate once, in the order recalled.
ParseDeductionRates(claims) ==
  LET rates[n \in 0..Len(claims)] ==
        IF n = 0 THEN <<>>
        ELSE LET c == claims[n]
             IN  IF c.kind = "rate" /\ Plausible(c.bps) /\ c.bps \notin ToSet(rates[n - 1])
                 THEN Append(rates[n - 1], c.bps) ELSE rates[n - 1]
  IN  rates[Len(claims)]

-----------------------------------------------------------------------------
GENTLE_MAX_OVERDUE == 30
RELIABLE_MAX_LATE == 21

\* behavior_profile: somebody who never was more than three weeks late.
Reliable(claims) ==
  ParseLateDays(claims) # {} /\ \A days \in ParseLateDays(claims) : days <= RELIABLE_MAX_LATE

\* compose_draft.
Tone(claims, days) ==
  CASE days <= GENTLE_MAX_OVERDUE /\ Reliable(claims) -> "gentle"
    [] days <= GENTLE_MAX_OVERDUE /\ ~Reliable(claims) -> "neutral"
    [] OTHER -> "firm"

Overdue(inv, now) == inv.due < now

\* collections_context: the overdue invoices of known clients.
CollectionsContext(open, book, now) == {i \in open : Overdue(i, now) /\ i.client \in DOMAIN book}

\* draft: one for each invoice.
Drafts(open, book, claims, now) ==
  {[invoice |-> i.id, amount |-> i.amount, to |-> book[i.client],
    tone |-> Tone(claims[i.client], (now - i.due) \div 10)] : i \in CollectionsContext(open, book, now)}

\* queue_for_approval: those that have somebody to go to.
Sendable(drafts) == {d \in drafts : d.to > 0}
=============================================================================
