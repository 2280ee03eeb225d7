---------------------------- MODULE BookReports -----------------------------
(***************************************************************************)
(* What the books say to a reader: the data room's FinDesk score           *)
(* (services/dataroom.py) and the month-end report (services/reports.py).  *)
(*                                                                         *)
(* An open invoice is [id, due, amount], moments being tenths of a day; a  *)
(* transaction is [id, date, amount, dr, category, status], a date <<year, *)
(* month, day>>; a match is the id of its transaction.  Ratios are         *)
(* fractions of SCALE, which the denominators 1 to 10 and 14 divide; for   *)
(* another denominator they are cut off, where the code divides floats, so *)
(* that a score at the border of two points may differ by one.             *)
(***************************************************************************)
EXTENDS Integers, FiniteSets, Functions, FiniteSetsExt

SCALE == 5040

WEIGHTS ==
  [reconciliation |-> 25, categorization |-> 15, audit_integrity |-> 20,
   receivables_discipline |-> 15, conflict_hygiene |-> 10, forecast_freshness |-> 15]

Clamped(ratio) == IF ratio < 0 THEN 0 ELSE IF ratio > SCALE THEN SCALE ELSE ratio

\* round(total), half to even.
RoundScore(n) ==
  LET q == n \div SCALE
      r == n - SCALE * q
  IN  IF 2 * r > SCALE \/ (2 * r = SCALE /\ q % 2 = 1) THEN q + 1 ELSE q

ComputeScore(components) ==
  RoundScore(SumFunction([c \in DOMAIN WEIGHTS |-> Clamped(components[c]) * WEIGHTS[c]]))

Ratio(part, total) == IF total = 0 THEN 0 ELSE (SCALE * part) \div total

Paise(rows) == SumFunction([r \in rows |-> r.amount])
OverduePaise(invoices, now) == Paise({i \in invoices : i.due < now})

\* The share of open receivables that is not overdue; nothing open is perfect.
Discipline(invoices, now) == SCALE - Ratio(OverduePaise(invoices, now), Paise(invoices))

Hygiene(open, resolved) == IF open + resolved = 0 THEN SCALE ELSE Ratio(resolved, open + resolved)

\* age: the days of the latest forecast, as a set of at most one.
Freshness(age) == Max({0} \cup {SCALE - Ratio(a, 14) : a \in age})

\* build_dataroom's components.  Each count is a SELECT of its own, so that a
\* part may be read after its total has grown.
Components(c) ==
  [reconciliation |-> Ratio(c.matched, c.txns),
   categorization |-> Ratio(c.categorized, c.debits),
   audit_integrity |-> IF c.chainOk THEN SCALE ELSE 0,
   receivables_discipline |-> Discipline(c.invoices, c.now),
   conflict_hygiene |-> Hygiene(c.conflicts, c.resolved),
   forecast_freshness |-> Freshness(c.forecastAge)]

Score(c) == ComputeScore(Components(c))

-----------------------------------------------------------------------------
AGING_BUCKETS == {"0-30", "31-60", "61+"}
AgingBucket(days) == IF days <= 30 THEN "0-30" ELSE IF days <= 60 THEN "31-60" ELSE "61+"

DaysOverdue(inv, now) == (now - inv.due) \div 10

PastDue(inv, now) == DaysOverdue(inv, now) >= 0

\* Receivables aging: the paise of each bucket.
Aging(invoices, now) ==
  [b \in AGING_BUCKETS |->
     Paise({i \in invoices : PastDue(i, now) /\ AgingBucket(DaysOverdue(i, now)) = b})]

\* Dates in the order of the calendar.
Before(d, e) ==
  \/ d[1] < e[1]
  \/ d[1] = e[1] /\ (d[2] < e[2] \/ (d[2] = e[2] /\ d[3] < e[3]))

\* period_bounds, for a <<year, month>>.
PeriodStart(p) == <<p[1], p[2], 1>>
PeriodEnd(p) == IF p[2] = 12 THEN <<p[1] + 1, 1, 1>> ELSE <<p[1], p[2] + 1, 1>>

\* Mutant for ReportsSound: the end of the period belongs to it.
InPeriodClosed(t, p) == ~Before(t.date, PeriodStart(p)) /\ ~Before(PeriodEnd(p), t.date)
InPeriod(t, p) == ~Before(t.date, PeriodStart(p)) /\ Before(t.date, PeriodEnd(p))

\* Matches belong to the period of their transaction, not of their run.
MatchesOf(matches, month) == {m \in matches : \E t \in month : t.id = m}

\* The month-end report: cash flow and reconciliation.
MonthEnd(txns, matches, p) ==
  LET month == {t \in txns : InPeriod(t, p)}
      debits == {t \in month : t.dr}
      matched == MatchesOf(matches, month)
  IN  [inflow |-> Paise(month \ debits), outflow |-> Paise(debits),
       byCategory |-> [c \in {t.category : t \in debits} |-> Paise({t \in debits : t.category = c})],
       transactions |-> Cardinality(month), matched |-> Cardinality(matched),
       matchedAmount |-> Paise({t \in month : t.id \in matched}),
       unmatched |-> Cardinality({t \in month : t.status = "unmatched"})]
=============================================================================
