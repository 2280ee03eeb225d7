----------------------------- MODULE Anomalies ------------------------------
(***************************************************************************)
(* The anomaly detectors (agents anomaly_scan/detection.py).               *)
(*                                                                         *)
(* A debit is [id, vendor, day, amount], its vendor the slug of its hint;  *)
(* the rows of a scan are a sequence in the order of the query.            *)
(***************************************************************************)
EXTENDS Integers, FiniteSets, Sequences, SequencesExt, FiniteSetsExt

DUPLICATE_WINDOW_DAYS == 7
MIN_BASELINE_POINTS == 2

\* Python's stable sort: rows of one key keep their order.
SortedBy(rows, Key(_)) ==
  LET place(k) == Cardinality({j \in DOMAIN rows :
        Key(rows[j]) < Key(rows[k]) \/ (Key(rows[j]) = Key(rows[k]) /\ j <= k)})
  IN  [r \in DOMAIN rows |-> rows[CHOOSE k \in DOMAIN rows : place(k) = r]]

ByDate(rows) == SortedBy(rows, LAMBDA t : t.day)

\* The groups of the rows, each in the order of the rows.
Vendors(rows) == {t.vendor : t \in ToSet(rows)}
Bills(rows, vendor) ==
  FlattenSeq([k \in DOMAIN rows |-> IF rows[k].vendor = vendor THEN <<rows[k]>> ELSE <<>>])
Equal(rows, t) ==
  FlattenSeq([k \in DOMAIN rows |->
                IF rows[k].vendor = t.vendor /\ rows[k].amount = t.amount THEN <<rows[k]>> ELSE <<>>])

\* Mutant for DetectionSound: a week ends a day early.
CloseBy(first, second) == second.day - first.day < DUPLICATE_WINDOW_DAYS
Close(first, second) == second.day - first.day <= DUPLICATE_WINDOW_DAYS

\* Neighbours by date are compared.
Neighbours(sorted) == {<<k - 1, k>> : k \in 2..Len(sorted)}

DetectDuplicates(debits) ==
  UNION {LET sorted == ByDate(Equal(debits, t)) IN
         {[kind |-> "duplicate", first |-> sorted[n[1]].id, second |-> sorted[n[2]].id, recoverable |-> t.amount] :
            n \in {m \in Neighbours(sorted) : Close(sorted[m[1]], sorted[m[2]])}} : t \in ToSet(debits)}

-----------------------------------------------------------------------------
\* int(median) of amounts: the middle one, or the mean of the middle two.
Median(amounts) ==
  LET sorted == SortedBy(amounts, LAMBDA a : a)
      n == Len(amounts)
  IN  IF n % 2 = 1 THEN sorted[(n + 1) \div 2] ELSE (sorted[n \div 2] + sorted[n \div 2 + 1]) \div 2

\* At most a quarter of the base between the least and the most.
Steady(amounts) ==
  4 * (Max(ToSet(amounts)) - Min(ToSet(amounts))) <= Median(amounts)

\* A set of at most one amount.
StableBaseline(amounts) ==
  IF Len(amounts) < MIN_BASELINE_POINTS THEN {}
  ELSE {base \in {Median(amounts)} : base > 0 /\ Steady(amounts)}

Amounts(bills) == [k \in DOMAIN bills |-> bills[k].amount]

\* Half as much again is an overcharge, a quarter more out of pattern.
DeviationKind(amount, base) ==
  CASE 2 * amount >= 3 * base -> "overcharge"
    [] 4 * amount >= 5 * base -> "out_of_pattern"
    [] OTHER -> "none"

\* The latest bill of each vendor against the earlier ones and those
\* remembered, a function from vendors to sequences of amounts.
DetectDeviations(debits, memory) ==
  UNION {LET bills == ByDate(Bills(debits, v))
             latest == Last(bills)
         IN  {[kind |-> DeviationKind(latest.amount, base), txn |-> latest.id,
               recoverable |-> IF DeviationKind(latest.amount, base) = "overcharge" THEN latest.amount - base ELSE 0] :
               base \in {b \in StableBaseline(Amounts(Front(bills)) \o memory[v]) :
                           latest.amount > b /\ DeviationKind(latest.amount, b) # "none"}}
         : v \in Vendors(debits)}

\* The baselines the learn node remembers, as <<vendor, amount>>.
BaselineClaims(debits) ==
  UNION {{<<v, base>> : base \in StableBaseline(Amounts(Bills(debits, v)))} : v \in Vendors(debits)}
=============================================================================
