---------------------------- MODULE Projections -----------------------------
(***************************************************************************)
(* Money over time: statutory interest (services/statutory.py), the cash   *)
(* forecast (agents cash_forecast/engine.py) and working-capital options   *)
(* (working_capital/options.py with the sandbox TReDS quote).              *)
(*                                                                         *)
(* Amounts are paise.  Moments are tenths of a day after the start of the  *)
(* run, because remembered lateness is an average with one decimal.        *)
(***************************************************************************)
EXTENDS Integers, FiniteSets, Sequences, SequencesExt, FiniteSetsExt

CONSTANT NoHistory \* lateness of a client nothing is remembered of

TENTHS == 10
Days(moment) == moment \div TENTHS

RoundHalfUp(n, d) == (2 * n + d) \div (2 * d)
\* Python's round.
RoundHalfEven(n, d) ==
  LET q == n \div d
      r == n - d * q
  IN  IF 2 * r > d \/ (2 * r = d /\ q % 2 = 1) THEN q + 1 ELSE q

-----------------------------------------------------------------------------
(* accrued_interest_paise at three times a bank rate of 6.75%: 27/1600 a    *)
(* month of thirty days.                                                    *)

\* The balance after some full months.
Compounded(principal, months) ==
  LET balance[m \in 0..months] ==
        IF m = 0 THEN principal ELSE RoundHalfUp(balance[m - 1] * 1627, 1600)
  IN  balance[months]

TrailingDays(days) == days - 30 * (days \div 30)

AccruedInterest(principal, days) ==
  IF days <= 0 \/ principal <= 0 THEN 0
  ELSE LET balance == Compounded(principal, days \div 30)
       IN  RoundHalfUp(balance * (48000 + 27 * TrailingDays(days)), 48000) - principal

-----------------------------------------------------------------------------
(* The forecast: an invoice is [id, client, amount, due].                   *)

SCENARIOS == <<"upside", "base", "downside">>
DEFAULT_PAY_DELAY == 7 * TENTHS
DOWNSIDE_SLIP == 14 * TENTHS

Delay(late) == IF late = NoHistory THEN DEFAULT_PAY_DELAY ELSE late

\* Mutant for ProjectionsSound: the slip replaces the client's lateness.
SlipOnly(late) == DOWNSIDE_SLIP
DownsideDelay(late) == Delay(late) + DOWNSIDE_SLIP

InflowDate(inv, late, scenario) ==
  CASE scenario = "upside" -> inv.due
    [] scenario = "base" -> inv.due + Delay(late)
    [] scenario = "downside" -> inv.due + DownsideDelay(late)

\* What is overdue is this week's money.
WeekIndex(moment) == IF moment < 0 THEN 0 ELSE Days(moment) \div 7

\* round(sum / 4.33)
WeeklyOutflow(monthly) == RoundHalfEven(100 * monthly, 433)

Inflow(invoices, late, scenario, week) ==
  SumFunction([i \in {j \in invoices : WeekIndex(InflowDate(j, late[j.client], scenario)) = week} |-> i.amount])

\* closing_paise of each week of a scenario.
Closings(c, scenario) ==
  LET closing[week \in 0..(c.horizon - 1)] ==
        (IF week = 0 THEN c.opening ELSE closing[week - 1])
        + Inflow(c.invoices, c.late, scenario, week) - WeeklyOutflow(c.monthly)
  IN  closing

Project(c) == [s \in ToSet(SCENARIOS) |-> Closings(c, s)]

Negative(closings) == {w \in DOMAIN closings : closings[w] < 0}

GapOrder == <<"downside", "base", "upside">>

\* detect_gap: the first negative week of the worst scenario that has one.
DetectGap(scenarios) ==
  LET short == {k \in DOMAIN GapOrder : Negative(scenarios[GapOrder[k]]) # {}}
      worst == GapOrder[Min(short)]
  IN  IF short = {} THEN {} ELSE {[scenario |-> worst, week |-> Min(Negative(scenarios[worst]))]}

-----------------------------------------------------------------------------
(* build_options.                                                           *)

MIN_TREDS_TENOR_DAYS == 7

AtLeastOne(n) == IF n < 1 THEN 1 ELSE n
\* SandboxTredsProvider.quote: 18% a year over the tenor.
QuoteCost(amount, tenor) == RoundHalfEven(amount * 18 * AtLeastOne(tenor), 36500)

DaysToCash(inv, late) == Days(inv.due + Delay(late))

\* A late payment far enough away is discounted, an overdue one collected.
OptionOf(inv, late) ==
  IF DaysToCash(inv, late) >= MIN_TREDS_TENOR_DAYS
  THEN LET cost == QuoteCost(inv.amount, DaysToCash(inv, late))
       IN  <<[kind |-> "treds", invoice |-> inv.id, cost |-> cost, unlock |-> inv.amount - cost]>>
  ELSE IF Days(-inv.due) > 0
  THEN <<[kind |-> "collect", invoice |-> inv.id, cost |-> 0, unlock |-> inv.amount]>>
  ELSE <<>>

\* Less cost for each paisa unlocked, then more unlocked.
Better(a, b) ==
  \/ a.cost * AtLeastOne(b.unlock) < b.cost * AtLeastOne(a.unlock)
  \/ a.cost * AtLeastOne(b.unlock) = b.cost * AtLeastOne(a.unlock) /\ a.unlock > b.unlock

\* A stable sort: an option comes after the better ones and its earlier equals.
Ranked(options) ==
  LET rank(k) == Cardinality({j \in DOMAIN options :
        Better(options[j], options[k]) \/ (~Better(options[k], options[j]) /\ j <= k)})
  IN  [r \in DOMAIN options |-> options[CHOOSE k \in DOMAIN options : rank(k) = r]]

\* Invoices come in the order of the rows.
BuildOptions(invoices, late) ==
  Ranked(FlattenSeq([k \in DOMAIN invoices |-> OptionOf(invoices[k], late[invoices[k].client])]))
=============================================================================
