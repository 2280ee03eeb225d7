----------------------------- MODULE Algorithms -----------------------------
(***************************************************************************)
(* The pure algorithms of the agents, the memory service and the backend,  *)
(* each called once on an input of a small set.  A state holds the call    *)
(* made, its input and its result.                                         *)
(***************************************************************************)
EXTENDS Integers, FiniteSets, Sequences, SequencesExt, FiniteSetsExt

CONSTANTS
  NoHistory,      \* lateness of a client nothing is remembered of
  MatchInputs,    \* [unmatched, open, remembered] of the match node
  InterestInputs, \* [principal, days] of a statutory clock
  ForecastInputs, \* [horizon, opening, monthly, invoices, late]
  OptionInputs,   \* [invoices, late] of a working-capital run
  DebitInputs,    \* the rows of an anomaly scan
  PackInputs,     \* [scored, budget, compress] of a retrieval
  WorkflowInputs, \* the runs a consolidation reads
  ScoreInputs,    \* what the data room counts
  MonthInputs,    \* the transactions and matches of a month-end report
  StatementInputs, ExportInputs, \* the lines of an uploaded file
  ChaseInputs,    \* [open, book, claims, now] of a collections run
  Blank, Bad      \* cells of a file

M == INSTANCE Matching
P == INSTANCE Projections
D == INSTANCE Anomalies
R == INSTANCE Recollection
B == INSTANCE BookReports
X == INSTANCE Exports
C == INSTANCE Chasers

\* A collections run reads invoices by their ids, each with the claims
\* recalled about its client.
ChasesAreGiven ==
  \A in \in ChaseInputs :
    /\ in.now \in Int
    /\ \A i, j \in in.open : i.id = j.id => i = j
    /\ \A i \in in.open :
         LET claims == in.claims[i.client] IN
         i.due \in Int /\ claims \in Seq({claims[k] : k \in DOMAIN claims})

\* A retrieval packs different memories into a budget; a consolidation reads
\* the tools each run called.
PacksAreGiven ==
  \A in \in PackInputs :
    /\ in.scored \in Seq({in.scored[k] : k \in DOMAIN in.scored})
    /\ in.budget \in Nat /\ in.compress \in BOOLEAN
    /\ \A k \in DOMAIN in.scored : in.scored[k].full \in Nat /\ in.scored[k].short \in Nat
    /\ \A j, k \in DOMAIN in.scored : in.scored[j].id = in.scored[k].id => j = k
WorkflowsAreGiven ==
  \A runs \in WorkflowInputs :
    /\ runs \in Seq({runs[r] : r \in DOMAIN runs})
    /\ \A r \in DOMAIN runs : runs[r] \in Seq({runs[r][k] : k \in DOMAIN runs[r]})

\* A data room counts rows and takes the age of the latest forecast, if any.
ScoresAreGiven ==
  \A in \in ScoreInputs :
    /\ in \in [txns : Nat, matched : Nat, debits : Nat, categorized : Nat, chainOk : BOOLEAN, conflicts : Nat,
               resolved : Nat, forecastAge : SUBSET Nat, invoices : SUBSET in.invoices, now : Int]
    /\ IsFiniteSet(in.invoices) /\ \A i \in in.invoices : i.due \in Int /\ i.amount \in Nat
    /\ \A a, b \in in.forecastAge : a = b

\* The months reported are those of the transactions, whose statuses and
\* committed matches agree.
MonthsAreGiven ==
  \A in \in MonthInputs :
    /\ IsFiniteSet(in.periods) /\ in.periods \subseteq Nat \X (1..12)
    /\ IsFiniteSet(in.txns) /\ \A t, u \in in.txns : t.id = u.id => t = u
    /\ \A t \in in.txns :
         /\ t.date \in Nat \X (1..12) \X (1..31) /\ <<t.date[1], t.date[2]>> \in in.periods
         /\ t.amount \in Nat /\ t.dr \in BOOLEAN
         /\ t.status = "unmatched" <=> t.id \notin in.matches
    /\ \A m \in in.matches : \E t \in in.txns : t.id = m

\* Money and days are whole numbers, and every client has a lateness or none.
InterestsAreGiven == \A in \in InterestInputs : in.principal \in Int /\ in.days \in Int
IsOwed(i, late) ==
  /\ i.due \in Int /\ i.amount \in Nat /\ i.client \in DOMAIN late
  /\ late[i.client] = NoHistory \/ late[i.client] \in Int
ForecastsAreGiven ==
  \A in \in ForecastInputs :
    /\ in.horizon \in Nat /\ in.opening \in Int /\ in.monthly \in Int
    /\ IsFiniteSet(in.invoices) /\ \A i \in in.invoices : IsOwed(i, in.late)
\* A working-capital run reads invoices by their ids.
OptionsAreGiven ==
  \A in \in OptionInputs :
    /\ in.invoices \in Seq({in.invoices[k] : k \in DOMAIN in.invoices})
    /\ \A k \in DOMAIN in.invoices : IsOwed(in.invoices[k], in.late)
    /\ \A j, k \in DOMAIN in.invoices : in.invoices[j].id = in.invoices[k].id => j = k

\* The rows to match are read by their ids; every client with an open invoice
\* has the list, perhaps empty, of the plausible rates recalled.
PaymentsAreGiven(unmatched) ==
  /\ unmatched \in Seq({unmatched[k] : k \in DOMAIN unmatched})
  /\ \A k \in DOMAIN unmatched :
       unmatched[k].day \in Int /\ unmatched[k].amount \in Int /\ unmatched[k].cr \in BOOLEAN
  /\ \A j, k \in DOMAIN unmatched : unmatched[j].id = unmatched[k].id => j = k
InvoicesAreGiven(open, clients) ==
  /\ IsFiniteSet(open) /\ \A i, j \in open : i.id = j.id => i = j
  /\ \A i \in open :
       /\ i = [id |-> i.id, day |-> i.day, amount |-> i.amount, party |-> i.party, tokens |-> i.tokens]
       /\ i.day \in Int /\ i.amount \in Int /\ i.party \in clients
RatesAreGiven(remembered) == \A c \in DOMAIN remembered : remembered[c] \in Seq(1..3000)
MatchesAreGiven ==
  \A in \in MatchInputs :
    PaymentsAreGiven(in.unmatched) /\ InvoicesAreGiven(in.open, DOMAIN in.remembered) /\ RatesAreGiven(in.remembered)

\* A file is a sequence of lines.
FilesAreGiven ==
  \A lines \in StatementInputs \cup ExportInputs : lines \in Seq({lines[k] : k \in DOMAIN lines})

\* A scan reads debits by their ids.
DebitsAreGiven ==
  \A rows \in DebitInputs :
    /\ rows \in Seq({rows[k] : k \in DOMAIN rows})
    /\ \A k \in DOMAIN rows : rows[k].day \in Int /\ rows[k].amount \in Int
    /\ \A j, k \in DOMAIN rows : rows[j].id = rows[k].id => j = k

ASSUME InputsAreGiven ==
  /\ ChasesAreGiven /\ PacksAreGiven /\ WorkflowsAreGiven /\ ScoresAreGiven /\ MonthsAreGiven
  /\ InterestsAreGiven /\ ForecastsAreGiven /\ OptionsAreGiven /\ FilesAreGiven /\ DebitsAreGiven
  /\ MatchesAreGiven

VARIABLES call, input, result

callVars == <<call, input, result>>

Uncalled == call = "none" /\ input = <<>> /\ result = <<>>

Return(name, in, value) ==
  call = "none" /\ call' = name /\ input' = in /\ result' = value

Match == \E in \in MatchInputs : Return("match", in, M!MatchNode(in.unmatched, in.open, in.remembered))
Accrue == \E in \in InterestInputs : Return("interest", in, P!AccruedInterest(in.principal, in.days))
Forecast == \E in \in ForecastInputs : Return("forecast", in, P!Project(in))
Rank == \E in \in OptionInputs : Return("options", in, P!BuildOptions(in.invoices, in.late))
Scan == \E in \in DebitInputs : Return("scan", in, D!DetectDuplicates(in))
Pack == \E in \in PackInputs : Return("pack", in, R!PackToBudget(in.scored, in.budget, in.compress))
Mine == \E in \in WorkflowInputs : Return("mine", in, R!FindRepeatedWorkflows(in))
Grade == \E in \in ScoreInputs : Return("score", in, B!Score(in))
Report == \E in \in MonthInputs : Return("month", in, [p \in in.periods |-> B!MonthEnd(in.txns, in.matches, p)])
ReadStatement == \E in \in StatementInputs : Return("statement", in, X!ParseStatement(in))
ReadExport == \E in \in ExportInputs : Return("export", in, X!ParseInvoiceExport(in))
Chase == \E in \in ChaseInputs : Return("chase", in, C!Sendable(C!Drafts(in.open, in.book, in.claims, in.now)))

AfterCall == call # "none" /\ UNCHANGED callVars

OneCall ==
  \/ Match \/ Accrue \/ Forecast \/ Rank \/ Scan \/ Pack \/ Mine \/ Grade \/ Report
  \/ ReadStatement \/ ReadExport \/ Chase \/ AfterCall

CallSpec == Uncalled /\ [][OneCall]_callVars

-----------------------------------------------------------------------------
\* What the properties say of a call.
Called(name) == call = name

\* Every proposal of the matcher stands before the critic, which sees the
\* ones before it: its payment is money in that came after the invoice, and
\* neither is used twice.
MatchesAreSound ==
  Called("match") =>
    \A k \in DOMAIN result :
      /\ M!Passes(result, input.open, k)
      /\ \E t \in ToSet(input.unmatched), i \in input.open :
           t.id = result[k].txn /\ i.id = result[k].invoice /\ t.cr /\ t.day >= i.day

\* The payments that could settle an invoice in either pass.
Suits(t, i) == M!FitsExactly(t, i) \/ M!FitsWithTds(t, i, input.remembered)
Contested(t) ==
  \E u \in ToSet(input.unmatched) : u.id # t.id /\ \E i \in input.open : Suits(t, i) /\ Suits(u, i)

\* What is decided about a payment depends on other payments only through
\* the invoices they could settle too, and not on the order of the rows.
DecidedAsIfAlone ==
  Called("match") =>
    \A t \in ToSet(input.unmatched) :
      ~Contested(t) =>
        {p \in ToSet(result) : p.txn = t.id} =
        ToSet(M!MatchNode(<<t>>, input.open, input.remembered))

\* An invoice with a twin, alike in all but its id, is never proposed: which
\* of the two was paid is for a person ("Anything ambiguous stays unmatched").
AmbiguousIsLeft ==
  Called("match") =>
    \A p \in ToSet(result), i, j \in input.open :
      p.invoice = i.id /\ i.id # j.id => [j EXCEPT !.id = i.id] # i

\* Interest compounds with monthly rests: a month more is the month's
\* interest and then interest on the whole; it grows with time and principal.
InterestCompounds ==
  Called("interest") =>
    LET p == input.principal
        d == input.days
        month == P!AccruedInterest(p, 30)
    IN  /\ d >= 0 => P!AccruedInterest(p, d + 30) = month + P!AccruedInterest(p + month, d)
        /\ result >= 0
        /\ P!AccruedInterest(p, d + 1) >= result
        /\ P!AccruedInterest(p + 1, d) >= result

\* A closing is the opening and every invoice the scenario pays by then, each
\* once, overdue ones included, less the weekly outflow.
ForecastConserves ==
  Called("forecast") =>
    \A s \in DOMAIN result, w \in 0..(input.horizon - 1) :
      result[s][w] =
        input.opening - (w + 1) * P!WeeklyOutflow(input.monthly)
        + SumFunction([i \in {j \in input.invoices :
                                 P!InflowDate(j, input.late[j.client], s) < 7 * P!TENTHS * (w + 1)} |-> i.amount])

NobodyIsEarly == \A c \in DOMAIN input.late : input.late[c] = NoHistory \/ input.late[c] >= 0

\* When no client pays early, downside, base and upside bound one another
\* in every week.
BandsAreOrdered ==
  Called("forecast") /\ NobodyIsEarly =>
    \A w \in 0..(input.horizon - 1) :
      result.downside[w] <= result.base[w] /\ result.base[w] <= result.upside[w]

\* The gap reported is the first week in which any scenario runs dry.
GapIsFirst ==
  Called("forecast") /\ NobodyIsEarly =>
    LET dry == {w \in 0..(input.horizon - 1) : \E s \in DOMAIN result : result[s][w] < 0}
        gap == P!DetectGap(result)
    IN  /\ gap = {} <=> dry = {}
        /\ \A g \in gap : g.week \in dry /\ \A w \in dry : g.week <= w

\* Options come by cost for each paisa unlocked (one at least), at most one
\* for an invoice, and what is unlocked and its cost make the invoice.
OptionsAreRanked ==
  Called("options") =>
    /\ \A r, s \in DOMAIN result : r < s =>
         result[r].cost * P!AtLeastOne(result[s].unlock) <= result[s].cost * P!AtLeastOne(result[r].unlock)
    /\ \A r, s \in DOMAIN result : result[r].invoice = result[s].invoice => r = s
    /\ \A r \in DOMAIN result : \E i \in ToSet(input.invoices) :
         result[r].invoice = i.id /\ result[r].unlock + result[r].cost = i.amount /\ result[r].cost >= 0

\* The days on which an equal debit begins a series: none in the week before.
Begins(rows, t) ==
  LET days == {u.day : u \in {v \in ToSet(rows) : v.vendor = t.vendor /\ v.amount = t.amount}}
  IN  {d \in days : \A e \in days : e < d => d - e > D!DUPLICATE_WINDOW_DAYS}

\* Equal debits of one vendor that follow each other within a week are one
\* payment and repeats of it: each repeat is raised once, with its amount.
EveryRepeatIsFound ==
  Called("scan") =>
    /\ \A f, g \in result : f.second = g.second => f = g
    /\ \A t \in ToSet(input) :
         LET equal == {u \in ToSet(input) : u.vendor = t.vendor /\ u.amount = t.amount} IN
         Cardinality({f \in result : \E u \in equal : u.id = f.second /\ f.recoverable = u.amount}) =
           Cardinality(equal) - Cardinality(Begins(input, t))

OneADay == \A k, l \in DOMAIN input : input[k].day = input[l].day => k = l

\* Where days tell equal debits apart, a rescan finds what was found: in
\* another order of the rows, and after a later debit has come.
RescansAgree ==
  Called("scan") /\ OneADay =>
    LET latest == {k \in DOMAIN input : \A l \in DOMAIN input : input[l].day <= input[k].day}
        backwards == [k \in DOMAIN input |-> input[Len(input) + 1 - k]]
    IN  /\ D!DetectDuplicates(backwards) = result
        /\ \A k \in latest :
             D!DetectDuplicates(SubSeq(input, 1, k - 1) \o SubSeq(input, k + 1, Len(input))) \subseteq result

\* A vendor whose latest bill is an overcharge leaves no baseline to be
\* remembered from the same scan: the overcharge does not become the norm.
LearnedIsNotOvercharged ==
  Called("scan") =>
    LET vendors == {t.vendor : t \in ToSet(input)} IN
    \A f \in D!DetectDeviations(input, [v \in vendors |-> <<>>]), t \in ToSet(input) :
      f.kind = "overcharge" /\ f.txn = t.id => \A c \in D!BaselineClaims(input) : c[1] # t.vendor

\* The tokens of the first n items.
TokensOf(items) ==
  LET tokens[n \in 0..Len(items)] == IF n = 0 THEN 0 ELSE tokens[n - 1] + items[n].tokens
  IN  tokens

\* What is recalled stays within the token budget, in the order of the
\* scores, each memory once.
BudgetKept ==
  Called("pack") =>
    LET rank(id) == CHOOSE k \in DOMAIN input.scored : input.scored[k].id = id IN
    /\ TokensOf(result.items)[Len(result.items)] <= input.budget
    /\ \A j, k \in DOMAIN result.items : j < k => rank(result.items[j].id) < rank(result.items[k].id)

\* A memory left out would not fit into what the budget has left.
NothingFitsLeft ==
  Called("pack") =>
    \A j \in DOMAIN input.scored :
      LET m == input.scored[j] IN
      (\A k \in DOMAIN result.items : result.items[k].id # m.id) =>
        /\ result.used + m.full > input.budget
        /\ input.compress => m.short = 0 \/ result.used + m.short > input.budget

\* Every workflow of two to six calls that three runs share is reported, or
\* part of a reported one that as many runs share; and none is part of another.
WorkflowsCover ==
  Called("mine") =>
    LET shared == {g \in UNION {R!Grams(input[r]) : r \in DOMAIN input} :
                     Cardinality({r \in DOMAIN input : R!Holds(input[r], g)}) >= R!MIN_REPEATS}
    IN  /\ \A g \in shared : \E w \in result :
             R!Holds(w.workflow, g) /\ w.count = Cardinality({r \in DOMAIN input : R!Holds(input[r], g)})
        /\ \A v, w \in result : v # w => ~(R!Holds(v.workflow, w.workflow) /\ v.count = w.count)

\* The score is between 0 and 100 even when a part was counted after its
\* total had grown, and at most 80 while the audit chain is broken.
ScoreIsFair ==
  Called("score") =>
    /\ result \in 0..100
    /\ ~input.chainOk => result <= 80

\* Matching, categorising, resolving, and collecting what is overdue never
\* lower the score; nor does collecting anything when nothing is overdue.
GoodDeedsCount ==
  Called("score") =>
    /\ B!Score([input EXCEPT !.matched = @ + 1]) >= result
    /\ B!Score([input EXCEPT !.categorized = @ + 1]) >= result
    /\ input.conflicts > 0 => B!Score([input EXCEPT !.conflicts = @ - 1, !.resolved = @ + 1]) >= result
    /\ \A i \in input.invoices :
         i.due < input.now \/ B!OverduePaise(input.invoices, input.now) = 0 =>
           B!Score([input EXCEPT !.invoices = @ \ {i}]) >= result

\* Overdue receivables of the month-end report, in all its buckets, are those
\* of the data room and what falls due at that very moment.
ReportsAgree ==
  Called("score") =>
    LET aging == B!Aging(input.invoices, input.now) IN
    SumFunction(aging) =
      B!OverduePaise(input.invoices, input.now) + B!Paise({i \in input.invoices : i.due = input.now})

\* The months of the books add up: each transaction is in the report of
\* exactly one month and, if a debit, in one category of it.
MonthsAddUp ==
  Called("month") =>
    LET spent(p) == SumFunction(result[p].byCategory) IN
    /\ SumFunction([p \in input.periods |-> result[p].inflow]) = B!Paise({t \in input.txns : ~t.dr})
    /\ SumFunction([p \in input.periods |-> spent(p)]) = B!Paise({t \in input.txns : t.dr})
    /\ \A p \in input.periods : spent(p) = result[p].outflow

\* Where statuses and committed matches agree, as Books keeps them, the
\* reports leave nothing out: what a month did not match is unmatched in it,
\* and the months' matches are all there are, each in its transaction's month.
ReportsTally ==
  Called("month") =>
    /\ \A p \in input.periods : result[p].matched + result[p].unmatched = result[p].transactions
    /\ SumFunction([p \in input.periods |-> result[p].matched]) = Cardinality(input.matches)
    /\ SumFunction([p \in input.periods |-> result[p].matchedAmount]) =
         B!Paise({t \in input.txns : t.id \in input.matches})

\* What the lines give one by one.
Singly(Parse(_), lines) ==
  FlattenSeq([k \in DOMAIN lines |->
                LET alone == Parse(<<lines[k]>>) IN IF alone = {} THEN <<>> ELSE (CHOOSE r \in alone : TRUE).rows])

\* A line that cannot be read costs itself and no other: the whole file gives
\* what its lines give alone, in their order, and every line is kept or
\* counted as skipped; a file is refused only if nothing was kept, or if a
\* statement's line with an amount ends before its narration.
BadLinesCostThemselves ==
  LET Parse(lines) == IF call = "export" THEN X!ParseInvoiceExport(lines) ELSE X!ParseStatement(lines)
      cut == call = "statement" /\ \E k \in DOMAIN input : X!CutShort(input[k])
      alone == Singly(Parse, input)
  IN  call \in {"export", "statement"} =>
        /\ result = {} <=> cut \/ alone = <<>>
        /\ \A r \in result : r.rows = alone /\ Len(alone) + r.skipped = Len(input)

\* "The collections agent has drafts ready" (reports.py) for what the
\* month-end report counts as past due, but for what falls due at that very
\* moment and for clients nobody can write to: one draft each, of its amount.
PastDueIsChased ==
  Called("chase") =>
    LET reachable == {i \in input.open : i.client \in DOMAIN input.book /\ input.book[i.client] > 0} IN
    /\ {<<d.invoice, d.amount>> : d \in result} =
         {<<i.id, i.amount>> : i \in {j \in reachable : B!PastDue(j, input.now) /\ j.due # input.now}}
    /\ \A d, e \in result : d.invoice = e.invoice => d = e

Rank3(tone) == CASE tone = "gentle" -> 1 [] tone = "neutral" -> 2 [] tone = "firm" -> 3

\* One more payment learned moves the tone of a client's reminders one way
\* only: a prompt or early one never hardens it, one more than three weeks
\* late never softens it.
LearningIsFair ==
  Called("chase") =>
    \A i \in input.open, late \in {-40, -1, 0, 1, 21, 22, 40} :
      LET days == (input.now - i.due) \div 10
          before == Rank3(C!Tone(input.claims[i.client], days))
          after == Rank3(C!Tone(Append(input.claims[i.client], C!TimingClaim(late, 0)), days))
      IN  IF late > 21 THEN after >= before ELSE after <= before

\* The claims the matches of this run leave about a client.
Learned(client) ==
  FlattenSeq([k \in DOMAIN result |->
                IF result[k].party = client THEN C!ClaimsOfMatch(result[k], 0, 0) ELSE <<>>])

\* What a run learns is read back: with its claims recalled the same books
\* give the same matches, the TDS ones now with the remembered rate's
\* confidence: above a standard rate's, and still left to a person.
LearnedRatesCount ==
  Called("match") =>
    LET rates == [c \in DOMAIN input.remembered |->
                    input.remembered[c] \o C!ParseDeductionRates(Learned(c))]
        again == M!MatchNode(input.unmatched, input.open, rates)
    IN  again = [k \in DOMAIN result |->
                   IF result[k].kind = "full" THEN result[k]
                   ELSE [result[k] EXCEPT !.confidence = M!TDS_REMEMBERED_CONFIDENCE]]
-----------------------------------------------------------------------------
\* The matcher proposes what is sound, what each payment alone deserves and
\* nothing ambiguous, and what is learned from its matches counts.
MatchingSound == MatchesAreSound /\ DecidedAsIfAlone /\ AmbiguousIsLeft /\ LearnedRatesCount

\* Interest, forecasts, gaps and financing options add up and are in order.
ProjectionsSound ==
  InterestCompounds /\ ForecastConserves /\ BandsAreOrdered /\ GapIsFirst /\ OptionsAreRanked

\* Duplicates and overcharges are found, again by a rescan, and not learned.
DetectionSound == EveryRepeatIsFound /\ RescansAgree /\ LearnedIsNotOvercharged

\* The memory service fills its budget and finds each repeated workflow.
RecollectionSound == BudgetKept /\ NothingFitsLeft /\ WorkflowsCover

\* Data room and month-end report agree with the books and with each other.
ReportsSound == ScoreIsFair /\ GoodDeedsCount /\ ReportsAgree /\ MonthsAddUp /\ ReportsTally

\* Reminders go to whom they should, in the tone the client has earned.
ChasersFair == PastDueIsChased /\ LearningIsFair
=============================================================================
