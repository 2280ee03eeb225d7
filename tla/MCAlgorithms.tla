---------------------------- MODULE MCAlgorithms ----------------------------
(***************************************************************************)
(* Inputs of the algorithms: small books in which amounts, names, dates,   *)
(* ties and limits meet.                                                   *)
(***************************************************************************)
EXTENDS Algorithms, TLC

CONSTANTS acme, zeta, t1, t2, i1, i2, i3, aws, tea

\* Two payments and up to three invoices of 10 000 and 9 000, which is the
\* first after a tenth of TDS; names of two words or none.
Txn(id, day, amount, says) == [id |-> id, day |-> day, amount |-> amount, cr |-> TRUE, says |-> says]
Inv(id, day, amount, party, tokens) ==
  [id |-> id, day |-> day, amount |-> amount, party |-> party, tokens |-> tokens]

Says == {{}, {"acme"}, {"acme", "zeta"}}
Payments(id) ==
  {Txn(id, d, a, w) : d \in {1, 3}, a \in {9000, 10000}, w \in Says} \cup
  {[Txn(id, 3, 10000, {"acme"}) EXCEPT !.cr = FALSE]}
Owed(id) ==
  {Inv(id, d, a, acme, {"acme", "traders"}) : d \in {1, 2}, a \in {9000, 10000}} \cup
  {Inv(id, 1, 10000, zeta, {"zeta"})}
\* A twin and a named or a nameless third.
OpenSets == {{i, j, k} : i \in Owed(i1), j \in Owed(i2), k \in {Inv(i3, 1, 9000, zeta, {}), Inv(i3, 1, 10000, acme, {"acme", "traders"})}}
MCMatchInputs ==
  [unmatched : {<<t, u>> : t \in Payments(t1), u \in Payments(t2)}, open : OpenSets,
   remembered : {acme :> r @@ zeta :> <<>> : r \in {<<>>, <<1000>>}}]

\* Days before, at and after the monthly rests.
MCInterestInputs == [principal : {0, 1, 99, 1000, 20001}, days : -1..100]

Due(id, c, amount, due) == [id |-> id, client |-> c, amount |-> amount, due |-> due]
Lates == [{acme, zeta} -> {NoHistory, 0, 65, 300, -30}]
MCForecastInputs ==
  [horizon : {5}, opening : {0, 300}, monthly : {0, 866}, late : Lates,
   invoices : {{Due(i1, acme, 500, d), Due(i2, zeta, 700, e)} : d \in {-200, -1, 0, 69, 70}, e \in {-50, 139, 340, 360}}]

MCOptionInputs ==
  [late : Lates,
   invoices : {<<Due(i1, acme, a, d), Due(i2, zeta, b, e), Due(i3, acme, 100, -100)>> :
                 a, b \in {1, 9000}, d, e \in {-200, -5, 70, 600}}]

\* Up to four bills, a week, a day more or none apart, of a steady vendor or not.
Debit(id, vendor, day, amount) == [id |-> id, vendor |-> vendor, day |-> day, amount |-> amount]
Debits(n, amounts, last) ==
  {[k \in 1..n |-> Debit(k, IF k = n THEN last ELSE aws, days[k], amount[k])] :
     days \in [1..n -> {1, 8, 16}], amount \in [1..n -> amounts]}
MCDebitInputs ==
  UNION {Debits(n, {100, 120, 160}, v) : n \in 1..3, v \in {aws, tea}} \cup Debits(4, {100, 160}, aws)

Item(id, full, short) == [id |-> id, full |-> full, short |-> short]
MCPackInputs ==
  [scored : {<<Item(1, a, x), Item(2, b, y), Item(3, c, z)>> : a, b, c \in {1, 3, 4}, x, y, z \in {0, 2}},
   budget : 0..7, compress : BOOLEAN]

Calls == {<<"a">>, <<"a", "b">>, <<"b", "a">>, <<"a", "b", "c">>, <<"b", "c">>, <<"a", "b", "a", "b">>}
MCWorkflowInputs == [1..4 -> Calls]

MCScoreInputs ==
  {[txns |-> n, matched |-> m, debits |-> n, categorized |-> m, chainOk |-> ok, conflicts |-> c,
    resolved |-> r, forecastAge |-> f, invoices |-> open, now |-> 0] :
     n \in {0, 1, 3}, m \in {0, 2, 4}, ok \in BOOLEAN, c, r \in 0..1, f \in {{}, {7}, {20}},
     open \in {S \in SUBSET {[id |-> i1, due |-> -3, amount |-> 1], [id |-> i2, due |-> -310, amount |-> 2],
                             [id |-> i3, due |-> 0, amount |-> 1], [id |-> t1, due |-> 5, amount |-> 3]} :
                 B!Paise(S) \in 0..6}}

Dates == {<<2025, 11, 30>>, <<2025, 12, 1>>, <<2025, 12, 31>>, <<2026, 1, 1>>, <<2026, 1, 31>>}
MCMonthInputs ==
  {[periods |-> {<<2025, 11>>, <<2025, 12>>, <<2026, 1>>}, matches |-> m,
    txns |-> {[id |-> 1, date |-> d, amount |-> 2, dr |-> x, category |-> c, status |-> IF 1 \in m THEN "matched" ELSE "unmatched"],
              [id |-> 2, date |-> e, amount |-> 5, dr |-> TRUE, category |-> "rent", status |-> IF 2 \in m THEN "matched" ELSE "unmatched"]}] :
     d, e \in Dates, x \in BOOLEAN, c \in {"none", "rent"}, m \in SUBSET {1, 2}}

\* Every line alone, and files of two and three lines.
StatementLines ==
  [debit : {Blank, Bad, -5, 100}, credit : {Blank, Bad, 0, 200}, balance : {Blank, Bad, 9},
   date : {Blank, Bad, 1, 3}, cut : BOOLEAN]
Some == {l \in StatementLines : l.debit # -5 /\ l.credit \in {Blank, 200} /\ l.balance # 9 /\ l.date # Blank}
MCStatementInputs ==
  {<<>>} \cup {<<l>> : l \in StatementLines} \cup {<<l, m>> : l, m \in Some} \cup
  {<<l, m, n>> : l, m, n \in {l \in Some : l.debit = 100 /\ l.credit = Blank /\ l.balance = Blank}}

ExportLines ==
  [number : {1}, amount : {0, Bad, 100}, issue : {1, Bad}, due : {Blank, Bad, 5}, status : {Blank, "paid", "overdue"},
   balance : {Blank, Bad, 0, 40}, paidOn : {Blank, Bad, 7}]
Few == {l \in ExportLines : l.amount = 100 /\ l.due = Blank /\ l.paidOn # 7 /\ l.balance \in {Bad, 0} /\ l.status # "overdue"}
MCExportInputs ==
  {<<>>} \cup {<<l>> : l \in ExportLines} \cup {<<l, m>> : l, m \in Few} \cup
  {<<l, m, n>> : l, m, n \in {l \in Few : l.issue = 1 /\ l.status = "paid"}}

\* Clients with and without an address or a history; dues around now and a
\* month ago.
Late(n) == [kind |-> "timing", n |-> n, word |-> "late"]
Early(n) == [kind |-> "timing", n |-> n, word |-> "early"]
MCChaseInputs ==
  {[now |-> 0, open |-> {Due(i1, acme, 500, d), Due(i2, zeta, 700, e)}, book |-> book,
    claims |-> acme :> c @@ zeta :> <<>>] :
     d, e \in {5, 0, -1, -10, -309, -310}, book \in {acme :> 1, acme :> 2 @@ zeta :> 0, acme :> 1 @@ zeta :> 1},
     c \in {<<>>, <<Late(3)>>, <<Late(21)>>, <<Late(30)>>, <<Late(5), Early(30)>>, <<Early(0), Late(22)>>}}
=============================================================================
