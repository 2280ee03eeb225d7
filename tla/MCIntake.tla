------------------------------ MODULE MCIntake ------------------------------
(***************************************************************************)
(* Small instances of Intake: two statements that overlap, one of them in  *)
(* the other order, and the requests that meet them.                       *)
(***************************************************************************)
EXTENDS Intake, TLC

CONSTANTS u1, u2, u3, p1, p2, s1, s2, o1, o2, f1

Line(ref, move, vendor, amount, dir) ==
  [ref |-> ref, move |-> move, vendor |-> vendor, amount |-> amount, direction |-> dir]

Cloud == Line("r1", "m1", "aws", 2, "dr")
Again == Line("r2", "m2", "aws", 2, "dr")
Client == Line("r3", "m3", "acme", 3, "cr")
Blank == Line(NoRef, "m4", "aws", 0, "dr")
Tea == Line(NoRef, "m5", "tea", 1, "dr")

\* The other order, a line without amount and one without a reference.
MCStatement ==
  u1 :> <<Cloud, Again, Tea>> @@ u2 :> <<Client, Blank, Again, Cloud>> @@ u3 :> <<Blank>>
\* A month, and the same rows in a longer export: with these two instead of
\* MCStatement and MCCasts, MovementOnce fails.
MCOverlap == u1 :> <<Tea>> @@ u2 :> <<Client, Tea>> @@ u3 :> <<Blank>>

MCInvoices ==
  LET inv(n, c) == [number |-> n, client |-> c]
  IN  o1 :> <<inv("n1", "acme"), inv("n2", "acme"), inv("n1", "acme")>> @@ o2 :> <<inv("n2", "acme"), inv("n3", "zeta")>>
MCCorrection == p1 :> [move |-> "m1", code |-> "marketing"] @@ p2 :> [move |-> "m1", code |-> "travel"]
MCRuleCode == ("aws" :> "cloud" @@ "tea" :> None @@ "acme" :> None)

MCCasts == {{u1, u2, p1}, {u1, u3}, {u1, p1, p2}, {u1, s1, s2}, {u2, f1}, {o1, o2}}
MCOverlapCasts == {{u1, u2}}
=============================================================================
