----------------------------- MODULE MCEnforcer -----------------------------
(***************************************************************************)
(* Small instances of Enforcer: two invoices a rung apart.                 *)
(***************************************************************************)
EXTENDS Enforcer, TLC

CONSTANTS i1, i2

MCAge == i1 :> 31 @@ i2 :> 15
=============================================================================
