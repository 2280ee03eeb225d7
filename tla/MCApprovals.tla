----------------------------- MODULE MCApprovals -----------------------------
(***************************************************************************)
(* Small instances of Approvals.  Every client is interchangeable with the *)
(* others of its kind.                                                     *)
(***************************************************************************)
EXTENDS Approvals, TLC

Symmetry ==
  Permutations(Invoices) \cup Permutations(Chasers) \cup Permutations(Planners)
    \cup Permutations(Askers) \cup Permutations(Deciders)
=============================================================================
