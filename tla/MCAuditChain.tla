---------------------------- MODULE MCAuditChain ----------------------------
(***************************************************************************)
(* Small instances of AuditChain: the transactions are interchangeable.    *)
(***************************************************************************)
EXTENDS AuditChain, TLC

Symmetry == Permutations(Writers)
=============================================================================
