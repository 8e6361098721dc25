---------------------------- MODULE MCAuditChain ----------------------------
(***************************************************************************)
(* A small audit log: plain is an entry with at most one key, rich has a   *)
(* before_state or an after_state with several.                            *)
(***************************************************************************)
EXTENDS AuditChain, TLC

CONSTANTS plain, rich

Symmetry == Permutations(Txns)

=============================================================================
