----------------------------- MODULE MCPurchase -----------------------------
(***************************************************************************)
(* Small instances of Purchase for TLC.                                    *)
(***************************************************************************)
EXTENDS Purchase, TLC

Symmetry == Permutations(Handlers) \cup Permutations(Txns)
=============================================================================
