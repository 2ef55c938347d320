---------------------------- MODULE MCWithdrawal ----------------------------
(***************************************************************************)
(* A small instance of Withdrawal for TLC.                                 *)
(***************************************************************************)
EXTENDS Withdrawal, TLC

Symmetry == Permutations(Handlers) \cup Permutations(Requests)
=============================================================================
