-------------------------- MODULE MCPaymentsHistory --------------------------
(***************************************************************************)
(* Payments with its history, for TLC.                                     *)
(***************************************************************************)
EXTENDS PaymentsHistory, TLC

(* Clerks and transactions are interchangeable.                            *)
ClerkSymmetry == Permutations(Clerks) \cup Permutations(Txns)

=============================================================================
