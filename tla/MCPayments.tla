------------------------------ MODULE MCPayments ------------------------------
(***************************************************************************)
(* Small instances of Payments for TLC.                                    *)
(***************************************************************************)
EXTENDS PaymentBooks, TLC

(* Clerks, transactions and payments are interchangeable.                  *)
ClerkSymmetry == Permutations(Clerks) \cup Permutations(Txns)

=============================================================================
