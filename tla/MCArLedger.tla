------------------------------ MODULE MCArLedger ------------------------------
(***************************************************************************)
(* Small instances of ArLedger for TLC.                                    *)
(***************************************************************************)
EXTENDS ArHistory, TLC

(* Clerks, windows and ledger rows are interchangeable.                    *)
ClerkSymmetry == Permutations(Clerks) \cup Permutations(Windows) \cup Permutations(Charges)

=============================================================================
