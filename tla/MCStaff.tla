------------------------------ MODULE MCStaff ------------------------------
(***************************************************************************)
(* Staff for TLC.                                                          *)
(***************************************************************************)
EXTENDS Staff, TLC

(* Requests, accounts and shifts are interchangeable.                      *)
StaffSymmetry == Permutations(Clients) \cup Permutations(Users) \cup Permutations(Shifts)

=============================================================================
