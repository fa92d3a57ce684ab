------------------------------ MODULE MCReports ------------------------------
(***************************************************************************)
(* Reports for TLC.                                                        *)
(***************************************************************************)
EXTENDS Reports, TLC

(* Rooms and reservations are interchangeable.                             *)
ReportsSymmetry == Permutations(Rooms) \cup Permutations(Stays)

=============================================================================
