----------------------------- MODULE MCBookings -----------------------------
(***************************************************************************)
(* Bookings for TLC.  Clerks, log rows and share groups are                *)
(* interchangeable, but the run has a liveness property, so it declares no *)
(* symmetry.                                                               *)
(***************************************************************************)
EXTENDS Bookings, TLC

=============================================================================
