--------------------------- MODULE ReservationCopy ---------------------------
(***************************************************************************)
(* What our reservation table promises ("Local values are a cache, so what *)
(* OPERA returned is written verbatim", src/reservations/booking.service.  *)
(* ts): a row says of status and dates what OPERA said at one moment, of   *)
(* the terms and of the share group likewise, and it is never deleted.     *)
(* Which moment is not promised: answers may be written out of order.      *)
(***************************************************************************)
CONSTANTS Res, Booking, NoBooking

VARIABLES
  said,  \* everything OPERA ever said of a reservation
  copy   \* our rows

Init ==
  /\ copy \in [Res -> Booking]
  /\ said = [r \in Res |-> {NoBooking, copy[r]}]

OperaSays ==
  /\ said' \in [Res -> SUBSET Booking]
  /\ \A r \in Res : said[r] \subseteq said'[r]
  /\ UNCHANGED copy

(* Each part of the row is what OPERA said at some moment.                 *)
Told(r, b) ==
  /\ \E v \in said[r] \ {NoBooking} : b.st = v.st /\ b.dates = v.dates
  /\ \E v \in said[r] : b.terms = v.terms
  /\ \E v \in said[r] : b.share = v.share

Copies(r) ==
  /\ \E b \in Booking : Told(r, b) /\ copy' = [copy EXCEPT ![r] = b]
  /\ UNCHANGED said

Next == OperaSays \/ \E r \in Res : Copies(r)

Spec == Init /\ [][Next]_<<said, copy>>

=============================================================================
