---------------------------- MODULE MCRoomStatus ----------------------------
(***************************************************************************)
(* RoomStatus for TLC.                                                     *)
(***************************************************************************)
EXTENDS RoomStatus, TLC

(* Clerks, rooms, guests and outage ids are interchangeable.               *)
RoomsSymmetry == Permutations(Clerks) \cup Permutations(Rooms)
                   \cup Permutations(Guests) \cup Permutations(Outages)

=============================================================================
