----------------------------- MODULE DeskHistory -----------------------------
(***************************************************************************)
(* FrontDesk with a history: calm holds while no two requests overlapped,  *)
(* no answer was lost, no process stopped and OPERA's own desk moved       *)
(* nobody; revocations may still fail.  What the desk, OPERA and the doors *)
(* owe each other then is stated here; what no interleaving breaks is in   *)
(* FrontDesk.                                                              *)
(***************************************************************************)
EXTENDS FrontDesk

(* Bounds: who, and how much, is in use once requests overlap or fail.     *)
CONSTANTS Followed, MaxRooms, MaxCards

ASSUME DeskBounds == Followed \subseteq Guests /\ MaxRooms \in Nat /\ MaxCards \in Nat

VARIABLE calm

hvars == <<vars, calm>>

HInit == Init /\ calm = TRUE

InFlight == { c \in Clerks : ~ At(c, "idle") }
RoomsInUse ==
  { r \in Rooms : \/ \E g \in Guests : r \in {stay[g].room, opera[g].room}
                  \/ \E k \in Cards : lock[k].room = r
                  \/ \E c \in Clerks : r \in {req[c].room, req[c].answer.room} }
CardsInUse == { k \in Cards : lock[k].st # "blank" }
GuestsInUse ==
  { g \in Guests : \/ stay[g] # NoStay \/ opera[g] # NoStay
                   \/ \E c \in Clerks : req[c].guest = g }
FewInUse ==
  \/ calm
  \/ /\ GuestsInUse \subseteq Followed
     /\ Cardinality(RoomsInUse) <= MaxRooms /\ Cardinality(CardsInUse) <= MaxCards

Works(c) ==
  /\ Starts(c) \/ Resumes(c) \/ VendorFails(c)
  /\ calm' = (calm /\ Cardinality(InFlight') <= 1)
  /\ FewInUse'
Disturbed ==
  /\ \/ \E c \in Clerks : OperaSilent(c) \/ EncoderSilent(c) \/ Dies(c)
     \/ \E g \in Guests : OperaDesk(g)
  /\ calm' = FALSE
  /\ FewInUse'
HNext == (\E c \in Clerks : Works(c)) \/ Disturbed

HSpec == HInit /\ [][HNext]_hvars

-----------------------------------------------------------------------------
(* While nothing overlaps and no answer is lost, no card opens a door for  *)
(* a guest who left ("The departing guest's keys are always killed",       *)
(* checkOut), nor the room of somebody its holder does not share with; and *)
(* between requests every card that opens a door is on record, even after  *)
(* revocations that failed half way (revokeOne).                           *)
OnlyGuestsEnter ==
  calm => DepartedOpensNothing /\ NoStrangerOpens /\ LiveCardIsOnRecord

(* While nothing overlaps and no answer is lost, and between requests, our *)
(* reservations say what OPERA's say and the rooms marked occupied are     *)
(* those guests are in, whatever room OPERA confirmed (checkIn, checkOut). *)
DeskFollowsOpera == calm => StaysFollowOpera /\ RoomsAreMarked

=============================================================================
