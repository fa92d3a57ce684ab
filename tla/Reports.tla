------------------------------- MODULE Reports -------------------------------
(***************************************************************************)
(* The performance report (src/reports/reports.service.ts) and the night   *)
(* audit's sections on reservations                                        *)
(* (src/night-audit/night-audit.service.ts), read while the days pass and  *)
(* reservations, outages and rooms change.                                 *)
(*                                                                         *)
(* Night n follows day n.  A request is one step here: how the steps of    *)
(* two interleave is in Bookings, FrontDesk and RoomStatus, and so is      *)
(* which room a guest is in.  All outages are out of order: those out of   *)
(* service are not read by the report.  Money is in sixths of a cent, so   *)
(* that two and three nights divide it.                                    *)
(***************************************************************************)
EXTENDS FiniteSets, Functions, Integers

CONSTANTS
  Rooms, Stays, Outages,
  LastDay,   \* bounds the days that pass
  Cents,     \* totals a reservation may have
  Codes,     \* channels; a reservation may have none
  None

ASSUME ReportsAssumption ==
  /\ IsFiniteSet(Stays) /\ IsFiniteSet(Codes)
  /\ LastDay \in Nat \ {0}
  /\ Cents \subseteq Nat
  /\ None \notin Rooms \cup Codes

VARIABLES
  day,     \* today
  stay,    \* our reservations
  outage,  \* our rows of OPERA's outages
  flagged  \* the rooms whose status is out of order

hotel == <<day, stay, outage, flagged>>

Days == 1..LastDay
Nights == Days
Stay == [st : {"BOOKED", "IN_HOUSE", "CHECKED_OUT", "CANCELLED"}, from : Days,
         to : 2..LastDay + 1, cents : Cents, code : Codes \cup {None}]
(* released is the day of the release, or one that never comes.            *)
Never == LastDay + 1
Outage == [room : Rooms \cup {None}, from : Days, to : Days, released : Days \cup {Never}]
NoOutage == [room |-> None, from |-> 1, to |-> 1, released |-> Never]

HotelInit ==
  /\ day = 1
  /\ stay \in [Stays -> { s \in Stay : s.st = "BOOKED" /\ s.from < s.to }]
  /\ outage = [o \in Outages |-> NoOutage]
  /\ flagged = {}

-----------------------------------------------------------------------------
(* Reservations.                                                           *)

Becomes(x, st) ==
  /\ stay' = [stay EXCEPT ![x].st = st]
  /\ UNCHANGED <<day, outage, flagged>>
(* OPERA takes nobody in before the arrival date, or after the departure.  *)
CheckIn(x) ==
  /\ stay[x].st = "BOOKED" /\ stay[x].from <= day /\ day < stay[x].to
  /\ Becomes(x, "IN_HOUSE")
CheckOut(x) == stay[x].st = "IN_HOUSE" /\ Becomes(x, "CHECKED_OUT")
(* A cancellation, or a no-show.                                           *)
Cancel(x) == stay[x].st = "BOOKED" /\ Becomes(x, "CANCELLED")
(* A guest in house stays longer, or leaves earlier than booked.           *)
Modify(x, to) ==
  /\ stay[x].st = "IN_HOUSE" /\ to > day
  /\ stay' = [stay EXCEPT ![x].to = to]
  /\ UNCHANGED <<day, outage, flagged>>

-----------------------------------------------------------------------------
(* Outages, and the status of rooms.                                       *)

Registered == { o \in Outages : outage[o].room # None }
Unreleased(o) == outage[o].released = Never
Runs(o, d) == outage[o].from <= d /\ d <= outage[o].to
(* The range may have begun; it has not ended.                             *)
TakeOut(o, r, from, to) ==
  /\ o \notin Registered
  /\ from <= to /\ day <= to
  /\ \A p \in Registered :
       outage[p].room = r /\ Unreleased(p) => to < outage[p].from \/ outage[p].to < from
  /\ outage' = [outage EXCEPT ![o] = [room |-> r, from |-> from, to |-> to, released |-> Never]]
  /\ flagged' = IF from <= day THEN flagged \cup {r} ELSE flagged
  /\ UNCHANGED <<day, stay>>
Release(o) ==
  /\ o \in Registered /\ Unreleased(o)
  /\ outage' = [outage EXCEPT ![o].released = day]
  /\ flagged' = IF Runs(o, day) THEN flagged \ {outage[o].room} ELSE flagged
  /\ UNCHANGED <<day, stay>>
(* Housekeeping flags a room, or takes the flag off.                       *)
Flag(r) ==
  /\ flagged' \in {flagged \cup {r}, flagged \ {r}}
  /\ UNCHANGED <<day, stay, outage>>

(* Nothing of ours changes when the day does.                              *)
NextDay ==
  /\ day < LastDay
  /\ day' = day + 1
  /\ UNCHANGED <<stay, outage, flagged>>

HotelNext ==
  \/ \E x \in Stays : \/ CheckIn(x) \/ CheckOut(x) \/ Cancel(x)
                      \/ \E to \in 2..LastDay + 1 : Modify(x, to)
  \/ \E o \in Outages : \/ \E r \in Rooms, from, to \in Days : TakeOut(o, r, from, to)
                        \/ Release(o)
  \/ \E r \in Rooms : Flag(r)
  \/ NextDay

HotelSpec == HotelInit /\ [][HotelNext]_hotel

-----------------------------------------------------------------------------
(* daily: the rows of the report.                                          *)

Covers(x, d) == stay[x].from <= d /\ d < stay[x].to
Realized == { x \in Stays : stay[x].st \in {"IN_HOUSE", "CHECKED_OUT"} }
SoldOn(d) == { x \in Realized : Covers(x, d) }
BookedOn(d) == { x \in Stays : stay[x].st = "BOOKED" /\ Covers(x, d) }

StillOut_Unreleased(o, d) == Unreleased(o)
StillOut(o, d) == d < outage[o].released
BrokenOn(d) ==
  { outage[o].room : o \in { p \in Registered : StillOut(p, d) /\ Runs(p, d) } }
    \cup (IF d >= day THEN flagged ELSE {})
AvailableOn(d) == Cardinality(Rooms \ BrokenOn(d))

(* The share of a night, exact, and what is written of a sum: whole cents. *)
Sixths == 6
NightsOf(x) == stay[x].to - stay[x].from
Share(x) == (stay[x].cents * Sixths) \div NightsOf(x)
Rounded(m) == (m + Sixths \div 2) \div Sixths
RevenueOf(S) == SumFunction([x \in S |-> Share(x)])
Row(d) ==
  [available |-> AvailableOn(d), sold |-> Cardinality(SoldOn(d)),
   booked |-> Cardinality(BookedOn(d)), revenue |-> Rounded(RevenueOf(SoldOn(d)))]

(* The totals of a range: what the rows say, added up.                     *)
Totals(range) ==
  [sold |-> SumFunction([d \in range |-> Row(d).sold]),
   available |-> SumFunction([d \in range |-> Row(d).available]),
   revenue |-> SumFunction([d \in range |-> Row(d).revenue])]

(* groupBy: the same nights by channel, each channel rounded at its end.   *)
Bucket_Known(code) == IF code = None THEN {} ELSE { x \in Stays : stay[x].code = code }
Bucket(code) == { x \in Stays : stay[x].code = code }
Breakdown(range) ==
  [code \in Codes \cup {None} |->
     LET sold(d) == Bucket(code) \cap SoldOn(d) IN
     [sold |-> SumFunction([d \in range |-> Cardinality(sold(d))]),
      revenue |-> Rounded(SumFunction([d \in range |-> RevenueOf(sold(d))]))]]

-----------------------------------------------------------------------------
(* review: reservations that would be left wrong by closing the day.       *)

ArrivalPending == { x \in Stays : stay[x].st = "BOOKED" /\ stay[x].from <= day }
DeparturePending_Past == { x \in Stays : stay[x].st = "IN_HOUSE" /\ stay[x].to < day }
DeparturePending == { x \in Stays : stay[x].st = "IN_HOUSE" /\ stay[x].to <= day }
Ready == ArrivalPending = {} /\ DeparturePending = {}

-----------------------------------------------------------------------------
(* Every variable keeps the values the code gives it.                      *)
HotelTypeOK ==
  /\ day \in Days
  /\ stay \in [Stays -> Stay]
  /\ outage \in [Outages -> Outage]
  /\ flagged \subseteq Rooms

(* Neither a release nor a flag nor the passing of days changes how many   *)
(* rooms a past day had; only an outage registered later for a range that  *)
(* had begun does ("past days use the rooms available then", daily).       *)
PastIsKept ==
  [][\A d \in 1..day - 1 :
       AvailableOn(d)' # AvailableOn(d) =>
         \E o \in Registered' \ Registered : outage'[o].from <= d]_hotel

(* The channels sell the nights the totals count, and their revenue is the *)
(* totals' but for the cents rounded away: half of one for each row and    *)
(* each channel ("These must sum to the totals above", daily, is not so).  *)
ChannelsAddUp ==
  \A from, to \in Days :
    LET range == from..to
        parts == Breakdown(range)
        off == SumFunction([code \in DOMAIN parts |-> parts[code].revenue])
                 - Totals(range).revenue IN
    /\ SumFunction([code \in DOMAIN parts |-> parts[code].sold]) = Totals(range).sold
    /\ 2 * off <= Cardinality(range) + Cardinality(Codes) + 1
    /\ -2 * off <= Cardinality(range) + Cardinality(Codes) + 1

(* When the audit has nothing left, nothing is merely booked for tonight,  *)
(* and every guest in house is on tonight's row: the room nights a close   *)
(* counts on are the ones the report sells.                                *)
ReadyIsReported ==
  Ready => /\ BookedOn(day) = {}
           /\ \A x \in Stays : stay[x].st = "IN_HOUSE" => x \in SoldOn(day)

(* Days and rooms are ones there are, and the audit agrees with the report *)
(* (review, daily).                                                        *)
ReportsInv == HotelTypeOK /\ ReadyIsReported

=============================================================================
