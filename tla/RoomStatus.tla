----------------------------- MODULE RoomStatus -----------------------------
(***************************************************************************)
(* The status of a room and its writers: outages                           *)
(* (src/room-outages/room-outages.service.ts), housekeeping                *)
(* (src/housekeeping/housekeeping.service.ts), check-in and check-out      *)
(* (src/reservations/reservations.service.ts), on one day.                 *)
(*                                                                         *)
(* OPERA is asked first and its answer copied.  Clean and inspected are    *)
(* one status here, and so are out of order and out of service.  Keys and  *)
(* guests who share are in FrontDesk, log rows in Bookings.                *)
(***************************************************************************)
EXTENDS FiniteSets, Integers

CONSTANTS
  Clerks,    \* clients with at most one request in flight each
  Rooms, Guests,
  Outages,   \* OPERA's outage ids
  LastNight, \* tonight is night 1
  Backs,     \* the statuses an outage may return its room to
  MaxDead,   \* bounds how often an answer is lost or a process dies
  MaxRows,   \* guests and outages once requests overlap or one dies (bound)
  None

ASSUME RoomsAssumption ==
  /\ LastNight \in Nat \ {0}
  /\ Backs \subseteq {"CLEAN", "DIRTY"} /\ MaxDead \in Nat /\ MaxRows \in Nat
  /\ None \notin Rooms \cup Outages \cup Guests

VARIABLES
  opera,   \* OPERA's rooms, and outages with the dates it confirmed
  room,    \* our rooms
  outage,  \* our rows of OPERA's outages
  stay,    \* our reservations: the room assigned, status, last night
  calm,    \* no two requests overlapped so far and nothing failed (history)
  dead,    \* the requests that died
  req      \* the request each clerk has in flight

vars == <<opera, room, outage, stay, calm, dead, req>>

Nights == 1..LastNight
Statuses == {"CLEAN", "DIRTY", "OUT"}
Room == [status : Statuses, occupied : BOOLEAN]
Range == [room : Rooms \cup {None}, from : Nights, to : Nights, back : Backs \cup {"DIRTY"}]
OperaOutage == [st : {"none", "on", "off"}, at : Range]
OperaState == [room : [Rooms -> Room], out : [Outages -> OperaOutage]]
Stay == [room : Rooms \cup {None}, st : {"RESERVED", "IN_HOUSE", "LEFT"}, last : Nights]
NoRange == [room |-> None, from |-> 1, to |-> 1, back |-> "DIRTY"]

Ops == {"out", "release", "status", "checkIn", "checkOut"}
Requests == [at : {"idle", "core", "write"}, op : Ops, room : Rooms \cup {None}, range : Range,
             id : Outages \cup {None}, status : Statuses, guest : Guests \cup {None}, ans : Room]
Idle == [at |-> "idle", op |-> "out", room |-> None, range |-> NoRange, id |-> None,
         status |-> "CLEAN", guest |-> None, ans |-> [status |-> "CLEAN", occupied |-> FALSE]]

Init ==
  /\ room = [r \in Rooms |-> [status |-> "CLEAN", occupied |-> FALSE]]
  /\ opera = [room |-> room, out |-> [o \in Outages |-> [st |-> "none", at |-> NoRange]]]
  /\ outage = [o \in Outages |-> "none"]
  /\ stay \in [Guests -> [room : Rooms \cup {None}, st : {"RESERVED"}, last : Nights]]
  /\ calm = TRUE
  /\ dead = 0
  /\ req = [c \in Clerks |-> Idle]

At(c, stage) == req[c].at = stage
Quiet == \A c \in Clerks : At(c, "idle")
Asks(c, q) ==
  /\ At(c, "idle")
  /\ req' = [req EXCEPT ![c] = [q EXCEPT !.at = "core"]]
  /\ calm' = (calm /\ Quiet)
  /\ UNCHANGED <<opera, room, outage, stay, dead>>
Ends(c) == req' = [req EXCEPT ![c] = Idle]

Overlap(a, b) == a.room = b.room /\ a.from <= b.to /\ b.from <= a.to
Tonight(g) == g.from = 1

-----------------------------------------------------------------------------
(* What a request reads and checks before it asks OPERA.                   *)

(* Guests booked into the room are moved first; a room in use today stays. *)
MayTakeOut(g) == ~ (room[g.room].occupied /\ Tonight(g))
StartOut(c, g) ==
  /\ g.from <= g.to
  /\ ~ \E o \in Outages : outage[o] = "on" /\ Overlap(opera.out[o].at, g)
  /\ ~ \E x \in Guests : /\ stay[x].room = g.room /\ stay[x].st # "LEFT"
                         /\ stay[x].last >= g.from
  /\ MayTakeOut(g)
  /\ Asks(c, [Idle EXCEPT !.op = "out", !.room = g.room, !.range = g])

StartRelease(c, o) ==
  /\ outage[o] = "on"
  /\ Asks(c, [Idle EXCEPT !.op = "release", !.id = o, !.room = opera.out[o].at.room])

StartStatus(c, r, s) ==
  /\ ~ (room[r].occupied /\ s = "OUT")
  /\ Asks(c, [Idle EXCEPT !.op = "status", !.room = r, !.status = s])

StartCheckIn(c, x, r) ==
  /\ stay[x].st = "RESERVED"
  /\ ~ room[r].occupied \/ stay[x].room = r
  /\ room[r].status # "OUT"
  /\ Asks(c, [Idle EXCEPT !.op = "checkIn", !.guest = x, !.room = r])

StartCheckOut(c, x) ==
  /\ stay[x].st = "IN_HOUSE"
  /\ Asks(c, [Idle EXCEPT !.op = "checkOut", !.guest = x, !.room = stay[x].room])

-----------------------------------------------------------------------------
(* OPERA.  It rejects what these checks reject as well (create), may       *)
(* confirm a later first night than asked for, and answers a change of     *)
(* status with what the room is then.                                      *)

OperaRoom(r, s, occ) == [opera EXCEPT !.room[r] = [status |-> s, occupied |-> occ]]
OperaOuts(q, o, g) ==
  /\ opera.out[o].st = "none"
  /\ g.room = q.room /\ g.back = q.range.back
  /\ q.range.from <= g.from /\ g.from <= g.to /\ g.to = q.range.to
  /\ ~ \E p \in Outages : opera.out[p].st = "on" /\ Overlap(opera.out[p].at, g)
  /\ ~ (opera.room[q.room].occupied /\ Tonight(g))
  /\ opera' = [opera EXCEPT !.out[o] = [st |-> "on", at |-> g],
                            !.room[q.room].status = IF Tonight(g) THEN "OUT" ELSE @]
OperaReleases(q) ==
  /\ opera.out[q.id].st = "on"
  /\ opera' = [opera EXCEPT !.out[q.id].st = "off",
                            !.room[q.room].status =
                              IF Tonight(opera.out[q.id].at) THEN opera.out[q.id].at.back ELSE @]
OperaSets(q) ==
  /\ ~ (opera.room[q.room].occupied /\ q.status = "OUT")
  /\ opera' = OperaRoom(q.room, q.status, opera.room[q.room].occupied)
OperaChecksIn(q) ==
  /\ ~ opera.room[q.room].occupied /\ opera.room[q.room].status # "OUT"
  /\ opera' = OperaRoom(q.room, opera.room[q.room].status, TRUE)
OperaChecksOut(q) ==
  /\ opera.room[q.room].occupied
  /\ opera' = OperaRoom(q.room, "DIRTY", FALSE)

Answered(c, o, r) ==
  /\ req' = [req EXCEPT ![c] = [@ EXCEPT !.at = "write", !.id = o, !.range = NoRange,
                                         !.status = "CLEAN", !.ans = r]]
  /\ UNCHANGED <<room, outage, stay, calm, dead>>
CoreAnswers(c) ==
  LET q == req[c] IN
  /\ At(c, "core")
  /\ \/ /\ q.op = "out"
        /\ \E o \in Outages, g \in Range : OperaOuts(q, o, g) /\ Answered(c, o, q.ans)
     \/ q.op = "release" /\ OperaReleases(q) /\ Answered(c, q.id, q.ans)
     \/ q.op = "status" /\ OperaSets(q) /\ Answered(c, None, opera'.room[q.room])
     \/ q.op = "checkIn" /\ OperaChecksIn(q) /\ Answered(c, None, q.ans)
     \/ q.op = "checkOut" /\ OperaChecksOut(q) /\ Answered(c, None, q.ans)
CoreRefuses_Swallowed(c) ==
  /\ At(c, "core")
  /\ req' = [req EXCEPT ![c].at = IF req[c].op = "release" THEN "write" ELSE "idle"]
  /\ UNCHANGED <<opera, room, outage, stay, calm, dead>>
CoreRefuses(c) ==
  /\ At(c, "core")
  /\ Ends(c)
  /\ UNCHANGED <<opera, room, outage, stay, calm, dead>>

-----------------------------------------------------------------------------
(* What is written then, in one transaction.                               *)

Dates(c) == opera.out[req[c].id].at
Keeps(c) == Ends(c) /\ UNCHANGED <<opera, calm, dead>>
WriteOut_NotToday(c) ==
  /\ At(c, "write") /\ req[c].op = "out"
  /\ outage' = [outage EXCEPT ![req[c].id] = "on"]
  /\ room' = room
  /\ stay' = stay
  /\ Keeps(c)
(* The room is marked when the dates OPERA confirmed cover today.          *)
WriteOut(c) ==
  /\ At(c, "write") /\ req[c].op = "out"
  /\ outage' = [outage EXCEPT ![req[c].id] = "on"]
  /\ room' = IF Tonight(Dates(c)) THEN [room EXCEPT ![req[c].room].status = "OUT"] ELSE room
  /\ stay' = stay
  /\ Keeps(c)
WriteRelease(c) ==
  /\ At(c, "write") /\ req[c].op = "release"
  /\ outage' = [outage EXCEPT ![req[c].id] = "released"]
  /\ room' = IF Tonight(Dates(c)) THEN [room EXCEPT ![req[c].room].status = Dates(c).back] ELSE room
  /\ stay' = stay
  /\ Keeps(c)
(* OPERA's answer may say whether the room is occupied.                    *)
WriteStatus(c) ==
  LET q == req[c] IN
  /\ At(c, "write") /\ q.op = "status"
  /\ \E occ \in {room[q.room].occupied, q.ans.occupied} :
       room' = [room EXCEPT ![q.room] = [status |-> q.ans.status, occupied |-> occ]]
  /\ UNCHANGED <<outage, stay>>
  /\ Keeps(c)
WriteIn(c) ==
  LET q == req[c] IN
  /\ At(c, "write") /\ q.op = "checkIn"
  /\ room' = [room EXCEPT ![q.room].occupied = TRUE]
  /\ stay' = [stay EXCEPT ![q.guest] = [@ EXCEPT !.room = q.room, !.st = "IN_HOUSE"]]
  /\ UNCHANGED outage
  /\ Keeps(c)
Vacated(r) == [room EXCEPT ![r] = [status |-> "DIRTY", occupied |-> FALSE]]
WriteLeft(c) ==
  LET q == req[c] IN
  /\ At(c, "write") /\ q.op = "checkOut"
  /\ room' = Vacated(q.room)
  /\ stay' = [stay EXCEPT ![q.guest].st = "LEFT"]
  /\ UNCHANGED outage
  /\ Keeps(c)

Dies(c) ==
  /\ dead < MaxDead /\ dead' = dead + 1
  /\ At(c, "write")
  /\ Ends(c)
  /\ calm' = FALSE
  /\ UNCHANGED <<opera, room, outage, stay>>

(* How much there is once requests overlap or one dies (bound).            *)
Rows ==
  Cardinality({ x \in Guests : stay[x].st # "RESERVED" })
    + Cardinality({ o \in Outages : opera.out[o].st # "none" })
FewRows == calm \/ Rows <= MaxRows

Moves == \E c \in Clerks :
  \/ \E g \in Range : g.room # None /\ g.back \in Backs /\ StartOut(c, g)
  \/ \E o \in Outages : StartRelease(c, o)
  \/ \E r \in Rooms, s \in Statuses : StartStatus(c, r, s)
  \/ \E x \in Guests, r \in Rooms : StartCheckIn(c, x, r)
  \/ \E x \in Guests : StartCheckOut(c, x)
  \/ CoreAnswers(c) \/ CoreRefuses(c)
  \/ WriteOut(c) \/ WriteRelease(c) \/ WriteStatus(c) \/ WriteIn(c) \/ WriteLeft(c)
  \/ Dies(c)

Next == Moves /\ FewRows'

Spec == Init /\ [][Next]_vars

-----------------------------------------------------------------------------
(* Every variable keeps the values the code gives it.                      *)
TypeOK ==
  /\ opera \in OperaState
  /\ room \in [Rooms -> Room]
  /\ outage \in [Outages -> {"none", "on", "released"}]
  /\ stay \in [Guests -> Stay]
  /\ calm \in BOOLEAN
  /\ dead \in 0..MaxDead
  /\ req \in [Clerks -> Requests]

(* A row of ours names an outage OPERA registered, and one we say is       *)
(* released is released in OPERA, however the requests interleave and      *)
(* wherever they die (create, release).                                    *)
RowsAreReal ==
  \A o \in Outages :
    /\ outage[o] # "none" => opera.out[o].st # "none"
    /\ outage[o] = "released" => opera.out[o].st = "off"

(* Of two rows of one room that overlap and are not released, OPERA has    *)
(* let go of one ("Taking one room out twice deducts it from inventory     *)
(* twice", create).                                                        *)
NoneTwice ==
  \A o, p \in Outages :
    o # p /\ outage[o] = "on" /\ outage[p] = "on"
          /\ Overlap(opera.out[o].at, opera.out[p].at) =>
      opera.out[o].st = "off" \/ opera.out[p].st = "off"

(* OPERA registers no overlapping outages; an outage and a guest in house  *)
(* have a room.                                                            *)
OperaInv ==
  /\ \A o, p \in Outages :
       o # p /\ opera.out[o].st = "on" /\ opera.out[p].st = "on" =>
         ~ Overlap(opera.out[o].at, opera.out[p].at)
  /\ \A o \in Outages : opera.out[o].st # "none" => opera.out[o].at.room \in Rooms
  /\ \A x \in Guests : stay[x].st = "IN_HOUSE" => stay[x].room \in Rooms

(* What a request was answered is there until it is written: the outage    *)
(* it registered, which nobody else writes, or released.                   *)
Registered(c) == At(c, "write") /\ req[c].op = "out"
RequestInv ==
  /\ \A c \in Clerks :
       /\ req[c].at # "idle" => req[c].room \in Rooms
       /\ req[c].at # "idle" /\ req[c].op = "release" =>
            req[c].id \in Outages /\ outage[req[c].id] # "none"
       /\ req[c].at # "idle" /\ req[c].op \in {"checkIn", "checkOut"} => req[c].guest \in Guests
       /\ Registered(c) => /\ req[c].id \in Outages
                           /\ opera.out[req[c].id].st # "none" /\ outage[req[c].id] = "none"
       /\ At(c, "write") /\ req[c].op = "release" => opera.out[req[c].id].st = "off"
  /\ \A c, d \in Clerks : c # d /\ Registered(c) /\ Registered(d) => req[c].id # req[d].id
RoomsInv == TypeOK /\ RowsAreReal /\ NoneTwice /\ OperaInv /\ RequestInv

(* While requests do not overlap and nothing fails, a room has the status  *)
(* and the occupancy OPERA gives it, whichever of its writers wrote last   *)
(* ("OPERA owns it ... must be the same value", updateRoomStatus).         *)
StatusFollowsOpera == calm /\ Quiet => room = opera.room

(* findDiscrepancies, without the rooms that are occupied and clean.       *)
InHouse(r) == \E x \in Guests : stay[x].st = "IN_HOUSE" /\ stay[x].room = r
Discrepancies == { r \in Rooms : room[r].occupied # InHouse(r) }

(* While requests do not overlap and nothing fails, no room is occupied    *)
(* without a guest in house or the other way round.                        *)
NoDiscrepancy == calm /\ Quiet => Discrepancies = {}

(* While requests do not overlap and nothing fails, our rooms agree with   *)
(* OPERA's and with our reservations (updateRoomStatus, checkIn, checkOut, *)
(* create, release, findDiscrepancies).                                    *)
RoomsAgree == StatusFollowsOpera /\ NoDiscrepancy

=============================================================================
