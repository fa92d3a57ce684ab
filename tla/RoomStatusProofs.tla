--------------------------- MODULE RoomStatusProofs ---------------------------
(***************************************************************************)
(* Proofs about RoomStatus, for every number of clerks, rooms, guests,     *)
(* outages and nights.                                                     *)
(***************************************************************************)
EXTENDS RoomStatus, TLAPS

(* A clerk without a request, and a request for no dates, are values.      *)
LEMMA IdleIsRequest == Idle \in Requests /\ NoRange \in Range /\ 1 \in Nights
<1>1. 1 \in Nights
  BY RoomsAssumption DEF Nights
<1>2. NoRange \in Range
  BY <1>1 DEF NoRange, Range
<1>3. [status |-> "CLEAN", occupied |-> FALSE] \in Room
  BY DEF Room, Statuses
<1> QED
  BY <1>1, <1>2, <1>3 DEF Idle, Requests, Ops, Statuses

(* A room with another status is a room.                                   *)
LEMMA StatusUpdate ==
  ASSUME NEW rooms \in [Rooms -> Room], NEW r \in Rooms, NEW s \in Statuses
  PROVE  [rooms EXCEPT ![r].status = s] \in [Rooms -> Room]
BY DEF Room

LEMMA OccupiedUpdate ==
  ASSUME NEW r \in Room, NEW b \in BOOLEAN
  PROVE  [r EXCEPT !.occupied = b] = [status |-> r.status, occupied |-> b]
BY DEF Room

(* What one request counts on, of OPERA's outages and of our rows of them. *)
Holds(q, out, rows) ==
  /\ q.at # "idle" => q.room \in Rooms
  /\ q.at # "idle" /\ q.op = "release" => q.id \in Outages /\ rows[q.id] # "none"
  /\ q.at # "idle" /\ q.op \in {"checkIn", "checkOut"} => q.guest \in Guests
  /\ q.at = "write" /\ q.op = "out" =>
       q.id \in Outages /\ out[q.id].st # "none" /\ rows[q.id] = "none"
  /\ q.at = "write" /\ q.op = "release" => out[q.id].st = "off"

(* Nothing is asked of a clerk without a request.                          *)
LEMMA IdleHolds == \A out, rows : Holds(Idle, out, rows)
BY DEF Holds, Idle

(* The requests' part of the invariant, request by request.                *)
LEMMA HoldsIsInv ==
  RequestInv <=> /\ \A c \in Clerks : Holds(req[c], opera.out, outage)
                 /\ \A c, d \in Clerks : c # d /\ Registered(c) /\ Registered(d) =>
                      req[c].id # req[d].id
BY DEF RequestInv, Holds, Registered, At

(* The requests' part of the invariant after a step of one of them.        *)
LEMMA RequestStep ==
  ASSUME RoomsInv, NEW c \in Clerks, NEW q \in Requests,
         req' = [req EXCEPT ![c] = q],
         Holds(q, opera'.out, outage'),
         q.at = "write" /\ q.op = "out" =>
           \A d \in Clerks : d # c /\ Registered(d) => req[d].id # q.id,
         \A d \in Clerks : d # c /\ Holds(req[d], opera.out, outage) =>
           Holds(req[d], opera'.out, outage')
  PROVE  req' \in [Clerks -> Requests] /\ RequestInv'
<1>1. req \in [Clerks -> Requests] /\ req' \in [Clerks -> Requests]
  BY DEF RoomsInv, TypeOK
<1>2. req'[c] = q /\ \A d \in Clerks : d # c => req'[d] = req[d]
  BY <1>1
<1>3. /\ \A d \in Clerks : Holds(req[d], opera.out, outage)
      /\ \A b, d \in Clerks : b # d /\ Registered(b) /\ Registered(d) => req[b].id # req[d].id
  BY HoldsIsInv DEF RoomsInv
<1>4. ASSUME NEW d \in Clerks PROVE Holds(req'[d], opera'.out, outage')
  <2>1. CASE d = c
    BY <1>2, <2>1
  <2>2. CASE d # c
    BY <1>2, <1>3, <2>2
  <2> QED
    BY <2>1, <2>2
<1>5. ASSUME NEW b \in Clerks, NEW d \in Clerks, b # d,
             req'[b].at = "write", req'[b].op = "out", req'[d].at = "write", req'[d].op = "out"
      PROVE  req'[b].id # req'[d].id
  <2>1. CASE b = c
    BY <1>2, <1>5, <2>1 DEF Registered, At
  <2>2. CASE d = c
    BY <1>2, <1>5, <2>2 DEF Registered, At
  <2>3. CASE b # c /\ d # c
    BY <1>2, <1>3, <1>5, <2>3 DEF Registered, At
  <2> QED
    BY <2>1, <2>2, <2>3
<1>6. RequestInv'
  BY <1>4, <1>5 DEF RequestInv, Holds, Registered, At
<1> QED
  BY <1>1, <1>6

(* A step that touches no outage.                                          *)
LEMMA OutagesStay ==
  ASSUME RoomsInv, NEW c \in Clerks, NEW q \in Requests,
         req' = [req EXCEPT ![c] = q],
         Holds(q, opera.out, outage), ~ (q.at = "write" /\ q.op = "out"),
         opera' \in OperaState, opera'.out = opera.out, outage' = outage,
         room' \in [Rooms -> Room], stay' \in [Guests -> Stay],
         \A x \in Guests : stay'[x].st = "IN_HOUSE" => stay'[x].room \in Rooms,
         calm' \in BOOLEAN, dead' \in 0..MaxDead
  PROVE  RoomsInv'
<1>1. Holds(q, opera'.out, outage')
  OBVIOUS
<1>2. req' \in [Clerks -> Requests] /\ RequestInv'
  BY <1>1, RequestStep
<1>3. TypeOK'
  BY <1>2 DEF RoomsInv, TypeOK
<1>4. RowsAreReal' /\ NoneTwice' /\ OperaInv'
  BY DEF RoomsInv, RowsAreReal, NoneTwice, OperaInv
<1> QED
  BY <1>2, <1>3, <1>4 DEF RoomsInv

(* The invariant holds before the first request.                           *)
LEMMA InitInv == Init => RoomsInv
<1> SUFFICES ASSUME Init PROVE RoomsInv
  OBVIOUS
<1> USE DEF Init
<1>1. /\ room \in [Rooms -> Room]
      /\ opera \in OperaState
  BY IdleIsRequest DEF Room, Statuses, OperaState, OperaOutage
<1>2. stay \in [Guests -> Stay]
  BY DEF Stay
<1>3. TypeOK
  BY <1>1, <1>2, IdleIsRequest, RoomsAssumption DEF TypeOK
<1>4. RowsAreReal /\ NoneTwice
  BY DEF RowsAreReal, NoneTwice
<1>5. OperaInv
  BY DEF OperaInv
<1>6. RequestInv
  BY DEF RequestInv, Registered, At, Idle
<1> QED
  BY <1>3, <1>4, <1>5, <1>6 DEF RoomsInv

-----------------------------------------------------------------------------
(* The requests that start.                                                *)

(* What is asked of OPERA is asked about a room, and a guest if any.       *)
LEMMA AsksInv ==
  ASSUME RoomsInv, NEW c \in Clerks, NEW q \in Requests, Asks(c, q),
         q.room \in Rooms,
         q.op = "release" => q.id \in Outages /\ outage[q.id] # "none",
         q.op \in {"checkIn", "checkOut"} => q.guest \in Guests
  PROVE  RoomsInv'
<1> DEFINE r == [q EXCEPT !.at = "core"]
<1>1. /\ r \in Requests /\ r.at = "core" /\ r.op = q.op /\ r.room = q.room /\ r.id = q.id
      /\ r.guest = q.guest
  BY DEF Requests
<1>2. /\ req' = [req EXCEPT ![c] = r] /\ calm' \in BOOLEAN
      /\ UNCHANGED <<opera, room, outage, stay, dead>>
  BY DEF Asks, RoomsInv, TypeOK
<1> HIDE DEF r
<1>3. Holds(r, opera.out, outage)
  BY <1>1 DEF Holds
<1>4. /\ opera' \in OperaState /\ room' \in [Rooms -> Room] /\ stay' \in [Guests -> Stay]
      /\ dead' \in 0..MaxDead
      /\ \A x \in Guests : stay'[x].st = "IN_HOUSE" => stay'[x].room \in Rooms
  BY <1>2 DEF RoomsInv, TypeOK, OperaInv
<1> QED
  BY <1>1, <1>2, <1>3, <1>4, OutagesStay

(* The five requests name a room, and a guest or an outage row where they  *)
(* are about one.                                                          *)
LEMMA StartsInv ==
  ASSUME RoomsInv, NEW c \in Clerks,
         \/ \E g \in Range : g.room # None /\ g.back \in Backs /\ StartOut(c, g)
         \/ \E o \in Outages : StartRelease(c, o)
         \/ \E r \in Rooms : \E s \in Statuses : StartStatus(c, r, s)
         \/ \E x \in Guests : \E r \in Rooms : StartCheckIn(c, x, r)
         \/ \E x \in Guests : StartCheckOut(c, x)
  PROVE  RoomsInv'
<1>1. CASE \E g \in Range : g.room # None /\ g.back \in Backs /\ StartOut(c, g)
  <2>1. PICK g \in Range : g.room # None /\ StartOut(c, g)
    BY <1>1
  <2> DEFINE q == [Idle EXCEPT !.op = "out", !.room = g.room, !.range = g]
  <2>2. q \in Requests /\ q.op = "out" /\ q.room = g.room
    BY IdleIsRequest DEF Requests, Ops, Idle, Range
  <2>3. g.room \in Rooms /\ Asks(c, q)
    BY <2>1 DEF StartOut, Range
  <2> HIDE DEF q
  <2> QED
    BY <2>2, <2>3, AsksInv
<1>2. CASE \E o \in Outages : StartRelease(c, o)
  <2>1. PICK o \in Outages : StartRelease(c, o)
    BY <1>2
  <2> DEFINE q == [Idle EXCEPT !.op = "release", !.id = o, !.room = opera.out[o].at.room]
  <2>2. outage[o] = "on" /\ opera.out[o].at.room \in Rooms /\ Asks(c, q)
    BY <2>1 DEF StartRelease, RoomsInv, RowsAreReal, OperaInv
  <2>3. q \in Requests /\ q.op = "release" /\ q.room = opera.out[o].at.room /\ q.id = o
    BY <2>2, IdleIsRequest DEF Requests, Ops, Idle
  <2> HIDE DEF q
  <2> QED
    BY <2>2, <2>3, AsksInv
<1>3. CASE \E r \in Rooms : \E s \in Statuses : StartStatus(c, r, s)
  <2>1. PICK r \in Rooms, s \in Statuses : StartStatus(c, r, s)
    BY <1>3
  <2> DEFINE q == [Idle EXCEPT !.op = "status", !.room = r, !.status = s]
  <2>2. q \in Requests /\ q.op = "status" /\ q.room = r
    BY IdleIsRequest DEF Requests, Ops, Idle
  <2>3. Asks(c, q)
    BY <2>1 DEF StartStatus
  <2> HIDE DEF q
  <2> QED
    BY <2>2, <2>3, AsksInv
<1>4. CASE \E x \in Guests : \E r \in Rooms : StartCheckIn(c, x, r)
  <2>1. PICK x \in Guests, r \in Rooms : StartCheckIn(c, x, r)
    BY <1>4
  <2> DEFINE q == [Idle EXCEPT !.op = "checkIn", !.guest = x, !.room = r]
  <2>2. q \in Requests /\ q.op = "checkIn" /\ q.room = r /\ q.guest = x
    BY IdleIsRequest DEF Requests, Ops, Idle
  <2>3. Asks(c, q)
    BY <2>1 DEF StartCheckIn
  <2> HIDE DEF q
  <2> QED
    BY <2>2, <2>3, AsksInv
<1>5. CASE \E x \in Guests : StartCheckOut(c, x)
  <2>1. PICK x \in Guests : StartCheckOut(c, x)
    BY <1>5
  <2> DEFINE q == [Idle EXCEPT !.op = "checkOut", !.guest = x, !.room = stay[x].room]
  <2>2. stay[x].room \in Rooms /\ Asks(c, q)
    BY <2>1 DEF StartCheckOut, RoomsInv, OperaInv
  <2>3. q \in Requests /\ q.op = "checkOut" /\ q.room = stay[x].room /\ q.guest = x
    BY <2>2, IdleIsRequest DEF Requests, Ops, Idle
  <2> HIDE DEF q
  <2> QED
    BY <2>2, <2>3, AsksInv
<1> QED
  BY <1>1, <1>2, <1>3, <1>4, <1>5

-----------------------------------------------------------------------------
(* OPERA's answers.                                                        *)

(* What an answer makes of the request.                                    *)
LEMMA AnsweredRequest ==
  ASSUME RoomsInv, NEW c \in Clerks, NEW o \in Outages \cup {None}, NEW r \in Room,
         req[c].at = "core", Answered(c, o, r)
  PROVE  \E q \in Requests :
           /\ req' = [req EXCEPT ![c] = q] /\ UNCHANGED <<room, outage, stay, calm, dead>>
           /\ q.at = "write" /\ q.op = req[c].op /\ q.room = req[c].room
           /\ q.guest = req[c].guest /\ q.id = o
<1> DEFINE q == [req[c] EXCEPT !.at = "write", !.id = o, !.range = NoRange,
                               !.status = "CLEAN", !.ans = r]
<1>1. req[c] \in Requests
  BY DEF RoomsInv, TypeOK
<1>2. /\ q \in Requests /\ q.at = "write" /\ q.op = req[c].op /\ q.room = req[c].room
      /\ q.guest = req[c].guest /\ q.id = o
  BY <1>1, IdleIsRequest DEF Requests, Statuses
<1>3. req' = [req EXCEPT ![c] = q] /\ UNCHANGED <<room, outage, stay, calm, dead>>
  BY DEF Answered
<1> HIDE DEF q
<1> QED
  BY <1>2, <1>3

(* An answer that concerns no outage.                                      *)
LEMMA RoomAnswerInv ==
  ASSUME RoomsInv, NEW c \in Clerks, req[c].at = "core",
         \/ req[c].op = "status" /\ OperaSets(req[c]) /\ Answered(c, None, opera'.room[req[c].room])
         \/ req[c].op = "checkIn" /\ OperaChecksIn(req[c]) /\ Answered(c, None, req[c].ans)
         \/ req[c].op = "checkOut" /\ OperaChecksOut(req[c]) /\ Answered(c, None, req[c].ans)
  PROVE  RoomsInv'
<1>1. /\ req[c] \in Requests /\ opera \in OperaState /\ opera.room \in [Rooms -> Room]
      /\ Holds(req[c], opera.out, outage)
  BY HoldsIsInv DEF RoomsInv, TypeOK, OperaState
<1>2. req[c].room \in Rooms /\ req[c].status \in Statuses /\ req[c].ans \in Room
  BY <1>1 DEF Holds, Requests
<1>3. PICK s \in Statuses, occ \in BOOLEAN : opera' = OperaRoom(req[c].room, s, occ)
  <2>1. /\ opera.room[req[c].room].status \in Statuses
        /\ opera.room[req[c].room].occupied \in BOOLEAN /\ "DIRTY" \in Statuses
    BY <1>1, <1>2 DEF Room, Statuses
  <2> QED
    BY <1>2, <2>1 DEF OperaSets, OperaChecksIn, OperaChecksOut
<1>4. opera' \in OperaState /\ opera'.out = opera.out /\ opera'.room[req[c].room] \in Room
  BY <1>1, <1>2, <1>3 DEF OperaRoom, OperaState, Room
<1>5. PICK q \in Requests :
        /\ req' = [req EXCEPT ![c] = q] /\ UNCHANGED <<room, outage, stay, calm, dead>>
        /\ q.at = "write" /\ q.op = req[c].op /\ q.room = req[c].room /\ q.guest = req[c].guest
  BY <1>2, <1>4, AnsweredRequest
<1>6. Holds(q, opera.out, outage)
  BY <1>1, <1>5 DEF Holds
<1>7. /\ room' \in [Rooms -> Room] /\ stay' \in [Guests -> Stay]
      /\ calm' \in BOOLEAN /\ dead' \in 0..MaxDead
      /\ \A x \in Guests : stay'[x].st = "IN_HOUSE" => stay'[x].room \in Rooms
  BY <1>5 DEF RoomsInv, TypeOK, OperaInv
<1> QED
  BY <1>4, <1>5, <1>6, <1>7, OutagesStay

(* OPERA registers an outage under an id nobody has been told of, which    *)
(* overlaps none it has.                                                   *)
LEMMA OutAnswerInv ==
  ASSUME RoomsInv, NEW c \in Clerks, req[c].at = "core", req[c].op = "out",
         NEW o \in Outages, NEW g \in Range,
         OperaOuts(req[c], o, g), Answered(c, o, req[c].ans)
  PROVE  RoomsInv'
<1>1. /\ req[c] \in Requests /\ opera \in OperaState /\ Holds(req[c], opera.out, outage)
      /\ opera.out \in [Outages -> OperaOutage] /\ opera.room \in [Rooms -> Room]
  BY HoldsIsInv DEF RoomsInv, TypeOK, OperaState
<1>2. /\ opera.out[o].st = "none" /\ g.room = req[c].room /\ req[c].room \in Rooms
      /\ \A p \in Outages : opera.out[p].st = "on" => ~ Overlap(opera.out[p].at, g)
      /\ opera' = [opera EXCEPT !.out[o] = [st |-> "on", at |-> g],
                                !.room[req[c].room].status = IF Tonight(g) THEN "OUT" ELSE @]
  BY <1>1 DEF OperaOuts, Holds
<1>3. /\ opera'.out = [opera.out EXCEPT ![o] = [st |-> "on", at |-> g]]
      /\ opera' \in OperaState
  <2>1. [st |-> "on", at |-> g] \in OperaOutage
    BY DEF OperaOutage
  <2>2. /\ opera'.out = [opera.out EXCEPT ![o] = [st |-> "on", at |-> g]]
        /\ opera'.room = [opera.room EXCEPT ![req[c].room].status =
                            IF Tonight(g) THEN "OUT" ELSE @]
        /\ opera' = [room |-> opera'.room, out |-> opera'.out]
    BY <1>1, <1>2 DEF OperaState
  <2>3. opera'.room \in [Rooms -> Room]
    <3> DEFINE s == IF Tonight(g) THEN "OUT" ELSE opera.room[req[c].room].status
    <3>1. s \in Statuses
      BY <1>1, <1>2 DEF Room, Statuses
    <3>2. opera'.room = [opera.room EXCEPT ![req[c].room].status = s]
      BY <2>2
    <3> HIDE DEF s
    <3> QED
      BY <1>1, <1>2, <3>1, <3>2, StatusUpdate
  <2>4. opera'.out \in [Outages -> OperaOutage]
    BY <1>1, <2>1, <2>2
  <2> QED
    BY <2>2, <2>3, <2>4 DEF OperaState
<1>4. /\ opera'.out[o].st = "on" /\ opera'.out[o].at = g
      /\ \A p \in Outages : p # o => opera'.out[p] = opera.out[p]
  BY <1>1, <1>3
<1>5. PICK q \in Requests :
        /\ req' = [req EXCEPT ![c] = q] /\ UNCHANGED <<room, outage, stay, calm, dead>>
        /\ q.at = "write" /\ q.op = "out" /\ q.room = req[c].room /\ q.id = o
  <2>1. req[c].ans \in Room
    BY <1>1 DEF Requests
  <2> QED
    BY <2>1, AnsweredRequest
<1>6. outage[o] = "none"
  BY <1>2 DEF RoomsInv, RowsAreReal
<1>7. Holds(q, opera'.out, outage')
  BY <1>2, <1>4, <1>5, <1>6 DEF Holds
<1>8. \A d \in Clerks : d # c /\ Registered(d) => req[d].id # q.id
  BY <1>2, <1>5 DEF RoomsInv, RequestInv
<1>9. ASSUME NEW d \in Clerks, Holds(req[d], opera.out, outage)
      PROVE  Holds(req[d], opera'.out, outage')
  BY <1>2, <1>4, <1>5, <1>9 DEF Holds
<1>10. req' \in [Clerks -> Requests] /\ RequestInv'
  BY <1>5, <1>7, <1>8, <1>9, RequestStep
<1>11. TypeOK'
  BY <1>3, <1>5, <1>10 DEF RoomsInv, TypeOK
<1>12. RowsAreReal'
  BY <1>4, <1>5, <1>6 DEF RoomsInv, RowsAreReal
<1>13. NoneTwice'
  BY <1>4, <1>5, <1>6 DEF RoomsInv, NoneTwice
<1>14. OperaInv'
  <2>1. \A a, b \in Range : Overlap(a, b) <=> Overlap(b, a)
    BY DEF Overlap
  <2>2. \A p \in Outages : opera.out[p].at \in Range
    BY <1>1 DEF OperaOutage
  <2>3. ASSUME NEW p \in Outages, NEW r \in Outages, p # r,
               opera'.out[p].st = "on", opera'.out[r].st = "on"
        PROVE  ~ Overlap(opera'.out[p].at, opera'.out[r].at)
    <3>1. CASE p = o
      BY <1>2, <1>4, <2>1, <2>2, <2>3, <3>1
    <3>2. CASE r = o
      BY <1>2, <1>4, <2>3, <3>2
    <3>3. CASE p # o /\ r # o
      BY <1>4, <2>3, <3>3 DEF RoomsInv, OperaInv
    <3> QED
      BY <3>1, <3>2, <3>3
  <2>4. \A p \in Outages : opera'.out[p].st # "none" => opera'.out[p].at.room \in Rooms
    BY <1>2, <1>4 DEF RoomsInv, OperaInv
  <2>5. \A x \in Guests : stay'[x].st = "IN_HOUSE" => stay'[x].room \in Rooms
    BY <1>5 DEF RoomsInv, OperaInv
  <2> QED
    BY <2>3, <2>4, <2>5 DEF OperaInv
<1> QED
  BY <1>10, <1>11, <1>12, <1>13, <1>14 DEF RoomsInv

(* OPERA lets go of an outage and keeps its dates.                         *)
LEMMA ReleaseAnswerInv ==
  ASSUME RoomsInv, NEW c \in Clerks, req[c].at = "core", req[c].op = "release",
         OperaReleases(req[c]), Answered(c, req[c].id, req[c].ans)
  PROVE  RoomsInv'
<1> DEFINE o == req[c].id
<1>1. /\ req[c] \in Requests /\ opera \in OperaState /\ Holds(req[c], opera.out, outage)
      /\ opera.out \in [Outages -> OperaOutage] /\ opera.room \in [Rooms -> Room]
  BY HoldsIsInv DEF RoomsInv, TypeOK, OperaState
<1>2. /\ o \in Outages /\ outage[o] # "none" /\ req[c].room \in Rooms /\ opera.out[o].st = "on"
      /\ opera' = [opera EXCEPT !.out[o].st = "off",
                     !.room[req[c].room].status =
                       IF Tonight(opera.out[o].at) THEN opera.out[o].at.back ELSE @]
  BY <1>1 DEF OperaReleases, Holds
<1> HIDE DEF o
<1>3. /\ opera'.out = [opera.out EXCEPT ![o].st = "off"]
      /\ opera' \in OperaState
  <2>1. /\ opera'.out = [opera.out EXCEPT ![o].st = "off"]
        /\ opera'.room = [opera.room EXCEPT ![req[c].room].status =
                            IF Tonight(opera.out[o].at) THEN opera.out[o].at.back ELSE @]
        /\ opera' = [room |-> opera'.room, out |-> opera'.out]
    BY <1>1, <1>2 DEF OperaState
  <2>2. opera.out[o].at.back \in Statuses
    BY <1>1, <1>2, RoomsAssumption DEF OperaOutage, Range, Statuses
  <2>3. opera'.room \in [Rooms -> Room]
    <3> DEFINE s == IF Tonight(opera.out[o].at) THEN opera.out[o].at.back
                    ELSE opera.room[req[c].room].status
    <3>1. s \in Statuses
      BY <1>1, <1>2, <2>2 DEF Room
    <3>2. opera'.room = [opera.room EXCEPT ![req[c].room].status = s]
      BY <2>1
    <3> HIDE DEF s
    <3> QED
      BY <1>1, <1>2, <3>1, <3>2, StatusUpdate
  <2>4. opera'.out \in [Outages -> OperaOutage]
    BY <1>1, <2>1 DEF OperaOutage
  <2> QED
    BY <2>1, <2>3, <2>4 DEF OperaState
<1>4. /\ opera'.out[o].st = "off" /\ opera'.out[o].at = opera.out[o].at
      /\ \A p \in Outages : p # o => opera'.out[p] = opera.out[p]
  BY <1>1, <1>2, <1>3 DEF OperaOutage
<1>5. PICK q \in Requests :
        /\ req' = [req EXCEPT ![c] = q] /\ UNCHANGED <<room, outage, stay, calm, dead>>
        /\ q.at = "write" /\ q.op = "release" /\ q.room = req[c].room /\ q.id = o
  <2>1. req[c].ans \in Room
    BY <1>1 DEF Requests
  <2> QED
    BY <1>2, <2>1, AnsweredRequest DEF o
<1>6. Holds(q, opera'.out, outage')
  BY <1>2, <1>4, <1>5 DEF Holds
<1>7. ASSUME NEW d \in Clerks, Holds(req[d], opera.out, outage)
      PROVE  Holds(req[d], opera'.out, outage')
  <2>1. \A p \in Outages : /\ opera.out[p].st # "none" => opera'.out[p].st # "none"
                           /\ opera.out[p].st = "off" => opera'.out[p].st = "off"
    BY <1>2, <1>4
  <2> QED
    BY <1>5, <1>7, <2>1 DEF Holds
<1>8. req' \in [Clerks -> Requests] /\ RequestInv'
  BY <1>5, <1>6, <1>7, RequestStep
<1>9. TypeOK'
  BY <1>3, <1>5, <1>8 DEF RoomsInv, TypeOK
<1>10. RowsAreReal'
  BY <1>2, <1>4, <1>5 DEF RoomsInv, RowsAreReal
<1>11. NoneTwice'
  <2>1. ASSUME NEW p \in Outages, NEW r \in Outages, p # r,
               outage'[p] = "on", outage'[r] = "on", Overlap(opera'.out[p].at, opera'.out[r].at)
        PROVE  opera'.out[p].st = "off" \/ opera'.out[r].st = "off"
    <3>1. opera'.out[p].at = opera.out[p].at /\ opera'.out[r].at = opera.out[r].at
      BY <1>4
    <3>2. opera.out[p].st = "off" \/ opera.out[r].st = "off"
      BY <1>5, <2>1, <3>1 DEF RoomsInv, NoneTwice
    <3> QED
      BY <1>4, <3>2
  <2> QED
    BY <2>1 DEF NoneTwice
<1>12. OperaInv'
  <2>1. ASSUME NEW p \in Outages, NEW r \in Outages, p # r,
               opera'.out[p].st = "on", opera'.out[r].st = "on"
        PROVE  ~ Overlap(opera'.out[p].at, opera'.out[r].at)
    <3>1. p # o /\ r # o
      BY <1>4, <2>1
    <3> QED
      BY <1>4, <2>1, <3>1 DEF RoomsInv, OperaInv
  <2>2. \A p \in Outages : opera'.out[p].st # "none" => opera'.out[p].at.room \in Rooms
    BY <1>2, <1>4 DEF RoomsInv, OperaInv
  <2>3. \A x \in Guests : stay'[x].st = "IN_HOUSE" => stay'[x].room \in Rooms
    BY <1>5 DEF RoomsInv, OperaInv
  <2> QED
    BY <2>1, <2>2, <2>3 DEF OperaInv
<1> QED
  BY <1>8, <1>9, <1>10, <1>11, <1>12 DEF RoomsInv

(* Whatever OPERA answers.                                                 *)
LEMMA CoreAnswersInv ==
  ASSUME RoomsInv, NEW c \in Clerks, CoreAnswers(c)
  PROVE  RoomsInv'
<1>1. req[c].at = "core"
  BY DEF CoreAnswers, At
<1>2. \/ req[c].op = "out" /\ \E o \in Outages, g \in Range :
           OperaOuts(req[c], o, g) /\ Answered(c, o, req[c].ans)
      \/ req[c].op = "release" /\ OperaReleases(req[c]) /\ Answered(c, req[c].id, req[c].ans)
      \/ \/ req[c].op = "status" /\ OperaSets(req[c])
              /\ Answered(c, None, opera'.room[req[c].room])
         \/ req[c].op = "checkIn" /\ OperaChecksIn(req[c]) /\ Answered(c, None, req[c].ans)
         \/ req[c].op = "checkOut" /\ OperaChecksOut(req[c]) /\ Answered(c, None, req[c].ans)
  BY DEF CoreAnswers
<1> QED
  BY <1>1, <1>2, OutAnswerInv, ReleaseAnswerInv, RoomAnswerInv

-----------------------------------------------------------------------------
(* What is written then.                                                   *)

(* A row for the outage OPERA registered: of two rows that overlap OPERA   *)
(* has let go of one, for it registers no two that do.                     *)
LEMMA WriteOutInv ==
  ASSUME RoomsInv, NEW c \in Clerks, WriteOut(c)
  PROVE  RoomsInv'
<1> DEFINE o == req[c].id
<1>1. /\ req[c] \in Requests /\ req[c].at = "write" /\ req[c].op = "out"
      /\ Holds(req[c], opera.out, outage) /\ room \in [Rooms -> Room]
      /\ outage \in [Outages -> {"none", "on", "released"}]
      /\ opera.out \in [Outages -> OperaOutage]
  BY HoldsIsInv DEF WriteOut, At, RoomsInv, TypeOK, OperaState
<1>2. o \in Outages /\ opera.out[o].st # "none" /\ outage[o] = "none" /\ req[c].room \in Rooms
  BY <1>1 DEF Holds
<1>3. /\ outage' = [outage EXCEPT ![o] = "on"] /\ UNCHANGED <<opera, stay, calm, dead>>
      /\ req' = [req EXCEPT ![c] = Idle]
      /\ room' = IF Tonight(Dates(c)) THEN [room EXCEPT ![req[c].room].status = "OUT"] ELSE room
  BY DEF WriteOut, Keeps, Ends
<1>4. \A d \in Clerks : d # c /\ Registered(d) => req[d].id # o
  BY <1>1 DEF RoomsInv, RequestInv, Registered, At
<1> HIDE DEF o
<1>5. room' \in [Rooms -> Room]
  BY <1>1, <1>2, <1>3 DEF Room, Statuses
<1>6. /\ outage' \in [Outages -> {"none", "on", "released"}]
      /\ outage'[o] = "on" /\ \A p \in Outages : p # o => outage'[p] = outage[p]
  BY <1>1, <1>2, <1>3
<1>7. ASSUME NEW d \in Clerks, d # c, Holds(req[d], opera.out, outage)
      PROVE  Holds(req[d], opera'.out, outage')
  <2>1. \A p \in Outages : outage[p] # "none" => outage'[p] # "none"
    BY <1>2, <1>6
  <2>2. req[d].at = "write" /\ req[d].op = "out" => req[d].id # o
    BY <1>4, <1>7 DEF Registered, At
  <2> QED
    BY <1>3, <1>6, <1>7, <2>1, <2>2 DEF Holds
<1>8. req' \in [Clerks -> Requests] /\ RequestInv'
  <2>1. Holds(Idle, opera'.out, outage') /\ ~ (Idle.at = "write")
    BY IdleHolds DEF Idle
  <2> QED
    BY <1>3, <1>7, <2>1, IdleIsRequest, RequestStep
<1>9. TypeOK'
  BY <1>3, <1>5, <1>6, <1>8 DEF RoomsInv, TypeOK
<1>10. RowsAreReal'
  BY <1>2, <1>3, <1>6 DEF RoomsInv, RowsAreReal
<1>11. NoneTwice'
  <2>1. ASSUME NEW p \in Outages, NEW r \in Outages, p # r,
               outage'[p] = "on", outage'[r] = "on", Overlap(opera.out[p].at, opera.out[r].at)
        PROVE  opera.out[p].st = "off" \/ opera.out[r].st = "off"
    <3>1. opera.out[p].st # "none" /\ opera.out[r].st # "none"
      BY <1>2, <1>6, <2>1 DEF RoomsInv, RowsAreReal
    <3>2. opera.out[p].st \in {"none", "on", "off"} /\ opera.out[r].st \in {"none", "on", "off"}
      BY <1>1 DEF OperaOutage
    <3>3. ~ (opera.out[p].st = "on" /\ opera.out[r].st = "on")
      BY <2>1 DEF RoomsInv, OperaInv
    <3> QED
      BY <3>1, <3>2, <3>3
  <2> QED
    BY <1>3, <2>1 DEF NoneTwice
<1>12. OperaInv'
  BY <1>3 DEF RoomsInv, OperaInv
<1> QED
  BY <1>8, <1>9, <1>10, <1>11, <1>12 DEF RoomsInv

(* A row is released once OPERA has let go of it.                          *)
LEMMA WriteReleaseInv ==
  ASSUME RoomsInv, NEW c \in Clerks, WriteRelease(c)
  PROVE  RoomsInv'
<1> DEFINE o == req[c].id
<1>1. /\ req[c] \in Requests /\ req[c].at = "write" /\ req[c].op = "release"
      /\ Holds(req[c], opera.out, outage) /\ room \in [Rooms -> Room]
      /\ outage \in [Outages -> {"none", "on", "released"}]
      /\ opera.out \in [Outages -> OperaOutage]
  BY HoldsIsInv DEF WriteRelease, At, RoomsInv, TypeOK, OperaState
<1>2. o \in Outages /\ opera.out[o].st = "off" /\ outage[o] # "none" /\ req[c].room \in Rooms
  BY <1>1 DEF Holds
<1>3. /\ outage' = [outage EXCEPT ![o] = "released"] /\ UNCHANGED <<opera, stay, calm, dead>>
      /\ req' = [req EXCEPT ![c] = Idle]
      /\ room' = IF Tonight(Dates(c)) THEN [room EXCEPT ![req[c].room].status = Dates(c).back]
                 ELSE room
  BY DEF WriteRelease, Keeps, Ends
<1>4. Dates(c).back \in Statuses
  BY <1>1, <1>2, RoomsAssumption DEF Dates, OperaOutage, Range, Statuses
<1> HIDE DEF o
<1>5. room' \in [Rooms -> Room]
  BY <1>1, <1>2, <1>3, <1>4 DEF Room
<1>6. /\ outage' \in [Outages -> {"none", "on", "released"}]
      /\ outage'[o] = "released" /\ \A p \in Outages : p # o => outage'[p] = outage[p]
  BY <1>1, <1>2, <1>3
<1>7. ASSUME NEW d \in Clerks, d # c, Holds(req[d], opera.out, outage)
      PROVE  Holds(req[d], opera'.out, outage')
  <2>1. \A p \in Outages : outage'[p] = "none" <=> outage[p] = "none"
    BY <1>2, <1>6
  <2> QED
    BY <1>3, <1>7, <2>1 DEF Holds
<1>8. req' \in [Clerks -> Requests] /\ RequestInv'
  <2>1. Holds(Idle, opera'.out, outage') /\ ~ (Idle.at = "write")
    BY IdleHolds DEF Idle
  <2> QED
    BY <1>3, <1>7, <2>1, IdleIsRequest, RequestStep
<1>9. TypeOK'
  BY <1>3, <1>5, <1>6, <1>8 DEF RoomsInv, TypeOK
<1>10. RowsAreReal'
  BY <1>2, <1>3, <1>6 DEF RoomsInv, RowsAreReal
<1>11. NoneTwice'
  BY <1>3, <1>6 DEF RoomsInv, NoneTwice
<1>12. OperaInv'
  BY <1>3 DEF RoomsInv, OperaInv
<1> QED
  BY <1>8, <1>9, <1>10, <1>11, <1>12 DEF RoomsInv

(* A request that ends with a write to a room, a reservation or nothing.   *)
LEMMA EndsInv ==
  ASSUME RoomsInv, NEW c \in Clerks,
         \/ WriteStatus(c) \/ WriteIn(c) \/ WriteLeft(c) \/ CoreRefuses(c) \/ Dies(c)
  PROVE  RoomsInv'
<1>1. /\ req[c] \in Requests /\ Holds(req[c], opera.out, outage)
      /\ room \in [Rooms -> Room] /\ stay \in [Guests -> Stay]
      /\ \A x \in Guests : stay[x].st = "IN_HOUSE" => stay[x].room \in Rooms
  BY HoldsIsInv DEF RoomsInv, TypeOK, OperaInv
<1>2. /\ req' = [req EXCEPT ![c] = Idle] /\ UNCHANGED <<opera, outage>>
      /\ calm' \in BOOLEAN /\ dead' \in 0..MaxDead /\ opera' \in OperaState
  <2>1. opera \in OperaState /\ calm \in BOOLEAN /\ dead \in 0..MaxDead /\ MaxDead \in Nat
    BY RoomsAssumption DEF RoomsInv, TypeOK
  <2>2. CASE WriteStatus(c)
    BY <2>1, <2>2 DEF WriteStatus, Keeps, Ends
  <2>3. CASE WriteIn(c) \/ WriteLeft(c) \/ CoreRefuses(c)
    BY <2>1, <2>3 DEF WriteIn, WriteLeft, CoreRefuses, Keeps, Ends
  <2>4. CASE Dies(c)
    <3>1. dead' \in 0..MaxDead
      BY <2>1, <2>4 DEF Dies
    <3> QED
      BY <2>1, <2>4, <3>1 DEF Dies, Ends
  <2> QED
    BY <2>2, <2>3, <2>4
<1>3. /\ room' \in [Rooms -> Room] /\ stay' \in [Guests -> Stay]
      /\ \A x \in Guests : stay'[x].st = "IN_HOUSE" => stay'[x].room \in Rooms
  <2>1. CASE CoreRefuses(c) \/ Dies(c)
    BY <1>1, <2>1 DEF CoreRefuses, Dies
  <2>2. CASE WriteStatus(c)
    <3>1. req[c].room \in Rooms /\ req[c].ans \in Room
      BY <1>1, <2>2 DEF WriteStatus, At, Holds, Requests
    <3>2. PICK occ \in {room[req[c].room].occupied, req[c].ans.occupied} :
            room' = [room EXCEPT ![req[c].room] = [status |-> req[c].ans.status, occupied |-> occ]]
      BY <2>2 DEF WriteStatus
    <3>3. [status |-> req[c].ans.status, occupied |-> occ] \in Room
      BY <1>1, <3>1 DEF Room
    <3> QED
      BY <1>1, <2>2, <3>1, <3>2, <3>3 DEF WriteStatus
  <2>3. CASE WriteIn(c)
    <3>1. req[c].room \in Rooms /\ req[c].guest \in Guests
      BY <1>1, <2>3 DEF WriteIn, At, Holds
    <3>2. room' \in [Rooms -> Room]
      BY <1>1, <2>3, <3>1 DEF WriteIn, Room
    <3>3. /\ stay' = [stay EXCEPT ![req[c].guest] =
                        [stay[req[c].guest] EXCEPT !.room = req[c].room, !.st = "IN_HOUSE"]]
      BY <2>3 DEF WriteIn
    <3> QED
      BY <1>1, <3>1, <3>2, <3>3 DEF Stay
  <2>4. CASE WriteLeft(c)
    <3>1. req[c].room \in Rooms /\ req[c].guest \in Guests
      BY <1>1, <2>4 DEF WriteLeft, At, Holds
    <3>2. room' \in [Rooms -> Room]
      BY <1>1, <2>4, <3>1 DEF WriteLeft, Vacated, Room, Statuses
    <3>3. stay' = [stay EXCEPT ![req[c].guest].st = "LEFT"]
      BY <2>4 DEF WriteLeft
    <3> QED
      BY <1>1, <3>1, <3>2, <3>3 DEF Stay
  <2> QED
    BY <2>1, <2>2, <2>3, <2>4
<1>4. Holds(Idle, opera.out, outage) /\ Idle.at # "write"
  BY IdleHolds DEF Idle
<1> QED
  BY <1>2, <1>3, <1>4, IdleIsRequest, OutagesStay

-----------------------------------------------------------------------------
(* Every step keeps the invariant.                                         *)
LEMMA NextInv ==
  ASSUME RoomsInv, [Next]_vars
  PROVE  RoomsInv'
<1>1. CASE UNCHANGED vars
  BY <1>1 DEF vars, RoomsInv, TypeOK, RowsAreReal, NoneTwice, OperaInv, RequestInv, Registered, At
<1>2. CASE Next
  <2>1. PICK c \in Clerks :
          \/ \/ \E g \in Range : g.room # None /\ g.back \in Backs /\ StartOut(c, g)
             \/ \E o \in Outages : StartRelease(c, o)
             \/ \E r \in Rooms : \E s \in Statuses : StartStatus(c, r, s)
             \/ \E x \in Guests : \E r \in Rooms : StartCheckIn(c, x, r)
             \/ \E x \in Guests : StartCheckOut(c, x)
          \/ CoreAnswers(c) \/ WriteOut(c) \/ WriteRelease(c)
          \/ \/ WriteStatus(c) \/ WriteIn(c) \/ WriteLeft(c) \/ CoreRefuses(c) \/ Dies(c)
    BY <1>2 DEF Next, Moves
  <2> QED
    BY <2>1, StartsInv, CoreAnswersInv, WriteOutInv, WriteReleaseInv, EndsInv
<1> QED
  BY <1>1, <1>2

(* Our outages are OPERA's and none is on twice, and what requests in      *)
(* flight were told of stays theirs to write, however they interleave and  *)
(* wherever they die.                                                      *)
THEOREM RoomsInvariant == Spec => []RoomsInv
<1>1. Init => RoomsInv
  BY InitInv
<1>2. RoomsInv /\ [Next]_vars => RoomsInv'
  BY NextInv
<1> QED
  BY <1>1, <1>2, PTL DEF Spec

-----------------------------------------------------------------------------
(* While requests do not overlap and nothing fails.                        *)

(* One guest to a room; the rooms marked occupied are theirs.              *)
Alone(st) ==
  \A x, y \in Guests :
    st[x].st = "IN_HOUSE" /\ st[y].st = "IN_HOUSE" /\ st[x].room = st[y].room => x = y
Marked(st, rooms) ==
  \A r \in Rooms :
    rooms[r].occupied <=> \E x \in Guests : st[x].st = "IN_HOUSE" /\ st[x].room = r

(* OPERA's room o is what the request q is about to make of our room r.    *)
IsCopy(q, at, r, o) ==
  /\ q.op = "out" => o = IF Tonight(at) THEN [r EXCEPT !.status = "OUT"] ELSE r
  /\ q.op = "release" => o = IF Tonight(at) THEN [r EXCEPT !.status = at.back] ELSE r
  /\ q.op = "status" => o = q.ans /\ o.occupied = r.occupied
  /\ q.op = "checkIn" => o = [r EXCEPT !.occupied = TRUE] /\ ~ r.occupied
  /\ q.op = "checkOut" => o = [status |-> "DIRTY", occupied |-> FALSE]

(* What the only request at work finds: its guest as it read them, and     *)
(* OPERA's rooms, but for what it is about to write.                       *)
Working(q, st, rooms, o) ==
  /\ q.op = "checkIn" => st[q.guest].st = "RESERVED"
  /\ q.op = "checkOut" => st[q.guest].st = "IN_HOUSE" /\ st[q.guest].room = q.room
  /\ q.at = "core" => rooms = o.room
  /\ q.at = "write" =>
       /\ \A r \in Rooms : r # q.room => rooms[r] = o.room[r]
       /\ IsCopy(q, o.out[q.id].at, rooms[q.room], o.room[q.room])

CalmInv == calm =>
  /\ Alone(stay) /\ Marked(stay, room)
  /\ Quiet => room = opera.room
  /\ \A c \in Clerks : ~ At(c, "idle") =>
       /\ \A d \in Clerks : d # c => At(d, "idle")
       /\ Working(req[c], stay, room, opera)

(* The invariant after a step of the only request at work.                 *)
LEMMA CalmStep ==
  ASSUME RoomsInv, NEW c \in Clerks, NEW q \in Requests,
         \A d \in Clerks : d # c => At(d, "idle"),
         req' = [req EXCEPT ![c] = q],
         Alone(stay'), Marked(stay', room'),
         q.at = "idle" => room' = opera'.room,
         q.at # "idle" => Working(q, stay', room', opera')
  PROVE  CalmInv'
<1>1. req \in [Clerks -> Requests]
  BY DEF RoomsInv, TypeOK
<1>2. req'[c] = q /\ \A d \in Clerks : d # c => req'[d].at = "idle"
  BY <1>1 DEF At
<1>3. (Quiet => room = opera.room)'
  BY <1>2 DEF Quiet, At
<1>4. \A b \in Clerks : req'[b].at # "idle" => b = c
  BY <1>2
<1> QED
  BY <1>2, <1>3, <1>4 DEF CalmInv, At

(* A request that begins finds OPERA's rooms.                              *)
LEMMA AsksCalm ==
  ASSUME RoomsInv, CalmInv, NEW c \in Clerks, NEW q \in Requests, Asks(c, q),
         q.op = "checkIn" => stay[q.guest].st = "RESERVED",
         q.op = "checkOut" => stay[q.guest].st = "IN_HOUSE" /\ stay[q.guest].room = q.room
  PROVE  CalmInv'
<1> SUFFICES ASSUME calm' PROVE CalmInv'
  BY DEF CalmInv
<1>1. calm /\ Quiet /\ UNCHANGED <<opera, room, stay>>
  BY DEF Asks
<1> DEFINE r == [q EXCEPT !.at = "core"]
<1>2. /\ r \in Requests /\ r.at = "core" /\ r.op = q.op /\ r.guest = q.guest /\ r.room = q.room
      /\ req' = [req EXCEPT ![c] = r]
  BY DEF Asks, Requests
<1> HIDE DEF r
<1>3. /\ Alone(stay') /\ Marked(stay', room') /\ room' = opera'.room
  BY <1>1 DEF CalmInv
<1>4. Working(r, stay', room', opera')
  BY <1>1, <1>2, <1>3 DEF Working
<1>5. \A d \in Clerks : d # c => At(d, "idle")
  BY <1>1 DEF Quiet
<1> QED
  BY <1>2, <1>3, <1>4, <1>5, CalmStep

LEMMA StartsCalm ==
  ASSUME RoomsInv, CalmInv, NEW c \in Clerks,
         \/ \E g \in Range : g.room # None /\ g.back \in Backs /\ StartOut(c, g)
         \/ \E o \in Outages : StartRelease(c, o)
         \/ \E r \in Rooms : \E s \in Statuses : StartStatus(c, r, s)
         \/ \E x \in Guests : \E r \in Rooms : StartCheckIn(c, x, r)
         \/ \E x \in Guests : StartCheckOut(c, x)
  PROVE  CalmInv'
<1> USE IdleIsRequest
<1>1. ASSUME NEW g \in Range, g.room # None, StartOut(c, g) PROVE CalmInv'
  <2> DEFINE q == [Idle EXCEPT !.op = "out", !.room = g.room, !.range = g]
  <2>1. q \in Requests /\ q.op = "out"
    BY DEF Requests, Ops, Idle, Range
  <2>2. Asks(c, q)
    BY <1>1 DEF StartOut
  <2> HIDE DEF q
  <2> QED
    BY <2>1, <2>2, AsksCalm
<1>2. ASSUME NEW o \in Outages, StartRelease(c, o) PROVE CalmInv'
  <2> DEFINE q == [Idle EXCEPT !.op = "release", !.id = o, !.room = opera.out[o].at.room]
  <2>1. outage[o] = "on" /\ opera.out[o].at.room \in Rooms /\ Asks(c, q)
    BY <1>2 DEF StartRelease, RoomsInv, RowsAreReal, OperaInv
  <2>2. q \in Requests /\ q.op = "release"
    BY <2>1 DEF Requests, Ops, Idle
  <2> HIDE DEF q
  <2> QED
    BY <2>1, <2>2, AsksCalm
<1>3. ASSUME NEW r \in Rooms, NEW s \in Statuses, StartStatus(c, r, s) PROVE CalmInv'
  <2> DEFINE q == [Idle EXCEPT !.op = "status", !.room = r, !.status = s]
  <2>1. q \in Requests /\ q.op = "status" /\ Asks(c, q)
    BY <1>3 DEF StartStatus, Requests, Ops, Idle
  <2> HIDE DEF q
  <2> QED
    BY <2>1, AsksCalm
<1>4. ASSUME NEW x \in Guests, NEW r \in Rooms, StartCheckIn(c, x, r) PROVE CalmInv'
  <2> DEFINE q == [Idle EXCEPT !.op = "checkIn", !.guest = x, !.room = r]
  <2>1. q \in Requests /\ q.op = "checkIn" /\ q.guest = x /\ Asks(c, q)
    BY <1>4 DEF StartCheckIn, Requests, Ops, Idle
  <2>2. stay[x].st = "RESERVED"
    BY <1>4 DEF StartCheckIn
  <2> HIDE DEF q
  <2> QED
    BY <2>1, <2>2, AsksCalm
<1>5. ASSUME NEW x \in Guests, StartCheckOut(c, x) PROVE CalmInv'
  <2> DEFINE q == [Idle EXCEPT !.op = "checkOut", !.guest = x, !.room = stay[x].room]
  <2>1. stay[x].st = "IN_HOUSE" /\ stay[x].room \in Rooms /\ Asks(c, q)
    BY <1>5 DEF StartCheckOut, RoomsInv, OperaInv
  <2>2. q \in Requests /\ q.op = "checkOut" /\ q.guest = x /\ q.room = stay[x].room
    BY <2>1 DEF Requests, Ops, Idle
  <2> HIDE DEF q
  <2> QED
    BY <2>1, <2>2, AsksCalm
<1> QED
  BY <1>1, <1>2, <1>3, <1>4, <1>5

(* What the request at work finds, where it waits for OPERA.               *)
LEMMA AtCore ==
  ASSUME RoomsInv, CalmInv, calm, NEW c \in Clerks, At(c, "core")
  PROVE  /\ req[c] \in Requests /\ req[c].room \in Rooms /\ req[c].ans \in Room
         /\ opera \in OperaState /\ opera.room \in [Rooms -> Room]
         /\ opera.out \in [Outages -> OperaOutage]
         /\ room = opera.room
         /\ Working(req[c], stay, room, opera)
         /\ Alone(stay) /\ Marked(stay, room)
         /\ \A d \in Clerks : d # c => At(d, "idle")
<1>1. Holds(req[c], opera.out, outage) /\ req[c] \in Requests /\ opera \in OperaState
  BY HoldsIsInv DEF RoomsInv, TypeOK
<1>2. req[c].room \in Rooms /\ req[c].ans \in Room
  BY <1>1 DEF Holds, At, Requests
<1>3. opera.room \in [Rooms -> Room] /\ opera.out \in [Outages -> OperaOutage]
  BY <1>1 DEF OperaState
<1>4. /\ Working(req[c], stay, room, opera) /\ \A d \in Clerks : d # c => At(d, "idle")
      /\ Alone(stay) /\ Marked(stay, room)
  BY DEF CalmInv, At
<1>5. room = opera.room
  BY <1>4 DEF Working, At
<1> QED
  BY <1>1, <1>2, <1>3, <1>4, <1>5

(* OPERA's answer is what the request is about to write.                   *)
LEMMA AnswerCalm ==
  ASSUME RoomsInv, CalmInv, calm, NEW c \in Clerks, At(c, "core"),
         NEW o \in Outages \cup {None}, NEW a \in Room, Answered(c, o, a),
         opera' \in OperaState,
         \A r \in Rooms : r # req[c].room => opera'.room[r] = opera.room[r],
         \A q \in Requests : q.op = req[c].op /\ q.ans = a =>
           IsCopy(q, opera'.out[o].at, opera.room[req[c].room], opera'.room[req[c].room])
  PROVE  CalmInv'
<1> USE AtCore
<1> DEFINE q == [req[c] EXCEPT !.at = "write", !.id = o, !.range = NoRange,
                               !.status = "CLEAN", !.ans = a]
<1>1. /\ q \in Requests /\ q.at = "write" /\ q.op = req[c].op /\ q.room = req[c].room
      /\ q.guest = req[c].guest /\ q.id = o /\ q.ans = a
  BY IdleIsRequest DEF Requests, Statuses
<1>2. req' = [req EXCEPT ![c] = q] /\ UNCHANGED <<room, stay>>
  BY DEF Answered
<1> HIDE DEF q
<1>3. IsCopy(q, opera'.out[q.id].at, room'[q.room], opera'.room[q.room])
  BY <1>1, <1>2
<1>4. Working(q, stay', room', opera')
  BY <1>1, <1>2, <1>3 DEF Working
<1>5. Alone(stay') /\ Marked(stay', room')
  BY <1>2
<1> QED
  BY <1>1, <1>2, <1>4, <1>5, CalmStep

LEMMA CoreAnswersCalm ==
  ASSUME RoomsInv, RoomsInv', CalmInv, NEW c \in Clerks, CoreAnswers(c)
  PROVE  CalmInv'
<1> SUFFICES ASSUME calm' PROVE CalmInv'
  BY DEF CalmInv
<1> DEFINE q == req[c]
           r == q.room
<1>1. At(c, "core") /\ calm
  BY DEF CoreAnswers, Answered
<1>2. /\ q \in Requests /\ r \in Rooms /\ q.ans \in Room
      /\ opera \in OperaState /\ opera' \in OperaState
      /\ opera.room \in [Rooms -> Room] /\ opera.out \in [Outages -> OperaOutage]
      /\ room = opera.room /\ Working(q, stay, room, opera) /\ Alone(stay) /\ Marked(stay, room)
  BY <1>1, AtCore DEF RoomsInv, TypeOK
<1> HIDE DEF q, r
<1>3. ASSUME NEW o \in Outages, NEW g \in Range, q.op = "out",
             OperaOuts(q, o, g), Answered(c, o, q.ans)
      PROVE  CalmInv'
  <2>1. opera' = [opera EXCEPT !.out[o] = [st |-> "on", at |-> g],
                               !.room[r].status = IF Tonight(g) THEN "OUT" ELSE @]
    BY <1>3 DEF OperaOuts, r
  <2>2. /\ opera'.out[o].at = g
        /\ opera'.room = [opera.room EXCEPT ![r].status = IF Tonight(g) THEN "OUT" ELSE @]
    BY <1>2, <2>1 DEF OperaState
  <2>3. /\ \A x \in Rooms : x # r => opera'.room[x] = opera.room[x]
        /\ opera'.room[r] = IF Tonight(g) THEN [opera.room[r] EXCEPT !.status = "OUT"]
                            ELSE opera.room[r]
    BY <1>2, <2>2 DEF Room
  <2>4. \A x \in Requests : x.op = q.op => IsCopy(x, opera'.out[o].at, opera.room[r], opera'.room[r])
    BY <1>3, <2>2, <2>3 DEF IsCopy
  <2> QED
    BY <1>1, <1>2, <1>3, <2>3, <2>4, AnswerCalm DEF q, r
<1>4. CASE q.op = "release" /\ OperaReleases(q) /\ Answered(c, q.id, q.ans)
  <2> DEFINE o == q.id
  <2>1. o \in Outages
    BY <1>1, <1>4 DEF RoomsInv, RequestInv, At, q
  <2>2. opera' = [opera EXCEPT !.out[o].st = "off",
                    !.room[r].status = IF Tonight(opera.out[o].at) THEN opera.out[o].at.back ELSE @]
    BY <1>4 DEF OperaReleases, r
  <2> HIDE DEF o
  <2>3. /\ opera'.out[o].at = opera.out[o].at
        /\ opera'.room = [opera.room EXCEPT ![r].status =
                            IF Tonight(opera.out[o].at) THEN opera.out[o].at.back ELSE @]
    BY <1>2, <2>1, <2>2 DEF OperaState, OperaOutage
  <2>4. /\ \A x \in Rooms : x # r => opera'.room[x] = opera.room[x]
        /\ opera'.room[r] = IF Tonight(opera.out[o].at)
                            THEN [opera.room[r] EXCEPT !.status = opera.out[o].at.back]
                            ELSE opera.room[r]
    BY <1>2, <2>3 DEF Room
  <2>5. \A x \in Requests : x.op = q.op => IsCopy(x, opera'.out[o].at, opera.room[r], opera'.room[r])
    BY <1>4, <2>3, <2>4 DEF IsCopy
  <2> QED
    BY <1>1, <1>2, <1>4, <2>1, <2>4, <2>5, AnswerCalm DEF o, q, r
<1>5. ASSUME NEW s \in Statuses, NEW occ \in BOOLEAN, NEW a \in Room,
             opera' = OperaRoom(r, s, occ), Answered(c, None, a),
             \A x \in Requests : x.op = q.op /\ x.ans = a =>
               IsCopy(x, opera'.out[None].at, opera.room[r], [status |-> s, occupied |-> occ])
      PROVE  CalmInv'
  <2>1. opera'.room = [opera.room EXCEPT ![r] = [status |-> s, occupied |-> occ]]
    BY <1>2, <1>5 DEF OperaRoom, OperaState
  <2>2. /\ \A x \in Rooms : x # r => opera'.room[x] = opera.room[x]
        /\ opera'.room[r] = [status |-> s, occupied |-> occ]
    BY <1>2, <2>1
  <2> QED
    BY <1>1, <1>2, <1>5, <2>2, AnswerCalm DEF q, r
<1>6. CASE q.op = "status" /\ OperaSets(q) /\ Answered(c, None, opera'.room[r])
  <2> DEFINE occ == opera.room[r].occupied
  <2>1. occ \in BOOLEAN /\ q.status \in Statuses /\ opera' = OperaRoom(r, q.status, occ)
    BY <1>2, <1>6 DEF OperaSets, Room, Requests, r
  <2>2. opera'.room[r] = [status |-> q.status, occupied |-> occ]
    BY <1>2, <2>1 DEF OperaRoom, OperaState
  <2>3. [status |-> q.status, occupied |-> occ].occupied = occ
    OBVIOUS
  <2>4. [status |-> q.status, occupied |-> occ] \in Room
    BY <2>1 DEF Room
  <2>5. \A x \in Requests : x.op = q.op /\ x.ans = opera'.room[r] =>
          IsCopy(x, opera'.out[None].at, opera.room[r], [status |-> q.status, occupied |-> occ])
    BY <1>6, <2>2, <2>3 DEF IsCopy
  <2> QED
    BY <1>5, <1>6, <2>1, <2>2, <2>4, <2>5
<1>7. CASE q.op = "checkIn" /\ OperaChecksIn(q) /\ Answered(c, None, q.ans)
  <2> DEFINE s == opera.room[r].status
  <2>1. s \in Statuses /\ ~ opera.room[r].occupied /\ opera' = OperaRoom(r, s, TRUE)
    BY <1>2, <1>7 DEF OperaChecksIn, Room, r
  <2>2. [opera.room[r] EXCEPT !.occupied = TRUE] = [status |-> s, occupied |-> TRUE]
    <3>1. opera.room[r] \in Room
      BY <1>2
    <3> QED
      BY <3>1, OccupiedUpdate
  <2>3. \A x \in Requests : x.op = q.op =>
          IsCopy(x, opera'.out[None].at, opera.room[r], [status |-> s, occupied |-> TRUE])
    BY <1>7, <2>1, <2>2 DEF IsCopy
  <2> QED
    BY <1>2, <1>5, <1>7, <2>1, <2>3
<1>8. CASE q.op = "checkOut" /\ OperaChecksOut(q) /\ Answered(c, None, q.ans)
  <2>1. opera' = OperaRoom(r, "DIRTY", FALSE) /\ "DIRTY" \in Statuses
    BY <1>8 DEF OperaChecksOut, Statuses, r
  <2>2. \A x \in Requests : x.op = q.op =>
          IsCopy(x, opera'.out[None].at, opera.room[r], [status |-> "DIRTY", occupied |-> FALSE])
    BY <1>8 DEF IsCopy
  <2> QED
    BY <1>2, <1>5, <1>8, <2>1, <2>2
<1> QED
  BY <1>3, <1>4, <1>6, <1>7, <1>8 DEF CoreAnswers, q, r

(* What is written makes our rooms OPERA's again.                          *)
LEMMA WritesCalm ==
  ASSUME RoomsInv, CalmInv, NEW c \in Clerks,
         WriteOut(c) \/ WriteRelease(c) \/ WriteStatus(c) \/ WriteIn(c) \/ WriteLeft(c)
  PROVE  CalmInv'
<1> SUFFICES ASSUME calm' PROVE CalmInv'
  BY DEF CalmInv
<1> DEFINE q == req[c]
           r == q.room
           at == opera.out[q.id].at
<1>1. At(c, "write") /\ calm /\ opera' = opera /\ req' = [req EXCEPT ![c] = Idle]
  BY DEF WriteOut, WriteRelease, WriteStatus, WriteIn, WriteLeft, Keeps, Ends
<1>2. /\ q \in Requests /\ r \in Rooms /\ opera.room \in [Rooms -> Room]
      /\ room \in [Rooms -> Room] /\ stay \in [Guests -> Stay]
      /\ q.op \in {"checkIn", "checkOut"} => q.guest \in Guests
  BY <1>1, HoldsIsInv DEF RoomsInv, TypeOK, OperaState, Holds, At
<1>3. /\ Working(q, stay, room, opera) /\ \A d \in Clerks : d # c => At(d, "idle")
      /\ Alone(stay) /\ Marked(stay, room)
  BY <1>1 DEF CalmInv, At
<1>4. /\ \A x \in Rooms : x # r => room[x] = opera.room[x]
      /\ IsCopy(q, at, room[r], opera.room[r])
  BY <1>1, <1>3 DEF Working, At
<1> HIDE DEF q, r, at
<1>5. ASSUME room' = [room EXCEPT ![r] = opera.room[r]] PROVE room' = opera'.room
  BY <1>1, <1>2, <1>4, <1>5
<1>6. ASSUME room' = [room EXCEPT ![r] = opera.room[r]], Alone(stay'), Marked(stay', room')
      PROVE  CalmInv'
  BY <1>1, <1>3, <1>5, <1>6, CalmStep, IdleIsRequest DEF Idle
<1>7. ASSUME room' = [room EXCEPT ![r] = opera.room[r]], stay' = stay,
             opera.room[r].occupied = room[r].occupied
      PROVE  CalmInv'
  <2>1. \A x \in Rooms : room'[x].occupied = room[x].occupied
    BY <1>2, <1>7
  <2> QED
    BY <1>3, <1>6, <1>7, <2>1 DEF Marked
<1>8. CASE WriteOut(c)
  <2>1. q.op = "out" /\ stay' = stay
        /\ room' = IF Tonight(at) THEN [room EXCEPT ![r].status = "OUT"] ELSE room
    BY <1>8 DEF WriteOut, Dates, q, r, at
  <2>2. room' = [room EXCEPT ![r] = opera.room[r]] /\ opera.room[r].occupied = room[r].occupied
    BY <1>2, <1>4, <2>1 DEF IsCopy, Room
  <2> QED
    BY <1>7, <2>1, <2>2
<1>9. CASE WriteRelease(c)
  <2>1. q.op = "release" /\ stay' = stay
        /\ room' = IF Tonight(at) THEN [room EXCEPT ![r].status = at.back] ELSE room
    BY <1>9 DEF WriteRelease, Dates, q, r, at
  <2>2. room' = [room EXCEPT ![r] = opera.room[r]] /\ opera.room[r].occupied = room[r].occupied
    BY <1>2, <1>4, <2>1 DEF IsCopy, Room
  <2> QED
    BY <1>7, <2>1, <2>2
<1>10. CASE WriteStatus(c)
  <2>1. q.op = "status" /\ stay' = stay
    BY <1>10 DEF WriteStatus, q
  <2>2. opera.room[r] = q.ans /\ opera.room[r].occupied = room[r].occupied
    BY <1>4, <2>1 DEF IsCopy
  <2>3. PICK occ \in {room[r].occupied, q.ans.occupied} :
          room' = [room EXCEPT ![r] = [status |-> q.ans.status, occupied |-> occ]]
    BY <1>10 DEF WriteStatus, q, r
  <2>4. [status |-> q.ans.status, occupied |-> occ] = opera.room[r]
    BY <1>2, <2>2, <2>3 DEF Room
  <2> QED
    BY <1>7, <2>1, <2>2, <2>3, <2>4
<1>11. CASE WriteIn(c)
  <2>1. /\ q.op = "checkIn" /\ room' = [room EXCEPT ![r].occupied = TRUE]
        /\ stay' = [stay EXCEPT ![q.guest] =
                      [stay[q.guest] EXCEPT !.room = r, !.st = "IN_HOUSE"]]
    BY <1>11 DEF WriteIn, q, r
  <2>2. /\ opera.room[r] = [room[r] EXCEPT !.occupied = TRUE] /\ ~ room[r].occupied
        /\ stay[q.guest].st = "RESERVED" /\ q.guest \in Guests
    BY <1>2, <1>3, <1>4, <2>1 DEF IsCopy, Working
  <2>3. /\ room' = [room EXCEPT ![r] = opera.room[r]]
        /\ room'[r].occupied /\ \A x \in Rooms : x # r => room'[x] = room[x]
    BY <1>2, <2>1, <2>2 DEF Room
  <2>4. /\ stay'[q.guest].st = "IN_HOUSE" /\ stay'[q.guest].room = r
        /\ \A x \in Guests : x # q.guest => stay'[x] = stay[x]
    BY <1>2, <2>1, <2>2 DEF Stay
  <2>5. \A x \in Guests : stay[x].st = "IN_HOUSE" => stay[x].room # r
    BY <1>2, <1>3, <2>2 DEF Marked
  <2>6. Alone(stay')
    BY <1>3, <2>4, <2>5 DEF Alone
  <2>7. Marked(stay', room')
    BY <1>3, <2>2, <2>3, <2>4 DEF Marked
  <2> QED
    BY <1>6, <2>3, <2>6, <2>7
<1>12. CASE WriteLeft(c)
  <2>1. /\ q.op = "checkOut"
        /\ room' = [room EXCEPT ![r] = [status |-> "DIRTY", occupied |-> FALSE]]
        /\ stay' = [stay EXCEPT ![q.guest].st = "LEFT"]
    BY <1>12 DEF WriteLeft, Vacated, q, r
  <2>2. /\ opera.room[r] = [status |-> "DIRTY", occupied |-> FALSE]
        /\ stay[q.guest].st = "IN_HOUSE" /\ stay[q.guest].room = r /\ q.guest \in Guests
    <3>1. opera.room[r] = [status |-> "DIRTY", occupied |-> FALSE]
      BY <1>4, <2>1 DEF IsCopy
    <3>2. stay[q.guest].st = "IN_HOUSE" /\ stay[q.guest].room = r
      BY <1>3, <2>1 DEF Working, r
    <3> QED
      BY <1>2, <2>1, <3>1, <3>2
  <2>3. /\ room' = [room EXCEPT ![r] = opera.room[r]]
        /\ ~ room'[r].occupied /\ \A x \in Rooms : x # r => room'[x] = room[x]
    BY <1>2, <2>1, <2>2
  <2>4. /\ stay'[q.guest].st = "LEFT"
        /\ \A x \in Guests : x # q.guest => stay'[x] = stay[x]
    BY <1>2, <2>1, <2>2 DEF Stay
  <2>5. \A x \in Guests : x # q.guest /\ stay[x].st = "IN_HOUSE" => stay[x].room # r
    BY <1>3, <2>2 DEF Alone
  <2>6. Alone(stay')
    BY <1>3, <2>4 DEF Alone
  <2>7. Marked(stay', room')
    BY <1>3, <2>2, <2>3, <2>4, <2>5 DEF Marked
  <2> QED
    BY <1>6, <2>3, <2>6, <2>7
<1> QED
  BY <1>8, <1>9, <1>10, <1>11, <1>12

LEMMA CalmNext ==
  ASSUME RoomsInv, RoomsInv', CalmInv, [Next]_vars
  PROVE  CalmInv'
<1>1. CASE UNCHANGED vars
  BY <1>1 DEF vars, CalmInv, Quiet, At
<1>2. ASSUME NEW c \in Clerks, Dies(c) PROVE CalmInv'
  BY <1>2 DEF Dies, CalmInv
<1>3. ASSUME NEW c \in Clerks, CoreRefuses(c) PROVE CalmInv'
  <2> SUFFICES ASSUME calm' PROVE CalmInv'
    BY DEF CalmInv
  <2>1. calm /\ At(c, "core") /\ req' = [req EXCEPT ![c] = Idle] /\ UNCHANGED <<opera, room, stay>>
    BY <1>3 DEF CoreRefuses, Ends
  <2>2. /\ room' = opera'.room /\ Alone(stay') /\ Marked(stay', room')
        /\ \A d \in Clerks : d # c => At(d, "idle")
    BY <2>1, AtCore
  <2> QED
    BY <2>1, <2>2, CalmStep, IdleIsRequest DEF Idle
<1>4. CASE Next
  <2>1. PICK c \in Clerks :
          \/ \/ \E g \in Range : g.room # None /\ g.back \in Backs /\ StartOut(c, g)
             \/ \E o \in Outages : StartRelease(c, o)
             \/ \E r \in Rooms : \E s \in Statuses : StartStatus(c, r, s)
             \/ \E x \in Guests : \E r \in Rooms : StartCheckIn(c, x, r)
             \/ \E x \in Guests : StartCheckOut(c, x)
          \/ CoreAnswers(c) \/ CoreRefuses(c) \/ Dies(c)
          \/ WriteOut(c) \/ WriteRelease(c) \/ WriteStatus(c) \/ WriteIn(c) \/ WriteLeft(c)
    BY <1>4 DEF Next, Moves
  <2> QED
    BY <1>2, <1>3, <2>1, StartsCalm, CoreAnswersCalm, WritesCalm
<1> QED
  BY <1>1, <1>4

(* While requests do not overlap and nothing fails, a room has the status  *)
(* and occupancy OPERA gives it, whichever writer wrote last, and is       *)
(* occupied by exactly the guest in house (updateRoomStatus, checkIn,      *)
(* checkOut, create, release, findDiscrepancies).                          *)
THEOREM RoomsAgreeAlways == Spec => []RoomsAgree
<1>1. Init => CalmInv
  <2> SUFFICES ASSUME Init PROVE CalmInv
    OBVIOUS
  <2>1. room = opera.room
    BY DEF Init
  <2>2. \A x \in Guests : stay[x].st = "RESERVED"
    BY DEF Init
  <2>3. \A r \in Rooms : ~ room[r].occupied
    BY DEF Init
  <2>4. Alone(stay) /\ Marked(stay, room)
    BY <2>2, <2>3 DEF Alone, Marked
  <2>5. Quiet
    BY DEF Init, Quiet, At, Idle
  <2> QED
    BY <2>1, <2>4, <2>5 DEF CalmInv, Quiet
<1>2. RoomsInv /\ RoomsInv' /\ CalmInv /\ [Next]_vars => CalmInv'
  BY CalmNext
<1>3. RoomsInv /\ CalmInv => RoomsAgree
  <2> SUFFICES ASSUME RoomsInv, CalmInv PROVE RoomsAgree
    OBVIOUS
  <2>1. StatusFollowsOpera
    BY DEF CalmInv, StatusFollowsOpera
  <2>2. \A r \in Rooms : room[r].occupied \in BOOLEAN
    BY DEF RoomsInv, TypeOK, Room
  <2>3. ASSUME calm, NEW r \in Rooms PROVE room[r].occupied <=> InHouse(r)
    BY <2>3 DEF CalmInv, Marked, InHouse
  <2>4. NoDiscrepancy
    BY <2>2, <2>3 DEF NoDiscrepancy, Discrepancies, InHouse
  <2> QED
    BY <2>1, <2>4 DEF RoomsAgree
<1> QED
  BY <1>1, <1>2, <1>3, RoomsInvariant, PTL DEF Spec

=============================================================================
