------------------------------ MODULE FrontDesk ------------------------------
(***************************************************************************)
(* Check-in, check-out and room keys: src/reservations/reservations.       *)
(* service.ts, src/doorlock/doorlock.service.ts, and the pull of           *)
(* src/sync/sync.service.ts, which writes the same reservation rows.       *)
(*                                                                         *)
(* OPERA says who stays where, the lock vendor says which card opens what, *)
(* and our database copies both.  A request reads, kills cards one by one, *)
(* calls OPERA or the encoder and writes; requests of several clerks       *)
(* interleave at every await.                                              *)
(*                                                                         *)
(* Left out: the folios check-out asks for and closes, the validity hours  *)
(* of a card (guests may leave before they end), the sync log, bookings    *)
(* and housekeeping, which write some of these rows too.  What a request   *)
(* reads before its first call is read in one step.  RESERVED stands for   *)
(* RESERVED and CONFIRMED.                                                 *)
(***************************************************************************)
EXTENDS FiniteSets, Naturals

CONSTANTS
  Clerks,   \* clients with at most one request in flight each
  Guests,   \* reservations linked to OPERA
  Rooms,
  Cards,    \* cards the vendor can make (bounds issue)
  Sharing,  \* share groups, sets of guests
  Trouble,  \* the failures of the environment that may happen
  NoRoom, NoGuest, NoCard

(* "core": an answer of OPERA gets lost.  "vendor": a revocation fails, or *)
(* its answer gets lost.  "encoder": the answer of an encoding gets lost.  *)
(* "dies": the process, or one request's database call, fails.  "opera":   *)
(* OPERA's own desk moves and checks out guests.                           *)
Troubles == {"core", "vendor", "encoder", "dies", "opera"}

ASSUME DeskAssumption ==
  /\ Sharing \subseteq SUBSET Guests
  /\ Trouble \subseteq Troubles
  /\ NoRoom \notin Rooms
  /\ NoGuest \notin Guests
  /\ NoCard \notin Cards

VARIABLES
  stay,   \* our reservation rows
  room,   \* our room rows
  key,    \* our room key rows, by card
  opera,  \* OPERA's reservations
  lock,   \* what the vendor's cards open
  req     \* the request each clerk has in flight

vars == <<stay, room, key, opera, lock, req>>

Stay == [st : {"RESERVED", "IN_HOUSE", "CHECKED_OUT"}, room : Rooms \cup {NoRoom}]
Room == [occupied : BOOLEAN, status : {"CLEAN", "DIRTY", "OUT_OF_ORDER"}]
Key == [st : {"NONE", "ACTIVE", "REVOKED"}, guest : Guests \cup {NoGuest},
        room : Rooms \cup {NoRoom}]
NoKey == [st |-> "NONE", guest |-> NoGuest, room |-> NoRoom]
(* The vendor does not know the guest; the field says who was handed it.   *)
Lock == [st : {"blank", "opens", "dead"}, guest : Guests \cup {NoGuest},
         room : Rooms \cup {NoRoom}]
BlankCard == [st |-> "blank", guest |-> NoGuest, room |-> NoRoom]

(* The await a request will resume with; kill and mark are the two steps   *)
(* of one revocation, after which the request goes on to its next.         *)
Stages == {"idle", "list", "kill", "mark", "operaIn", "writeIn",
           "operaOut", "writeOut", "encode", "record", "writePull"}
Requests == [at : Stages, next : Stages, guest : Guests \cup {NoGuest},
             room : Rooms \cup {NoRoom}, found : SUBSET Cards, todo : SUBSET Cards,
             card : Cards \cup {NoCard}, answer : Stay]
NoStay == [st |-> "RESERVED", room |-> NoRoom]
Idle == [at |-> "idle", next |-> "idle", guest |-> NoGuest, room |-> NoRoom,
         found |-> {}, todo |-> {}, card |-> NoCard, answer |-> NoStay]

(* Arrivals of the day, some with a room already assigned.                 *)
Init ==
  /\ stay \in [Guests -> { s \in Stay : s.st = "RESERVED" }]
  /\ room \in [Rooms -> { r \in Room : ~ r.occupied }]
  /\ key = [k \in Cards |-> NoKey]
  /\ opera = stay
  /\ lock = [k \in Cards |-> BlankCard]
  /\ req = [c \in Clerks |-> Idle]

At(c, stage) == req[c].at = stage
Answer(c) == req' = [req EXCEPT ![c] = Idle]
Begin(c, stage, next, g, r) ==
  /\ At(c, "idle")
  /\ req' = [req EXCEPT ![c] =
       [Idle EXCEPT !.at = stage, !.next = next, !.guest = g, !.room = r]]

Together(g, h) == \E S \in Sharing : {g, h} \subseteq S

-----------------------------------------------------------------------------
(* Killing cards: revokeActive and revokeOne.                              *)

ActiveKeys(g) == { k \in Cards : key[k].st = "ACTIVE" /\ key[k].guest = g }

(* A request that has cards to kill, or goes on when there are none.       *)
GoOn(c, found, todo) ==
  LET next == req[c].next IN
  IF todo = {} /\ next = "idle" THEN Answer(c)
  ELSE req' = [req EXCEPT ![c] =
         [@ EXCEPT !.at = IF todo = {} THEN next ELSE "kill", !.found = found, !.todo = todo]]

ListKeys(c) ==
  /\ At(c, "list")
  /\ GoOn(c, ActiveKeys(req[c].guest), ActiveKeys(req[c].guest))
  /\ UNCHANGED <<stay, room, key, opera, lock>>

(* The vendor kills a card; killing a dead one succeeds.                   *)
Kills(k) == lock' = [lock EXCEPT ![k].st = "dead"]
VendorKills(c) ==
  /\ At(c, "kill")
  /\ \E k \in req[c].todo :
       /\ Kills(k)
       /\ req' = [req EXCEPT ![c] = [@ EXCEPT !.at = "mark", !.card = k]]
  /\ UNCHANGED <<stay, room, key, opera>>

(* A revocation that fails fails the request, whatever became of the card. *)
VendorFails_Swallowed(c) ==
  /\ At(c, "kill") /\ "vendor" \in Trouble
  /\ \E k \in req[c].todo :
       /\ Kills(k) \/ UNCHANGED lock
       /\ req' = [req EXCEPT ![c] = [@ EXCEPT !.at = "mark", !.card = k]]
  /\ UNCHANGED <<stay, room, key, opera>>
VendorFails(c) ==
  /\ At(c, "kill") /\ "vendor" \in Trouble
  /\ (\E k \in req[c].todo : Kills(k)) \/ UNCHANGED lock
  /\ Answer(c)
  /\ UNCHANGED <<stay, room, key, opera>>

MarkRevoked(c) ==
  LET r == req[c] IN
  /\ At(c, "mark")
  /\ key' = [key EXCEPT ![r.card].st = "REVOKED"]
  /\ GoOn(c, r.found, r.todo \ {r.card})
  /\ UNCHANGED <<stay, room, opera, lock>>

(* revoke: one card, on request.                                           *)
StartRevoke(c, k) ==
  /\ At(c, "idle")
  /\ key[k].st = "ACTIVE"
  /\ req' = [req EXCEPT ![c] =
       [Idle EXCEPT !.at = "kill", !.guest = key[k].guest, !.found = {k}, !.todo = {k}]]
  /\ UNCHANGED <<stay, room, key, opera, lock>>

-----------------------------------------------------------------------------
(* Check-in.                                                               *)

(* A room in use is given only to its own guest or to a share partner.     *)
MayTake(g, r) ==
  /\ ~ room[r].occupied \/ stay[g].room = r
       \/ \E h \in Guests \ {g} : Together(g, h) /\ stay[h].room = r
  /\ room[r].status # "OUT_OF_ORDER"

(* A change of room kills the cards of the old one first.                  *)
StartCheckIn(c, g, r) ==
  /\ stay[g].st = "RESERVED"
  /\ MayTake(g, r)
  /\ Begin(c, IF stay[g].room \in {NoRoom, r} THEN "operaIn" ELSE "list", "operaIn", g, r)
  /\ UNCHANGED <<stay, room, key, opera, lock>>

(* OPERA takes a guest in once and puts no strangers into one room; it may *)
(* confirm another room than the one asked for.                            *)
HouseRule(g, r) ==
  \A h \in Guests \ {g} : opera[h].st = "IN_HOUSE" /\ opera[h].room = r => Together(g, h)
OperaAdmits(g, r) ==
  /\ opera[g].st = "RESERVED"
  /\ HouseRule(g, r)
  /\ opera' = [opera EXCEPT ![g] = [st |-> "IN_HOUSE", room |-> r]]
OperaReleases(g) ==
  /\ opera[g].st = "IN_HOUSE"
  /\ opera' = [opera EXCEPT ![g].st = "CHECKED_OUT"]
Confirmed(c, stage) ==
  req' = [req EXCEPT ![c] = [@ EXCEPT !.at = stage, !.answer = opera'[req[c].guest]]]

OperaChecksIn(c) ==
  /\ At(c, "operaIn")
  /\ \E r \in Rooms : OperaAdmits(req[c].guest, r)
  /\ Confirmed(c, "writeIn")
  /\ UNCHANGED <<stay, room, key, lock>>

WriteIn_AsAsked(c) ==
  LET r == req[c] IN
  /\ At(c, "writeIn")
  /\ room' = [room EXCEPT ![r.room].occupied = TRUE]
  /\ stay' = [stay EXCEPT ![r.guest] = [st |-> r.answer.st, room |-> r.room]]
  /\ Answer(c)
  /\ UNCHANGED <<key, opera, lock>>
WriteIn(c) ==
  LET r == req[c] IN
  /\ At(c, "writeIn")
  /\ room' = [room EXCEPT ![r.answer.room].occupied = TRUE]
  /\ stay' = [stay EXCEPT ![r.guest] = r.answer]
  /\ Answer(c)
  /\ UNCHANGED <<key, opera, lock>>

-----------------------------------------------------------------------------
(* Check-out: no request that could not kill a card gets to OPERA.         *)

StartCheckOut_KeepsKeys(c, g) ==
  /\ stay[g].st = "IN_HOUSE"
  /\ Begin(c, "operaOut", "operaOut", g, stay[g].room)
  /\ UNCHANGED <<stay, room, key, opera, lock>>
StartCheckOut(c, g) ==
  /\ stay[g].st = "IN_HOUSE"
  /\ Begin(c, "list", "operaOut", g, stay[g].room)
  /\ UNCHANGED <<stay, room, key, opera, lock>>

OperaChecksOut(c) ==
  /\ At(c, "operaOut")
  /\ OperaReleases(req[c].guest)
  /\ Confirmed(c, "writeOut")
  /\ UNCHANGED <<stay, room, key, lock>>

Vacated(r) == [room EXCEPT ![r] = [occupied |-> FALSE, status |-> "DIRTY"]]
WriteOut(c) ==
  LET r == req[c] IN
  /\ At(c, "writeOut")
  /\ room' = IF r.room = NoRoom THEN room ELSE Vacated(r.room)
  /\ stay' = [stay EXCEPT ![r.guest].st = r.answer.st]
  /\ Answer(c)
  /\ UNCHANGED <<key, opera, lock>>

(* OPERA refuses: the request fails and nothing is written.                *)
OperaRefuses(c) ==
  /\ At(c, "operaIn") \/ At(c, "operaOut")
  /\ Answer(c)
  /\ UNCHANGED <<stay, room, key, opera, lock>>

(* OPERA did it, and its answer is lost.                                   *)
OperaSilent(c) ==
  /\ "core" \in Trouble
  /\ \/ At(c, "operaIn") /\ \E r \in Rooms : OperaAdmits(req[c].guest, r)
     \/ At(c, "operaOut") /\ OperaReleases(req[c].guest)
  /\ Answer(c)
  /\ UNCHANGED <<stay, room, key, lock>>

-----------------------------------------------------------------------------
(* Key issue: the cards the guest has are killed unless the new one is for *)
(* a companion.                                                            *)

MayIssue(g) == stay[g].st = "IN_HOUSE" /\ stay[g].room # NoRoom
StartIssue(c, g, stage) ==
  /\ MayIssue(g)
  /\ Begin(c, stage, "encode", g, stay[g].room)
  /\ UNCHANGED <<stay, room, key, opera, lock>>

Encodes(k, r) ==
  /\ lock[k].st = "blank"
  /\ lock' = [lock EXCEPT ![k] = [st |-> "opens", guest |-> r.guest, room |-> r.room]]
VendorEncodes(c) ==
  /\ At(c, "encode")
  /\ \E k \in Cards :
       /\ Encodes(k, req[c])
       /\ req' = [req EXCEPT ![c] = [@ EXCEPT !.at = "record", !.card = k]]
  /\ UNCHANGED <<stay, room, key, opera>>

EncoderRefuses(c) ==
  /\ At(c, "encode")
  /\ Answer(c)
  /\ UNCHANGED <<stay, room, key, opera, lock>>
EncoderSilent(c) ==
  /\ At(c, "encode") /\ "encoder" \in Trouble
  /\ \E k \in Cards : Encodes(k, req[c])
  /\ Answer(c)
  /\ UNCHANGED <<stay, room, key, opera>>

RecordKey(c) ==
  LET r == req[c] IN
  /\ At(c, "record")
  /\ key' = [key EXCEPT ![r.card] = [st |-> "ACTIVE", guest |-> r.guest, room |-> r.room]]
  /\ Answer(c)
  /\ UNCHANGED <<stay, room, opera, lock>>

-----------------------------------------------------------------------------
(* The pull copies status and room of a reservation, and nothing else.     *)
StartPull(c, g) ==
  /\ At(c, "idle")
  /\ req' = [req EXCEPT ![c] =
       [Idle EXCEPT !.at = "writePull", !.guest = g, !.answer = opera[g]]]
  /\ UNCHANGED <<stay, room, key, opera, lock>>
WritePull(c) ==
  /\ At(c, "writePull")
  /\ stay' = [stay EXCEPT ![req[c].guest] = req[c].answer]
  /\ Answer(c)
  /\ UNCHANGED <<room, key, opera, lock>>

-----------------------------------------------------------------------------
(* The environment.                                                        *)

Dies(c) ==
  /\ "dies" \in Trouble
  /\ ~ At(c, "idle")
  /\ Answer(c)
  /\ UNCHANGED <<stay, room, key, opera, lock>>

(* OPERA's own desk checks a guest in or out, or moves them.               *)
OperaDesk(g) ==
  /\ "opera" \in Trouble
  /\ \/ \E r \in Rooms : OperaAdmits(g, r)
     \/ OperaReleases(g)
     \/ /\ opera[g].st = "IN_HOUSE"
        /\ \E r \in Rooms : HouseRule(g, r) /\ opera' = [opera EXCEPT ![g].room = r]
  /\ UNCHANGED <<stay, room, key, lock, req>>

Starts(c) ==
  \/ \E k \in Cards : StartRevoke(c, k)
  \/ \E g \in Guests :
       \/ \E r \in Rooms : StartCheckIn(c, g, r)
       \/ StartCheckOut(c, g)
       \/ \E stage \in {"list", "encode"} : StartIssue(c, g, stage)
       \/ StartPull(c, g)

Resumes(c) ==
  \/ ListKeys(c) \/ VendorKills(c) \/ MarkRevoked(c)
  \/ OperaChecksIn(c) \/ WriteIn(c)
  \/ OperaChecksOut(c) \/ WriteOut(c) \/ OperaRefuses(c)
  \/ VendorEncodes(c) \/ EncoderRefuses(c) \/ RecordKey(c)
  \/ WritePull(c)

Fails(c) == VendorFails(c) \/ OperaSilent(c) \/ EncoderSilent(c) \/ Dies(c)

Next ==
  \/ \E c \in Clerks : Starts(c) \/ Resumes(c) \/ Fails(c)
  \/ \E g \in Guests : OperaDesk(g)

Spec == Init /\ [][Next]_vars

-----------------------------------------------------------------------------
(* Every variable keeps the values the code gives it.                      *)
TypeOK ==
  /\ stay \in [Guests -> Stay]
  /\ room \in [Rooms -> Room]
  /\ key \in [Cards -> Key]
  /\ opera \in [Guests -> Stay]
  /\ lock \in [Cards -> Lock]
  /\ req \in [Clerks -> Requests]

(* No card is recorded as dead while it opens a door (revokeOne: the       *)
(* vendor first, then the local row).                                      *)
RecordedDeadIsDead == \A k \in Cards : key[k].st = "REVOKED" => lock[k].st = "dead"

(* What had to be killed is dead before OPERA lets the guest go or into    *)
(* another room, and before a replacement is made: "a key we could not     *)
(* kill stops the check-out from happening at all" (checkOut).             *)
KilledBefore ==
  \A c \in Clerks :
    req[c].at \in {"operaIn", "operaOut", "encode", "writeIn", "writeOut", "record"} =>
      \A k \in req[c].found : lock[k].st = "dead"

(* A card on record is the one the vendor made, for that guest and room.   *)
RecordIsTheCard ==
  \A k \in Cards : key[k].st # "NONE" =>
    /\ lock[k].st # "blank"
    /\ key[k].guest = lock[k].guest /\ key[k].room = lock[k].room

(* What a request in flight may count on: the cards it listed are on       *)
(* record, the ones it is through with are dead, and so is the one it is   *)
(* about to mark; the card it is about to record is the one it asked for.  *)
RequestInv(c) ==
  LET r == req[c] IN
  /\ r.at # "idle" => r.guest \in Guests
  /\ r.next \in {"idle", "operaIn", "operaOut", "encode"}
  /\ r.todo \subseteq r.found
  /\ \A k \in r.found : key[k].st # "NONE"
  /\ r.at \in {"kill", "mark"} => \A k \in r.found \ r.todo : lock[k].st = "dead"
  /\ r.at = "mark" => r.card \in r.todo /\ lock[r.card].st = "dead"
  /\ r.at = "record" =>
       /\ r.card \in Cards
       /\ lock[r.card].st # "blank"
       /\ lock[r.card].guest = r.guest /\ lock[r.card].room = r.room

(* The inductive invariant: keys are recorded for guests, killed before    *)
(* they are marked, and marked before anything that counts on it (issue,   *)
(* revokeOne, checkOut).                                                   *)
DeskInv ==
  /\ TypeOK
  /\ RecordedDeadIsDead
  /\ KilledBefore
  /\ RecordIsTheCard
  /\ \A k \in Cards : key[k].st # "NONE" => key[k].guest \in Guests
  /\ \A c \in Clerks : RequestInv(c)

(* No card of a guest who left opens a door ("The departing guest's keys   *)
(* are always killed", checkOut).                                          *)
DepartedOpensNothing ==
  \A k \in Cards : lock[k].st = "opens" => opera[lock[k].guest].st # "CHECKED_OUT"

(* No card opens the room of somebody its holder does not share with.      *)
NoStrangerOpens ==
  \A k \in Cards, h \in Guests :
    lock[k].st = "opens" /\ opera[h].st = "IN_HOUSE" /\ opera[h].room = lock[k].room =>
      h = lock[k].guest \/ Together(h, lock[k].guest)

Quiet == \A c \in Clerks : At(c, "idle")

(* With no request in flight, every card that opens a door is on record,   *)
(* so that a check-out will find it.                                       *)
LiveCardIsOnRecord ==
  Quiet => \A k \in Cards : lock[k].st = "opens" => key[k].st = "ACTIVE"

(* With no request in flight, a room marked occupied has a guest in it;    *)
(* and a guest in a room that is not marked shared it with one who left:   *)
(* check-out vacates the room under the partner who stays.                 *)
InHouse(g, r) == stay[g] = [st |-> "IN_HOUSE", room |-> r]
PartnerLeft(g, r) ==
  \E h \in Guests \ {g} : Together(g, h) /\ stay[h] = [st |-> "CHECKED_OUT", room |-> r]
RoomsAreMarked ==
  Quiet => \A r \in Rooms :
    IF room[r].occupied THEN \E g \in Guests : InHouse(g, r)
    ELSE \A g \in Guests : InHouse(g, r) => PartnerLeft(g, r)

(* With no request in flight, our reservations say what OPERA's say.       *)
StaysFollowOpera == Quiet => stay = opera

=============================================================================
