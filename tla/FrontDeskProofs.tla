--------------------------- MODULE FrontDeskProofs ---------------------------
(***************************************************************************)
(* Proofs about FrontDesk and DeskHistory, for every number of clerks,     *)
(* guests, rooms and cards, all share groups and every combination of      *)
(* failures.                                                               *)
(***************************************************************************)
EXTENDS DeskHistory, FiniteSetTheorems, TLAPS

(* A clerk without a request is a value of the request table.              *)
LEMMA IdleIsRequest == Idle \in Requests
BY DEF Idle, Requests, Stages, NoStay, Stay

(* The invariant holds before the first request.                           *)
LEMMA InitInv == Init => DeskInv
<1> SUFFICES ASSUME Init PROVE DeskInv
  OBVIOUS
<1> USE DEF Init
<1>1. TypeOK
  <2>1. NoKey \in Key /\ BlankCard \in Lock
    BY DEF NoKey, Key, BlankCard, Lock
  <2>2. key \in [Cards -> Key] /\ lock \in [Cards -> Lock]
    BY <2>1
  <2>3. stay \in [Guests -> Stay] /\ opera \in [Guests -> Stay] /\ room \in [Rooms -> Room]
    OBVIOUS
  <2> QED
    BY <2>2, <2>3, IdleIsRequest DEF TypeOK
<1>2. \A k \in Cards : key[k].st = "NONE"
  BY DEF NoKey
<1>3. \A c \in Clerks : RequestInv(c)
  BY DEF RequestInv, Idle
<1> QED
  BY <1>1, <1>2, <1>3 DEF DeskInv, RecordedDeadIsDead, KilledBefore, RecordIsTheCard, Idle

-----------------------------------------------------------------------------
(* What one request asks of the keys and cards.                            *)
Holds(q, keys, locks) ==
  /\ q.at # "idle" => q.guest \in Guests
  /\ q.next \in {"idle", "operaIn", "operaOut", "encode"}
  /\ q.todo \subseteq q.found
  /\ \A k \in q.found : keys[k].st # "NONE"
  /\ q.at \in {"kill", "mark"} => \A k \in q.found \ q.todo : locks[k].st = "dead"
  /\ q.at = "mark" => q.card \in q.todo /\ locks[q.card].st = "dead"
  /\ q.at = "record" =>
       /\ q.card \in Cards
       /\ locks[q.card].st # "blank"
       /\ locks[q.card].guest = q.guest /\ locks[q.card].room = q.room
  /\ q.at \in {"operaIn", "operaOut", "encode", "writeIn", "writeOut", "record"} =>
       \A k \in q.found : locks[k].st = "dead"

(* Keys are never taken off the record, a dead card stays dead, and a card *)
(* that was made stays what it was made.                                   *)
Onward(keys, locks, keys2, locks2) ==
  \A k \in Cards :
    /\ keys[k].st # "NONE" => keys2[k].st # "NONE"
    /\ locks[k].st = "dead" => locks2[k].st = "dead"
    /\ locks[k].st # "blank" =>
         /\ locks2[k].st # "blank"
         /\ locks2[k].guest = locks[k].guest /\ locks2[k].room = locks[k].room

(* The requests' part of the invariant, request by request.                *)
LEMMA HoldsIsInv ==
  (\A c \in Clerks : RequestInv(c)) /\ KilledBefore
    <=> \A c \in Clerks : Holds(req[c], key, lock)
BY DEF RequestInv, KilledBefore, Holds

(* What a request counts on survives the steps of all the others.          *)
LEMMA HoldsOnward ==
  ASSUME NEW q \in Requests, NEW keys, NEW locks, NEW keys2, NEW locks2,
         Holds(q, keys, locks), Onward(keys, locks, keys2, locks2)
  PROVE  Holds(q, keys2, locks2)
<1>1. q.found \subseteq Cards /\ q.todo \subseteq q.found
  BY DEF Requests, Holds
<1> QED
  BY <1>1 DEF Holds, Onward

(* A step of one request preserves the invariant when it moves keys and    *)
(* cards onward, leaves a sound record, and counts on what is so.          *)
LEMMA RequestStep ==
  ASSUME DeskInv, NEW c \in Clerks, NEW q \in Requests,
         req' = [req EXCEPT ![c] = q],
         Holds(q, key', lock'),
         Onward(key, lock, key', lock'),
         stay' \in [Guests -> Stay], room' \in [Rooms -> Room], opera' \in [Guests -> Stay],
         key' \in [Cards -> Key], lock' \in [Cards -> Lock],
         RecordedDeadIsDead', RecordIsTheCard',
         \A k \in Cards : key'[k].st # "NONE" => key'[k].guest \in Guests
  PROVE  DeskInv'
<1>1. req \in [Clerks -> Requests] /\ req' \in [Clerks -> Requests]
  BY DEF DeskInv, TypeOK
<1>2. req'[c] = q /\ \A d \in Clerks \ {c} : req'[d] = req[d]
  BY <1>1
<1>3. \A d \in Clerks : Holds(req[d], key, lock)
  BY HoldsIsInv DEF DeskInv
<1>4. ASSUME NEW d \in Clerks PROVE Holds(req'[d], key', lock')
  <2>1. CASE d = c
    BY <1>2, <2>1
  <2>2. CASE d # c
    <3>1. req'[d] = req[d] /\ req[d] \in Requests /\ Holds(req[d], key, lock)
      BY <1>1, <1>2, <1>3, <2>2
    <3> QED
      BY <3>1, HoldsOnward
  <2> QED
    BY <2>1, <2>2
<1>5. (\A d \in Clerks : RequestInv(d))' /\ KilledBefore'
  BY <1>4 DEF RequestInv, KilledBefore, Holds
<1>6. TypeOK'
  BY <1>1 DEF TypeOK
<1> QED
  BY <1>5, <1>6 DEF DeskInv

(* A step of one request that touches neither keys nor cards.              *)
LEMMA DeskStep ==
  ASSUME DeskInv, NEW c \in Clerks, NEW q \in Requests,
         req' = [req EXCEPT ![c] = q],
         Holds(q, key, lock),
         stay' \in [Guests -> Stay], room' \in [Rooms -> Room], opera' \in [Guests -> Stay],
         UNCHANGED <<key, lock>>
  PROVE  DeskInv'
<1>1. Onward(key, lock, key', lock')
  BY DEF Onward
<1>2. RecordedDeadIsDead' /\ RecordIsTheCard'
  BY DEF DeskInv, RecordedDeadIsDead, RecordIsTheCard
<1>3. key' \in [Cards -> Key] /\ lock' \in [Cards -> Lock]
  BY DEF DeskInv, TypeOK
<1>4. Holds(q, key', lock')
  OBVIOUS
<1>5. \A k \in Cards : key'[k].st # "NONE" => key'[k].guest \in Guests
  BY DEF DeskInv
<1> QED
  BY <1>1, <1>2, <1>3, <1>4, <1>5, RequestStep

(* Nothing is asked of a clerk without a request.                          *)
LEMMA IdleHolds == \A keys, locks : Holds(Idle, keys, locks)
BY DEF Holds, Idle

(* A request that ends, with whatever it wrote into rows and OPERA.        *)
LEMMA AnswerStep ==
  ASSUME DeskInv, NEW c \in Clerks, Answer(c),
         stay' \in [Guests -> Stay], room' \in [Rooms -> Room], opera' \in [Guests -> Stay],
         UNCHANGED <<key, lock>>
  PROVE  DeskInv'
BY DeskStep, IdleHolds, IdleIsRequest DEF Answer

(* What the invariant says of one request, as Holds has it.                *)
LEMMA HeldNow ==
  ASSUME DeskInv, NEW c \in Clerks
  PROVE  /\ Holds(req[c], key, lock)
         /\ req[c] \in Requests
         /\ stay \in [Guests -> Stay] /\ room \in [Rooms -> Room]
         /\ opera \in [Guests -> Stay]
         /\ key \in [Cards -> Key] /\ lock \in [Cards -> Lock]
BY HoldsIsInv DEF DeskInv, TypeOK

(* A request that begins without having listed a card.                     *)
LEMMA BeginStep ==
  ASSUME DeskInv, NEW c \in Clerks, NEW g \in Guests, NEW r \in Rooms \cup {NoRoom},
         NEW stage \in {"list", "operaIn", "operaOut", "encode"},
         NEW next \in {"operaIn", "operaOut", "encode"},
         Begin(c, stage, next, g, r),
         UNCHANGED <<stay, room, key, opera, lock>>
  PROVE  DeskInv'
<1> DEFINE q == [Idle EXCEPT !.at = stage, !.next = next, !.guest = g, !.room = r]
<1>1. q \in Requests
  BY IdleIsRequest DEF Requests, Stages
<1>2. /\ q.at = stage /\ q.next = next /\ q.guest = g
      /\ q.found = {} /\ q.todo = {}
  BY DEF Idle
<1>3. req' = [req EXCEPT ![c] = q]
  BY DEF Begin
<1> HIDE DEF q
<1>4. Holds(q, key, lock)
  BY <1>2 DEF Holds
<1> QED
  BY <1>1, <1>3, <1>4, DeskStep, HeldNow

(* Every request that begins.                                              *)
LEMMA StartsInv == ASSUME DeskInv, NEW c \in Clerks, Starts(c) PROVE DeskInv'
<1>1. ASSUME NEW k \in Cards, StartRevoke(c, k) PROVE DeskInv'
  <2> DEFINE q == [Idle EXCEPT !.at = "kill", !.guest = key[k].guest, !.found = {k}, !.todo = {k}]
  <2>1. key[k].st # "NONE" /\ key[k].guest \in Guests
    BY <1>1 DEF StartRevoke, DeskInv
  <2>2. q \in Requests
    BY <2>1, IdleIsRequest DEF Requests, Stages
  <2>3. /\ q.at = "kill" /\ q.next = "idle" /\ q.guest = key[k].guest
        /\ q.found = {k} /\ q.todo = {k}
    BY DEF Idle
  <2>4. req' = [req EXCEPT ![c] = q]
    BY <1>1 DEF StartRevoke
  <2> HIDE DEF q
  <2>5. Holds(q, key, lock)
    BY <2>1, <2>3 DEF Holds
  <2> QED
    BY <1>1, <2>2, <2>4, <2>5, DeskStep, HeldNow DEF StartRevoke
<1>2. ASSUME NEW g \in Guests, NEW r \in Rooms, StartCheckIn(c, g, r) PROVE DeskInv'
  BY <1>2, BeginStep DEF StartCheckIn
<1>3. ASSUME NEW g \in Guests PROVE stay[g].room \in Rooms \cup {NoRoom}
  BY HeldNow DEF Stay
<1>4. ASSUME NEW g \in Guests, StartCheckOut(c, g) PROVE DeskInv'
  BY <1>3, <1>4, BeginStep DEF StartCheckOut
<1>5. ASSUME NEW g \in Guests, NEW stage \in {"list", "encode"}, StartIssue(c, g, stage)
      PROVE DeskInv'
  BY <1>3, <1>5, BeginStep DEF StartIssue
<1>6. ASSUME NEW g \in Guests, StartPull(c, g) PROVE DeskInv'
  <2> DEFINE q == [Idle EXCEPT !.at = "writePull", !.guest = g, !.answer = opera[g]]
  <2>1. q \in Requests
    BY HeldNow, IdleIsRequest DEF Requests, Stages
  <2>2. q.at = "writePull" /\ q.next = "idle" /\ q.guest = g /\ q.found = {} /\ q.todo = {}
    BY DEF Idle
  <2>3. req' = [req EXCEPT ![c] = q]
    BY <1>6 DEF StartPull
  <2> HIDE DEF q
  <2>4. Holds(q, key, lock)
    BY <2>2 DEF Holds
  <2> QED
    BY <1>6, <2>1, <2>3, <2>4, DeskStep, HeldNow DEF StartPull
<1> QED
  BY <1>1, <1>2, <1>4, <1>5, <1>6 DEF Starts

-----------------------------------------------------------------------------
(* Killing cards.                                                          *)

(* Going on with the cards left to kill, when those no longer on the list  *)
(* are dead and all of them are on record.                                 *)
LEMMA GoOnHolds ==
  ASSUME DeskInv, NEW c \in Clerks, NEW keys, ~ At(c, "idle"),
         NEW found \in SUBSET Cards, NEW todo \in SUBSET found,
         \A k \in found : keys[k].st # "NONE",
         \A k \in found \ todo : lock[k].st = "dead",
         GoOn(c, found, todo)
  PROVE  \E q \in Requests : Holds(q, keys, lock) /\ req' = [req EXCEPT ![c] = q]
<1> USE HeldNow
<1>1. CASE todo = {} /\ req[c].next = "idle"
  BY <1>1, IdleHolds, IdleIsRequest DEF GoOn, Answer
<1>2. CASE ~ (todo = {} /\ req[c].next = "idle")
  <2> DEFINE stage == IF todo = {} THEN req[c].next ELSE "kill"
             q == [req[c] EXCEPT !.at = stage, !.found = found, !.todo = todo]
  <2>1. req' = [req EXCEPT ![c] = q]
    BY <1>2 DEF GoOn
  <2>2. req[c].next \in {"idle", "operaIn", "operaOut", "encode"} /\ req[c].guest \in Guests
    BY DEF Holds, At
  <2>3. stage \in {"operaIn", "operaOut", "encode", "kill"} /\ (stage # "kill" => todo = {})
    BY <1>2, <2>2
  <2>4. q \in Requests
    BY <2>3 DEF Requests, Stages
  <2>5. /\ q.at = stage /\ q.next = req[c].next /\ q.guest = req[c].guest
        /\ q.found = found /\ q.todo = todo
    BY DEF Requests
  <2> HIDE DEF q, stage
  <2>6. Holds(q, keys, lock)
    BY <2>2, <2>3, <2>5 DEF Holds
  <2> QED
    BY <2>1, <2>4, <2>6
<1> QED
  BY <1>1, <1>2

(* Listing the cards of a guest.                                           *)
LEMMA ListKeysInv == ASSUME DeskInv, NEW c \in Clerks, ListKeys(c) PROVE DeskInv'
<1> DEFINE found == ActiveKeys(req[c].guest)
<1>1. found \in SUBSET Cards /\ \A k \in found : key[k].st # "NONE"
  BY DEF ActiveKeys
<1>2. GoOn(c, found, found) /\ ~ At(c, "idle")
  BY DEF ListKeys, At
<1> HIDE DEF found
<1>3. PICK q \in Requests : Holds(q, key, lock) /\ req' = [req EXCEPT ![c] = q]
  BY <1>1, <1>2, GoOnHolds
<1> QED
  BY <1>3, DeskStep, HeldNow DEF ListKeys

(* A card on the list is on record, and what killing it does.              *)
LEMMA KillsCard ==
  ASSUME DeskInv, NEW c \in Clerks, NEW k \in req[c].todo, Kills(k)
  PROVE  /\ k \in Cards
         /\ lock' \in [Cards -> Lock]
         /\ lock'[k].st = "dead"
         /\ Onward(key, lock, key, lock')
<1>1. k \in Cards /\ key[k].st # "NONE"
  BY HeldNow DEF Holds, Requests
<1>2. lock[k].st # "blank"
  BY <1>1 DEF DeskInv, RecordIsTheCard
<1>3. lock' = [lock EXCEPT ![k].st = "dead"]
  BY DEF Kills
<1>4. lock \in [Cards -> Lock]
  BY HeldNow
<1>5. lock' \in [Cards -> Lock] /\ lock'[k].st = "dead"
  BY <1>1, <1>3, <1>4 DEF Lock
<1>6. \A j \in Cards : /\ lock'[j].guest = lock[j].guest /\ lock'[j].room = lock[j].room
                       /\ lock'[j].st = IF j = k THEN "dead" ELSE lock[j].st
  BY <1>1, <1>3, <1>4 DEF Lock
<1> QED
  BY <1>1, <1>2, <1>5, <1>6 DEF Onward

(* Killing moves cards onward, so the record stays sound.                  *)
LEMMA RecordOnward ==
  ASSUME DeskInv, Onward(key, lock, key, lock'), key' = key
  PROVE  RecordedDeadIsDead' /\ RecordIsTheCard'
<1>1. \A k \in Cards : key'[k] = key[k]
  OBVIOUS
<1>2. RecordedDeadIsDead'
  BY <1>1 DEF Onward, DeskInv, RecordedDeadIsDead
<1>3. RecordIsTheCard'
  BY <1>1 DEF Onward, DeskInv, RecordIsTheCard
<1> QED
  BY <1>2, <1>3

(* The vendor kills a card of the list.                                    *)
LEMMA VendorKillsInv == ASSUME DeskInv, NEW c \in Clerks, VendorKills(c) PROVE DeskInv'
<1>1. PICK k \in req[c].todo :
        /\ Kills(k)
        /\ req' = [req EXCEPT ![c] = [@ EXCEPT !.at = "mark", !.card = k]]
  BY DEF VendorKills
<1> DEFINE q == [req[c] EXCEPT !.at = "mark", !.card = k]
<1>2. /\ k \in Cards /\ lock' \in [Cards -> Lock] /\ lock'[k].st = "dead"
      /\ Onward(key, lock, key, lock')
  BY <1>1, KillsCard
<1>3. Holds(req[c], key, lock') /\ req[c].at = "kill" /\ req[c] \in Requests
  BY <1>2, HeldNow, HoldsOnward DEF VendorKills, At
<1>4. q \in Requests
  BY <1>2, <1>3 DEF Requests, Stages
<1>5. /\ q.at = "mark" /\ q.card = k /\ q.next = req[c].next /\ q.guest = req[c].guest
      /\ q.found = req[c].found /\ q.todo = req[c].todo
  BY <1>3 DEF Requests
<1>6. req' = [req EXCEPT ![c] = q]
  BY <1>1
<1> HIDE DEF q
<1>7. Holds(q, key, lock')
  BY <1>1, <1>2, <1>3, <1>5 DEF Holds
<1>8. UNCHANGED <<stay, room, key, opera>>
  BY DEF VendorKills
<1>9. RecordedDeadIsDead' /\ RecordIsTheCard'
  BY <1>2, <1>8, RecordOnward
<1> QED
  BY <1>2, <1>4, <1>6, <1>7, <1>8, <1>9, RequestStep, HeldNow DEF DeskInv

(* A request that ends, after which a card may be dead.                    *)
LEMMA VendorFailsInv == ASSUME DeskInv, NEW c \in Clerks, VendorFails(c) PROVE DeskInv'
<1>0. UNCHANGED <<stay, room, key, opera>> /\ Answer(c)
  BY DEF VendorFails
<1>1. CASE UNCHANGED lock
  BY <1>0, <1>1, AnswerStep, HeldNow
<1>2. CASE \E k \in req[c].todo : Kills(k)
  <2>1. lock' \in [Cards -> Lock] /\ Onward(key, lock, key, lock')
    BY <1>2, KillsCard
  <2>2. RecordedDeadIsDead' /\ RecordIsTheCard'
    BY <1>0, <2>1, RecordOnward
  <2> QED
    BY <1>0, <2>1, <2>2, RequestStep, HeldNow, IdleHolds, IdleIsRequest DEF Answer, DeskInv
<1> QED
  BY <1>1, <1>2 DEF VendorFails

(* The card killed last is marked as dead.                                 *)
LEMMA MarkRevokedInv == ASSUME DeskInv, NEW c \in Clerks, MarkRevoked(c) PROVE DeskInv'
<1> DEFINE k == req[c].card
           left == req[c].todo \ {k}
<1>0. Holds(req[c], key, lock) /\ req[c].at = "mark" /\ req[c] \in Requests
  BY HeldNow DEF MarkRevoked, At
<1>1. k \in req[c].todo /\ k \in Cards /\ lock[k].st = "dead" /\ key[k].st # "NONE"
  BY <1>0 DEF Holds, Requests
<1>2. /\ key' = [key EXCEPT ![k].st = "REVOKED"]
      /\ GoOn(c, req[c].found, left)
      /\ UNCHANGED <<stay, room, opera, lock>>
  BY DEF MarkRevoked
<1>3. key \in [Cards -> Key] /\ lock \in [Cards -> Lock]
  BY HeldNow
<1>4. key' \in [Cards -> Key]
  BY <1>1, <1>2, <1>3 DEF Key
<1>5. \A j \in Cards : /\ key'[j].guest = key[j].guest /\ key'[j].room = key[j].room
                       /\ key'[j].st = IF j = k THEN "REVOKED" ELSE key[j].st
  BY <1>1, <1>2, <1>3 DEF Key
<1>6. /\ req[c].found \in SUBSET Cards /\ left \in SUBSET req[c].found
      /\ \A j \in req[c].found : key'[j].st # "NONE"
      /\ \A j \in req[c].found \ left : lock[j].st = "dead"
  BY <1>0, <1>1, <1>5 DEF Holds, Requests
<1> HIDE DEF k, left
<1>7. PICK q \in Requests : Holds(q, key', lock) /\ req' = [req EXCEPT ![c] = q]
  BY <1>0, <1>2, <1>6, GoOnHolds DEF At
<1>8. Onward(key, lock, key', lock')
  BY <1>2, <1>5 DEF Onward
<1>9. RecordedDeadIsDead'
  BY <1>1, <1>2, <1>5 DEF DeskInv, RecordedDeadIsDead
<1>10. RecordIsTheCard' /\ \A j \in Cards : key'[j].st # "NONE" => key'[j].guest \in Guests
  BY <1>1, <1>2, <1>5 DEF DeskInv, RecordIsTheCard
<1>11. Holds(q, key', lock') /\ lock' \in [Cards -> Lock]
  BY <1>2, <1>3, <1>7
<1> QED
  BY <1>2, <1>4, <1>7, <1>8, <1>9, <1>10, <1>11, RequestStep, HeldNow

-----------------------------------------------------------------------------
(* Making cards.                                                           *)

(* Making a card moves cards onward: only a blank one can become one.      *)
LEMMA EncodesCard ==
  ASSUME DeskInv, NEW c \in Clerks, ~ At(c, "idle"), NEW k \in Cards, Encodes(k, req[c])
  PROVE  /\ lock' \in [Cards -> Lock]
         /\ Onward(key, lock, key, lock')
         /\ lock'[k] = [st |-> "opens", guest |-> req[c].guest, room |-> req[c].room]
<1>1. lock \in [Cards -> Lock] /\ req[c] \in Requests /\ req[c].guest \in Guests
  BY HeldNow DEF At, Holds
<1>2. [st |-> "opens", guest |-> req[c].guest, room |-> req[c].room] \in Lock
  BY <1>1 DEF Requests, Lock
<1>3. lock[k].st = "blank"
      /\ lock' = [lock EXCEPT ![k] = [st |-> "opens", guest |-> req[c].guest,
                                      room |-> req[c].room]]
  BY DEF Encodes
<1>4. \A j \in Cards \ {k} : lock'[j] = lock[j]
  BY <1>1, <1>3
<1>5. Onward(key, lock, key, lock')
  BY <1>3, <1>4 DEF Onward
<1> QED
  BY <1>1, <1>2, <1>3, <1>5

(* The encoder makes a card, and the request goes on to record it.         *)
LEMMA VendorEncodesInv == ASSUME DeskInv, NEW c \in Clerks, VendorEncodes(c) PROVE DeskInv'
<1>1. PICK k \in Cards :
        /\ Encodes(k, req[c])
        /\ req' = [req EXCEPT ![c] = [@ EXCEPT !.at = "record", !.card = k]]
  BY DEF VendorEncodes
<1> DEFINE q == [req[c] EXCEPT !.at = "record", !.card = k]
<1>2. /\ lock' \in [Cards -> Lock]
      /\ Onward(key, lock, key, lock')
      /\ lock'[k] = [st |-> "opens", guest |-> req[c].guest, room |-> req[c].room]
  BY <1>1, EncodesCard DEF VendorEncodes, At
<1>3. Holds(req[c], key, lock') /\ req[c].at = "encode" /\ req[c] \in Requests
  BY <1>2, HeldNow, HoldsOnward DEF VendorEncodes, At
<1>4. q \in Requests
  BY <1>3 DEF Requests, Stages
<1>5. /\ q.at = "record" /\ q.card = k /\ q.next = req[c].next /\ q.guest = req[c].guest
      /\ q.room = req[c].room /\ q.found = req[c].found /\ q.todo = req[c].todo
  BY <1>3 DEF Requests
<1>6. req' = [req EXCEPT ![c] = q]
  BY <1>1
<1> HIDE DEF q
<1>7. Holds(q, key, lock')
  BY <1>2, <1>3, <1>5 DEF Holds
<1>8. UNCHANGED <<stay, room, key, opera>>
  BY DEF VendorEncodes
<1>9. RecordedDeadIsDead' /\ RecordIsTheCard'
  BY <1>2, <1>8, RecordOnward
<1> QED
  BY <1>2, <1>4, <1>6, <1>7, <1>8, <1>9, RequestStep, HeldNow DEF DeskInv

(* A card is made, and the request ends without having recorded it.        *)
LEMMA EncoderSilentInv == ASSUME DeskInv, NEW c \in Clerks, EncoderSilent(c) PROVE DeskInv'
<1>1. UNCHANGED <<stay, room, key, opera>> /\ Answer(c) /\ ~ At(c, "idle")
  BY DEF EncoderSilent, At
<1>2. lock' \in [Cards -> Lock] /\ Onward(key, lock, key, lock')
  BY <1>1, EncodesCard DEF EncoderSilent
<1>3. RecordedDeadIsDead' /\ RecordIsTheCard'
  BY <1>1, <1>2, RecordOnward
<1> QED
  BY <1>1, <1>2, <1>3, RequestStep, HeldNow, IdleHolds, IdleIsRequest DEF Answer, DeskInv

(* The card made last goes on record.                                      *)
LEMMA RecordKeyInv == ASSUME DeskInv, NEW c \in Clerks, RecordKey(c) PROVE DeskInv'
<1> DEFINE k == req[c].card
           row == [st |-> "ACTIVE", guest |-> req[c].guest, room |-> req[c].room]
<1>0. Holds(req[c], key, lock) /\ req[c].at = "record" /\ req[c] \in Requests
  BY HeldNow DEF RecordKey, At
<1>1. /\ k \in Cards /\ lock[k].st # "blank"
      /\ lock[k].guest = req[c].guest /\ lock[k].room = req[c].room
      /\ req[c].guest \in Guests
  BY <1>0 DEF Holds
<1>2. /\ key' = [key EXCEPT ![k] = row]
      /\ Answer(c)
      /\ UNCHANGED <<stay, room, opera, lock>>
  BY DEF RecordKey
<1>3. key \in [Cards -> Key] /\ lock \in [Cards -> Lock]
  BY HeldNow
<1>4. row \in Key
  BY <1>0 DEF Requests, Key
<1>5. /\ key' \in [Cards -> Key]
      /\ key'[k] = row /\ \A j \in Cards \ {k} : key'[j] = key[j]
  BY <1>1, <1>2, <1>3, <1>4
<1>6. row.st = "ACTIVE" /\ row.guest = req[c].guest /\ row.room = req[c].room
  OBVIOUS
<1> HIDE DEF k, row
<1>7. Onward(key, lock, key', lock')
  BY <1>2, <1>5, <1>6 DEF Onward
<1>8. RecordedDeadIsDead'
  BY <1>2, <1>5, <1>6 DEF DeskInv, RecordedDeadIsDead
<1>9. RecordIsTheCard' /\ \A j \in Cards : key'[j].st # "NONE" => key'[j].guest \in Guests
  BY <1>1, <1>2, <1>5, <1>6 DEF DeskInv, RecordIsTheCard
<1>10. Holds(Idle, key', lock') /\ lock' \in [Cards -> Lock]
  BY <1>2, <1>3, IdleHolds
<1> QED
  BY <1>2, <1>5, <1>7, <1>8, <1>9, <1>10, RequestStep, HeldNow, IdleIsRequest DEF Answer

-----------------------------------------------------------------------------
(* OPERA's answers and what is written of them.                            *)

(* OPERA's reservations stay reservations.                                 *)
LEMMA OperaStays ==
  ASSUME DeskInv, NEW g \in Guests,
         \/ \E r \in Rooms : OperaAdmits(g, r)
         \/ OperaReleases(g)
         \/ \E r \in Rooms : opera' = [opera EXCEPT ![g].room = r]
  PROVE  opera' \in [Guests -> Stay]
BY DEF OperaAdmits, OperaReleases, Stay, DeskInv, TypeOK

(* A request goes on with OPERA's answer.                                  *)
LEMMA ConfirmedStep ==
  ASSUME DeskInv, NEW c \in Clerks, NEW stage \in {"writeIn", "writeOut"},
         req[c].at \in {"operaIn", "operaOut"},
         opera' \in [Guests -> Stay],
         Confirmed(c, stage), UNCHANGED <<stay, room, key, lock>>
  PROVE  DeskInv'
<1> DEFINE q == [req[c] EXCEPT !.at = stage, !.answer = opera'[req[c].guest]]
<1>1. Holds(req[c], key, lock) /\ req[c] \in Requests
  BY HeldNow
<1>2. req[c].guest \in Guests
  BY <1>1 DEF Holds
<1>3. q \in Requests
  BY <1>1, <1>2 DEF Requests, Stages
<1>4. /\ q.at = stage /\ q.next = req[c].next /\ q.guest = req[c].guest
      /\ q.found = req[c].found /\ q.todo = req[c].todo
  BY <1>1 DEF Requests
<1>5. req' = [req EXCEPT ![c] = q]
  BY DEF Confirmed
<1> HIDE DEF q
<1>6. Holds(q, key, lock)
  BY <1>1, <1>4 DEF Holds
<1> QED
  BY <1>3, <1>5, <1>6, DeskStep, HeldNow

(* OPERA checks a guest in.                                                *)
LEMMA OperaChecksInInv == ASSUME DeskInv, NEW c \in Clerks, OperaChecksIn(c) PROVE DeskInv'
<1>1. req[c].guest \in Guests /\ req[c].at = "operaIn"
  BY HeldNow DEF OperaChecksIn, At, Holds
<1>2. opera' \in [Guests -> Stay]
  BY <1>1, OperaStays DEF OperaChecksIn
<1> QED
  BY <1>1, <1>2, ConfirmedStep DEF OperaChecksIn

(* OPERA checks a guest out.                                               *)
LEMMA OperaChecksOutInv == ASSUME DeskInv, NEW c \in Clerks, OperaChecksOut(c) PROVE DeskInv'
<1>1. req[c].guest \in Guests /\ req[c].at = "operaOut"
  BY HeldNow DEF OperaChecksOut, At, Holds
<1>2. opera' \in [Guests -> Stay]
  BY <1>1, OperaStays DEF OperaChecksOut
<1> QED
  BY <1>1, <1>2, ConfirmedStep DEF OperaChecksOut

(* OPERA acts on a request, and its answer is lost.                        *)
LEMMA OperaSilentInv == ASSUME DeskInv, NEW c \in Clerks, OperaSilent(c) PROVE DeskInv'
<1>1. req[c].guest \in Guests
  BY HeldNow DEF OperaSilent, At, Holds
<1>2. opera' \in [Guests -> Stay]
  BY <1>1, OperaStays DEF OperaSilent
<1> QED
  BY <1>2, AnswerStep, HeldNow DEF OperaSilent

(* A check-in is written down.                                             *)
LEMMA WriteInInv == ASSUME DeskInv, NEW c \in Clerks, WriteIn(c) PROVE DeskInv'
<1>1. req[c].answer \in Stay
  BY HeldNow DEF Requests
<1>2. stay' \in [Guests -> Stay]
  BY <1>1, HeldNow DEF WriteIn
<1>3. room' \in [Rooms -> Room]
  BY HeldNow DEF WriteIn, Room
<1> QED
  BY <1>2, <1>3, AnswerStep, HeldNow DEF WriteIn

(* A check-out is written down.                                            *)
LEMMA WriteOutInv == ASSUME DeskInv, NEW c \in Clerks, WriteOut(c) PROVE DeskInv'
<1>1. req[c].answer \in Stay
  BY HeldNow DEF Requests
<1>2. stay' \in [Guests -> Stay]
  BY <1>1, HeldNow DEF WriteOut, Stay
<1>3. room' \in [Rooms -> Room]
  BY HeldNow DEF WriteOut, Vacated, Room
<1> QED
  BY <1>2, <1>3, AnswerStep, HeldNow DEF WriteOut

(* A pull is written down.                                                 *)
LEMMA WritePullInv == ASSUME DeskInv, NEW c \in Clerks, WritePull(c) PROVE DeskInv'
<1>1. req[c].answer \in Stay
  BY HeldNow DEF Requests
<1>2. stay' \in [Guests -> Stay]
  BY <1>1, HeldNow DEF WritePull
<1> QED
  BY <1>2, AnswerStep, HeldNow DEF WritePull

(* OPERA's own desk leaves our side alone.                                 *)
LEMMA OperaDeskInv == ASSUME DeskInv, NEW g \in Guests, OperaDesk(g) PROVE DeskInv'
<1>1. opera' \in [Guests -> Stay]
  BY OperaStays DEF OperaDesk
<1>2. UNCHANGED <<stay, room, key, lock, req>>
  BY DEF OperaDesk
<1> QED
  BY <1>1, <1>2 DEF DeskInv, TypeOK, RecordedDeadIsDead, KilledBefore, RecordIsTheCard, RequestInv

-----------------------------------------------------------------------------
(* Every step of the desk, of OPERA and of the vendor keeps the invariant. *)
LEMMA NextInv == DeskInv /\ [Next]_vars => DeskInv'
<1> SUFFICES ASSUME DeskInv, [Next]_vars PROVE DeskInv'
  OBVIOUS
<1>1. CASE UNCHANGED vars
  BY <1>1 DEF vars, DeskInv, TypeOK, RecordedDeadIsDead, KilledBefore, RecordIsTheCard, RequestInv
<1>2. ASSUME NEW g \in Guests, OperaDesk(g) PROVE DeskInv'
  BY <1>2, OperaDeskInv
<1>3. ASSUME NEW c \in Clerks, Starts(c) PROVE DeskInv'
  BY <1>3, StartsInv
<1>4. ASSUME NEW c \in Clerks, OperaRefuses(c) \/ EncoderRefuses(c) \/ Dies(c) PROVE DeskInv'
  BY <1>4, AnswerStep, HeldNow DEF OperaRefuses, EncoderRefuses, Dies
<1>5. ASSUME NEW c \in Clerks, Resumes(c) PROVE DeskInv'
  BY <1>4, <1>5, ListKeysInv, VendorKillsInv, MarkRevokedInv, OperaChecksInInv, WriteInInv,
     OperaChecksOutInv, WriteOutInv, VendorEncodesInv, RecordKeyInv, WritePullInv DEF Resumes
<1>6. ASSUME NEW c \in Clerks, Fails(c) PROVE DeskInv'
  BY <1>4, <1>6, VendorFailsInv, OperaSilentInv, EncoderSilentInv DEF Fails
<1> QED
  BY <1>1, <1>2, <1>3, <1>5, <1>6 DEF Next

(* What the key records and the cards say of each other, and what every    *)
(* request of check-in, check-out and issue may count on, holds always.    *)
THEOREM DeskInvariant == Spec => []DeskInv
<1>1. Init => DeskInv
  BY InitInv
<1>2. DeskInv /\ [Next]_vars => DeskInv'
  BY NextInv
<1> QED
  BY <1>1, <1>2, PTL DEF Spec

(* The tables of the front desk only ever hold values of their types.      *)
THEOREM DeskTypes == Spec => []TypeOK
<1>1. DeskInv => TypeOK
  BY DEF DeskInv
<1> QED
  BY <1>1, DeskInvariant, PTL

(* No card is recorded as dead while it opens a door, whatever fails.      *)
THEOREM NoCardOutlivesItsRecord == Spec => []RecordedDeadIsDead
<1>1. DeskInv => RecordedDeadIsDead
  BY DEF DeskInv
<1> QED
  BY <1>1, DeskInvariant, PTL

(* No request gets to OPERA or to the encoder before the cards it listed   *)
(* are dead, whatever fails and whoever else is at work.                   *)
THEOREM KilledFirst == Spec => []KilledBefore
<1>1. DeskInv => KilledBefore
  BY DEF DeskInv
<1> QED
  BY <1>1, DeskInvariant, PTL

(* Every card on record is a card the vendor made, for that guest and room.*)
THEOREM RecordsAreCards == Spec => []RecordIsTheCard
<1>1. DeskInv => RecordIsTheCard
  BY DEF DeskInv
<1> QED
  BY <1>1, DeskInvariant, PTL

-----------------------------------------------------------------------------
(* With the history.                                                       *)

(* The history asks nothing of the desk: its steps are the desk's.         *)
LEMMA HistoryStep == [HNext]_hvars => [Next]_vars
<1> SUFFICES ASSUME [HNext]_hvars PROVE [Next]_vars
  OBVIOUS
<1>1. CASE UNCHANGED hvars
  BY <1>1 DEF hvars
<1>2. ASSUME NEW c \in Clerks, Works(c) PROVE Next
  BY <1>2 DEF Works, Next, Fails
<1>3. CASE Disturbed
  BY <1>3 DEF Disturbed, Next, Fails
<1> QED
  BY <1>1, <1>2, <1>3 DEF HNext

LEMMA HistoryInvariant == HSpec => []DeskInv
<1>1. HInit => DeskInv
  BY InitInv DEF HInit
<1>2. DeskInv /\ [HNext]_hvars => DeskInv'
  BY HistoryStep, NextInv
<1> QED
  BY <1>1, <1>2, PTL DEF HSpec

(* OPERA puts no strangers into one room, and a card that opens a door is  *)
(* of a guest OPERA has in that room.                                      *)
House(op) ==
  \A g, h \in Guests :
    g # h /\ op[g].st = "IN_HOUSE" /\ op[h].st = "IN_HOUSE" /\ op[g].room = op[h].room =>
      Together(h, g)
CardsAreGuests(op, locks) ==
  \A k \in Cards : locks[k].st = "opens" =>
    /\ locks[k].guest \in Guests
    /\ op[locks[k].guest].st = "IN_HOUSE" /\ op[locks[k].guest].room = locks[k].room
Recorded(keys, locks) == \A k \in Cards : locks[k].st = "opens" => keys[k].st = "ACTIVE"

(* What the only request at work finds: our reservations are OPERA's but   *)
(* for what it is about to write, the guest is as it read them, the cards  *)
(* it listed are all that open a door for a guest about to leave, and only *)
(* the card it is about to record is not on record.                        *)
InRoom(stays, q) == stays[q.guest].st = "IN_HOUSE" /\ stays[q.guest].room = q.room
Before == {"list", "kill", "mark", "operaIn", "operaOut", "encode"}
Working(q, stays, op, keys, locks) ==
  /\ q.at \in {"operaIn", "operaOut", "encode"} => q.next = q.at
  /\ q.at = "list" => q.next # "idle"
  /\ q.at \notin {"writeIn", "writeOut"} => stays = op
  /\ q.at \in {"writeIn", "writeOut"} => \A h \in Guests : h # q.guest => stays[h] = op[h]
  /\ q.at \in {"writePull", "writeIn", "writeOut"} => q.answer = op[q.guest]
  /\ q.at = "writeIn" => stays[q.guest].st = "RESERVED" /\ op[q.guest].st = "IN_HOUSE"
  /\ q.at = "writeOut" =>
       InRoom(stays, q) /\ op[q.guest].st = "CHECKED_OUT" /\ op[q.guest].room = q.room
  /\ q.at \in Before =>
       /\ q.next = "operaIn" => stays[q.guest].st = "RESERVED"
       /\ q.next \in {"operaOut", "encode"} => InRoom(stays, q)
       /\ q.next = "operaOut" /\ q.at # "list" =>
            \A k \in Cards : locks[k].st = "opens" /\ locks[k].guest = q.guest => k \in q.found
  /\ \A k \in Cards : locks[k].st = "opens" =>
       keys[k].st = "ACTIVE" \/ (q.at = "record" /\ q.card = k)

CalmInv == calm =>
  /\ House(opera) /\ CardsAreGuests(opera, lock)
  /\ Quiet => stay = opera /\ Recorded(key, lock)
  /\ \A c \in Clerks : ~ At(c, "idle") =>
       /\ \A d \in Clerks : d # c => At(d, "idle")
       /\ Working(req[c], stay, opera, key, lock)

(* The invariant after a step of the only request at work.                 *)
LEMMA CalmStep ==
  ASSUME DeskInv, NEW c \in Clerks, NEW q \in Requests,
         \A d \in Clerks : d # c => At(d, "idle"),
         req' = [req EXCEPT ![c] = q],
         House(opera'), CardsAreGuests(opera', lock'),
         q.at = "idle" => stay' = opera' /\ Recorded(key', lock'),
         q.at # "idle" => Working(q, stay', opera', key', lock')
  PROVE  CalmInv'
<1>1. req \in [Clerks -> Requests]
  BY DEF DeskInv, TypeOK
<1>2. req'[c] = q /\ \A d \in Clerks : d # c => req'[d].at = "idle"
  BY <1>1 DEF At
<1>3. (Quiet => stay = opera /\ Recorded(key, lock))'
  BY <1>2 DEF Quiet, At, Recorded
<1>4. \A b \in Clerks : req'[b].at # "idle" => b = c
  BY <1>2
<1>5. (House(opera) /\ CardsAreGuests(opera, lock))'
  BY DEF House, CardsAreGuests
<1>6. ASSUME NEW b \in Clerks, req'[b].at # "idle" PROVE Working(req[b], stay, opera, key, lock)'
  BY <1>2, <1>4, <1>6 DEF Working, InRoom
<1>7. \A b \in Clerks : req'[b].at # "idle" =>
        /\ \A d \in Clerks : d # b => req'[d].at = "idle"
        /\ Working(req[b], stay, opera, key, lock)'
  BY <1>2, <1>4, <1>6
<1> QED
  BY <1>3, <1>5, <1>7 DEF CalmInv, At

(* A request that ends.                                                    *)
LEMMA AnswerCalm ==
  ASSUME DeskInv, NEW c \in Clerks, \A d \in Clerks : d # c => At(d, "idle"), Answer(c),
         House(opera'), CardsAreGuests(opera', lock'), stay' = opera', Recorded(key', lock')
  PROVE  CalmInv'
BY CalmStep, IdleIsRequest DEF Answer, Idle

(* What the request at work finds.                                         *)
LEMMA AtWork ==
  ASSUME DeskInv, CalmInv, calm, NEW c \in Clerks, ~ At(c, "idle")
  PROVE  /\ Working(req[c], stay, opera, key, lock)
         /\ House(opera) /\ CardsAreGuests(opera, lock)
         /\ \A d \in Clerks : d # c => At(d, "idle")
         /\ Holds(req[c], key, lock) /\ req[c] \in Requests
         /\ req[c].guest \in Guests /\ req[c].found \in SUBSET Cards
         /\ stay \in [Guests -> Stay] /\ opera \in [Guests -> Stay]
         /\ key \in [Cards -> Key] /\ lock \in [Cards -> Lock]
<1>1. Holds(req[c], key, lock) /\ req[c] \in Requests
  BY HeldNow
<1>2. req[c].guest \in Guests /\ req[c].found \in SUBSET Cards
  BY <1>1 DEF Holds, At, Requests
<1> QED
  BY <1>1, <1>2, HeldNow DEF CalmInv

(* A request that begins while others are at work disturbs the calm.       *)
LEMMA Pair == ASSUME NEW x, NEW y, x # y PROVE Cardinality({x, y}) = 2
<1>1. IsFiniteSet({x}) /\ Cardinality({x}) = 1
  BY FS_Singleton
<1>2. Cardinality({x} \cup {y}) = 2
  BY <1>1, FS_AddElement
<1>3. {x} \cup {y} = {x, y}
  OBVIOUS
<1> QED
  BY <1>2, <1>3

LEMMA BeginsAlone ==
  ASSUME DeskInv, CalmInv, calm, NEW c \in Clerks, NEW q \in Requests,
         At(c, "idle"), q.at # "idle", req' = [req EXCEPT ![c] = q],
         Cardinality(InFlight') <= 1
  PROVE  /\ \A d \in Clerks : At(d, "idle")
         /\ stay = opera /\ Recorded(key, lock) /\ House(opera) /\ CardsAreGuests(opera, lock)
<1>1. \A d \in Clerks : At(d, "idle")
  <2> SUFFICES ASSUME NEW d \in Clerks, ~ At(d, "idle") PROVE FALSE
    OBVIOUS
  <2>1. d # c /\ \A b \in Clerks : b # d => At(b, "idle")
    BY DEF CalmInv
  <2>2. req \in [Clerks -> Requests]
    BY DEF DeskInv, TypeOK
  <2>3. InFlight' = {c, d}
    BY <2>1, <2>2 DEF InFlight, At
  <2>4. Cardinality({c, d}) = 2
    BY <2>1, Pair
  <2>5. Cardinality(InFlight') = 2
    BY <2>3, <2>4
  <2> QED
    BY <2>5
<1> QED
  BY <1>1 DEF CalmInv, Quiet

LEMMA StartsCalm ==
  ASSUME DeskInv, CalmInv, calm, NEW c \in Clerks, Starts(c), Cardinality(InFlight') <= 1
  PROVE  CalmInv'
<1>0. /\ stay \in [Guests -> Stay] /\ opera \in [Guests -> Stay] /\ key \in [Cards -> Key]
      /\ At(c, "idle") /\ UNCHANGED <<stay, room, key, opera, lock>>
  BY HeldNow DEF Starts, StartRevoke, StartCheckIn, StartCheckOut, StartIssue, StartPull, Begin
<1>1. ASSUME NEW q \in Requests, q.at # "idle", req' = [req EXCEPT ![c] = q],
             stay = opera /\ Recorded(key, lock) => Working(q, stay, opera, key, lock)
      PROVE  CalmInv'
  <2>1. /\ \A d \in Clerks : At(d, "idle")
        /\ House(opera) /\ CardsAreGuests(opera, lock) /\ Working(q, stay, opera, key, lock)
    BY <1>0, <1>1, BeginsAlone
  <2>2. House(opera') /\ CardsAreGuests(opera', lock') /\ Working(q, stay', opera', key', lock')
    BY <1>0, <2>1
  <2> QED
    BY <1>1, <2>1, <2>2, CalmStep
<1>2. ASSUME NEW k \in Cards, StartRevoke(c, k) PROVE CalmInv'
  <2> DEFINE q == [Idle EXCEPT !.at = "kill", !.guest = key[k].guest, !.found = {k}, !.todo = {k}]
  <2>1. key[k].guest \in Guests
    BY <1>2 DEF StartRevoke, DeskInv
  <2>2. q \in Requests /\ q.at = "kill" /\ q.next = "idle"
    BY <2>1, IdleIsRequest DEF Requests, Stages, Idle
  <2>3. req' = [req EXCEPT ![c] = q]
    BY <1>2 DEF StartRevoke
  <2> HIDE DEF q
  <2> QED
    BY <1>1, <2>2, <2>3 DEF Working, Recorded
<1>3. ASSUME NEW g \in Guests, NEW r \in Rooms \cup {NoRoom},
             NEW stage \in {"list", "operaIn", "operaOut", "encode"},
             NEW next \in {"operaIn", "operaOut", "encode"},
             Begin(c, stage, next, g, r),
             stage # "list" => stage = next,
             stage # "operaOut",
             next = "operaIn" => stay[g].st = "RESERVED",
             next # "operaIn" => stay[g].st = "IN_HOUSE" /\ stay[g].room = r
      PROVE  CalmInv'
  <2> DEFINE q == [Idle EXCEPT !.at = stage, !.next = next, !.guest = g, !.room = r]
  <2>1. /\ q \in Requests /\ q.at = stage /\ q.next = next /\ q.guest = g /\ q.room = r
        /\ req' = [req EXCEPT ![c] = q]
    BY <1>3, IdleIsRequest DEF Begin, Requests, Stages, Idle
  <2> HIDE DEF q
  <2>2. ASSUME stay = opera, Recorded(key, lock) PROVE Working(q, stay, opera, key, lock)
    BY <1>3, <2>1, <2>2 DEF Working, Recorded, InRoom, Before
  <2> QED
    BY <1>1, <2>1, <2>2
<1>4. \A g \in Guests : stay[g].room \in Rooms \cup {NoRoom}
  BY <1>0 DEF Stay
<1>5. ASSUME NEW g \in Guests, NEW r \in Rooms, StartCheckIn(c, g, r) PROVE CalmInv'
  BY <1>3, <1>5 DEF StartCheckIn
<1>6. ASSUME NEW g \in Guests, StartCheckOut(c, g) PROVE CalmInv'
  BY <1>3, <1>4, <1>6 DEF StartCheckOut
<1>7. ASSUME NEW g \in Guests, NEW stage \in {"list", "encode"}, StartIssue(c, g, stage)
      PROVE  CalmInv'
  BY <1>3, <1>4, <1>7 DEF StartIssue, MayIssue
<1>8. ASSUME NEW g \in Guests, StartPull(c, g) PROVE CalmInv'
  <2> DEFINE q == [Idle EXCEPT !.at = "writePull", !.guest = g, !.answer = opera[g]]
  <2>1. /\ q \in Requests /\ q.at = "writePull" /\ q.guest = g /\ q.answer = opera[g]
        /\ req' = [req EXCEPT ![c] = q]
    BY <1>0, <1>8, IdleIsRequest DEF StartPull, Requests, Stages, Idle
  <2> HIDE DEF q
  <2> QED
    BY <1>1, <2>1 DEF Working, Recorded, Before
<1> QED
  BY <1>2, <1>5, <1>6, <1>7, <1>8 DEF Starts

-----------------------------------------------------------------------------
(* The only request at work kills cards.                                   *)

LEMMA GoOnCalm ==
  ASSUME DeskInv, CalmInv, calm, NEW c \in Clerks, req[c].at \in {"list", "mark"},
         NEW found \in SUBSET Cards, NEW todo \in SUBSET Cards, GoOn(c, found, todo),
         UNCHANGED <<stay, opera, lock>>,
         Recorded(key', lock'),
         req[c].next = "operaOut" =>
           \A k \in Cards : lock[k].st = "opens" /\ lock[k].guest = req[c].guest => k \in found
  PROVE  CalmInv'
<1>1. /\ Working(req[c], stay, opera, key, lock)
      /\ \A d \in Clerks : d # c => At(d, "idle")
      /\ House(opera') /\ CardsAreGuests(opera', lock')
      /\ req[c] \in Requests /\ Holds(req[c], key, lock)
  BY AtWork DEF At
<1>2. stay' = opera'
  BY <1>1 DEF Working
<1>3. CASE todo = {} /\ req[c].next = "idle"
  <2>1. Answer(c)
    BY <1>3 DEF GoOn
  <2> QED
    BY <1>1, <1>2, <2>1, AnswerCalm
<1>4. CASE ~ (todo = {} /\ req[c].next = "idle")
  <2> DEFINE stage == IF todo = {} THEN req[c].next ELSE "kill"
             q == [req[c] EXCEPT !.at = stage, !.found = found, !.todo = todo]
  <2>1. req' = [req EXCEPT ![c] = q]
    BY <1>4 DEF GoOn
  <2>2. req[c].next \in {"idle", "operaIn", "operaOut", "encode"}
    BY <1>1 DEF Holds
  <2>3. /\ stage \in {"operaIn", "operaOut", "encode", "kill"}
        /\ stage # "kill" => stage = req[c].next
    BY <1>4, <2>2
  <2>4. q \in Requests
    BY <1>1, <2>3 DEF Requests, Stages
  <2>5. /\ q.at = stage /\ q.next = req[c].next /\ q.guest = req[c].guest
        /\ q.found = found /\ q.room = req[c].room
    BY <1>1 DEF Requests
  <2> HIDE DEF q, stage
  <2>6. /\ q.next = "operaIn" => stay[q.guest].st = "RESERVED"
        /\ q.next \in {"operaOut", "encode"} => InRoom(stay, q)
    BY <1>1, <2>5 DEF Working, InRoom, Before
  <2>7. Working(q, stay', opera', key', lock')
    BY <1>2, <2>3, <2>5, <2>6 DEF Working, InRoom, Before, Recorded
  <2> QED
    BY <1>1, <2>1, <2>3, <2>4, <2>5, <2>7, CalmStep
<1> QED
  BY <1>3, <1>4

LEMMA ListKeysCalm ==
  ASSUME DeskInv, CalmInv, calm, NEW c \in Clerks, ListKeys(c) PROVE CalmInv'
<1> DEFINE found == ActiveKeys(req[c].guest)
<1>1. /\ req[c].at = "list" /\ found \in SUBSET Cards /\ GoOn(c, found, found)
      /\ UNCHANGED <<stay, key, opera, lock>>
  BY DEF ListKeys, At, ActiveKeys
<1>2. \A k \in Cards : lock[k].st = "opens" => key[k].st = "ACTIVE"
  BY <1>1, AtWork DEF Working, At
<1>3. \A k \in Cards : lock[k].st = "opens" /\ lock[k].guest = req[c].guest => k \in found
  BY <1>2 DEF ActiveKeys, DeskInv, RecordIsTheCard
<1> HIDE DEF found
<1>4. Recorded(key', lock')
  BY <1>1, <1>2 DEF Recorded
<1> QED
  BY <1>1, <1>3, <1>4, GoOnCalm

LEMMA MarkRevokedCalm ==
  ASSUME DeskInv, CalmInv, calm, NEW c \in Clerks, MarkRevoked(c) PROVE CalmInv'
<1> DEFINE k == req[c].card
           left == req[c].todo \ {k}
<1>1. /\ req[c].at = "mark" /\ key' = [key EXCEPT ![k].st = "REVOKED"]
      /\ GoOn(c, req[c].found, left) /\ UNCHANGED <<stay, opera, lock>>
  BY DEF MarkRevoked, At
<1>2. /\ Working(req[c], stay, opera, key, lock) /\ Holds(req[c], key, lock)
      /\ req[c] \in Requests /\ key \in [Cards -> Key] /\ req[c].found \in SUBSET Cards
  BY <1>1, AtWork DEF At
<1>3. lock[k].st = "dead" /\ left \in SUBSET Cards
  BY <1>1, <1>2 DEF Holds, Requests
<1> HIDE DEF k, left
<1>4. \A j \in Cards : j # k => key'[j] = key[j]
  BY <1>1, <1>2
<1>5. \A j \in Cards : lock[j].st = "opens" => key[j].st = "ACTIVE"
  BY <1>1, <1>2 DEF Working
<1>6. Recorded(key', lock')
  BY <1>1, <1>3, <1>4, <1>5 DEF Recorded
<1>7. req[c].next = "operaOut" =>
        \A j \in Cards : lock[j].st = "opens" /\ lock[j].guest = req[c].guest => j \in req[c].found
  BY <1>1, <1>2 DEF Working, Before
<1> QED
  BY <1>1, <1>2, <1>3, <1>6, <1>7, GoOnCalm

(* A killed card opens nothing; the others are as they were.               *)
LEMMA KillsCalm ==
  ASSUME DeskInv, CalmInv, calm, NEW c \in Clerks, At(c, "kill"),
         NEW k \in req[c].todo, Kills(k)
  PROVE  \A j \in Cards : lock'[j].st = "opens" => lock[j] = lock'[j]
<1>1. lock \in [Cards -> Lock] /\ lock' = [lock EXCEPT ![k].st = "dead"]
  BY AtWork DEF At, Kills
<1>2. ASSUME NEW j \in Cards, lock'[j].st = "opens" PROVE lock[j] = lock'[j]
  <2>1. j # k
    BY <1>1, <1>2 DEF Lock
  <2> QED
    BY <1>1, <2>1
<1> QED
  BY <1>2

LEMMA VendorKillsCalm ==
  ASSUME DeskInv, CalmInv, calm, NEW c \in Clerks, VendorKills(c) PROVE CalmInv'
<1>1. At(c, "kill") /\ ~ At(c, "idle") /\ UNCHANGED <<stay, key, opera>>
  BY DEF VendorKills, At
<1>2. /\ Working(req[c], stay, opera, key, lock) /\ req[c] \in Requests
      /\ House(opera) /\ CardsAreGuests(opera, lock) /\ Holds(req[c], key, lock)
      /\ req[c].found \in SUBSET Cards
      /\ \A d \in Clerks : d # c => At(d, "idle")
  BY <1>1, AtWork
<1>3. PICK k \in req[c].todo :
        Kills(k) /\ req' = [req EXCEPT ![c] = [@ EXCEPT !.at = "mark", !.card = k]]
  BY DEF VendorKills
<1>4. \A j \in Cards : lock'[j].st = "opens" => lock[j] = lock'[j]
  BY <1>1, <1>3, KillsCalm
<1> DEFINE q == [req[c] EXCEPT !.at = "mark", !.card = k]
<1>5. k \in Cards
  BY <1>2, <1>3 DEF Holds
<1>6. /\ q \in Requests /\ q.at = "mark" /\ q.next = req[c].next /\ q.guest = req[c].guest
      /\ q.found = req[c].found /\ q.room = req[c].room
      /\ req' = [req EXCEPT ![c] = q]
  BY <1>2, <1>3, <1>5 DEF Requests, Stages
<1> HIDE DEF q
<1>7. CardsAreGuests(opera', lock') /\ House(opera')
  BY <1>1, <1>2, <1>4 DEF CardsAreGuests
<1>8. stay' = opera'
  BY <1>1, <1>2 DEF Working, At
<1>9. /\ q.next = "operaIn" => stay[q.guest].st = "RESERVED"
      /\ q.next \in {"operaOut", "encode"} => InRoom(stay, q)
      /\ q.next = "operaOut" =>
           \A j \in Cards : lock[j].st = "opens" /\ lock[j].guest = q.guest => j \in q.found
  BY <1>1, <1>2, <1>6 DEF Working, InRoom, Before, At
<1>10. \A j \in Cards : lock[j].st = "opens" => key[j].st = "ACTIVE"
  BY <1>1, <1>2 DEF Working, At
<1>11. Working(q, stay', opera', key', lock')
  BY <1>1, <1>4, <1>6, <1>8, <1>9, <1>10 DEF Working, InRoom, Before
<1> QED
  BY <1>2, <1>6, <1>7, <1>11, CalmStep

LEMMA VendorFailsCalm ==
  ASSUME DeskInv, CalmInv, calm, NEW c \in Clerks, VendorFails(c) PROVE CalmInv'
<1>1. At(c, "kill") /\ ~ At(c, "idle") /\ UNCHANGED <<stay, key, opera>> /\ Answer(c)
  BY DEF VendorFails, At
<1>2. /\ Working(req[c], stay, opera, key, lock)
      /\ House(opera) /\ CardsAreGuests(opera, lock)
      /\ \A d \in Clerks : d # c => At(d, "idle")
  BY <1>1, AtWork
<1>3. \A j \in Cards : lock'[j].st = "opens" => lock[j] = lock'[j]
  BY <1>1, KillsCalm DEF VendorFails
<1>4. CardsAreGuests(opera', lock') /\ House(opera')
  BY <1>1, <1>2, <1>3 DEF CardsAreGuests
<1>5. stay' = opera' /\ Recorded(key', lock')
  BY <1>1, <1>2, <1>3 DEF Working, At, Recorded
<1> QED
  BY <1>1, <1>2, <1>4, <1>5, AnswerCalm

-----------------------------------------------------------------------------
(* The only request at work and OPERA.                                     *)

LEMMA ConfirmedCalm ==
  ASSUME DeskInv, CalmInv, calm, NEW c \in Clerks, NEW stage \in {"writeIn", "writeOut"},
         ~ At(c, "idle"), Confirmed(c, stage), opera' \in [Guests -> Stay],
         UNCHANGED <<stay, key, lock>>
  PROVE  \E q \in Requests :
           /\ req' = [req EXCEPT ![c] = q] /\ q.at = stage /\ q.guest = req[c].guest
           /\ q.room = req[c].room /\ q.answer = opera'[req[c].guest]
<1> DEFINE q == [req[c] EXCEPT !.at = stage, !.answer = opera'[req[c].guest]]
<1>1. req[c] \in Requests /\ opera'[req[c].guest] \in Stay
  BY AtWork
<1>2. /\ q \in Requests /\ q.at = stage /\ q.guest = req[c].guest /\ q.room = req[c].room
      /\ q.answer = opera'[req[c].guest]
  BY <1>1 DEF Requests, Stages
<1>3. req' = [req EXCEPT ![c] = q]
  BY DEF Confirmed
<1> HIDE DEF q
<1> QED
  BY <1>2, <1>3

LEMMA OperaChecksInCalm ==
  ASSUME DeskInv, CalmInv, calm, NEW c \in Clerks, OperaChecksIn(c) PROVE CalmInv'
<1> DEFINE g == req[c].guest
<1>1. At(c, "operaIn") /\ ~ At(c, "idle") /\ UNCHANGED <<stay, key, lock>> /\ Confirmed(c, "writeIn")
  BY DEF OperaChecksIn, At
<1>2. /\ Working(req[c], stay, opera, key, lock) /\ g \in Guests
      /\ House(opera) /\ CardsAreGuests(opera, lock)
      /\ opera \in [Guests -> Stay] /\ lock \in [Cards -> Lock]
      /\ \A d \in Clerks : d # c => At(d, "idle")
  BY <1>1, AtWork
<1>3. PICK r \in Rooms : OperaAdmits(g, r)
  BY DEF OperaChecksIn
<1>4. /\ stay = opera /\ stay[g].st = "RESERVED"
      /\ \A k \in Cards : lock[k].st = "opens" => key[k].st = "ACTIVE"
  BY <1>1, <1>2 DEF Working, At, Before
<1>5. /\ opera' \in [Guests -> Stay] /\ opera'[g].st = "IN_HOUSE" /\ opera'[g].room = r
      /\ \A h \in Guests : h # g => opera'[h] = opera[h]
  BY <1>2, <1>3 DEF OperaAdmits, Stay
<1>6. PICK q \in Requests :
        /\ req' = [req EXCEPT ![c] = q] /\ q.at = "writeIn" /\ q.guest = g
        /\ q.answer = opera'[g]
  BY <1>1, <1>5, ConfirmedCalm
<1> HIDE DEF g
<1>7. House(opera')
  <2>1. ASSUME NEW h \in Guests, h # g, opera[h].st = "IN_HOUSE", opera[h].room = r
        PROVE  Together(g, h) /\ Together(h, g)
    BY <1>3, <2>1 DEF OperaAdmits, HouseRule, Together
  <2> QED
    BY <1>2, <1>5, <2>1 DEF House
<1>8. CardsAreGuests(opera', lock')
  BY <1>1, <1>2, <1>4, <1>5 DEF CardsAreGuests
<1>9. Working(q, stay', opera', key', lock')
  BY <1>1, <1>4, <1>5, <1>6 DEF Working, Before
<1> QED
  BY <1>2, <1>6, <1>7, <1>8, <1>9, CalmStep

LEMMA OperaChecksOutCalm ==
  ASSUME DeskInv, CalmInv, calm, NEW c \in Clerks, OperaChecksOut(c) PROVE CalmInv'
<1> DEFINE g == req[c].guest
<1>1. At(c, "operaOut") /\ ~ At(c, "idle") /\ UNCHANGED <<stay, key, lock>>
      /\ OperaReleases(g) /\ Confirmed(c, "writeOut")
  BY DEF OperaChecksOut, At
<1>2. /\ Working(req[c], stay, opera, key, lock) /\ Holds(req[c], key, lock) /\ g \in Guests
      /\ House(opera) /\ CardsAreGuests(opera, lock)
      /\ opera \in [Guests -> Stay] /\ lock \in [Cards -> Lock]
      /\ \A d \in Clerks : d # c => At(d, "idle")
  BY <1>1, AtWork
<1>3. /\ stay = opera /\ stay[g].st = "IN_HOUSE" /\ stay[g].room = req[c].room
      /\ \A k \in Cards : lock[k].st = "opens" => key[k].st = "ACTIVE"
      /\ \A k \in Cards : lock[k].st = "opens" => lock[k].guest # g
  <2>1. req[c].at = "operaOut" /\ req[c].next = "operaOut"
    BY <1>1, <1>2 DEF At, Working
  <2>2. \A k \in req[c].found : lock[k].st = "dead"
    BY <1>2, <2>1 DEF Holds
  <2>3. \A k \in Cards : lock[k].st = "opens" /\ lock[k].guest = g => k \in req[c].found
    BY <1>2, <2>1 DEF Working, Before
  <2> QED
    BY <1>2, <2>1, <2>2, <2>3 DEF Working, Before, InRoom
<1>4. /\ opera' \in [Guests -> Stay] /\ opera'[g].st = "CHECKED_OUT"
      /\ opera'[g].room = opera[g].room /\ \A h \in Guests : h # g => opera'[h] = opera[h]
  BY <1>1, <1>2 DEF OperaReleases, Stay
<1>5. PICK q \in Requests :
        /\ req' = [req EXCEPT ![c] = q] /\ q.at = "writeOut" /\ q.guest = g
        /\ q.room = req[c].room /\ q.answer = opera'[g]
  BY <1>1, <1>4, ConfirmedCalm
<1> HIDE DEF g
<1>6. House(opera')
  BY <1>2, <1>4 DEF House
<1>7. CardsAreGuests(opera', lock')
  BY <1>1, <1>2, <1>3, <1>4 DEF CardsAreGuests
<1>8. Working(q, stay', opera', key', lock')
  BY <1>1, <1>3, <1>4, <1>5 DEF Working, Before, InRoom
<1> QED
  BY <1>2, <1>5, <1>6, <1>7, <1>8, CalmStep

(* A request that ends with nothing changed.                               *)
LEMMA RefusedCalm ==
  ASSUME DeskInv, CalmInv, calm, NEW c \in Clerks, OperaRefuses(c) \/ EncoderRefuses(c)
  PROVE  CalmInv'
<1>1. /\ req[c].at \in {"operaIn", "operaOut", "encode"} /\ Answer(c)
      /\ UNCHANGED <<stay, key, opera, lock>>
  BY DEF OperaRefuses, EncoderRefuses, At
<1>2. /\ Working(req[c], stay, opera, key, lock)
      /\ House(opera') /\ CardsAreGuests(opera', lock')
      /\ \A d \in Clerks : d # c => At(d, "idle")
  BY <1>1, AtWork DEF At
<1>3. stay' = opera' /\ Recorded(key', lock')
  BY <1>1, <1>2 DEF Working, Recorded
<1> QED
  BY <1>1, <1>2, <1>3, AnswerCalm

(* What is written makes our reservations OPERA's again.                   *)
LEMMA WritesCalm ==
  ASSUME DeskInv, CalmInv, calm, NEW c \in Clerks, WriteIn(c) \/ WriteOut(c) \/ WritePull(c)
  PROVE  CalmInv'
<1> DEFINE g == req[c].guest
<1>1. /\ req[c].at \in {"writeIn", "writeOut", "writePull"} /\ Answer(c)
      /\ UNCHANGED <<key, opera, lock>>
  BY DEF WriteIn, WriteOut, WritePull, At
<1>2. /\ Working(req[c], stay, opera, key, lock) /\ g \in Guests
      /\ House(opera') /\ CardsAreGuests(opera', lock')
      /\ opera \in [Guests -> Stay] /\ stay \in [Guests -> Stay]
      /\ \A d \in Clerks : d # c => At(d, "idle")
  BY <1>1, AtWork DEF At
<1>3. /\ req[c].answer = opera[g]
      /\ \A h \in Guests : h # g => stay[h] = opera[h]
      /\ req[c].at = "writeOut" => stay[g].room = opera[g].room
      /\ Recorded(key', lock')
  <2>1. req[c].answer = opera[g] /\ Recorded(key', lock')
    BY <1>1, <1>2 DEF Working, Recorded
  <2>2. \A h \in Guests : h # g => stay[h] = opera[h]
    BY <1>1, <1>2 DEF Working
  <2>3. req[c].at = "writeOut" => stay[g].room = opera[g].room
    BY <1>1, <1>2 DEF Working, InRoom
  <2> QED
    BY <2>1, <2>2, <2>3
<1>4. stay' \in [Guests -> Stay] /\ stay'[g] = opera[g]
      /\ \A h \in Guests : h # g => stay'[h] = stay[h]
  <2>1. CASE WriteIn(c) \/ WritePull(c)
    <3>1. stay' = [stay EXCEPT ![g] = opera[g]]
      BY <1>3, <2>1 DEF WriteIn, WritePull
    <3> QED
      BY <1>2, <3>1
  <2>2. CASE WriteOut(c)
    <3>1. stay' = [stay EXCEPT ![g].st = opera[g].st] /\ stay[g].room = opera[g].room
      BY <1>3, <2>2 DEF WriteOut, At
    <3>2. stay'[g].st = opera[g].st /\ stay'[g].room = opera[g].room /\ stay'[g] \in Stay
      BY <1>2, <3>1 DEF Stay
    <3> QED
      BY <1>2, <3>1, <3>2 DEF Stay
  <2> QED
    BY <2>1, <2>2
<1> HIDE DEF g
<1>5. stay' = opera'
  BY <1>1, <1>2, <1>3, <1>4
<1> QED
  BY <1>1, <1>2, <1>3, <1>5, AnswerCalm

-----------------------------------------------------------------------------
(* The only request at work makes a card.                                  *)

LEMMA VendorEncodesCalm ==
  ASSUME DeskInv, CalmInv, calm, NEW c \in Clerks, VendorEncodes(c) PROVE CalmInv'
<1>1. At(c, "encode") /\ ~ At(c, "idle") /\ UNCHANGED <<stay, key, opera>>
  BY DEF VendorEncodes, At
<1>2. /\ Working(req[c], stay, opera, key, lock) /\ req[c] \in Requests
      /\ req[c].guest \in Guests
      /\ House(opera) /\ CardsAreGuests(opera, lock) /\ lock \in [Cards -> Lock]
      /\ \A d \in Clerks : d # c => At(d, "idle")
  BY <1>1, AtWork
<1>3. PICK k \in Cards :
        Encodes(k, req[c]) /\ req' = [req EXCEPT ![c] = [@ EXCEPT !.at = "record", !.card = k]]
  BY DEF VendorEncodes
<1> DEFINE q == [req[c] EXCEPT !.at = "record", !.card = k]
<1>4. /\ q \in Requests /\ q.at = "record" /\ q.card = k /\ req' = [req EXCEPT ![c] = q]
  BY <1>2, <1>3 DEF Requests, Stages
<1> HIDE DEF q
<1>5. /\ lock'[k] = [st |-> "opens", guest |-> req[c].guest, room |-> req[c].room]
      /\ \A j \in Cards : j # k => lock'[j] = lock[j]
  BY <1>2, <1>3 DEF Encodes
<1>6. stay = opera /\ InRoom(stay, req[c])
  BY <1>1, <1>2 DEF Working, At, Before
<1>7. \A j \in Cards : lock[j].st = "opens" => key[j].st = "ACTIVE"
  BY <1>1, <1>2 DEF Working, At
<1>8. CardsAreGuests(opera', lock') /\ House(opera')
  BY <1>1, <1>2, <1>5, <1>6 DEF CardsAreGuests, InRoom
<1>9. Working(q, stay', opera', key', lock')
  BY <1>1, <1>4, <1>5, <1>6, <1>7 DEF Working, Before
<1> QED
  BY <1>2, <1>4, <1>8, <1>9, CalmStep

LEMMA RecordKeyCalm ==
  ASSUME DeskInv, CalmInv, calm, NEW c \in Clerks, RecordKey(c) PROVE CalmInv'
<1>1. At(c, "record") /\ ~ At(c, "idle") /\ UNCHANGED <<stay, opera, lock>> /\ Answer(c)
  BY DEF RecordKey, At
<1>2. /\ Working(req[c], stay, opera, key, lock) /\ key \in [Cards -> Key]
      /\ House(opera') /\ CardsAreGuests(opera', lock')
      /\ \A d \in Clerks : d # c => At(d, "idle")
  BY <1>1, AtWork
<1>3. \A j \in Cards : lock[j].st = "opens" => key[j].st = "ACTIVE" \/ j = req[c].card
  BY <1>1, <1>2 DEF Working, At
<1>4. \A j \in Cards : key'[j].st = IF j = req[c].card THEN "ACTIVE" ELSE key[j].st
  BY <1>2 DEF RecordKey
<1>5. stay' = opera' /\ Recorded(key', lock')
  BY <1>1, <1>2, <1>3, <1>4 DEF Working, At, Recorded
<1> QED
  BY <1>1, <1>2, <1>5, AnswerCalm

LEMMA CalmNext ==
  ASSUME DeskInv, CalmInv, [HNext]_hvars
  PROVE  CalmInv'
<1>1. CASE UNCHANGED hvars
  BY <1>1 DEF hvars, vars, CalmInv, Quiet, At
<1>2. CASE Disturbed
  BY <1>2 DEF Disturbed, CalmInv
<1>3. ASSUME NEW c \in Clerks, Works(c) PROVE CalmInv'
  <2> SUFFICES ASSUME calm' PROVE CalmInv'
    BY DEF CalmInv
  <2>1. calm /\ Cardinality(InFlight') <= 1
    BY <1>3 DEF Works
  <2>2. CASE Starts(c)
    BY <2>1, <2>2, StartsCalm
  <2>3. CASE Resumes(c)
    BY <2>1, <2>3, ListKeysCalm, VendorKillsCalm, MarkRevokedCalm, OperaChecksInCalm,
       OperaChecksOutCalm, RefusedCalm, WritesCalm, VendorEncodesCalm, RecordKeyCalm DEF Resumes
  <2>4. CASE VendorFails(c)
    BY <2>1, <2>4, VendorFailsCalm
  <2> QED
    BY <1>3, <2>2, <2>3, <2>4 DEF Works
<1> QED
  BY <1>1, <1>2, <1>3 DEF HNext

LEMMA CalmInit == HInit => CalmInv
<1> SUFFICES ASSUME HInit PROVE CalmInv
  OBVIOUS
<1>1. /\ stay = opera /\ \A g \in Guests : opera[g].st = "RESERVED"
      /\ \A k \in Cards : lock[k].st = "blank"
      /\ \A c \in Clerks : At(c, "idle")
  BY DEF HInit, Init, BlankCard, At, Idle
<1> QED
  BY <1>1 DEF CalmInv, House, CardsAreGuests, Recorded

LEMMA CalmInvariant == HSpec => []CalmInv
<1>1. DeskInv /\ CalmInv /\ [HNext]_hvars => CalmInv'
  BY CalmNext
<1> QED
  BY <1>1, CalmInit, HistoryInvariant, PTL DEF HSpec

(* While nothing overlaps and no answer is lost, no card opens a door for  *)
(* a guest who left, nor the room of somebody its holder does not share    *)
(* with, and between requests every card that opens a door is on record,   *)
(* whatever the share groups and however revocations fail (checkOut,       *)
(* revokeOne, issue).                                                      *)
THEOREM OnlyGuestsEnterAlways == HSpec => []OnlyGuestsEnter
<1>1. CalmInv => OnlyGuestsEnter
  <2> SUFFICES ASSUME CalmInv, calm
               PROVE  DepartedOpensNothing /\ NoStrangerOpens /\ LiveCardIsOnRecord
    BY DEF OnlyGuestsEnter
  <2>1. DepartedOpensNothing
    BY DEF CalmInv, CardsAreGuests, DepartedOpensNothing
  <2>2. NoStrangerOpens
    BY DEF CalmInv, CardsAreGuests, House, NoStrangerOpens
  <2>3. LiveCardIsOnRecord
    BY DEF CalmInv, Recorded, LiveCardIsOnRecord
  <2> QED
    BY <2>1, <2>2, <2>3
<1> QED
  BY <1>1, CalmInvariant, PTL

(* Between requests our reservations say what OPERA's say, whoever shares. *)
THEOREM StaysFollowOperaAlways == HSpec => [](calm => StaysFollowOpera)
<1>1. CalmInv => (calm => StaysFollowOpera)
  BY DEF CalmInv, StaysFollowOpera
<1> QED
  BY <1>1, CalmInvariant, PTL

-----------------------------------------------------------------------------
(* The room marks.  The first check-out of a share group vacates the room  *)
(* all of them are in; nobody else is ever in a room that is not marked.   *)
In(stays, g, r) == stays[g].st = "IN_HOUSE" /\ stays[g].room = r
Left(stays, g, r) ==
  \E h \in Guests : h # g /\ Together(g, h) /\ stays[h].st = "CHECKED_OUT" /\ stays[h].room = r
MarkedAt(stays, rooms, r) ==
  IF rooms[r].occupied THEN \E g \in Guests : In(stays, g, r)
  ELSE \A g \in Guests : In(stays, g, r) => Left(stays, g, r)

MarkedInv == calm => (\A r \in Rooms : MarkedAt(stay, room, r)) /\ House(stay)

(* A room whose mark, and whose guests, stay as they are.                  *)
LEMMA MarkKept ==
  ASSUME NEW stays, NEW later, NEW rooms, NEW marks, NEW r, MarkedAt(stays, rooms, r),
         marks[r].occupied = rooms[r].occupied,
         \A h \in Guests : In(later, h, r) <=> In(stays, h, r),
         \A h \in Guests : stays[h].st = "CHECKED_OUT" => later[h] = stays[h]
  PROVE  MarkedAt(later, marks, r)
BY DEF MarkedAt, Left

(* A check-in marks the room OPERA confirmed, the guest having had none.   *)
LEMMA WriteInMarks ==
  ASSUME DeskInv, CalmInv, MarkedInv, calm, NEW c \in Clerks, WriteIn(c)
  PROVE  MarkedInv'
<1> DEFINE g == req[c].guest
           r == opera[g].room
<1>1. ~ At(c, "idle") /\ req[c].at = "writeIn"
  BY DEF WriteIn, At
<1>2. /\ Working(req[c], stay, opera, key, lock) /\ House(opera) /\ g \in Guests
      /\ opera \in [Guests -> Stay] /\ stay \in [Guests -> Stay] /\ room \in [Rooms -> Room]
  BY <1>1, AtWork DEF DeskInv, TypeOK
<1>3. /\ req[c].answer = opera[g] /\ stay[g].st = "RESERVED" /\ opera[g].st = "IN_HOUSE"
      /\ \A h \in Guests : h # g => stay[h] = opera[h]
  BY <1>1, <1>2 DEF Working
<1>4. stay' = opera
  BY <1>2, <1>3 DEF WriteIn
<1>5. room' = [room EXCEPT ![r].occupied = TRUE]
  BY <1>3 DEF WriteIn
<1> HIDE DEF g, r
<1>6. ASSUME NEW x \in Rooms PROVE MarkedAt(opera, room', x)
  <2>1. MarkedAt(stay, room, x)
    BY DEF MarkedInv
  <2>2. CASE x = r
    <3>1. room[x] \in Room
      BY <1>2
    <3>2. room'[x].occupied
      BY <1>2, <1>5, <2>2, <3>1 DEF Room
    <3> QED
      BY <1>2, <1>3, <2>2, <3>2 DEF r, MarkedAt, In
  <2>3. CASE x # r
    <3>1. room'[x] = room[x]
      BY <1>2, <1>5, <2>3
    <3>2. \A h \in Guests : In(opera, h, x) <=> In(stay, h, x)
      BY <1>3, <2>3 DEF In, r
    <3>3. \A h \in Guests : stay[h].st = "CHECKED_OUT" => opera[h] = stay[h]
      BY <1>3
    <3> QED
      BY <2>1, <3>1, <3>2, <3>3, MarkKept
  <2> QED
    BY <2>2, <2>3
<1> QED
  BY <1>2, <1>4, <1>6 DEF MarkedInv

(* A check-out vacates the room of the guest; who stays in it shared it.   *)
LEMMA WriteOutMarks ==
  ASSUME DeskInv, CalmInv, MarkedInv, calm, NEW c \in Clerks, WriteOut(c)
  PROVE  MarkedInv'
<1> DEFINE g == req[c].guest
           r == req[c].room
<1>1. ~ At(c, "idle") /\ req[c].at = "writeOut"
  BY DEF WriteOut, At
<1>2. /\ Working(req[c], stay, opera, key, lock) /\ House(opera) /\ g \in Guests
      /\ opera \in [Guests -> Stay] /\ stay \in [Guests -> Stay] /\ room \in [Rooms -> Room]
  BY <1>1, AtWork DEF DeskInv, TypeOK
<1>3. /\ req[c].answer = opera[g] /\ opera[g].st = "CHECKED_OUT" /\ opera[g].room = r
      /\ stay[g].st = "IN_HOUSE" /\ stay[g].room = r
      /\ \A h \in Guests : h # g => stay[h] = opera[h]
  BY <1>1, <1>2 DEF Working, InRoom
<1>4. stay' = [stay EXCEPT ![g].st = "CHECKED_OUT"]
  BY <1>3 DEF WriteOut
<1>5. room' = IF r = NoRoom THEN room ELSE [room EXCEPT ![r] = [occupied |-> FALSE, status |-> "DIRTY"]]
  BY DEF WriteOut, Vacated
<1> HIDE DEF g, r
<1>6. /\ stay'[g].st = "CHECKED_OUT"
      /\ \A h \in Guests : h # g => stay'[h] = stay[h]
  BY <1>2, <1>4 DEF Stay
<1>7. \A h \in Guests : h # g /\ In(stay, h, r) => Together(h, g)
  BY <1>2, <1>3 DEF MarkedInv, House, In
<1>8. ASSUME NEW x \in Rooms PROVE MarkedAt(stay', room', x)
  <2>1. MarkedAt(stay, room, x)
    BY DEF MarkedInv
  <2>2. CASE x = r
    <3>1. room'[x].occupied = FALSE
      BY <1>2, <1>5, <2>2, DeskAssumption DEF DeskAssumption
    <3>2. ASSUME NEW h \in Guests, In(stay', h, x) PROVE Left(stay', h, x)
      <4>1. h # g /\ In(stay, h, r)
        BY <1>6, <2>2, <3>2 DEF In
      <4>2. Together(h, g) /\ stay'[g].room = r
        BY <1>2, <1>3, <1>4, <1>7, <4>1 DEF Stay
      <4> QED
        BY <1>2, <1>6, <2>2, <4>1, <4>2 DEF Left
    <3> QED
      BY <3>1, <3>2 DEF MarkedAt
  <2>3. CASE x # r
    <3>1. room'[x] = room[x]
      BY <1>2, <1>5, <2>3
    <3>2. \A h \in Guests : In(stay', h, x) <=> In(stay, h, x)
      BY <1>3, <1>6, <2>3 DEF In
    <3>3. \A h \in Guests : stay[h].st = "CHECKED_OUT" => stay'[h] = stay[h]
      BY <1>3, <1>6
    <3> QED
      BY <2>1, <3>1, <3>2, <3>3, MarkKept
  <2> QED
    BY <2>2, <2>3
<1>9. House(stay')
  BY <1>6 DEF MarkedInv, House
<1> QED
  BY <1>8, <1>9 DEF MarkedInv

(* A pull finds what we have.                                              *)
LEMMA WritePullMarks ==
  ASSUME DeskInv, CalmInv, MarkedInv, calm, NEW c \in Clerks, WritePull(c)
  PROVE  MarkedInv'
<1>1. ~ At(c, "idle") /\ req[c].at = "writePull"
  BY DEF WritePull, At
<1>2. /\ Working(req[c], stay, opera, key, lock) /\ stay \in [Guests -> Stay]
  BY <1>1, AtWork
<1>3. req[c].answer = stay[req[c].guest]
  BY <1>1, <1>2 DEF Working
<1>4. stay' = stay /\ room' = room
  BY <1>2, <1>3 DEF WritePull
<1> QED
  BY <1>4 DEF MarkedInv, MarkedAt, Left, In, House

LEMMA MarkedNext ==
  ASSUME DeskInv, CalmInv, MarkedInv, [HNext]_hvars
  PROVE  MarkedInv'
<1>1. ASSUME UNCHANGED <<stay, room>>, calm' => calm PROVE MarkedInv'
  BY <1>1 DEF MarkedInv, MarkedAt, Left, In, House
<1>2. CASE UNCHANGED hvars
  BY <1>1, <1>2 DEF hvars, vars
<1>3. CASE Disturbed
  BY <1>3 DEF Disturbed, MarkedInv
<1>4. ASSUME NEW c \in Clerks, Works(c) PROVE MarkedInv'
  <2>1. calm' => calm
    BY <1>4 DEF Works
  <2>2. CASE Starts(c) \/ VendorFails(c)
    <3>1. UNCHANGED <<stay, room>>
      BY <2>2 DEF Starts, VendorFails, StartRevoke, StartCheckIn, StartCheckOut, StartIssue, StartPull
    <3> QED
      BY <1>1, <2>1, <3>1
  <2>3. CASE WriteIn(c) \/ WriteOut(c) \/ WritePull(c)
    <3> SUFFICES ASSUME calm' PROVE MarkedInv'
      BY DEF MarkedInv
    <3> QED
      BY <2>1, <2>3, WriteInMarks, WriteOutMarks, WritePullMarks
  <2>4. CASE Resumes(c) /\ ~ (WriteIn(c) \/ WriteOut(c) \/ WritePull(c))
    <3>1. UNCHANGED <<stay, room>>
      BY <2>4 DEF Resumes, ListKeys, VendorKills, MarkRevoked, OperaChecksIn, OperaChecksOut,
         OperaRefuses, VendorEncodes, EncoderRefuses, RecordKey
    <3> QED
      BY <1>1, <2>1, <3>1
  <2> QED
    BY <1>4, <2>2, <2>3, <2>4 DEF Works
<1> QED
  BY <1>2, <1>3, <1>4 DEF HNext

LEMMA MarkedInit == HInit => MarkedInv
<1> SUFFICES ASSUME HInit PROVE MarkedInv
  OBVIOUS
<1>1. /\ \A g \in Guests : stay[g].st = "RESERVED"
      /\ \A r \in Rooms : ~ room[r].occupied
  BY DEF HInit, Init
<1> QED
  BY <1>1 DEF MarkedInv, MarkedAt, Left, In, House

(* While nothing overlaps and no answer is lost, our reservations between  *)
(* requests are OPERA's; a room marked occupied has a guest in it, and one *)
(* in a room that is not marked shared it with one who checked out,        *)
(* whoever shares and whatever room OPERA confirmed (checkIn, checkOut).   *)
THEOREM DeskFollowsOperaAlways == HSpec => []DeskFollowsOpera
<1>1. DeskInv /\ CalmInv /\ MarkedInv /\ [HNext]_hvars => MarkedInv'
  BY MarkedNext
<1>2. HSpec => []MarkedInv
  BY <1>1, MarkedInit, HistoryInvariant, CalmInvariant, PTL DEF HSpec
<1>3. DeskInv /\ CalmInv /\ MarkedInv => DeskFollowsOpera
  <2> SUFFICES ASSUME DeskInv, CalmInv, MarkedInv, calm, Quiet
               PROVE  StaysFollowOpera /\ RoomsAreMarked
    BY DEF DeskFollowsOpera, StaysFollowOpera, RoomsAreMarked
  <2>1. StaysFollowOpera
    BY DEF CalmInv, StaysFollowOpera
  <2>2. stay \in [Guests -> Stay]
    BY DEF DeskInv, TypeOK
  <2>3. \A g \in Guests, r \in Rooms :
          /\ InHouse(g, r) <=> In(stay, g, r)
          /\ PartnerLeft(g, r) <=> Left(stay, g, r)
    BY <2>2 DEF Stay, InHouse, PartnerLeft, In, Left
  <2>4. RoomsAreMarked
    BY <2>3 DEF MarkedInv, MarkedAt, RoomsAreMarked
  <2> QED
    BY <2>1, <2>4
<1> QED
  BY <1>2, <1>3, HistoryInvariant, CalmInvariant, PTL

=============================================================================
