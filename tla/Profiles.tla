------------------------------ MODULE Profiles ------------------------------
(***************************************************************************)
(* Guest profiles: merging and editing them (src/profiles/profiles.        *)
(* service.ts), and finding or making the profile of a reservation that is *)
(* booked or pulled (src/reservations/booking.service.ts,                  *)
(* src/sync/sync.service.ts).                                              *)
(*                                                                         *)
(* OPERA has profiles of its own.  A row of ours is linked to one of them  *)
(* or to none; two linked rows are merged in OPERA first.                  *)
(*                                                                         *)
(* Left out: what else a write to a reservation does (Bookings), names and *)
(* phone numbers (an email is the only clue), logs.  What the front desk   *)
(* notes about a guest is a set of facts.                                  *)
(***************************************************************************)
EXTENDS Naturals

CONSTANTS
  Clerks,    \* clients with at most one request in flight each
  Profiles,  \* rows we can make (bounds creation)
  Links,     \* OPERA's profile ids (bounds OPERA's profiles)
  Emails, Facts,
  Stays,     \* reservations
  MaxDead,   \* bounds how often an answer is lost or a process dies
  None

ASSUME ProfilesAssumption ==
  /\ None \notin Profiles \cup Links \cup Emails \cup Facts \cup Stays
  /\ MaxDead \in Nat

VARIABLES
  profile,  \* our profile rows
  row,      \* the profile our reservation row names
  opera,    \* OPERA's profiles, and the guest of each reservation
  calm,     \* no two requests overlapped so far and none died (history)
  dead,     \* the requests that died
  req       \* the request each clerk has in flight

vars == <<profile, row, opera, calm, dead, req>>

Profile == [there : BOOLEAN, link : Links \cup {None}, email : Emails \cup {None},
            into : Profiles \cup {None}, facts : SUBSET Facts]
NoProfile == [there |-> FALSE, link |-> None, email |-> None, into |-> None, facts |-> {}]
(* Who a reservation is for, in OPERA's words; it need not name a profile. *)
Guest == [booked : BOOLEAN, link : Links \cup {None}, email : Emails \cup {None}]
NoGuest == [booked |-> FALSE, link |-> None, email |-> None]
OperaState == [link : [Links -> {"none", "live", "gone"}], guest : [Stays -> Guest]]

Requests == [at : {"idle", "core", "merge", "edit", "ensure", "make", "row"},
             op : {"merge", "book", "note", "email"},
             src : Profiles \cup {None}, dst : Profiles \cup {None}, \* profiles found
             from : Profile, to : Profile,                          \* as they were read
             stay : Stays \cup {None}, guest : Guest, facts : SUBSET Facts]
Idle == [at |-> "idle", op |-> "merge", src |-> None, dst |-> None, from |-> NoProfile,
         to |-> NoProfile, stay |-> None, guest |-> NoGuest, facts |-> {}]

Init ==
  /\ profile = [p \in Profiles |-> NoProfile]
  /\ row = [s \in Stays |-> None]
  /\ opera = [link |-> [x \in Links |-> "none"], guest |-> [s \in Stays |-> NoGuest]]
  /\ calm = TRUE
  /\ dead = 0
  /\ req = [c \in Clerks |-> Idle]

At(c, stage) == req[c].at = stage
Quiet == \A c \in Clerks : At(c, "idle")
Starts(c, q) ==
  /\ At(c, "idle")
  /\ req' = [req EXCEPT ![c] = q]
  /\ calm' = (calm /\ Quiet)
  /\ UNCHANGED <<profile, row, opera, dead>>
Goes(c, q) == req' = [req EXCEPT ![c] = q] /\ UNCHANGED <<calm, dead>>

Canonical(p) == profile[p].there /\ profile[p].into = None

-----------------------------------------------------------------------------
(* Merging.                                                                *)

BothLinked(q) == q.from.link # None /\ q.to.link # None
AsksOpera_Never(q) == FALSE
AsksOpera(q) == BothLinked(q)
StartMerge(c, p, t) ==
  LET q == [Idle EXCEPT !.op = "merge", !.src = p, !.dst = t,
                        !.from = profile[p], !.to = profile[t]] IN
  /\ p # t
  /\ Canonical(p) /\ Canonical(t)
  /\ Starts(c, [q EXCEPT !.at = IF AsksOpera(q) THEN "core" ELSE "merge"])

(* OPERA moves the reservations of the profile it gives up.                *)
OperaMerges(x, y) ==
  /\ x # y
  /\ opera.link[x] = "live" /\ opera.link[y] = "live"
  /\ opera' = [link |-> [opera.link EXCEPT ![x] = "gone"],
               guest |-> [s \in Stays |->
                  IF opera.guest[s].link = x THEN [opera.guest[s] EXCEPT !.link = y]
                  ELSE opera.guest[s]]]
MergeInOpera(c) ==
  /\ At(c, "core") /\ req[c].op = "merge"
  /\ OperaMerges(req[c].from.link, req[c].to.link)
  /\ Goes(c, [req[c] EXCEPT !.at = "merge"])
  /\ UNCHANGED <<profile, row>>

(* One transaction.  Only what the target lacked, when it was read, is     *)
(* filled.  The target is written first, so an id it takes over is still   *)
(* the source's at that moment, and ids are unique: then the transaction   *)
(* fails, and nothing is written.                                          *)
Fill(a, b) == IF a = None THEN b ELSE a
Filled(q) == Fill(q.to.link, q.from.link)
Free(q) ==
  \A p \in Profiles \ {q.dst} : Filled(q) # None => profile[p].link # Filled(q)
Moved(q) == [s \in Stays |-> IF row[s] = q.src THEN q.dst ELSE row[s]]
WriteMerge(c) ==
  LET q == req[c] IN
  /\ At(c, "merge")
  /\ Free(q)
  /\ row' = Moved(q)
  /\ profile' = [profile EXCEPT
       ![q.dst] = [@ EXCEPT !.link = Filled(q), !.email = Fill(q.to.email, q.from.email),
                            !.facts = q.to.facts \cup q.from.facts],
       ![q.src] = [@ EXCEPT !.into = q.dst, !.link = None]]
  /\ Goes(c, Idle)
  /\ UNCHANGED opera
MergeFails(c) ==
  /\ At(c, "merge")
  /\ ~ Free(req[c])
  /\ Goes(c, Idle)
  /\ UNCHANGED <<profile, row, opera>>

-----------------------------------------------------------------------------
(* Editing: a merged profile is read-only.  What is sent replaces what is  *)
(* there, field by field.                                                  *)

MayEdit_Any(p) == profile[p].there
MayEdit(p) == Canonical(p)
StartEdit(c, p) ==
  /\ MayEdit(p)
  /\ \/ \E new \in SUBSET Facts :
          Starts(c, [Idle EXCEPT !.at = "edit", !.op = "note", !.src = p, !.facts = new])
     \/ \E e \in Emails \cup {None} :
          Starts(c, [Idle EXCEPT !.at = "edit", !.op = "email", !.src = p, !.guest.email = e])
WriteEdit(c) ==
  LET q == req[c] IN
  /\ At(c, "edit")
  /\ profile' = [profile EXCEPT ![q.src] =
       IF q.op = "note" THEN [@ EXCEPT !.facts = q.facts] ELSE [@ EXCEPT !.email = q.guest.email]]
  /\ Goes(c, Idle)
  /\ UNCHANGED <<row, opera>>

-----------------------------------------------------------------------------
(* Booking and pulling.                                                    *)

(* The OPERA profile of a guest we know, so that OPERA makes no second one.*)
IsKnown(p) == Canonical(p) /\ profile[p].link # None /\ profile[p].email # None
Known_None(e) == {None}
Known(e) ==
  LET found == { p \in Profiles : IsKnown(p) /\ profile[p].email = e }
  IN IF found = {} THEN {None} ELSE { profile[p].link : p \in found }
StartBook(c, s, e) ==
  /\ ~ opera.guest[s].booked
  /\ \E x \in Known(e) :
       Starts(c, [Idle EXCEPT !.at = "core", !.op = "book", !.stay = s,
                    !.guest = [booked |-> TRUE, link |-> x, email |-> e]])

(* OPERA uses the profile it is told of, or makes one, which its answer    *)
(* may leave unnamed.                                                      *)
OperaBooks(s, g) ==
  /\ ~ opera.guest[s].booked
  /\ \/ /\ g.link # None /\ opera.link[g.link] = "live"
        /\ opera' = [opera EXCEPT !.guest[s] = g]
     \/ g.link = None /\ opera' = [opera EXCEPT !.guest[s] = g]
     \/ /\ g.link = None
        /\ \E x \in Links : /\ opera.link[x] = "none"
                            /\ opera' = [opera EXCEPT !.link[x] = "live",
                                                      !.guest[s] = [g EXCEPT !.link = x]]
BookInOpera(c) ==
  LET q == req[c] IN
  /\ At(c, "core") /\ q.op = "book"
  /\ OperaBooks(q.stay, q.guest)
  /\ Goes(c, [q EXCEPT !.at = "ensure", !.guest = opera'.guest[q.stay]])
  /\ UNCHANGED <<profile, row>>

CoreRefuses_Swallowed(c) ==
  /\ At(c, "core")
  /\ Goes(c, IF req[c].op = "merge" THEN [req[c] EXCEPT !.at = "merge"] ELSE Idle)
  /\ UNCHANGED <<profile, row, opera>>
CoreRefuses(c) ==
  /\ At(c, "core")
  /\ Goes(c, Idle)
  /\ UNCHANGED <<profile, row, opera>>

(* A pull, or the answer to a later write, of the same reservation.        *)
StartPull(c, s) ==
  /\ opera.guest[s].booked
  /\ Starts(c, [Idle EXCEPT !.at = "ensure", !.op = "book", !.stay = s,
                            !.guest = opera.guest[s]])

Makes(c, p) ==
  LET q == req[c] IN
  /\ ~ profile[p].there
  /\ profile' = [profile EXCEPT ![p] = [NoProfile EXCEPT
                   !.there = TRUE, !.link = q.guest.link, !.email = q.guest.email]]
  /\ Goes(c, [q EXCEPT !.at = "row", !.src = p])
(* By OPERA's id: the row is made when there is none, and takes the email. *)
EnsureLinked(c) ==
  LET q == req[c]
      found == { p \in Profiles : profile[p].there /\ profile[p].link = q.guest.link } IN
  /\ At(c, "ensure") /\ q.guest.link # None
  /\ \/ \E p \in found :
          /\ profile' = [profile EXCEPT ![p].email = Fill(q.guest.email, @)]
          /\ Goes(c, [q EXCEPT !.at = "row", !.src = p])
     \/ found = {} /\ \E p \in Profiles : Makes(c, p)
  /\ UNCHANGED <<row, opera>>
(* Otherwise by email, merged or not; failing that a row is made.          *)
EnsureByEmail(c) ==
  LET q == req[c]
      found == { p \in Profiles : q.guest.email # None /\ profile[p].email = q.guest.email } IN
  /\ At(c, "ensure") /\ q.guest.link = None
  /\ \/ \E p \in found : Goes(c, [q EXCEPT !.at = "row", !.src = p])
     \/ found = {} /\ Goes(c, [q EXCEPT !.at = "make"])
  /\ UNCHANGED <<profile, row, opera>>
MakeProfile(c) ==
  /\ At(c, "make")
  /\ \E p \in Profiles : Makes(c, p)
  /\ UNCHANGED <<row, opera>>
WriteRow(c) ==
  /\ At(c, "row")
  /\ row' = [row EXCEPT ![req[c].stay] = req[c].src]
  /\ Goes(c, Idle)
  /\ UNCHANGED <<profile, opera>>

(* OPERA acted or not, and the rest is not done.                           *)
Dies(c) ==
  /\ dead < MaxDead /\ dead' = dead + 1
  /\ req[c].at \in {"merge", "edit", "ensure", "make", "row"}
  /\ req' = [req EXCEPT ![c] = Idle]
  /\ calm' = FALSE
  /\ UNCHANGED <<profile, row, opera>>

Next == \E c \in Clerks :
  \/ \E p, t \in Profiles : StartMerge(c, p, t)
  \/ \E p \in Profiles : StartEdit(c, p)
  \/ \E s \in Stays, e \in Emails \cup {None} : StartBook(c, s, e)
  \/ \E s \in Stays : StartPull(c, s)
  \/ MergeInOpera(c) \/ BookInOpera(c) \/ CoreRefuses(c)
  \/ WriteMerge(c) \/ MergeFails(c) \/ WriteEdit(c)
  \/ EnsureLinked(c) \/ EnsureByEmail(c) \/ MakeProfile(c) \/ WriteRow(c)
  \/ Dies(c)

Spec == Init /\ [][Next]_vars

-----------------------------------------------------------------------------
(* Every variable keeps the values the code gives it.                      *)
TypeOK ==
  /\ profile \in [Profiles -> Profile]
  /\ row \in [Stays -> Profiles \cup {None}]
  /\ opera \in OperaState
  /\ calm \in BOOLEAN
  /\ dead \in 0..MaxDead
  /\ req \in [Clerks -> Requests]

(* A profile of OPERA's is one row here, and there is one in OPERA for     *)
(* every link of ours; the guest of a reservation is not one OPERA gave up *)
(* (operaProfileId is unique; ensureProfile, merge).                       *)
LinksAreReal ==
  /\ \A p, t \in Profiles : p # t /\ profile[p].link # None => profile[p].link # profile[t].link
  /\ \A p \in Profiles : profile[p].link # None =>
       profile[p].there /\ opera.link[profile[p].link] # "none"
  /\ \A s \in Stays : opera.guest[s].link # None => opera.link[opera.guest[s].link] = "live"

(* A merged profile names a row that is there, and so does a reservation;  *)
(* only a row that is there has an email (foreign keys).                   *)
RowsAreThere ==
  /\ \A p \in Profiles : profile[p].into # None =>
       profile[p].there /\ profile[profile[p].into].there /\ profile[p].into # p
  /\ \A p \in Profiles : profile[p].email # None => profile[p].there
  /\ \A s \in Stays : row[s] # None => profile[row[s]].there

RequestInv == \A c \in Clerks :
  LET q == req[c] IN
  /\ q.at = "core" /\ q.op = "merge" => BothLinked(q)
  /\ (q.at = "core" /\ q.op = "merge") \/ q.at = "merge" =>
       /\ q.src \in Profiles /\ q.dst \in Profiles /\ q.src # q.dst
       /\ profile[q.src].there /\ profile[q.dst].there
       /\ q.from.link # None => opera.link[q.from.link] # "none"
       /\ q.to.link # None => opera.link[q.to.link] # "none"
  /\ q.at = "merge" /\ BothLinked(q) => opera.link[q.from.link] = "gone"
  /\ q.at = "edit" => q.src \in Profiles /\ profile[q.src].there
  /\ q.at \in {"ensure", "make", "row"} \/ (q.at = "core" /\ q.op = "book") =>
       /\ q.stay \in Stays
       /\ q.guest.link # None => opera.link[q.guest.link] # "none"
  /\ q.at = "make" => q.guest.link = None
  /\ q.at = "row" => q.src \in Profiles /\ profile[q.src].there
ProfilesInv == TypeOK /\ LinksAreReal /\ RowsAreThere /\ RequestInv

(* Between reading its two profiles and writing them, nothing the others   *)
(* do gives either row a link OPERA still honours or takes one from it: so *)
(* no id OPERA honours is lost or stands on two rows (merge).              *)
Live(x) == x # None /\ opera.link[x] = "live"
Merging(c) == (At(c, "core") /\ req[c].op = "merge") \/ At(c, "merge")
Keeps(p, r) == Live(profile[p].link) \/ Live(r.link) => profile[p].link = r.link
ReadsAreCurrent == \A c \in Clerks :
  Merging(c) => Keeps(req[c].src, req[c].from) /\ Keeps(req[c].dst, req[c].to)
MergesInv == ProfilesInv /\ ReadsAreCurrent

(* A linked profile is merged into a linked one only after OPERA gave it   *)
(* up, however the requests interleave ("If OPERA refuses, nothing local   *)
(* changes", merge).                                                       *)
MergedWithOpera ==
  [][\A p \in Profiles :
       LET t == profile'[p].into IN
       profile[p].into # t /\ profile[p].link # None /\ profile[t].link # None =>
         opera.link[profile[p].link] = "gone"]_vars

(* While requests do not overlap and nothing fails: a reservation whose    *)
(* guest OPERA names is on the one row linked to that profile, and that    *)
(* row is not merged away, after any merges, bookings and pulls ("the next *)
(* sync revives the one we removed", merge).                               *)
StayIsWithItsGuest ==
  calm /\ Quiet => \A s \in Stays : row[s] # None /\ opera.guest[s].link # None =>
    profile[row[s]].link = opera.guest[s].link /\ Canonical(row[s])

(* While requests do not overlap and nothing fails, what is noted about a  *)
(* profile goes to the one it is merged into, and nothing is noted on the  *)
(* merged one any more ("Editing a merged profile splits it from the       *)
(* canonical one", update; merge).                                         *)
FactsMoveOn ==
  [][calm => \A p \in Profiles :
       LET t == profile'[p].into IN
       /\ profile[p].into # t => profile[p].facts \subseteq profile'[t].facts
       /\ profile[p].into # None => profile'[p].facts = profile[p].facts]_vars

(* While requests do not overlap and nothing fails, OPERA makes no profile *)
(* for a guest one of our canonical rows knows by email ("Each returning   *)
(* guest gains another profile", knownProfileId).                          *)
GuestKnownOnce ==
  [][calm => \A s \in Stays :
       LET e == opera'.guest[s].email IN
       /\ ~ opera.guest[s].booked /\ opera'.guest[s].booked
       /\ \E p \in Profiles : IsKnown(p) /\ profile[p].email = e
       => opera'.link = opera.link]_vars

(* A merge that nothing else disturbs can be written once it gets to its   *)
(* transaction ("Moved over because the canonical lacked one, it must be   *)
(* detached from the source", merge).                                      *)
MergeIsCarriedOut == calm => \A c \in Clerks : At(c, "merge") => Free(req[c])

=============================================================================
