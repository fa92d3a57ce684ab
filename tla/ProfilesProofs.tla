---------------------------- MODULE ProfilesProofs ----------------------------
(***************************************************************************)
(* Proofs about Profiles, for every number of clerks, profiles, links,     *)
(* emails, facts and reservations.                                         *)
(***************************************************************************)
EXTENDS Profiles, TLAPS

(* None is no profile, link, email, fact or reservation.                   *)
LEMMA NoneIsNew ==
  /\ None \notin Profiles /\ None \notin Links /\ None \notin Emails /\ None \notin Stays
  /\ MaxDead \in Nat
BY ProfilesAssumption

(* A clerk without a request is a value of the request table.              *)
LEMMA IdleIsRequest == Idle \in Requests
<1>1. NoProfile \in Profile
  BY DEF NoProfile, Profile
<1>2. NoGuest \in Guest
  BY DEF NoGuest, Guest
<1> QED
  BY <1>1, <1>2 DEF Idle, Requests

(* What one request asks of the profiles and of OPERA's links.             *)
Holds(q, rows, links) ==
  /\ q.at = "core" /\ q.op = "merge" => BothLinked(q)
  /\ (q.at = "core" /\ q.op = "merge") \/ q.at = "merge" =>
       /\ q.src \in Profiles /\ q.dst \in Profiles /\ q.src # q.dst
       /\ rows[q.src].there /\ rows[q.dst].there
       /\ q.from.link # None => links[q.from.link] # "none"
       /\ q.to.link # None => links[q.to.link] # "none"
  /\ q.at = "merge" /\ BothLinked(q) => links[q.from.link] = "gone"
  /\ q.at = "edit" => q.src \in Profiles /\ rows[q.src].there
  /\ q.at \in {"ensure", "make", "row"} \/ (q.at = "core" /\ q.op = "book") =>
       /\ q.stay \in Stays
       /\ q.guest.link # None => links[q.guest.link] # "none"
  /\ q.at = "make" => q.guest.link = None
  /\ q.at = "row" => q.src \in Profiles /\ rows[q.src].there

(* Rows are never deleted, OPERA never forgets a profile it made and never *)
(* revives one it gave up.                                                 *)
Onward(rows, links, rows2, links2) ==
  /\ \A p \in Profiles : rows[p].there => rows2[p].there
  /\ \A x \in Links : links[x] # "none" => links2[x] # "none"
  /\ \A x \in Links : links[x] = "gone" => links2[x] = "gone"

(* Nothing is asked of a clerk without a request.                          *)
LEMMA IdleHolds == \A rows, links : Holds(Idle, rows, links)
BY DEF Holds, Idle

(* The requests' part of the invariant, request by request.                *)
LEMMA HoldsIsInv == RequestInv <=> \A c \in Clerks : Holds(req[c], profile, opera.link)
BY DEF RequestInv, Holds

(* What a request counts on survives the steps of all the others.          *)
LEMMA HoldsOnward ==
  ASSUME NEW q \in Requests, NEW rows, NEW links, NEW rows2, NEW links2,
         Holds(q, rows, links), Onward(rows, links, rows2, links2)
  PROVE  Holds(q, rows2, links2)
<1>1. /\ q.from.link \in Links \cup {None} /\ q.to.link \in Links \cup {None}
      /\ q.guest.link \in Links \cup {None}
  BY DEF Requests, Profile, Guest
<1> QED
  BY <1>1 DEF Holds, Onward, BothLinked

(* The requests' part of the invariant after a step of one of them.        *)
LEMMA RequestStep ==
  ASSUME ProfilesInv, NEW c \in Clerks, NEW q \in Requests,
         req' = [req EXCEPT ![c] = q],
         Holds(q, profile', opera'.link),
         Onward(profile, opera.link, profile', opera'.link)
  PROVE  req' \in [Clerks -> Requests] /\ RequestInv'
<1>1. req \in [Clerks -> Requests] /\ req' \in [Clerks -> Requests]
  BY DEF ProfilesInv, TypeOK
<1>2. req'[c] = q /\ \A d \in Clerks \ {c} : req'[d] = req[d]
  BY <1>1
<1>3. \A d \in Clerks : Holds(req[d], profile, opera.link)
  BY HoldsIsInv DEF ProfilesInv
<1>4. ASSUME NEW d \in Clerks PROVE Holds(req'[d], profile', opera'.link)
  <2>1. CASE d = c
    BY <1>2, <2>1
  <2>2. CASE d # c
    <3>1. req'[d] = req[d] /\ req[d] \in Requests /\ Holds(req[d], profile, opera.link)
      BY <1>1, <1>2, <1>3, <2>2
    <3> QED
      BY <3>1, HoldsOnward
  <2> QED
    BY <2>1, <2>2
<1>5. RequestInv'
  BY <1>4 DEF RequestInv, Holds, BothLinked
<1> QED
  BY <1>1, <1>5

(* A step of a request that touches no row and nothing in OPERA.           *)
LEMMA ReadStep ==
  ASSUME ProfilesInv, NEW c \in Clerks, NEW q \in Requests,
         req' = [req EXCEPT ![c] = q],
         Holds(q, profile, opera.link),
         calm' \in BOOLEAN, dead' \in 0..MaxDead,
         UNCHANGED <<profile, row, opera>>
  PROVE  ProfilesInv'
<1>1. Onward(profile, opera.link, profile', opera'.link)
  BY DEF Onward
<1>2. Holds(q, profile', opera'.link)
  OBVIOUS
<1>3. req' \in [Clerks -> Requests] /\ RequestInv'
  BY <1>1, <1>2, RequestStep
<1>4. TypeOK' /\ LinksAreReal' /\ RowsAreThere'
  BY <1>3 DEF ProfilesInv, TypeOK, LinksAreReal, RowsAreThere
<1> QED
  BY <1>3, <1>4 DEF ProfilesInv

(* The invariant holds before the first request.                           *)
LEMMA InitInv == Init => ProfilesInv
<1> SUFFICES ASSUME Init PROVE ProfilesInv
  OBVIOUS
<1> USE DEF Init
<1>1. TypeOK
  <2>1. NoProfile \in Profile /\ NoGuest \in Guest
    BY DEF NoProfile, Profile, NoGuest, Guest
  <2>2. profile \in [Profiles -> Profile] /\ opera \in OperaState
    BY <2>1 DEF OperaState
  <2> QED
    BY <2>2, IdleIsRequest, NoneIsNew DEF TypeOK
<1>2. LinksAreReal
  BY DEF LinksAreReal, NoProfile, NoGuest
<1>3. RowsAreThere
  BY DEF RowsAreThere, NoProfile
<1>4. RequestInv
  BY DEF RequestInv, Idle
<1> QED
  BY <1>1, <1>2, <1>3, <1>4 DEF ProfilesInv

-----------------------------------------------------------------------------
(* The requests that start.                                                *)

(* A merge starts with two rows that are there.                            *)
LEMMA StartMergeInv ==
  ASSUME ProfilesInv, NEW c \in Clerks, NEW p \in Profiles, NEW t \in Profiles,
         StartMerge(c, p, t)
  PROVE  ProfilesInv'
<1> DEFINE q0 == [Idle EXCEPT !.op = "merge", !.src = p, !.dst = t,
                              !.from = profile[p], !.to = profile[t]]
           q == [q0 EXCEPT !.at = IF AsksOpera(q0) THEN "core" ELSE "merge"]
<1>1. profile[p] \in Profile /\ profile[t] \in Profile
  BY DEF ProfilesInv, TypeOK
<1>2. q \in Requests
  BY <1>1, IdleIsRequest DEF Requests, Idle
<1>3. /\ p # t /\ profile[p].there /\ profile[t].there
      /\ req' = [req EXCEPT ![c] = q]
      /\ calm' \in BOOLEAN /\ dead' \in 0..MaxDead /\ UNCHANGED <<profile, row, opera>>
  BY DEF StartMerge, Starts, Canonical, ProfilesInv, TypeOK
<1>4. /\ q.src = p /\ q.dst = t /\ q.from = profile[p] /\ q.to = profile[t] /\ q.op = "merge"
      /\ q.at = IF BothLinked(q) THEN "core" ELSE "merge"
  BY DEF Idle, AsksOpera, BothLinked
<1>5. /\ profile[p].link # None => opera.link[profile[p].link] # "none"
      /\ profile[t].link # None => opera.link[profile[t].link] # "none"
  BY DEF ProfilesInv, LinksAreReal
<1> HIDE DEF q
<1>6. Holds(q, profile, opera.link)
  <2>1. CASE BothLinked(q)
    BY <1>3, <1>4, <1>5, <2>1 DEF Holds
  <2>2. CASE ~ BothLinked(q)
    BY <1>3, <1>4, <1>5, <2>2 DEF Holds
  <2> QED
    BY <2>1, <2>2
<1> QED
  BY <1>2, <1>3, <1>6, ReadStep

(* An edit starts with a row that is there.                                *)
LEMMA StartEditInv ==
  ASSUME ProfilesInv, NEW c \in Clerks, NEW p \in Profiles, StartEdit(c, p)
  PROVE  ProfilesInv'
<1>1. profile[p].there
  BY DEF StartEdit, MayEdit, Canonical
<1>2. ASSUME NEW q, Starts(c, q), q \in Requests, q.at = "edit", q.src = p PROVE ProfilesInv'
  <2>1. Holds(q, profile, opera.link)
    BY <1>1, <1>2 DEF Holds
  <2>2. /\ req' = [req EXCEPT ![c] = q] /\ calm' \in BOOLEAN /\ dead' \in 0..MaxDead
        /\ UNCHANGED <<profile, row, opera>>
    BY <1>2 DEF Starts, ProfilesInv, TypeOK
  <2> QED
    BY <1>2, <2>1, <2>2, ReadStep
<1>3. ASSUME NEW new \in SUBSET Facts,
             Starts(c, [Idle EXCEPT !.at = "edit", !.op = "note", !.src = p, !.facts = new])
      PROVE  ProfilesInv'
  <2> DEFINE q == [Idle EXCEPT !.at = "edit", !.op = "note", !.src = p, !.facts = new]
  <2>1. q \in Requests /\ q.at = "edit" /\ q.src = p
    BY IdleIsRequest DEF Requests, Idle
  <2> HIDE DEF q
  <2> QED
    BY <1>2, <1>3, <2>1 DEF q
<1>4. ASSUME NEW e \in Emails \cup {None},
             Starts(c, [Idle EXCEPT !.at = "edit", !.op = "email", !.src = p, !.guest.email = e])
      PROVE  ProfilesInv'
  <2> DEFINE q == [Idle EXCEPT !.at = "edit", !.op = "email", !.src = p, !.guest.email = e]
  <2>1. q \in Requests /\ q.at = "edit" /\ q.src = p
    BY IdleIsRequest DEF Requests, Idle, Guest, NoGuest
  <2> HIDE DEF q
  <2> QED
    BY <1>2, <1>4, <2>1 DEF q
<1> QED
  BY <1>3, <1>4 DEF StartEdit

(* A booking names a profile of OPERA's only when a row is linked to it.   *)
LEMMA StartBookInv ==
  ASSUME ProfilesInv, NEW c \in Clerks, NEW s \in Stays, NEW e \in Emails \cup {None},
         StartBook(c, s, e)
  PROVE  ProfilesInv'
<1>1. PICK x \in Known(e) :
        Starts(c, [Idle EXCEPT !.at = "core", !.op = "book", !.stay = s,
                     !.guest = [booked |-> TRUE, link |-> x, email |-> e]])
  BY DEF StartBook
<1> DEFINE q == [Idle EXCEPT !.at = "core", !.op = "book", !.stay = s,
                   !.guest = [booked |-> TRUE, link |-> x, email |-> e]]
<1>2. x = None \/ (x \in Links /\ opera.link[x] # "none")
  <2>1. CASE x = None
    BY <2>1
  <2>2. CASE x # None
    <3>1. PICK p \in Profiles : x = profile[p].link
      BY <2>2 DEF Known
    <3> QED
      BY <2>2, <3>1 DEF ProfilesInv, LinksAreReal, TypeOK, Profile
  <2> QED
    BY <2>1, <2>2
<1>3. q \in Requests
  BY <1>2, IdleIsRequest DEF Requests, Idle, Guest
<1>4. q.at = "core" /\ q.op = "book" /\ q.stay = s /\ q.guest.link = x
  BY DEF Idle
<1>5. Holds(q, profile, opera.link)
  BY <1>2, <1>4 DEF Holds
<1>6. /\ req' = [req EXCEPT ![c] = q] /\ calm' \in BOOLEAN /\ dead' \in 0..MaxDead
      /\ UNCHANGED <<profile, row, opera>>
  BY <1>1 DEF Starts, ProfilesInv, TypeOK
<1> HIDE DEF q
<1> QED
  BY <1>3, <1>5, <1>6, ReadStep

(* A pull starts with a guest whose profile OPERA has.                     *)
LEMMA StartPullInv ==
  ASSUME ProfilesInv, NEW c \in Clerks, NEW s \in Stays, StartPull(c, s)
  PROVE  ProfilesInv'
<1> DEFINE q == [Idle EXCEPT !.at = "ensure", !.op = "book", !.stay = s, !.guest = opera.guest[s]]
<1>1. opera.guest[s] \in Guest /\ opera.link \in [Links -> {"none", "live", "gone"}]
  BY DEF ProfilesInv, TypeOK, OperaState
<1>2. q \in Requests
  BY <1>1, IdleIsRequest DEF Requests, Idle
<1>3. q.at = "ensure" /\ q.op = "book" /\ q.stay = s /\ q.guest = opera.guest[s]
  BY DEF Idle
<1>4. opera.guest[s].link # None => opera.link[opera.guest[s].link] # "none"
  BY DEF ProfilesInv, LinksAreReal
<1>5. Holds(q, profile, opera.link)
  BY <1>3, <1>4 DEF Holds
<1>6. /\ req' = [req EXCEPT ![c] = q] /\ calm' \in BOOLEAN /\ dead' \in 0..MaxDead
      /\ UNCHANGED <<profile, row, opera>>
  BY DEF StartPull, Starts, ProfilesInv, TypeOK
<1> HIDE DEF q
<1> QED
  BY <1>2, <1>5, <1>6, ReadStep

-----------------------------------------------------------------------------
(* The steps that only OPERA takes note of.                                *)

(* What a step of OPERA's does to the invariant when our rows stay.        *)
LEMMA OperaStep ==
  ASSUME ProfilesInv, NEW c \in Clerks, NEW q \in Requests,
         req' = [req EXCEPT ![c] = q],
         opera' \in OperaState,
         \A x \in Links : opera.link[x] # "none" => opera'.link[x] # "none",
         \A x \in Links : opera.link[x] = "gone" => opera'.link[x] = "gone",
         \A s \in Stays : opera'.guest[s].link # None =>
           opera'.link[opera'.guest[s].link] = "live",
         Holds(q, profile, opera'.link),
         UNCHANGED <<profile, row, calm, dead>>
  PROVE  ProfilesInv'
<1>1. Onward(profile, opera.link, profile', opera'.link)
  BY DEF Onward
<1>2. Holds(q, profile', opera'.link)
  OBVIOUS
<1>3. req' \in [Clerks -> Requests] /\ RequestInv'
  BY <1>1, <1>2, RequestStep
<1>4. TypeOK' /\ RowsAreThere'
  BY <1>3 DEF ProfilesInv, TypeOK, RowsAreThere
<1>5. LinksAreReal'
  <2>1. \A p \in Profiles : profile[p].link \in Links \cup {None}
    BY DEF ProfilesInv, TypeOK, Profile
  <2>2. ASSUME NEW p \in Profiles, profile[p].link # None
        PROVE  profile[p].there /\ opera'.link[profile[p].link] # "none"
    BY <2>1, <2>2 DEF ProfilesInv, LinksAreReal
  <2> QED
    BY <2>2 DEF ProfilesInv, LinksAreReal
<1> QED
  BY <1>3, <1>4, <1>5 DEF ProfilesInv

(* OPERA gives up one of two linked profiles and keeps the other, and its  *)
(* reservations go to the one it keeps.                                    *)
LEMMA MergeInOperaInv ==
  ASSUME ProfilesInv, NEW c \in Clerks, MergeInOpera(c)
  PROVE  ProfilesInv'
<1> DEFINE x == req[c].from.link
           y == req[c].to.link
           q == [req[c] EXCEPT !.at = "merge"]
<1>1. /\ req[c] \in Requests /\ opera.link \in [Links -> {"none", "live", "gone"}]
      /\ opera.guest \in [Stays -> Guest] /\ DOMAIN opera = {"link", "guest"}
  BY DEF ProfilesInv, TypeOK, OperaState
<1>2. /\ req[c].at = "core" /\ req[c].op = "merge" /\ Holds(req[c], profile, opera.link)
  BY HoldsIsInv DEF MergeInOpera, At, ProfilesInv
<1>3. x \in Links /\ y \in Links
  BY <1>1, <1>2 DEF Holds, BothLinked, Requests, Profile
<1>4. /\ x # y /\ opera.link[x] = "live" /\ opera.link[y] = "live"
      /\ opera'.link = [opera.link EXCEPT ![x] = "gone"]
      /\ opera'.guest = [s \in Stays |->
           IF opera.guest[s].link = x THEN [opera.guest[s] EXCEPT !.link = y] ELSE opera.guest[s]]
      /\ opera' = [link |-> opera'.link, guest |-> opera'.guest]
  BY DEF MergeInOpera, OperaMerges
<1>5. /\ req' = [req EXCEPT ![c] = q] /\ UNCHANGED <<profile, row, calm, dead>>
  BY DEF MergeInOpera, Goes
<1>6. /\ q \in Requests /\ q.at = "merge" /\ q.op = "merge"
      /\ q.src = req[c].src /\ q.dst = req[c].dst /\ q.from = req[c].from /\ q.to = req[c].to
  BY <1>1, <1>2 DEF Requests
<1>7. opera' \in OperaState
  <2>1. ASSUME NEW s \in Stays PROVE opera'.guest[s] \in Guest
    <3>1. opera.guest[s] \in Guest
      BY <1>1
    <3>2. CASE opera.guest[s].link = x
      <4>1. opera'.guest[s] = [opera.guest[s] EXCEPT !.link = y]
        BY <1>4, <3>2
      <4> QED
        BY <1>3, <3>1, <4>1 DEF Guest
    <3>3. CASE opera.guest[s].link # x
      BY <1>4, <3>1, <3>3
    <3> QED
      BY <3>2, <3>3
  <2>2. opera'.link \in [Links -> {"none", "live", "gone"}]
    BY <1>1, <1>3, <1>4
  <2>3. opera'.guest \in [Stays -> Guest]
    BY <2>1, <1>4
  <2> QED
    BY <1>4, <2>2, <2>3 DEF OperaState
<1>8. \A z \in Links : opera'.link[z] = IF z = x THEN "gone" ELSE opera.link[z]
  BY <1>1, <1>4
<1>9. ASSUME NEW s \in Stays, opera'.guest[s].link # None
      PROVE  opera'.link[opera'.guest[s].link] = "live"
  <2>1. opera.guest[s] \in Guest /\ opera.guest[s].link \in Links \cup {None}
    BY <1>1 DEF Guest
  <2>2. CASE opera.guest[s].link = x
    <3>1. opera'.guest[s].link = y
      BY <1>4, <2>1, <2>2 DEF Guest
    <3> QED
      BY <1>3, <1>4, <1>8, <3>1
  <2>3. CASE opera.guest[s].link # x
    <3>1. opera'.guest[s] = opera.guest[s]
      BY <1>4, <2>3
    <3>2. opera.link[opera.guest[s].link] = "live"
      BY <1>9, <3>1 DEF ProfilesInv, LinksAreReal
    <3> QED
      BY <1>8, <1>9, <2>1, <2>3, <3>1, <3>2
  <2> QED
    BY <2>2, <2>3
<1> HIDE DEF q
<1>10. Holds(q, profile, opera'.link)
  <2>1. /\ q.src \in Profiles /\ q.dst \in Profiles /\ q.src # q.dst
        /\ profile[q.src].there /\ profile[q.dst].there
    BY <1>2, <1>6 DEF Holds
  <2>2. opera'.link[q.from.link] = "gone" /\ opera'.link[q.to.link] # "none"
    BY <1>3, <1>4, <1>6, <1>8
  <2> QED
    BY <1>6, <2>1, <2>2 DEF Holds
<1>11. /\ \A z \in Links : opera.link[z] # "none" => opera'.link[z] # "none"
       /\ \A z \in Links : opera.link[z] = "gone" => opera'.link[z] = "gone"
  BY <1>8
<1> QED
  BY <1>5, <1>6, <1>7, <1>9, <1>10, <1>11, OperaStep

(* OPERA books for a profile it has, or makes one.                         *)
LEMMA BookInOperaInv ==
  ASSUME ProfilesInv, NEW c \in Clerks, BookInOpera(c)
  PROVE  ProfilesInv'
<1> DEFINE s == req[c].stay
           g == req[c].guest
           q == [req[c] EXCEPT !.at = "ensure", !.guest = opera'.guest[s]]
<1>1. /\ req[c] \in Requests /\ opera.link \in [Links -> {"none", "live", "gone"}]
      /\ opera.guest \in [Stays -> Guest] /\ opera \in OperaState
  BY DEF ProfilesInv, TypeOK, OperaState
<1>2. /\ req[c].at = "core" /\ req[c].op = "book" /\ Holds(req[c], profile, opera.link)
      /\ OperaBooks(s, g)
      /\ req' = [req EXCEPT ![c] = q] /\ UNCHANGED <<profile, row, calm, dead>>
  BY HoldsIsInv DEF BookInOpera, At, ProfilesInv, Goes
<1>3. s \in Stays /\ g \in Guest
  BY <1>1, <1>2 DEF Holds, Requests
<1>4. /\ opera' \in OperaState
      /\ \A x \in Links : opera.link[x] # "none" => opera'.link[x] = opera.link[x]
      /\ \A t \in Stays \ {s} : opera'.guest[t] = opera.guest[t]
      /\ opera'.guest[s] \in Guest
      /\ opera'.guest[s].link # None => opera'.link[opera'.guest[s].link] = "live"
  <2>1. CASE /\ g.link # None /\ opera.link[g.link] = "live"
             /\ opera' = [opera EXCEPT !.guest[s] = g]
    BY <1>1, <1>3, <2>1 DEF OperaState
  <2>2. CASE g.link = None /\ opera' = [opera EXCEPT !.guest[s] = g]
    BY <1>1, <1>3, <2>2 DEF OperaState
  <2>3. CASE /\ g.link = None
             /\ \E x \in Links : /\ opera.link[x] = "none"
                                 /\ opera' = [opera EXCEPT !.link[x] = "live",
                                                           !.guest[s] = [g EXCEPT !.link = x]]
    <3>1. PICK x \in Links : /\ opera.link[x] = "none"
                             /\ opera' = [opera EXCEPT !.link[x] = "live",
                                                       !.guest[s] = [g EXCEPT !.link = x]]
      BY <2>3
    <3>2. [g EXCEPT !.link = x] \in Guest /\ [g EXCEPT !.link = x].link = x
      BY <1>3 DEF Guest
    <3>3. /\ opera'.link = [opera.link EXCEPT ![x] = "live"]
          /\ opera'.guest = [opera.guest EXCEPT ![s] = [g EXCEPT !.link = x]]
          /\ opera' = [link |-> opera'.link, guest |-> opera'.guest]
      BY <1>1, <3>1 DEF OperaState
    <3>4. opera'.guest[s] = [g EXCEPT !.link = x]
      BY <1>1, <1>3, <3>3
    <3> QED
      BY <1>1, <1>3, <3>1, <3>2, <3>3, <3>4 DEF OperaState
  <2> QED
    BY <1>2, <2>1, <2>2, <2>3 DEF OperaBooks
<1>5. ASSUME NEW t \in Stays, opera'.guest[t].link # None
      PROVE  opera'.link[opera'.guest[t].link] = "live"
  <2>1. CASE t = s
    BY <1>4, <1>5, <2>1
  <2>2. CASE t # s
    <3>1. opera'.guest[t] = opera.guest[t] /\ opera.guest[t].link \in Links
      BY <1>1, <1>4, <1>5, <2>2 DEF Guest
    <3>2. opera.link[opera.guest[t].link] = "live"
      BY <1>5, <3>1 DEF ProfilesInv, LinksAreReal
    <3> QED
      BY <1>4, <3>1, <3>2
  <2> QED
    BY <2>1, <2>2
<1>6. /\ q \in Requests /\ q.at = "ensure" /\ q.stay = s /\ q.guest = opera'.guest[s]
  BY <1>1, <1>4 DEF Requests
<1>7. \A x \in Links : opera.link[x] # "none" => opera'.link[x] # "none"
  BY <1>4
<1>8. \A x \in Links : opera.link[x] = "gone" => opera'.link[x] = "gone"
  BY <1>4
<1> HIDE DEF q
<1>9. Holds(q, profile, opera'.link)
  BY <1>3, <1>4, <1>6 DEF Holds
<1> QED
  BY <1>2, <1>4, <1>5, <1>6, <1>7, <1>8, <1>9, OperaStep

(* What OPERA refuses is not done, and the request is over.                *)
LEMMA CoreRefusesInv ==
  ASSUME ProfilesInv, NEW c \in Clerks, CoreRefuses(c)
  PROVE  ProfilesInv'
<1>1. /\ req' = [req EXCEPT ![c] = Idle] /\ calm' \in BOOLEAN /\ dead' \in 0..MaxDead
      /\ UNCHANGED <<profile, row, opera>>
  BY DEF CoreRefuses, Goes, ProfilesInv, TypeOK
<1> QED
  BY <1>1, IdleIsRequest, IdleHolds, ReadStep

(* A merge that cannot be written leaves the rows alone.                   *)
LEMMA MergeFailsInv ==
  ASSUME ProfilesInv, NEW c \in Clerks, MergeFails(c)
  PROVE  ProfilesInv'
<1>1. /\ req' = [req EXCEPT ![c] = Idle] /\ calm' \in BOOLEAN /\ dead' \in 0..MaxDead
      /\ UNCHANGED <<profile, row, opera>>
  BY DEF MergeFails, Goes, ProfilesInv, TypeOK
<1> QED
  BY <1>1, IdleIsRequest, IdleHolds, ReadStep

(* A request that dies leaves what it wrote, and is over.                  *)
LEMMA DiesInv ==
  ASSUME ProfilesInv, NEW c \in Clerks, Dies(c)
  PROVE  ProfilesInv'
<1>1. dead' \in 0..MaxDead
  BY NoneIsNew DEF Dies, ProfilesInv, TypeOK
<1>2. /\ req' = [req EXCEPT ![c] = Idle] /\ calm' \in BOOLEAN
      /\ UNCHANGED <<profile, row, opera>>
  BY DEF Dies
<1> QED
  BY <1>1, <1>2, IdleIsRequest, IdleHolds, ReadStep

(* A profile found by email is a row that is there.                        *)
LEMMA EnsureByEmailInv ==
  ASSUME ProfilesInv, NEW c \in Clerks, EnsureByEmail(c)
  PROVE  ProfilesInv'
<1>1. /\ req[c] \in Requests /\ req[c].at = "ensure" /\ req[c].guest.link = None
      /\ Holds(req[c], profile, opera.link)
  BY HoldsIsInv DEF EnsureByEmail, At, ProfilesInv, TypeOK
<1>2. /\ calm' \in BOOLEAN /\ dead' \in 0..MaxDead /\ UNCHANGED <<profile, row, opera>>
  BY DEF EnsureByEmail, Goes, ProfilesInv, TypeOK
<1>3. ASSUME NEW p \in Profiles, profile[p].there,
             Goes(c, [req[c] EXCEPT !.at = "row", !.src = p])
      PROVE  ProfilesInv'
  <2> DEFINE q == [req[c] EXCEPT !.at = "row", !.src = p]
  <2>1. /\ q \in Requests /\ q.at = "row" /\ q.src = p /\ q.stay = req[c].stay
        /\ q.guest = req[c].guest /\ req' = [req EXCEPT ![c] = q]
    BY <1>1, <1>3 DEF Requests, Goes
  <2> HIDE DEF q
  <2>2. Holds(q, profile, opera.link)
    BY <1>1, <1>3, <2>1 DEF Holds
  <2> QED
    BY <1>2, <2>1, <2>2, ReadStep
<1>4. ASSUME Goes(c, [req[c] EXCEPT !.at = "make"]) PROVE ProfilesInv'
  <2> DEFINE q == [req[c] EXCEPT !.at = "make"]
  <2>1. /\ q \in Requests /\ q.at = "make" /\ q.stay = req[c].stay
        /\ q.guest = req[c].guest /\ req' = [req EXCEPT ![c] = q]
    BY <1>1, <1>4 DEF Requests, Goes
  <2> HIDE DEF q
  <2>2. Holds(q, profile, opera.link)
    BY <1>1, <2>1 DEF Holds
  <2> QED
    BY <1>2, <2>1, <2>2, ReadStep
<1>5. CASE \E p \in { p \in Profiles : req[c].guest.email # None
                                       /\ profile[p].email = req[c].guest.email } :
             Goes(c, [req[c] EXCEPT !.at = "row", !.src = p])
  <2>1. PICK p \in Profiles : /\ profile[p].email # None
                              /\ Goes(c, [req[c] EXCEPT !.at = "row", !.src = p])
    BY <1>5
  <2>2. profile[p].there
    BY <2>1 DEF ProfilesInv, RowsAreThere
  <2> QED
    BY <1>3, <2>1, <2>2
<1> QED
  BY <1>4, <1>5 DEF EnsureByEmail

-----------------------------------------------------------------------------
(* The steps that write our rows.                                          *)

(* A row that is there gets another email or other facts.                  *)
LEMMA NotesStep ==
  ASSUME ProfilesInv, NEW c \in Clerks, NEW q \in Requests,
         NEW p \in Profiles, NEW r \in Profile,
         req' = [req EXCEPT ![c] = q],
         profile' = [profile EXCEPT ![p] = r],
         profile[p].there, r.there,
         r.link = profile[p].link, r.into = profile[p].into,
         Holds(q, profile', opera.link),
         UNCHANGED <<row, opera, calm, dead>>
  PROVE  ProfilesInv'
<1>1. profile \in [Profiles -> Profile]
  BY DEF ProfilesInv, TypeOK
<1>2. /\ profile' \in [Profiles -> Profile]
      /\ \A t \in Profiles : /\ profile'[t].there = profile[t].there
                             /\ profile'[t].link = profile[t].link
                             /\ profile'[t].into = profile[t].into
      /\ \A t \in Profiles \ {p} : profile'[t] = profile[t]
  BY <1>1 DEF Profile
<1>3. Onward(profile, opera.link, profile', opera'.link) /\ Holds(q, profile', opera'.link)
  BY <1>2 DEF Onward
<1>4. req' \in [Clerks -> Requests] /\ RequestInv'
  BY <1>3, RequestStep
<1>5. TypeOK'
  BY <1>2, <1>4 DEF ProfilesInv, TypeOK
<1>6. LinksAreReal'
  BY <1>2 DEF ProfilesInv, LinksAreReal
<1>7. RowsAreThere'
  <2>1. ASSUME NEW t \in Profiles, profile'[t].into # None
        PROVE  /\ profile'[t].there /\ profile'[profile'[t].into].there
               /\ profile'[t].into # t
    <3>1. profile[t].into \in Profiles
      BY <1>1, <1>2, <2>1 DEF Profile
    <3> QED
      BY <1>2, <2>1, <3>1 DEF ProfilesInv, RowsAreThere
  <2>2. ASSUME NEW t \in Profiles, profile'[t].email # None PROVE profile'[t].there
    BY <1>2, <2>2 DEF ProfilesInv, RowsAreThere
  <2>3. ASSUME NEW s \in Stays, row'[s] # None PROVE profile'[row'[s]].there
    <3>1. row'[s] = row[s] /\ row[s] \in Profiles
      BY <2>3 DEF ProfilesInv, TypeOK
    <3> QED
      BY <1>2, <2>3, <3>1 DEF ProfilesInv, RowsAreThere
  <2> QED
    BY <2>1, <2>2, <2>3 DEF RowsAreThere
<1> QED
  BY <1>4, <1>5, <1>6, <1>7 DEF ProfilesInv

(* An edit writes facts or an email.                                       *)
LEMMA WriteEditInv ==
  ASSUME ProfilesInv, NEW c \in Clerks, WriteEdit(c)
  PROVE  ProfilesInv'
<1> DEFINE q == req[c]
           r == IF q.op = "note" THEN [profile[q.src] EXCEPT !.facts = q.facts]
                ELSE [profile[q.src] EXCEPT !.email = q.guest.email]
<1>1. /\ q \in Requests /\ profile \in [Profiles -> Profile] /\ Holds(q, profile, opera.link)
      /\ q.at = "edit"
  BY HoldsIsInv DEF WriteEdit, At, ProfilesInv, TypeOK
<1>2. q.src \in Profiles /\ profile[q.src].there /\ profile[q.src] \in Profile
  BY <1>1 DEF Holds
<1>3. q.facts \in SUBSET Facts /\ q.guest.email \in Emails \cup {None}
  BY <1>1 DEF Requests, Guest
<1>4. /\ r \in Profile /\ r.there
      /\ r.link = profile[q.src].link /\ r.into = profile[q.src].into
  BY <1>2, <1>3 DEF Profile
<1>5. /\ profile' = [profile EXCEPT ![q.src] = r]
      /\ req' = [req EXCEPT ![c] = Idle] /\ UNCHANGED <<row, opera, calm, dead>>
  BY DEF WriteEdit, Goes
<1> HIDE DEF r
<1> QED
  BY <1>2, <1>4, <1>5, IdleIsRequest, IdleHolds, NotesStep

(* A new row is linked to no profile of OPERA's, or to one that had none.  *)
LEMMA MakesInv ==
  ASSUME ProfilesInv, NEW c \in Clerks, NEW p \in Profiles, Makes(c, p),
         req[c].at \in {"ensure", "make"},
         \A t \in Profiles : req[c].guest.link # None => profile[t].link # req[c].guest.link,
         UNCHANGED <<row, opera>>
  PROVE  ProfilesInv'
<1> DEFINE g == req[c].guest
           r == [NoProfile EXCEPT !.there = TRUE, !.link = g.link, !.email = g.email]
           q == [req[c] EXCEPT !.at = "row", !.src = p]
<1>1. /\ req[c] \in Requests /\ profile \in [Profiles -> Profile]
      /\ row \in [Stays -> Profiles \cup {None}]
      /\ Holds(req[c], profile, opera.link)
  BY HoldsIsInv DEF ProfilesInv, TypeOK
<1>2. /\ g \in Guest /\ req[c].stay \in Stays
      /\ g.link # None => opera.link[g.link] # "none"
  BY <1>1 DEF Holds, Requests
<1>3. /\ r \in Profile /\ r.there /\ r.link = g.link /\ r.email = g.email /\ r.into = None
  BY <1>2 DEF NoProfile, Profile, Guest
<1>4. /\ q \in Requests /\ q.at = "row" /\ q.src = p /\ q.stay = req[c].stay /\ q.guest = g
  BY <1>1 DEF Requests
<1>5. /\ ~ profile[p].there /\ profile' = [profile EXCEPT ![p] = r]
      /\ req' = [req EXCEPT ![c] = q] /\ UNCHANGED <<row, opera, calm, dead>>
  BY DEF Makes, Goes
<1> HIDE DEF q, r
<1>6. /\ profile' \in [Profiles -> Profile] /\ profile'[p] = r
      /\ \A t \in Profiles \ {p} : profile'[t] = profile[t]
  BY <1>1, <1>3, <1>5
<1>7. \A t \in Profiles : profile[t].there => profile'[t].there
  BY <1>3, <1>6
<1>8. Holds(q, profile', opera'.link)
  BY <1>2, <1>3, <1>4, <1>5, <1>6 DEF Holds
<1>9. Onward(profile, opera.link, profile', opera'.link)
  BY <1>5, <1>7 DEF Onward
<1>10. req' \in [Clerks -> Requests] /\ RequestInv'
  BY <1>4, <1>5, <1>8, <1>9, RequestStep
<1>11. TypeOK'
  BY <1>5, <1>6, <1>10 DEF ProfilesInv, TypeOK
<1>12. LinksAreReal'
  <2>1. ASSUME NEW t \in Profiles, NEW u \in Profiles, t # u, profile'[t].link # None
        PROVE  profile'[t].link # profile'[u].link
    <3>1. CASE t = p
      BY <1>3, <1>6, <2>1, <3>1
    <3>2. CASE u = p
      BY <1>3, <1>6, <2>1, <3>2
    <3>3. CASE t # p /\ u # p
      BY <1>6, <2>1, <3>3 DEF ProfilesInv, LinksAreReal
    <3> QED
      BY <3>1, <3>2, <3>3
  <2>2. ASSUME NEW t \in Profiles, profile'[t].link # None
        PROVE  profile'[t].there /\ opera'.link[profile'[t].link] # "none"
    <3>1. CASE t = p
      BY <1>2, <1>3, <1>5, <1>6, <2>2, <3>1
    <3>2. CASE t # p
      BY <1>5, <1>6, <2>2, <3>2 DEF ProfilesInv, LinksAreReal
    <3> QED
      BY <3>1, <3>2
  <2>3. \A s \in Stays : opera'.guest[s].link # None =>
          opera'.link[opera'.guest[s].link] = "live"
    BY <1>5 DEF ProfilesInv, LinksAreReal
  <2> QED
    BY <2>1, <2>2, <2>3 DEF LinksAreReal
<1>13. RowsAreThere'
  <2>1. ASSUME NEW t \in Profiles, profile'[t].into # None
        PROVE  /\ profile'[t].there /\ profile'[profile'[t].into].there
               /\ profile'[t].into # t
    <3>1. t # p /\ profile'[t] = profile[t] /\ profile[t].into \in Profiles
      BY <1>1, <1>3, <1>6, <2>1 DEF Profile
    <3> QED
      BY <1>7, <2>1, <3>1 DEF ProfilesInv, RowsAreThere
  <2>2. ASSUME NEW t \in Profiles, profile'[t].email # None PROVE profile'[t].there
    BY <1>3, <1>6, <2>2 DEF ProfilesInv, RowsAreThere
  <2>3. ASSUME NEW s \in Stays, row'[s] # None PROVE profile'[row'[s]].there
    <3>1. row'[s] = row[s] /\ row[s] \in Profiles
      BY <1>1, <1>5, <2>3
    <3> QED
      BY <1>7, <2>3, <3>1 DEF ProfilesInv, RowsAreThere
  <2> QED
    BY <2>1, <2>2, <2>3 DEF RowsAreThere
<1> QED
  BY <1>10, <1>11, <1>12, <1>13 DEF ProfilesInv

(* By OPERA's id: the row found takes the email, or a row is made.         *)
LEMMA EnsureLinkedInv ==
  ASSUME ProfilesInv, NEW c \in Clerks, EnsureLinked(c)
  PROVE  ProfilesInv'
<1> DEFINE g == req[c].guest
           found == { p \in Profiles : profile[p].there /\ profile[p].link = g.link }
<1>1. /\ req[c] \in Requests /\ profile \in [Profiles -> Profile]
      /\ Holds(req[c], profile, opera.link) /\ req[c].at = "ensure" /\ g.link # None
      /\ UNCHANGED <<row, opera>>
  BY HoldsIsInv DEF EnsureLinked, At, ProfilesInv, TypeOK
<1>2. ASSUME NEW p \in Profiles, profile[p].there,
             profile' = [profile EXCEPT ![p].email = Fill(g.email, @)],
             Goes(c, [req[c] EXCEPT !.at = "row", !.src = p])
      PROVE  ProfilesInv'
  <2> DEFINE q == [req[c] EXCEPT !.at = "row", !.src = p]
             r == [profile[p] EXCEPT !.email = Fill(g.email, @)]
  <2>1. /\ q \in Requests /\ q.at = "row" /\ q.src = p /\ q.stay = req[c].stay
        /\ q.guest = g /\ req' = [req EXCEPT ![c] = q] /\ UNCHANGED <<calm, dead>>
    BY <1>1, <1>2 DEF Requests, Goes
  <2>2. /\ r \in Profile /\ r.there /\ r.link = profile[p].link /\ r.into = profile[p].into
    <3>1. profile[p] \in Profile /\ g.email \in Emails \cup {None}
      BY <1>1 DEF Requests, Guest
    <3> QED
      BY <1>2, <3>1 DEF Profile, Fill
  <2>3. profile' = [profile EXCEPT ![p] = r]
    BY <1>2
  <2> HIDE DEF q, r
  <2>4. profile'[p] = r
    BY <1>1, <2>3
  <2>5. Holds(q, profile', opera.link)
    BY <1>1, <2>1, <2>2, <2>4 DEF Holds
  <2> QED
    BY <1>1, <1>2, <2>1, <2>2, <2>3, <2>5, NotesStep
<1>3. ASSUME found = {}, NEW p \in Profiles, Makes(c, p) PROVE ProfilesInv'
  <2>1. ASSUME NEW t \in Profiles PROVE profile[t].link # g.link
    BY <1>1, <1>3 DEF ProfilesInv, LinksAreReal
  <2> QED
    BY <1>1, <1>3, <2>1, MakesInv
<1>4. \/ \E p \in found : /\ profile' = [profile EXCEPT ![p].email = Fill(g.email, @)]
                          /\ Goes(c, [req[c] EXCEPT !.at = "row", !.src = p])
      \/ found = {} /\ \E p \in Profiles : Makes(c, p)
  BY DEF EnsureLinked
<1> QED
  BY <1>2, <1>3, <1>4

(* A guest no row is found for gets one without a link.                    *)
LEMMA MakeProfileInv ==
  ASSUME ProfilesInv, NEW c \in Clerks, MakeProfile(c)
  PROVE  ProfilesInv'
<1>1. /\ Holds(req[c], profile, opera.link) /\ req[c].at = "make" /\ UNCHANGED <<row, opera>>
  BY HoldsIsInv DEF MakeProfile, At, ProfilesInv
<1>2. req[c].guest.link = None
  BY <1>1 DEF Holds
<1>3. PICK p \in Profiles : Makes(c, p)
  BY DEF MakeProfile
<1> QED
  BY <1>1, <1>2, <1>3, MakesInv

(* A reservation row names the profile found for it.                       *)
LEMMA WriteRowInv ==
  ASSUME ProfilesInv, NEW c \in Clerks, WriteRow(c)
  PROVE  ProfilesInv'
<1>1. /\ Holds(req[c], profile, opera.link) /\ req[c].at = "row"
      /\ row' = [row EXCEPT ![req[c].stay] = req[c].src]
      /\ req' = [req EXCEPT ![c] = Idle] /\ UNCHANGED <<profile, opera, calm, dead>>
      /\ row \in [Stays -> Profiles \cup {None}]
  BY HoldsIsInv DEF WriteRow, At, ProfilesInv, TypeOK, Goes
<1>2. req[c].src \in Profiles /\ profile[req[c].src].there /\ req[c].stay \in Stays
  BY <1>1 DEF Holds
<1>3. Onward(profile, opera.link, profile', opera'.link) /\ Holds(Idle, profile', opera'.link)
  BY <1>1, IdleHolds DEF Onward
<1>4. req' \in [Clerks -> Requests] /\ RequestInv'
  BY <1>1, <1>3, IdleIsRequest, RequestStep
<1>5. TypeOK'
  BY <1>1, <1>2, <1>4 DEF ProfilesInv, TypeOK
<1>6. LinksAreReal'
  BY <1>1 DEF ProfilesInv, LinksAreReal
<1>7. RowsAreThere'
  BY <1>1, <1>2 DEF ProfilesInv, RowsAreThere
<1> QED
  BY <1>4, <1>5, <1>6, <1>7 DEF ProfilesInv

(* A merge fills the target and empties the source; the transaction fails  *)
(* when the link the target takes over is another row's at that moment.    *)
LEMMA WriteMergeInv ==
  ASSUME ProfilesInv, NEW c \in Clerks, WriteMerge(c)
  PROVE  ProfilesInv'
<1> DEFINE q == req[c]
           rd == [profile[q.dst] EXCEPT !.link = Filled(q), !.email = Fill(q.to.email, q.from.email),
                                        !.facts = q.to.facts \cup q.from.facts]
           rs == [profile[q.src] EXCEPT !.into = q.dst, !.link = None]
<1>1. /\ q \in Requests /\ profile \in [Profiles -> Profile]
      /\ row \in [Stays -> Profiles \cup {None}]
      /\ q.at = "merge" /\ Holds(q, profile, opera.link)
  BY HoldsIsInv DEF WriteMerge, At, ProfilesInv, TypeOK
<1>2. /\ Free(q) /\ row' = Moved(q)
      /\ req' = [req EXCEPT ![c] = Idle] /\ UNCHANGED <<opera, calm, dead>>
  BY DEF WriteMerge, Goes
<1>3. /\ q.src \in Profiles /\ q.dst \in Profiles /\ q.src # q.dst
      /\ profile[q.src].there /\ profile[q.dst].there
      /\ q.from.link # None => opera.link[q.from.link] # "none"
      /\ q.to.link # None => opera.link[q.to.link] # "none"
  BY <1>1 DEF Holds
<1>4. profile' = [profile EXCEPT ![q.dst] = rd, ![q.src] = rs]
  BY <1>1, <1>3 DEF WriteMerge
<1>5. /\ Filled(q) \in Links \cup {None}
      /\ Filled(q) # None => opera.link[Filled(q)] # "none"
  BY <1>1, <1>3 DEF Filled, Fill, Requests, Profile
<1>6. /\ rd \in Profile /\ rd.there /\ rd.link = Filled(q) /\ rd.into = profile[q.dst].into
  <2> DEFINE e == Fill(q.to.email, q.from.email)
             fs == q.to.facts \cup q.from.facts
             x == Filled(q)
  <2>1. /\ q.from \in Profile /\ q.to \in Profile /\ profile[q.dst] \in Profile
    BY <1>1, <1>3 DEF Requests
  <2>2. e \in Emails \cup {None}
    BY <2>1 DEF Profile, Fill
  <2>5. fs \in SUBSET Facts
    <3>1. q.to.facts \in SUBSET Facts /\ q.from.facts \in SUBSET Facts
      BY <2>1 DEF Profile
    <3> QED
      BY <3>1
  <2>6. x \in Links \cup {None}
    BY <1>5
  <2>3. rd = [profile[q.dst] EXCEPT !.link = x, !.email = e, !.facts = fs]
    OBVIOUS
  <2> HIDE DEF e, fs, x, rd
  <2>4. /\ rd \in Profile /\ rd.there /\ rd.link = x /\ rd.into = profile[q.dst].into
    BY <1>3, <2>1, <2>2, <2>3, <2>5, <2>6 DEF Profile
  <2> QED
    BY <2>4 DEF x
<1>7. /\ rs \in Profile /\ rs.there /\ rs.link = None /\ rs.into = q.dst
      /\ rs.email = profile[q.src].email
  <2>1. profile[q.src] \in Profile
    BY <1>1, <1>3
  <2> QED
    BY <1>3, <2>1 DEF Profile
<1> HIDE DEF rd, rs
<1>8. /\ profile' \in [Profiles -> Profile] /\ profile'[q.dst] = rd /\ profile'[q.src] = rs
      /\ \A t \in Profiles \ {q.src, q.dst} : profile'[t] = profile[t]
  BY <1>1, <1>3, <1>4, <1>6, <1>7
<1>9. \A t \in Profiles : profile[t].there => profile'[t].there
  BY <1>6, <1>7, <1>8
<1>10. Onward(profile, opera.link, profile', opera'.link) /\ Holds(Idle, profile', opera'.link)
  BY <1>2, <1>9, IdleHolds DEF Onward
<1>11. req' \in [Clerks -> Requests] /\ RequestInv'
  BY <1>2, <1>10, IdleIsRequest, RequestStep
<1>12. row' \in [Stays -> Profiles \cup {None}]
  BY <1>1, <1>2, <1>3 DEF Moved
<1>13. TypeOK'
  BY <1>2, <1>8, <1>11, <1>12 DEF ProfilesInv, TypeOK
<1>14. LinksAreReal'
  <2>1. \A t \in Profiles \ {q.dst} : Filled(q) # None => profile[t].link # Filled(q)
    BY <1>2 DEF Free
  <2>2. ASSUME NEW t \in Profiles, NEW u \in Profiles, t # u, profile'[t].link # None
        PROVE  profile'[t].link # profile'[u].link
    <3>1. t # q.src
      BY <1>7, <1>8, <2>2
    <3>2. CASE u = q.src
      BY <1>7, <1>8, <2>2, <3>2
    <3>3. CASE t = q.dst /\ u # q.src
      BY <1>6, <1>8, <2>1, <2>2, <3>3
    <3>4. CASE u = q.dst /\ t # q.src
      BY <1>6, <1>8, <2>1, <2>2, <3>4
    <3>5. CASE t \notin {q.src, q.dst} /\ u \notin {q.src, q.dst}
      <4>1. profile'[t] = profile[t] /\ profile'[u] = profile[u]
        BY <1>8, <2>2, <3>5
      <4> QED
        BY <2>2, <4>1 DEF ProfilesInv, LinksAreReal
    <3> QED
      BY <3>1, <3>2, <3>3, <3>4, <3>5
  <2>3. ASSUME NEW t \in Profiles, profile'[t].link # None
        PROVE  profile'[t].there /\ opera'.link[profile'[t].link] # "none"
    <3>1. t # q.src
      BY <1>7, <1>8, <2>3
    <3>2. CASE t = q.dst
      <4>1. profile'[t].link = Filled(q) /\ profile'[t].there
        BY <1>6, <1>8, <3>2
      <4>2. opera.link[Filled(q)] # "none"
        BY <1>5, <2>3, <4>1
      <4> QED
        BY <1>2, <4>1, <4>2
    <3>3. CASE t \notin {q.src, q.dst}
      <4>1. profile'[t] = profile[t]
        BY <1>8, <2>3, <3>3
      <4> QED
        BY <1>2, <2>3, <4>1 DEF ProfilesInv, LinksAreReal
    <3> QED
      BY <3>1, <3>2, <3>3
  <2>4. \A s \in Stays : opera'.guest[s].link # None =>
          opera'.link[opera'.guest[s].link] = "live"
    BY <1>2 DEF ProfilesInv, LinksAreReal
  <2> QED
    BY <2>2, <2>3, <2>4 DEF LinksAreReal
<1>15. RowsAreThere'
  <2>1. ASSUME NEW t \in Profiles, profile'[t].into # None
        PROVE  /\ profile'[t].there /\ profile'[profile'[t].into].there
               /\ profile'[t].into # t
    <3>1. CASE t = q.src
      BY <1>3, <1>6, <1>7, <1>8, <3>1
    <3>2. CASE t # q.src
      <4>1. profile'[t].into = profile[t].into /\ profile[t].into \in Profiles
        BY <1>1, <1>6, <1>8, <2>1, <3>2 DEF Profile
      <4> QED
        BY <1>9, <2>1, <4>1 DEF ProfilesInv, RowsAreThere
    <3> QED
      BY <3>1, <3>2
  <2>2. ASSUME NEW t \in Profiles, profile'[t].email # None PROVE profile'[t].there
    BY <1>6, <1>7, <1>8, <2>2 DEF ProfilesInv, RowsAreThere
  <2>3. ASSUME NEW s \in Stays, row'[s] # None PROVE profile'[row'[s]].there
    <3>1. CASE row[s] = q.src
      BY <1>2, <1>3, <1>6, <1>8, <3>1 DEF Moved
    <3>2. CASE row[s] # q.src
      <4>1. row'[s] = row[s] /\ row[s] \in Profiles
        BY <1>1, <1>2, <2>3, <3>2 DEF Moved
      <4> QED
        BY <1>9, <2>3, <4>1 DEF ProfilesInv, RowsAreThere
    <3> QED
      BY <3>1, <3>2
  <2> QED
    BY <2>1, <2>2, <2>3 DEF RowsAreThere
<1> QED
  BY <1>11, <1>13, <1>14, <1>15 DEF ProfilesInv

-----------------------------------------------------------------------------
(* Every step keeps the invariant.                                         *)
LEMMA NextInv ==
  ASSUME ProfilesInv, [Next]_vars
  PROVE  ProfilesInv'
<1>1. CASE UNCHANGED vars
  <2>1. TypeOK' /\ LinksAreReal' /\ RowsAreThere'
    BY <1>1 DEF vars, ProfilesInv, TypeOK, LinksAreReal, RowsAreThere
  <2>2. RequestInv'
    BY <1>1 DEF vars, ProfilesInv, RequestInv, BothLinked
  <2> QED
    BY <2>1, <2>2 DEF ProfilesInv
<1>2. CASE Next
  <2>1. PICK c \in Clerks :
          \/ \E p \in Profiles : \E t \in Profiles : StartMerge(c, p, t)
          \/ \E p \in Profiles : StartEdit(c, p)
          \/ \E s \in Stays : \E e \in Emails \cup {None} : StartBook(c, s, e)
          \/ \E s \in Stays : StartPull(c, s)
          \/ MergeInOpera(c) \/ BookInOpera(c) \/ CoreRefuses(c)
          \/ WriteMerge(c) \/ MergeFails(c) \/ WriteEdit(c)
          \/ EnsureLinked(c) \/ EnsureByEmail(c) \/ MakeProfile(c) \/ WriteRow(c)
          \/ Dies(c)
    BY <1>2 DEF Next
  <2>2. ASSUME NEW p \in Profiles, NEW t \in Profiles, StartMerge(c, p, t) PROVE ProfilesInv'
    BY <2>2, StartMergeInv
  <2>3. ASSUME NEW p \in Profiles, StartEdit(c, p) PROVE ProfilesInv'
    BY <2>3, StartEditInv
  <2>4. ASSUME NEW s \in Stays, NEW e \in Emails \cup {None}, StartBook(c, s, e)
        PROVE  ProfilesInv'
    BY <2>4, StartBookInv
  <2>5. ASSUME NEW s \in Stays, StartPull(c, s) PROVE ProfilesInv'
    BY <2>5, StartPullInv
  <2>6. MergeInOpera(c) \/ BookInOpera(c) \/ CoreRefuses(c) => ProfilesInv'
    BY MergeInOperaInv, BookInOperaInv, CoreRefusesInv
  <2>7. WriteMerge(c) \/ MergeFails(c) \/ WriteEdit(c) => ProfilesInv'
    BY WriteMergeInv, MergeFailsInv, WriteEditInv
  <2>8. EnsureLinked(c) \/ EnsureByEmail(c) \/ MakeProfile(c) \/ WriteRow(c) => ProfilesInv'
    BY EnsureLinkedInv, EnsureByEmailInv, MakeProfileInv, WriteRowInv
  <2>9. Dies(c) => ProfilesInv'
    BY DiesInv
  <2> QED
    BY <2>1, <2>2, <2>3, <2>4, <2>5, <2>6, <2>7, <2>8, <2>9
<1> QED
  BY <1>1, <1>2

(* Links stay unique and real, rows name rows that are there, and requests *)
(* in flight count on nothing that others can take away.                   *)
THEOREM ProfilesInvariant == Spec => []ProfilesInv
<1>1. Init => ProfilesInv
  BY InitInv
<1>2. ProfilesInv /\ [Next]_vars => ProfilesInv'
  BY NextInv
<1> QED
  BY <1>1, <1>2, PTL DEF Spec

-----------------------------------------------------------------------------
(* What a merge read stays true of the links OPERA honours.                *)

(* The one row a merge could take a live link from, or give one to, has    *)
(* the link it read: both profiles linked, OPERA gave the source's up; the *)
(* target without one, the unique constraint refuses the source's.         *)
LEMMA MergeMovesNoLink ==
  ASSUME MergesInv, NEW c \in Clerks, WriteMerge(c), NEW p \in Profiles,
         Live(profile[p].link) \/ Live(profile'[p].link)
  PROVE  profile'[p].link = profile[p].link
<1> DEFINE q == req[c]
<1>1. /\ q.at = "merge" /\ Holds(q, profile, opera.link) /\ profile \in [Profiles -> Profile]
      /\ Keeps(q.src, q.from) /\ Keeps(q.dst, q.to) /\ Free(q) /\ UNCHANGED opera
  BY HoldsIsInv DEF WriteMerge, At, MergesInv, ReadsAreCurrent, Merging, ProfilesInv, TypeOK
<1>2. /\ q.src \in Profiles /\ q.dst \in Profiles /\ q.src # q.dst
      /\ BothLinked(q) => opera.link[q.from.link] = "gone"
  BY <1>1 DEF Holds
<1>3. /\ profile'[q.src].link = None /\ profile'[q.dst].link = Filled(q)
      /\ \A t \in Profiles \ {q.src, q.dst} : profile'[t] = profile[t]
  BY <1>1, <1>2 DEF WriteMerge, Profile
<1>4. ~ Live(profile[q.src].link)
  <2> SUFFICES ASSUME Live(profile[q.src].link) PROVE FALSE
    OBVIOUS
  <2>1. profile[q.src].link = q.from.link /\ Live(q.from.link)
    BY <1>1 DEF Keeps
  <2>2. CASE q.to.link = None
    BY <1>1, <1>2, <2>1, <2>2 DEF Free, Filled, Fill, Live
  <2>3. CASE q.to.link # None
    BY <1>2, <2>1, <2>3 DEF BothLinked, Live
  <2> QED
    BY <2>2, <2>3
<1>5. CASE p = q.src
  <2>1. ~ Live(None)
    BY DEF Live
  <2> QED
    BY <1>3, <1>4, <1>5, <2>1
<1>6. CASE p = q.dst
  <2>1. CASE q.to.link # None
    BY <1>1, <1>3, <1>6, <2>1 DEF Keeps, Filled, Fill
  <2>2. CASE q.to.link = None
    <3>1. ~ Live(profile[q.dst].link)
      BY <1>1, <2>2 DEF Keeps, Live
    <3>2. ~ Live(q.from.link)
      BY <1>1, <1>4 DEF Keeps
    <3> QED
      BY <1>3, <1>6, <2>2, <3>1, <3>2 DEF Filled, Fill
  <2> QED
    BY <2>1, <2>2
<1>7. CASE p \notin {q.src, q.dst}
  BY <1>3, <1>7
<1> QED
  BY <1>5, <1>6, <1>7

(* What every step leaves alone: the links OPERA honours, and what the     *)
(* merges in flight read.                                                  *)
LinksStay == \A p \in Profiles :
  profile[p].there /\ (Live(profile[p].link) \/ Live(profile'[p].link)) =>
    profile'[p].link = profile[p].link
ReadsStay == \A c \in Clerks : Merging(c)' =>
  \/ /\ Merging(c)
     /\ req'[c].src = req[c].src /\ req'[c].dst = req[c].dst
     /\ req'[c].from = req[c].from /\ req'[c].to = req[c].to
  \/ /\ UNCHANGED <<profile, opera>>
     /\ req'[c].from = profile[req'[c].src] /\ req'[c].to = profile[req'[c].dst]
NoneRevived == \A x \in Links : opera'.link[x] = "live" => opera.link[x] # "gone"

(* A step that leaves them alone keeps every read current.                 *)
LEMMA ReadsStayCurrent ==
  ASSUME MergesInv, ProfilesInv', LinksStay, ReadsStay, NoneRevived,
         UNCHANGED profile \/ UNCHANGED opera
  PROVE  ReadsAreCurrent'
<1>1. /\ opera.link \in [Links -> {"none", "live", "gone"}]
      /\ profile \in [Profiles -> Profile] /\ profile' \in [Profiles -> Profile]
      /\ req \in [Clerks -> Requests]
  BY DEF MergesInv, ProfilesInv, TypeOK, OperaState
<1>2. ASSUME NEW p \in Profiles, NEW r \in Profile, profile[p].there,
             r.link # None => opera.link[r.link] # "none", Keeps(p, r)
      PROVE  Keeps(p, r)'
  <2>1. ASSUME NEW x \in Links \cup {None}, Live(x)', x # None => opera.link[x] # "none"
        PROVE  Live(x)
    BY <1>1, <2>1 DEF Live, NoneRevived
  <2>2. r.link \in Links \cup {None} /\ profile'[p].link \in Links \cup {None}
    BY <1>1 DEF Profile
  <2>3. profile'[p].link # None => opera.link[profile'[p].link] # "none"
    <3>1. CASE UNCHANGED profile
      BY <3>1 DEF MergesInv, ProfilesInv, LinksAreReal
    <3>2. CASE UNCHANGED opera
      BY <3>2 DEF ProfilesInv, LinksAreReal
    <3> QED
      BY <3>1, <3>2
  <2>4. ASSUME NEW x, x = profile'[p].link, Live(x)' PROVE x = r.link
    <3>1. Live(x)
      BY <2>1, <2>2, <2>3, <2>4
    <3> QED
      BY <1>2, <2>4, <3>1 DEF LinksStay, Keeps
  <2>5. ASSUME Live(r.link)' PROVE profile'[p].link = r.link
    <3>1. Live(r.link)
      BY <1>2, <2>1, <2>2, <2>5
    <3> QED
      BY <1>2, <3>1 DEF LinksStay, Keeps
  <2> QED
    BY <2>4, <2>5 DEF Keeps, Live
<1>3. ASSUME NEW c \in Clerks, Merging(c)'
      PROVE  (Keeps(req[c].src, req[c].from) /\ Keeps(req[c].dst, req[c].to))'
  <2>1. CASE /\ Merging(c)
             /\ req'[c].src = req[c].src /\ req'[c].dst = req[c].dst
             /\ req'[c].from = req[c].from /\ req'[c].to = req[c].to
    <3>1. PICK q \in Requests : q = req[c]
      BY <1>1
    <3>2. q.from \in Profile /\ q.to \in Profile
      BY DEF Requests
    <3>3. Holds(q, profile, opera.link)
      BY <3>1, HoldsIsInv DEF MergesInv, ProfilesInv
    <3>4. /\ q.src \in Profiles /\ q.dst \in Profiles
          /\ profile[q.src].there /\ profile[q.dst].there
          /\ q.from.link # None => opera.link[q.from.link] # "none"
          /\ q.to.link # None => opera.link[q.to.link] # "none"
      BY <2>1, <3>1, <3>3 DEF Merging, At, Holds
    <3>5. Keeps(q.src, q.from) /\ Keeps(q.dst, q.to)
      BY <2>1, <3>1 DEF MergesInv, ReadsAreCurrent
    <3>6. Keeps(q.src, q.from)' /\ Keeps(q.dst, q.to)'
      BY <1>2, <3>2, <3>4, <3>5
    <3> QED
      BY <2>1, <3>1, <3>6 DEF Keeps, Live
  <2>2. CASE /\ UNCHANGED <<profile, opera>>
             /\ req'[c].from = profile[req'[c].src] /\ req'[c].to = profile[req'[c].dst]
    BY <2>2 DEF Keeps
  <2> QED
    BY <1>3, <2>1, <2>2 DEF ReadsStay
<1> QED
  BY <1>3 DEF ReadsAreCurrent

(* A request that starts, ends or moves on without touching a merge: the   *)
(* other merges keep what they read.                                       *)
LEMMA OthersKeepReads ==
  ASSUME MergesInv, NEW c \in Clerks, NEW q \in Requests, req' = [req EXCEPT ![c] = q],
         ~ (q.at = "merge" \/ (q.at = "core" /\ q.op = "merge"))
  PROVE  ReadsStay
<1>1. req \in [Clerks -> Requests]
  BY DEF MergesInv, ProfilesInv, TypeOK
<1>2. ASSUME NEW d \in Clerks, Merging(d)'
      PROVE  /\ Merging(d)
             /\ req'[d].src = req[d].src /\ req'[d].dst = req[d].dst
             /\ req'[d].from = req[d].from /\ req'[d].to = req[d].to
  <2>1. CASE d = c
    BY <1>1, <1>2, <2>1 DEF Merging, At
  <2>2. CASE d # c
    BY <1>1, <1>2, <2>2 DEF Merging, At
  <2> QED
    BY <2>1, <2>2
<1> QED
  BY <1>2 DEF ReadsStay

(* Idle is no merge.                                                       *)
LEMMA IdleMergesNothing ==
  ~ (Idle.at = "merge" \/ (Idle.at = "core" /\ Idle.op = "merge"))
BY DEF Idle

(* A step that leaves our rows alone moves no link.                        *)
LEMMA RowsUnchanged == UNCHANGED profile => LinksStay
BY DEF LinksStay

(* A step that leaves OPERA alone revives nothing.                         *)
LEMMA OperaUnchanged == UNCHANGED opera => NoneRevived
BY DEF NoneRevived

(* A merge starts with what it reads.                                      *)
LEMMA StartMergeReads ==
  ASSUME MergesInv, NEW c \in Clerks, NEW p \in Profiles, NEW t \in Profiles,
         StartMerge(c, p, t)
  PROVE  ReadsStay /\ UNCHANGED <<profile, opera>>
<1> DEFINE q0 == [Idle EXCEPT !.op = "merge", !.src = p, !.dst = t,
                              !.from = profile[p], !.to = profile[t]]
           q == [q0 EXCEPT !.at = IF AsksOpera(q0) THEN "core" ELSE "merge"]
<1>1. req \in [Clerks -> Requests] /\ profile[p] \in Profile /\ profile[t] \in Profile
  BY DEF MergesInv, ProfilesInv, TypeOK
<1>2. /\ q.src = p /\ q.dst = t /\ q.from = profile[p] /\ q.to = profile[t]
  BY DEF Idle
<1>3. req' = [req EXCEPT ![c] = q] /\ UNCHANGED <<profile, opera>>
  BY DEF StartMerge, Starts
<1> HIDE DEF q
<1>4. ASSUME NEW d \in Clerks, Merging(d)'
      PROVE  \/ /\ Merging(d)
                /\ req'[d].src = req[d].src /\ req'[d].dst = req[d].dst
                /\ req'[d].from = req[d].from /\ req'[d].to = req[d].to
             \/ req'[d].from = profile[req'[d].src] /\ req'[d].to = profile[req'[d].dst]
  <2>1. CASE d = c
    <3>1. req'[d] = q
      BY <1>1, <1>3, <2>1
    <3> QED
      BY <1>2, <3>1
  <2>2. CASE d # c
    <3>1. req'[d] = req[d]
      BY <1>1, <1>3, <2>2
    <3> QED
      BY <1>4, <3>1 DEF Merging, At
  <2> QED
    BY <2>1, <2>2
<1> QED
  BY <1>3, <1>4 DEF ReadsStay

(* A merge OPERA carried out goes on with what it read; nothing is revived.*)
LEMMA MergeInOperaReads ==
  ASSUME MergesInv, NEW c \in Clerks, MergeInOpera(c)
  PROVE  ReadsStay /\ NoneRevived /\ UNCHANGED profile
<1> DEFINE q == [req[c] EXCEPT !.at = "merge"]
<1>1. req \in [Clerks -> Requests] /\ opera.link \in [Links -> {"none", "live", "gone"}]
  BY DEF MergesInv, ProfilesInv, TypeOK, OperaState
<1>2. req' = [req EXCEPT ![c] = q] /\ UNCHANGED profile /\ Merging(c)
  BY DEF MergeInOpera, Goes, Merging, At
<1>3. q.src = req[c].src /\ q.dst = req[c].dst /\ q.from = req[c].from /\ q.to = req[c].to
  BY <1>1 DEF Requests
<1> HIDE DEF q
<1>4. ASSUME NEW d \in Clerks, Merging(d)'
      PROVE  /\ Merging(d)
             /\ req'[d].src = req[d].src /\ req'[d].dst = req[d].dst
             /\ req'[d].from = req[d].from /\ req'[d].to = req[d].to
  <2>1. CASE d = c
    <3>1. req'[d] = q
      BY <1>1, <1>2, <2>1
    <3> QED
      BY <1>2, <1>3, <2>1, <3>1
  <2>2. CASE d # c
    <3>1. req'[d] = req[d]
      BY <1>1, <1>2, <2>2
    <3> QED
      BY <1>4, <3>1 DEF Merging, At
  <2> QED
    BY <2>1, <2>2
<1>5. ReadsStay
  BY <1>4 DEF ReadsStay
<1>6. NoneRevived
  <2>1. opera'.link = [opera.link EXCEPT ![req[c].from.link] = "gone"]
    BY DEF MergeInOpera, OperaMerges
  <2> QED
    BY <1>1, <2>1 DEF NoneRevived
<1> QED
  BY <1>2, <1>5, <1>6

(* OPERA makes a new profile for a guest, or none.                         *)
LEMMA BookInOperaReads ==
  ASSUME MergesInv, NEW c \in Clerks, BookInOpera(c)
  PROVE  ReadsStay /\ NoneRevived /\ UNCHANGED profile
<1> DEFINE s == req[c].stay
           g == req[c].guest
           q == [req[c] EXCEPT !.at = "ensure", !.guest = opera'.guest[s]]
<1>1. /\ req[c] \in Requests /\ opera \in OperaState
      /\ opera.link \in [Links -> {"none", "live", "gone"}]
      /\ req' \in [Clerks -> Requests]
  BY BookInOperaInv DEF MergesInv, ProfilesInv, TypeOK, OperaState
<1>2. /\ OperaBooks(s, g) /\ req' = [req EXCEPT ![c] = q] /\ UNCHANGED profile
  BY DEF BookInOpera, Goes
<1>3. /\ q.at = "ensure"
  BY <1>1 DEF Requests
<1>4. q \in Requests
  BY <1>1, <1>2 DEF MergesInv, ProfilesInv, TypeOK
<1>5. NoneRevived
  <2>1. CASE opera' = [opera EXCEPT !.guest[s] = g]
    BY <1>1, <2>1 DEF NoneRevived, OperaState
  <2>2. CASE \E x \in Links : /\ opera.link[x] = "none"
                              /\ opera' = [opera EXCEPT !.link[x] = "live",
                                                        !.guest[s] = [g EXCEPT !.link = x]]
    <3>1. PICK x \in Links : /\ opera.link[x] = "none"
                             /\ opera' = [opera EXCEPT !.link[x] = "live",
                                                       !.guest[s] = [g EXCEPT !.link = x]]
      BY <2>2
    <3>2. opera'.link = [opera.link EXCEPT ![x] = "live"]
      BY <1>1, <3>1 DEF OperaState
    <3> QED
      BY <1>1, <3>1, <3>2 DEF NoneRevived
  <2> QED
    BY <1>2, <2>1, <2>2 DEF OperaBooks
<1> HIDE DEF q
<1> QED
  BY <1>2, <1>3, <1>4, <1>5, OthersKeepReads

(* Nothing but the transaction of a merge says where a profile went.       *)
IntoStays == \A p \in Profiles : profile'[p].into = profile[p].into

(* An edit writes neither a link nor where a profile went.                 *)
LEMMA WriteEditReads ==
  ASSUME MergesInv, NEW c \in Clerks, WriteEdit(c)
  PROVE  ReadsStay /\ LinksStay /\ IntoStays /\ UNCHANGED opera
<1>1. /\ req' = [req EXCEPT ![c] = Idle] /\ UNCHANGED opera
      /\ profile \in [Profiles -> Profile]
  BY DEF WriteEdit, Goes, MergesInv, ProfilesInv, TypeOK
<1>2. \A p \in Profiles : profile'[p].link = profile[p].link /\ profile'[p].into = profile[p].into
  BY <1>1 DEF WriteEdit, Profile
<1> QED
  BY <1>1, <1>2, IdleIsRequest, IdleMergesNothing, OthersKeepReads DEF LinksStay, IntoStays

(* A new row takes nobody's link.                                          *)
LEMMA MakesReads ==
  ASSUME MergesInv, NEW c \in Clerks, NEW p \in Profiles, Makes(c, p)
  PROVE  ReadsStay /\ LinksStay /\ IntoStays
<1> DEFINE q == [req[c] EXCEPT !.at = "row", !.src = p]
           r == [NoProfile EXCEPT !.there = TRUE, !.link = req[c].guest.link,
                                  !.email = req[c].guest.email]
<1>1. /\ req[c] \in Requests /\ profile \in [Profiles -> Profile]
      /\ req' = [req EXCEPT ![c] = q] /\ profile' = [profile EXCEPT ![p] = r]
      /\ ~ profile[p].there
  BY DEF Makes, Goes, MergesInv, ProfilesInv, TypeOK
<1>2. q \in Requests /\ q.at = "row"
  BY <1>1 DEF Requests
<1>3. r.into = None
  BY DEF NoProfile
<1> HIDE DEF q, r
<1>4. ReadsStay
  BY <1>1, <1>2, OthersKeepReads
<1>5. LinksStay
  BY <1>1 DEF LinksStay
<1>6. profile[p].into = None
  BY <1>1 DEF MergesInv, ProfilesInv, RowsAreThere
<1>7. IntoStays
  BY <1>1, <1>3, <1>6 DEF IntoStays
<1> QED
  BY <1>4, <1>5, <1>7

(* A row found by OPERA's id keeps it.                                     *)
LEMMA EnsureLinkedReads ==
  ASSUME MergesInv, NEW c \in Clerks, EnsureLinked(c)
  PROVE  ReadsStay /\ LinksStay /\ IntoStays /\ UNCHANGED opera
<1>1. req[c] \in Requests /\ profile \in [Profiles -> Profile] /\ UNCHANGED opera
  BY DEF EnsureLinked, MergesInv, ProfilesInv, TypeOK
<1>2. ASSUME NEW p \in Profiles,
             profile' = [profile EXCEPT ![p].email = Fill(req[c].guest.email, @)],
             Goes(c, [req[c] EXCEPT !.at = "row", !.src = p])
      PROVE  ReadsStay /\ LinksStay /\ IntoStays
  <2> DEFINE q == [req[c] EXCEPT !.at = "row", !.src = p]
  <2>1. q \in Requests /\ q.at = "row" /\ req' = [req EXCEPT ![c] = q]
    BY <1>1, <1>2 DEF Requests, Goes
  <2>2. \A t \in Profiles : profile'[t].link = profile[t].link /\ profile'[t].into = profile[t].into
    BY <1>1, <1>2 DEF Profile
  <2> HIDE DEF q
  <2> QED
    BY <2>1, <2>2, OthersKeepReads DEF LinksStay, IntoStays
<1> QED
  BY <1>1, <1>2, MakesReads DEF EnsureLinked

(* The transaction of a merge moves no link OPERA honours, and says of the *)
(* source alone where it went.                                             *)
LEMMA WriteMergeReads ==
  ASSUME MergesInv, NEW c \in Clerks, WriteMerge(c)
  PROVE  /\ ReadsStay /\ LinksStay /\ UNCHANGED opera
         /\ \A p \in Profiles : p # req[c].src => profile'[p].into = profile[p].into
<1>1. /\ req' = [req EXCEPT ![c] = Idle] /\ UNCHANGED opera
      /\ profile \in [Profiles -> Profile] /\ req[c].at = "merge"
      /\ Holds(req[c], profile, opera.link)
  BY HoldsIsInv DEF WriteMerge, At, Goes, MergesInv, ProfilesInv, TypeOK
<1>2. LinksStay
  BY MergeMovesNoLink DEF LinksStay
<1>3. req[c].src \in Profiles /\ req[c].dst \in Profiles
  BY <1>1 DEF Holds
<1>4. ASSUME NEW p \in Profiles, p # req[c].src PROVE profile'[p].into = profile[p].into
  BY <1>1, <1>3, <1>4 DEF WriteMerge, Profile
<1> QED
  BY <1>1, <1>2, <1>4, IdleIsRequest, IdleMergesNothing, OthersKeepReads

(* What a step that only reads or ends a request leaves alone.             *)
LEMMA QuietReads ==
  ASSUME MergesInv, NEW c \in Clerks,
         \/ CoreRefuses(c) \/ MergeFails(c) \/ Dies(c) \/ WriteRow(c) \/ EnsureByEmail(c)
         \/ \E p \in Profiles : StartEdit(c, p)
         \/ \E s \in Stays : \E e \in Emails \cup {None} : StartBook(c, s, e)
         \/ \E s \in Stays : StartPull(c, s)
  PROVE  ReadsStay /\ UNCHANGED <<profile, opera>>
<1>1. req \in [Clerks -> Requests] /\ opera.guest \in [Stays -> Guest]
  BY DEF MergesInv, ProfilesInv, TypeOK, OperaState
<1>2. ASSUME NEW q, req' = [req EXCEPT ![c] = q],
             ~ (q.at = "merge" \/ (q.at = "core" /\ q.op = "merge"))
      PROVE  ReadsStay
  <2>1. ASSUME NEW d \in Clerks, Merging(d)' PROVE req'[d] = req[d]
    BY <1>1, <1>2, <2>1 DEF Merging, At
  <2> QED
    BY <2>1 DEF ReadsStay, Merging, At
<1>3. CASE CoreRefuses(c) \/ MergeFails(c) \/ Dies(c) \/ WriteRow(c)
  <2>1. req' = [req EXCEPT ![c] = Idle] /\ UNCHANGED <<profile, opera>>
    BY <1>3 DEF CoreRefuses, MergeFails, Dies, WriteRow, Goes
  <2> QED
    BY <1>2, <2>1, IdleMergesNothing
<1>4. CASE EnsureByEmail(c)
  <2>1. PICK q : /\ req' = [req EXCEPT ![c] = q] /\ q.at \in {"row", "make"}
                 /\ UNCHANGED <<profile, opera>>
    <3>1. req[c] \in Requests
      BY <1>1
    <3>2. ASSUME NEW p, Goes(c, [req[c] EXCEPT !.at = "row", !.src = p])
          PROVE  \E q : req' = [req EXCEPT ![c] = q] /\ q.at \in {"row", "make"}
      <4> DEFINE q == [req[c] EXCEPT !.at = "row", !.src = p]
      <4>1. q.at = "row" /\ req' = [req EXCEPT ![c] = q]
        BY <3>1, <3>2 DEF Requests, Goes
      <4> QED
        BY <4>1
    <3>3. ASSUME Goes(c, [req[c] EXCEPT !.at = "make"])
          PROVE  \E q : req' = [req EXCEPT ![c] = q] /\ q.at \in {"row", "make"}
      <4> DEFINE q == [req[c] EXCEPT !.at = "make"]
      <4>1. q.at = "make" /\ req' = [req EXCEPT ![c] = q]
        BY <3>1, <3>3 DEF Requests, Goes
      <4> QED
        BY <4>1
    <3> QED
      BY <1>4, <3>2, <3>3 DEF EnsureByEmail
  <2> QED
    BY <1>2, <2>1
<1>5. CASE \E p \in Profiles : StartEdit(c, p)
  <2>1. ASSUME NEW q, Starts(c, q), q.at = "edit" PROVE ReadsStay /\ UNCHANGED <<profile, opera>>
    BY <1>2, <2>1 DEF Starts
  <2>2. PICK p \in Profiles : StartEdit(c, p)
    BY <1>5
  <2>3. ASSUME NEW new \in SUBSET Facts,
               Starts(c, [Idle EXCEPT !.at = "edit", !.op = "note", !.src = p, !.facts = new])
        PROVE  ReadsStay /\ UNCHANGED <<profile, opera>>
    <3> DEFINE q == [Idle EXCEPT !.at = "edit", !.op = "note", !.src = p, !.facts = new]
    <3>1. q.at = "edit" /\ Starts(c, q)
      BY <2>3 DEF Idle
    <3> QED
      BY <2>1, <3>1
  <2>4. ASSUME NEW e \in Emails \cup {None},
               Starts(c, [Idle EXCEPT !.at = "edit", !.op = "email", !.src = p, !.guest.email = e])
        PROVE  ReadsStay /\ UNCHANGED <<profile, opera>>
    <3> DEFINE q == [Idle EXCEPT !.at = "edit", !.op = "email", !.src = p, !.guest.email = e]
    <3>1. q.at = "edit" /\ Starts(c, q)
      BY <2>4 DEF Idle
    <3> QED
      BY <2>1, <3>1
  <2> QED
    BY <2>2, <2>3, <2>4 DEF StartEdit
<1>6. CASE \E s \in Stays : \E e \in Emails \cup {None} : StartBook(c, s, e)
  <2>1. PICK s \in Stays, e \in Emails \cup {None} : StartBook(c, s, e)
    BY <1>6
  <2>2. PICK x \in Known(e) :
          Starts(c, [Idle EXCEPT !.at = "core", !.op = "book", !.stay = s,
                       !.guest = [booked |-> TRUE, link |-> x, email |-> e]])
    BY <2>1 DEF StartBook
  <2> DEFINE q == [Idle EXCEPT !.at = "core", !.op = "book", !.stay = s,
                     !.guest = [booked |-> TRUE, link |-> x, email |-> e]]
  <2>3. q.op = "book" /\ q.at = "core" /\ Starts(c, q)
    BY <2>2 DEF Idle
  <2> HIDE DEF q
  <2> QED
    BY <1>2, <2>3 DEF Starts
<1>7. CASE \E s \in Stays : StartPull(c, s)
  <2>1. PICK s \in Stays : StartPull(c, s)
    BY <1>7
  <2> DEFINE q == [Idle EXCEPT !.at = "ensure", !.op = "book", !.stay = s, !.guest = opera.guest[s]]
  <2>2. q.at = "ensure" /\ Starts(c, q)
    BY <2>1 DEF StartPull, Idle
  <2> HIDE DEF q
  <2> QED
    BY <1>2, <2>2 DEF Starts
<1> QED
  BY <1>3, <1>4, <1>5, <1>6, <1>7

(* Of every step: which clerk takes it and as what.                        *)
LEMMA StepIsOneOf ==
  ASSUME Next
  PROVE  \E c \in Clerks :
           \/ \E p \in Profiles : \E t \in Profiles : StartMerge(c, p, t)
           \/ MergeInOpera(c) \/ BookInOpera(c)
           \/ WriteMerge(c) \/ WriteEdit(c) \/ EnsureLinked(c) \/ MakeProfile(c)
           \/ \/ CoreRefuses(c) \/ MergeFails(c) \/ Dies(c) \/ WriteRow(c) \/ EnsureByEmail(c)
              \/ \E p \in Profiles : StartEdit(c, p)
              \/ \E s \in Stays : \E e \in Emails \cup {None} : StartBook(c, s, e)
              \/ \E s \in Stays : StartPull(c, s)
BY DEF Next

(* Every step leaves the links OPERA honours and the merges' reads alone,  *)
(* and only the transaction of a merge says where a profile went.          *)
LEMMA NextReads ==
  ASSUME MergesInv, Next
  PROVE  /\ ReadsStay /\ LinksStay /\ NoneRevived
         /\ UNCHANGED profile \/ UNCHANGED opera
         /\ IntoStays \/ \E c \in Clerks :
              /\ WriteMerge(c)
              /\ \A p \in Profiles : p # req[c].src => profile'[p].into = profile[p].into
<1>1. PICK c \in Clerks :
           \/ \E p \in Profiles : \E t \in Profiles : StartMerge(c, p, t)
           \/ MergeInOpera(c) \/ BookInOpera(c)
           \/ WriteMerge(c) \/ WriteEdit(c) \/ EnsureLinked(c) \/ MakeProfile(c)
           \/ \/ CoreRefuses(c) \/ MergeFails(c) \/ Dies(c) \/ WriteRow(c) \/ EnsureByEmail(c)
              \/ \E p \in Profiles : StartEdit(c, p)
              \/ \E s \in Stays : \E e \in Emails \cup {None} : StartBook(c, s, e)
              \/ \E s \in Stays : StartPull(c, s)
  BY StepIsOneOf
<1>2. UNCHANGED profile => IntoStays
  BY DEF IntoStays
<1>3. CASE \E p \in Profiles : \E t \in Profiles : StartMerge(c, p, t)
  BY <1>2, <1>3, StartMergeReads, RowsUnchanged, OperaUnchanged
<1>4. CASE MergeInOpera(c) \/ BookInOpera(c)
  BY <1>2, <1>4, MergeInOperaReads, BookInOperaReads, RowsUnchanged
<1>5. CASE WriteMerge(c)
  BY <1>5, WriteMergeReads, OperaUnchanged
<1>6. CASE WriteEdit(c) \/ EnsureLinked(c)
  BY <1>6, WriteEditReads, EnsureLinkedReads, OperaUnchanged
<1>7. CASE MakeProfile(c)
  BY <1>7, MakesReads, OperaUnchanged DEF MakeProfile
<1>8. CASE \/ CoreRefuses(c) \/ MergeFails(c) \/ Dies(c) \/ WriteRow(c) \/ EnsureByEmail(c)
           \/ \E p \in Profiles : StartEdit(c, p)
           \/ \E s \in Stays : \E e \in Emails \cup {None} : StartBook(c, s, e)
           \/ \E s \in Stays : StartPull(c, s)
  <2>1. ReadsStay /\ UNCHANGED <<profile, opera>>
    BY <1>8, QuietReads
  <2> QED
    BY <1>2, <2>1, RowsUnchanged, OperaUnchanged
<1> QED
  BY <1>1, <1>3, <1>4, <1>5, <1>6, <1>7, <1>8

(* Between reading its two profiles and writing them, a merge loses no     *)
(* link OPERA honours to another request and puts none on two rows.        *)
THEOREM MergesInvariant == Spec => []MergesInv
<1>1. Init => MergesInv
  <2>1. Init => ReadsAreCurrent
    BY DEF Init, Idle, ReadsAreCurrent, Merging, At
  <2> QED
    BY <2>1, InitInv DEF MergesInv
<1>2. MergesInv /\ [Next]_vars => MergesInv'
  <2>1. MergesInv /\ [Next]_vars => ProfilesInv'
    BY NextInv DEF MergesInv
  <2>2. MergesInv /\ Next => ReadsAreCurrent'
    BY <2>1, NextReads, ReadsStayCurrent
  <2>3. MergesInv /\ UNCHANGED vars => ReadsAreCurrent'
    BY DEF MergesInv, ReadsAreCurrent, Merging, At, Keeps, Live, vars
  <2> QED
    BY <2>1, <2>2, <2>3 DEF MergesInv
<1> QED
  BY <1>1, <1>2, PTL DEF Spec

(* A profile linked to OPERA goes into a linked one only after OPERA gave  *)
(* it up, however requests interleave, fail or die.                        *)
THEOREM LinkedMergesAreOperas == Spec => MergedWithOpera
<1> DEFINE Given == \A p \in Profiles :
       LET t == profile'[p].into IN
       profile[p].into # t /\ profile[p].link # None /\ profile[t].link # None =>
         opera.link[profile[p].link] = "gone"
<1>1. MergesInv /\ [Next]_vars => [Given]_vars
  <2> SUFFICES ASSUME MergesInv, Next, NEW p \in Profiles,
                      profile'[p].into # profile[p].into, profile[p].link # None
               PROVE  opera.link[profile[p].link] = "gone"
    BY DEF vars
  <2>1. PICK c \in Clerks :
          /\ WriteMerge(c)
          /\ \A t \in Profiles : t # req[c].src => profile'[t].into = profile[t].into
    BY NextReads DEF IntoStays
  <2>2. p = req[c].src
    BY <2>1
  <2>3. ~ Live(profile[p].link)
    <3> SUFFICES ASSUME Live(profile[p].link) PROVE FALSE
      OBVIOUS
    <3>1. profile'[p].link = profile[p].link
      BY <2>1, MergeMovesNoLink
    <3>2. profile \in [Profiles -> Profile] /\ req[c].at = "merge" /\ Holds(req[c], profile, opera.link)
      BY <2>1, HoldsIsInv DEF WriteMerge, At, MergesInv, ProfilesInv, TypeOK
    <3>3. profile'[p].link = None
      BY <2>1, <2>2, <3>2 DEF WriteMerge, Holds, Profile
    <3> QED
      BY <3>1, <3>3 DEF Live
  <2>4. /\ profile[p].link \in Links /\ opera.link \in [Links -> {"none", "live", "gone"}]
        /\ opera.link[profile[p].link] # "none"
    BY DEF MergesInv, ProfilesInv, TypeOK, Profile, OperaState, LinksAreReal
  <2> QED
    BY <2>3, <2>4 DEF Live
<1>2. Spec => [][Given]_vars
  BY <1>1, MergesInvariant, PTL DEF Spec
<1> QED
  BY <1>2 DEF MergedWithOpera

-----------------------------------------------------------------------------
(* While requests do not overlap and nothing fails.                        *)

(* A request that finds or makes the profile of a reservation.             *)
Ensuring(q) == q.at \in {"ensure", "make", "row"}

(* What the only request at work has read is still so: the two rows of a   *)
(* merge, that the row of an edit is not merged, that nobody we know has   *)
(* the email of a guest booked without a profile, and whom OPERA books.    *)
Knows(q, rows, o) ==
  /\ (q.at = "core" /\ q.op = "merge") \/ q.at = "merge" =>
       /\ q.from = rows[q.src] /\ q.from.into = None
       /\ q.to = rows[q.dst] /\ q.to.into = None
  /\ q.at = "edit" => rows[q.src].into = None
  /\ q.at = "core" /\ q.op = "book" /\ q.guest.link = None =>
       \A p \in Profiles :
         rows[p].there /\ rows[p].into = None /\ rows[p].link # None /\ rows[p].email # None =>
           rows[p].email # q.guest.email
  /\ Ensuring(q) => q.guest.link = o.guest[q.stay].link
  /\ q.at = "row" /\ q.guest.link # None => rows[q.src].link = q.guest.link

(* Every reservation is on the row of OPERA's guest, but for the one the   *)
(* request at work has not written yet and those it is about to move after *)
(* OPERA did.                                                              *)
Ahead(q, r) == q.at = "merge" /\ BothLinked(q) /\ r = q.src
Owned(q, rows, at, o) == \A s \in Stays :
  at[s] # None /\ o.guest[s].link # None /\ ~ (Ensuring(q) /\ q.stay = s) =>
    /\ rows[at[s]].link # None
    /\ o.guest[s].link = IF Ahead(q, at[s]) THEN q.to.link ELSE rows[at[s]].link

LinkedAreCanonical(rows) == \A p \in Profiles : rows[p].link # None => rows[p].into = None
Fits(q, rows, at, o) == Knows(q, rows, o) /\ Owned(q, rows, at, o) /\ LinkedAreCanonical(rows)

(* The request at work, if there is one, and nothing else is different.    *)
Works(q) ==
  \/ Quiet /\ q = Idle
  \/ \E c \in Clerks :
       req[c] = q /\ q.at # "idle" /\ \A d \in Clerks \ {c} : At(d, "idle")
CalmInv == calm => \E q \in Requests : Works(q) /\ Fits(q, profile, row, opera)

(* A request that is not idle is the one at work.                          *)
LEMMA OnlyOne ==
  ASSUME CalmInv, calm, NEW c \in Clerks, ~ At(c, "idle")
  PROVE  /\ \A d \in Clerks \ {c} : At(d, "idle")
         /\ Fits(req[c], profile, row, opera)
<1>1. PICK q \in Requests : Works(q) /\ Fits(q, profile, row, opera)
  BY DEF CalmInv
<1>2. PICK d \in Clerks : req[d] = q /\ q.at # "idle" /\ \A e \in Clerks \ {d} : At(e, "idle")
  BY <1>1 DEF Works, Quiet
<1>3. d = c
  BY <1>2
<1> QED
  BY <1>1, <1>2, <1>3

(* With every clerk idle, the rows fit OPERA's guests.                     *)
LEMMA NoneAtWork ==
  ASSUME CalmInv, calm, Quiet
  PROVE  Fits(Idle, profile, row, opera)
<1>1. PICK q \in Requests : Works(q) /\ Fits(q, profile, row, opera)
  BY DEF CalmInv
<1>2. q = Idle
  BY <1>1 DEF Works, Quiet, At
<1> QED
  BY <1>1, <1>2

(* A step of the only request at work.                                     *)
LEMMA CalmStep ==
  ASSUME ProfilesInv, NEW c \in Clerks, NEW q \in Requests,
         req' = [req EXCEPT ![c] = q], q = Idle \/ q.at # "idle",
         \A d \in Clerks \ {c} : At(d, "idle"),
         Fits(q, profile', row', opera')
  PROVE  CalmInv'
<1>1. req'[c] = q /\ \A d \in Clerks \ {c} : req'[d] = req[d]
  BY DEF ProfilesInv, TypeOK
<1>2. \A d \in Clerks \ {c} : At(d, "idle")'
  BY <1>1 DEF At
<1>3. CASE q = Idle
  <2>1. At(c, "idle")'
    BY <1>1, <1>3 DEF At, Idle
  <2>2. Quiet'
    BY <1>2, <2>1 DEF Quiet
  <2> QED
    BY <1>3, <2>2 DEF CalmInv, Works
<1>4. CASE q.at # "idle"
  BY <1>1, <1>2, <1>4 DEF CalmInv, Works
<1> QED
  BY <1>3, <1>4

(* A request that starts alone, and has read what is so.                   *)
LEMMA CalmStart ==
  ASSUME ProfilesInv, CalmInv, NEW c \in Clerks, NEW q \in Requests, Starts(c, q),
         q.at # "idle",
         LinkedAreCanonical(profile) /\ Owned(Idle, profile, row, opera) =>
           Knows(q, profile, opera) /\ ~ Ahead(q, q.src)
  PROVE  CalmInv'
<1> SUFFICES ASSUME calm' PROVE CalmInv'
  BY DEF CalmInv
<1>1. calm /\ Quiet
  BY DEF Starts, ProfilesInv, TypeOK
<1>2. Fits(Idle, profile, row, opera)
  BY <1>1, NoneAtWork
<1>3. Knows(q, profile, opera) /\ ~ Ahead(q, q.src) /\ LinkedAreCanonical(profile)
  BY <1>2 DEF Fits
<1>4. Owned(q, profile, row, opera)
  BY <1>2, <1>3 DEF Fits, Owned, Ahead, Ensuring, Idle
<1>5. \A d \in Clerks \ {c} : At(d, "idle")
  BY <1>1 DEF Quiet
<1>6. UNCHANGED <<profile, row, opera>> /\ req' = [req EXCEPT ![c] = q]
  BY DEF Starts
<1>7. Fits(q, profile', row', opera')
  BY <1>3, <1>4, <1>6 DEF Fits
<1> QED
  BY <1>5, <1>6, <1>7, CalmStep

(* A merge starts from the rows as they are; OPERA moves nobody before it  *)
(* is asked.                                                               *)
LEMMA StartMergeCalm ==
  ASSUME ProfilesInv, CalmInv, NEW c \in Clerks, NEW p \in Profiles, NEW t \in Profiles,
         StartMerge(c, p, t)
  PROVE  CalmInv'
<1> DEFINE q0 == [Idle EXCEPT !.op = "merge", !.src = p, !.dst = t,
                              !.from = profile[p], !.to = profile[t]]
           q == [q0 EXCEPT !.at = IF AsksOpera(q0) THEN "core" ELSE "merge"]
<1>1. profile[p] \in Profile /\ profile[t] \in Profile
  BY DEF ProfilesInv, TypeOK
<1>2. q \in Requests
  BY <1>1, IdleIsRequest DEF Requests, Idle
<1>3. /\ q.src = p /\ q.dst = t /\ q.from = profile[p] /\ q.to = profile[t] /\ q.op = "merge"
      /\ q.at = IF BothLinked(q) THEN "core" ELSE "merge"
  BY DEF Idle, AsksOpera, BothLinked
<1>4. Starts(c, q) /\ profile[p].into = None /\ profile[t].into = None
  BY DEF StartMerge, Canonical
<1> HIDE DEF q
<1>5. Knows(q, profile, opera) /\ ~ Ahead(q, q.src) /\ q.at # "idle"
  <2>1. CASE BothLinked(q)
    BY <1>3, <1>4, <2>1 DEF Knows, Ahead, Ensuring
  <2>2. CASE ~ BothLinked(q)
    BY <1>3, <1>4, <2>2 DEF Knows, Ahead, Ensuring
  <2> QED
    BY <2>1, <2>2
<1> QED
  BY <1>2, <1>4, <1>5, CalmStart

(* An edit starts on a row that is not merged.                             *)
LEMMA StartEditCalm ==
  ASSUME ProfilesInv, CalmInv, NEW c \in Clerks, NEW p \in Profiles, StartEdit(c, p)
  PROVE  CalmInv'
<1>1. profile[p].into = None
  BY DEF StartEdit, MayEdit, Canonical
<1>2. ASSUME NEW q \in Requests, Starts(c, q), q.at = "edit", q.src = p PROVE CalmInv'
  <2>1. Knows(q, profile, opera) /\ ~ Ahead(q, q.src)
    BY <1>1, <1>2 DEF Knows, Ahead, Ensuring
  <2> QED
    BY <1>2, <2>1, CalmStart
<1>3. ASSUME NEW new \in SUBSET Facts,
             Starts(c, [Idle EXCEPT !.at = "edit", !.op = "note", !.src = p, !.facts = new])
      PROVE  CalmInv'
  <2> DEFINE q == [Idle EXCEPT !.at = "edit", !.op = "note", !.src = p, !.facts = new]
  <2>1. q \in Requests /\ q.at = "edit" /\ q.src = p
    BY IdleIsRequest DEF Requests, Idle
  <2> HIDE DEF q
  <2> QED
    BY <1>2, <1>3, <2>1 DEF q
<1>4. ASSUME NEW e \in Emails \cup {None},
             Starts(c, [Idle EXCEPT !.at = "edit", !.op = "email", !.src = p, !.guest.email = e])
      PROVE  CalmInv'
  <2> DEFINE q == [Idle EXCEPT !.at = "edit", !.op = "email", !.src = p, !.guest.email = e]
  <2>1. q \in Requests /\ q.at = "edit" /\ q.src = p
    BY IdleIsRequest DEF Requests, Idle, Guest, NoGuest
  <2> HIDE DEF q
  <2> QED
    BY <1>2, <1>4, <2>1 DEF q
<1> QED
  BY <1>3, <1>4 DEF StartEdit

(* A booking that names no profile of OPERA's looked for the email first.  *)
LEMMA StartBookCalm ==
  ASSUME ProfilesInv, CalmInv, NEW c \in Clerks, NEW s \in Stays, NEW e \in Emails \cup {None},
         StartBook(c, s, e)
  PROVE  CalmInv'
<1>1. PICK x \in Known(e) :
        Starts(c, [Idle EXCEPT !.at = "core", !.op = "book", !.stay = s,
                     !.guest = [booked |-> TRUE, link |-> x, email |-> e]])
  BY DEF StartBook
<1> DEFINE q == [Idle EXCEPT !.at = "core", !.op = "book", !.stay = s,
                   !.guest = [booked |-> TRUE, link |-> x, email |-> e]]
<1>2. x \in Links \cup {None}
  BY DEF Known, ProfilesInv, TypeOK, Profile
<1>3. q \in Requests
  BY <1>2, IdleIsRequest DEF Requests, Idle, Guest
<1>4. q.at = "core" /\ q.op = "book" /\ q.guest.link = x /\ q.guest.email = e
  BY DEF Idle
<1>5. x = None => ~ \E p \in Profiles : IsKnown(p) /\ profile[p].email = e
  BY DEF Known, IsKnown
<1>6. Starts(c, q)
  BY <1>1
<1> HIDE DEF q
<1>7. Knows(q, profile, opera) /\ ~ Ahead(q, q.src)
  BY <1>4, <1>5 DEF Knows, Ahead, Ensuring, IsKnown, Canonical
<1> QED
  BY <1>3, <1>4, <1>6, <1>7, CalmStart

(* A pull starts with the guest OPERA has.                                 *)
LEMMA StartPullCalm ==
  ASSUME ProfilesInv, CalmInv, NEW c \in Clerks, NEW s \in Stays, StartPull(c, s)
  PROVE  CalmInv'
<1> DEFINE q == [Idle EXCEPT !.at = "ensure", !.op = "book", !.stay = s, !.guest = opera.guest[s]]
<1>1. opera.guest[s] \in Guest
  BY DEF ProfilesInv, TypeOK, OperaState
<1>2. q \in Requests
  BY <1>1, IdleIsRequest DEF Requests, Idle
<1>3. q.at = "ensure" /\ q.op = "book" /\ q.stay = s /\ q.guest = opera.guest[s]
  BY DEF Idle
<1>4. Starts(c, q)
  BY DEF StartPull
<1> HIDE DEF q
<1>5. Knows(q, profile, opera) /\ ~ Ahead(q, q.src)
  BY <1>3 DEF Knows, Ahead, Ensuring
<1> QED
  BY <1>2, <1>3, <1>4, <1>5, CalmStart

(* Every other step belongs to the only request at work.                   *)
LEMMA CalmGoes ==
  ASSUME ProfilesInv, CalmInv, NEW c \in Clerks, ~ At(c, "idle"), NEW q \in Requests,
         Goes(c, q), q = Idle \/ q.at # "idle",
         Fits(req[c], profile, row, opera) => Fits(q, profile', row', opera')
  PROVE  CalmInv'
<1> SUFFICES ASSUME calm' PROVE CalmInv'
  BY DEF CalmInv
<1>1. calm /\ req' = [req EXCEPT ![c] = q]
  BY DEF Goes
<1> QED
  BY <1>1, OnlyOne, CalmStep

(* A request that ends without writing leaves what fits, when the rows it  *)
(* read are not ahead of OPERA.                                            *)
LEMMA EndsCalm ==
  ASSUME ProfilesInv, CalmInv, NEW c \in Clerks, ~ At(c, "idle"), Goes(c, Idle),
         UNCHANGED <<profile, row, opera>>, ~ Ensuring(req[c]), ~ Ahead(req[c], req[c].src)
  PROVE  CalmInv'
<1>1. ASSUME Fits(req[c], profile, row, opera) PROVE Fits(Idle, profile', row', opera')
  <2>1. Knows(Idle, profile, opera)
    BY DEF Knows, Idle, Ensuring
  <2>2. Owned(Idle, profile, row, opera)
    BY <1>1 DEF Fits, Owned, Ahead, Ensuring, Idle
  <2> QED
    BY <1>1, <2>1, <2>2 DEF Fits
<1> QED
  BY <1>1, CalmGoes, IdleIsRequest

(* OPERA refuses: nothing was written.                                     *)
LEMMA CoreRefusesCalm ==
  ASSUME ProfilesInv, CalmInv, NEW c \in Clerks, CoreRefuses(c)
  PROVE  CalmInv'
<1>1. req[c].at = "core" /\ Goes(c, Idle) /\ UNCHANGED <<profile, row, opera>>
  BY DEF CoreRefuses, At
<1>2. ~ At(c, "idle") /\ ~ Ensuring(req[c]) /\ ~ Ahead(req[c], req[c].src)
  BY <1>1 DEF At, Ensuring, Ahead
<1> QED
  BY <1>1, <1>2, EndsCalm

(* A merge whose transaction fails did not ask OPERA.                      *)
LEMMA MergeFailsCalm ==
  ASSUME ProfilesInv, CalmInv, NEW c \in Clerks, MergeFails(c)
  PROVE  CalmInv'
<1> SUFFICES ASSUME calm' PROVE CalmInv'
  BY DEF CalmInv
<1>1. /\ req[c].at = "merge" /\ Goes(c, Idle) /\ UNCHANGED <<profile, row, opera>>
      /\ ~ Free(req[c]) /\ calm
  BY DEF MergeFails, At, Goes
<1>2. ~ At(c, "idle") /\ ~ Ensuring(req[c])
  BY <1>1 DEF At, Ensuring
<1>3. /\ req[c].to = profile[req[c].dst] /\ req[c].dst \in Profiles
  BY <1>1, <1>2, OnlyOne, HoldsIsInv DEF Fits, Knows, Holds, ProfilesInv
<1>4. ~ BothLinked(req[c])
  <2> SUFFICES ASSUME BothLinked(req[c]) PROVE Free(req[c])
    BY <1>1
  <2>1. Filled(req[c]) = profile[req[c].dst].link
    BY <1>3 DEF BothLinked, Filled, Fill
  <2> QED
    BY <1>3, <2>1 DEF Free, ProfilesInv, LinksAreReal
<1> QED
  BY <1>1, <1>2, <1>4, EndsCalm DEF Ahead

(* Once the row of a reservation is written, it is on its guest's row.     *)
LEMMA WriteRowCalm ==
  ASSUME ProfilesInv, CalmInv, NEW c \in Clerks, WriteRow(c)
  PROVE  CalmInv'
<1> DEFINE q == req[c]
<1>1. /\ q.at = "row" /\ Goes(c, Idle) /\ UNCHANGED <<profile, opera>> /\ ~ At(c, "idle")
      /\ row' = [row EXCEPT ![q.stay] = q.src] /\ row \in [Stays -> Profiles \cup {None}]
  BY DEF WriteRow, At, ProfilesInv, TypeOK
<1> HIDE DEF q
<1>2. ASSUME Fits(q, profile, row, opera) PROVE Fits(Idle, profile', row', opera')
  <2>1. Knows(Idle, profile', opera')
    BY DEF Knows, Idle, Ensuring
  <2>2. ASSUME NEW s \in Stays, row'[s] # None, opera.guest[s].link # None
        PROVE  profile[row'[s]].link # None /\ opera.guest[s].link = profile[row'[s]].link
    <3>1. CASE s = q.stay
      BY <1>1, <1>2, <2>2, <3>1 DEF Fits, Knows, Ensuring
    <3>2. CASE s # q.stay
      BY <1>1, <1>2, <2>2, <3>2 DEF Fits, Owned, Ahead
    <3> QED
      BY <3>1, <3>2
  <2>3. Owned(Idle, profile', row', opera')
    BY <1>1, <2>2 DEF Owned, Ahead, Idle
  <2> QED
    BY <1>1, <1>2, <2>1, <2>3 DEF Fits
<1> QED
  BY <1>1, <1>2, CalmGoes, IdleIsRequest DEF q

(* OPERA moves the reservations of the profile it gives up, and those are  *)
(* the ones on the row about to be merged.                                 *)
LEMMA MergeInOperaCalm ==
  ASSUME ProfilesInv, CalmInv, NEW c \in Clerks, MergeInOpera(c)
  PROVE  CalmInv'
<1> DEFINE q == req[c]
           q2 == [q EXCEPT !.at = "merge"]
           x == q.from.link
           y == q.to.link
<1>1. /\ q.at = "core" /\ q.op = "merge" /\ Goes(c, q2) /\ UNCHANGED <<profile, row>>
      /\ ~ At(c, "idle") /\ OperaMerges(x, y)
  BY DEF MergeInOpera, At
<1>2. q \in Requests /\ Holds(q, profile, opera.link) /\ opera.guest \in [Stays -> Guest]
  BY HoldsIsInv DEF ProfilesInv, TypeOK, OperaState
<1>3. /\ q2 \in Requests /\ q2.at = "merge" /\ q2.src = q.src /\ q2.dst = q.dst
      /\ q2.from = q.from /\ q2.to = q.to
  BY <1>2 DEF Requests
<1>4. q.src \in Profiles /\ x # None /\ y # None
  BY <1>1, <1>2 DEF Holds, BothLinked
<1>5. \A s \in Stays : opera'.guest[s].link = IF opera.guest[s].link = x THEN y ELSE opera.guest[s].link
  BY <1>1, <1>2 DEF OperaMerges, Guest
<1> HIDE DEF q, q2, x, y
<1>6. ASSUME Fits(q, profile, row, opera) PROVE Fits(q2, profile', row', opera')
  <2>1. Knows(q2, profile', opera')
    BY <1>1, <1>3, <1>6 DEF Fits, Knows, Ensuring
  <2>2. ASSUME NEW s \in Stays, row[s] # None, opera'.guest[s].link # None
        PROVE  /\ profile[row[s]].link # None
               /\ opera'.guest[s].link = IF Ahead(q2, row[s]) THEN y ELSE profile[row[s]].link
    <3>1. opera.guest[s].link # None
      BY <1>4, <1>5, <2>2
    <3>2. profile[row[s]].link # None /\ opera.guest[s].link = profile[row[s]].link
      BY <1>1, <1>6, <2>2, <3>1 DEF Fits, Owned, Ensuring, Ahead
    <3>3. row[s] \in Profiles /\ profile[q.src].link = x
      BY <1>1, <1>6, <2>2 DEF Fits, Knows, ProfilesInv, TypeOK, x
    <3>4. CASE row[s] = q.src
      BY <1>3, <1>4, <1>5, <3>2, <3>3, <3>4 DEF Ahead, BothLinked, x, y
    <3>5. CASE row[s] # q.src
      <4>1. opera.guest[s].link # x
        BY <1>4, <3>2, <3>3, <3>5 DEF ProfilesInv, LinksAreReal
      <4> QED
        BY <1>3, <1>5, <3>2, <3>5, <4>1 DEF Ahead
    <3> QED
      BY <3>4, <3>5
  <2>3. Owned(q2, profile', row', opera')
    BY <1>1, <1>3, <2>2 DEF Owned, y
  <2> QED
    BY <1>1, <1>6, <2>1, <2>3 DEF Fits
<1> QED
  BY <1>1, <1>3, <1>6, CalmGoes DEF q

(* OPERA books one reservation, for the email it is told of.               *)
LEMMA BooksOneGuest ==
  ASSUME opera \in OperaState, NEW s, NEW g \in Guest, OperaBooks(s, g)
  PROVE  \E h \in Guest : h.email = g.email /\ opera'.guest = [opera.guest EXCEPT ![s] = h]
<1>1. CASE opera' = [opera EXCEPT !.guest[s] = g]
  <2>1. opera'.guest = [opera.guest EXCEPT ![s] = g]
    BY <1>1 DEF OperaState
  <2> QED
    BY <2>1
<1>2. ASSUME NEW x \in Links,
             opera' = [opera EXCEPT !.link[x] = "live", !.guest[s] = [g EXCEPT !.link = x]]
      PROVE  \E h \in Guest : h.email = g.email /\ opera'.guest = [opera.guest EXCEPT ![s] = h]
  <2>1. [g EXCEPT !.link = x] \in Guest /\ [g EXCEPT !.link = x].email = g.email
    BY DEF Guest
  <2>2. opera'.guest = [opera.guest EXCEPT ![s] = [g EXCEPT !.link = x]]
    BY <1>2 DEF OperaState
  <2> QED
    BY <2>1, <2>2
<1> QED
  BY <1>1, <1>2 DEF OperaBooks

(* Nothing but the guest of the reservation that is booked changes, and    *)
(* whoever books it knows who it is.                                       *)
LEMMA BookInOperaCalm ==
  ASSUME ProfilesInv, CalmInv, NEW c \in Clerks, BookInOpera(c)
  PROVE  CalmInv'
<1> DEFINE q == req[c]
           q2 == [q EXCEPT !.at = "ensure", !.guest = opera'.guest[q.stay]]
<1>1. /\ q.at = "core" /\ q.op = "book" /\ Goes(c, q2) /\ UNCHANGED <<profile, row>>
      /\ ~ At(c, "idle") /\ OperaBooks(q.stay, q.guest)
  BY DEF BookInOpera, At
<1>2. /\ q \in Requests /\ Holds(q, profile, opera.link) /\ opera.guest \in [Stays -> Guest]
      /\ opera \in OperaState
  BY HoldsIsInv DEF ProfilesInv, TypeOK, OperaState
<1>3. q.stay \in Stays
  BY <1>1, <1>2 DEF Holds
<1>4. /\ opera'.guest[q.stay] \in Guest
      /\ \A s \in Stays \ {q.stay} : opera'.guest[s] = opera.guest[s]
  <2>1. q.guest \in Guest
    BY <1>2 DEF Requests
  <2>2. PICK h \in Guest : opera'.guest = [opera.guest EXCEPT ![q.stay] = h]
    BY <1>1, <1>2, <2>1, BooksOneGuest
  <2> QED
    BY <1>2, <1>3, <2>2
<1>5. /\ q2 \in Requests /\ q2.at = "ensure" /\ q2.stay = q.stay
      /\ q2.guest = opera'.guest[q.stay]
  BY <1>2, <1>4 DEF Requests
<1> HIDE DEF q, q2
<1>6. ASSUME Fits(q, profile, row, opera) PROVE Fits(q2, profile', row', opera')
  <2>1. Knows(q2, profile', opera')
    BY <1>5 DEF Knows, Ensuring
  <2>2. Owned(q2, profile', row', opera')
    BY <1>1, <1>4, <1>5, <1>6 DEF Fits, Owned, Ensuring, Ahead
  <2> QED
    BY <1>1, <1>6, <2>1, <2>2 DEF Fits
<1> QED
  BY <1>1, <1>5, <1>6, CalmGoes DEF q

(* A row that is made, or found and given the email OPERA has, moves no    *)
(* link; so the reservations stay with their guests, and the request may   *)
(* write its row.                                                          *)
LEMMA FoundCalm ==
  ASSUME ProfilesInv, CalmInv, NEW c \in Clerks, req[c].at \in {"ensure", "make"},
         NEW p \in Profiles, Goes(c, [req[c] EXCEPT !.at = "row", !.src = p]),
         UNCHANGED <<row, opera>>,
         \A t \in Profiles : profile[t].there => profile'[t].link = profile[t].link,
         \A t \in Profiles : profile'[t].into = profile[t].into,
         LinkedAreCanonical(profile) => LinkedAreCanonical(profile'),
         req[c].guest.link # None => profile'[p].link = req[c].guest.link
  PROVE  CalmInv'
<1> DEFINE q == req[c]
           q2 == [q EXCEPT !.at = "row", !.src = p]
<1>1. q \in Requests
  BY DEF ProfilesInv, TypeOK
<1>2. /\ q2 \in Requests /\ q2.at = "row" /\ q2.src = p /\ q2.stay = q.stay
      /\ q2.guest = q.guest
  BY <1>1 DEF Requests
<1>3. Goes(c, q2) /\ ~ At(c, "idle") /\ Ensuring(q) /\ q.at # "merge"
  BY DEF At, Ensuring
<1> HIDE DEF q, q2
<1>4. ASSUME Fits(q, profile, row, opera) PROVE Fits(q2, profile', row', opera')
  <2>1. Knows(q2, profile', opera')
    BY <1>2, <1>3, <1>4 DEF Fits, Knows, Ensuring, q
  <2>2. ASSUME NEW s \in Stays, row[s] # None, opera.guest[s].link # None, q.stay # s
        PROVE  profile'[row[s]].link # None /\ opera.guest[s].link = profile'[row[s]].link
    <3>1. row[s] \in Profiles /\ profile[row[s]].there
      BY <2>2 DEF ProfilesInv, TypeOK, RowsAreThere
    <3>2. profile[row[s]].link # None /\ opera.guest[s].link = profile[row[s]].link
      BY <1>3, <1>4, <2>2 DEF Fits, Owned, Ahead
    <3> QED
      BY <3>1, <3>2
  <2>3. Owned(q2, profile', row', opera')
    BY <1>2, <2>2 DEF Owned, Ensuring, Ahead
  <2> QED
    BY <1>4, <2>1, <2>3 DEF Fits
<1> QED
  BY <1>2, <1>3, <1>4, CalmGoes DEF q

(* A row that is made is linked to the guest's profile and is not merged.  *)
LEMMA MakesCalm ==
  ASSUME ProfilesInv, CalmInv, NEW c \in Clerks, req[c].at \in {"ensure", "make"},
         NEW p \in Profiles, Makes(c, p), UNCHANGED <<row, opera>>
  PROVE  CalmInv'
<1>1. /\ profile \in [Profiles -> Profile] /\ ~ profile[p].there
      /\ Goes(c, [req[c] EXCEPT !.at = "row", !.src = p])
      /\ profile' = [profile EXCEPT ![p] = [NoProfile EXCEPT
                   !.there = TRUE, !.link = req[c].guest.link, !.email = req[c].guest.email]]
  BY DEF ProfilesInv, TypeOK, Makes
<1>2. profile'[p].link = req[c].guest.link /\ profile'[p].into = None
  BY <1>1 DEF NoProfile
<1>3. \A t \in Profiles \ {p} : profile'[t] = profile[t]
  BY <1>1
<1>4. profile[p].into = None
  BY <1>1 DEF ProfilesInv, RowsAreThere
<1>5. \A t \in Profiles : profile'[t].into = profile[t].into
  BY <1>2, <1>3, <1>4
<1>6. \A t \in Profiles : profile[t].there => profile'[t].link = profile[t].link
  BY <1>1, <1>3
<1>7. LinkedAreCanonical(profile) => LinkedAreCanonical(profile')
  BY <1>2, <1>3 DEF LinkedAreCanonical
<1> QED
  BY <1>1, <1>2, <1>5, <1>6, <1>7, FoundCalm

LEMMA EnsureLinkedCalm ==
  ASSUME ProfilesInv, CalmInv, NEW c \in Clerks, EnsureLinked(c)
  PROVE  CalmInv'
<1>1. req[c].at = "ensure" /\ UNCHANGED <<row, opera>> /\ profile \in [Profiles -> Profile]
  BY DEF EnsureLinked, At, ProfilesInv, TypeOK
<1>2. ASSUME NEW p \in Profiles, profile[p].link = req[c].guest.link,
             profile' = [profile EXCEPT ![p].email = Fill(req[c].guest.email, @)],
             Goes(c, [req[c] EXCEPT !.at = "row", !.src = p])
      PROVE  CalmInv'
  <2>1. \A t \in Profiles : profile'[t].link = profile[t].link /\ profile'[t].into = profile[t].into
    BY <1>1, <1>2 DEF Profile
  <2>2. LinkedAreCanonical(profile) => LinkedAreCanonical(profile')
    BY <2>1 DEF LinkedAreCanonical
  <2> QED
    BY <1>1, <1>2, <2>1, <2>2, FoundCalm
<1>3. ASSUME NEW p \in Profiles, Makes(c, p) PROVE CalmInv'
  BY <1>1, <1>3, MakesCalm
<1> QED
  BY <1>2, <1>3 DEF EnsureLinked

LEMMA MakeProfileCalm ==
  ASSUME ProfilesInv, CalmInv, NEW c \in Clerks, MakeProfile(c)
  PROVE  CalmInv'
BY MakesCalm DEF MakeProfile, At

(* A guest OPERA does not name is on any row.                              *)
LEMMA EnsureByEmailCalm ==
  ASSUME ProfilesInv, CalmInv, NEW c \in Clerks, EnsureByEmail(c)
  PROVE  CalmInv'
<1> DEFINE q == req[c]
           q2 == [q EXCEPT !.at = "make"]
<1>1. /\ q.at = "ensure" /\ q.guest.link = None /\ UNCHANGED <<profile, row, opera>>
      /\ q \in Requests
  BY DEF EnsureByEmail, At, ProfilesInv, TypeOK
<1>2. ASSUME NEW p \in Profiles, Goes(c, [q EXCEPT !.at = "row", !.src = p]) PROVE CalmInv'
  BY <1>1, <1>2, FoundCalm
<1>3. ASSUME Goes(c, q2) PROVE CalmInv'
  <2>1. q2 \in Requests /\ q2.at = "make" /\ q2.stay = q.stay /\ q2.guest = q.guest
    BY <1>1 DEF Requests
  <2>2. ~ At(c, "idle")
    BY <1>1 DEF At
  <2> HIDE DEF q, q2
  <2>3. Fits(q, profile, row, opera) => Fits(q2, profile', row', opera')
    BY <1>1, <2>1 DEF Fits, Knows, Owned, Ensuring, Ahead
  <2> QED
    BY <1>3, <2>1, <2>2, <2>3, CalmGoes DEF q
<1> QED
  BY <1>2, <1>3 DEF EnsureByEmail

(* An edit changes no link and merges nothing.                             *)
LEMMA WriteEditCalm ==
  ASSUME ProfilesInv, CalmInv, NEW c \in Clerks, WriteEdit(c)
  PROVE  CalmInv'
<1> DEFINE q == req[c]
<1>1. /\ q.at = "edit" /\ Goes(c, Idle) /\ UNCHANGED <<row, opera>> /\ ~ At(c, "idle")
      /\ profile \in [Profiles -> Profile] /\ row \in [Stays -> Profiles \cup {None}]
  BY DEF WriteEdit, At, ProfilesInv, TypeOK
<1>2. \A t \in Profiles : profile'[t].link = profile[t].link /\ profile'[t].into = profile[t].into
  BY <1>1 DEF WriteEdit, Profile
<1> HIDE DEF q
<1>3. ASSUME Fits(q, profile, row, opera) PROVE Fits(Idle, profile', row', opera')
  <2>1. Knows(Idle, profile', opera')
    BY DEF Knows, Idle, Ensuring
  <2>2. LinkedAreCanonical(profile')
    BY <1>2, <1>3 DEF Fits, LinkedAreCanonical
  <2>3. Owned(Idle, profile', row', opera')
    BY <1>1, <1>2, <1>3 DEF Fits, Owned, Ahead, Ensuring, Idle
  <2> QED
    BY <2>1, <2>2, <2>3 DEF Fits
<1> QED
  BY <1>1, <1>3, CalmGoes, IdleIsRequest DEF q

(* The rows and links after a merge that nothing disturbed.                *)
LEMMA WrittenMerge ==
  ASSUME ProfilesInv, NEW c \in Clerks, WriteMerge(c), Knows(req[c], profile, opera)
  PROVE  /\ req[c].src \in Profiles /\ req[c].dst \in Profiles /\ req[c].src # req[c].dst
         /\ req[c].from = profile[req[c].src] /\ req[c].to = profile[req[c].dst]
         /\ req[c].from.into = None /\ req[c].to.into = None
         /\ profile'[req[c].src].link = None /\ profile'[req[c].src].into = req[c].dst
         /\ profile'[req[c].src].facts = profile[req[c].src].facts
         /\ profile'[req[c].dst].link = Filled(req[c]) /\ profile'[req[c].dst].into = None
         /\ profile'[req[c].dst].facts = req[c].to.facts \cup req[c].from.facts
         /\ \A t \in Profiles \ {req[c].src, req[c].dst} : profile'[t] = profile[t]
<1>1. /\ req[c].at = "merge" /\ profile \in [Profiles -> Profile]
      /\ Holds(req[c], profile, opera.link)
  BY HoldsIsInv DEF WriteMerge, At, ProfilesInv, TypeOK
<1>2. /\ req[c].src \in Profiles /\ req[c].dst \in Profiles /\ req[c].src # req[c].dst
      /\ req[c].from = profile[req[c].src] /\ req[c].to = profile[req[c].dst]
      /\ req[c].from.into = None /\ req[c].to.into = None
  BY <1>1 DEF Holds, Knows
<1> QED
  BY <1>1, <1>2 DEF WriteMerge, Profile

(* A merge moves the reservations of the row that goes to the one that     *)
(* stays, which is linked to whatever OPERA moved them to.                 *)
LEMMA WriteMergeCalm ==
  ASSUME ProfilesInv, CalmInv, NEW c \in Clerks, WriteMerge(c)
  PROVE  CalmInv'
<1> DEFINE q == req[c]
<1>1. /\ q.at = "merge" /\ Goes(c, Idle) /\ UNCHANGED opera /\ ~ At(c, "idle")
      /\ row \in [Stays -> Profiles \cup {None}] /\ row' = Moved(q) /\ Free(q)
  BY DEF WriteMerge, At, ProfilesInv, TypeOK
<1>2. ASSUME Fits(q, profile, row, opera) PROVE Fits(Idle, profile', row', opera')
  <2>1. /\ q.src \in Profiles /\ q.dst \in Profiles /\ q.src # q.dst
        /\ q.from = profile[q.src] /\ q.to = profile[q.dst]
        /\ profile'[q.src].link = None
        /\ profile'[q.dst].link = Filled(q) /\ profile'[q.dst].into = None
        /\ \A t \in Profiles \ {q.src, q.dst} : profile'[t] = profile[t]
    BY <1>2, WrittenMerge DEF Fits
  <2> HIDE DEF q
  <2>2. Knows(Idle, profile', opera')
    BY DEF Knows, Idle, Ensuring
  <2>3. LinkedAreCanonical(profile')
    BY <1>2, <2>1 DEF Fits, LinkedAreCanonical
  <2>4. q.from.link # None => q.to.link # None
    BY <1>1, <2>1 DEF Free, Filled, Fill
  <2>5. ASSUME NEW s \in Stays, row'[s] # None, opera.guest[s].link # None
        PROVE  profile'[row'[s]].link # None /\ opera.guest[s].link = profile'[row'[s]].link
    <3>1. row[s] # None /\ row[s] \in Profiles /\ row'[s] = IF row[s] = q.src THEN q.dst ELSE row[s]
      BY <1>1, <2>1, <2>5, NoneIsNew DEF Moved
    <3>2. /\ profile[row[s]].link # None
          /\ opera.guest[s].link = IF Ahead(q, row[s]) THEN q.to.link ELSE profile[row[s]].link
      BY <1>1, <1>2, <2>5, <3>1 DEF Fits, Owned, Ensuring
    <3>3. CASE row[s] = q.src
      <4>1. BothLinked(q) /\ Ahead(q, row[s])
        BY <1>1, <2>1, <2>4, <3>2, <3>3 DEF BothLinked, Ahead
      <4> QED
        BY <2>1, <3>1, <3>2, <3>3, <4>1 DEF Filled, Fill, BothLinked
    <3>4. CASE row[s] = q.dst
      BY <2>1, <3>1, <3>2, <3>4 DEF Filled, Fill, Ahead
    <3>5. CASE row[s] # q.src /\ row[s] # q.dst
      BY <2>1, <3>1, <3>2, <3>5 DEF Ahead
    <3> QED
      BY <3>3, <3>4, <3>5
  <2>6. Owned(Idle, profile', row', opera')
    BY <1>1, <2>5 DEF Owned, Ahead, Idle
  <2> QED
    BY <2>2, <2>3, <2>6 DEF Fits
<1> QED
  BY <1>1, <1>2, CalmGoes, IdleIsRequest DEF q

(* While requests do not overlap and nothing fails, only what the request  *)
(* at work is about to write differs from OPERA.                           *)
LEMMA CalmNext ==
  ASSUME ProfilesInv, CalmInv, Next
  PROVE  CalmInv'
<1>1. PICK c \in Clerks :
           \/ \E p \in Profiles : \E t \in Profiles : StartMerge(c, p, t)
           \/ MergeInOpera(c) \/ BookInOpera(c)
           \/ WriteMerge(c) \/ WriteEdit(c) \/ EnsureLinked(c) \/ MakeProfile(c)
           \/ \/ CoreRefuses(c) \/ MergeFails(c) \/ Dies(c) \/ WriteRow(c) \/ EnsureByEmail(c)
              \/ \E p \in Profiles : StartEdit(c, p)
              \/ \E s \in Stays : \E e \in Emails \cup {None} : StartBook(c, s, e)
              \/ \E s \in Stays : StartPull(c, s)
  BY StepIsOneOf
<1>2. CASE \/ \E p \in Profiles : \E t \in Profiles : StartMerge(c, p, t)
           \/ \E p \in Profiles : StartEdit(c, p)
           \/ \E s \in Stays : \E e \in Emails \cup {None} : StartBook(c, s, e)
           \/ \E s \in Stays : StartPull(c, s)
  BY <1>2, StartMergeCalm, StartEditCalm, StartBookCalm, StartPullCalm
<1>3. CASE MergeInOpera(c) \/ BookInOpera(c) \/ CoreRefuses(c)
  BY <1>3, MergeInOperaCalm, BookInOperaCalm, CoreRefusesCalm
<1>4. CASE WriteMerge(c) \/ MergeFails(c) \/ WriteEdit(c)
  BY <1>4, WriteMergeCalm, MergeFailsCalm, WriteEditCalm
<1>5. CASE EnsureLinked(c) \/ EnsureByEmail(c) \/ MakeProfile(c) \/ WriteRow(c)
  BY <1>5, EnsureLinkedCalm, EnsureByEmailCalm, MakeProfileCalm, WriteRowCalm
<1>6. CASE Dies(c)
  BY <1>6 DEF Dies, CalmInv
<1> QED
  BY <1>1, <1>2, <1>3, <1>4, <1>5, <1>6

LEMMA CalmAlways == Spec => [](ProfilesInv /\ CalmInv)
<1>1. Init => CalmInv
  <2> SUFFICES ASSUME Init PROVE CalmInv
    OBVIOUS
  <2>1. Works(Idle)
    BY DEF Init, Works, Quiet, At, Idle
  <2>2. Fits(Idle, profile, row, opera)
    BY DEF Init, Fits, Knows, Owned, LinkedAreCanonical, Ensuring, Idle, NoProfile
  <2> QED
    BY <2>1, <2>2, IdleIsRequest DEF CalmInv
<1>2. ProfilesInv /\ CalmInv /\ [Next]_vars => CalmInv'
  <2>1. ASSUME CalmInv, UNCHANGED vars PROVE CalmInv'
    BY <2>1 DEF vars, CalmInv, Works, Quiet, At
  <2> QED
    BY <2>1, CalmNext
<1> QED
  BY <1>1, <1>2, ProfilesInvariant, PTL DEF Spec

(* While requests do not overlap and nothing fails, a reservation whose    *)
(* guest OPERA names is on the one row linked to that profile, and that    *)
(* row is not merged away, after any number of merges, bookings and pulls. *)
THEOREM StayIsWithItsGuestAlways == Spec => []StayIsWithItsGuest
<1>1. ProfilesInv /\ CalmInv => StayIsWithItsGuest
  <2> SUFFICES ASSUME ProfilesInv, CalmInv, calm, Quiet, NEW s \in Stays,
                      row[s] # None, opera.guest[s].link # None
               PROVE  profile[row[s]].link = opera.guest[s].link /\ Canonical(row[s])
    BY DEF StayIsWithItsGuest
  <2>1. Owned(Idle, profile, row, opera) /\ LinkedAreCanonical(profile)
    BY NoneAtWork DEF Fits
  <2>2. profile[row[s]].link # None /\ opera.guest[s].link = profile[row[s]].link
    BY <2>1 DEF Owned, Ensuring, Ahead, Idle
  <2>3. row[s] \in Profiles /\ profile[row[s]].there
    BY DEF ProfilesInv, TypeOK, RowsAreThere
  <2> QED
    BY <2>1, <2>2, <2>3 DEF LinkedAreCanonical, Canonical
<1> QED
  BY <1>1, CalmAlways, PTL

-----------------------------------------------------------------------------
(* What the steps of a calm history may not do.                            *)

(* What a step does with the facts and the merges, when the one request at *)
(* work reads what is so.                                                  *)
FactsFollow == \A p \in Profiles :
  LET t == profile'[p].into IN
  /\ profile[p].into # t => profile[p].facts \subseteq profile'[t].facts
  /\ profile[p].into # None => profile'[p].facts = profile[p].facts

LEMMA MakesFacts ==
  ASSUME ProfilesInv, NEW c \in Clerks, NEW p \in Profiles, Makes(c, p)
  PROVE  FactsFollow
<1>1. profile[p].into = None /\ profile'[p].into = None
  BY DEF Makes, NoProfile, ProfilesInv, TypeOK, RowsAreThere
<1>2. \A t \in Profiles \ {p} : profile'[t] = profile[t]
  BY DEF Makes, ProfilesInv, TypeOK
<1> QED
  BY <1>1, <1>2 DEF FactsFollow

LEMMA WriteMergeFacts ==
  ASSUME ProfilesInv, CalmInv, calm, NEW c \in Clerks, WriteMerge(c)
  PROVE  FactsFollow
<1>1. ~ At(c, "idle")
  BY DEF WriteMerge, At
<1>2. Knows(req[c], profile, opera)
  BY <1>1, OnlyOne DEF Fits
<1> QED
  BY <1>2, WrittenMerge DEF FactsFollow

LEMMA WriteEditFacts ==
  ASSUME ProfilesInv, CalmInv, calm, NEW c \in Clerks, WriteEdit(c)
  PROVE  FactsFollow
<1>1. ~ At(c, "idle") /\ req[c].at = "edit" /\ profile \in [Profiles -> Profile]
  BY DEF WriteEdit, At, ProfilesInv, TypeOK
<1>2. profile[req[c].src].into = None
  BY <1>1, OnlyOne DEF Fits, Knows
<1>3. \A t \in Profiles : profile'[t].into = profile[t].into
  BY <1>1 DEF WriteEdit, Profile
<1>4. \A t \in Profiles \ {req[c].src} : profile'[t] = profile[t]
  BY <1>1 DEF WriteEdit
<1> QED
  BY <1>2, <1>3, <1>4 DEF FactsFollow

LEMMA EnsureLinkedFacts ==
  ASSUME ProfilesInv, NEW c \in Clerks, EnsureLinked(c)
  PROVE  FactsFollow
<1>1. CASE \E p \in Profiles : Makes(c, p)
  BY <1>1, MakesFacts
<1>2. CASE \E p \in Profiles : profile' = [profile EXCEPT ![p].email = Fill(req[c].guest.email, @)]
  <2>1. \A t \in Profiles : profile'[t].into = profile[t].into /\ profile'[t].facts = profile[t].facts
    BY <1>2 DEF ProfilesInv, TypeOK, Profile
  <2> QED
    BY <2>1 DEF FactsFollow
<1> QED
  BY <1>1, <1>2 DEF EnsureLinked

(* While requests do not overlap and nothing fails, what is noted about a  *)
(* profile is on the one it is merged into, and the merged one is edited   *)
(* no more (merge, and the refusal of update).                             *)
THEOREM FactsMoveOnAlways == Spec => FactsMoveOn
<1>1. ProfilesInv /\ CalmInv /\ [Next]_vars => [calm => FactsFollow]_vars
  <2> SUFFICES ASSUME ProfilesInv, CalmInv, Next, calm PROVE FactsFollow
    BY DEF vars
  <2>1. PICK c \in Clerks :
           \/ \E p \in Profiles : \E t \in Profiles : StartMerge(c, p, t)
           \/ MergeInOpera(c) \/ BookInOpera(c)
           \/ WriteMerge(c) \/ WriteEdit(c) \/ EnsureLinked(c) \/ MakeProfile(c)
           \/ \/ CoreRefuses(c) \/ MergeFails(c) \/ Dies(c) \/ WriteRow(c) \/ EnsureByEmail(c)
              \/ \E p \in Profiles : StartEdit(c, p)
              \/ \E s \in Stays : \E e \in Emails \cup {None} : StartBook(c, s, e)
              \/ \E s \in Stays : StartPull(c, s)
    BY StepIsOneOf
  <2>2. CASE UNCHANGED profile
    BY <2>2 DEF FactsFollow
  <2>3. CASE WriteMerge(c) \/ WriteEdit(c) \/ EnsureLinked(c)
    BY <2>3, WriteMergeFacts, WriteEditFacts, EnsureLinkedFacts
  <2>4. CASE MakeProfile(c)
    BY <2>4, MakesFacts DEF MakeProfile
  <2> QED
    BY <2>1, <2>2, <2>3, <2>4
    DEF StartMerge, StartEdit, StartBook, StartPull, Starts, MergeInOpera, BookInOpera,
        CoreRefuses, MergeFails, Dies, WriteRow, EnsureByEmail
<1>2. Spec => [][calm => FactsFollow]_vars
  BY <1>1, CalmAlways, PTL DEF Spec
<1> QED
  BY <1>2 DEF FactsMoveOn, FactsFollow

(* While requests do not overlap and nothing fails, OPERA makes no profile *)
(* for a guest one of our canonical rows knows by email (knownProfileId).  *)
THEOREM GuestKnownOnceAlways == Spec => GuestKnownOnce
<1> DEFINE Known1 == \A s \in Stays :
       LET e == opera'.guest[s].email IN
       /\ ~ opera.guest[s].booked /\ opera'.guest[s].booked
       /\ \E p \in Profiles : IsKnown(p) /\ profile[p].email = e
       => opera'.link = opera.link
<1>1. ProfilesInv /\ CalmInv /\ [Next]_vars => [calm => Known1]_vars
  <2> SUFFICES ASSUME ProfilesInv, CalmInv, Next, calm, NEW s \in Stays,
                      ~ opera.guest[s].booked, opera'.guest[s].booked,
                      NEW p \in Profiles, IsKnown(p), profile[p].email = opera'.guest[s].email
               PROVE  opera'.link = opera.link
    BY DEF vars
  <2>1. PICK c \in Clerks :
           \/ \E r \in Profiles : \E t \in Profiles : StartMerge(c, r, t)
           \/ MergeInOpera(c) \/ BookInOpera(c)
           \/ WriteMerge(c) \/ WriteEdit(c) \/ EnsureLinked(c) \/ MakeProfile(c)
           \/ \/ CoreRefuses(c) \/ MergeFails(c) \/ Dies(c) \/ WriteRow(c) \/ EnsureByEmail(c)
              \/ \E r \in Profiles : StartEdit(c, r)
              \/ \E t \in Stays : \E e \in Emails \cup {None} : StartBook(c, t, e)
              \/ \E t \in Stays : StartPull(c, t)
    BY StepIsOneOf
  <2>2. opera \in OperaState /\ opera.guest \in [Stays -> Guest] /\ req[c] \in Requests
    BY DEF ProfilesInv, TypeOK, OperaState
  <2>3. CASE UNCHANGED opera
    BY <2>3
  <2>4. CASE MergeInOpera(c)
    <3>1. opera'.guest[s].booked = opera.guest[s].booked
      BY <2>2, <2>4 DEF MergeInOpera, OperaMerges, Guest
    <3> QED
      BY <3>1
  <2>5. CASE BookInOpera(c)
    <3> DEFINE q == req[c]
    <3>1. /\ q.at = "core" /\ q.op = "book" /\ OperaBooks(q.stay, q.guest) /\ ~ At(c, "idle")
          /\ q.guest \in Guest
      BY <2>2, <2>5 DEF BookInOpera, At, Requests
    <3>2. Knows(q, profile, opera)
      BY <3>1, OnlyOne DEF Fits
    <3> HIDE DEF q
    <3>3. CASE q.guest.link = None
      <4>1. profile[p].email # q.guest.email
        BY <3>1, <3>2, <3>3 DEF Knows, IsKnown, Canonical
      <4>2. PICK h \in Guest :
              h.email = q.guest.email /\ opera'.guest = [opera.guest EXCEPT ![q.stay] = h]
        <5>1. opera \in OperaState /\ q.guest \in Guest /\ OperaBooks(q.stay, q.guest)
          BY <2>2, <3>1
        <5> QED
          BY <5>1, BooksOneGuest, ZenonT(60)
      <4>3. opera'.guest[s].email = q.guest.email
        BY <2>2, <4>2
      <4> QED
        BY <4>1, <4>3
    <3>4. CASE q.guest.link # None
      BY <2>2, <3>1, <3>4 DEF OperaBooks, OperaState
    <3> QED
      BY <3>3, <3>4
  <2> QED
    BY <2>1, <2>3, <2>4, <2>5
    DEF StartMerge, StartEdit, StartBook, StartPull, Starts, WriteMerge, WriteEdit,
        EnsureLinked, MakeProfile, CoreRefuses, MergeFails, Dies, WriteRow, EnsureByEmail
<1>2. Spec => [][calm => Known1]_vars
  BY <1>1, CalmAlways, PTL DEF Spec
<1> QED
  BY <1>2 DEF GuestKnownOnce

=============================================================================
