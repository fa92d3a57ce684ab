--------------------------- MODULE BookingsProofs ---------------------------
(***************************************************************************)
(* Proofs about Bookings, for every number of clerks, reservations, share  *)
(* groups, log rows and pages, and every failure of the environment.       *)
(***************************************************************************)
EXTENDS Bookings, FiniteSetTheorems, TLAPS

-----------------------------------------------------------------------------
(* The parts of the inductive invariant.                                   *)

There(t, r) == t[r].st # "NONE"
Dead(o, r) == o[r].st \in {"CANCELLED", "NO_SHOW"}
ToldBy(S, b) ==
  /\ \E v \in S \ {NoBooking} : b.st = v.st /\ b.dates = v.dates
  /\ \E v \in S : b.terms = v.terms
  /\ \E v \in S : b.share = v.share

(* OPERA's reservations have no gaps, and what it says it said.            *)
OperaInv ==
  /\ \A r \in Res : /\ NoBooking \in said[r] /\ opera[r] \in said[r]
                    /\ \A v \in said[r] : v.st = "NONE" => v = NoBooking
  /\ \A r, s \in Res : s < r /\ There(opera, r) => There(opera, s)

RowInv ==
  \A r \in Res : /\ row[r].st = "NONE" => row[r] = NoBooking
                 /\ row[r].st # "NONE" => ToldBy(said[r], row[r])

(* What is done about the penalty of a cancellation.                       *)
PenaltyDone(o, ow, r) == Dead(o, r) /\ (o[r].fee => r \in ow)
Done(op, L, r, o, w, ow) ==
  /\ L.acted /\ r \in Res /\ There(w, r)
  /\ op = "cancel" => PenaltyDone(o, ow, r)

LogGood(L, o, w, ow) ==
  /\ L.st = "SUCCESS" /\ L.op # "pull" => Done(L.op, L, L.res, o, w, ow)
  /\ L.st = "SUCCESS" /\ L.op = "pull" /\ ~ L.cut => \A r \in L.due : There(w, r)
LogInv == \A l \in Logs : LogGood(log[l], opera, row, owed)

(* What a write still counts on.                                           *)
HoldsWrite(q, L, o, sd, w, ow) ==
  /\ q.at = "core" =>
       /\ q.op # "create" => q.res \in Res /\ There(w, q.res)
       /\ IF q.op = "share" THEN q.with \in Res ELSE q.with = 0
  /\ q.at \in {"mirror", "folio", "partner", "clear"} => L.acted /\ q.res \in Res
  /\ q.at = "mirror" =>
       /\ There(w, q.res) \/ \E b : <<q.res, b>> \in q.todo
       /\ \A a \in q.todo : a[2].st # "NONE" /\ a[2] \in sd[a[1]]
       /\ q.op = "cancel" =>
            /\ Dead(o, q.res)
            /\ \A a \in q.todo : a[2].fee = o[q.res].fee
  /\ q.at \in {"folio", "partner", "clear"} => There(w, q.res)
  /\ q.at = "folio" => q.op = "cancel" /\ Dead(o, q.res)
  /\ q.at \in {"partner", "clear"} => q.op = "unshare"
  /\ q.op = "unshare" => q.group # NoGroup
  /\ q.at = "clear" => q.with \in Res /\ There(w, q.with)
  /\ q.at = "close" /\ q.outcome = "SUCCESS" => Done(q.op, L, q.res, o, w, ow)
  /\ q.at \notin {"list", "pull"}

(* What a pull still counts on: the pages it is through are copied.        *)
HoldsPull(q, L, o, sd, w) ==
  /\ q.at \in {"list", "pull", "close"}
  /\ \A r \in L.due : r \in Res /\ There(o, r)
  /\ q.at \in {"list", "pull"} => q.page < MaxPages
  /\ q.at = "list" /\ ~ q.failed =>
       \A r \in L.due : r <= q.page * PageSize => There(w, r)
  /\ q.at = "pull" =>
       /\ \A a \in q.todo : a[2].st # "NONE" /\ a[2] \in sd[a[1]]
       /\ ~ q.failed => \A r \in L.due : r <= q.page * PageSize + PageSize =>
                          There(w, r) \/ \E b : <<r, b>> \in q.todo
       /\ ~ q.full => \A r \in L.due : r <= q.page * PageSize + PageSize
  /\ q.at = "close" /\ q.outcome = "SUCCESS" /\ ~ L.cut => \A r \in L.due : There(w, r)

Holds(q, L, o, sd, w, ow) ==
  /\ L.st = "PENDING" /\ L.op = q.op
  /\ q.op # "pull" => HoldsWrite(q, L, o, sd, w, ow)
  /\ q.op = "pull" => HoldsPull(q, L, o, sd, w)

ReqInv ==
  /\ \A c \in Clerks : req[c].at # "idle" =>
       /\ req[c].log \in Logs
       /\ Holds(req[c], log[req[c].log], opera, said, row, owed)
  /\ \A c, d \in Clerks :
       c # d /\ req[c].at # "idle" /\ req[d].at # "idle" => req[c].log # req[d].log

IInv == TypeOK /\ OperaInv /\ RowInv /\ LogInv /\ ReqInv

-----------------------------------------------------------------------------
(* Nothing that was told, made or cancelled is taken back.                 *)
Onward ==
  /\ \A r \in Res : /\ There(opera, r) => There(opera', r)
                    /\ Dead(opera, r) => Dead(opera', r) /\ opera'[r].fee = opera[r].fee
                    /\ said[r] \subseteq said'[r]
                    /\ There(row, r) => There(row', r)
  /\ owed \subseteq owed'

(* What a log row says survives.                                           *)
LEMMA LogOnward ==
  ASSUME NEW L \in LogRow, LogGood(L, opera, row, owed), Onward
  PROVE  LogGood(L, opera', row', owed')
BY DEF LogGood, Done, PenaltyDone, Onward, LogRow

(* What a request counts on survives the steps of all the others.          *)
LEMMA HoldsOnward ==
  ASSUME NEW q \in Requests, NEW L \in LogRow, Holds(q, L, opera, said, row, owed), Onward
  PROVE  Holds(q, L, opera', said', row', owed')
<1>1. q.todo \subseteq Res \X Booking
  BY DEF Requests
<1>2. ASSUME HoldsWrite(q, L, opera, said, row, owed)
      PROVE  HoldsWrite(q, L, opera', said', row', owed')
  <2>1. q.at = "mirror" =>
          /\ There(row', q.res) \/ \E b : <<q.res, b>> \in q.todo
          /\ \A a \in q.todo : a[2].st # "NONE" /\ a[2] \in said'[a[1]]
    BY <1>1, <1>2 DEF HoldsWrite, Onward
  <2>2. q.at = "mirror" /\ q.op = "cancel" =>
            /\ Dead(opera', q.res)
            /\ \A a \in q.todo : a[2].fee = opera'[q.res].fee
    BY <1>2 DEF HoldsWrite, Onward
  <2>3. q.at = "close" /\ q.outcome = "SUCCESS" => Done(q.op, L, q.res, opera', row', owed')
    BY <1>2 DEF HoldsWrite, Done, PenaltyDone, Onward
  <2> QED
    BY <1>2, <2>1, <2>2, <2>3 DEF HoldsWrite, Onward
<1>3. ASSUME HoldsPull(q, L, opera, said, row) PROVE HoldsPull(q, L, opera', said', row')
  <2>1. \A a \in q.todo : a[2] \in said[a[1]] => a[2] \in said'[a[1]]
    BY <1>1 DEF Onward
  <2>2. \A r \in L.due : r \in Res /\ There(opera', r) /\ (There(row, r) => There(row', r))
    BY <1>3 DEF HoldsPull, Onward
  <2> QED
    BY <1>3, <2>1, <2>2 DEF HoldsPull
<1> QED
  BY <1>2, <1>3 DEF Holds

(* The invariant after a step of one request on its log row.               *)
LEMMA Step ==
  ASSUME IInv, NEW c \in Clerks, NEW l \in Logs, NEW q \in Requests, NEW L \in LogRow,
         (l = req[c].log /\ req[c].at # "idle") \/ (log[l].st = "NONE" /\ req[c].at = "idle"),
         log' = [log EXCEPT ![l] = L], req' = [req EXCEPT ![c] = q],
         LogGood(L, opera', row', owed'),
         q.at # "idle" => q.log = l /\ Holds(q, L, opera', said', row', owed'),
         Onward, opera' \in [Res -> Booking], said' \in [Res -> SUBSET Booking],
         row' \in [Res -> Booking], owed' \subseteq Res, faults' \subseteq Res,
         OperaInv', RowInv'
  PROVE  IInv'
<1>1. log \in [Logs -> LogRow] /\ req \in [Clerks -> Requests]
  BY DEF IInv, TypeOK
<1>2. log' \in [Logs -> LogRow] /\ req' \in [Clerks -> Requests]
  BY <1>1
<1>3. log'[l] = L /\ \A m \in Logs : m # l => log'[m] = log[m]
  BY <1>1
<1>4. req'[c] = q /\ \A d \in Clerks : d # c => req'[d] = req[d]
  BY <1>1
<1>5. \A m \in Logs : LogGood(log'[m], opera', row', owed')
  <2>1. ASSUME NEW m \in Logs, m # l PROVE LogGood(log'[m], opera', row', owed')
    <3>1. LogGood(log[m], opera, row, owed)
      BY DEF IInv, LogInv
    <3> QED
      BY <1>1, <1>3, <2>1, <3>1, LogOnward
  <2> QED
    BY <1>3, <2>1
<1>6. ASSUME NEW d \in Clerks, d # c, req[d].at # "idle"
      PROVE  /\ req[d].log \in Logs /\ req[d].log # l
             /\ Holds(req[d], log'[req[d].log], opera', said', row', owed')
  <2>1. req[d].log \in Logs /\ Holds(req[d], log[req[d].log], opera, said, row, owed)
    BY <1>6 DEF IInv, ReqInv
  <2>2. req[d].log # l
    <3>1. CASE req[c].at # "idle"
      BY <1>6, <3>1 DEF IInv, ReqInv
    <3>2. CASE log[l].st = "NONE"
      BY <2>1, <3>2 DEF Holds
    <3> QED
      BY <3>1, <3>2
  <2>3. log'[req[d].log] = log[req[d].log]
    BY <1>3, <2>1, <2>2
  <2> QED
    BY <1>1, <2>1, <2>2, <2>3, HoldsOnward
<1>7. ReqInv'
  <2>1. \A d \in Clerks : req'[d].at # "idle" =>
          /\ req'[d].log \in Logs
          /\ Holds(req'[d], log'[req'[d].log], opera', said', row', owed')
    BY <1>3, <1>4, <1>6
  <2>2. ASSUME NEW b \in Clerks, NEW d \in Clerks, b # d, req'[b].at # "idle",
               req'[d].at # "idle"
        PROVE  req'[b].log # req'[d].log
    <3>1. CASE b = c
      BY <1>4, <1>6, <2>2, <3>1
    <3>2. CASE d = c
      BY <1>4, <1>6, <2>2, <3>2
    <3>3. CASE b # c /\ d # c
      BY <1>4, <2>2, <3>3 DEF IInv, ReqInv
    <3> QED
      BY <3>1, <3>2, <3>3
  <2> QED
    BY <2>1, <2>2 DEF ReqInv
<1> QED
  BY <1>2, <1>5, <1>7 DEF IInv, TypeOK, LogInv

(* The invariant after a step that leaves the requests and the log alone.  *)
LEMMA OthersStep ==
  ASSUME IInv, UNCHANGED <<log, req>>, Onward, opera' \in [Res -> Booking],
         said' \in [Res -> SUBSET Booking], row' \in [Res -> Booking], owed' \subseteq Res,
         faults' \subseteq Res, OperaInv', RowInv'
  PROVE  IInv'
<1>1. log \in [Logs -> LogRow] /\ req \in [Clerks -> Requests]
  BY DEF IInv, TypeOK
<1>2. \A m \in Logs : LogGood(log[m], opera', row', owed')
  BY <1>1, LogOnward DEF IInv, LogInv
<1>3. \A d \in Clerks : req[d].at # "idle" =>
        /\ req[d].log \in Logs
        /\ Holds(req[d], log[req[d].log], opera', said', row', owed')
  BY <1>1, HoldsOnward DEF IInv, ReqInv
<1>4. LogInv'
  BY <1>2 DEF LogInv
<1>5. ReqInv'
  <2>1. \A c, d \in Clerks :
          c # d /\ req[c].at # "idle" /\ req[d].at # "idle" => req[c].log # req[d].log
    BY DEF IInv, ReqInv
  <2> QED
    BY <1>3, <2>1 DEF ReqInv
<1> QED
  BY <1>1, <1>4, <1>5 DEF IInv, TypeOK

-----------------------------------------------------------------------------
(* OPERA.                                                                  *)

LEMMA NoBookingIsOne == NoBooking \in Booking /\ 0 \in 0..MaxChange
BY BookingsAssumption DEF NoBooking, Booking

(* One answer of OPERA adds to what it said, and takes nothing back.       *)
LEMMA OperaSetsStep ==
  ASSUME opera \in [Res -> Booking], said \in [Res -> SUBSET Booking], OperaInv, RowInv,
         NEW new \in [Res -> Booking], OperaSets(new), UNCHANGED <<row, owed>>,
         \A r \in Res : /\ new[r].st = "NONE" => new[r] = NoBooking
                        /\ There(opera, r) => There(new, r)
                        /\ Dead(opera, r) => Dead(new, r) /\ new[r].fee = opera[r].fee,
         \A r, s \in Res : s < r /\ There(new, r) => There(new, s)
  PROVE  /\ opera' = new /\ opera' \in [Res -> Booking] /\ said' \in [Res -> SUBSET Booking]
         /\ \A r \in Res : opera'[r] \in said'[r]
         /\ OperaInv' /\ RowInv' /\ Onward
<1>1. /\ opera' = new
      /\ said' = [r \in Res |-> said[r] \cup {new[r]}]
  BY DEF OperaSets
<1>2. \A r \in Res : said'[r] = said[r] \cup {new[r]}
  BY <1>1
<1>3. said' \in [Res -> SUBSET Booking]
  BY <1>1
<1>4. OperaInv'
  BY <1>1, <1>2 DEF OperaInv
<1>5. RowInv'
  <2>1. ASSUME NEW r \in Res, ToldBy(said[r], row[r]) PROVE ToldBy(said'[r], row[r])
    BY <1>2, <2>1 DEF ToldBy
  <2> QED
    BY <2>1 DEF RowInv
<1>6. Onward
  BY <1>1, <1>2 DEF Onward
<1> QED
  BY <1>1, <1>2, <1>3, <1>4, <1>5, <1>6

(* A reservation that is changed keeps being one; only a live one is       *)
(* cancelled or charged.                                                   *)
LEMMA OperaChangesOne ==
  ASSUME opera \in [Res -> Booking], said \in [Res -> SUBSET Booking], OperaInv, RowInv,
         NEW r \in Res, NEW b \in Booking, There(opera, r), b.st # "NONE",
         Dead(opera, r) => Dead([opera EXCEPT ![r] = b], r) /\ b.fee = opera[r].fee,
         OperaSets([opera EXCEPT ![r] = b]), UNCHANGED <<row, owed>>
  PROVE  /\ opera' = [opera EXCEPT ![r] = b]
         /\ opera' \in [Res -> Booking] /\ said' \in [Res -> SUBSET Booking]
         /\ \A s \in Res : opera'[s] \in said'[s]
         /\ OperaInv' /\ RowInv' /\ Onward
<1>0. PICK new : new = [opera EXCEPT ![r] = b]
  OBVIOUS
<1>1. new \in [Res -> Booking] /\ new[r] = b /\ \A s \in Res : s # r => new[s] = opera[s]
  BY <1>0
<1>2. OperaSets(new) /\ (Dead(opera, r) => Dead(new, r))
  BY <1>0
<1>3. \A s \in Res : /\ new[s].st = "NONE" => new[s] = NoBooking
                     /\ There(opera, s) <=> There(new, s)
                     /\ Dead(opera, s) => Dead(new, s) /\ new[s].fee = opera[s].fee
  BY <1>1, <1>2 DEF OperaInv, There, Dead
<1>4. \A t, s \in Res : s < t /\ There(new, t) => There(new, s)
  BY <1>3 DEF OperaInv
<1>5. /\ opera' = new /\ opera' \in [Res -> Booking] /\ said' \in [Res -> SUBSET Booking]
      /\ \A s \in Res : opera'[s] \in said'[s]
      /\ OperaInv' /\ RowInv' /\ Onward
  BY <1>1, <1>2, <1>3, <1>4, OperaSetsStep
<1> QED
  BY <1>0, <1>5

(* What OPERA does keeps its reservations in order, whoever asked for it.  *)
LEMMA OperaStep ==
  ASSUME opera \in [Res -> Booking], said \in [Res -> SUBSET Booking], OperaInv, RowInv,
         NEW op, NEW r \in Res, NEW s, op = "share" => s \in Res, OperaDoes(op, r, s),
         UNCHANGED <<row, owed>>
  PROVE  /\ opera' \in [Res -> Booking] /\ said' \in [Res -> SUBSET Booking]
         /\ OperaInv' /\ RowInv' /\ Onward
         /\ \A t \in Res : opera'[t] \in said'[t]
         /\ There(opera', r) /\ (op = "share" => There(opera', s))
         /\ op = "cancel" => Dead(opera', r)
<1> DEFINE Result ==
      /\ opera' \in [Res -> Booking] /\ said' \in [Res -> SUBSET Booking]
      /\ OperaInv' /\ RowInv' /\ Onward
      /\ \A t \in Res : opera'[t] \in said'[t]
<1>0. opera[r] \in Booking
  OBVIOUS
<1>1. CASE op = "create" /\ OperaCreates(r)
  <2>1. PICK st \in {"WAITLISTED", "RESERVED"} :
          OperaSets([opera EXCEPT ![r] = [NoBooking EXCEPT !.st = st]])
    BY <1>1 DEF OperaCreates
  <2> DEFINE new == [opera EXCEPT ![r] = [NoBooking EXCEPT !.st = st]]
  <2>2. [NoBooking EXCEPT !.st = st] \in Booking
    BY NoBookingIsOne DEF Booking, NoBooking
  <2>3. new \in [Res -> Booking] /\ new[r].st = st /\ \A t \in Res : t # r => new[t] = opera[t]
    BY <2>2 DEF NoBooking
  <2>4. OperaSets(new)
    BY <2>1
  <2> HIDE DEF new
  <2>5. \A t \in Res : There(opera, t) <=> t < r
    BY <1>1 DEF OperaCreates, Exists, There
  <2>6. \A t \in Res : There(new, t) <=> t <= r
    BY <2>3, <2>5 DEF There, Res
  <2>7. \A t \in Res : /\ new[t].st = "NONE" => new[t] = NoBooking
                       /\ There(opera, t) => There(new, t)
                       /\ Dead(opera, t) => Dead(new, t) /\ new[t].fee = opera[t].fee
    <3>1. ~ There(opera, r)
      BY <2>5 DEF Res
    <3> QED
      BY <2>3, <3>1 DEF There, Dead, OperaInv
  <2>8. \A t, u \in Res : u < t /\ There(new, t) => There(new, u)
    BY <2>6 DEF Res
  <2>9. Result /\ opera' = new
    BY <2>3, <2>4, <2>7, <2>8, OperaSetsStep
  <2> QED
    BY <1>1, <2>3, <2>9 DEF There
<1>2. CASE op \in {"update", "guarantee", "cancel", "noShow", "confirm"}
  <2>1. PICK b \in Booking :
          /\ OperaSets([opera EXCEPT ![r] = b]) /\ b.st # "NONE" /\ There(opera, r)
          /\ ~ Dead(opera, r) /\ (op = "cancel" => b.st = "CANCELLED")
    <3>1. CASE op = "update" /\ OperaUpdates(r)
      <4> DEFINE b == [opera[r] EXCEPT !.dates = @ + 1]
      <4>1. b \in Booking /\ b.st = opera[r].st
        BY <1>0, <3>1, BookingsAssumption DEF Booking, OperaUpdates
      <4>2. OperaSets([opera EXCEPT ![r] = b])
        BY <3>1 DEF OperaUpdates
      <4> QED
        BY <3>1, <4>1, <4>2 DEF OperaUpdates, Live, There, Dead
    <3>2. CASE op = "guarantee" /\ OperaSetsGuarantee(r)
      <4> DEFINE b == [opera[r] EXCEPT !.terms = @ + 1]
      <4>1. b \in Booking /\ b.st = opera[r].st
        BY <1>0, <3>2, BookingsAssumption DEF Booking, OperaSetsGuarantee
      <4>2. OperaSets([opera EXCEPT ![r] = b])
        BY <3>2 DEF OperaSetsGuarantee
      <4> QED
        BY <3>2, <4>1, <4>2 DEF OperaSetsGuarantee, Live, There, Dead
    <3>3. CASE op = "cancel" /\ OperaCancels(r)
      <4>1. PICK fee \in BOOLEAN : OperaSets([opera EXCEPT ![r].st = "CANCELLED", ![r].fee = fee])
        BY <3>3 DEF OperaCancels
      <4> DEFINE b == [[opera[r] EXCEPT !.st = "CANCELLED"] EXCEPT !.fee = fee]
      <4>2. b \in Booking /\ b.st = "CANCELLED"
        BY <1>0 DEF Booking
      <4>3. [opera EXCEPT ![r].st = "CANCELLED", ![r].fee = fee] = [opera EXCEPT ![r] = b]
        OBVIOUS
      <4>4. OperaSets([opera EXCEPT ![r] = b])
        BY <4>1, <4>3
      <4> QED
        BY <3>3, <4>2, <4>4 DEF OperaCancels, Live, There, Dead
    <3>4. CASE op = "noShow" /\ OperaMarksNoShow(r)
      <4>1. PICK fee \in BOOLEAN : OperaSets([opera EXCEPT ![r].st = "NO_SHOW", ![r].fee = fee])
        BY <3>4 DEF OperaMarksNoShow
      <4> DEFINE b == [[opera[r] EXCEPT !.st = "NO_SHOW"] EXCEPT !.fee = fee]
      <4>2. b \in Booking /\ b.st = "NO_SHOW"
        BY <1>0 DEF Booking
      <4>3. [opera EXCEPT ![r].st = "NO_SHOW", ![r].fee = fee] = [opera EXCEPT ![r] = b]
        OBVIOUS
      <4>4. OperaSets([opera EXCEPT ![r] = b])
        BY <4>1, <4>3
      <4> QED
        BY <3>4, <4>2, <4>4 DEF OperaMarksNoShow, Live, There, Dead
    <3>5. CASE op = "confirm" /\ OperaConfirms(r)
      <4> DEFINE b == [opera[r] EXCEPT !.st = "RESERVED"]
      <4>1. b \in Booking /\ b.st = "RESERVED"
        BY <1>0 DEF Booking
      <4>2. OperaSets([opera EXCEPT ![r] = b])
        BY <3>5 DEF OperaConfirms
      <4> QED
        BY <3>5, <4>1, <4>2 DEF OperaConfirms, There, Dead
    <3> QED
      BY <1>2, <3>1, <3>2, <3>3, <3>4, <3>5 DEF OperaDoes
  <2>2. Result /\ opera' = [opera EXCEPT ![r] = b]
    BY <2>1, OperaChangesOne
  <2>3. opera'[r] = b
    BY <2>2
  <2> QED
    BY <1>2, <2>1, <2>2, <2>3 DEF There, Dead
<1>3. CASE op = "share" /\ OperaShares(r, s)
  <2>1. PICK g \in Groups : OperaSets([opera EXCEPT ![r].share = g, ![s].share = g])
    BY <1>3 DEF OperaShares
  <2> DEFINE new == [opera EXCEPT ![r].share = g, ![s].share = g]
  <2>2. r # s /\ s \in Res /\ Live(r) /\ Live(s)
    BY <1>3 DEF OperaShares
  <2>3. new = [t \in Res |-> IF t \in {r, s} THEN [opera[t] EXCEPT !.share = g] ELSE opera[t]]
    BY <2>2
  <2>4. OperaSets(new)
    BY <2>1
  <2> HIDE DEF new
  <2>5. new \in [Res -> Booking]
    BY <2>3 DEF Booking
  <2>6. \A t \in Res : new[t].st = opera[t].st /\ new[t].fee = opera[t].fee
                       /\ (t \notin {r, s} => new[t] = opera[t])
    BY <2>3 DEF Booking
  <2>7. \A t \in Res : /\ new[t].st = "NONE" => new[t] = NoBooking
                       /\ There(opera, t) <=> There(new, t)
                       /\ Dead(opera, t) => Dead(new, t) /\ new[t].fee = opera[t].fee
    BY <2>2, <2>6 DEF There, Dead, OperaInv, Live
  <2>8. \A t, u \in Res : u < t /\ There(new, t) => There(new, u)
    BY <2>7 DEF OperaInv
  <2>9. Result /\ opera' = new
    BY <2>4, <2>5, <2>7, <2>8, OperaSetsStep
  <2> QED
    BY <1>3, <2>2, <2>6, <2>9 DEF There, Live
<1>4. CASE op = "unshare" /\ OperaUnshares(r)
  <2> DEFINE left == Members(opera[r].share) \ {r}
             new == [t \in Res |-> IF t = r \/ (t \in left /\ Cardinality(left) = 1)
                                   THEN [opera[t] EXCEPT !.share = NoGroup] ELSE opera[t]]
  <2>1. OperaSets(new) /\ opera[r].share # NoGroup
    BY <1>4 DEF OperaUnshares
  <2>2. new \in [Res -> Booking]
    BY DEF Booking
  <2>a. \A t \in Res : new[t] = opera[t] \/ new[t] = [opera[t] EXCEPT !.share = NoGroup]
    OBVIOUS
  <2>b. \A t \in Res : opera[t] \in Booking
    OBVIOUS
  <2>c. ASSUME NEW t \in Res, opera[t] = NoBooking PROVE new[t] = opera[t]
    <3>1. opera[t].share = NoGroup
      BY <2>c DEF NoBooking
    <3>2. t # r /\ t \notin left
      BY <2>1, <3>1 DEF Members
    <3> HIDE DEF left
    <3> QED
      BY <3>2
  <2> HIDE DEF new
  <2>3. \A t \in Res : /\ new[t].st = opera[t].st /\ new[t].fee = opera[t].fee
                       /\ opera[t] = NoBooking => new[t] = NoBooking
    <3>2. \A b \in Booking : [b EXCEPT !.share = NoGroup].st = b.st
                             /\ [b EXCEPT !.share = NoGroup].fee = b.fee
      BY DEF Booking
    <3> QED
      BY <2>a, <2>b, <2>c, <3>2
  <2> HIDE DEF new
  <2>4. There(opera, r)
    BY <2>1 DEF OperaInv, There, NoBooking
  <2>5. \A t \in Res : /\ new[t].st = "NONE" => new[t] = NoBooking
                       /\ There(opera, t) <=> There(new, t)
                       /\ Dead(opera, t) => Dead(new, t) /\ new[t].fee = opera[t].fee
    BY <2>3 DEF There, Dead, OperaInv
  <2>6. \A t, u \in Res : u < t /\ There(new, t) => There(new, u)
    BY <2>5 DEF OperaInv
  <2>7. Result /\ opera' = new
    BY <2>1, <2>2, <2>5, <2>6, OperaSetsStep
  <2> QED
    BY <1>4, <2>4, <2>5, <2>7
<1> QED
  BY <1>1, <1>2, <1>3, <1>4 DEF OperaDoes

-----------------------------------------------------------------------------
(* The actions.                                                            *)

LEMMA IdleIsRequest == Idle \in Requests /\ NoRow \in LogRow
<1>1. 0 \in 0..MaxPages
  BY BookingsAssumption
<1>2. "pull" \in Ops /\ "idle" \in Stages /\ "SUCCESS" \in {"SUCCESS", "FAILED"}
  BY DEF Ops, Stages
<1>3. Idle \in Requests
  BY <1>1, <1>2 DEF Idle, Requests
<1>4. NoRow \in LogRow
  BY <1>2 DEF NoRow, LogRow
<1> QED
  BY <1>3, <1>4

(* The invariant before the first request.                                 *)
LEMMA InitInv == Init => IInv
<1> SUFFICES ASSUME Init PROVE IInv
  OBVIOUS
<1>1. PICK n \in 0..MaxRes, g \in Groups \cup {NoGroup} :
        opera = [r \in Res |-> IF r > n THEN NoBooking
                               ELSE [Booked EXCEPT !.share = IF r <= 2 THEN g ELSE @]]
  BY DEF Init
<1>2. Booked \in Booking /\ Booked.st = "RESERVED"
  BY NoBookingIsOne DEF Booked, NoBooking, Booking
<1>3. \A r \in Res : /\ opera[r] \in Booking
                     /\ r > n => opera[r] = NoBooking
                     /\ r <= n => opera[r].st = "RESERVED"
  BY <1>1, <1>2, NoBookingIsOne DEF Booking, Res
<1>4. opera \in [Res -> Booking]
  BY <1>1, <1>3
<1>5. /\ said = [r \in Res |-> {NoBooking, opera[r]}] /\ row = opera /\ owed = {} /\ faults = {}
      /\ log = [l \in Logs |-> NoRow] /\ req = [c \in Clerks |-> Idle]
  BY DEF Init
<1>6. said \in [Res -> SUBSET Booking] /\ \A r \in Res : said[r] = {NoBooking, opera[r]}
  BY <1>3, <1>5, NoBookingIsOne
<1>7. TypeOK
  BY <1>4, <1>5, <1>6, IdleIsRequest DEF TypeOK
<1>8. NoBooking.st = "NONE"
  BY DEF NoBooking
<1>9. \A r \in Res : opera[r].st = "NONE" <=> r > n
  BY <1>3, <1>8 DEF Res
<1>10. \A r \in Res : opera[r].st = "NONE" => opera[r] = NoBooking
  BY <1>3, <1>9
<1>11. OperaInv
  BY <1>6, <1>9, <1>10 DEF OperaInv, There, Res
<1>12. RowInv
  <2>1. ASSUME NEW r \in Res, row[r].st # "NONE" PROVE ToldBy(said[r], row[r])
    BY <1>5, <1>6, <1>8, <2>1 DEF ToldBy
  <2> QED
    BY <1>5, <1>10, <2>1 DEF RowInv
<1>13. LogInv /\ ReqInv
  BY <1>5 DEF LogInv, LogGood, NoRow, ReqInv, Idle
<1> QED
  BY <1>7, <1>11, <1>12, <1>13 DEF IInv

(* Steps that leave OPERA and the rows alone.                              *)
LEMMA NothingMoved ==
  ASSUME IInv, UNCHANGED <<opera, said, row, owed, faults>>
  PROVE  /\ Onward /\ OperaInv' /\ RowInv'
         /\ opera' \in [Res -> Booking] /\ said' \in [Res -> SUBSET Booking]
         /\ row' \in [Res -> Booking] /\ owed' \subseteq Res /\ faults' \subseteq Res
<1>1. OperaInv'
  BY DEF IInv, OperaInv
<1>2. RowInv'
  BY DEF IInv, RowInv
<1> QED
  BY <1>1, <1>2 DEF IInv, TypeOK, Onward

(* A write begins with what it read.                                       *)
LEMMA BeginsInv ==
  ASSUME IInv, NEW c \in Clerks, NEW l \in Logs, NEW op \in Ops \ {"pull"},
         NEW r \in Res \cup {0}, NEW s \in Res \cup {0},
         op # "create" => r \in Res /\ There(row, r),
         IF op = "share" THEN s \in Res ELSE s = 0,
         op = "unshare" => row[r].share # NoGroup,
         Begins(c, l, op, r, s)
  PROVE  IInv'
<1>1. PICK g : g = IF op = "unshare" THEN row[r].share ELSE NoGroup
  OBVIOUS
<1>2. PICK q : q = [Idle EXCEPT !.at = "core", !.op = op, !.res = r, !.with = s, !.log = l,
                                !.group = g]
  OBVIOUS
<1>3. PICK L : L = [NoRow EXCEPT !.st = "PENDING", !.op = op, !.res = r]
  OBVIOUS
<1>4. g \in Groups \cup {NoGroup} /\ (op = "unshare" => g # NoGroup)
  BY <1>1 DEF IInv, TypeOK, Booking
<1>5. /\ q.at = "core" /\ q.op = op /\ q.res = r /\ q.with = s /\ q.log = l /\ q.group = g
  BY <1>2 DEF Idle
<1>6. q \in Requests
  BY <1>2, <1>4, IdleIsRequest DEF Requests, Stages
<1>7. L \in LogRow /\ L.st = "PENDING" /\ L.op = op
  BY <1>3, IdleIsRequest DEF LogRow, NoRow
<1>8. /\ log' = [log EXCEPT ![l] = L] /\ req' = [req EXCEPT ![c] = q]
      /\ log[l].st = "NONE" /\ req[c].at = "idle"
      /\ UNCHANGED <<opera, said, row, owed, faults>>
  BY <1>1, <1>2, <1>3 DEF Begins, Goes, At
<1>9. Holds(q, L, opera', said', row', owed')
  BY <1>4, <1>5, <1>7, <1>8 DEF Holds, HoldsWrite
<1>10. LogGood(L, opera', row', owed')
  BY <1>7 DEF LogGood
<1> QED
  BY <1>5, <1>6, <1>7, <1>8, <1>9, <1>10, NothingMoved, Step

(* A pull begins with what OPERA has.                                      *)
LEMMA StartPullInv ==
  ASSUME IInv, NEW c \in Clerks, NEW l \in Logs, StartPull(c, l)
  PROVE  IInv'
<1>1. PICK q : q = [Idle EXCEPT !.at = "list", !.log = l]
  OBVIOUS
<1>2. PICK L : L = [NoRow EXCEPT !.st = "PENDING", !.due = { r \in Res : Exists(r) }]
  OBVIOUS
<1>3. q \in Requests
  BY <1>1, IdleIsRequest DEF Requests, Stages
<1>4. q.at = "list" /\ q.op = "pull" /\ q.log = l /\ q.page = 0
  BY <1>1 DEF Idle
<1>5. /\ L \in LogRow /\ L.st = "PENDING" /\ L.op = "pull"
      /\ L.due = { r \in Res : Exists(r) }
  BY <1>2, IdleIsRequest DEF LogRow, NoRow
<1>6. /\ log' = [log EXCEPT ![l] = L] /\ req' = [req EXCEPT ![c] = q]
      /\ log[l].st = "NONE" /\ req[c].at = "idle"
      /\ UNCHANGED <<opera, said, row, owed, faults>>
  BY <1>1, <1>2 DEF StartPull, Goes, At
<1>7. \A r \in L.due : ~ r <= 0 * PageSize
  BY <1>5, BookingsAssumption DEF Res
<1>8. 0 < MaxPages
  BY BookingsAssumption
<1>9. Holds(q, L, opera', said', row', owed')
  BY <1>4, <1>5, <1>6, <1>7, <1>8 DEF Holds, HoldsPull, Exists, There
<1>10. LogGood(L, opera', row', owed')
  BY <1>5 DEF LogGood
<1> QED
  BY <1>3, <1>4, <1>5, <1>6, <1>9, <1>10, NothingMoved, Step

(* What is known of a clerk with a request in flight.                      *)
LEMMA InFlight ==
  ASSUME IInv, NEW c \in Clerks, req[c].at # "idle"
  PROVE  /\ req[c] \in Requests /\ req[c].log \in Logs /\ log[req[c].log] \in LogRow
         /\ Holds(req[c], log[req[c].log], opera, said, row, owed)
         /\ log = [log EXCEPT ![req[c].log] = log[req[c].log]]
BY DEF IInv, TypeOK, ReqInv

(* A request that goes on without touching OPERA, a row or its log.        *)
LEMMA GoesOn ==
  ASSUME IInv, NEW c \in Clerks, req[c].at # "idle", NEW q \in Requests, Goes(c, q),
         q.at # "idle", q.log = req[c].log,
         Holds(q, log[q.log], opera, said, row, owed),
         UNCHANGED <<opera, said, row, owed, log, faults>>
  PROVE  IInv'
<1>1. PICK l \in Logs : l = req[c].log
  BY InFlight
<1>2. PICK L \in LogRow : L = log[l] /\ log = [log EXCEPT ![l] = L]
  BY <1>1, InFlight
<1>3. req' = [req EXCEPT ![c] = q] /\ log' = [log EXCEPT ![l] = L]
  BY <1>2 DEF Goes
<1>4. LogGood(L, opera', row', owed')
  BY <1>2 DEF IInv, LogInv
<1>5. Holds(q, L, opera', said', row', owed')
  BY <1>1, <1>2
<1> QED
  BY <1>1, <1>3, <1>4, <1>5, NothingMoved, Step

(* A request that fails ends as failed, which says nothing.                *)
LEMMA EndsFailedInv ==
  ASSUME IInv, NEW c \in Clerks, req[c].at # "idle", Ends(c, "FAILED"),
         UNCHANGED <<opera, said, row, owed, log, faults>>
  PROVE  IInv'
<1>1. PICK q : q = [req[c] EXCEPT !.at = "close", !.outcome = "FAILED"]
  OBVIOUS
<1>a. req[c] \in Requests
  BY InFlight
<1>2. q \in Requests
  BY <1>1, <1>a DEF Requests, Stages
<1>3. /\ q.at = "close" /\ q.outcome = "FAILED" /\ q.log = req[c].log /\ q.op = req[c].op
      /\ q.group = req[c].group
  BY <1>1, InFlight DEF Requests
<1>4. Holds(q, log[q.log], opera, said, row, owed)
  BY <1>3, InFlight DEF Holds, HoldsWrite, HoldsPull
<1>5. Goes(c, q)
  BY <1>1 DEF Ends
<1> QED
  BY <1>2, <1>3, <1>4, <1>5, GoesOn

(* OPERA acts for a request at its call.                                   *)
LEMMA ActsStep ==
  ASSUME IInv, NEW c \in Clerks, NEW r \in Res, Acts(c, r), UNCHANGED <<row, owed>>
  PROVE  /\ opera' \in [Res -> Booking] /\ said' \in [Res -> SUBSET Booking]
         /\ OperaInv' /\ RowInv' /\ Onward
         /\ \A t \in Res : opera'[t] \in said'[t]
         /\ There(opera', r)
         /\ req[c].op = "share" => req[c].with \in Res /\ There(opera', req[c].with)
         /\ req[c].op # "share" => req[c].with = 0
         /\ req[c].op = "cancel" => Dead(opera', r)
         /\ req[c].op # "pull" /\ req[c].at = "core"
<1>1. PICK q \in Requests : q = req[c]
  BY DEF IInv, TypeOK
<1>2. q.at = "core" /\ OperaDoes(q.op, r, q.with)
  BY <1>1 DEF Acts, At
<1>3. Holds(q, log[q.log], opera, said, row, owed)
  BY <1>1, <1>2, InFlight
<1>4. q.op # "pull"
  BY <1>2, <1>3 DEF Holds, HoldsPull
<1>5. IF q.op = "share" THEN q.with \in Res ELSE q.with = 0
  BY <1>2, <1>3, <1>4 DEF Holds, HoldsWrite
<1>6. PICK s : s = q.with
  OBVIOUS
<1>7. PICK op : op = q.op
  OBVIOUS
<1>8. OperaDoes(op, r, s) /\ (op = "share" => s \in Res)
  BY <1>2, <1>5, <1>6, <1>7
<1>9. /\ opera' \in [Res -> Booking] /\ said' \in [Res -> SUBSET Booking]
      /\ OperaInv' /\ RowInv' /\ Onward
      /\ \A t \in Res : opera'[t] \in said'[t]
      /\ There(opera', r) /\ (op = "share" => There(opera', s))
      /\ op = "cancel" => Dead(opera', r)
  BY <1>8, OperaStep DEF IInv, TypeOK
<1> QED
  BY <1>1, <1>2, <1>4, <1>5, <1>6, <1>7, <1>9

(* The log row of a request OPERA acted for.                               *)
LEMMA ActedRow ==
  ASSUME IInv, NEW c \in Clerks, req[c].at # "idle",
         log' = [log EXCEPT ![req[c].log].acted = TRUE]
  PROVE  \E l \in Logs : \E L \in LogRow :
           /\ l = req[c].log /\ log' = [log EXCEPT ![l] = L]
           /\ L.acted /\ L.st = "PENDING" /\ L.op = req[c].op /\ L.due = log[l].due
<1>1. PICK l \in Logs : l = req[c].log
  BY InFlight
<1>2. log[l] \in LogRow /\ log[l].st = "PENDING" /\ log[l].op = req[c].op
  BY <1>1, InFlight DEF Holds
<1>3. PICK L : L = [log[l] EXCEPT !.acted = TRUE]
  OBVIOUS
<1>4. /\ L \in LogRow /\ L.acted /\ L.st = "PENDING" /\ L.op = req[c].op
      /\ L.due = log[l].due
  BY <1>2, <1>3 DEF LogRow
<1>5. log' = [log EXCEPT ![l] = L]
  BY <1>1, <1>3
<1> QED
  BY <1>1, <1>4, <1>5

(* OPERA answers with what it made of the reservations concerned.          *)
LEMMA CoreAnswersInv ==
  ASSUME IInv, NEW c \in Clerks, CoreAnswers(c)
  PROVE  IInv'
<1>1. PICK r \in Res :
        /\ Acts(c, r)
        /\ Goes(c, [req[c] EXCEPT !.at = "mirror", !.res = r,
                     !.todo = { <<s, opera'[s]>> : s \in {r, req[c].with} \ {0} }])
        /\ UNCHANGED <<row, owed, faults>>
  BY DEF CoreAnswers
<1>2. PICK todo : todo = { <<s, opera'[s]>> : s \in {r, req[c].with} \ {0} }
  OBVIOUS
<1>3. PICK q : q = [req[c] EXCEPT !.at = "mirror", !.res = r, !.todo = todo]
  OBVIOUS
<1>4. /\ opera' \in [Res -> Booking] /\ said' \in [Res -> SUBSET Booking]
      /\ OperaInv' /\ RowInv' /\ Onward
      /\ \A t \in Res : opera'[t] \in said'[t]
      /\ There(opera', r)
      /\ req[c].op = "share" => req[c].with \in Res /\ There(opera', req[c].with)
      /\ req[c].op # "share" => req[c].with = 0
      /\ req[c].op = "cancel" => Dead(opera', r)
      /\ req[c].op # "pull" /\ req[c].at = "core"
  BY <1>1, ActsStep
<1>5. \A a \in todo : \E s \in {r, req[c].with} \ {0} : s \in Res /\ a = <<s, opera'[s]>>
                                                  /\ There(opera', s)
  BY <1>2, <1>4
<1>6. \A a \in todo : /\ a \in Res \X Booking /\ a[2].st # "NONE" /\ a[2] \in said'[a[1]]
                      /\ a[2] = opera'[a[1]] /\ (req[c].op # "share" => a[1] = r)
  BY <1>4, <1>5 DEF There
<1>7. <<r, opera'[r]>> \in todo
  BY <1>2 DEF Res
<1>8. req[c] \in Requests
  BY <1>4, InFlight
<1>9. q \in Requests
  BY <1>3, <1>6, <1>8 DEF Requests, Stages
<1>10. /\ q.at = "mirror" /\ q.op = req[c].op /\ q.log = req[c].log /\ q.todo = todo /\ q.res = r
       /\ q.group = req[c].group
  BY <1>3, <1>8 DEF Requests
<1>11. PICK l \in Logs, L \in LogRow :
         /\ l = req[c].log /\ log' = [log EXCEPT ![l] = L]
         /\ L.acted /\ L.st = "PENDING" /\ L.op = req[c].op /\ L.due = log[l].due
  BY <1>1, <1>4, ActedRow DEF Acts
<1>12. req[c].op = "unshare" => q.group # NoGroup
  BY <1>4, <1>10, InFlight DEF Holds, HoldsWrite
<1>13. HoldsWrite(q, L, opera', said', row', owed')
  BY <1>4, <1>6, <1>7, <1>10, <1>11, <1>12 DEF HoldsWrite
<1>14. Holds(q, L, opera', said', row', owed') /\ LogGood(L, opera', row', owed')
  BY <1>4, <1>10, <1>11, <1>13 DEF Holds, LogGood
<1>15. req' = [req EXCEPT ![c] = q]
  BY <1>1, <1>2, <1>3 DEF Goes
<1>16. row' \in [Res -> Booking] /\ owed' \subseteq Res /\ faults' \subseteq Res
  BY <1>1 DEF IInv, TypeOK
<1> QED
  BY <1>4, <1>9, <1>10, <1>11, <1>14, <1>15, <1>16, Step

(* The answer is lost.                                                     *)
LEMMA CoreSilentInv ==
  ASSUME IInv, NEW c \in Clerks, CoreSilent(c)
  PROVE  IInv'
<1>1. PICK r \in Res : Acts(c, r)
  BY DEF CoreSilent
<1>2. PICK q : q = [req[c] EXCEPT !.at = "close", !.outcome = "FAILED"]
  OBVIOUS
<1>3. req' = [req EXCEPT ![c] = q] /\ UNCHANGED <<row, owed, faults>>
  BY <1>2 DEF CoreSilent, Ends, Goes
<1>4. /\ opera' \in [Res -> Booking] /\ said' \in [Res -> SUBSET Booking]
      /\ OperaInv' /\ RowInv' /\ Onward /\ req[c].op # "pull" /\ req[c].at = "core"
  BY <1>1, <1>3, ActsStep
<1>5. req[c] \in Requests
  BY <1>4, InFlight
<1>6. q \in Requests
  BY <1>2, <1>5 DEF Requests, Stages
<1>7. /\ q.at = "close" /\ q.outcome = "FAILED" /\ q.log = req[c].log /\ q.op = req[c].op
      /\ q.group = req[c].group
  BY <1>2, <1>5 DEF Requests
<1>8. PICK l \in Logs, L \in LogRow :
         /\ l = req[c].log /\ log' = [log EXCEPT ![l] = L]
         /\ L.acted /\ L.st = "PENDING" /\ L.op = req[c].op /\ L.due = log[l].due
  BY <1>1, <1>4, ActedRow DEF Acts
<1>9. req[c].op = "unshare" => q.group # NoGroup
  BY <1>4, <1>7, InFlight DEF Holds, HoldsWrite
<1>10. Holds(q, L, opera', said', row', owed') /\ LogGood(L, opera', row', owed')
  BY <1>4, <1>7, <1>8, <1>9 DEF Holds, HoldsWrite, LogGood
<1>11. row' \in [Res -> Booking] /\ owed' \subseteq Res /\ faults' \subseteq Res
  BY <1>3 DEF IInv, TypeOK
<1> QED
  BY <1>3, <1>4, <1>6, <1>7, <1>8, <1>10, <1>11, Step

(* What a step does to one row of ours.                                    *)
LEMMA RowStep ==
  ASSUME IInv, NEW r \in Res, NEW b \in Booking, row' = [row EXCEPT ![r] = b],
         b.st # "NONE", ToldBy(said[r], b), UNCHANGED <<opera, said, owed>>
  PROVE  /\ row' \in [Res -> Booking] /\ There(row', r)
         /\ OperaInv' /\ RowInv' /\ Onward
<1>1. row \in [Res -> Booking]
  BY DEF IInv, TypeOK
<1>2. row' \in [Res -> Booking] /\ row'[r] = b /\ \A t \in Res : t # r => row'[t] = row[t]
  BY <1>1
<1>3. RowInv'
  BY <1>2 DEF RowInv, IInv
<1>4. OperaInv'
  BY DEF OperaInv, IInv
<1>5. Onward
  BY <1>2 DEF Onward, There
<1> QED
  BY <1>2, <1>3, <1>4, <1>5 DEF There

(* A row that is as OPERA said once is as it was told.                     *)
LEMMA SaidIsTold ==
  ASSUME NEW S, NEW b \in S, b.st # "NONE"
  PROVE  ToldBy(S, b)
<1>1. b # NoBooking
  BY DEF NoBooking
<1> QED
  BY <1>1 DEF ToldBy

(* A request that wrote something and goes on with its log as it is.       *)
LEMMA WroteInv ==
  ASSUME IInv, NEW c \in Clerks, req[c].at # "idle", NEW q \in Requests, Goes(c, q),
         q.at # "idle", q.log = req[c].log, UNCHANGED <<log, faults>>,
         Holds(q, log[q.log], opera', said', row', owed'),
         opera' \in [Res -> Booking], said' \in [Res -> SUBSET Booking],
         row' \in [Res -> Booking], owed' \subseteq Res, OperaInv', RowInv', Onward
  PROVE  IInv'
<1>1. PICK l \in Logs : l = req[c].log
  BY InFlight
<1>2. PICK L \in LogRow : L = log[l] /\ log = [log EXCEPT ![l] = L]
  BY <1>1, InFlight
<1>3. req' = [req EXCEPT ![c] = q] /\ log' = [log EXCEPT ![l] = L]
  BY <1>2 DEF Goes
<1>4. LogGood(L, opera, row, owed)
  BY <1>2 DEF IInv, LogInv
<1>5. LogGood(L, opera', row', owed')
  BY <1>4, LogOnward
<1>6. Holds(q, L, opera', said', row', owed') /\ faults' \subseteq Res
  BY <1>1, <1>2 DEF IInv, TypeOK
<1> QED
  BY <1>1, <1>3, <1>5, <1>6, Step

(* What OPERA returned is written.                                         *)
LEMMA WriteMirrorInv ==
  ASSUME IInv, NEW c \in Clerks, WriteMirror(c)
  PROVE  IInv'
<1>1. PICK a \in req[c].todo :
        /\ row' = [row EXCEPT ![a[1]] = Mirrored(a[1], a[2])]
        /\ Goes(c, [req[c] EXCEPT !.todo = @ \ {a},
                     !.at = IF req[c].todo = {a} THEN AfterMirror(req[c].op, a[2]) ELSE @])
  BY DEF WriteMirror
<1>2. /\ req[c].at = "mirror" /\ UNCHANGED <<opera, said, owed, log, faults>>
  BY DEF WriteMirror, At
<1>3. PICK p \in Requests, L \in LogRow :
        p = req[c] /\ L = log[p.log] /\ Holds(p, L, opera, said, row, owed)
  BY <1>2, InFlight
<1>4. p.op # "pull" /\ HoldsWrite(p, L, opera, said, row, owed)
  BY <1>2, <1>3 DEF Holds, HoldsPull
<1>5. PICK r \in Res, b \in Booking : a = <<r, b>>
  BY <1>1, <1>3 DEF Requests
<1>6. b.st # "NONE" /\ b \in said[r] /\ (p.op = "cancel" => b.fee = opera[p.res].fee)
  BY <1>1, <1>2, <1>3, <1>4, <1>5 DEF HoldsWrite
<1>7. row' = [row EXCEPT ![r] = b]
  BY <1>1, <1>5 DEF Mirrored
<1>8. /\ row' \in [Res -> Booking] /\ There(row', r) /\ OperaInv' /\ RowInv' /\ Onward
  BY <1>2, <1>6, <1>7, RowStep, SaidIsTold
<1>11. AfterMirror(p.op, b) \in {"folio", "partner", "close"}
  BY DEF AfterMirror
<1>a. PICK z : z = IF p.todo = {a} THEN AfterMirror(p.op, b) ELSE p.at
  OBVIOUS
<1>b. PICK t : t = p.todo \ {a}
  OBVIOUS
<1>c. z \in Stages /\ t \subseteq Res \X Booking
  BY <1>2, <1>3, <1>11, <1>a, <1>b DEF Requests, Stages
<1>9. PICK q : q = [p EXCEPT !.todo = t, !.at = z]
  OBVIOUS
<1>12. q \in Requests
  BY <1>9, <1>c DEF Requests
<1>d. /\ q.at = z /\ q.todo = t /\ q.op = p.op /\ q.log = p.log /\ q.res = p.res
      /\ q.group = p.group /\ q.outcome = p.outcome /\ q.with = p.with
  BY <1>9 DEF Requests
<1>10. /\ q.at = (IF p.todo = {a} THEN AfterMirror(p.op, b) ELSE "mirror")
       /\ q.todo = p.todo \ {a} /\ q.op = p.op /\ q.log = p.log /\ q.res = p.res
       /\ q.group = p.group /\ q.outcome = p.outcome
  BY <1>2, <1>3, <1>a, <1>b, <1>d
<1>13. Holds(p, L, opera', said', row', owed')
  BY <1>3, <1>8, HoldsOnward
<1>14. HoldsWrite(p, L, opera', said', row', owed')
  BY <1>4, <1>13 DEF Holds
<1>15. \/ There(row', p.res)
       \/ p.todo # {a} /\ \E x : <<p.res, x>> \in p.todo \ {a}
  <2>1. CASE There(row', p.res)
    BY <2>1
  <2>2. CASE ~ There(row', p.res)
    <3>1. PICK x : <<p.res, x>> \in p.todo
      BY <1>2, <1>3, <1>14, <2>2 DEF HoldsWrite
    <3>2. p.res # r
      BY <1>8, <2>2
    <3>3. <<p.res, x>> # a
      BY <1>5, <3>2
    <3> QED
      BY <3>1, <3>3
  <2> QED
    BY <2>1, <2>2
<1>16. HoldsWrite(q, L, opera', said', row', owed')
  <2>1. CASE p.todo # {a}
    BY <1>2, <1>3, <1>10, <1>14, <1>15, <2>1 DEF HoldsWrite
  <2>2. CASE p.todo = {a}
    <3>1. There(row', p.res) /\ L.acted /\ p.res \in Res
      BY <1>2, <1>3, <1>14, <1>15, <2>2 DEF HoldsWrite
    <3>2. p.op = "cancel" => Dead(opera', p.res) /\ b.fee = opera'[p.res].fee
      BY <1>2, <1>3, <1>6, <1>14 DEF HoldsWrite
    <3>3. p.op = "unshare" => p.group # NoGroup
      BY <1>14 DEF HoldsWrite
    <3>4. CASE q.at = "folio"
      BY <1>10, <2>2, <3>1, <3>2, <3>3, <3>4 DEF HoldsWrite, AfterMirror
    <3>5. CASE q.at = "partner"
      BY <1>10, <2>2, <3>1, <3>2, <3>3, <3>5 DEF HoldsWrite, AfterMirror
    <3>6. CASE q.at = "close"
      BY <1>10, <2>2, <3>1, <3>2, <3>3, <3>6 DEF HoldsWrite, AfterMirror, Done, PenaltyDone
    <3> QED
      BY <1>10, <1>11, <2>2, <3>4, <3>5, <3>6
  <2> QED
    BY <2>1, <2>2
<1>17. Holds(q, L, opera', said', row', owed')
  BY <1>4, <1>10, <1>13, <1>16 DEF Holds
<1>18. Goes(c, q)
  BY <1>1, <1>3, <1>5, <1>9, <1>a, <1>b
<1>19. q.at # "idle"
  BY <1>10, <1>11
<1>20. opera' \in [Res -> Booking] /\ said' \in [Res -> SUBSET Booking] /\ owed' \subseteq Res
  BY <1>2 DEF IInv, TypeOK
<1> QED
  BY <1>2, <1>3, <1>8, <1>10, <1>12, <1>17, <1>18, <1>19, <1>20, WroteInv

(* The penalty is copied.                                                  *)
LEMMA CopyPenaltyInv ==
  ASSUME IInv, NEW c \in Clerks, CopyPenalty(c)
  PROVE  IInv'
<1>1. /\ req[c].at = "folio" /\ UNCHANGED <<opera, said, row, log, faults>>
      /\ owed' = owed \cup {req[c].res}
      /\ Goes(c, [req[c] EXCEPT !.at = "close", !.outcome = "SUCCESS"])
  BY DEF CopyPenalty, At, Ends
<1>2. PICK p \in Requests, L \in LogRow :
        p = req[c] /\ L = log[p.log] /\ Holds(p, L, opera, said, row, owed)
  BY <1>1, InFlight
<1>3. /\ p.op = "cancel" /\ L.acted /\ p.res \in Res /\ There(row, p.res) /\ Dead(opera, p.res)
  BY <1>1, <1>2 DEF Holds, HoldsPull, HoldsWrite
<1>4. PICK q : q = [p EXCEPT !.at = "close", !.outcome = "SUCCESS"]
  OBVIOUS
<1>5. /\ q \in Requests /\ q.at = "close" /\ q.op = p.op /\ q.log = p.log /\ q.res = p.res
  BY <1>2, <1>4 DEF Requests, Stages
<1>6. /\ Onward /\ OperaInv' /\ RowInv' /\ row' \in [Res -> Booking] /\ owed' \subseteq Res
      /\ opera' \in [Res -> Booking] /\ said' \in [Res -> SUBSET Booking]
  <2>1. OperaInv' /\ RowInv'
    BY <1>1 DEF IInv, OperaInv, RowInv
  <2> QED
    BY <1>1, <1>2, <1>3, <2>1 DEF IInv, TypeOK, Onward
<1>7. Holds(q, L, opera', said', row', owed')
  <2>1. Done("cancel", L, p.res, opera', row', owed')
    BY <1>1, <1>2, <1>3 DEF Done, PenaltyDone
  <2> QED
    BY <1>2, <1>3, <1>5, <2>1 DEF Holds, HoldsWrite
<1> QED
  BY <1>1, <1>2, <1>4, <1>5, <1>6, <1>7, WroteInv

(* The partner is looked for among our rows.                               *)
LEMMA FindPartnerInv ==
  ASSUME IInv, NEW c \in Clerks, FindPartner(c)
  PROVE  IInv'
<1>1. /\ req[c].at = "partner" /\ UNCHANGED <<opera, said, row, owed, log, faults>>
  BY DEF FindPartner, At
<1>2. PICK p \in Requests, L \in LogRow :
        p = req[c] /\ L = log[p.log] /\ Holds(p, L, opera, said, row, owed)
  BY <1>1, InFlight
<1>3. /\ p.op = "unshare" /\ L.acted /\ p.res \in Res /\ There(row, p.res) /\ p.group # NoGroup
  BY <1>1, <1>2 DEF Holds, HoldsPull, HoldsWrite
<1>4. CASE \E s \in Res : row[s].share = p.group
                          /\ Goes(c, [req[c] EXCEPT !.at = "clear", !.with = s])
  <2>1. PICK s \in Res : row[s].share = p.group
                         /\ Goes(c, [req[c] EXCEPT !.at = "clear", !.with = s])
    BY <1>4
  <2>2. PICK q : q = [p EXCEPT !.at = "clear", !.with = s]
    OBVIOUS
  <2>3. /\ q \in Requests /\ q.at = "clear" /\ q.op = p.op /\ q.log = p.log /\ q.res = p.res
        /\ q.with = s /\ q.group = p.group
    BY <1>2, <2>2 DEF Requests, Stages
  <2>4. There(row, s)
    BY <1>3, <2>1 DEF IInv, RowInv, There, NoBooking
  <2>5. Holds(q, L, opera, said, row, owed)
    BY <1>2, <1>3, <2>3, <2>4 DEF Holds, HoldsWrite
  <2> QED
    BY <1>1, <1>2, <2>1, <2>2, <2>3, <2>5, GoesOn
<1>5. CASE Ends(c, "SUCCESS")
  <2>1. PICK q : q = [p EXCEPT !.at = "close", !.outcome = "SUCCESS"]
    OBVIOUS
  <2>2. /\ q \in Requests /\ q.at = "close" /\ q.op = p.op /\ q.log = p.log /\ q.res = p.res
        /\ q.group = p.group
    BY <1>2, <2>1 DEF Requests, Stages
  <2>3. Holds(q, L, opera, said, row, owed)
    BY <1>2, <1>3, <2>2 DEF Holds, HoldsWrite, Done
  <2>4. Goes(c, q)
    BY <1>2, <1>5, <2>1 DEF Ends
  <2> QED
    BY <1>1, <1>2, <2>2, <2>3, <2>4, GoesOn
<1> QED
  BY <1>2, <1>4, <1>5 DEF FindPartner

(* The partner's row loses its group and stays what it was otherwise.      *)
LEMMA ClearPartnerInv ==
  ASSUME IInv, NEW c \in Clerks, ClearPartner(c)
  PROVE  IInv'
<1>1. /\ req[c].at = "clear" /\ UNCHANGED <<opera, said, owed, log, faults>>
      /\ row' = [row EXCEPT ![req[c].with].share = NoGroup]
      /\ Goes(c, [req[c] EXCEPT !.at = "close", !.outcome = "SUCCESS"])
  BY DEF ClearPartner, At, Ends
<1>2. PICK p \in Requests, L \in LogRow :
        p = req[c] /\ L = log[p.log] /\ Holds(p, L, opera, said, row, owed)
  BY <1>1, InFlight
<1>3. /\ p.op = "unshare" /\ L.acted /\ p.res \in Res /\ There(row, p.res) /\ p.group # NoGroup
      /\ p.with \in Res /\ There(row, p.with)
  BY <1>1, <1>2 DEF Holds, HoldsPull, HoldsWrite
<1>4. PICK s \in Res : s = p.with
  BY <1>3
<1>5. PICK b : b = [row[s] EXCEPT !.share = NoGroup]
  OBVIOUS
<1>6. row[s] \in Booking
  BY DEF IInv, TypeOK
<1>7. /\ b \in Booking /\ b.st = row[s].st /\ b.dates = row[s].dates /\ b.terms = row[s].terms
      /\ b.share = NoGroup
  BY <1>5, <1>6 DEF Booking
<1>8. b.st # "NONE" /\ ToldBy(said[s], b)
  <2>1. row[s].st # "NONE" /\ ToldBy(said[s], row[s]) /\ NoBooking \in said[s]
    BY <1>3, <1>4 DEF IInv, RowInv, OperaInv, There
  <2>2. NoBooking.share = NoGroup
    BY DEF NoBooking
  <2> QED
    BY <1>7, <2>1, <2>2 DEF ToldBy
<1>9. row' = [row EXCEPT ![s] = b]
  BY <1>1, <1>2, <1>4, <1>5
<1>10. row' \in [Res -> Booking] /\ OperaInv' /\ RowInv' /\ Onward
  BY <1>1, <1>7, <1>8, <1>9, RowStep
<1>11. PICK q : q = [p EXCEPT !.at = "close", !.outcome = "SUCCESS"]
  OBVIOUS
<1>12. /\ q \in Requests /\ q.at = "close" /\ q.op = p.op /\ q.log = p.log /\ q.res = p.res
       /\ q.group = p.group
  BY <1>2, <1>11 DEF Requests, Stages
<1>13. There(row', p.res)
  BY <1>3, <1>10 DEF Onward
<1>14. Holds(q, L, opera', said', row', owed')
  BY <1>2, <1>3, <1>12, <1>13 DEF Holds, HoldsWrite, Done
<1>15. opera' \in [Res -> Booking] /\ said' \in [Res -> SUBSET Booking] /\ owed' \subseteq Res
  BY <1>1 DEF IInv, TypeOK
<1> QED
  BY <1>1, <1>2, <1>10, <1>11, <1>12, <1>14, <1>15, WroteInv

(* The log row is closed with what the request came to.                    *)
LEMMA CloseLogInv ==
  ASSUME IInv, NEW c \in Clerks, CloseLog(c)
  PROVE  IInv'
<1>1. /\ req[c].at = "close" /\ UNCHANGED <<opera, said, row, owed, faults>>
      /\ req' = [req EXCEPT ![c] = Idle]
  BY DEF CloseLog, At, Goes
<1>2. PICK p \in Requests, l \in Logs :
        /\ p = req[c] /\ l = p.log /\ log[l] \in LogRow
        /\ Holds(p, log[l], opera, said, row, owed)
  BY <1>1, InFlight
<1>a. log' = [log EXCEPT ![l] = [log[l] EXCEPT !.st = p.outcome,
                 !.res = IF p.outcome = "SUCCESS" THEN p.res ELSE log[l].res]]
  BY <1>2 DEF CloseLog
<1>3. PICK L : L = [log[l] EXCEPT !.st = p.outcome,
                     !.res = IF p.outcome = "SUCCESS" THEN p.res ELSE log[l].res]
  OBVIOUS
<1>4. log' = [log EXCEPT ![l] = L]
  BY <1>a, <1>3
<1>5. /\ L \in LogRow /\ L.st = p.outcome /\ L.op = log[l].op /\ L.acted = log[l].acted
      /\ L.due = log[l].due /\ L.cut = log[l].cut
      /\ L.st = "SUCCESS" => L.res = p.res
  BY <1>2, <1>3 DEF LogRow, Requests
<1>6. LogGood(L, opera, row, owed)
  BY <1>1, <1>2, <1>5 DEF LogGood, Holds, HoldsWrite, HoldsPull, Done
<1>7. LogGood(L, opera', row', owed')
  BY <1>1, <1>6
<1>8. Idle \in Requests /\ Idle.at = "idle"
  BY IdleIsRequest DEF Idle
<1> QED
  BY <1>1, <1>2, <1>4, <1>5, <1>7, <1>8, NothingMoved, Step

(* The process stops.                                                      *)
LEMMA DiesInv ==
  ASSUME IInv, NEW c \in Clerks, Dies(c)
  PROVE  IInv'
<1>1. /\ req[c].at # "idle" /\ UNCHANGED <<opera, said, row, owed, faults>>
      /\ req' = [req EXCEPT ![c] = Idle]
      /\ log' = [log EXCEPT ![req[c].log].lost = TRUE]
  BY DEF Dies, At, Goes
<1>2. PICK l \in Logs : l = req[c].log /\ log[l] \in LogRow /\ log[l].st = "PENDING"
  BY <1>1, InFlight DEF Holds
<1>3. PICK L : L = [log[l] EXCEPT !.lost = TRUE]
  OBVIOUS
<1>4. L \in LogRow /\ L.st = "PENDING"
  BY <1>2, <1>3 DEF LogRow
<1>5. log' = [log EXCEPT ![l] = L]
  BY <1>1, <1>2, <1>3
<1>6. LogGood(L, opera', row', owed')
  BY <1>4 DEF LogGood
<1>7. Idle \in Requests /\ Idle.at = "idle"
  BY IdleIsRequest DEF Idle
<1> QED
  BY <1>1, <1>2, <1>4, <1>5, <1>6, <1>7, NothingMoved, Step

(* OPERA's own users.                                                      *)
LEMMA OperaDeskInv ==
  ASSUME IInv, OperaDesk
  PROVE  IInv'
<1>1. PICK op \in DeskOps, r \in Res, s \in Res : OperaDoes(op, r, s)
  BY DEF OperaDesk
<1>2. UNCHANGED <<row, owed, log, faults, req>>
  BY DEF OperaDesk
<1>3. /\ opera' \in [Res -> Booking] /\ said' \in [Res -> SUBSET Booking]
      /\ OperaInv' /\ RowInv' /\ Onward
  BY <1>1, <1>2, OperaStep DEF IInv, TypeOK
<1>4. row' \in [Res -> Booking] /\ owed' \subseteq Res /\ faults' \subseteq Res
  BY <1>2 DEF IInv, TypeOK
<1> QED
  BY <1>2, <1>3, <1>4, OthersStep

-----------------------------------------------------------------------------
(* The pages of a pull.                                                    *)

LEMMA PageEnd ==
  ASSUME NEW n \in Nat
  PROVE  n * PageSize \in Nat /\ (n + 1) * PageSize = n * PageSize + PageSize
BY BookingsAssumption

(* An empty page comes after the last reservation, for there are no gaps.  *)
LEMMA NoPage ==
  ASSUME IInv, NEW n \in Nat, PageItems(n) = {}, NEW r \in Res, There(opera, r)
  PROVE  r <= n * PageSize
<1> SUFFICES ASSUME r > n * PageSize PROVE FALSE
  BY PageEnd DEF Res
<1>1. PICK s : s = n * PageSize + 1
  OBVIOUS
<1>2. s \in Res /\ s <= r /\ s > n * PageSize /\ s <= (n + 1) * PageSize
  BY <1>1, PageEnd, BookingsAssumption DEF Res
<1>3. There(opera, s)
  BY <1>2 DEF IInv, OperaInv, Res
<1> QED
  BY <1>2, <1>3 DEF PageItems, Exists, There

(* Nothing comes after a page that is not full.                            *)
LEMMA ShortPage ==
  ASSUME IInv, NEW n \in Nat, LastPage(PageItems(n)), NEW r \in Res, There(opera, r)
  PROVE  r <= n * PageSize + PageSize
<1> SUFFICES ASSUME r > n * PageSize + PageSize PROVE FALSE
  BY PageEnd, BookingsAssumption DEF Res
<1>1. PICK lo \in Nat, hi \in Nat : lo = n * PageSize + 1 /\ hi = n * PageSize + PageSize
  BY PageEnd, BookingsAssumption
<1>2. lo..hi \subseteq PageItems(n)
  <2>1. ASSUME NEW s \in lo..hi PROVE s \in PageItems(n)
    <3>1. s \in Res /\ s < r /\ s > n * PageSize /\ s <= (n + 1) * PageSize
      BY <1>1, <2>1, PageEnd, BookingsAssumption DEF Res
    <3>2. There(opera, s)
      BY <3>1 DEF IInv, OperaInv
    <3> QED
      BY <3>1, <3>2 DEF PageItems, Exists, There
  <2> QED
    BY <2>1
<1>3. IsFiniteSet(PageItems(n))
  <2>1. PageItems(n) \subseteq 1..MaxRes
    BY DEF PageItems, Res
  <2>2. IsFiniteSet(1..MaxRes)
    BY FS_Interval, BookingsAssumption
  <2> QED
    BY <2>1, <2>2, FS_Subset
<1>4. Cardinality(lo..hi) <= Cardinality(PageItems(n))
  BY <1>2, <1>3, FS_Subset
<1>5. Cardinality(lo..hi) = PageSize
  <2>1. Cardinality(lo..hi) = IF lo > hi THEN 0 ELSE hi - lo + 1
    BY FS_Interval
  <2> QED
    BY <1>1, <2>1, PageEnd, BookingsAssumption
<1>6. Cardinality(PageItems(n)) \in Nat
  BY <1>3, FS_CardinalityType
<1> QED
  BY <1>4, <1>5, <1>6, BookingsAssumption DEF LastPage

(* What is known of a pull in flight.                                      *)
LEMMA PullInFlight ==
  ASSUME IInv, NEW c \in Clerks, req[c].at \in {"list", "pull"}
  PROVE  \E p \in Requests, l \in Logs, M \in LogRow :
           /\ p = req[c] /\ l = p.log /\ M = log[l]
           /\ M.st = "PENDING" /\ M.op = "pull" /\ p.op = "pull"
           /\ Holds(p, M, opera, said, row, owed)
           /\ HoldsPull(p, M, opera, said, row)
           /\ p.page \in Nat /\ p.page < MaxPages
<1>1. PICK p \in Requests, l \in Logs, M \in LogRow :
        p = req[c] /\ l = p.log /\ M = log[l] /\ Holds(p, M, opera, said, row, owed)
  BY InFlight
<1>2. p.op = "pull" /\ M.op = p.op /\ M.st = "PENDING" /\ HoldsPull(p, M, opera, said, row)
  BY <1>1 DEF Holds, HoldsWrite
<1>3. p.page \in Nat /\ p.page < MaxPages
  BY <1>1, <1>2, BookingsAssumption DEF HoldsPull, Requests
<1> QED
  BY <1>1, <1>2, <1>3

(* A pull through with a page turns to the next, or ends.                  *)
LEMMA TurnsInv ==
  ASSUME IInv, NEW c \in Clerks, req[c].at \in {"list", "pull"},
         NEW full \in BOOLEAN, NEW failed \in BOOLEAN, Turns(c, full, failed),
         UNCHANGED <<opera, said, owed>>, row' \in [Res -> Booking], faults' \subseteq Res,
         OperaInv', RowInv', Onward,
         ~ failed => \A r \in log[req[c].log].due :
                       r <= req[c].page * PageSize + PageSize => There(row', r),
         ~ failed /\ ~ full => \A r \in log[req[c].log].due : There(row', r)
  PROVE  IInv'
<1>1. PICK p \in Requests, l \in Logs, M \in LogRow :
        /\ p = req[c] /\ l = p.log /\ M = log[l]
        /\ M.st = "PENDING" /\ M.op = "pull" /\ p.op = "pull"
        /\ Holds(p, M, opera, said, row, owed)
        /\ HoldsPull(p, M, opera, said, row)
        /\ p.page \in Nat /\ p.page < MaxPages
  BY PullInFlight
<1>2. PICK b : b = [p EXCEPT !.todo = {}, !.full = full, !.failed = failed]
  OBVIOUS
<1>3. /\ b \in Requests /\ b.log = l /\ b.page = p.page /\ b.op = "pull" /\ b.failed = failed
      /\ b.full = full /\ b.todo = {}
  BY <1>1, <1>2 DEF Requests
<1>4. \A r \in M.due : r \in Res /\ There(opera', r)
  BY <1>1 DEF HoldsPull
<1>5. CASE ~ full \/ p.page + 1 = MaxPages
  <2>a. PICK o \in {"SUCCESS", "FAILED"} : o = PullOutcome(failed)
    BY DEF PullOutcome
  <2>1. PICK q : q = [b EXCEPT !.at = "close", !.outcome = o]
    OBVIOUS
  <2>2. PICK L : L = [M EXCEPT !.cut = full]
    OBVIOUS
  <2>3. /\ q \in Requests /\ q.at = "close" /\ q.op = "pull" /\ q.log = l
        /\ q.outcome = o
    BY <1>3, <2>1 DEF Requests, Stages
  <2>4. L \in LogRow /\ L.st = "PENDING" /\ L.op = "pull" /\ L.due = M.due /\ L.cut = full
    BY <1>1, <2>2 DEF LogRow
  <2>5. log' = [log EXCEPT ![l] = L]
    BY <1>1, <1>2, <1>3, <1>5, <2>2 DEF Turns
  <2>6. req' = [req EXCEPT ![c] = q]
    BY <1>1, <1>2, <1>3, <1>5, <2>a, <2>1 DEF Turns, Goes
  <2>7. Holds(q, L, opera', said', row', owed') /\ LogGood(L, opera', row', owed')
    BY <1>1, <1>4, <2>a, <2>3, <2>4 DEF Holds, HoldsPull, PullOutcome, LogGood
  <2> QED
    BY <1>1, <2>3, <2>4, <2>5, <2>6, <2>7, Step DEF IInv, TypeOK
<1>6. CASE full /\ p.page + 1 # MaxPages
  <2>1. PICK q : q = [b EXCEPT !.at = "list", !.page = p.page + 1]
    OBVIOUS
  <2>2. PICK L : L = [M EXCEPT !.cut = FALSE]
    OBVIOUS
  <2>a. p.page + 1 \in 0..MaxPages /\ p.page + 1 < MaxPages
    BY <1>1, <1>6, BookingsAssumption
  <2>3. /\ q \in Requests /\ q.at = "list" /\ q.op = "pull" /\ q.log = l
        /\ q.page = p.page + 1 /\ q.failed = failed
    BY <1>3, <2>1, <2>a DEF Requests, Stages
  <2>4. L \in LogRow /\ L.st = "PENDING" /\ L.op = "pull" /\ L.due = M.due
    BY <1>1, <2>2 DEF LogRow
  <2>5. log' = [log EXCEPT ![l] = L]
    BY <1>1, <1>2, <1>3, <1>6, <2>2 DEF Turns
  <2>6. req' = [req EXCEPT ![c] = q]
    BY <1>1, <1>2, <1>3, <1>6, <2>1 DEF Turns, Goes
  <2>b. q.page * PageSize = p.page * PageSize + PageSize
    BY <1>1, <2>3, PageEnd
  <2>7. Holds(q, L, opera', said', row', owed') /\ LogGood(L, opera', row', owed')
    BY <1>1, <1>4, <2>3, <2>4, <2>a, <2>b DEF Holds, HoldsPull, LogGood
  <2> QED
    BY <1>1, <2>3, <2>4, <2>5, <2>6, <2>7, Step DEF IInv, TypeOK
<1> QED
  BY <1>5, <1>6

(* A page is listed.                                                       *)
LEMMA ListPageInv ==
  ASSUME IInv, NEW c \in Clerks, ListPage(c)
  PROVE  IInv'
<1>1. req[c].at = "list" /\ UNCHANGED <<opera, said, row, owed, faults>>
  BY DEF ListPage, At
<1>2. PICK p \in Requests, l \in Logs, M \in LogRow :
        /\ p = req[c] /\ l = p.log /\ M = log[l]
        /\ M.st = "PENDING" /\ M.op = "pull" /\ p.op = "pull"
        /\ Holds(p, M, opera, said, row, owed)
        /\ HoldsPull(p, M, opera, said, row)
        /\ p.page \in Nat /\ p.page < MaxPages
  BY <1>1, PullInFlight
<1>3. PICK items : items = PageItems(p.page)
  OBVIOUS
<1>4. items \subseteq Res /\ \A r \in items : There(opera, r)
  BY <1>3 DEF PageItems, Exists, There
<1>5. \A r \in M.due : /\ r \in Res /\ There(opera, r)
                       /\ ~ p.failed /\ r <= p.page * PageSize => There(row, r)
  BY <1>1, <1>2 DEF HoldsPull
<1>6. p.failed \in BOOLEAN
  BY <1>2 DEF Requests
<1>7. CASE items = {}
  <2>1. Turns(c, FALSE, p.failed)
    BY <1>2, <1>3, <1>7 DEF ListPage
  <2>2. \A r \in M.due : r <= p.page * PageSize
    BY <1>2, <1>3, <1>5, <1>7, NoPage
  <2>3. ~ p.failed => \A r \in M.due : There(row', r)
    BY <1>1, <1>5, <2>2 DEF There
  <2> QED
    BY <1>1, <1>2, <1>6, <2>1, <2>3, NothingMoved, TurnsInv
<1>8. CASE items # {}
  <2>1. PICK todo : todo = { <<r, opera[r]>> : r \in items }
    OBVIOUS
  <2>2. PICK f \in BOOLEAN : f <=> ~ LastPage(items)
    BY DEF LastPage
  <2>3. PICK q : q = [p EXCEPT !.at = "pull", !.full = f, !.todo = todo]
    OBVIOUS
  <2>4. Goes(c, [req[c] EXCEPT !.at = "pull", !.full = ~ LastPage(items),
                  !.todo = { <<r, opera[r]>> : r \in items }]) /\ UNCHANGED log
    BY <1>2, <1>3, <1>8 DEF ListPage
  <2>5. f = ~ LastPage(items)
    BY <2>2 DEF LastPage
  <2>6. Goes(c, q)
    BY <1>2, <2>1, <2>3, <2>4, <2>5
  <2>7. \A a \in todo : a \in Res \X Booking /\ a[2].st # "NONE" /\ a[2] \in said[a[1]]
    BY <1>4, <2>1 DEF IInv, TypeOK, OperaInv, There
  <2>8. q \in Requests
    BY <2>2, <2>3, <2>7 DEF Requests, Stages
  <2>9. /\ q.at = "pull" /\ q.op = p.op /\ q.log = p.log /\ q.todo = todo /\ q.full = f
        /\ q.page = p.page /\ q.failed = p.failed
    BY <2>3 DEF Requests
  <2>10. ASSUME NEW r \in M.due, ~ p.failed, r <= p.page * PageSize + PageSize
         PROVE  There(row, r) \/ \E b : <<r, b>> \in todo
    <3>0. PICK n \in Nat : n = p.page * PageSize
      BY <1>2, PageEnd
    <3>1. CASE r <= n
      BY <1>5, <2>10, <3>0, <3>1
    <3>2. CASE r > n
      <4>1. r <= (p.page + 1) * PageSize
        BY <1>2, <2>10, PageEnd
      <4>2. r \in items
        BY <1>3, <1>5, <3>0, <3>2, <4>1 DEF PageItems, Exists, There
      <4>3. PICK b : b = opera[r]
        OBVIOUS
      <4>4. <<r, b>> \in todo
        BY <2>1, <4>2, <4>3
      <4> QED
        BY <4>4
    <3>3. r \in Nat
      BY <1>5 DEF Res
    <3>4. r <= n \/ r > n
      BY <3>0, <3>3
    <3> QED
      BY <3>1, <3>2, <3>4
  <2>11. ~ f => \A r \in M.due : r <= p.page * PageSize + PageSize
    BY <1>2, <1>3, <1>5, <2>2, ShortPage
  <2>12. HoldsPull(q, M, opera, said, row)
    BY <1>2, <1>5, <2>7, <2>9, <2>10, <2>11 DEF HoldsPull
  <2>13. Holds(q, M, opera, said, row, owed)
    BY <1>2, <2>9, <2>12 DEF Holds
  <2> QED
    BY <1>1, <1>2, <2>4, <2>6, <2>8, <2>9, <2>13, GoesOn
<1> QED
  BY <1>7, <1>8

(* A pull is through with one reservation, copied or failed.               *)
LEMMA ThroughInv ==
  ASSUME IInv, NEW c \in Clerks, req[c].at = "pull", NEW a \in req[c].todo,
         NEW failed \in BOOLEAN, req[c].failed => failed, Through(c, a, failed),
         ~ failed => There(row', a[1]),
         UNCHANGED <<opera, said, owed>>, row' \in [Res -> Booking], faults' \subseteq Res,
         OperaInv', RowInv', Onward
  PROVE  IInv'
<1>1. PICK p \in Requests, l \in Logs, M \in LogRow :
        /\ p = req[c] /\ l = p.log /\ M = log[l]
        /\ M.st = "PENDING" /\ M.op = "pull" /\ p.op = "pull"
        /\ Holds(p, M, opera, said, row, owed)
        /\ HoldsPull(p, M, opera, said, row)
        /\ p.page \in Nat /\ p.page < MaxPages
  BY PullInFlight
<1>2. PICK r \in Res, x \in Booking : a = <<r, x>>
  BY <1>1 DEF Requests
<1>3. ~ failed => There(row', r)
  BY <1>2
<1>4. \A s \in M.due : s \in Res /\ There(opera', s) /\ (There(row, s) => There(row', s))
  BY <1>1 DEF HoldsPull, Onward
<1>5. ~ failed => \A s \in M.due : s <= p.page * PageSize + PageSize =>
                    There(row', s) \/ \E b : <<s, b>> \in p.todo \ {a}
  <2>1. ASSUME ~ failed, NEW s \in M.due, s <= p.page * PageSize + PageSize, ~ There(row', s)
        PROVE  \E b : <<s, b>> \in p.todo \ {a}
    <3>1. PICK b : <<s, b>> \in p.todo
      BY <1>1, <1>4, <2>1 DEF HoldsPull
    <3>2. s # r
      BY <1>3, <2>1
    <3>3. <<s, b>> # a
      BY <1>2, <3>2
    <3> QED
      BY <3>1, <3>3
  <2> QED
    BY <2>1
<1>6. ~ p.full => \A s \in M.due : s <= p.page * PageSize + PageSize
  BY <1>1 DEF HoldsPull
<1>7. p.full \in BOOLEAN
  BY <1>1 DEF Requests
<1>8. CASE p.todo = {a}
  <2>1. Turns(c, p.full, failed)
    BY <1>1, <1>8 DEF Through
  <2>2. ~ failed => \A s \in M.due : s <= p.page * PageSize + PageSize => There(row', s)
    BY <1>5, <1>8
  <2> QED
    BY <1>1, <1>6, <1>7, <2>1, <2>2, TurnsInv
<1>9. CASE p.todo # {a}
  <2>1. PICK todo : todo = p.todo \ {a}
    OBVIOUS
  <2>2. PICK q : q = [p EXCEPT !.todo = todo, !.failed = failed]
    OBVIOUS
  <2>3. req' = [req EXCEPT ![c] = q] /\ UNCHANGED log
    BY <1>1, <1>9, <2>1, <2>2 DEF Through, Goes
  <2>4. todo \subseteq Res \X Booking
    BY <1>1, <2>1 DEF Requests
  <2>5. q \in Requests
    BY <2>2, <2>4 DEF Requests
  <2>6. /\ q.at = "pull" /\ q.op = "pull" /\ q.log = l /\ q.todo = todo /\ q.full = p.full
        /\ q.page = p.page /\ q.failed = failed
    BY <1>1, <2>2 DEF Requests
  <2>7. \A b \in todo : b[2].st # "NONE" /\ b[2] \in said'[b[1]]
    BY <1>1, <2>1 DEF HoldsPull
  <2>8. HoldsPull(q, M, opera', said', row')
    BY <1>1, <1>4, <1>5, <1>6, <2>1, <2>6, <2>7 DEF HoldsPull
  <2>9. Holds(q, M, opera', said', row', owed') /\ LogGood(M, opera', row', owed')
    BY <1>1, <2>6, <2>8 DEF Holds, LogGood
  <2>10. log' = [log EXCEPT ![l] = M] /\ opera' \in [Res -> Booking]
         /\ said' \in [Res -> SUBSET Booking] /\ owed' \subseteq Res
    BY <1>1, <2>3 DEF IInv, TypeOK
  <2> QED
    BY <1>1, <2>3, <2>5, <2>6, <2>9, <2>10, Step
<1> QED
  BY <1>8, <1>9

(* What a pull writes.                                                     *)
LEMMA PulledRow ==
  ASSUME IInv, NEW c \in Clerks, req[c].at = "pull", NEW a \in req[c].todo
  PROVE  \E r \in Res, b \in Booking :
           /\ r = a[1] /\ b = Pulled(a[1], a[2]) /\ b.st # "NONE" /\ ToldBy(said[r], b)
<1>1. PICK p \in Requests, l \in Logs, M \in LogRow :
        /\ p = req[c] /\ l = p.log /\ M = log[l]
        /\ M.st = "PENDING" /\ M.op = "pull" /\ p.op = "pull"
        /\ Holds(p, M, opera, said, row, owed)
        /\ HoldsPull(p, M, opera, said, row)
        /\ p.page \in Nat /\ p.page < MaxPages
  BY PullInFlight
<1>2. PICK r \in Res, x \in Booking : a = <<r, x>>
  BY <1>1 DEF Requests
<1>3. x.st # "NONE" /\ x \in said[r]
  BY <1>1, <1>2 DEF HoldsPull
<1>4. PICK b : b = [row[r] EXCEPT !.st = x.st, !.dates = x.dates]
  OBVIOUS
<1>5. row[r] \in Booking
  BY DEF IInv, TypeOK
<1>6. /\ b \in Booking /\ b.st = x.st /\ b.dates = x.dates /\ b.terms = row[r].terms
      /\ b.share = row[r].share
  BY <1>2, <1>4, <1>5 DEF Booking
<1>7. \E v \in said[r] : row[r].terms = v.terms
  BY DEF IInv, RowInv, OperaInv, ToldBy
<1>8. \E v \in said[r] : row[r].share = v.share
  BY DEF IInv, RowInv, OperaInv, ToldBy
<1>9. x # NoBooking
  BY <1>3 DEF NoBooking
<1>10. ToldBy(said[r], b)
  BY <1>3, <1>6, <1>7, <1>8, <1>9 DEF ToldBy
<1>11. b = Pulled(a[1], a[2])
  BY <1>2, <1>4 DEF Pulled
<1> QED
  BY <1>2, <1>3, <1>6, <1>10, <1>11

(* A reservation is copied.                                                *)
LEMMA PullRowInv ==
  ASSUME IInv, NEW c \in Clerks, PullRow(c)
  PROVE  IInv'
<1>1. req[c].at = "pull" /\ UNCHANGED <<opera, said, owed, faults>>
  BY DEF PullRow, At
<1>2. PICK a \in req[c].todo : row' = [row EXCEPT ![a[1]] = Pulled(a[1], a[2])]
                               /\ Through(c, a, req[c].failed)
  BY DEF PullRow
<1>3. PICK r \in Res, b \in Booking :
        r = a[1] /\ b = Pulled(a[1], a[2]) /\ b.st # "NONE" /\ ToldBy(said[r], b)
  BY <1>1, PulledRow
<1>4. row' = [row EXCEPT ![r] = b]
  BY <1>2, <1>3
<1>5. row' \in [Res -> Booking] /\ There(row', r) /\ OperaInv' /\ RowInv' /\ Onward
  BY <1>1, <1>3, <1>4, RowStep
<1>6. req[c].failed \in BOOLEAN /\ faults' \subseteq Res
  BY <1>1 DEF IInv, TypeOK, Requests
<1> QED
  BY <1>1, <1>2, <1>3, <1>5, <1>6, ThroughInv

(* A reservation fails.                                                    *)
LEMMA PullRowFailsInv ==
  ASSUME IInv, NEW c \in Clerks, PullRowFails(c)
  PROVE  IInv'
<1>1. req[c].at = "pull" /\ UNCHANGED <<opera, said, row, owed>>
  BY DEF PullRowFails, At
<1>2. PICK a \in req[c].todo : faults' = faults \cup {a[1]} /\ Through(c, a, TRUE)
  BY DEF PullRowFails
<1>3. PICK r \in Res : r = a[1]
  BY <1>1, PulledRow
<1>4. /\ Onward /\ OperaInv' /\ RowInv' /\ row' \in [Res -> Booking]
  <2>1. OperaInv' /\ RowInv'
    BY <1>1 DEF IInv, OperaInv, RowInv
  <2> QED
    BY <1>1, <2>1 DEF IInv, TypeOK, Onward
<1>5. faults' \subseteq Res
  BY <1>2, <1>3 DEF IInv, TypeOK
<1> QED
  BY <1>1, <1>2, <1>4, <1>5, ThroughInv

-----------------------------------------------------------------------------
(* Starting a request.                                                     *)
LEMMA StartsInv ==
  ASSUME IInv, NEW c \in Clerks, Starts(c)
  PROVE  IInv'
<1>1. PICK l \in Logs :
        \/ StartCreate(c, l) \/ StartPull(c, l)
        \/ \E r \in Res :
             \/ StartUpdate(c, l, r) \/ StartCancel(c, l, r) \/ StartGuarantee(c, l, r)
             \/ StartNoShow(c, l, r) \/ StartConfirm(c, l, r) \/ StartUnshare(c, l, r)
             \/ \E s \in Res \ {r} : StartShare(c, l, r, s)
  BY DEF Starts
<1>2. CASE StartPull(c, l)
  BY <1>2, StartPullInv
<1>3. CASE StartCreate(c, l)
  BY <1>3, BeginsInv DEF StartCreate, Ops
<1>4. ASSUME NEW r \in Res, NEW op \in Ops \ {"pull", "create", "share", "unshare"},
             There(row, r), Begins(c, l, op, r, 0)
      PROVE  IInv'
  BY <1>4, BeginsInv
<1>5. ASSUME NEW r \in Res, StartUpdate(c, l, r) \/ StartCancel(c, l, r)
                            \/ StartGuarantee(c, l, r) \/ StartNoShow(c, l, r)
                            \/ StartConfirm(c, l, r)
      PROVE  IInv'
  <2>1. There(row, r)
    BY <1>5 DEF StartUpdate, StartCancel, StartGuarantee, StartNoShow, StartConfirm, Linked, There
  <2> QED
    BY <1>4, <1>5, <2>1 DEF StartUpdate, StartCancel, StartGuarantee, StartNoShow, StartConfirm,
       Ops
<1>6. ASSUME NEW r \in Res, StartUnshare(c, l, r) PROVE IInv'
  BY <1>6, BeginsInv DEF StartUnshare, Linked, There, Ops
<1>7. ASSUME NEW r \in Res, NEW s \in Res \ {r}, StartShare(c, l, r, s) PROVE IInv'
  BY <1>7, BeginsInv DEF StartShare, Linked, There, Ops
<1> QED
  BY <1>1, <1>2, <1>3, <1>5, <1>6, <1>7

(* A refusal of OPERA, or a write of ours that fails.                      *)
LEMMA RefusedInv ==
  ASSUME IInv, NEW c \in Clerks, CoreRefuses(c) \/ WriteFails(c)
  PROVE  IInv'
<1>1. Ends(c, "FAILED") /\ UNCHANGED <<opera, said, row, owed, log, faults>>
  BY DEF CoreRefuses, WriteFails
<1>2. req[c].at # "idle"
  BY DEF CoreRefuses, WriteFails, At
<1> QED
  BY <1>1, <1>2, EndsFailedInv

(* Every step keeps the invariant.                                         *)
LEMMA NextInv ==
  ASSUME IInv, [Next]_vars
  PROVE  IInv'
<1>1. CASE UNCHANGED vars
  <2>1. UNCHANGED <<opera, said, row, owed, faults>> /\ UNCHANGED <<log, req>>
    BY <1>1 DEF vars
  <2> QED
    BY <2>1, NothingMoved, OthersStep
<1>2. CASE OperaDesk
  BY <1>2, OperaDeskInv
<1>3. ASSUME NEW c \in Clerks, Resumes(c) PROVE IInv'
  BY <1>3, CoreAnswersInv, RefusedInv, WriteMirrorInv, CopyPenaltyInv, FindPartnerInv,
     ClearPartnerInv, CloseLogInv, ListPageInv, PullRowInv DEF Resumes
<1>4. ASSUME NEW c \in Clerks, Fails(c) PROVE IInv'
  BY <1>4, CoreSilentInv, RefusedInv, PullRowFailsInv, DiesInv DEF Fails
<1> QED
  BY <1>1, <1>2, <1>3, <1>4, StartsInv DEF Next

-----------------------------------------------------------------------------
(* The theorems.                                                           *)

(* The inductive invariant holds.                                          *)
LEMMA Invariant == Spec => []IInv
<1>1. Init => IInv
  BY InitInv
<1>2. IInv /\ [Next]_vars => IInv'
  BY NextInv
<1> QED
  BY <1>1, <1>2, PTL DEF Spec

(* Every variable keeps its type, and a log row that says SUCCESS is about *)
(* something OPERA did, whatever interleaves, fails or dies                *)
(* (finishSyncLog).                                                        *)
THEOREM BookingsInvariant == Spec => []BookingsInv
<1>1. IInv => BookingsInv
  <2>1. ASSUME IInv PROVE SuccessIsReal
    BY <2>1 DEF IInv, LogInv, LogGood, Done, SuccessIsReal, Linked, There
  <2> QED
    BY <2>1 DEF IInv, BookingsInv
<1> QED
  BY <1>1, Invariant, PTL

(* A cancellation logged as done has its penalty on our folio (cancel).    *)
THEOREM PenaltiesAreCopied == Spec => []PenaltyIsCopied
<1>1. IInv => PenaltyIsCopied
  BY DEF IInv, LogInv, LogGood, Done, PenaltyDone, PenaltyIsCopied
<1> QED
  BY <1>1, Invariant, PTL

(* A pull that ended well, not cut off, brought all there was when it      *)
(* began, whatever number of pages and of other requests it took           *)
(* (syncReservations).                                                     *)
THEOREM PullsMissNothing == Spec => []PullMissesNothing
<1>1. IInv => PullMissesNothing
  BY DEF IInv, LogInv, LogGood, PullMissesNothing, Linked, There
<1> QED
  BY <1>1, Invariant, PTL

(* Which steps write one of our rows.                                      *)
LEMMA RowsWritten ==
  ASSUME IInv, NEW c \in Clerks, WriteMirror(c) \/ ClearPartner(c) \/ PullRow(c)
  PROVE  /\ UNCHANGED said
         /\ \E r \in Res : row' = [row EXCEPT ![r] = row'[r]] /\ There(row', r)
<1>0. row \in [Res -> Booking]
  BY DEF IInv, TypeOK
<1>1. CASE WriteMirror(c)
  <2>1. PICK a \in req[c].todo : row' = [row EXCEPT ![a[1]] = Mirrored(a[1], a[2])]
    BY <1>1 DEF WriteMirror
  <2>2. req[c].at = "mirror" /\ UNCHANGED said
    BY <1>1 DEF WriteMirror, At
  <2>3. PICK p \in Requests, L \in LogRow :
          p = req[c] /\ L = log[p.log] /\ Holds(p, L, opera, said, row, owed)
    BY <2>2, InFlight
  <2>4. HoldsWrite(p, L, opera, said, row, owed)
    BY <2>2, <2>3 DEF Holds, HoldsPull
  <2>5. PICK r \in Res, b \in Booking : a = <<r, b>>
    BY <2>1, <2>3 DEF Requests
  <2>6. b.st # "NONE"
    BY <2>1, <2>2, <2>3, <2>4, <2>5 DEF HoldsWrite
  <2>7. row' = [row EXCEPT ![r] = b]
    BY <2>1, <2>5 DEF Mirrored
  <2>8. row'[r] = b
    BY <1>0, <2>7
  <2> QED
    BY <2>2, <2>6, <2>7, <2>8 DEF There
<1>2. CASE ClearPartner(c)
  <2>1. /\ req[c].at = "clear" /\ UNCHANGED said
        /\ row' = [row EXCEPT ![req[c].with].share = NoGroup]
    BY <1>2 DEF ClearPartner, At
  <2>2. PICK s \in Res : s = req[c].with /\ There(row, s)
    BY <2>1, InFlight DEF Holds, HoldsPull, HoldsWrite
  <2>3. PICK b : b = [row[s] EXCEPT !.share = NoGroup]
    OBVIOUS
  <2>4. b.st = row[s].st
    BY <1>0, <2>3 DEF Booking
  <2>5. row' = [row EXCEPT ![s] = b]
    BY <2>1, <2>2, <2>3
  <2>6. row'[s] = b
    BY <1>0, <2>5
  <2> QED
    BY <2>1, <2>2, <2>4, <2>5, <2>6 DEF There
<1>3. CASE PullRow(c)
  <2>1. req[c].at = "pull" /\ UNCHANGED said
    BY <1>3 DEF PullRow, At
  <2>2. PICK a \in req[c].todo : row' = [row EXCEPT ![a[1]] = Pulled(a[1], a[2])]
    BY <1>3 DEF PullRow
  <2>3. PICK r \in Res, b \in Booking : r = a[1] /\ b = Pulled(a[1], a[2]) /\ b.st # "NONE"
    BY <2>1, PulledRow
  <2>4. row' = [row EXCEPT ![r] = b]
    BY <2>2, <2>3
  <2>5. row'[r] = b
    BY <1>0, <2>4
  <2> QED
    BY <2>1, <2>3, <2>4, <2>5 DEF There
<1> QED
  BY <1>1, <1>2, <1>3

(* Our rows start as OPERA's copies, and every step of ours writes one row *)
(* with what OPERA said of it at some moment, or none.                     *)
LEMMA CopyStep ==
  ASSUME IInv, IInv', [Next]_vars
  PROVE  Copy!Next \/ UNCHANGED <<said, row>>
<1>1. ASSUME UNCHANGED row, Onward, said' \in [Res -> SUBSET Booking] PROVE Copy!Next
  BY <1>1 DEF Copy!Next, Copy!OperaSays, Onward
<1>2. CASE OperaDesk
  <2>1. PICK op \in DeskOps, r \in Res, s \in Res : OperaDoes(op, r, s)
    BY <1>2 DEF OperaDesk
  <2>2. UNCHANGED <<row, owed, log, faults, req>>
    BY <1>2 DEF OperaDesk
  <2> QED
    BY <1>1, <2>1, <2>2, OperaStep DEF IInv, TypeOK
<1>3. ASSUME NEW c \in Clerks, CoreAnswers(c) \/ CoreSilent(c) PROVE Copy!Next
  <2>1. PICK r \in Res : Acts(c, r)
    BY <1>3 DEF CoreAnswers, CoreSilent
  <2>2. UNCHANGED <<row, owed>>
    BY <1>3 DEF CoreAnswers, CoreSilent
  <2> QED
    BY <1>1, <2>1, <2>2, ActsStep
<1>4. ASSUME NEW c \in Clerks, WriteMirror(c) \/ ClearPartner(c) \/ PullRow(c) PROVE Copy!Next
  <2>1. UNCHANGED said
    BY <1>4, RowsWritten
  <2>2. PICK r \in Res : row' = [row EXCEPT ![r] = row'[r]] /\ There(row', r)
    BY <1>4, RowsWritten
  <2>3. row'[r] \in Booking /\ ToldBy(said'[r], row'[r])
    BY <2>2 DEF IInv, TypeOK, RowInv, There
  <2>4. Copy!Told(r, row'[r])
    BY <2>1, <2>3 DEF ToldBy, Copy!Told
  <2>5. Copy!Copies(r)
    BY <2>1, <2>2, <2>3, <2>4 DEF Copy!Copies
  <2> QED
    BY <2>5 DEF Copy!Next
<1>5. ASSUME NEW c \in Clerks, Starts(c) PROVE UNCHANGED <<said, row>>
  <2>1. \A l \in Logs : \A op, r, s : Begins(c, l, op, r, s) => UNCHANGED <<said, row>>
    BY DEF Begins
  <2>2. \A l \in Logs : StartPull(c, l) => UNCHANGED <<said, row>>
    BY DEF StartPull
  <2> QED
    BY <1>5, <2>1, <2>2 DEF Starts, StartCreate, StartUpdate, StartCancel, StartGuarantee,
       StartNoShow, StartConfirm, StartUnshare, StartShare
<1>6. ASSUME NEW c \in Clerks, CopyPenalty(c) \/ FindPartner(c) \/ CoreRefuses(c) \/ WriteFails(c)
      PROVE  UNCHANGED <<said, row>>
  BY <1>6 DEF CopyPenalty, FindPartner, CoreRefuses, WriteFails
<1>8. ASSUME NEW c \in Clerks, CloseLog(c) \/ ListPage(c) \/ Dies(c)
      PROVE  UNCHANGED <<said, row>>
  <2>1. CASE CloseLog(c)
    BY <2>1 DEF CloseLog
  <2>2. CASE ListPage(c)
    BY <2>2 DEF ListPage
  <2>3. CASE Dies(c)
    BY <2>3 DEF Dies
  <2> QED
    BY <1>8, <2>1, <2>2, <2>3
<1>9. ASSUME NEW c \in Clerks, PullRowFails(c) PROVE UNCHANGED <<said, row>>
  BY <1>9 DEF PullRowFails
<1>7. CASE UNCHANGED vars
  BY <1>7 DEF vars
<1> QED
  BY <1>2, <1>3, <1>4, <1>5, <1>6, <1>7, <1>8, <1>9 DEF Next, Resumes, Fails

(* Our reservation table implements its promise: rows change one at a      *)
(* time, to what OPERA said of them at some moment (ReservationCopy).      *)
THEOREM RowsAreCopies == Spec => ImplementsCopy
<1>1. Init => Copy!Init
  <2> SUFFICES ASSUME Init PROVE Copy!Init
    OBVIOUS
  <2>1. row \in [Res -> Booking]
    BY InitInv DEF IInv, TypeOK
  <2> QED
    BY <2>1 DEF Init, Copy!Init
<1>2. IInv /\ IInv' /\ [Next]_vars => [Copy!Next]_<<said, row>>
  BY CopyStep
<1> QED
  BY <1>1, <1>2, Invariant, PTL DEF Spec, ImplementsCopy, Copy!Spec

=============================================================================
