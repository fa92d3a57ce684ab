------------------------------ MODULE Bookings ------------------------------
(***************************************************************************)
(* Writes to reservations and their pull: src/reservations/booking.        *)
(* service.ts, src/sync/sync.service.ts and src/sync/sync-log.ts.          *)
(*                                                                         *)
(* OPERA decides, and we copy its answer.  A write opens a log row, calls  *)
(* OPERA, writes the answer (the folio and the share partner too, where    *)
(* they are concerned) and closes the log row; a pull walks OPERA's list   *)
(* page by page.  Every await is a step of its own.                        *)
(*                                                                         *)
(* Left out: one property, so no scope; room types, rate plans and         *)
(* profiles that a write makes sure of (the profile is in Profiles); what  *)
(* only reads (availability, rates, policies).  RESERVED stands for        *)
(* RESERVED, CONFIRMED and what the front desk makes of them.              *)
(***************************************************************************)
EXTENDS FiniteSets, Naturals

CONSTANTS
  Clerks,     \* clients with at most one request in flight each
  MaxRes,     \* bounds the reservations OPERA makes
  Groups,     \* share group ids OPERA can give out
  Logs,       \* sync log rows (bounds requests)
  MaxChange,  \* bounds the changes of dates and of terms
  PageSize, MaxPages,
  Trouble,    \* the failures of the environment that may happen
  DeskOps,    \* what OPERA's own users do
  NoGroup, NoLog

(* "core": an answer of OPERA gets lost.  "db": a write of ours fails.     *)
(* "dies": the process stops.                                              *)
Troubles == {"core", "db", "dies"}

ASSUME BookingsAssumption ==
  /\ MaxRes \in Nat /\ MaxChange \in Nat
  /\ PageSize \in Nat \ {0} /\ MaxPages \in Nat \ {0}
  /\ Trouble \subseteq Troubles
  /\ NoGroup \notin Groups
  /\ NoLog \notin Logs

VARIABLES
  opera,  \* OPERA's reservations
  said,   \* everything OPERA said of each (history)
  row,    \* our reservation rows
  owed,   \* reservations whose penalty is on our copy of the folio
  log,    \* sync log rows
  faults, \* reservations with a FAILED row of their own from a pull
  req     \* the request each clerk has in flight

vars == <<opera, said, row, owed, log, faults, req>>

Res == 1..MaxRes  \* in the order of OPERA's list

(* dates: what update changes, and a pull copies; terms: the guarantee,    *)
(* the rate and the penalty, which a pull leaves alone, like the group.    *)
Booking == [st : {"NONE", "WAITLISTED", "RESERVED", "CANCELLED", "NO_SHOW"},
            dates : 0..MaxChange, terms : 0..MaxChange, fee : BOOLEAN,
            share : Groups \cup {NoGroup}]
NoBooking == [st |-> "NONE", dates |-> 0, terms |-> 0, fee |-> FALSE, share |-> NoGroup]
Exists(r) == opera[r].st # "NONE"
Live(r) == opera[r].st \in {"WAITLISTED", "RESERVED"}

Ops == {"create", "update", "cancel", "guarantee", "noShow", "confirm", "share",
        "unshare", "pull"}
(* acted, due, cut and lost are about a log row, not in it: whether OPERA  *)
(* did it, what a pull should bring and whether it was truncated, whether  *)
(* its request died.                                                       *)
LogRow == [st : {"NONE", "PENDING", "SUCCESS", "FAILED"}, op : Ops, res : Res \cup {0},
           acted : BOOLEAN, due : SUBSET Res, cut : BOOLEAN, lost : BOOLEAN]
NoRow == [st |-> "NONE", op |-> "pull", res |-> 0, acted |-> FALSE, due |-> {}, cut |-> FALSE,
          lost |-> FALSE]

Stages == {"idle", "core", "mirror", "folio", "partner", "clear", "list", "pull", "close"}
Requests == [at : Stages, op : Ops, res : Res \cup {0}, with : Res \cup {0},
             log : Logs \cup {NoLog}, todo : SUBSET (Res \X Booking),
             group : Groups \cup {NoGroup}, page : 0..MaxPages,
             full : BOOLEAN, failed : BOOLEAN, outcome : {"SUCCESS", "FAILED"}]
Idle == [at |-> "idle", op |-> "pull", res |-> 0, with |-> 0, log |-> NoLog, todo |-> {},
         group |-> NoGroup, page |-> 0, full |-> FALSE, failed |-> FALSE, outcome |-> "SUCCESS"]

(* Some reservations were made and copied before, two of them shared.      *)
Booked == [NoBooking EXCEPT !.st = "RESERVED"]
Init ==
  /\ \E n \in 0..MaxRes, g \in Groups \cup {NoGroup} :
       /\ n < 2 => g = NoGroup
       /\ opera = [r \in Res |-> IF r > n THEN NoBooking
                                ELSE [Booked EXCEPT !.share = IF r <= 2 THEN g ELSE @]]
  /\ said = [r \in Res |-> {NoBooking, opera[r]}]
  /\ row = opera
  /\ owed = {}
  /\ log = [l \in Logs |-> NoRow]
  /\ faults = {}
  /\ req = [c \in Clerks |-> Idle]

At(c, stage) == req[c].at = stage
Goes(c, change) == req' = [req EXCEPT ![c] = change]
Ends(c, outcome) == Goes(c, [req[c] EXCEPT !.at = "close", !.outcome = outcome])

-----------------------------------------------------------------------------
(* OPERA.                                                                  *)

OperaSets(new) ==
  /\ opera' = new
  /\ said' = [r \in Res |-> said[r] \cup {new[r]}]

OperaCreates(r) ==
  /\ \A s \in Res : Exists(s) <=> s < r
  /\ \E st \in {"WAITLISTED", "RESERVED"} :
       OperaSets([opera EXCEPT ![r] = [NoBooking EXCEPT !.st = st]])
OperaUpdates(r) ==
  /\ Live(r) /\ opera[r].dates < MaxChange
  /\ OperaSets([opera EXCEPT ![r].dates = @ + 1])
OperaSetsGuarantee(r) ==
  /\ Live(r) /\ opera[r].terms < MaxChange
  /\ OperaSets([opera EXCEPT ![r].terms = @ + 1])
(* A penalty is posted on OPERA's folio as part of the cancellation.       *)
OperaCancels(r) ==
  /\ Live(r)
  /\ \E fee \in BOOLEAN :
       OperaSets([opera EXCEPT ![r].st = "CANCELLED", ![r].fee = fee])
OperaMarksNoShow(r) ==
  /\ Live(r)
  /\ \E fee \in BOOLEAN :
       OperaSets([opera EXCEPT ![r].st = "NO_SHOW", ![r].fee = fee])
OperaConfirms(r) ==
  /\ opera[r].st = "WAITLISTED"
  /\ OperaSets([opera EXCEPT ![r].st = "RESERVED"])

Members(g) == { r \in Res : opera[r].share = g }
Fresh(g) == \A r \in Res : \A v \in said[r] : v.share # g
(* One of the two may already be in a group, which the other then joins.   *)
OperaShares(r, s) ==
  /\ r # s /\ Live(r) /\ Live(s)
  /\ NoGroup \in {opera[r].share, opera[s].share}
  /\ \E g \in Groups :
       /\ IF opera[r].share = opera[s].share THEN Fresh(g)
          ELSE g \in {opera[r].share, opera[s].share}
       /\ OperaSets([opera EXCEPT ![r].share = g, ![s].share = g])
(* A group of one is none.                                                 *)
OperaUnshares(r) ==
  LET left == Members(opera[r].share) \ {r} IN
  /\ opera[r].share # NoGroup
  /\ OperaSets([s \in Res |->
       IF s = r \/ (s \in left /\ Cardinality(left) = 1)
       THEN [opera[s] EXCEPT !.share = NoGroup] ELSE opera[s]])

OperaDoes(op, r, s) ==
  \/ op = "create" /\ OperaCreates(r)
  \/ op = "update" /\ OperaUpdates(r)
  \/ op = "cancel" /\ OperaCancels(r)
  \/ op = "guarantee" /\ OperaSetsGuarantee(r)
  \/ op = "noShow" /\ OperaMarksNoShow(r)
  \/ op = "confirm" /\ OperaConfirms(r)
  \/ op = "share" /\ OperaShares(r, s)
  \/ op = "unshare" /\ OperaUnshares(r)

-----------------------------------------------------------------------------
(* Starting a request: the row is read and checked, the log row opened.    *)

Linked(r) == row[r].st # "NONE"
Begins(c, l, op, r, s) ==
  /\ At(c, "idle")
  /\ log[l].st = "NONE"
  /\ log' = [log EXCEPT ![l] = [NoRow EXCEPT !.st = "PENDING", !.op = op, !.res = r]]
  /\ Goes(c, [Idle EXCEPT !.at = "core", !.op = op, !.res = r, !.with = s, !.log = l,
               !.group = IF op = "unshare" THEN row[r].share ELSE NoGroup])
  /\ UNCHANGED <<opera, said, row, owed, faults>>

StartCreate(c, l) == Begins(c, l, "create", 0, 0)
StartUpdate(c, l, r) == Linked(r) /\ Begins(c, l, "update", r, 0)
StartCancel(c, l, r) == Linked(r) /\ Begins(c, l, "cancel", r, 0)
StartGuarantee(c, l, r) == Linked(r) /\ Begins(c, l, "guarantee", r, 0)
StartNoShow(c, l, r) == Linked(r) /\ Begins(c, l, "noShow", r, 0)
StartConfirm(c, l, r) == row[r].st = "WAITLISTED" /\ Begins(c, l, "confirm", r, 0)
StartShare(c, l, r, s) == Linked(r) /\ Linked(s) /\ Begins(c, l, "share", r, s)
StartUnshare(c, l, r) ==
  Linked(r) /\ row[r].share # NoGroup /\ Begins(c, l, "unshare", r, 0)

-----------------------------------------------------------------------------
(* The call, and its answer.  Of a share both reservations are answered,   *)
(* otherwise the one concerned.                                            *)

Target(c, r) == IF req[c].op = "create" THEN r \in Res ELSE r = req[c].res
Acts(c, r) ==
  /\ At(c, "core")
  /\ Target(c, r)
  /\ OperaDoes(req[c].op, r, req[c].with)
  /\ log' = [log EXCEPT ![req[c].log].acted = TRUE]

CoreAnswers(c) ==
  \E r \in Res :
    /\ Acts(c, r)
    /\ Goes(c, [req[c] EXCEPT !.at = "mirror", !.res = r,
                 !.todo = { <<s, opera'[s]>> : s \in {r, req[c].with} \ {0} }])
    /\ UNCHANGED <<row, owed, faults>>
CoreRefuses_Swallowed(c) ==
  /\ At(c, "core") \/ At(c, "list")
  /\ Ends(c, "SUCCESS")
  /\ UNCHANGED <<opera, said, row, owed, log, faults>>
CoreRefuses(c) ==
  /\ At(c, "core") \/ At(c, "list")
  /\ Ends(c, "FAILED")
  /\ UNCHANGED <<opera, said, row, owed, log, faults>>
(* OPERA did it, and its answer is lost.                                   *)
CoreSilent(c) ==
  /\ "core" \in Trouble
  /\ \E r \in Res : Acts(c, r)
  /\ Ends(c, "FAILED")
  /\ UNCHANGED <<row, owed, faults>>

(* What OPERA returned is written verbatim.                                *)
Mirrored_AsAsked(r, b) == [b EXCEPT !.st = IF Linked(r) THEN row[r].st ELSE "WAITLISTED"]
Mirrored(r, b) == b
AfterMirror_Closes(op, b) == IF op = "unshare" THEN "partner" ELSE "close"
AfterMirror(op, b) ==
  IF op = "cancel" /\ b.fee THEN "folio" ELSE IF op = "unshare" THEN "partner" ELSE "close"
WriteMirror(c) ==
  /\ At(c, "mirror")
  /\ \E a \in req[c].todo :
       /\ row' = [row EXCEPT ![a[1]] = Mirrored(a[1], a[2])]
       /\ Goes(c, [req[c] EXCEPT !.todo = @ \ {a},
                    !.at = IF req[c].todo = {a} THEN AfterMirror(req[c].op, a[2]) ELSE @])
  /\ UNCHANGED <<opera, said, owed, log, faults>>

(* The penalty of a cancellation is copied from OPERA's folio.             *)
CopyPenalty(c) ==
  /\ At(c, "folio")
  /\ owed' = owed \cup {req[c].res}
  /\ Ends(c, "SUCCESS")
  /\ UNCHANGED <<opera, said, row, log, faults>>

(* The partner left alone is not in OPERA's answer; it is looked for among *)
(* our rows of the group the request read when it started.                 *)
FindPartner(c) ==
  LET left == { s \in Res : row[s].share = req[c].group } IN
  /\ At(c, "partner")
  /\ IF Cardinality(left) = 1
     THEN \E s \in left : Goes(c, [req[c] EXCEPT !.at = "clear", !.with = s])
     ELSE Ends(c, "SUCCESS")
  /\ UNCHANGED <<opera, said, row, owed, log, faults>>
ClearPartner(c) ==
  /\ At(c, "clear")
  /\ row' = [row EXCEPT ![req[c].with].share = NoGroup]
  /\ Ends(c, "SUCCESS")
  /\ UNCHANGED <<opera, said, owed, log, faults>>

(* A write of ours fails after OPERA acted, or the folio is not answered.  *)
WriteFails(c) ==
  /\ "db" \in Trouble
  /\ req[c].at \in {"mirror", "folio", "partner", "clear"}
  /\ Ends(c, "FAILED")
  /\ UNCHANGED <<opera, said, row, owed, log, faults>>

CloseLog_SuccessOnly(c) ==
  LET q == req[c] IN
  /\ At(c, "close")
  /\ log' = IF q.outcome = "SUCCESS"
            THEN [log EXCEPT ![q.log] = [@ EXCEPT !.st = "SUCCESS", !.res = q.res]] ELSE log
  /\ Goes(c, Idle)
  /\ UNCHANGED <<opera, said, row, owed, faults>>
CloseLog(c) ==
  LET q == req[c]
      L == log[q.log] IN
  /\ At(c, "close")
  /\ log' = [log EXCEPT ![q.log] =
       [L EXCEPT !.st = q.outcome, !.res = IF q.outcome = "SUCCESS" THEN q.res ELSE L.res]]
  /\ Goes(c, Idle)
  /\ UNCHANGED <<opera, said, row, owed, faults>>

-----------------------------------------------------------------------------
(* The pull.                                                               *)

StartPull(c, l) ==
  /\ At(c, "idle")
  /\ log[l].st = "NONE"
  /\ log' = [log EXCEPT ![l] =
       [NoRow EXCEPT !.st = "PENDING", !.due = { r \in Res : Exists(r) }]]
  /\ Goes(c, [Idle EXCEPT !.at = "list", !.log = l])
  /\ UNCHANGED <<opera, said, row, owed, faults>>

(* Reservations are listed by number, so a page is a range of them.        *)
PageItems(page) ==
  { r \in Res : Exists(r) /\ r > page * PageSize /\ r <= (page + 1) * PageSize }
LastPage_Full(items) == Cardinality(items) <= PageSize
LastPage(items) == Cardinality(items) < PageSize

(* After the last row of a page: the next page, or the end of the batch,   *)
(* which says so when it is cut off.                                       *)
PullOutcome(failed) == IF failed THEN "FAILED" ELSE "SUCCESS"
Turns(c, full, failed) ==
  LET q == [req[c] EXCEPT !.todo = {}, !.full = full, !.failed = failed]
      ends == ~ full \/ q.page + 1 = MaxPages IN
  /\ log' = [log EXCEPT ![q.log].cut = full /\ ends]
  /\ Goes(c, IF ends THEN [q EXCEPT !.at = "close", !.outcome = PullOutcome(failed)]
             ELSE [q EXCEPT !.at = "list", !.page = @ + 1])

ListPage(c) ==
  LET items == PageItems(req[c].page) IN
  /\ At(c, "list")
  /\ IF items = {} THEN Turns(c, FALSE, req[c].failed)
     ELSE /\ Goes(c, [req[c] EXCEPT !.at = "pull", !.full = ~ LastPage(items),
                       !.todo = { <<r, opera[r]>> : r \in items }])
          /\ UNCHANGED log
  /\ UNCHANGED <<opera, said, row, owed, faults>>

(* A pull copies status and dates; a row it makes has no group and no      *)
(* terms.                                                                  *)
Pulled(r, b) == [row[r] EXCEPT !.st = b.st, !.dates = b.dates]
Through(c, a, failed) ==
  IF req[c].todo = {a} THEN Turns(c, req[c].full, failed)
  ELSE /\ Goes(c, [req[c] EXCEPT !.todo = @ \ {a}, !.failed = failed])
       /\ UNCHANGED log
PullRow(c) ==
  /\ At(c, "pull")
  /\ \E a \in req[c].todo :
       /\ row' = [row EXCEPT ![a[1]] = Pulled(a[1], a[2])]
       /\ Through(c, a, req[c].failed)
  /\ UNCHANGED <<opera, said, owed, faults>>
(* One reservation that fails does not stop the batch.                     *)
PullRowFails(c) ==
  /\ "db" \in Trouble
  /\ At(c, "pull")
  /\ \E a \in req[c].todo :
       /\ faults' = faults \cup {a[1]}
       /\ Through(c, a, TRUE)
  /\ UNCHANGED <<opera, said, row, owed>>

-----------------------------------------------------------------------------
(* The environment.                                                        *)

(* The process stops, or the log row cannot be written.                    *)
Dies(c) ==
  /\ "dies" \in Trouble
  /\ ~ At(c, "idle")
  /\ log' = [log EXCEPT ![req[c].log].lost = TRUE]
  /\ Goes(c, Idle)
  /\ UNCHANGED <<opera, said, row, owed, faults>>

OperaDesk ==
  /\ \E op \in DeskOps, r, s \in Res : OperaDoes(op, r, s)
  /\ UNCHANGED <<row, owed, log, faults, req>>

Starts(c) ==
  \E l \in Logs :
    \/ StartCreate(c, l) \/ StartPull(c, l)
    \/ \E r \in Res :
         \/ StartUpdate(c, l, r) \/ StartCancel(c, l, r) \/ StartGuarantee(c, l, r)
         \/ StartNoShow(c, l, r) \/ StartConfirm(c, l, r) \/ StartUnshare(c, l, r)
         \/ \E s \in Res \ {r} : StartShare(c, l, r, s)

Resumes(c) ==
  \/ CoreAnswers(c) \/ CoreRefuses(c) \/ WriteMirror(c) \/ CopyPenalty(c)
  \/ FindPartner(c) \/ ClearPartner(c) \/ CloseLog(c)
  \/ ListPage(c) \/ PullRow(c)

Fails(c) == CoreSilent(c) \/ WriteFails(c) \/ PullRowFails(c) \/ Dies(c)

Next == OperaDesk \/ \E c \in Clerks : Starts(c) \/ Resumes(c) \/ Fails(c)

Spec == Init /\ [][Next]_vars

(* A promise that settled is resumed, and calls have a time limit.         *)
FairSpec == Spec /\ \A c \in Clerks : WF_vars(Resumes(c))

-----------------------------------------------------------------------------
(* Every variable keeps the values the code gives it.                      *)
TypeOK ==
  /\ opera \in [Res -> Booking]
  /\ said \in [Res -> SUBSET Booking]
  /\ row \in [Res -> Booking]
  /\ owed \subseteq Res
  /\ log \in [Logs -> LogRow]
  /\ faults \subseteq Res
  /\ req \in [Clerks -> Requests]

(* A log row that says SUCCESS is about something OPERA did, on a          *)
(* reservation we have a row of (create, update, ...: the log is closed    *)
(* after the call and the copy of its answer).                             *)
SuccessIsReal ==
  \A l \in Logs : log[l].st = "SUCCESS" /\ log[l].op # "pull" =>
    log[l].acted /\ log[l].res \in Res /\ Linked(log[l].res)

(* The log is not ahead of OPERA, whatever interleaves or fails.           *)
BookingsInv == TypeOK /\ SuccessIsReal

(* A cancellation logged as done whose penalty OPERA charged has the       *)
(* charge on our folio ("Without copying it over, the charge exists only   *)
(* there and we never know money is owed", cancel).                        *)
PenaltyIsCopied ==
  \A l \in Logs : log[l].st = "SUCCESS" /\ log[l].op = "cancel" =>
    ~ opera[log[l].res].fee \/ log[l].res \in owed

(* A pull that ended well and was not cut off brought every reservation    *)
(* there was when it began (syncReservations, its pages and its counts).   *)
PullMissesNothing ==
  \A l \in Logs : log[l].st = "SUCCESS" /\ log[l].op = "pull" /\ ~ log[l].cut =>
    \A r \in log[l].due : Linked(r)

(* Our rows are what ReservationCopy promises.                             *)
Copy == INSTANCE ReservationCopy WITH copy <- row
ImplementsCopy == Copy!Spec

(* Every log row that was opened gets closed, unless its request died      *)
(* ("Success and failure both land here so no row stays PENDING",          *)
(* finishSyncLog).                                                         *)
LogsAreClosed ==
  \A l \in Logs : log[l].st = "PENDING" ~> log[l].st # "PENDING" \/ log[l].lost

=============================================================================
