----------------------------- MODULE StaffProofs -----------------------------
(***************************************************************************)
(* Proofs about Staff, for every number of clients, accounts, shifts,      *)
(* payments, tasks and instructions and every bound on them.               *)
(***************************************************************************)
EXTENDS Staff, FiniteSetTheorems, TLAPS

(* A client without a request is a value of the request table.             *)
LEMMA IdleIsRequest == Idle \in Requests
<1>1. /\ [role |-> None, active |-> None] \in Change
      /\ "PENDING" \in Progress /\ "update" \in Ops
  BY DEF Change, Progress, Ops
<1> QED
  BY <1>1 DEF Idle, Requests

(* What one request counts on, of shifts, payments and instructions.       *)
Holds(q, sh, rc, tr) ==
  /\ q.at = "write" /\ q.op \in {"open", "take", "refund"} => q.by \in Users
  /\ q.at = "count" => q.op = "update"
  /\ q.at # "idle" /\ q.op = "update" => q.on \in Users
  /\ q.at = "write" /\ q.op = "close" => q.on \in Shifts /\ sh[q.on].of # None
  /\ q.at = "write" /\ q.op = "take" =>
       q.to = None \/ (q.to \in Shifts /\ sh[q.to].of = q.by)
  /\ q.at = "write" /\ q.op = "refund" => q.on \in Receipts /\ rc[q.on].st # "none"
  /\ q.at = "write" /\ q.op \in {"assign", "progress"} => q.on \in Tasks
  /\ q.at = "write" /\ q.op = "assign" => q.to \in Users \cup {None}
  /\ q.at = "write" /\ q.op \in {"complete", "remove"} => q.on \in Traces /\ tr[q.on] # "none"

(* No shift changes hands, and no payment or instruction is forgotten.     *)
Onward ==
  /\ \A h \in Shifts : shift[h].of # None => shift'[h].of = shift[h].of
  /\ \A r \in Receipts : receipt[r].st # "none" => receipt'[r].st # "none"
  /\ \A t \in Traces : trace[t] # "none" => trace'[t] # "none"

(* Nothing is asked of a client without a request.                         *)
LEMMA IdleHolds == \A sh, rc, tr : Holds(Idle, sh, rc, tr)
BY DEF Holds, Idle

(* The requests' part of the invariant, request by request.                *)
LEMMA HoldsIsInv == RequestInv <=> \A c \in Clients : Holds(req[c], shift, receipt, trace)
BY DEF RequestInv, Holds

(* What a request counts on survives the steps of all the others.          *)
LEMMA HoldsOnward ==
  ASSUME NEW q \in Requests, Holds(q, shift, receipt, trace), Onward
  PROVE  Holds(q, shift', receipt', trace')
<1>1. None \notin Users
  BY StaffAssumption
<1> QED
  BY <1>1 DEF Holds, Onward

(* The invariant after a step that leaves every request alone.             *)
LEMMA OthersStep ==
  ASSUME StaffInv, UNCHANGED <<req, calm>>, Onward, ReceiptsAreInOwnShift',
         user' \in [Users -> User], token' \in [Users -> Roles \cup {None}],
         shift' \in [Shifts -> Shift], receipt' \in [Receipts -> Receipt],
         cash' \in [Users -> Int], task' \in [Tasks -> Task], trace' \in [Traces -> TraceStatus]
  PROVE  StaffInv'
<1>1. \A c \in Clients : req[c] \in Requests /\ Holds(req[c], shift, receipt, trace)
  BY HoldsIsInv DEF StaffInv, TypeOK
<1>2. \A c \in Clients : Holds(req'[c], shift', receipt', trace')
  BY <1>1, HoldsOnward
<1>3. RequestInv'
  BY <1>2 DEF RequestInv, Holds
<1> QED
  BY <1>3 DEF StaffInv, TypeOK, OneAtATime

(* The invariant after a step of a request.                                *)
LEMMA RequestStep ==
  ASSUME StaffInv, NEW c \in Clients, NEW q \in Requests, req' = [req EXCEPT ![c] = q],
         Holds(q, shift', receipt', trace'), Onward, ReceiptsAreInOwnShift',
         calm' \in BOOLEAN,
         calm' => calm /\ (\/ req[c].at # "idle" \/ q.at = "idle"
                           \/ \A d \in Clients : req[d].at = "idle"),
         user' \in [Users -> User], token' \in [Users -> Roles \cup {None}],
         shift' \in [Shifts -> Shift], receipt' \in [Receipts -> Receipt],
         cash' \in [Users -> Int], task' \in [Tasks -> Task], trace' \in [Traces -> TraceStatus]
  PROVE  StaffInv'
<1>1. /\ \A d \in Clients : req[d] \in Requests /\ Holds(req[d], shift, receipt, trace)
      /\ req \in [Clients -> Requests] /\ req' \in [Clients -> Requests]
  BY HoldsIsInv DEF StaffInv, TypeOK
<1>2. req'[c] = q /\ \A d \in Clients : d # c => req'[d] = req[d]
  BY <1>1
<1>3. ASSUME NEW d \in Clients PROVE Holds(req'[d], shift', receipt', trace')
  <2>1. CASE d = c
    BY <1>2, <2>1
  <2>2. CASE d # c
    BY <1>1, <1>2, <2>2, HoldsOnward
  <2> QED
    BY <2>1, <2>2
<1>4. RequestInv'
  BY <1>3 DEF RequestInv, Holds
<1>5. OneAtATime'
  <2> SUFFICES ASSUME calm', NEW b \in Clients, NEW d \in Clients, b # d
               PROVE  req'[b].at = "idle" \/ req'[d].at = "idle"
    BY DEF OneAtATime
  <2>1. req[b].at = "idle" \/ req[d].at = "idle"
    BY DEF StaffInv, OneAtATime
  <2>2. CASE b = c
    BY <1>2, <2>1, <2>2
  <2>3. CASE d = c
    BY <1>2, <2>1, <2>3
  <2>4. CASE b # c /\ d # c
    BY <1>2, <2>1, <2>4
  <2> QED
    BY <2>2, <2>3, <2>4
<1>6. TypeOK'
  BY <1>1 DEF TypeOK
<1> QED
  BY <1>4, <1>5, <1>6 DEF StaffInv

(* The invariant holds before the first request.                           *)
LEMMA InitInv == Init => StaffInv
<1> SUFFICES ASSUME Init PROVE StaffInv
  OBVIOUS
<1> USE DEF Init
<1>1. user \in [Users -> User] /\ token \in [Users -> Roles \cup {None}]
  <2>1. NoUser \in User /\ [role : Roles, active : {TRUE}] \subseteq User
    BY DEF User, NoUser
  <2> QED
    BY <2>1
<1>2. /\ shift \in [Shifts -> Shift] /\ receipt \in [Receipts -> Receipt]
      /\ cash \in [Users -> Int] /\ task \in [Tasks -> Task] /\ trace \in [Traces -> TraceStatus]
  BY DEF Shift, Receipt, Task, TraceStatus
<1>3. TypeOK
  BY <1>1, <1>2, IdleIsRequest DEF TypeOK
<1>4. ReceiptsAreInOwnShift
  BY DEF ReceiptsAreInOwnShift
<1>5. RequestInv
  BY DEF RequestInv, Idle
<1>6. OneAtATime
  BY DEF OneAtATime, Idle
<1> QED
  BY <1>3, <1>4, <1>5, <1>6 DEF StaffInv

-----------------------------------------------------------------------------
(* Steps that are no part of a request in flight.                          *)

(* Signing in and out, new accounts, tasks and instructions.               *)
LEMMA AtOnceInv ==
  ASSUME StaffInv, NEW u \in Users,
         \/ Login(u) \/ TokenExpires(u) \/ GenerateTasks(u)
         \/ \E v \in Users : \E role \in Roles : CreateUser(u, v, role)
         \/ \E t \in Traces : CreateTrace(u, t)
  PROVE  StaffInv'
<1>1. /\ user \in [Users -> User] /\ token \in [Users -> Roles \cup {None}]
      /\ shift \in [Shifts -> Shift] /\ receipt \in [Receipts -> Receipt]
      /\ cash \in [Users -> Int] /\ task \in [Tasks -> Task] /\ trace \in [Traces -> TraceStatus]
      /\ ReceiptsAreInOwnShift
  BY DEF StaffInv, TypeOK
<1>2. UNCHANGED <<shift, receipt, cash, req, calm>>
  BY DEF Login, TokenExpires, GenerateTasks, CreateUser, CreateTrace, desk
<1>3. ReceiptsAreInOwnShift'
  BY <1>1, <1>2 DEF ReceiptsAreInOwnShift
<1>4. CASE Login(u) \/ TokenExpires(u)
  <2>1. token' \in [Users -> Roles \cup {None}] /\ UNCHANGED <<user, task, trace>>
    BY <1>1, <1>4 DEF Login, TokenExpires, User
  <2>2. Onward
    BY <1>2, <2>1 DEF Onward
  <2> QED
    BY <1>1, <1>2, <1>3, <2>1, <2>2, OthersStep
<1>5. CASE GenerateTasks(u)
  <2>1. task' \in [Tasks -> Task] /\ UNCHANGED <<user, token, trace>>
    BY <1>1, <1>5 DEF GenerateTasks, Task, Progress
  <2>2. Onward
    BY <1>2, <2>1 DEF Onward
  <2> QED
    BY <1>1, <1>2, <1>3, <2>1, <2>2, OthersStep
<1>6. CASE \E v \in Users : \E role \in Roles : CreateUser(u, v, role)
  <2>1. user' \in [Users -> User] /\ UNCHANGED <<token, task, trace>>
    BY <1>1, <1>6 DEF CreateUser, User
  <2>2. Onward
    BY <1>2, <2>1 DEF Onward
  <2> QED
    BY <1>1, <1>2, <1>3, <2>1, <2>2, OthersStep
<1>7. CASE \E t \in Traces : CreateTrace(u, t)
  <2>1. trace' \in [Traces -> TraceStatus] /\ UNCHANGED <<user, token, task>>
    BY <1>1, <1>7 DEF CreateTrace, TraceStatus
  <2>2. Onward
    BY <1>1, <1>2, <1>7 DEF Onward, CreateTrace
  <2> QED
    BY <1>1, <1>2, <1>3, <2>1, <2>2, OthersStep
<1> QED
  BY <1>4, <1>5, <1>6, <1>7

(* A request that starts writes nothing.                                   *)
LEMMA BeginsInv ==
  ASSUME StaffInv, NEW c \in Clients, NEW q \in Requests, NEW quietly \in BOOLEAN,
         Begins(c, q, quietly), Holds(q, shift, receipt, trace)
  PROVE  StaffInv'
<1>1. /\ req' = [req EXCEPT ![c] = q]
      /\ calm' = (calm /\ quietly /\ \A d \in Clients : req[d].at = "idle")
      /\ UNCHANGED <<user, token, shift, receipt, cash, task, trace>>
  BY DEF Begins, desk
<1>2. calm' \in BOOLEAN /\ (calm' => calm /\ \A d \in Clients : req[d].at = "idle")
  BY <1>1 DEF StaffInv, TypeOK
<1>3. Onward /\ ReceiptsAreInOwnShift' /\ Holds(q, shift', receipt', trace')
  BY <1>1 DEF Onward, StaffInv, ReceiptsAreInOwnShift
<1> QED
  BY <1>1, <1>2, <1>3, RequestStep DEF StaffInv, TypeOK

-----------------------------------------------------------------------------
(* The requests that start.                                                *)

(* An update names an account and what it becomes.                         *)
LEMMA StartUpdateInv ==
  ASSUME StaffInv, NEW c \in Clients, NEW u \in Users, NEW v \in Users, NEW new \in Change,
         StartUpdate(c, u, v, new)
  PROVE  StaffInv'
<1> DEFINE stage == IF LosesAdmin(v, new) THEN "count" ELSE "write"
           q == [Idle EXCEPT !.at = stage, !.op = "update", !.on = v, !.change = new]
<1>1. q \in Requests /\ q.at \in {"count", "write"} /\ q.op = "update" /\ q.on = v /\ q.change = new
  BY IdleIsRequest DEF Requests, Ops, Idle
<1>2. Begins(c, q, TRUE)
  BY DEF StartUpdate, Starts
<1> HIDE DEF q
<1>3. Holds(q, shift, receipt, trace)
  BY <1>1, <1>2 DEF Holds
<1> QED
  BY <1>1, <1>2, <1>3, BeginsInv

(* Shifts are opened and closed, and cash is taken and given back, by      *)
(* somebody; cash in a shift of theirs or in none.                         *)
LEMMA StartCashInv ==
  ASSUME StaffInv, NEW c \in Clients, NEW u \in Users,
         \/ \E f \in Floats : StartOpen(c, u, f)
         \/ \E h \in Shifts : StartClose(c, u, h)
         \/ StartTake(c, u)
         \/ \E r \in Receipts : StartRefund(c, u, r)
  PROVE  StaffInv'
<1>1. CASE \E f \in Floats : StartOpen(c, u, f)
  <2>1. PICK f \in Floats : StartOpen(c, u, f)
    BY <1>1
  <2> DEFINE q == [Idle EXCEPT !.at = "write", !.op = "open", !.by = u, !.float = f]
  <2>2. q \in Requests /\ q.at = "write" /\ q.op = "open" /\ q.by = u
    BY IdleIsRequest, StaffAssumption DEF Requests, Ops, Idle
  <2>3. Begins(c, q, TRUE)
    BY <2>1 DEF StartOpen, Starts
  <2> HIDE DEF q
  <2>4. Holds(q, shift, receipt, trace)
    BY <2>2 DEF Holds
  <2> QED
    BY <2>2, <2>3, <2>4, BeginsInv
<1>2. CASE \E h \in Shifts : StartClose(c, u, h)
  <2>1. PICK h \in Shifts : StartClose(c, u, h)
    BY <1>2
  <2> DEFINE q == [Idle EXCEPT !.at = "write", !.op = "close", !.on = h]
  <2>2. q \in Requests /\ q.at = "write" /\ q.op = "close" /\ q.on = h
    BY IdleIsRequest DEF Requests, Ops, Idle
  <2>3. shift[h].of # None /\ Begins(c, q, TRUE)
    BY <2>1, StaffAssumption DEF StartClose, Starts
  <2> HIDE DEF q
  <2>4. Holds(q, shift, receipt, trace)
    BY <2>2, <2>3 DEF Holds
  <2> QED
    BY <2>2, <2>3, <2>4, BeginsInv
<1>3. CASE StartTake(c, u)
  <2>1. PICK h \in IF Open(u) = {} THEN {None} ELSE Open(u) :
          Starts(c, [Idle EXCEPT !.at = "write", !.op = "take", !.by = u, !.to = h])
    BY <1>3 DEF StartTake
  <2>2. h = None \/ (h \in Shifts /\ shift[h].of = u)
    BY <2>1 DEF Open
  <2> DEFINE q == [Idle EXCEPT !.at = "write", !.op = "take", !.by = u, !.to = h]
  <2>3. q \in Requests /\ q.at = "write" /\ q.op = "take" /\ q.by = u /\ q.to = h
    BY <2>2, IdleIsRequest DEF Requests, Ops, Idle
  <2>4. Begins(c, q, TRUE)
    BY <2>1 DEF Starts
  <2> HIDE DEF q
  <2>5. Holds(q, shift, receipt, trace)
    BY <2>2, <2>3 DEF Holds
  <2> QED
    BY <2>3, <2>4, <2>5, BeginsInv
<1>4. CASE \E r \in Receipts : StartRefund(c, u, r)
  <2>1. PICK r \in Receipts : StartRefund(c, u, r)
    BY <1>4
  <2> DEFINE q == [Idle EXCEPT !.at = "write", !.op = "refund", !.by = u, !.on = r]
             same == SameShift(u, r)
  <2>2. q \in Requests /\ q.at = "write" /\ q.op = "refund" /\ q.by = u /\ q.on = r
    BY IdleIsRequest DEF Requests, Ops, Idle
  <2>3. receipt[r].st = "CAPTURED" /\ Begins(c, q, same)
    BY <2>1 DEF StartRefund
  <2>4. same \in BOOLEAN
    BY DEF SameShift
  <2> HIDE DEF q, same
  <2>5. Holds(q, shift, receipt, trace)
    BY <2>2, <2>3 DEF Holds
  <2> QED
    BY <2>2, <2>3, <2>4, <2>5, BeginsInv
<1> QED
  BY <1>1, <1>2, <1>3, <1>4

(* Tasks are given to somebody or nobody; instructions are there.          *)
LEMMA StartWorkInv ==
  ASSUME StaffInv, NEW c \in Clients, NEW u \in Users,
         \/ \E t \in Tasks : \E v \in Users \cup {None} : StartAssign(c, u, t, v)
         \/ \E t \in Tasks : \E status \in Progress : StartProgress(c, u, t, status)
         \/ \E t \in Traces : StartComplete(c, u, t) \/ StartRemove(c, u, t)
  PROVE  StaffInv'
<1>1. CASE \E t \in Tasks : \E v \in Users \cup {None} : StartAssign(c, u, t, v)
  <2>1. PICK t \in Tasks, v \in Users \cup {None} : StartAssign(c, u, t, v)
    BY <1>1
  <2> DEFINE q == [Idle EXCEPT !.at = "write", !.op = "assign", !.on = t, !.to = v]
  <2>2. q \in Requests /\ q.at = "write" /\ q.op = "assign" /\ q.on = t /\ q.to = v
    BY IdleIsRequest DEF Requests, Ops, Idle
  <2>3. Begins(c, q, TRUE)
    BY <2>1 DEF StartAssign, Starts
  <2> HIDE DEF q
  <2>4. Holds(q, shift, receipt, trace)
    BY <2>2 DEF Holds
  <2> QED
    BY <2>2, <2>3, <2>4, BeginsInv
<1>2. CASE \E t \in Tasks : \E status \in Progress : StartProgress(c, u, t, status)
  <2>1. PICK t \in Tasks, status \in Progress : StartProgress(c, u, t, status)
    BY <1>2
  <2> DEFINE q == [Idle EXCEPT !.at = "write", !.op = "progress", !.on = t, !.status = status]
  <2>2. q \in Requests /\ q.at = "write" /\ q.op = "progress" /\ q.on = t
    BY IdleIsRequest DEF Requests, Ops, Idle
  <2>3. Begins(c, q, TRUE)
    BY <2>1 DEF StartProgress, Starts
  <2> HIDE DEF q
  <2>4. Holds(q, shift, receipt, trace)
    BY <2>2 DEF Holds
  <2> QED
    BY <2>2, <2>3, <2>4, BeginsInv
<1>3. ASSUME NEW t \in Traces, NEW op \in {"complete", "remove"}, trace[t] = "OPEN",
             Starts(c, [Idle EXCEPT !.at = "write", !.op = op, !.on = t])
      PROVE  StaffInv'
  <2> DEFINE q == [Idle EXCEPT !.at = "write", !.op = op, !.on = t]
  <2>1. q \in Requests /\ q.at = "write" /\ q.op = op /\ q.on = t
    BY IdleIsRequest DEF Requests, Ops, Idle
  <2>2. Begins(c, q, TRUE)
    BY <1>3 DEF Starts
  <2> HIDE DEF q
  <2>3. Holds(q, shift, receipt, trace)
    BY <1>3, <2>1 DEF Holds
  <2> QED
    BY <2>1, <2>2, <2>3, BeginsInv
<1>4. CASE \E t \in Traces : StartComplete(c, u, t) \/ StartRemove(c, u, t)
  BY <1>3, <1>4 DEF StartComplete, StartRemove, MayRemove
<1> QED
  BY <1>1, <1>2, <1>4

-----------------------------------------------------------------------------
(* The steps that go on with a request or end it.                          *)

(* An account with the fields that were sent is an account.                *)
LEMMA ChangedType ==
  ASSUME NEW old \in User, NEW new \in Change
  PROVE  Changed(old, new) \in User
<1>1. /\ (IF new.role = None THEN old.role ELSE new.role) \in Roles \cup {None}
      /\ (IF new.active = None THEN old.active ELSE new.active) \in BOOLEAN
  BY DEF User, Change
<1> QED
  BY <1>1 DEF Changed, User

(* The account is written, or not if it was the last administrator's.      *)
LEMMA UpdateInv ==
  ASSUME StaffInv, NEW c \in Clients, CountAdmins(c) \/ WriteUser(c)
  PROVE  StaffInv'
<1>1. /\ req[c] \in Requests /\ Holds(req[c], shift, receipt, trace)
      /\ req[c].at \in {"count", "write"} /\ req[c].op = "update" /\ user \in [Users -> User]
  BY HoldsIsInv DEF CountAdmins, WriteUser, At, StaffInv, TypeOK
<1>2. UNCHANGED <<token, shift, receipt, cash, task, trace, calm>>
  BY DEF CountAdmins, WriteUser, Ends, desk
<1>3. Onward /\ ReceiptsAreInOwnShift'
  BY <1>2 DEF Onward, StaffInv, ReceiptsAreInOwnShift
<1>4. user' \in [Users -> User]
  <2>1. req[c].on \in Users /\ req[c].change \in Change
    BY <1>1 DEF Holds, Requests
  <2>2. Changed(user[req[c].on], req[c].change) \in User
    BY <1>1, <2>1, ChangedType
  <2> QED
    BY <1>1, <2>1, <2>2 DEF CountAdmins, WriteUser
<1>5. PICK q \in Requests : req' = [req EXCEPT ![c] = q] /\ Holds(q, shift', receipt', trace')
  <2>1. CASE req' = [req EXCEPT ![c] = Idle]
    BY <2>1, IdleIsRequest, IdleHolds
  <2>2. CASE req' = [req EXCEPT ![c] = [@ EXCEPT !.at = "write"]]
    <3> DEFINE q == [req[c] EXCEPT !.at = "write"]
    <3>1. /\ q \in Requests /\ q.at = "write" /\ q.op = "update" /\ q.on = req[c].on
          /\ q.change = req[c].change
      BY <1>1 DEF Requests
    <3>2. req' = [req EXCEPT ![c] = q]
      BY <2>2
    <3> HIDE DEF q
    <3>3. Holds(q, shift', receipt', trace')
      BY <1>1, <3>1 DEF Holds
    <3> QED
      BY <3>1, <3>2, <3>3
  <2> QED
    BY <2>1, <2>2 DEF CountAdmins, WriteUser, Ends
<1> QED
  BY <1>1, <1>2, <1>3, <1>4, <1>5, RequestStep DEF StaffInv, TypeOK

(* A shift that was not there is the cashier's now.                        *)
LEMMA OpenShiftInv ==
  ASSUME StaffInv, NEW c \in Clients, OpenShift(c)
  PROVE  StaffInv'
<1> DEFINE q == req[c]
<1>1. /\ q \in Requests /\ Holds(q, shift, receipt, trace) /\ At(c, "write", "open")
      /\ shift \in [Shifts -> Shift] /\ cash \in [Users -> Int]
      /\ ReceiptsAreInOwnShift
  BY HoldsIsInv DEF OpenShift, StaffInv, TypeOK
<1>2. PICK h \in Shifts :
        /\ shift[h].st = "none"
        /\ shift' = [shift EXCEPT ![h] = [@ EXCEPT !.of = q.by, !.st = "open", !.float = q.float]]
  BY DEF OpenShift
<1>3. /\ cash' = [cash EXCEPT ![q.by] = @ + q.float] /\ req' = [req EXCEPT ![c] = Idle]
      /\ UNCHANGED <<user, token, receipt, task, trace, calm>>
  BY DEF OpenShift, Ends
<1>4. q.by \in Users /\ q.by # None /\ q.float \in Nat
  BY <1>1, StaffAssumption DEF Holds, At, Requests
<1> HIDE DEF q
<1>5. /\ shift' \in [Shifts -> Shift] /\ shift'[h].of = q.by /\ shift'[h].st = "open"
      /\ \A g \in Shifts : g # h => shift'[g] = shift[g]
  BY <1>1, <1>2, <1>4 DEF Shift
<1>6. cash' \in [Users -> Int]
  BY <1>1, <1>3, <1>4
<1>7. shift[h].of = None
  BY <1>1, <1>2 DEF ReceiptsAreInOwnShift
<1>8. Onward
  BY <1>3, <1>5, <1>7 DEF Onward
<1>9. ReceiptsAreInOwnShift'
  <2>1. ASSUME NEW r \in Receipts, receipt'[r].shift # None
        PROVE  shift'[receipt'[r].shift].of = receipt'[r].by /\ receipt'[r].by # None
    <3>1. /\ receipt'[r] = receipt[r] /\ receipt[r].shift \in Shifts
          /\ shift[receipt[r].shift].of = receipt[r].by /\ receipt[r].by # None
      BY <1>1, <1>3, <2>1 DEF ReceiptsAreInOwnShift, StaffInv, TypeOK, Receipt
    <3>2. receipt[r].shift # h
      BY <1>7, <3>1
    <3> QED
      BY <1>5, <3>1, <3>2
  <2>2. ASSUME NEW g \in Shifts PROVE shift'[g].st # "none" <=> shift'[g].of # None
    BY <1>1, <1>4, <1>5 DEF ReceiptsAreInOwnShift
  <2> QED
    BY <2>1, <2>2 DEF ReceiptsAreInOwnShift
<1> QED
  BY <1>3, <1>5, <1>6, <1>8, <1>9, IdleIsRequest, IdleHolds, RequestStep DEF StaffInv, TypeOK, Idle

(* Emptying a drawer leaves a number in every drawer.                      *)
LEMMA EmptiedDrawer ==
  ASSUME NEW f \in [Users -> Int], NEW x \in Users, NEW n \in Int
  PROVE  [f EXCEPT ![x] = n] \in [Users -> Int]
OBVIOUS

(* A shift that is closed stays its cashier's.                             *)
LEMMA CloseShiftInv ==
  ASSUME StaffInv, NEW c \in Clients, CloseShift(c)
  PROVE  StaffInv'
<1> DEFINE h == req[c].on
           u == shift[h].of
<1>1. /\ req[c] \in Requests /\ Holds(req[c], shift, receipt, trace) /\ At(c, "write", "close")
      /\ shift \in [Shifts -> Shift] /\ cash \in [Users -> Int]
      /\ ReceiptsAreInOwnShift
  BY HoldsIsInv DEF CloseShift, StaffInv, TypeOK
<1>2. h \in Shifts /\ u # None /\ u \in Users /\ shift[h].st # "none"
  BY <1>1 DEF Holds, At, ReceiptsAreInOwnShift, Shift
<1>3. /\ shift' = [shift EXCEPT ![h] = [@ EXCEPT !.st = "closed", !.counted = cash[u]]]
      /\ cash' = [cash EXCEPT ![u] = 0] /\ req' = [req EXCEPT ![c] = Idle]
      /\ UNCHANGED <<user, token, receipt, task, trace, calm>>
  BY DEF CloseShift, Ends
<1>4. /\ shift' \in [Shifts -> Shift] /\ shift'[h].of = shift[h].of /\ shift'[h].st = "closed"
      /\ \A g \in Shifts : g # h => shift'[g] = shift[g]
  BY <1>1, <1>2, <1>3 DEF Shift
<1>5. cash' \in [Users -> Int]
  <2>1. cash \in [Users -> Int]
    BY <1>1
  <2>2. [cash EXCEPT ![u] = 0] \in [Users -> Int]
    BY <1>2, <2>1, EmptiedDrawer
  <2> QED
    BY <1>3, <2>2
<1>6. Onward
  BY <1>3, <1>4 DEF Onward
<1>7. ReceiptsAreInOwnShift'
  <2>1. \A g \in Shifts : shift'[g].of = shift[g].of
    BY <1>4
  <2>2. \A r \in Receipts : receipt[r].shift # None => receipt[r].shift \in Shifts
    BY DEF StaffInv, TypeOK, Receipt
  <2> QED
    BY <1>1, <1>2, <1>3, <1>4, <2>1, <2>2 DEF ReceiptsAreInOwnShift
<1> QED
  BY <1>3, <1>4, <1>5, <1>6, <1>7, IdleIsRequest, IdleHolds, RequestStep DEF StaffInv, TypeOK, Idle

(* A payment goes into a shift of whoever took it, or into none.           *)
LEMMA TakeCashInv ==
  ASSUME StaffInv, NEW c \in Clients, TakeCash(c)
  PROVE  StaffInv'
<1> DEFINE q == req[c]
<1>1. /\ q \in Requests /\ Holds(q, shift, receipt, trace) /\ At(c, "write", "take")
      /\ receipt \in [Receipts -> Receipt] /\ cash \in [Users -> Int]
      /\ ReceiptsAreInOwnShift
  BY HoldsIsInv DEF TakeCash, StaffInv, TypeOK
<1>2. PICK r \in Receipts :
        /\ receipt[r].st = "none"
        /\ receipt' = [receipt EXCEPT ![r] = [st |-> "CAPTURED", by |-> q.by, shift |-> q.to]]
  BY DEF TakeCash
<1>3. /\ cash' = [cash EXCEPT ![q.by] = @ + (IF q.to = None THEN 0 ELSE 1)]
      /\ req' = [req EXCEPT ![c] = Idle]
      /\ UNCHANGED <<user, token, shift, task, trace, calm>>
  BY DEF TakeCash, Ends
<1>4. /\ q.by \in Users /\ q.by # None
      /\ q.to = None \/ (q.to \in Shifts /\ shift[q.to].of = q.by)
  BY <1>1, StaffAssumption DEF Holds, At
<1> HIDE DEF q
<1>5. [st |-> "CAPTURED", by |-> q.by, shift |-> q.to] \in Receipt
  BY <1>4 DEF Receipt
<1>6. receipt' \in [Receipts -> Receipt] /\ cash' \in [Users -> Int]
  BY <1>1, <1>2, <1>3, <1>4, <1>5
<1>7. Onward
  BY <1>1, <1>2, <1>3 DEF Onward
<1>8. ReceiptsAreInOwnShift'
  BY <1>1, <1>2, <1>3, <1>4 DEF ReceiptsAreInOwnShift
<1> QED
  BY <1>3, <1>6, <1>7, <1>8, IdleIsRequest, IdleHolds, RequestStep DEF StaffInv, TypeOK, Idle

(* A refund stays with its payment.                                        *)
LEMMA RefundCashInv ==
  ASSUME StaffInv, NEW c \in Clients, RefundCash(c)
  PROVE  StaffInv'
<1> DEFINE q == req[c]
<1>1. /\ q \in Requests /\ Holds(q, shift, receipt, trace) /\ At(c, "write", "refund")
      /\ receipt \in [Receipts -> Receipt] /\ cash \in [Users -> Int]
      /\ ReceiptsAreInOwnShift
  BY HoldsIsInv DEF RefundCash, StaffInv, TypeOK
<1>2. /\ receipt' = [receipt EXCEPT ![q.on].st = "REFUNDED"]
      /\ cash' = [cash EXCEPT ![q.by] = @ - (IF Open(q.by) = {} THEN 0 ELSE 1)]
      /\ req' = [req EXCEPT ![c] = Idle]
      /\ UNCHANGED <<user, token, shift, task, trace, calm>>
  BY DEF RefundCash, Ends
<1>3. q.by \in Users /\ q.on \in Receipts
  BY <1>1 DEF Holds, At
<1> HIDE DEF q
<1>4. /\ receipt' \in [Receipts -> Receipt]
      /\ \A r \in Receipts : /\ receipt'[r].shift = receipt[r].shift
                             /\ receipt'[r].by = receipt[r].by
                             /\ receipt[r].st # "none" => receipt'[r].st # "none"
  BY <1>1, <1>2, <1>3 DEF Receipt
<1>5. cash' \in [Users -> Int]
  BY <1>1, <1>2, <1>3
<1>6. Onward /\ ReceiptsAreInOwnShift'
  BY <1>1, <1>2, <1>4 DEF Onward, ReceiptsAreInOwnShift
<1> QED
  BY <1>2, <1>4, <1>5, <1>6, IdleIsRequest, IdleHolds, RequestStep DEF StaffInv, TypeOK, Idle

(* Tasks and instructions are written one row at a time.                   *)
LEMMA WriteWorkInv ==
  ASSUME StaffInv, NEW c \in Clients, WriteAssign(c) \/ WriteProgress(c) \/ WriteTrace(c)
  PROVE  StaffInv'
<1>1. /\ req[c] \in Requests /\ Holds(req[c], shift, receipt, trace)
      /\ task \in [Tasks -> Task] /\ trace \in [Traces -> TraceStatus]
  BY HoldsIsInv DEF StaffInv, TypeOK
<1>2. /\ req' = [req EXCEPT ![c] = Idle]
      /\ UNCHANGED <<user, token, shift, receipt, cash, calm>>
  BY DEF WriteAssign, WriteProgress, WriteTrace, Ends, desk
<1>3. task' \in [Tasks -> Task] /\ trace' \in [Traces -> TraceStatus]
      /\ \A t \in Traces : trace[t] # "none" => trace'[t] # "none"
  <2>1. CASE WriteAssign(c)
    <3>1. req[c].on \in Tasks /\ req[c].to \in Users \cup {None}
      BY <1>1, <2>1 DEF WriteAssign, At, Holds
    <3> QED
      BY <1>1, <2>1, <3>1 DEF WriteAssign, Task
  <2>2. CASE WriteProgress(c)
    <3>1. req[c].on \in Tasks /\ req[c].status \in Progress
      BY <1>1, <2>2 DEF WriteProgress, At, Holds, Requests
    <3> QED
      BY <1>1, <2>2, <3>1 DEF WriteProgress, Task
  <2>3. CASE WriteTrace(c)
    BY <1>1, <2>3 DEF WriteTrace, TraceStatus
  <2> QED
    BY <2>1, <2>2, <2>3
<1>4. Onward /\ ReceiptsAreInOwnShift'
  BY <1>2, <1>3 DEF Onward, StaffInv, ReceiptsAreInOwnShift
<1> QED
  BY <1>2, <1>3, <1>4, IdleIsRequest, IdleHolds, RequestStep DEF StaffInv, TypeOK, Idle

(* Every step is one of these.                                             *)
LEMMA StepIsOneOf ==
  ASSUME Next
  PROVE  \/ \E u \in Users :
              \/ Login(u) \/ TokenExpires(u) \/ GenerateTasks(u)
              \/ \E v \in Users : \E role \in Roles : CreateUser(u, v, role)
              \/ \E t \in Traces : CreateTrace(u, t)
         \/ \E c \in Clients : \E u \in Users :
              \/ \E v \in Users : \E new \in Change : StartUpdate(c, u, v, new)
              \/ \/ \E f \in Floats : StartOpen(c, u, f)
                 \/ \E h \in Shifts : StartClose(c, u, h)
                 \/ StartTake(c, u)
                 \/ \E r \in Receipts : StartRefund(c, u, r)
              \/ \/ \E t \in Tasks : \E v \in Users \cup {None} : StartAssign(c, u, t, v)
                 \/ \E t \in Tasks : \E status \in Progress : StartProgress(c, u, t, status)
                 \/ \E t \in Traces : StartComplete(c, u, t) \/ StartRemove(c, u, t)
         \/ \E c \in Clients :
              \/ CountAdmins(c) \/ WriteUser(c)
              \/ OpenShift(c) \/ CloseShift(c) \/ TakeCash(c) \/ RefundCash(c)
              \/ WriteAssign(c) \/ WriteProgress(c) \/ WriteTrace(c)
BY DEF Next, Moves

(* Every step keeps the invariant.                                         *)
LEMMA NextInv ==
  ASSUME StaffInv, [Next]_vars
  PROVE  StaffInv'
<1>1. CASE UNCHANGED vars
  <2>1. UNCHANGED <<user, token, shift, receipt, cash, task, trace, calm, req>>
    BY <1>1 DEF vars, desk
  <2>2. Onward /\ ReceiptsAreInOwnShift'
    BY <2>1 DEF Onward, StaffInv, ReceiptsAreInOwnShift
  <2> QED
    BY <2>1, <2>2, OthersStep DEF StaffInv, TypeOK
<1>2. CASE Next
  BY <1>2, StepIsOneOf, AtOnceInv, StartUpdateInv, StartCashInv, StartWorkInv, UpdateInv,
     OpenShiftInv, CloseShiftInv, TakeCashInv, RefundCashInv, WriteWorkInv
<1> QED
  BY <1>1, <1>2

(* Cash stays in the shift of whoever took it and requests in flight count *)
(* on nothing that goes away, however they interleave.                     *)
THEOREM StaffInvariant == Spec => []StaffInv
<1>1. Init => StaffInv
  BY InitInv
<1>2. StaffInv /\ [Next]_vars => StaffInv'
  BY NextInv
<1> QED
  BY <1>1, <1>2, PTL DEF Spec

-----------------------------------------------------------------------------
(* Why an administrator is left: what every update in flight leaves behind. *)

AnAdmin(x) == x.role = "ADMIN" /\ x.active
Leaves(q, us) == \E b \in Users : AnAdmin(IF b = q.on THEN Changed(us[b], q.change) ELSE us[b])
AdminKept ==
  calm => /\ \E b \in Users : AnAdmin(user[b])
          /\ \A c \in Clients : At(c, "write", "update") => Leaves(req[c], user)

(* The administrators are those with an administrator's account in use.    *)
LEMMA AdminsAre == ActiveAdmins = { b \in Users : AnAdmin(user[b]) }
BY DEF ActiveAdmins, AnAdmin

(* Steps that write no account and bring no new update to its write.       *)
LEMMA SameAccounts ==
  ASSUME AdminKept, UNCHANGED user, calm' => calm,
         \A c \in Clients : \/ req'[c] = req[c]
                            \/ req'[c].at # "write"
                            \/ req'[c].op # "update"
  PROVE  AdminKept'
BY DEF AdminKept, At

(* An update that takes no administrator away leaves the one there was.    *)
LEMMA StartUpdateKeeps ==
  ASSUME StaffInv, AdminKept, NEW c \in Clients, NEW a \in Users, NEW u \in Users,
         NEW new \in Change, StartUpdate(c, a, u, new)
  PROVE  AdminKept'
<1> SUFFICES ASSUME calm' PROVE AdminKept'
  BY DEF AdminKept
<1> DEFINE q == [Idle EXCEPT !.at = IF LosesAdmin(u, new) THEN "count" ELSE "write",
                             !.op = "update", !.on = u, !.change = new]
<1>1. /\ calm /\ \A d \in Clients : req[d].at = "idle"
      /\ req' = [req EXCEPT ![c] = q] /\ UNCHANGED user
      /\ req \in [Clients -> Requests]
  BY DEF StartUpdate, Starts, Begins, StaffInv, TypeOK
<1>2. q.at = (IF LosesAdmin(u, new) THEN "count" ELSE "write") /\ q.on = u /\ q.change = new
  BY DEF Idle
<1> HIDE DEF q
<1>3. PICK b \in Users : AnAdmin(user[b])
  BY <1>1 DEF AdminKept
<1>4. q.at = "write" => Leaves(q, user)
  <2> SUFFICES ASSUME q.at = "write" PROVE Leaves(q, user)
    OBVIOUS
  <2>1. ~ LosesAdmin(u, new)
    BY <1>2
  <2>2. b = u => AnAdmin(Changed(user[b], new))
    BY <1>3, <2>1 DEF LosesAdmin, AnAdmin, Changed, Change
  <2> QED
    BY <1>2, <1>3, <2>2 DEF Leaves
<1>5. \A d \in Clients : req'[d] = IF d = c THEN q ELSE req[d]
  BY <1>1
<1>6. \A d \in Clients : At(d, "write", "update")' => Leaves(req'[d], user)
  BY <1>1, <1>4, <1>5 DEF At
<1> QED
  BY <1>1, <1>3, <1>6 DEF AdminKept

(* Of more than one administrator, another one is left.                    *)
LEMMA CountAdminsKeeps ==
  ASSUME StaffInv, AdminKept, NEW c \in Clients, CountAdmins(c)
  PROVE  AdminKept'
<1>1. /\ req \in [Clients -> Requests] /\ UNCHANGED <<user, calm>>
      /\ req' = [req EXCEPT ![c] = IF AdminIsLeft(Cardinality(ActiveAdmins))
                                   THEN [@ EXCEPT !.at = "write"] ELSE Idle]
  BY DEF CountAdmins, StaffInv, TypeOK
<1>2. CASE ~ AdminIsLeft(Cardinality(ActiveAdmins))
  <2>1. \A d \in Clients : req'[d] = req[d] \/ req'[d].at # "write"
    BY <1>1, <1>2 DEF Idle
  <2> QED
    BY <1>1, <2>1, SameAccounts
<1>3. CASE AdminIsLeft(Cardinality(ActiveAdmins))
  <2> DEFINE q == [req[c] EXCEPT !.at = "write"]
  <2>1. q.on = req[c].on
    BY <1>1 DEF Requests
  <2>2. \A d \in Clients : req'[d] = IF d = c THEN q ELSE req[d]
    BY <1>1, <1>3
  <2> HIDE DEF q
  <2>3. PICK b \in ActiveAdmins : b # req[c].on
    <3> SUFFICES ASSUME ActiveAdmins \subseteq {req[c].on} PROVE FALSE
      OBVIOUS
    <3>1. IsFiniteSet({req[c].on}) /\ Cardinality({req[c].on}) = 1
      BY FS_Singleton
    <3>2. Cardinality(ActiveAdmins) <= 1 /\ IsFiniteSet(ActiveAdmins)
      BY <3>1, FS_Subset
    <3>3. Cardinality(ActiveAdmins) \in Nat
      BY <3>2, FS_CardinalityType
    <3> QED
      BY <1>3, <3>2, <3>3 DEF AdminIsLeft
  <2>4. b \in Users /\ AnAdmin(user[b])
    BY AdminsAre
  <2>5. Leaves(q, user)
    BY <2>1, <2>3, <2>4 DEF Leaves
  <2>6. \A d \in Clients : calm /\ At(d, "write", "update")' => Leaves(req'[d], user)
    BY <2>2, <2>5 DEF At, AdminKept
  <2> QED
    BY <1>1, <2>4, <2>6 DEF AdminKept
<1> QED
  BY <1>2, <1>3

(* The write leaves what was seen to be left.                              *)
LEMMA WriteUserKeeps ==
  ASSUME StaffInv, AdminKept, NEW c \in Clients, WriteUser(c)
  PROVE  AdminKept'
<1> SUFFICES ASSUME calm' PROVE AdminKept'
  BY DEF AdminKept
<1>1. /\ calm /\ At(c, "write", "update") /\ req' = [req EXCEPT ![c] = Idle]
      /\ user' = [user EXCEPT ![req[c].on] = Changed(@, req[c].change)]
      /\ req \in [Clients -> Requests] /\ user \in [Users -> User]
  BY DEF WriteUser, Ends, StaffInv, TypeOK
<1>2. \A d \in Clients : req'[d].at = "idle"
  BY <1>1 DEF StaffInv, OneAtATime, At, Idle
<1>3. \A b \in Users : user'[b] = IF b = req[c].on THEN Changed(user[b], req[c].change) ELSE user[b]
  BY <1>1
<1>4. PICK b \in Users : AnAdmin(IF b = req[c].on THEN Changed(user[b], req[c].change) ELSE user[b])
  BY <1>1 DEF AdminKept, Leaves
<1>5. AnAdmin(user'[b])
  BY <1>3, <1>4
<1> QED
  BY <1>2, <1>5 DEF AdminKept, At

(* A new account takes nothing from the others.                            *)
LEMMA CreateUserKeeps ==
  ASSUME StaffInv, AdminKept, NEW a \in Users, NEW u \in Users, NEW role \in Roles,
         CreateUser(a, u, role)
  PROVE  AdminKept'
<1> SUFFICES ASSUME calm' PROVE AdminKept'
  BY DEF AdminKept
<1>1. /\ calm /\ UNCHANGED req /\ user[u].role = None
      /\ user' = [user EXCEPT ![u] = [role |-> role, active |-> TRUE]]
      /\ user \in [Users -> User]
  BY DEF CreateUser, StaffInv, TypeOK
<1>2. \A b \in Users : AnAdmin(user[b]) => user'[b] = user[b]
  <2>1. None # "ADMIN"
    BY StaffAssumption
  <2> QED
    BY <1>1, <2>1 DEF AnAdmin
<1>3. ASSUME NEW q, Leaves(q, user) PROVE Leaves(q, user')
  <2>1. PICK b \in Users : AnAdmin(IF b = q.on THEN Changed(user[b], q.change) ELSE user[b])
    BY <1>3 DEF Leaves
  <2>2. CASE b # u
    BY <1>1, <2>1, <2>2 DEF Leaves
  <2>3. CASE b = u /\ b = q.on
    <3>1. user[b].role # "ADMIN" /\ user'[b].active
      BY <1>1, <2>3, StaffAssumption
    <3>2. AnAdmin(Changed(user'[b], q.change))
      BY <2>1, <2>3, <3>1 DEF AnAdmin, Changed
    <3> QED
      BY <2>3, <3>2 DEF Leaves
  <2>4. CASE b = u /\ b # q.on
    BY <1>2, <2>1, <2>4 DEF Leaves
  <2> QED
    BY <2>2, <2>3, <2>4
<1>4. \E b \in Users : AnAdmin(user'[b])
  BY <1>1, <1>2 DEF AdminKept
<1>5. \A d \in Clients : At(d, "write", "update") => Leaves(req[d], user')
  BY <1>1, <1>3 DEF AdminKept
<1> QED
  BY <1>1, <1>4, <1>5 DEF AdminKept, At

(* No other step touches an account or an update.                          *)
LEMMA OtherStepsKeep ==
  ASSUME StaffInv, AdminKept,
         \/ UNCHANGED vars
         \/ \E u \in Users :
              Login(u) \/ TokenExpires(u) \/ GenerateTasks(u)
                \/ \E t \in Traces : CreateTrace(u, t)
         \/ \E c \in Clients : \E u \in Users :
              \/ \/ \E f \in Floats : StartOpen(c, u, f)
                 \/ \E h \in Shifts : StartClose(c, u, h)
                 \/ StartTake(c, u)
                 \/ \E r \in Receipts : StartRefund(c, u, r)
              \/ \/ \E t \in Tasks : \E v \in Users \cup {None} : StartAssign(c, u, t, v)
                 \/ \E t \in Tasks : \E status \in Progress : StartProgress(c, u, t, status)
                 \/ \E t \in Traces : StartComplete(c, u, t) \/ StartRemove(c, u, t)
         \/ \E c \in Clients :
              \/ OpenShift(c) \/ CloseShift(c) \/ TakeCash(c) \/ RefundCash(c)
              \/ WriteAssign(c) \/ WriteProgress(c) \/ WriteTrace(c)
  PROVE  AdminKept'
<1>1. req \in [Clients -> Requests] /\ calm \in BOOLEAN
  BY DEF StaffInv, TypeOK
<1>2. ASSUME NEW c \in Clients, NEW q, NEW quietly, Begins(c, q, quietly), q.op # "update"
      PROVE  AdminKept'
  <2>1. \A d \in Clients : req'[d] = req[d] \/ req'[d].op # "update"
    BY <1>1, <1>2 DEF Begins
  <2> QED
    BY <1>2, <2>1, SameAccounts DEF Begins
<1>3. ASSUME NEW c \in Clients, Ends(c), UNCHANGED user PROVE AdminKept'
  <2>1. \A d \in Clients : req'[d] = req[d] \/ req'[d].at # "write"
    BY <1>1, <1>3 DEF Ends, Idle
  <2> QED
    BY <1>3, <2>1, SameAccounts DEF Ends
<1>4. CASE UNCHANGED <<user, calm, req>>
  BY <1>4, SameAccounts
<1>5. ASSUME NEW u \in Users,
             Login(u) \/ TokenExpires(u) \/ GenerateTasks(u) \/ \E t \in Traces : CreateTrace(u, t)
      PROVE  UNCHANGED <<user, calm, req>>
  BY <1>5 DEF Login, TokenExpires, GenerateTasks, CreateTrace
<1>6. ASSUME NEW c \in Clients, NEW u \in Users, NEW f \in Floats, StartOpen(c, u, f)
      PROVE  AdminKept'
  BY <1>2, <1>6 DEF StartOpen, Starts, Idle
<1>7. ASSUME NEW c \in Clients, NEW u \in Users, NEW h \in Shifts, StartClose(c, u, h)
      PROVE  AdminKept'
  BY <1>2, <1>7 DEF StartClose, Starts, Idle
<1>8. ASSUME NEW c \in Clients, NEW u \in Users, StartTake(c, u)
      PROVE  AdminKept'
  <2>1. PICK h : Starts(c, [Idle EXCEPT !.at = "write", !.op = "take", !.by = u, !.to = h])
    BY <1>8 DEF StartTake
  <2> QED
    BY <1>2, <2>1 DEF Starts, Idle
<1>9. ASSUME NEW c \in Clients, NEW u \in Users, NEW r \in Receipts, StartRefund(c, u, r)
      PROVE  AdminKept'
  <2> DEFINE q == [Idle EXCEPT !.at = "write", !.op = "refund", !.by = u, !.on = r]
  <2>1. q.op # "update"
    BY DEF Idle
  <2> HIDE DEF q
  <2>2. \A d \in Clients : req'[d] = req[d] \/ req'[d].op # "update"
    BY <1>1, <1>9, <2>1 DEF StartRefund, Begins, q
  <2> QED
    BY <1>9, <2>2, SameAccounts DEF StartRefund, Begins
<1>10. ASSUME NEW c \in Clients, NEW u \in Users, NEW t \in Tasks, NEW v \in Users \cup {None},
              StartAssign(c, u, t, v)
       PROVE  AdminKept'
  BY <1>2, <1>10 DEF StartAssign, Starts, Idle
<1>11. ASSUME NEW c \in Clients, NEW u \in Users, NEW t \in Tasks, NEW status \in Progress,
              StartProgress(c, u, t, status)
       PROVE  AdminKept'
  BY <1>2, <1>11 DEF StartProgress, Starts, Idle
<1>12. ASSUME NEW c \in Clients, NEW u \in Users, NEW t \in Traces,
              StartComplete(c, u, t) \/ StartRemove(c, u, t)
       PROVE  AdminKept'
  BY <1>2, <1>12 DEF StartComplete, StartRemove, Starts, Idle
<1>13. ASSUME NEW c \in Clients,
              \/ OpenShift(c) \/ CloseShift(c) \/ TakeCash(c) \/ RefundCash(c)
              \/ WriteAssign(c) \/ WriteProgress(c) \/ WriteTrace(c)
       PROVE  AdminKept'
  BY <1>3, <1>13 DEF OpenShift, CloseShift, TakeCash, RefundCash, WriteAssign, WriteProgress,
     WriteTrace
<1>14. UNCHANGED vars => UNCHANGED <<user, calm, req>>
  BY DEF vars
<1> QED
  BY <1>4, <1>5, <1>6, <1>7, <1>8, <1>9, <1>10, <1>11, <1>12, <1>13, <1>14

(* While requests do not overlap an active administrator is left (losing   *)
(* the last admin, update).                                                *)
THEOREM AnAdminIsAlwaysThere == Spec => []AdminIsThere
<1> DEFINE IInv == StaffInv /\ AdminKept
<1>1. Init => IInv
  <2> SUFFICES ASSUME Init PROVE AdminKept
    BY InitInv
  <2>1. \E b \in Users : AnAdmin(user[b])
    BY AdminsAre DEF Init
  <2>2. \A c \in Clients : req[c].at = "idle"
    BY DEF Init, Idle
  <2> QED
    BY <2>1, <2>2 DEF AdminKept, At
<1>2. IInv /\ [Next]_vars => IInv'
  <2> SUFFICES ASSUME StaffInv, AdminKept, [Next]_vars PROVE AdminKept'
    BY NextInv
  <2>1. CASE UNCHANGED vars
    BY <2>1, OtherStepsKeep
  <2>2. CASE Next
    BY <2>2, StepIsOneOf, OtherStepsKeep, StartUpdateKeeps, CountAdminsKeeps, WriteUserKeeps,
       CreateUserKeeps
  <2> QED
    BY <2>1, <2>2
<1>3. IInv => AdminIsThere
  BY AdminsAre DEF AdminKept, AdminIsThere
<1> QED
  BY <1>1, <1>2, <1>3, PTL DEF Spec

-----------------------------------------------------------------------------
(* Why a drawer balances: nobody has two open shifts, the drawer of whoever *)
(* has none is empty, and what a request found open still is.              *)

OneEach ==
  \A g, h \in Shifts :
    shift[g].st = "open" /\ shift[h].st = "open" /\ shift[g].of = shift[h].of => g = h
NoneIsEmpty == \A u \in Users : Open(u) = {} => cash[u] = 0
Balanced ==
  \A h \in Shifts :
    /\ shift[h].st = "open" => cash[shift[h].of] = ExpectedCash(h)
    /\ shift[h].st = "closed" => Difference(h) = 0
OpenOf(sh, u) == { h \in Shifts : sh[h].of = u /\ sh[h].st = "open" }
Found(q, sh, rc) ==
  /\ q.op = "open" => OpenOf(sh, q.by) = {}
  /\ q.op = "close" => sh[q.on].st = "open"
  /\ q.op = "take" =>
       IF q.to = None THEN OpenOf(sh, q.by) = {} ELSE q.to \in OpenOf(sh, q.by)
  /\ q.op = "refund" =>
       /\ rc[q.on].st = "CAPTURED"
       /\ IF rc[q.on].shift = None THEN OpenOf(sh, q.by) = {}
          ELSE rc[q.on].by = q.by /\ rc[q.on].shift \in OpenOf(sh, q.by)
AllFound == \A c \in Clients : req[c].at = "write" => Found(req[c], shift, receipt)
Drawers == OneEach /\ NoneIsEmpty /\ Balanced
DrawerInv == calm => Drawers /\ AllFound

(* The shifts a cashier has open, of the table as it is.                   *)
LEMMA OpenIsOpenOf == \A u : Open(u) = OpenOf(shift, u)
BY DEF Open, OpenOf

(* The payments a shift counts, and that they can be counted.              *)
Counted(h) == { r \in Receipts : receipt[r].shift = h /\ receipt[r].st = "CAPTURED" }
LEMMA CountedIsFinite ==
  ASSUME NEW h
  PROVE  /\ IsFiniteSet(Counted(h)) /\ Cardinality(Counted(h)) \in Nat
         /\ Net(h) = Cardinality(Counted(h))
<1>1. Counted(h) \subseteq Receipts
  BY DEF Counted
<1>2. IsFiniteSet(Counted(h))
  BY <1>1, StaffAssumption, FS_Subset
<1> QED
  BY <1>2, FS_CardinalityType DEF Net, Counted

(* Steps that leave the drawers alone and bring only requests that looked. *)
LEMMA SameDesk ==
  ASSUME DrawerInv, UNCHANGED <<shift, receipt, cash>>, calm' => calm,
         \A c \in Clients : \/ req'[c] = req[c]
                            \/ req'[c].at # "write"
                            \/ calm' => Found(req'[c], shift, receipt)
  PROVE  DrawerInv'
<1> SUFFICES ASSUME calm' PROVE Drawers' /\ AllFound'
  BY DEF DrawerInv
<1>1. Drawers /\ AllFound
  BY DEF DrawerInv
<1>2. Drawers'
  BY <1>1 DEF Drawers, OneEach, NoneIsEmpty, Balanced, Open, ExpectedCash, Difference, Net
<1>3. \A c \in Clients : req'[c].at = "write" => Found(req'[c], shift, receipt)
  BY <1>1 DEF AllFound
<1>4. \A q : Found(q, shift, receipt) => Found(q, shift', receipt')
  OBVIOUS
<1>5. AllFound'
  BY <1>3, <1>4 DEF AllFound
<1> QED
  BY <1>2, <1>5

(* While requests do not overlap, nobody else is between look and write.   *)
LEMMA LastRequest ==
  ASSUME StaffInv, NEW c \in Clients, req[c].at # "idle", calm,
         req' = [req EXCEPT ![c] = Idle], Drawers'
  PROVE  DrawerInv'
<1>1. \A d \in Clients : req'[d].at = "idle"
  BY DEF StaffInv, TypeOK, OneAtATime, Idle
<1> QED
  BY <1>1 DEF DrawerInv, AllFound

(* A shift is opened for a cashier who has none, with an empty drawer.     *)
LEMMA OpenShiftBalances ==
  ASSUME StaffInv, DrawerInv, NEW c \in Clients, OpenShift(c)
  PROVE  DrawerInv'
<1> SUFFICES ASSUME calm' PROVE DrawerInv'
  BY DEF DrawerInv
<1> DEFINE u == req[c].by
           f == req[c].float
<1>1. PICK h \in Shifts :
        /\ shift[h].st = "none"
        /\ shift' = [shift EXCEPT ![h] = [@ EXCEPT !.of = u, !.st = "open", !.float = f]]
  BY DEF OpenShift
<1>2. /\ At(c, "write", "open") /\ calm /\ UNCHANGED receipt
      /\ cash' = [cash EXCEPT ![u] = @ + f] /\ req' = [req EXCEPT ![c] = Idle]
      /\ shift \in [Shifts -> Shift] /\ cash \in [Users -> Int] /\ f \in Nat
      /\ receipt \in [Receipts -> Receipt]
  BY DEF OpenShift, Ends, StaffInv, TypeOK, Requests
<1>3. u \in Users /\ Open(u) = {} /\ cash[u] = 0 /\ Drawers
  <2>1. req[c].at = "write" /\ req[c].op = "open"
    BY <1>2 DEF At
  <2>2. u \in Users
    BY <2>1 DEF StaffInv, RequestInv
  <2>3. Open(u) = {}
    BY <1>2, <2>1, OpenIsOpenOf DEF DrawerInv, AllFound, Found
  <2> QED
    BY <1>2, <2>2, <2>3 DEF DrawerInv, Drawers, NoneIsEmpty
<1> HIDE DEF u, f
<1>4. /\ shift'[h].of = u /\ shift'[h].st = "open" /\ shift'[h].float = f
      /\ \A g \in Shifts : g # h => shift'[g] = shift[g]
      /\ cash'[u] = f /\ \A v \in Users : v # u => cash'[v] = cash[v]
  BY <1>1, <1>2, <1>3 DEF Shift
<1>5. Counted(h) = {}
  <2>1. shift[h].of = None
    BY <1>1 DEF StaffInv, ReceiptsAreInOwnShift
  <2>2. None \notin Shifts
    BY StaffAssumption
  <2> QED
    BY <2>1, <2>2 DEF Counted, StaffInv, ReceiptsAreInOwnShift
<1>6. Net(h) = 0
  BY <1>5, CountedIsFinite, FS_EmptySet
<1>7. \A g : Net(g)' = Net(g)
  BY <1>2 DEF Net
<1>8. OneEach'
  BY <1>3, <1>4 DEF OneEach, Open, Drawers
<1>9. NoneIsEmpty'
  <2>1. ASSUME NEW v \in Users, Open(v)' = {} PROVE v # u /\ Open(v) = {}
    BY <1>1, <1>4, <2>1 DEF Open
  <2> QED
    BY <1>3, <1>4, <2>1 DEF NoneIsEmpty, Drawers
<1>10. Balanced'
  <2>1. ASSUME NEW g \in Shifts, g # h, shift[g].st = "open"
        PROVE  cash'[shift[g].of] = shift[g].float + Net(g)
    <3>1. shift[g].of \in Users /\ shift[g].of # u
      BY <1>2, <1>3, <2>1 DEF Open, StaffInv, ReceiptsAreInOwnShift, Shift
    <3> QED
      BY <1>3, <1>4, <2>1, <3>1 DEF Drawers, Balanced, ExpectedCash
  <2>2. ASSUME NEW g \in Shifts
        PROVE  /\ shift'[g].st = "open" => cash'[shift'[g].of] = shift'[g].float + Net(g)
               /\ shift'[g].st = "closed" => shift'[g].counted - (shift'[g].float + Net(g)) = 0
    <3>1. CASE g = h
      BY <1>2, <1>4, <1>6, <3>1
    <3>2. CASE g # h
      BY <1>3, <1>4, <2>1, <3>2 DEF Drawers, Balanced, ExpectedCash, Difference
    <3> QED
      BY <3>1, <3>2
  <2> QED
    BY <1>7, <2>2 DEF Balanced, ExpectedCash, Difference
<1> QED
  BY <1>2, <1>8, <1>9, <1>10, LastRequest DEF Drawers, At

(* A shift is closed with what is in the drawer, which is then empty.      *)
LEMMA CloseShiftBalances ==
  ASSUME StaffInv, DrawerInv, NEW c \in Clients, CloseShift(c)
  PROVE  DrawerInv'
<1> SUFFICES ASSUME calm' PROVE DrawerInv'
  BY DEF DrawerInv
<1> DEFINE h == req[c].on
           u == shift[h].of
<1>1. /\ At(c, "write", "close") /\ calm /\ UNCHANGED receipt
      /\ shift' = [shift EXCEPT ![h] = [@ EXCEPT !.st = "closed", !.counted = cash[u]]]
      /\ cash' = [cash EXCEPT ![u] = 0] /\ req' = [req EXCEPT ![c] = Idle]
      /\ shift \in [Shifts -> Shift] /\ cash \in [Users -> Int]
  BY DEF CloseShift, Ends, StaffInv, TypeOK
<1>2. h \in Shifts /\ u \in Users /\ shift[h].st = "open" /\ Drawers
  <2>1. req[c].at = "write" /\ req[c].op = "close"
    BY <1>1 DEF At
  <2>2. h \in Shifts /\ shift[h].of # None
    BY <2>1 DEF StaffInv, RequestInv
  <2>3. shift[h].st = "open" /\ Drawers
    BY <1>1, <2>1 DEF DrawerInv, AllFound, Found
  <2> QED
    BY <1>1, <2>2, <2>3 DEF Shift
<1>3. PICK w \in Users : w = u
  BY <1>2
<1> HIDE DEF h, u
<1>4. /\ shift'[h].of = w /\ shift'[h].st = "closed" /\ shift'[h].counted = cash[w]
      /\ shift'[h].float = shift[h].float
      /\ \A g \in Shifts : g # h => shift'[g] = shift[g]
  BY <1>1, <1>2, <1>3 DEF Shift, u
<1>5. cash'[w] = 0 /\ \A v \in Users : v # w => cash'[v] = cash[v]
  BY <1>1, <1>2, <1>3
<1>6. \A g : Net(g)' = Net(g)
  BY <1>1 DEF Net
<1>7. shift[h].of = w /\ cash[w] = shift[h].float + Net(h)
  BY <1>2, <1>3 DEF u, Drawers, Balanced, ExpectedCash
<1>8. OneEach' /\ NoneIsEmpty'
  <2>1. OneEach'
    BY <1>2, <1>4 DEF OneEach, Drawers
  <2>2. ASSUME NEW v \in Users, v # w, Open(v)' = {} PROVE cash'[v] = 0
    <3>1. Open(v) = {}
      BY <1>4, <1>7, <2>2 DEF Open
    <3> QED
      BY <1>2, <1>5, <2>2, <3>1 DEF Drawers, NoneIsEmpty
  <2> QED
    BY <1>5, <2>1, <2>2 DEF NoneIsEmpty
<1>9. Balanced'
  <2>1. ASSUME NEW g \in Shifts
        PROVE  /\ shift'[g].st = "open" => cash'[shift'[g].of] = shift'[g].float + Net(g)
               /\ shift'[g].st = "closed" => shift'[g].counted - (shift'[g].float + Net(g)) = 0
    <3>1. CASE g = h
      <4>1. Net(h) \in Nat /\ shift[h].float \in Nat
        BY <1>1, <1>2, CountedIsFinite DEF Shift
      <4> QED
        BY <1>4, <1>7, <3>1, <4>1
    <3>2. CASE g # h
      <4>1. shift'[g] = shift[g]
        BY <1>4, <3>2
      <4>2. shift[g].st = "open" => shift[g].of # w /\ shift[g].of \in Users
        BY <1>1, <1>2, <1>7, <3>2 DEF Drawers, OneEach, StaffInv, ReceiptsAreInOwnShift, Shift
      <4> QED
        BY <1>2, <1>5, <4>1, <4>2 DEF Drawers, Balanced, ExpectedCash, Difference
    <3> QED
      BY <3>1, <3>2
  <2> QED
    BY <1>6, <2>1 DEF Balanced, ExpectedCash, Difference
<1> QED
  BY <1>1, <1>8, <1>9, LastRequest DEF Drawers, At

(* What a payment adds to a shift, and what a refund takes from it.        *)
LEMMA OneMore ==
  ASSUME NEW r \in Receipts, NEW h, receipt[r].st = "none",
         receipt' \in [Receipts -> Receipt], receipt'[r].shift = h, receipt'[r].st = "CAPTURED",
         \A s \in Receipts : s # r => receipt'[s] = receipt[s]
  PROVE  /\ Net(h)' = Net(h) + 1
         /\ \A g : g # h => Net(g)' = Net(g)
<1>1. Counted(h)' = Counted(h) \cup {r} /\ r \notin Counted(h)
  BY DEF Counted
<1>2. IsFiniteSet(Counted(h)) /\ Net(h) = Cardinality(Counted(h))
  BY CountedIsFinite
<1>3. Net(h)' = Cardinality(Counted(h)')
  BY DEF Net, Counted
<1>4. Net(h)' = Net(h) + 1
  BY <1>1, <1>2, <1>3, FS_AddElement
<1>5. ASSUME NEW g, g # h PROVE Net(g)' = Net(g)
  <2>1. Counted(g)' = Counted(g)
    BY <1>5 DEF Counted
  <2> QED
    BY <2>1 DEF Net, Counted
<1> QED
  BY <1>4, <1>5

LEMMA OneLess ==
  ASSUME NEW r \in Receipts, NEW h, receipt[r].st = "CAPTURED", receipt[r].shift = h,
         receipt'[r].st = "REFUNDED", receipt'[r].shift = h,
         \A s \in Receipts : s # r => receipt'[s] = receipt[s]
  PROVE  /\ Net(h)' = Net(h) - 1
         /\ \A g : g # h => Net(g)' = Net(g)
<1>1. Counted(h)' = Counted(h) \ {r} /\ r \in Counted(h)
  BY DEF Counted
<1>2. IsFiniteSet(Counted(h)) /\ Net(h) = Cardinality(Counted(h))
  BY CountedIsFinite
<1>3. Net(h)' = Cardinality(Counted(h)')
  BY DEF Net, Counted
<1>4. Net(h)' = Net(h) - 1
  BY <1>1, <1>2, <1>3, FS_RemoveElement
<1>5. ASSUME NEW g, g # h PROVE Net(g)' = Net(g)
  <2>1. Counted(g)' = Counted(g)
    BY <1>5 DEF Counted
  <2> QED
    BY <2>1 DEF Net, Counted
<1> QED
  BY <1>4, <1>5

(* One drawer and the shift that is open on it change together.            *)
LEMMA OneDrawer ==
  ASSUME StaffInv, Drawers, UNCHANGED shift, NEW u \in Users, NEW h \in Open(u), h \in Shifts,
         NEW n \in Int, cash' = [cash EXCEPT ![u] = @ + n], Net(h)' = Net(h) + n,
         \A g : g # h => Net(g)' = Net(g)
  PROVE  Drawers'
<1>1. /\ shift \in [Shifts -> Shift] /\ cash \in [Users -> Int]
      /\ shift[h].of = u /\ shift[h].st = "open"
  BY DEF StaffInv, TypeOK, Open
<1>2. cash'[u] = cash[u] + n /\ \A v \in Users : v # u => cash'[v] = cash[v]
  BY <1>1
<1>3. OneEach'
  BY DEF Drawers, OneEach
<1>4. NoneIsEmpty'
  <2>1. \A v \in Users : Open(v)' = Open(v)
    BY DEF Open
  <2> QED
    BY <1>2, <2>1 DEF Drawers, NoneIsEmpty
<1>5. Balanced'
  <2>1. ASSUME NEW g \in Shifts
        PROVE  /\ shift[g].st = "open" => cash'[shift[g].of] = shift[g].float + Net(g)'
               /\ shift[g].st = "closed" => shift[g].counted - (shift[g].float + Net(g)') = 0
    <3>1. CASE g = h
      <4>1. cash[u] \in Int /\ Net(h) \in Nat /\ shift[h].float \in Nat
        BY <1>1, CountedIsFinite DEF Shift
      <4>2. cash[u] = shift[h].float + Net(h)
        BY <1>1 DEF Drawers, Balanced, ExpectedCash
      <4> QED
        BY <1>1, <1>2, <3>1, <4>1, <4>2
    <3>2. CASE g # h
      <4>1. shift[g].st = "open" => shift[g].of # u /\ shift[g].of \in Users
        BY <1>1, <3>2 DEF Drawers, OneEach, StaffInv, ReceiptsAreInOwnShift, Shift
      <4> QED
        BY <1>2, <3>2, <4>1 DEF Drawers, Balanced, ExpectedCash, Difference
    <3> QED
      BY <3>1, <3>2
  <2> QED
    BY <2>1 DEF Balanced, ExpectedCash, Difference
<1> QED
  BY <1>3, <1>4, <1>5 DEF Drawers

(* Nothing is put into a drawer whose cashier has no shift.                *)
LEMMA NoDrawer ==
  ASSUME Drawers, UNCHANGED <<shift, cash>>, \A g \in Shifts : Net(g)' = Net(g)
  PROVE  Drawers'
<1>1. OneEach' /\ NoneIsEmpty'
  BY DEF Drawers, OneEach, NoneIsEmpty, Open
<1>2. Balanced'
  BY DEF Drawers, Balanced, ExpectedCash, Difference
<1> QED
  BY <1>1, <1>2 DEF Drawers

(* Cash is taken into the shift that is open still, or into none.          *)
LEMMA TakeCashBalances ==
  ASSUME StaffInv, DrawerInv, NEW c \in Clients, TakeCash(c)
  PROVE  DrawerInv'
<1> SUFFICES ASSUME calm' PROVE DrawerInv'
  BY DEF DrawerInv
<1>a. PICK u, h : u = req[c].by /\ h = req[c].to
  OBVIOUS
<1>1. PICK r \in Receipts :
        /\ receipt[r].st = "none"
        /\ receipt' = [receipt EXCEPT ![r] = [st |-> "CAPTURED", by |-> u, shift |-> h]]
  BY <1>a DEF TakeCash
<1>2. /\ At(c, "write", "take") /\ calm /\ UNCHANGED shift
      /\ cash' = [cash EXCEPT ![u] = @ + (IF h = None THEN 0 ELSE 1)]
      /\ req' = [req EXCEPT ![c] = Idle]
      /\ receipt \in [Receipts -> Receipt] /\ cash \in [Users -> Int]
  BY <1>a DEF TakeCash, Ends, StaffInv, TypeOK
<1>3. /\ u \in Users /\ (h = None \/ h \in Shifts) /\ Drawers
      /\ h # None => h \in Open(u)
  BY <1>a, <1>2, OpenIsOpenOf DEF At, StaffInv, RequestInv, DrawerInv, AllFound, Found
<1>4. /\ receipt'[r].shift = h /\ receipt'[r].st = "CAPTURED"
      /\ \A s \in Receipts : s # r => receipt'[s] = receipt[s]
  BY <1>1, <1>2
<1>5. receipt' \in [Receipts -> Receipt]
  <2>1. [st |-> "CAPTURED", by |-> u, shift |-> h] \in Receipt
    BY <1>3 DEF Receipt
  <2> QED
    BY <1>1, <1>2, <2>1
<1>6. Net(h)' = Net(h) + 1 /\ \A g : g # h => Net(g)' = Net(g)
  BY <1>1, <1>4, <1>5, OneMore
<1>7. CASE h = None
  <2>1. None \notin Shifts
    BY StaffAssumption
  <2>2. UNCHANGED cash
    BY <1>2, <1>3, <1>7
  <2>3. Drawers'
    BY <1>2, <1>3, <1>6, <1>7, <2>1, <2>2, NoDrawer
  <2> QED
    BY <1>2, <2>3, LastRequest DEF At
<1>8. CASE h # None
  <2>a. PICK n \in Int : n = 1
    OBVIOUS
  <2>1. cash' = [cash EXCEPT ![u] = @ + n] /\ h \in Open(u) /\ h \in Shifts
    BY <1>2, <1>3, <1>8, <2>a
  <2>2. Drawers'
    BY <1>2, <1>3, <1>6, <2>a, <2>1, OneDrawer
  <2> QED
    BY <1>2, <2>2, LastRequest DEF At
<1> QED
  BY <1>7, <1>8

(* A refund in the shift of its payment takes the payment out of both.     *)
LEMMA RefundCashBalances ==
  ASSUME StaffInv, DrawerInv, NEW c \in Clients, RefundCash(c)
  PROVE  DrawerInv'
<1> SUFFICES ASSUME calm' PROVE DrawerInv'
  BY DEF DrawerInv
<1> DEFINE u == req[c].by
           r == req[c].on
<1>1. /\ At(c, "write", "refund") /\ calm /\ UNCHANGED shift
      /\ receipt' = [receipt EXCEPT ![r].st = "REFUNDED"]
      /\ cash' = [cash EXCEPT ![u] = @ - (IF Open(u) = {} THEN 0 ELSE 1)]
      /\ req' = [req EXCEPT ![c] = Idle]
      /\ receipt \in [Receipts -> Receipt] /\ cash \in [Users -> Int]
  BY DEF RefundCash, Ends, StaffInv, TypeOK
<1>2. /\ u \in Users /\ r \in Receipts /\ Drawers /\ receipt[r].st = "CAPTURED"
      /\ receipt[r].shift = None => Open(u) = {}
      /\ receipt[r].shift # None => receipt[r].shift \in Open(u)
  BY <1>1, OpenIsOpenOf DEF At, StaffInv, RequestInv, DrawerInv, AllFound, Found
<1>3. PICK h : h = receipt[r].shift
  OBVIOUS
<1> HIDE DEF u, r
<1>4. /\ receipt'[r].shift = h /\ receipt'[r].st = "REFUNDED"
      /\ \A s \in Receipts : s # r => receipt'[s] = receipt[s]
  BY <1>1, <1>2, <1>3 DEF Receipt
<1>5. Net(h)' = Net(h) - 1 /\ \A g : g # h => Net(g)' = Net(g)
  BY <1>2, <1>3, <1>4, OneLess
<1>6. CASE h = None
  <2>1. None \notin Shifts
    BY StaffAssumption
  <2>2. UNCHANGED cash
    BY <1>1, <1>2, <1>3, <1>6
  <2>3. Drawers'
    BY <1>1, <1>2, <1>5, <1>6, <2>1, <2>2, NoDrawer
  <2> QED
    BY <1>1, <2>3, LastRequest DEF At
<1>7. CASE h # None
  <2>1. h \in Open(u) /\ h \in Shifts
    BY <1>2, <1>3, <1>7 DEF Open
  <2>2. Net(h)' = Net(h) + (-1)
    BY <1>5, CountedIsFinite
  <2>3. cash' = [cash EXCEPT ![u] = @ + (-1)]
    BY <1>1, <1>2, <2>1
  <2>4. Drawers'
    BY <1>1, <1>2, <1>5, <2>1, <2>2, <2>3, OneDrawer
  <2> QED
    BY <1>1, <2>4, LastRequest DEF At
<1> QED
  BY <1>6, <1>7

(* A request begins with what it found.                                    *)
LEMMA BeginsFound ==
  ASSUME StaffInv, DrawerInv, NEW c \in Clients, NEW q, NEW quietly \in BOOLEAN,
         Begins(c, q, quietly), q.at = "write" /\ quietly => Found(q, shift, receipt)
  PROVE  DrawerInv'
<1>1. \A d \in Clients : \/ req'[d] = req[d]
                         \/ req'[d].at # "write"
                         \/ calm' => Found(req'[d], shift, receipt)
  BY DEF Begins, StaffInv, TypeOK
<1> QED
  BY <1>1, SameDesk DEF Begins, desk

(* No other request looks at a drawer.                                     *)
LEMMA OtherStepsBalance ==
  ASSUME StaffInv, DrawerInv,
         \/ UNCHANGED vars
         \/ \E u \in Users :
              \/ Login(u) \/ TokenExpires(u) \/ GenerateTasks(u)
              \/ \E v \in Users : \E role \in Roles : CreateUser(u, v, role)
              \/ \E t \in Traces : CreateTrace(u, t)
         \/ \E c \in Clients :
              CountAdmins(c) \/ WriteUser(c) \/ WriteAssign(c) \/ WriteProgress(c) \/ WriteTrace(c)
  PROVE  DrawerInv'
<1>1. req \in [Clients -> Requests] /\ calm \in BOOLEAN /\ RequestInv
  BY DEF StaffInv, TypeOK
<1>2. CASE UNCHANGED <<shift, receipt, cash, calm, req>>
  BY <1>2, SameDesk
<1>3. ASSUME NEW u \in Users,
             \/ Login(u) \/ TokenExpires(u) \/ GenerateTasks(u)
             \/ \E v \in Users : \E role \in Roles : CreateUser(u, v, role)
             \/ \E t \in Traces : CreateTrace(u, t)
      PROVE  UNCHANGED <<shift, receipt, cash, calm, req>>
  BY <1>3 DEF Login, TokenExpires, GenerateTasks, CreateUser, CreateTrace, desk
<1>4. ASSUME NEW c \in Clients, Ends(c), UNCHANGED desk PROVE DrawerInv'
  <2>1. \A d \in Clients : req'[d] = req[d] \/ req'[d].at # "write"
    BY <1>1, <1>4 DEF Ends, Idle
  <2> QED
    BY <1>4, <2>1, SameDesk DEF Ends, desk
<1>5. ASSUME NEW c \in Clients, CountAdmins(c) PROVE DrawerInv'
  <2>1. req[c].op = "update"
    BY <1>5 DEF CountAdmins, At
  <2>2. \A d \in Clients : req'[d] = req[d] \/ req'[d].op = "update"
    BY <1>1, <1>5, <2>1 DEF CountAdmins, Idle, Requests
  <2>3. \A q : q.op = "update" => Found(q, shift, receipt)
    BY DEF Found
  <2> QED
    BY <1>5, <2>2, <2>3, SameDesk DEF CountAdmins, desk
<1>6. ASSUME NEW c \in Clients,
             WriteUser(c) \/ WriteAssign(c) \/ WriteProgress(c) \/ WriteTrace(c)
      PROVE  DrawerInv'
  BY <1>4, <1>6 DEF WriteUser, WriteAssign, WriteProgress, WriteTrace, desk
<1>7. UNCHANGED vars => UNCHANGED <<shift, receipt, cash, calm, req>>
  BY DEF vars, desk
<1> QED
  BY <1>2, <1>3, <1>5, <1>6, <1>7

(* The requests that begin.                                                *)
LEMMA StartsBalance ==
  ASSUME StaffInv, DrawerInv, NEW c \in Clients, NEW u \in Users,
         \/ \E v \in Users : \E new \in Change : StartUpdate(c, u, v, new)
         \/ \/ \E f \in Floats : StartOpen(c, u, f)
            \/ \E h \in Shifts : StartClose(c, u, h)
            \/ StartTake(c, u)
            \/ \E r \in Receipts : StartRefund(c, u, r)
         \/ \/ \E t \in Tasks : \E v \in Users \cup {None} : StartAssign(c, u, t, v)
            \/ \E t \in Tasks : \E status \in Progress : StartProgress(c, u, t, status)
            \/ \E t \in Traces : StartComplete(c, u, t) \/ StartRemove(c, u, t)
  PROVE  DrawerInv'
<1>1. ASSUME NEW q, Starts(c, q), q.op \notin {"open", "close", "take", "refund"}
      PROVE  DrawerInv'
  <2>1. Found(q, shift, receipt)
    BY <1>1 DEF Found
  <2> QED
    BY <1>1, <2>1, BeginsFound DEF Starts
<1>2. ASSUME NEW v \in Users, NEW new \in Change, StartUpdate(c, u, v, new) PROVE DrawerInv'
  BY <1>1, <1>2 DEF StartUpdate, Idle
<1>3. ASSUME NEW f \in Floats, StartOpen(c, u, f) PROVE DrawerInv'
  <2> DEFINE q == [Idle EXCEPT !.at = "write", !.op = "open", !.by = u, !.float = f]
  <2>1. q.op = "open" /\ q.by = u
    BY DEF Idle
  <2>2. Starts(c, q) /\ OpenOf(shift, u) = {}
    BY <1>3, OpenIsOpenOf DEF StartOpen, MayOpen
  <2> HIDE DEF q
  <2>3. Found(q, shift, receipt)
    BY <2>1, <2>2 DEF Found
  <2> QED
    BY <2>2, <2>3, BeginsFound DEF Starts
<1>4. ASSUME NEW h \in Shifts, StartClose(c, u, h) PROVE DrawerInv'
  <2> DEFINE q == [Idle EXCEPT !.at = "write", !.op = "close", !.on = h]
  <2>1. q.op = "close" /\ q.on = h
    BY DEF Idle
  <2>2. Starts(c, q) /\ shift[h].st = "open"
    BY <1>4 DEF StartClose
  <2> HIDE DEF q
  <2>3. Found(q, shift, receipt)
    BY <2>1, <2>2 DEF Found
  <2> QED
    BY <2>2, <2>3, BeginsFound DEF Starts
<1>5. ASSUME StartTake(c, u) PROVE DrawerInv'
  <2>1. PICK h \in IF Open(u) = {} THEN {None} ELSE Open(u) :
          Starts(c, [Idle EXCEPT !.at = "write", !.op = "take", !.by = u, !.to = h])
    BY <1>5 DEF StartTake
  <2> DEFINE q == [Idle EXCEPT !.at = "write", !.op = "take", !.by = u, !.to = h]
  <2>2. q.op = "take" /\ q.by = u /\ q.to = h
    BY DEF Idle
  <2>3. Starts(c, q) /\ IF h = None THEN OpenOf(shift, u) = {} ELSE h \in OpenOf(shift, u)
    <3>1. None \notin Shifts /\ Open(u) \subseteq Shifts
      BY StaffAssumption DEF Open
    <3> QED
      BY <2>1, <3>1, OpenIsOpenOf
  <2> HIDE DEF q
  <2>4. Found(q, shift, receipt)
    BY <2>2, <2>3 DEF Found
  <2> QED
    BY <2>3, <2>4, BeginsFound DEF Starts
<1>6. ASSUME NEW r \in Receipts, StartRefund(c, u, r) PROVE DrawerInv'
  <2> DEFINE q == [Idle EXCEPT !.at = "write", !.op = "refund", !.by = u, !.on = r]
  <2>1. q.op = "refund" /\ q.by = u /\ q.on = r
    BY DEF Idle
  <2>2. Begins(c, q, SameShift(u, r)) /\ receipt[r].st = "CAPTURED"
    BY <1>6 DEF StartRefund
  <2> HIDE DEF q
  <2>3. SameShift(u, r) \in BOOLEAN
    BY DEF SameShift
  <2>4. SameShift(u, r) => Found(q, shift, receipt)
    BY <2>1, <2>2, OpenIsOpenOf DEF Found, SameShift
  <2> QED
    BY <2>2, <2>3, <2>4, BeginsFound
<1>7. ASSUME NEW t \in Tasks, NEW v \in Users \cup {None}, StartAssign(c, u, t, v)
      PROVE  DrawerInv'
  BY <1>1, <1>7 DEF StartAssign, Idle
<1>8. ASSUME NEW t \in Tasks, NEW status \in Progress, StartProgress(c, u, t, status)
      PROVE  DrawerInv'
  BY <1>1, <1>8 DEF StartProgress, Idle
<1>9. ASSUME NEW t \in Traces, StartComplete(c, u, t) \/ StartRemove(c, u, t) PROVE DrawerInv'
  BY <1>1, <1>9 DEF StartComplete, StartRemove, Idle
<1> QED
  BY <1>2, <1>3, <1>4, <1>5, <1>6, <1>7, <1>8, <1>9

(* While requests do not overlap and refunds are made in the shift of the  *)
(* payment, a cashier has one open shift, its drawer holds what the        *)
(* summary expects, and a closed shift shows no difference (open, close,   *)
(* summarize).                                                             *)
THEOREM DrawersBalance == Spec => []ShiftsAgree
<1> DEFINE IInv == StaffInv /\ DrawerInv
<1>1. Init => IInv
  <2> SUFFICES ASSUME Init PROVE DrawerInv
    BY InitInv
  <2>1. Drawers /\ \A c \in Clients : req[c].at = "idle"
    BY DEF Init, Idle, Drawers, OneEach, NoneIsEmpty, Balanced
  <2> QED
    BY <2>1 DEF DrawerInv, AllFound
<1>2. IInv /\ [Next]_vars => IInv'
  <2> SUFFICES ASSUME StaffInv, DrawerInv, [Next]_vars PROVE DrawerInv'
    BY NextInv
  <2>1. CASE UNCHANGED vars
    BY <2>1, OtherStepsBalance
  <2>2. CASE Next
    BY <2>2, StepIsOneOf, OtherStepsBalance, StartsBalance, OpenShiftBalances,
       CloseShiftBalances, TakeCashBalances, RefundCashBalances
  <2> QED
    BY <2>1, <2>2
<1>3. IInv => ShiftsAgree
  <2> SUFFICES ASSUME StaffInv, DrawerInv, calm PROVE OneOpenShift /\ DrawerBalances
    BY DEF ShiftsAgree, OneOpenShift, DrawerBalances
  <2>1. OneEach /\ Balanced
    BY DEF DrawerInv, Drawers
  <2>2. ASSUME NEW u \in Users PROVE Cardinality(Open(u)) <= 1
    <3>1. CASE Open(u) = {}
      BY <3>1, FS_EmptySet
    <3>2. CASE Open(u) # {}
      <4>1. PICK h : h \in Open(u)
        BY <3>2
      <4>2. Open(u) = {h}
        BY <2>1, <4>1 DEF OneEach, Open
      <4> QED
        BY <4>2, FS_Singleton
    <3> QED
      BY <3>1, <3>2
  <2> QED
    BY <2>1, <2>2 DEF OneOpenShift, DrawerBalances, Balanced
<1> QED
  BY <1>1, <1>2, <1>3, PTL DEF Spec

=============================================================================
