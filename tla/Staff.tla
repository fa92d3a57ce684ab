------------------------------- MODULE Staff -------------------------------
(***************************************************************************)
(* The staff of the hotel and what is theirs: accounts (src/users/users.   *)
(* service.ts, src/auth), cashier shifts (src/cashier/cashier.service.ts)  *)
(* and the cash payments taken in them (src/payments/payments.service.ts), *)
(* housekeeping tasks (src/housekeeping/housekeeping.service.ts) and       *)
(* instructions on a stay (src/traces/traces.service.ts).                  *)
(*                                                                         *)
(* Nothing of this goes to OPERA.  A request reads its row, checks it and  *)
(* writes it; requests interleave between the two.                         *)
(*                                                                         *)
(* Left out: one property, so no scope; passwords and the form of a token; *)
(* what a payment puts on the folio (Payments).  FRONT_DESK stands for     *)
(* MANAGER too, which may do the same here, and DONE for INSPECTED.        *)
(***************************************************************************)
EXTENDS FiniteSets, Integers

CONSTANTS
  Clients,   \* requests that can be in flight at once
  Users,     \* accounts that can be made
  Roles,
  Shifts,    \* shifts that can be opened
  Receipts,  \* cash payments that can be taken, of one unit each
  Floats,    \* what a drawer can hold when a shift is opened
  Tasks,     \* rooms to clean on one day
  Traces,    \* instructions that can be given
  MaxRows, MaxCalm,  \* bounds how much there is once requests overlap, and before
  MaxSent,   \* bounds the fields an update sends once requests overlap
  None

ASSUME StaffAssumption ==
  /\ Roles \subseteq {"ADMIN", "FRONT_DESK", "HOUSEKEEPING"} /\ "ADMIN" \in Roles
  /\ IsFiniteSet(Users) /\ IsFiniteSet(Receipts)
  /\ Floats \subseteq Nat
  /\ MaxRows \in Nat /\ MaxCalm \in Nat /\ MaxSent \in Nat
  /\ None \notin Users \cup Shifts \cup Receipts \cup Tasks \cup Traces \cup Roles

VARIABLES
  user,     \* accounts
  token,    \* the role in the token each account was given last
  shift,    \* cashier shifts
  receipt,  \* cash payments
  cash,     \* what is in each cashier's drawer
  task,     \* housekeeping tasks
  trace,    \* instructions
  calm,     \* no two requests overlapped, and no refund was made in another
            \* shift than the payment's, so far (history)
  req       \* the request of each client

desk == <<shift, receipt, cash>>
vars == <<user, token, desk, task, trace, calm, req>>

User == [role : Roles \cup {None}, active : BOOLEAN]  \* None: no such account
Change == [role : Roles \cup {None}, active : BOOLEAN \cup {None}]  \* None: not sent
Shift == [of : Users \cup {None}, st : {"none", "open", "closed"}, float : Nat, counted : Int]
Receipt == [st : {"none", "CAPTURED", "REFUNDED"}, by : Users \cup {None},
            shift : Shifts \cup {None}]
Progress == {"PENDING", "IN_PROGRESS", "DONE"}
Task == [st : Progress \cup {"none"}, to : Users \cup {None}]
TraceStatus == {"none", "OPEN", "DONE", "removed"}

Ops == {"update", "open", "close", "take", "refund", "assign", "progress", "complete", "remove"}
Requests == [at : {"idle", "count", "write"}, op : Ops, by : Users \cup {None},
             on : Users \cup Shifts \cup Receipts \cup Tasks \cup Traces \cup {None},
             change : Change, to : Users \cup Shifts \cup {None},
             status : Progress, float : Nat]
NoUser == [role |-> None, active |-> FALSE]
Idle == [at |-> "idle", op |-> "update", by |-> None, on |-> None,
         change |-> [role |-> None, active |-> None], to |-> None, status |-> "PENDING", float |-> 0]

ActiveAdmins == { u \in Users : user[u].role = "ADMIN" /\ user[u].active }

(* The first account is an administrator's.                                *)
Init ==
  /\ user \in [Users -> {NoUser} \cup [role : Roles, active : {TRUE}]]
  /\ ActiveAdmins # {}
  /\ token = [u \in Users |-> None]
  /\ shift = [h \in Shifts |-> [of |-> None, st |-> "none", float |-> 0, counted |-> 0]]
  /\ receipt = [r \in Receipts |-> [st |-> "none", by |-> None, shift |-> None]]
  /\ cash = [u \in Users |-> 0]
  /\ task = [t \in Tasks |-> [st |-> "none", to |-> None]]
  /\ trace = [t \in Traces |-> "none"]
  /\ calm = TRUE
  /\ req = [c \in Clients |-> Idle]

At(c, stage, op) == req[c].at = stage /\ req[c].op = op
Begins(c, q, quietly) ==
  /\ req[c].at = "idle"
  /\ req' = [req EXCEPT ![c] = q]
  /\ calm' = (calm /\ quietly /\ \A d \in Clients : req[d].at = "idle")
  /\ UNCHANGED <<user, token, desk, task, trace>>
Starts(c, q) == Begins(c, q, TRUE)
Ends(c) == req' = [req EXCEPT ![c] = Idle] /\ UNCHANGED <<token, calm>>

(* The guards: who has a token that is not over, and the role that was put *)
(* into it.  An administrator may do everything.                           *)
SignedIn(u) == token[u] # None
Allowed(u, roles) == SignedIn(u) /\ token[u] \in roles \cup {"ADMIN"}
Desk == {"FRONT_DESK"}

-----------------------------------------------------------------------------
(* Accounts.                                                               *)

Login(u) ==
  /\ user[u].role # None /\ user[u].active
  /\ token' = [token EXCEPT ![u] = user[u].role]
  /\ UNCHANGED <<user, desk, task, trace, calm, req>>
TokenExpires(u) ==
  /\ SignedIn(u)
  /\ token' = [token EXCEPT ![u] = None]
  /\ UNCHANGED <<user, desk, task, trace, calm, req>>

CreateUser(a, u, role) ==
  /\ Allowed(a, {})
  /\ user[u].role = None
  /\ user' = [user EXCEPT ![u] = [role |-> role, active |-> TRUE]]
  /\ UNCHANGED <<token, desk, task, trace, calm, req>>

(* Nobody gives up an administrator's account of their own; of others' one *)
(* has to be left, which is counted in a call of its own.                  *)
LosesAdmin(u, new) ==
  user[u].role = "ADMIN" /\ (new.role \notin {None, "ADMIN"} \/ new.active = FALSE)
StartUpdate(c, a, u, new) ==
  /\ Allowed(a, {})
  /\ user[u].role # None
  /\ a = u => new.active # FALSE /\ new.role \in {None, user[u].role}
  /\ Starts(c, [Idle EXCEPT !.at = IF LosesAdmin(u, new) THEN "count" ELSE "write",
                            !.op = "update", !.on = u, !.change = new])
AdminIsLeft_OrNone(n) == n >= 1
AdminIsLeft(n) == n > 1
CountAdmins(c) ==
  /\ At(c, "count", "update")
  /\ req' = [req EXCEPT ![c] =
       IF AdminIsLeft(Cardinality(ActiveAdmins)) THEN [@ EXCEPT !.at = "write"] ELSE Idle]
  /\ UNCHANGED <<user, token, desk, task, trace, calm>>
(* Fields that were not sent stay what they are by then.                   *)
Changed(old, new) ==
  [role |-> IF new.role = None THEN old.role ELSE new.role,
   active |-> IF new.active = None THEN old.active ELSE new.active]
WriteUser(c) ==
  /\ At(c, "write", "update")
  /\ user' = [user EXCEPT ![req[c].on] = Changed(@, req[c].change)]
  /\ Ends(c)
  /\ UNCHANGED <<desk, task, trace>>

-----------------------------------------------------------------------------
(* Shifts.  A cashier puts the float into the drawer, and takes all of it  *)
(* out when the shift is closed, having counted it.                        *)

Open_Anyones(u) == { h \in Shifts : shift[h].st = "open" }
Open(u) == { h \in Shifts : shift[h].of = u /\ shift[h].st = "open" }
MayOpen(u) == Open(u) = {}
StartOpen(c, u, f) ==
  /\ Allowed(u, Desk)
  /\ MayOpen(u)
  /\ Starts(c, [Idle EXCEPT !.at = "write", !.op = "open", !.by = u, !.float = f])
OpenShift(c) ==
  LET q == req[c] IN
  /\ At(c, "write", "open")
  /\ \E h \in Shifts :
       /\ shift[h].st = "none"
       /\ shift' = [shift EXCEPT ![h] = [@ EXCEPT !.of = q.by, !.st = "open", !.float = q.float]]
  /\ cash' = [cash EXCEPT ![q.by] = @ + q.float]
  /\ Ends(c)
  /\ UNCHANGED <<user, receipt, task, trace>>

StartClose(c, u, h) ==
  /\ Allowed(u, Desk)
  /\ shift[h].of = u /\ shift[h].st = "open"
  /\ Starts(c, [Idle EXCEPT !.at = "write", !.op = "close", !.on = h])
CloseShift(c) ==
  LET h == req[c].on
      u == shift[h].of IN
  /\ At(c, "write", "close")
  /\ shift' = [shift EXCEPT ![h] = [@ EXCEPT !.st = "closed", !.counted = cash[u]]]
  /\ cash' = [cash EXCEPT ![u] = 0]
  /\ Ends(c)
  /\ UNCHANGED <<user, receipt, task, trace>>

(* Cash is taken in the shift that was open when the request looked, or in *)
(* none.                                                                   *)
StartTake(c, u) ==
  /\ Allowed(u, Desk)
  /\ \E h \in IF Open(u) = {} THEN {None} ELSE Open(u) :
       Starts(c, [Idle EXCEPT !.at = "write", !.op = "take", !.by = u, !.to = h])
TakeCash(c) ==
  LET q == req[c] IN
  /\ At(c, "write", "take")
  /\ \E r \in Receipts :
       /\ receipt[r].st = "none"
       /\ receipt' = [receipt EXCEPT ![r] = [st |-> "CAPTURED", by |-> q.by, shift |-> q.to]]
  /\ cash' = [cash EXCEPT ![q.by] = @ + (IF q.to = None THEN 0 ELSE 1)]
  /\ Ends(c)
  /\ UNCHANGED <<user, shift, task, trace>>

(* A refund stays with the payment, and so with its shift; the money is    *)
(* handed over by whoever makes it.                                        *)
SameShift(u, r) ==
  IF receipt[r].shift = None THEN Open(u) = {}
  ELSE receipt[r].by = u /\ receipt[r].shift \in Open(u)
StartRefund(c, u, r) ==
  /\ Allowed(u, Desk)
  /\ receipt[r].st = "CAPTURED"
  /\ Begins(c, [Idle EXCEPT !.at = "write", !.op = "refund", !.by = u, !.on = r],
            SameShift(u, r))
RefundCash(c) ==
  LET q == req[c] IN
  /\ At(c, "write", "refund")
  /\ receipt' = [receipt EXCEPT ![q.on].st = "REFUNDED"]
  /\ cash' = [cash EXCEPT ![q.by] = @ - (IF Open(q.by) = {} THEN 0 ELSE 1)]
  /\ Ends(c)
  /\ UNCHANGED <<user, shift, task, trace>>

(* summarize: what should be in the drawer.                                *)
Net_Taken(h) == Cardinality({ r \in Receipts : receipt[r].shift = h })
Net(h) == Cardinality({ r \in Receipts : receipt[r].shift = h /\ receipt[r].st = "CAPTURED" })
ExpectedCash(h) == shift[h].float + Net(h)
Difference(h) == shift[h].counted - ExpectedCash(h)

-----------------------------------------------------------------------------
(* Tasks and instructions.                                                 *)

(* Tasks that are there already are left alone; which rooms need one is    *)
(* for RoomStatus to say.                                                  *)
Missing == { t \in Tasks : task[t].st = "none" }
GenerateTasks(u) ==
  /\ Allowed(u, Desk)
  /\ \E new \in SUBSET Missing :
       task' = [t \in Tasks |-> IF t \in new THEN [st |-> "PENDING", to |-> None] ELSE task[t]]
  /\ UNCHANGED <<user, token, desk, trace, calm, req>>
StartAssign(c, u, t, v) ==
  /\ Allowed(u, Desk)
  /\ task[t].st # "none"
  /\ v # None => user[v].active
  /\ Starts(c, [Idle EXCEPT !.at = "write", !.op = "assign", !.on = t, !.to = v])
WriteAssign(c) ==
  /\ At(c, "write", "assign")
  /\ task' = [task EXCEPT ![req[c].on].to = req[c].to]
  /\ Ends(c)
  /\ UNCHANGED <<user, desk, trace>>
(* Housekeeping changes its own tasks only.                                *)
StartProgress(c, u, t, status) ==
  /\ SignedIn(u)
  /\ task[t].st # "none"
  /\ token[u] = "HOUSEKEEPING" => task[t].to = u
  /\ Starts(c, [Idle EXCEPT !.at = "write", !.op = "progress", !.on = t,
                            !.status = status])
WriteProgress(c) ==
  /\ At(c, "write", "progress")
  /\ task' = [task EXCEPT ![req[c].on].st = req[c].status]
  /\ Ends(c)
  /\ UNCHANGED <<user, desk, trace>>

CreateTrace(u, t) ==
  /\ Allowed(u, Desk)
  /\ trace[t] = "none"
  /\ trace' = [trace EXCEPT ![t] = "OPEN"]
  /\ UNCHANGED <<user, token, desk, task, calm, req>>
MayRemove(t) == trace[t] = "OPEN"
StartComplete(c, u, t) ==
  /\ SignedIn(u)
  /\ trace[t] = "OPEN"
  /\ Starts(c, [Idle EXCEPT !.at = "write", !.op = "complete", !.on = t])
StartRemove(c, u, t) ==
  /\ Allowed(u, Desk)
  /\ MayRemove(t)
  /\ Starts(c, [Idle EXCEPT !.at = "write", !.op = "remove", !.on = t])
(* A row that is gone is not written.                                      *)
WriteTrace(c) ==
  LET q == req[c] IN
  /\ q.at = "write" /\ q.op \in {"complete", "remove"}
  /\ trace' = [trace EXCEPT ![q.on] =
       IF @ = "removed" THEN @ ELSE IF q.op = "remove" THEN "removed" ELSE "DONE"]
  /\ Ends(c)
  /\ UNCHANGED <<user, desk, task>>

(* How much there is, and is asked for (bounds).                           *)
Rows ==
  Cardinality({ u \in Users : user[u].role # None })
    + Cardinality({ h \in Shifts : shift[h].st # "none" })
    + Cardinality({ r \in Receipts : receipt[r].st # "none" })
    + Cardinality({ t \in Tasks : task[t].st # "none" })
    + Cardinality({ t \in Traces : trace[t] # "none" })
FewRows == Rows <= IF calm THEN MaxCalm ELSE MaxRows
Sent(new) == Cardinality({ f \in DOMAIN new : new[f] # None })
FewSent == calm \/ \A c \in Clients : Sent(req[c].change) <= MaxSent

Moves ==
  \/ \E u \in Users :
       \/ Login(u) \/ TokenExpires(u) \/ GenerateTasks(u)
       \/ \E v \in Users, role \in Roles : CreateUser(u, v, role)
       \/ \E t \in Traces : CreateTrace(u, t)
  \/ \E c \in Clients, u \in Users :
       \/ \E v \in Users, new \in Change : StartUpdate(c, u, v, new)
       \/ \E f \in Floats : StartOpen(c, u, f)
       \/ \E h \in Shifts : StartClose(c, u, h)
       \/ StartTake(c, u)
       \/ \E r \in Receipts : StartRefund(c, u, r)
       \/ \E t \in Tasks, v \in Users \cup {None} : StartAssign(c, u, t, v)
       \/ \E t \in Tasks, status \in Progress : StartProgress(c, u, t, status)
       \/ \E t \in Traces : StartComplete(c, u, t) \/ StartRemove(c, u, t)
  \/ \E c \in Clients :
       \/ CountAdmins(c) \/ WriteUser(c)
       \/ OpenShift(c) \/ CloseShift(c) \/ TakeCash(c) \/ RefundCash(c)
       \/ WriteAssign(c) \/ WriteProgress(c) \/ WriteTrace(c)

Next == Moves /\ FewRows' /\ FewSent'

Spec == Init /\ [][Next]_vars

-----------------------------------------------------------------------------
(* Every variable keeps the values the code gives it.                      *)
TypeOK ==
  /\ user \in [Users -> User]
  /\ token \in [Users -> Roles \cup {None}]
  /\ shift \in [Shifts -> Shift]
  /\ receipt \in [Receipts -> Receipt]
  /\ cash \in [Users -> Int]
  /\ task \in [Tasks -> Task]
  /\ trace \in [Traces -> TraceStatus]
  /\ calm \in BOOLEAN
  /\ req \in [Clients -> Requests]

(* A payment is in a shift of the cashier who took it, if in any, and a    *)
(* shift that was opened is somebody's, however the requests interleave    *)
(* (openShiftId, open; "there is no telling which shift a receipt belongs  *)
(* to").                                                                   *)
ReceiptsAreInOwnShift ==
  /\ \A r \in Receipts : receipt[r].shift # None =>
       shift[receipt[r].shift].of = receipt[r].by /\ receipt[r].by # None
  /\ \A h \in Shifts : shift[h].st # "none" <=> shift[h].of # None

(* What a request in flight read is still there.                           *)
RequestInv == \A c \in Clients :
  LET q == req[c] IN
  /\ q.at = "write" /\ q.op \in {"open", "take", "refund"} => q.by \in Users
  /\ q.at = "count" => q.op = "update"
  /\ q.at # "idle" /\ q.op = "update" => q.on \in Users
  /\ q.at = "write" /\ q.op = "close" => q.on \in Shifts /\ shift[q.on].of # None
  /\ q.at = "write" /\ q.op = "take" =>
       q.to = None \/ (q.to \in Shifts /\ shift[q.to].of = q.by)
  /\ q.at = "write" /\ q.op = "refund" => q.on \in Receipts /\ receipt[q.on].st # "none"
  /\ q.at = "write" /\ q.op \in {"assign", "progress"} => q.on \in Tasks
  /\ q.at = "write" /\ q.op = "assign" => q.to \in Users \cup {None}
  /\ q.at = "write" /\ q.op \in {"complete", "remove"} =>
       q.on \in Traces /\ trace[q.on] # "none"
OneAtATime ==
  calm => \A c, d \in Clients : c # d => req[c].at = "idle" \/ req[d].at = "idle"
StaffInv == TypeOK /\ ReceiptsAreInOwnShift /\ RequestInv /\ OneAtATime

(* While requests do not overlap, an active administrator is left ("losing *)
(* the last admin", update), whatever the tokens in use say.               *)
AdminIsThere == calm => ActiveAdmins # {}

(* While requests do not overlap, a cashier has one open shift at most     *)
(* ("One person cannot hold two open shifts", open).                       *)
OneOpenShift == calm => \A u \in Users : Cardinality(Open(u)) <= 1

(* While requests do not overlap and refunds are made in the shift of the  *)
(* payment, the drawer holds what the summary expects and a closed shift   *)
(* has no difference ("what should be in the drawer and what actually      *)
(* was").                                                                  *)
DrawerBalances ==
  calm => \A h \in Shifts :
    /\ shift[h].st = "open" => cash[shift[h].of] = ExpectedCash(h)
    /\ shift[h].st = "closed" => Difference(h) = 0

(* While requests do not overlap: one open shift, and its drawer balances  *)
(* (open, close, summarize).                                               *)
ShiftsAgree == OneOpenShift /\ DrawerBalances

=============================================================================
