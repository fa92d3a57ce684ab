------------------------------ MODULE FolioDesk ------------------------------
(***************************************************************************)
(* The folio windows of one stay: src/folios/folios.service.ts,            *)
(* src/folios/folio-mirror.ts, the folios of check-out                     *)
(* (src/reservations/reservations.service.ts), and the payments that land  *)
(* on a window.  PosCharges adds the outlets.                              *)
(*                                                                         *)
(* OPERA keeps windows and postings; a request asks it for one change and  *)
(* copies the windows it answers with.  Left out: the sync log (Bookings), *)
(* texts, dates, currencies.  An amount is +1 (a charge) or -1 (money, or  *)
(* an adjustment down).                                                    *)
(***************************************************************************)
EXTENDS FiniteSets, Integers

CONSTANTS
  Clerks,     \* clients with at most one request in flight each
  MaxWin,     \* windows of the stay
  MaxPosts,   \* bounds OPERA's postings
  Outlets,    \* POS outlets (PosCharges)
  Checks,     \* check numbers
  Trouble,    \* the failures of the environment that may happen
  MaxTrouble, \* bounds how often one happens
  NoCheck

(* "close": a window is not closed.  "dies": an answer of OPERA is lost,   *)
(* or the process or the transaction that copies it fails.                 *)
Troubles == {"close", "dies"}

ASSUME FolioAssumption ==
  /\ MaxWin \in Nat \ {0} /\ MaxPosts \in Nat /\ MaxTrouble \in Nat
  /\ Trouble \subseteq Troubles
  /\ NoCheck \notin Checks
  /\ Outlets \cap {"desk", "payment", "none"} = {}

VARIABLES
  opera,    \* OPERA's windows and postings
  local,    \* our copy
  stay,     \* our reservation row
  calm,     \* no two requests overlapped so far and nothing failed (history)
  troubles, \* the failures so far
  req       \* the request each clerk has in flight

vars == <<opera, local, stay, calm, troubles, req>>

Windows == 1..MaxWin
Posts == 1..MaxPosts
Amounts == {-1, 1}
Opposite == [a \in Amounts |-> -a]

(* A check number as it is sent: for a charge, its reversal or a payment.  *)
(* One of kind "none" is not sent.                                         *)
NoRef == [check |-> NoCheck, kind |-> "none"]
Refs == [check : Checks \cup {NoCheck}, kind : {"none", "charge", "void", "pay"}]
Ref(k, kind) == [check |-> k, kind |-> kind]
Makers == Outlets \cup {"desk", "payment"}

(* voids names the posting a reversal reverses.                            *)
WindowState == {"none", "open", "closed"}
Post == [win : Windows \cup {0}, amt : Amounts, ref : Refs, by : Makers, voids : Posts \cup {0}]
NoPost == [win |-> 0, amt |-> 1, ref |-> NoRef, by |-> "desk", voids |-> 0]
OperaState == [win : [Windows -> WindowState], post : [Posts -> Post]]

(* tag: the outlet or the payment a row belongs to, which only we know.    *)
Row == [win : Windows \cup {0}, tag : Makers \cup {"none"}, voided : Posts \cup {0}]
NoRow == [win |-> 0, tag |-> "none", voided |-> 0]
LocalState == [win : [Windows -> WindowState], bal : [Windows -> Int], row : [Posts -> Row]]

Ops == {"open", "post", "pay", "charge", "void", "transfer", "checkOut"}
Stages == {"idle", "core", "mirror", "close"}
(* What an answer says of the windows it names ("none" for the others),     *)
(* where their postings are, and how many postings there were.             *)
Answer == [win : [Windows -> WindowState], at : [Posts -> Windows \cup {0}], last : Nat]
Requests == [at : Stages, op : Ops, win : Windows \cup {0}, post : Posts \cup {0},
             amt : Amounts, ref : Refs, by : Makers, ans : Answer, todo : SUBSET Windows]

FirstWindow == [w \in Windows |-> IF w = 1 THEN "open" ELSE "none"]
Start == [win |-> FirstWindow, post |-> [p \in Posts |-> NoPost]]
NoAnswer == [win |-> [w \in Windows |-> "none"], at |-> [p \in Posts |-> 0], last |-> 0]
Idle == [at |-> "idle", op |-> "open", win |-> 0, post |-> 0, amt |-> 1, ref |-> NoRef,
         by |-> "desk", ans |-> NoAnswer, todo |-> {}]

Init ==
  /\ opera = Start
  /\ local = [win |-> FirstWindow, bal |-> [w \in Windows |-> 0],
              row |-> [p \in Posts |-> NoRow]]
  /\ stay = "IN_HOUSE"
  /\ calm = TRUE
  /\ troubles = 0
  /\ req = [c \in Clerks |-> Idle]

At(c, stage) == req[c].at = stage
Ends(c) == req' = [req EXCEPT ![c] = Idle]
Fails(kind) ==
  /\ kind \in Trouble /\ troubles < MaxTrouble
  /\ troubles' = troubles + 1
  /\ calm' = FALSE
Quiet == \A c \in Clerks : At(c, "idle")
Begins(c, q) ==
  /\ At(c, "idle")
  /\ req' = [req EXCEPT ![c] = q]
  /\ calm' = (calm /\ Quiet)
  /\ UNCHANGED <<opera, local, stay, troubles>>

-----------------------------------------------------------------------------
(* OPERA.  A check number is not posted twice ("The same check number      *)
(* coming again is blocked by OPERA", recordDeposit); a closed window      *)
(* takes nothing.                                                          *)

Balance(at, w) ==
  LET On(amt) == { p \in Posts : at[p] = w /\ opera.post[p].amt = amt }
  IN Cardinality(On(1)) - Cardinality(On(-1))
Place(o) == [p \in Posts |-> o.post[p].win]
Known(o, ref) == ref.kind # "none" /\ \E p \in Posts : o.post[p].ref = ref

OperaPosts(w, new) ==
  /\ opera.win[w] = "open"
  /\ ~ Known(opera, new.ref)
  /\ \E p \in Posts :
       /\ \A q \in Posts : opera.post[q].win # 0 <=> q < p
       /\ opera' = [opera EXCEPT !.post[p] = [new EXCEPT !.win = w]]
OperaOpens(w) ==
  /\ opera.win[w] = "none"
  /\ opera' = [opera EXCEPT !.win[w] = "open"]
(* The reversal goes where the original is.                                *)
OperaVoids(p, new) ==
  /\ opera.post[p].win # 0
  /\ OperaPosts(opera.post[p].win, [new EXCEPT !.amt = Opposite[opera.post[p].amt], !.voids = p])
OperaMoves(p, w) ==
  /\ opera.post[p].win \in Windows \ {w}
  /\ opera.win[opera.post[p].win] = "open" /\ opera.win[w] = "open"
  /\ opera' = [opera EXCEPT !.post[p].win = w]
OperaCloses(w) ==
  /\ opera.win[w] = "open"
  /\ opera' = [opera EXCEPT !.win[w] = "closed"]

-----------------------------------------------------------------------------
(* mirrorFolios: the windows of an answer are copied, postings follow to   *)
(* where the answer has them, and what it does not name is deleted from    *)
(* these windows.  Tags survive on rows that do.                           *)

Named(a, w) == a.win[w] # "none"
Kept(a) == { p \in Posts : a.at[p] # 0 }
Gone(l, a) == { p \in Posts \ Kept(a) : l.row[p].win # 0 /\ Named(a, l.row[p].win) }
BalanceIn(a, w) == Balance(a.at, w)

(* A void is linked when both rows are here, and unlinked with the row.    *)
Reversal(l, a, p) ==
  { q \in Posts : q <= a.last /\ opera.post[q].voids = p
                    /\ (q \in Kept(a) \/ l.row[q].win # 0) }
VoidLink(l, a, p) ==
  LET links == IF p \in Kept(a) THEN Reversal(l, a, p) ELSE {}
      link == IF links = {} THEN l.row[p].voided ELSE CHOOSE q \in links : TRUE
  IN IF link \in Gone(l, a) THEN 0 ELSE link
MirroredRow(l, a, p) ==
  IF p \in Gone(l, a) THEN NoRow
  ELSE [l.row[p] EXCEPT !.win = IF p \in Kept(a) THEN a.at[p] ELSE @,
                        !.voided = VoidLink(l, a, p)]
MirroredWindows(l, a) == [w \in Windows |-> IF Named(a, w) THEN a.win[w] ELSE l.win[w]]
MirroredBalances(l, a) == [w \in Windows |-> IF Named(a, w) THEN BalanceIn(a, w) ELSE l.bal[w]]
Mirrored_KeepsPlace(l, a) ==
  [win |-> MirroredWindows(l, a), bal |-> MirroredBalances(l, a),
   row |-> [p \in Posts |-> IF l.row[p].win = 0 THEN MirroredRow(l, a, p) ELSE l.row[p]]]
Mirrored(l, a) ==
  [win |-> MirroredWindows(l, a), bal |-> MirroredBalances(l, a),
   row |-> [p \in Posts |-> MirroredRow(l, a, p)]]

-----------------------------------------------------------------------------
(* Requests.  One that reads nothing of ours before the call is at "mirror" *)
(* at once; a transfer, a payment, a charge and a void decide by what they *)
(* read, and wait for OPERA at "core".                                     *)

Request(op, w, p, amt, ref, by) ==
  [Idle EXCEPT !.at = "core", !.op = op, !.win = w, !.post = p, !.amt = amt, !.ref = ref,
               !.by = by]
Posting(q) == [NoPost EXCEPT !.amt = q.amt, !.ref = q.ref, !.by = q.by]
Does(q) ==
  \/ q.op = "open" /\ OperaOpens(q.win)
  \/ q.op \in {"post", "pay", "charge"} /\ OperaPosts(q.win, Posting(q))
  \/ q.op = "void" /\ OperaVoids(q.post, Posting(q))
  \/ q.op = "transfer" /\ OperaMoves(q.post, q.win)

(* OPERA answers with the windows it changed.                              *)
Touched(q) ==
  IF q.op = "transfer" THEN {opera.post[q.post].win, q.win}
  ELSE IF q.op = "void" THEN {opera.post[q.post].win} ELSE {q.win}
AnswerOn(ws, o) ==
  [win |-> [w \in Windows |-> IF w \in ws THEN o.win[w] ELSE "none"],
   at |-> [p \in Posts |-> IF o.post[p].win \in ws THEN o.post[p].win ELSE 0],
   last |-> Cardinality({ p \in Posts : o.post[p].win # 0 })]
Answered(q) == [q EXCEPT !.at = "mirror", !.post = 0, !.amt = 1, !.ans = AnswerOn(Touched(q), opera')]
Calls(c, q) ==
  /\ At(c, "idle")
  /\ Does(q)
  /\ req' = [req EXCEPT ![c] = Answered(q)]
  /\ calm' = (calm /\ Quiet)
  /\ UNCHANGED <<local, stay, troubles>>

StartOpen(c, w) == Calls(c, Request("open", w, 0, 1, NoRef, "desk"))
(* A charge, a tax, an adjustment up or down, or money either way.         *)
StartPosting(c, w, amt) == Calls(c, Request("post", w, 0, amt, NoRef, "desk"))
(* A deposit is money, and lands on the first window.                      *)
StartDeposit(c) == StartPosting(c, 1, -1)
(* A payment is taken on a window that is open in our copy when it begins. *)
StartPay(c, w, k) ==
  /\ local.win[w] = "open"
  /\ Begins(c, Request("pay", w, 0, -1, Ref(k, "pay"), "payment"))

(* Postings created by a payment are not moved.                            *)
MayMove_Any(p) == local.row[p].win # 0
MayMove(p) == local.row[p].win # 0 /\ local.row[p].tag # "payment"
StartTransfer(c, p, w) ==
  /\ MayMove(p)
  /\ Begins(c, Request("transfer", w, p, 1, NoRef, "desk"))

-----------------------------------------------------------------------------
(* The answer, and its copy.                                               *)

CoreAnswers(c) ==
  /\ At(c, "core")
  /\ Does(req[c])
  /\ req' = [req EXCEPT ![c] = Answered(@)]
  /\ UNCHANGED <<local, stay, calm, troubles>>
CoreRefuses(c) ==
  /\ At(c, "core")
  /\ Ends(c)
  /\ UNCHANGED <<opera, local, stay, calm, troubles>>

(* The row a request looks for in the window it asked for, to tag it.      *)
Own(q, l) == { p \in Posts : l.row[p].win = q.win /\ opera.post[p].ref = q.ref }
Tagged_ByWindow(l, q) ==
  [l EXCEPT !.row = [p \in Posts |->
     IF l.row[p].win = q.win /\ l.row[p].tag = "none" THEN [l.row[p] EXCEPT !.tag = q.by]
     ELSE l.row[p]]]
Tagged(l, q) ==
  [l EXCEPT !.row = [p \in Posts |->
     IF p \in Own(q, l) THEN [l.row[p] EXCEPT !.tag = q.by] ELSE l.row[p]]]
Copied(l, q) ==
  IF q.op \in {"pay", "charge", "void"} THEN Tagged(Mirrored(l, q.ans), q)
  ELSE Mirrored(l, q.ans)
(* A charge is copied only with its row, and one outlet has a check number *)
(* once (unique index); otherwise the copy is rolled back.                 *)
Clash(l, q) ==
  \E p \in Posts \ Own(q, l) :
    l.row[p].win # 0 /\ l.row[p].tag = q.by /\ opera.post[p].ref = q.ref
RolledBack(l, q) == q.op = "charge" /\ (Own(q, l) = {} \/ Clash(l, q))
WriteMirror(c) ==
  /\ At(c, "mirror")
  /\ local' = IF RolledBack(Mirrored(local, req[c].ans), req[c]) THEN local
              ELSE Copied(local, req[c])
  /\ Ends(c)
  /\ UNCHANGED <<opera, stay, calm, troubles>>

-----------------------------------------------------------------------------
(* Check-out: an outstanding balance blocks it, then each window that was  *)
(* open is closed in OPERA, and all that are open in our copy.             *)

OpenLocally == { w \in Windows : local.win[w] = "open" }
Sum(f, S) ==
  LET sum[n \in 0..MaxWin] ==
        IF n = 0 THEN 0 ELSE sum[n - 1] + (IF n \in S THEN f[n] ELSE 0)
  IN sum[MaxWin]
Settled_First == local.bal[1] = 0
Settled == Sum(local.bal, OpenLocally) = 0
StartCheckOut(c) ==
  /\ stay = "IN_HOUSE"
  /\ Settled
  /\ Begins(c, [Idle EXCEPT !.at = "close", !.op = "checkOut", !.todo = OpenLocally])

NextWindow(c, w) == req' = [req EXCEPT ![c].todo = @ \ {w}]
CloseWindow(c) ==
  /\ At(c, "close")
  /\ \E w \in req[c].todo : OperaCloses(w) /\ NextWindow(c, w)
  /\ UNCHANGED <<local, stay, calm, troubles>>
(* A close that fails is logged, and the check-out goes on.                *)
CloseFails(c) ==
  /\ At(c, "close")
  /\ \E w \in req[c].todo :
       /\ \/ Fails("close")
          \/ opera.win[w] # "open" /\ UNCHANGED <<troubles, calm>>
       /\ NextWindow(c, w)
  /\ UNCHANGED <<opera, local, stay>>
FinishCheckOut(c) ==
  /\ At(c, "close") /\ req[c].todo = {}
  /\ local' = [local EXCEPT !.win = [w \in Windows |-> IF @[w] = "open" THEN "closed" ELSE @[w]]]
  /\ stay' = "CHECKED_OUT"
  /\ Ends(c)
  /\ UNCHANGED <<opera, calm, troubles>>

(* The answer of OPERA is lost, our transaction fails, or the process dies. *)
Dies(c) ==
  /\ Fails("dies")
  /\ At(c, "mirror") \/ At(c, "close")
  /\ Ends(c)
  /\ UNCHANGED <<opera, local, stay>>

DeskStarts(c) ==
  \/ \E w \in Windows :
       \/ StartOpen(c, w)
       \/ \E amt \in Amounts : StartPosting(c, w, amt)
       \/ \E k \in Checks : StartPay(c, w, k)
       \/ \E p \in Posts : StartTransfer(c, p, w)
  \/ StartDeposit(c)
  \/ StartCheckOut(c)
Resumes(c) ==
  \/ CoreAnswers(c) \/ CoreRefuses(c) \/ WriteMirror(c)
  \/ CloseWindow(c) \/ FinishCheckOut(c)
Troubled(c) == CloseFails(c) \/ Dies(c)

=============================================================================
