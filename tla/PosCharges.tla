------------------------------ MODULE PosCharges ------------------------------
(***************************************************************************)
(* Room charges of POS outlets (src/pos/pos.service.ts) on the windows of  *)
(* FolioDesk.  An outlet resends a check whose answer it missed; OPERA     *)
(* knows the check number and not the outlet.                              *)
(***************************************************************************)
EXTENDS FolioDesk

(* The rows an outlet's check is found by, wherever they are now.          *)
Found(o, k) ==
  { p \in Posts : local.row[p].win # 0 /\ local.row[p].tag = o
                    /\ opera.post[p].ref = Ref(k, "charge") }

(* A check already on record is answered with it, and nothing happens.     *)
(* The window is the terminal's, that of a routing, or the first: any.     *)
ChargeRef_Unsent(k) == Ref(k, "none")
ChargeRef(k) == Ref(k, "charge")
StartCharge(c, o, k, w) ==
  /\ Found(o, k) = {}
  /\ stay = "IN_HOUSE"
  /\ Begins(c, Request("charge", w, 0, 1, ChargeRef(k), o))

(* The request remembers the window the original is on in our copy.        *)
StartVoid(c, o, k) ==
  \E p \in Found(o, k) :
    /\ local.row[p].voided = 0
    /\ local.win[local.row[p].win] # "closed"
    /\ Begins(c, Request("void", local.row[p].win, p, 1, Ref(k, "void"), o))

PosStarts(c) ==
  \E o \in Outlets, k \in Checks :
    \/ \E w \in Windows : StartCharge(c, o, k, w)
    \/ StartVoid(c, o, k)

Next ==
  \E c \in Clerks : DeskStarts(c) \/ PosStarts(c) \/ Resumes(c) \/ Troubled(c)

Spec == Init /\ [][Next]_vars

-----------------------------------------------------------------------------
(* Every variable keeps the values the code gives it.                      *)
TypeOK ==
  /\ opera \in OperaState
  /\ local \in LocalState
  /\ stay \in {"IN_HOUSE", "CHECKED_OUT"}
  /\ calm \in BOOLEAN
  /\ troubles \in 0..MaxTrouble
  /\ req \in [Clerks -> Requests]

(* A reversal and the charge it reverses.                                  *)
IsCharge(p, o, k) ==
  opera.post[p].by = o /\ opera.post[p].voids = 0 /\ opera.post[p].ref = Ref(k, "charge")
Reverses(q, p) ==
  \E o \in Outlets, k \in Checks :
    IsCharge(p, o, k) /\ opera.post[q].by = o /\ opera.post[q].ref = Ref(k, "void")
MayReverse(r) ==
  \E o \in Outlets, k \in Checks :
    r.post \in Posts /\ IsCharge(r.post, o, k) /\ r.by = o /\ r.ref = Ref(k, "void")

(* A row stands for a posting OPERA has, and the outlet or payment it      *)
(* names made it (mirrorFolios, and the tag postCharge and the payments    *)
(* write after it).                                                        *)
RowsAreReal ==
  \A p \in Posts : local.row[p] # NoRow =>
    /\ local.row[p].win # 0 /\ opera.post[p].win # 0
    /\ local.row[p].tag \in {"none", opera.post[p].by}

(* A row we say is voided is reversed in OPERA, by the posting we name.    *)
VoidedIsReversed ==
  \A p \in Posts : local.row[p].voided # 0 => opera.post[local.row[p].voided].voids = p

(* A check number is on the bill once, a charge carries its own and its    *)
(* reversal that of the charge, so a charge is made and reversed once      *)
(* however often an outlet sends it.                                       *)
PostsAreOnce ==
  \A p \in Posts :
    /\ opera.post[p].win = 0 => opera.post[p] = NoPost
    /\ opera.post[p].ref.kind # "none" =>
         \A q \in Posts : opera.post[q].ref = opera.post[p].ref => q = p
    /\ opera.post[p].by \in Outlets /\ opera.post[p].voids = 0 =>
         opera.post[p].ref.kind = "charge"
    /\ opera.post[p].voids # 0 => Reverses(p, opera.post[p].voids)

(* What a request may still count on when it is resumed: nothing it was    *)
(* answered is gone, its check number is on the posting it made, and the   *)
(* charge it reverses is one.                                              *)
InFlightInv ==
  \A c \in Clerks :
    /\ \A p \in Posts : req[c].ans.at[p] # 0 => opera.post[p].win # 0
    /\ At(c, "core") \/ At(c, "mirror") => req[c].win \in Windows
    /\ At(c, "core") => req[c].op \in {"transfer", "pay", "charge", "void"}
    /\ At(c, "core") /\ req[c].op = "transfer" => req[c].post \in Posts
    /\ At(c, "core") /\ req[c].op = "charge" =>
         req[c].by \in Outlets /\ req[c].ref.kind = "charge"
    /\ At(c, "core") /\ req[c].op = "pay" =>
         req[c].by = "payment" /\ req[c].ref.kind = "pay"
    /\ At(c, "core") /\ req[c].op = "void" => MayReverse(req[c])
    /\ At(c, "mirror") /\ req[c].op \in {"pay", "charge", "void"} =>
         /\ req[c].ref.kind # "none"
         /\ \E p \in Posts : /\ opera.post[p].win # 0
                            /\ opera.post[p].ref = req[c].ref /\ opera.post[p].by = req[c].by

FolioInv == TypeOK /\ RowsAreReal /\ VoidedIsReversed /\ PostsAreOnce /\ InFlightInv

(* An outlet's check as OPERA has it.                                      *)
Charges(k) == { p \in Posts : opera.post[p].win # 0 /\ opera.post[p].by = k[1]
                  /\ opera.post[p].voids = 0 /\ opera.post[p].ref.check = k[2] }
Reversals(k) == { q \in Posts : opera.post[q].voids \in Charges(k) }
Once(S) == \A x, y \in S : x = y
CheckState(k) ==
  IF ~ Once(Charges(k)) \/ ~ Once(Reversals(k)) THEN "twice"
  ELSE IF Reversals(k) # {} THEN "reversed"
  ELSE IF Charges(k) # {} THEN "charged" ELSE "none"
Promise == INSTANCE PosCheck WITH check <- [k \in Outlets \X Checks |-> CheckState(k)]

(* One check of one outlet is charged once, and reversed once and after it,*)
(* however often it is sent ("One check from one outlet posts once").      *)
ImplementsPosCheck == Promise!Spec

(* While requests do not overlap and nothing fails, our copy is OPERA's    *)
(* folio after each: windows, balances, where postings are and what was    *)
(* voided ("the local ledger follows OPERA", mirrorFolios); and a charge   *)
(* is found by its check number, so that a resend is recognised and the    *)
(* charge can be voided.                                                   *)
CopyFollowsOpera ==
  calm /\ Quiet =>
    /\ local.win = opera.win
    /\ \A w \in Windows : local.bal[w] = Balance(Place(opera), w)
    /\ \A p \in Posts :
         /\ local.row[p].win = opera.post[p].win
         /\ \A q \in Posts : opera.post[q].voids = p <=> local.row[p].voided = q
         /\ opera.post[p].win # 0 /\ opera.post[p].by \in Outlets =>
              local.row[p].tag = opera.post[p].by

(* While requests do not overlap and nothing fails, what a payment posted  *)
(* stays on its window ("moving only the posting leaves the payment here   *)
(* and its trace there", transferPosting).                                 *)
PaymentStaysPut ==
  [][calm' => \A p \in Posts : opera.post[p].win # 0 /\ opera.post[p].by = "payment" =>
       opera'.post[p].win = opera.post[p].win]_vars

(* While requests do not overlap and nothing fails, a guest who is checked *)
(* out owes nothing ("An outstanding balance blocks it", checkOut).        *)
DepartsSettled ==
  [][calm' /\ stay' # stay => Sum([w \in Windows |-> Balance(Place(opera), w)], Windows) = 0]_vars

(* No window is closed in our copy while it owes or is owed ("closing a    *)
(* folio that still owes money leads straight to missing revenue").        *)
ClosedIsSettled == \A w \in Windows : local.win[w] = "closed" => local.bal[w] = 0

=============================================================================
