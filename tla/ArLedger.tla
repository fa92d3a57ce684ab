------------------------------- MODULE ArLedger -------------------------------
(***************************************************************************)
(* The city ledger (src/ar/ar.service.ts): a company's account takes over  *)
(* the balance of folio windows, is invoiced for it and pays.              *)
(*                                                                         *)
(* Each request reads first and writes in one transaction later; between   *)
(* the two it may have waited for OPERA, and requests of several clerks    *)
(* interleave there.  req[c] holds what the request of clerk c has read.   *)
(*                                                                         *)
(* One account is modelled, and one reservation's windows.  An invoice is  *)
(* named by its number, unique over the hotel (prisma/schema.prisma).  The *)
(* allocations of an invoice are only ever summed, so only their sum is    *)
(* kept, and so is the sum of the payments.  Amounts are whole; texts,     *)
(* dates and the aging report are left out.                                *)
(***************************************************************************)
EXTENDS Integers, FiniteSetsExt

CONSTANTS
  Clerks,           \* clients with at most one request in flight each
  Windows,          \* folio windows whose balance may be transferred
  Balances,         \* balances guests bring a window to
  GuestsGoOn,       \* they go on after its transfer (bounds FolioMoves)
  Charges,          \* rows of the ledger for CHARGE transactions
  Numbers,          \* sequence numbers of invoices (bounds createInvoice)
  MaxTotal,         \* bound on the total of an invoice
  MaxPaid,          \* bound on what the account pays
  Limits,           \* credit limits an account may be given
  Actives,          \* whether an account may be given as active, or suspended
  Base, Padded,     \* numbers are written in Base; up to Padded, in one width
  Settable,         \* statuses invoices are set to
  CoreAnswersKnown, \* a check number OPERA knows is answered, not refused
  Trouble,          \* the failures of the environment that may happen
  NoLimit, NoWindow

InvoiceStatuses == {"DRAFT", "SENT", "PAID", "VOID"}

ASSUME ArAssumption ==
  /\ Balances \subseteq Int
  /\ Numbers \subseteq Nat \ {0}
  /\ IsFiniteSet(Charges) /\ IsFiniteSet(Numbers)
  /\ MaxTotal \in Nat /\ MaxPaid \in Nat
  /\ Limits \subseteq Nat /\ Actives \subseteq BOOLEAN
  /\ Base \in Nat \ {0} /\ Padded \in Nat
  /\ Settable \subseteq InvoiceStatuses
  /\ CoreAnswersKnown \in BOOLEAN /\ GuestsGoOn \in BOOLEAN
  /\ Trouble \subseteq {"core", "dies"}
  /\ NoLimit \notin Nat
  /\ NoWindow \notin Windows

VARIABLES
  opera,    \* the folio windows in OPERA
  local,    \* our copy of them
  account,  \* credit limit and suspension
  charges,  \* CHARGE transactions; one with amount 0 does not exist
  invoices, \* invoices by number
  paid,     \* sum of the PAYMENT transactions
  req       \* the request each clerk has in flight

vars == <<opera, local, account, charges, invoices, paid, req>>

(* transferred: the amount of the posting AR-<folio id>, 0 if there is none. *)
Folio == [open : BOOLEAN, balance : Int, transferred : Nat]
NewFolio == [open |-> TRUE, balance |-> 0, transferred |-> 0]

NoInvoice == 0
ChargeRows == [amount : Nat, window : Windows \cup {NoWindow},
               invoice : Numbers \cup {NoInvoice}]
NoCharge == [amount |-> 0, window |-> NoWindow, invoice |-> NoInvoice]

InvoiceRows == [st : InvoiceStatuses \cup {"NONE"}, total : 0..MaxTotal, received : Nat]
NoInvoiceRow == [st |-> "NONE", total |-> 0, received |-> 0]

Stages == {"idle", "post", "charge", "apply", "number", "issue", "status"}
Requests == [at : Stages, window : Windows \cup {NoWindow}, amount : Nat,
             bills : SUBSET Charges, total : 0..MaxTotal, number : Nat,
             plan : [Numbers -> Nat], settles : SUBSET Numbers,
             to : InvoiceStatuses, answer : Folio]
NoPlan == [n \in Numbers |-> 0]
Idle == [at |-> "idle", window |-> NoWindow, amount |-> 0, bills |-> {}, total |-> 0,
         number |-> 0, plan |-> NoPlan, settles |-> {}, to |-> "DRAFT", answer |-> NewFolio]

Init ==
  /\ opera = [w \in Windows |-> NewFolio]
  /\ local = opera
  /\ account \in [limit : Limits \cup {NoLimit}, active : {TRUE}]
  /\ charges = [a \in Charges |-> NoCharge]
  /\ invoices = [n \in Numbers |-> NoInvoiceRow]
  /\ paid = 0
  /\ req = [c \in Clerks |-> Idle]

At(c, stage) == req[c].at = stage
Answer(c) == req' = [req EXCEPT ![c] = Idle]
Begin(c, r) == At(c, "idle") /\ req' = [req EXCEPT ![c] = r]

AmountOf(S) == MapThenSumSet(LAMBDA a : charges[a].amount, S)

-----------------------------------------------------------------------------
(* transferFolio: a payment on the OPERA folio, then the charge.           *)

(* The balance is never stored: it is summed again every time.             *)
Balance == AmountOf(Charges) - paid
WithinLimit_Before(amount) == account.limit # NoLimit => Balance <= account.limit
WithinLimit(amount) == account.limit # NoLimit => Balance + amount <= account.limit

StartTransfer(c, w) ==
  LET amount == local[w].balance IN
  /\ account.active
  /\ local[w].open
  /\ amount > 0
  /\ WithinLimit(amount)
  /\ Begin(c, [Idle EXCEPT !.at = "post", !.window = w, !.amount = amount])
  /\ UNCHANGED <<opera, local, account, charges, invoices, paid>>

(* Not in src/: OPERA takes one posting per check number on an open window.*)
OperaAccepts(w) == opera[w].open /\ opera[w].transferred = 0
OperaPosts(w, amount) ==
  opera' = [opera EXCEPT ![w] = [open |-> TRUE, balance |-> opera[w].balance - amount,
                                 transferred |-> amount]]
Received(c) ==
  req' = [req EXCEPT ![c] = [@ EXCEPT !.at = "charge", !.answer = opera'[req[c].window]]]

CorePosts(c) ==
  LET r == req[c] IN
  /\ At(c, "post")
  /\ OperaAccepts(r.window)
  /\ OperaPosts(r.window, r.amount)
  /\ Received(c)
  /\ UNCHANGED <<local, account, charges, invoices, paid>>

CoreKnows(c) ==
  LET r == req[c] IN
  /\ CoreAnswersKnown
  /\ At(c, "post")
  /\ opera[r.window].open /\ opera[r.window].transferred # 0
  /\ UNCHANGED opera
  /\ Received(c)
  /\ UNCHANGED <<local, account, charges, invoices, paid>>

CoreRefuses_Swallowed(c) ==
  LET r == req[c] IN
  /\ At(c, "post")
  /\ ~ OperaAccepts(r.window)
  /\ req' = [req EXCEPT ![c] = [@ EXCEPT !.at = "charge", !.answer = local[r.window]]]
  /\ UNCHANGED <<opera, local, account, charges, invoices, paid>>
CoreRefuses(c) ==
  /\ At(c, "post")
  /\ ~ OperaAccepts(req[c].window)
  /\ Answer(c)
  /\ UNCHANGED <<opera, local, account, charges, invoices, paid>>

(* Core times out or is down: OPERA may have posted.                       *)
CoreSilent(c) ==
  LET r == req[c] IN
  /\ "core" \in Trouble
  /\ At(c, "post")
  /\ \/ UNCHANGED opera
     \/ OperaAccepts(r.window) /\ OperaPosts(r.window, r.amount)
  /\ Answer(c)
  /\ UNCHANGED <<local, account, charges, invoices, paid>>

(* The copy of the window and the charge are one transaction.              *)
AddCharge(r) ==
  \E a \in Charges :
    /\ charges[a].amount = 0
    /\ charges' = [charges EXCEPT ![a] =
         [amount |-> r.amount, window |-> r.window, invoice |-> NoInvoice]]
WriteCharge(c) ==
  LET r == req[c] IN
  /\ At(c, "charge")
  /\ local' = [local EXCEPT ![r.window] = r.answer]
  /\ AddCharge(r)
  /\ Answer(c)
  /\ UNCHANGED <<opera, account, invoices, paid>>

-----------------------------------------------------------------------------
(* recordPayment: what is owed is read, the plan made, then written.       *)

Open(n) == invoices[n].st \in {"DRAFT", "SENT"} /\ invoices[n].received < invoices[n].total
Outstanding(n) == invoices[n].total - invoices[n].received

(* A plan by hand puts on open invoices no more than each still owes.  The  *)
(* automatic plan, which fills them in the order they fall due, is one of   *)
(* these plans.                                                             *)
PlanAllowed(plan, amount) ==
  /\ \A n \in Numbers : plan[n] > 0 => Open(n) /\ plan[n] <= Outstanding(n)
  /\ SumFunction(plan) <= amount
Settles_Any(plan) == { n \in Numbers : plan[n] > 0 }
Settles(plan) == { n \in Numbers : plan[n] > 0 /\ Outstanding(n) - plan[n] <= 0 }

StartPayment(c, amount) ==
  /\ \E plan \in [Numbers -> 0..amount] :
       /\ PlanAllowed(plan, amount)
       /\ Begin(c, [Idle EXCEPT !.at = "apply", !.amount = amount, !.plan = plan,
                                !.settles = Settles(plan)])
  /\ UNCHANGED <<opera, local, account, charges, invoices, paid>>

(* Invoices the plan covers, as it was read, become PAID whatever they are *)
(* by now.                                                                 *)
Applied(row, amount, settled) ==
  [row EXCEPT !.received = @ + amount, !.st = IF settled THEN "PAID" ELSE @]
WritePayment(c) ==
  LET r == req[c] IN
  /\ At(c, "apply")
  /\ paid + r.amount <= MaxPaid
  /\ paid' = paid + r.amount
  /\ invoices' = [n \in Numbers |-> Applied(invoices[n], r.plan[n], n \in r.settles)]
  /\ Answer(c)
  /\ UNCHANGED <<opera, local, account, charges>>

-----------------------------------------------------------------------------
(* createInvoice: the unbilled charges are read, then the number, unless   *)
(* the clerk gave one, then the invoice is written.                        *)

Unbilled_Billed == { a \in Charges : charges[a].amount > 0 }
Unbilled == { a \in Charges : charges[a].amount > 0 /\ charges[a].invoice = NoInvoice }

StartInvoice(c, stage, number) ==
  /\ Unbilled # {}
  /\ \E total \in 1..MaxTotal :
       /\ total = AmountOf(Unbilled)
       /\ Begin(c, [Idle EXCEPT !.at = stage, !.bills = Unbilled, !.total = total,
                                !.number = number])
  /\ UNCHANGED <<opera, local, account, charges, invoices, paid>>

(* Numbers are compared as strings: one more digit compares by its leading *)
(* digits first.                                                           *)
Rank(n) == IF n <= Padded THEN n * Base ELSE n
Before(m, n) == Rank(m) < Rank(n) \/ (Rank(m) = Rank(n) /\ m < n)
Used == { n \in Numbers : invoices[n].st # "NONE" }
LastNumber == CHOOSE n \in Used : \A m \in Used \ {n} : Before(m, n)
NextNumber == IF Used = {} THEN 1 ELSE LastNumber + 1

TakeNumber(c) ==
  /\ At(c, "number")
  /\ NextNumber \in Numbers
  /\ req' = [req EXCEPT ![c] = [@ EXCEPT !.at = "issue", !.number = NextNumber]]
  /\ UNCHANGED <<opera, local, account, charges, invoices, paid>>

(* The unique number lets the first invoice in and fails the others.       *)
IssueTaken(c) ==
  /\ At(c, "issue")
  /\ invoices[req[c].number].st # "NONE"
  /\ Answer(c)
  /\ UNCHANGED <<opera, local, account, charges, invoices, paid>>
Billed(r) ==
  [a \in Charges |-> IF a \in r.bills THEN [charges[a] EXCEPT !.invoice = r.number]
                     ELSE charges[a]]
Issue(c) ==
  LET r == req[c] IN
  /\ At(c, "issue")
  /\ invoices[r.number].st = "NONE"
  /\ invoices' = [invoices EXCEPT ![r.number] =
       [st |-> "DRAFT", total |-> r.total, received |-> 0]]
  /\ charges' = Billed(r)
  /\ Answer(c)
  /\ UNCHANGED <<opera, local, account, paid>>

-----------------------------------------------------------------------------
(* updateInvoiceStatus: any status but from VOID; VOID frees the charges.  *)
MayChange(n) == invoices[n].st \notin {"NONE", "VOID"}
StartStatus(c, n, to) ==
  /\ MayChange(n)
  /\ Begin(c, [Idle EXCEPT !.at = "status", !.number = n, !.to = to])
  /\ UNCHANGED <<opera, local, account, charges, invoices, paid>>

Released_None(n, to) == charges
Released(n, to) ==
  IF to = "VOID"
  THEN [a \in Charges |-> IF charges[a].invoice = n
                          THEN [charges[a] EXCEPT !.invoice = NoInvoice] ELSE charges[a]]
  ELSE charges
WriteStatus(c) ==
  LET r == req[c] IN
  /\ At(c, "status")
  /\ invoices' = [invoices EXCEPT ![r.number].st = r.to]
  /\ charges' = Released(r.number, r.to)
  /\ Answer(c)
  /\ UNCHANGED <<opera, local, account, paid>>

-----------------------------------------------------------------------------
(* updateAccount writes what it is given over what is there.               *)
UpdateAccount(c) ==
  /\ At(c, "idle")
  /\ \/ \E limit \in Limits : account' = [account EXCEPT !.limit = limit]
     \/ \E active \in Actives : account' = [account EXCEPT !.active = active]
  /\ UNCHANGED <<opera, local, charges, invoices, paid, req>>

(* The process, or the database, fails between two steps of a request.     *)
Dies(c) ==
  /\ "dies" \in Trouble
  /\ ~ At(c, "idle")
  /\ Answer(c)
  /\ UNCHANGED <<opera, local, account, charges, invoices, paid>>

(* Guests spend and pay (in OPERA, or through the other services); our     *)
(* copy follows; check-out closes a window without a balance.              *)
FolioMoves(w) ==
  /\ opera[w].open
  /\ GuestsGoOn \/ opera[w].transferred = 0
  /\ \E b \in Balances : opera' = [opera EXCEPT ![w].balance = b]
  /\ UNCHANGED <<local, account, charges, invoices, paid, req>>
CopyWindow(w) ==
  /\ local' = [local EXCEPT ![w] = opera[w]]
  /\ UNCHANGED <<opera, account, charges, invoices, paid, req>>
CloseWindow(w) ==
  /\ opera[w].open /\ opera[w].balance = 0 /\ local[w].balance = 0
  /\ opera' = [opera EXCEPT ![w].open = FALSE]
  /\ local' = [local EXCEPT ![w].open = FALSE]
  /\ UNCHANGED <<account, charges, invoices, paid, req>>

Starts(c) ==
  \/ \E w \in Windows : StartTransfer(c, w)
  \/ \E amount \in 1..MaxPaid : StartPayment(c, amount)
  \/ StartInvoice(c, "number", 0)
  \/ \E n \in Numbers : StartInvoice(c, "issue", n)
  \/ \E n \in Numbers, to \in Settable : StartStatus(c, n, to)

Resumes(c) ==
  \/ CorePosts(c) \/ CoreKnows(c) \/ CoreRefuses(c) \/ WriteCharge(c)
  \/ WritePayment(c)
  \/ TakeNumber(c) \/ IssueTaken(c) \/ Issue(c)
  \/ WriteStatus(c)

Next ==
  \/ \E c \in Clerks : Starts(c) \/ Resumes(c) \/ CoreSilent(c) \/ Dies(c) \/ UpdateAccount(c)
  \/ \E w \in Windows : FolioMoves(w) \/ CopyWindow(w) \/ CloseWindow(w)

Spec == Init /\ [][Next]_vars

-----------------------------------------------------------------------------
(* Every variable keeps the values the code gives it.                      *)
TypeOK ==
  /\ opera \in [Windows -> Folio]
  /\ local \in [Windows -> Folio]
  /\ account \in [limit : Limits \cup {NoLimit}, active : BOOLEAN]
  /\ charges \in [Charges -> ChargeRows]
  /\ invoices \in [Numbers -> InvoiceRows]
  /\ paid \in 0..MaxPaid
  /\ req \in [Clerks -> Requests]

ChargedFor(w) == { a \in Charges : charges[a].amount > 0 /\ charges[a].window = w }
OnInvoice(n) == { a \in Charges : charges[a].amount > 0 /\ charges[a].invoice = n }

(* Where OPERA refuses a check number it knows, the account is charged for *)
(* a window at most once, for the amount OPERA took off it.                *)
WindowBilledOnce ==
  \A w \in Windows :
    /\ \A a, b \in ChargedFor(w) : a = b
    /\ \A a \in ChargedFor(w) : charges[a].amount = opera[w].transferred

(* A void invoice holds no charge: what it billed can be billed again.     *)
VoidHoldsNothing == \A n \in Used : invoices[n].st = "VOID" => OnInvoice(n) = {}

(* A payment that marks an invoice paid leaves nothing open on it, however *)
(* old the figures it was planned with.                                    *)
PaidIsCovered ==
  [][\A n \in Numbers :
       invoices'[n].st = "PAID" /\ invoices'[n].received # invoices[n].received
         /\ invoices[n].st # "PAID" =>
           invoices'[n].received >= invoices'[n].total]_vars

(* What the account paid that is on no invoice.                            *)
Unapplied == paid - MapThenSumSet(LAMBDA n : invoices[n].received, Numbers)

-----------------------------------------------------------------------------
(* Why WindowBilledOnce, VoidHoldsNothing and PaidIsCovered hold whatever  *)
(* the requests read and when: the inductive invariant.                    *)

(* What a request may still count on when it goes on.                      *)
RequestInv(c) ==
  LET r == req[c] IN
  /\ r.at \in {"post", "charge"} => r.window \in Windows /\ r.amount > 0
  /\ r.at = "apply" =>
       \A n \in r.settles : /\ invoices[n].st # "NONE"
                            /\ invoices[n].received + r.plan[n] >= invoices[n].total
  /\ r.at \in {"issue", "status"} => r.number \in Numbers

(* The window a request is about to charge is its own: OPERA took the same *)
(* amount off it, nobody has charged it and nobody else is about to.       *)
ChargeIsDue(c) ==
  LET r == req[c] IN
  r.at = "charge" =>
    /\ opera[r.window].transferred = r.amount
    /\ \A a \in Charges : charges[a].amount > 0 => charges[a].window # r.window
    /\ \A d \in Clerks : req[d].at = "charge" /\ req[d].window = r.window => d = c

OneTransfer ==
  /\ WindowBilledOnce
  /\ \A c \in Clerks : ChargeIsDue(c)
  /\ \A a \in Charges : charges[a].amount > 0 => charges[a].window \in Windows

ArInv ==
  /\ TypeOK
  /\ \A c \in Clerks : RequestInv(c)
  /\ VoidHoldsNothing
  /\ ~ CoreAnswersKnown => OneTransfer

=============================================================================
