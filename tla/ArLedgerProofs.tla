---------------------------- MODULE ArLedgerProofs ----------------------------
(***************************************************************************)
(* Proofs about ArLedger, ArStatements and ArHistory, for every number of  *)
(* clerks, windows, charges and invoices and every combination of failures.*)
(*                                                                         *)
(* The facts about sums proved here also serve the performance report: the *)
(* last part is about Reports, which shares nothing with the ledger.       *)
(***************************************************************************)
EXTENDS ArHistory, Reports, FiniteSetTheorems, WellFoundedInduction, TLAPS

(* A clerk without a request is a value of the request table.              *)
LEMMA IdleIsRequest == Idle \in Requests
BY ArAssumption DEF Idle, Requests, Stages, NoPlan, NewFolio, Folio, InvoiceStatuses

(* The invariant holds before the first request.                           *)
LEMMA InitInv == Init => ArInv
<1> SUFFICES ASSUME Init PROVE ArInv
  OBVIOUS
<1> USE ArAssumption DEF Init
<1>1. TypeOK
  <2>1. NewFolio \in Folio /\ NoCharge \in ChargeRows /\ NoInvoiceRow \in InvoiceRows
    BY DEF Folio, NewFolio, ChargeRows, NoCharge, InvoiceRows, NoInvoiceRow
  <2>2. opera \in [Windows -> Folio] /\ local \in [Windows -> Folio]
    BY <2>1
  <2>3. charges \in [Charges -> ChargeRows] /\ invoices \in [Numbers -> InvoiceRows]
    BY <2>1
  <2>4. account \in [limit : Limits \cup {NoLimit}, active : BOOLEAN]
    OBVIOUS
  <2>5. paid \in 0..MaxPaid /\ req \in [Clerks -> Requests]
    BY IdleIsRequest
  <2> QED
    BY <2>2, <2>3, <2>4, <2>5 DEF TypeOK
<1>2. \A c \in Clerks : RequestInv(c) /\ ChargeIsDue(c)
  BY DEF RequestInv, ChargeIsDue, Idle
<1>3. VoidHoldsNothing
  BY DEF VoidHoldsNothing, Used, NoInvoiceRow
<1>4. WindowBilledOnce
  BY DEF WindowBilledOnce, ChargedFor, NoCharge
<1>5. \A a \in Charges : charges[a].amount > 0 => charges[a].window \in Windows
  BY DEF NoCharge
<1> QED
  BY <1>1, <1>2, <1>3, <1>4, <1>5 DEF ArInv, OneTransfer

-----------------------------------------------------------------------------
(* One charge per window survives every step that adds no charge and makes *)
(* no request ready to: what OPERA took off a window stays taken.          *)
LEMMA NoNewCharge ==
  ASSUME TypeOK, OneTransfer,
         \A c \in Clerks : req'[c] = req[c] \/ req'[c].at # "charge",
         \A w \in Windows : \/ opera[w].transferred = 0
                            \/ opera'[w].transferred = opera[w].transferred,
         \A a \in Charges : /\ charges'[a].amount = charges[a].amount
                            /\ charges'[a].window = charges[a].window,
         \A c \in Clerks : req[c].at = "charge" =>
           req[c].window \in Windows /\ req[c].amount > 0
  PROVE  OneTransfer'
<1> USE DEF OneTransfer
<1>1. \A w \in Windows : ChargedFor(w)' = ChargedFor(w)
  BY DEF ChargedFor
<1>2. WindowBilledOnce'
  <2> SUFFICES ASSUME NEW w \in Windows
               PROVE  /\ \A a, b \in ChargedFor(w) : a = b
                      /\ \A a \in ChargedFor(w) : charges[a].amount = opera'[w].transferred
    BY <1>1 DEF WindowBilledOnce, ChargedFor
  <2>1. \A a \in ChargedFor(w) :
          charges[a].amount > 0 /\ charges[a].amount = opera[w].transferred
    BY DEF WindowBilledOnce, ChargedFor
  <2>2. \A a \in ChargedFor(w) : opera'[w].transferred = opera[w].transferred
    BY <2>1
  <2> QED
    BY <2>1, <2>2 DEF WindowBilledOnce
<1>3. ASSUME NEW c \in Clerks PROVE ChargeIsDue(c)'
  <2> SUFFICES ASSUME req'[c].at = "charge" PROVE ChargeIsDue(c)'
    BY DEF ChargeIsDue
  <2>1. req'[c] = req[c] /\ req[c].window \in Windows /\ req[c].amount > 0
    OBVIOUS
  <2>2. opera[req[c].window].transferred = req[c].amount
    BY <2>1 DEF ChargeIsDue
  <2>3. opera'[req[c].window].transferred = req[c].amount
    BY <2>1, <2>2
  <2>4. \A d \in Clerks : req'[d].at = "charge" => req'[d] = req[d]
    OBVIOUS
  <2> QED
    BY <2>1, <2>3, <2>4 DEF ChargeIsDue
<1> QED
  BY <1>2, <1>3

(* A step in which one request goes on, and OPERA and the accounts stand.  *)
LEMMA RequestStep ==
  ASSUME ArInv, NEW c \in Clerks, NEW q \in Requests,
         req' = [req EXCEPT ![c] = q],
         q.at # "charge" \/ CoreAnswersKnown,
         RequestInv(c)',
         local' \in [Windows -> Folio],
         UNCHANGED <<opera, account, charges, invoices, paid>>
  PROVE  ArInv'
<1> USE DEF ArInv
<1>1. req'[c] = q /\ \A d \in Clerks \ {c} : req'[d] = req[d]
  BY DEF TypeOK
<1>2. TypeOK'
  BY DEF TypeOK
<1>3. ASSUME NEW d \in Clerks PROVE RequestInv(d)'
  BY <1>1 DEF RequestInv
<1>4. VoidHoldsNothing'
  BY DEF VoidHoldsNothing, Used, OnInvoice
<1>5. ~ CoreAnswersKnown => OneTransfer'
  BY <1>1, NoNewCharge DEF RequestInv
<1> QED
  BY <1>2, <1>3, <1>4, <1>5

(* A request that ends without a trace.                                    *)
LEMMA AnswerStep ==
  ASSUME ArInv, NEW c \in Clerks, Answer(c),
         UNCHANGED <<opera, local, account, charges, invoices, paid>>
  PROVE  ArInv'
<1>1. req'[c] = Idle
  BY DEF Answer, ArInv, TypeOK
<1>2. RequestInv(c)' /\ Idle.at = "idle"
  BY <1>1 DEF RequestInv, Idle
<1>3. local' \in [Windows -> Folio]
  BY DEF ArInv, TypeOK
<1> QED
  BY <1>2, <1>3, RequestStep, IdleIsRequest DEF Answer

(* Every request that begins has read what it will count on.               *)
LEMMA StartsInv == ASSUME ArInv, NEW c \in Clerks, Starts(c) PROVE ArInv'
<1> USE ArAssumption
<1>0. local' \in [Windows -> Folio] /\ \A q : req' = [req EXCEPT ![c] = q] => req'[c] = q
  BY DEF ArInv, TypeOK, Starts, StartTransfer, StartPayment, StartInvoice, StartStatus
<1>1. ASSUME NEW w \in Windows, StartTransfer(c, w) PROVE ArInv'
  <2> DEFINE q == [Idle EXCEPT !.at = "post", !.window = w, !.amount = local[w].balance]
  <2>1. local[w].balance \in Nat /\ local[w].balance > 0
    BY <1>1 DEF StartTransfer, ArInv, TypeOK, Folio
  <2>2. q \in Requests
    BY <2>1, IdleIsRequest DEF Idle, Requests, Stages
  <2>3. q.at = "post" /\ q.window = w /\ q.amount = local[w].balance
    BY DEF Idle
  <2>4. req' = [req EXCEPT ![c] = q]
    BY <1>1 DEF StartTransfer, Begin
  <2> HIDE DEF q
  <2>5. RequestInv(c)'
    BY <1>0, <2>1, <2>3, <2>4 DEF RequestInv
  <2> QED
    BY <1>0, <1>1, <2>2, <2>3, <2>4, <2>5, RequestStep DEF StartTransfer
<1>2. ASSUME NEW amount \in 1..MaxPaid, StartPayment(c, amount) PROVE ArInv'
  <2>1. PICK plan \in [Numbers -> 0..amount] :
          /\ PlanAllowed(plan, amount)
          /\ Begin(c, [Idle EXCEPT !.at = "apply", !.amount = amount, !.plan = plan,
                                   !.settles = Settles(plan)])
    BY <1>2 DEF StartPayment
  <2> DEFINE q == [Idle EXCEPT !.at = "apply", !.amount = amount, !.plan = plan,
                               !.settles = Settles(plan)]
  <2>2. /\ plan \in [Numbers -> Nat] /\ Settles(plan) \in SUBSET Numbers
        /\ amount \in Nat /\ "apply" \in Stages
    BY DEF Settles, Stages
  <2>3. q \in Requests
    BY <2>2, IdleIsRequest DEF Requests
  <2>4. q.at = "apply" /\ q.plan = plan /\ q.settles = Settles(plan)
    BY DEF Idle
  <2>5. req' = [req EXCEPT ![c] = q]
    BY <2>1 DEF Begin
  <2>6. ASSUME NEW n \in Settles(plan)
        PROVE  /\ invoices[n].st # "NONE"
               /\ invoices[n].received + plan[n] >= invoices[n].total
    <3>1. n \in Numbers /\ plan[n] \in Nat /\ plan[n] > 0 /\ Outstanding(n) - plan[n] <= 0
      BY DEF Settles
    <3>2. invoices[n].received \in Nat /\ invoices[n].total \in Nat
      BY <3>1 DEF ArInv, TypeOK, InvoiceRows
    <3> QED
      BY <2>1, <3>1, <3>2 DEF PlanAllowed, Open, Outstanding
  <2> HIDE DEF q
  <2>7. RequestInv(c)'
    BY <1>0, <1>2, <2>4, <2>5, <2>6 DEF RequestInv, StartPayment
  <2> QED
    BY <1>0, <1>2, <2>3, <2>4, <2>5, <2>7, RequestStep DEF StartPayment
<1>3. ASSUME NEW stage \in {"number", "issue"}, NEW number \in Nat,
             stage = "issue" => number \in Numbers,
             StartInvoice(c, stage, number)
      PROVE  ArInv'
  <2>1. PICK total \in 1..MaxTotal :
          Begin(c, [Idle EXCEPT !.at = stage, !.bills = Unbilled, !.total = total,
                                !.number = number])
    BY <1>3 DEF StartInvoice
  <2> DEFINE q == [Idle EXCEPT !.at = stage, !.bills = Unbilled, !.total = total,
                               !.number = number]
  <2>2. total \in 0..MaxTotal /\ Unbilled \in SUBSET Charges /\ stage \in Stages
    BY DEF Unbilled, Stages
  <2>3. q \in Requests
    BY <2>2, IdleIsRequest DEF Requests
  <2>4. q.at = stage /\ q.number = number
    BY DEF Idle
  <2>5. req' = [req EXCEPT ![c] = q]
    BY <2>1 DEF Begin
  <2> HIDE DEF q
  <2>6. RequestInv(c)'
    BY <1>0, <1>3, <2>4, <2>5 DEF RequestInv
  <2> QED
    BY <1>0, <1>3, <2>3, <2>4, <2>5, <2>6, RequestStep DEF StartInvoice
<1>4. ASSUME NEW n \in Numbers, NEW to \in Settable, StartStatus(c, n, to) PROVE ArInv'
  <2> DEFINE q == [Idle EXCEPT !.at = "status", !.number = n, !.to = to]
  <2>1. q \in Requests
    BY IdleIsRequest DEF Idle, Requests, Stages
  <2>2. q.at = "status" /\ q.number = n
    BY DEF Idle
  <2>3. req' = [req EXCEPT ![c] = q]
    BY <1>4 DEF StartStatus, Begin
  <2> HIDE DEF q
  <2>4. RequestInv(c)'
    BY <1>0, <2>2, <2>3 DEF RequestInv
  <2> QED
    BY <1>0, <1>4, <2>1, <2>2, <2>3, <2>4, RequestStep DEF StartStatus
<1> QED
  BY <1>1, <1>2, <1>3, <1>4 DEF Starts

-----------------------------------------------------------------------------
(* transferFolio, from the call of OPERA on.                               *)

(* OPERA takes a posting on a window it had none on.                       *)
LEMMA PostsStep ==
  ASSUME ArInv, NEW c \in Clerks, At(c, "post"),
         OperaAccepts(req[c].window), OperaPosts(req[c].window, req[c].amount)
  PROVE  /\ req[c].window \in Windows /\ req[c].amount \in Nat /\ req[c].amount > 0
         /\ opera' \in [Windows -> Folio]
         /\ opera'[req[c].window].transferred = req[c].amount
         /\ opera[req[c].window].transferred = 0
         /\ \A w \in Windows : \/ opera[w].transferred = 0
                               \/ opera'[w].transferred = opera[w].transferred
<1>1. req[c].window \in Windows /\ req[c].amount \in Nat /\ req[c].amount > 0
  BY DEF ArInv, RequestInv, At, TypeOK, Requests
<1>2. opera \in [Windows -> Folio]
  BY DEF ArInv, TypeOK
<1> DEFINE w == req[c].window
           f == [open |-> TRUE, balance |-> opera[w].balance - req[c].amount,
                 transferred |-> req[c].amount]
<1>3. opera' = [opera EXCEPT ![w] = f]
  BY DEF OperaPosts
<1>4. f \in Folio
  BY <1>1, <1>2 DEF Folio
<1>5. opera[w].transferred = 0
  BY DEF OperaAccepts
<1>6. f.transferred = req[c].amount
  OBVIOUS
<1> HIDE DEF f
<1> QED
  BY <1>1, <1>2, <1>3, <1>4, <1>5, <1>6

(* OPERA posts and its answer is lost.                                     *)
LEMMA CoreSilentInv == ASSUME ArInv, NEW c \in Clerks, CoreSilent(c) PROVE ArInv'
<1>1. CASE UNCHANGED opera
  BY <1>1, AnswerStep DEF CoreSilent
<1>2. CASE OperaAccepts(req[c].window) /\ OperaPosts(req[c].window, req[c].amount)
  <2> USE DEF ArInv
  <2>1. /\ opera' \in [Windows -> Folio]
        /\ \A w \in Windows : \/ opera[w].transferred = 0
                              \/ opera'[w].transferred = opera[w].transferred
    BY <1>2, PostsStep DEF CoreSilent
  <2>2. /\ req' = [req EXCEPT ![c] = Idle] /\ req'[c] = Idle
        /\ \A d \in Clerks \ {c} : req'[d] = req[d]
        /\ Idle.at = "idle"
        /\ UNCHANGED <<local, account, charges, invoices, paid>>
    BY DEF CoreSilent, Answer, TypeOK, Idle
  <2>3. TypeOK'
    BY <2>1, <2>2, IdleIsRequest DEF TypeOK
  <2>4. ASSUME NEW d \in Clerks PROVE RequestInv(d)'
    BY <2>2 DEF RequestInv
  <2>5. VoidHoldsNothing'
    BY <2>2 DEF VoidHoldsNothing, Used, OnInvoice
  <2>6. ~ CoreAnswersKnown => OneTransfer'
    BY <2>1, <2>2, NoNewCharge DEF RequestInv
  <2> QED
    BY <2>3, <2>4, <2>5, <2>6
<1> QED
  BY <1>1, <1>2 DEF CoreSilent

(* OPERA posts and answers: the window is this request's to charge.        *)
LEMMA CorePostsInv == ASSUME ArInv, NEW c \in Clerks, CorePosts(c) PROVE ArInv'
<1> USE DEF ArInv
<1> DEFINE w == req[c].window
           q == [req[c] EXCEPT !.at = "charge", !.answer = opera'[w]]
<1>1. /\ w \in Windows /\ req[c].amount \in Nat /\ req[c].amount > 0
      /\ opera' \in [Windows -> Folio]
      /\ opera'[w].transferred = req[c].amount
      /\ opera[w].transferred = 0
      /\ \A v \in Windows : \/ opera[v].transferred = 0
                            \/ opera'[v].transferred = opera[v].transferred
  BY PostsStep DEF CorePosts
<1>2. q \in Requests /\ q.at = "charge" /\ q.window = w /\ q.amount = req[c].amount
  <2>1. req[c] \in Requests
    BY DEF TypeOK
  <2>2. opera'[w] \in Folio
    BY <1>1
  <2> QED
    BY <2>1, <2>2 DEF Requests, Stages
<1>3. /\ req' = [req EXCEPT ![c] = q] /\ req'[c] = q
      /\ \A d \in Clerks \ {c} : req'[d] = req[d]
      /\ UNCHANGED <<local, account, charges, invoices, paid>>
  BY DEF CorePosts, Received, TypeOK
<1> HIDE DEF q
<1>4. TypeOK'
  BY <1>1, <1>2, <1>3 DEF TypeOK
<1>5. ASSUME NEW d \in Clerks PROVE RequestInv(d)'
  BY <1>1, <1>2, <1>3 DEF RequestInv
<1>6. VoidHoldsNothing'
  BY <1>3 DEF VoidHoldsNothing, Used, OnInvoice
<1>7. ASSUME ~ CoreAnswersKnown PROVE OneTransfer'
  <2> USE <1>7 DEF OneTransfer
  <2>1. \A a \in Charges : charges[a].amount > 0 => charges[a].window # w
    <3> SUFFICES ASSUME NEW a \in Charges, charges[a].amount > 0, charges[a].window = w
                 PROVE  FALSE
      OBVIOUS
    <3>1. charges[a].amount = opera[w].transferred
      BY <1>1 DEF WindowBilledOnce, ChargedFor
    <3> QED
      BY <1>1, <3>1
  <2>2. \A d \in Clerks : req[d].at = "charge" => req[d].window # w
    BY <1>1 DEF ChargeIsDue, RequestInv
  <2>3. WindowBilledOnce'
    <3> SUFFICES ASSUME NEW v \in Windows
                 PROVE  /\ \A a, b \in ChargedFor(v) : a = b
                        /\ \A a \in ChargedFor(v) : charges[a].amount = opera'[v].transferred
      BY <1>3 DEF WindowBilledOnce, ChargedFor
    <3>1. v = w => ChargedFor(v) = {}
      BY <2>1 DEF ChargedFor
    <3>2. v # w => opera'[v] = opera[v]
      BY DEF CorePosts, OperaPosts, TypeOK
    <3> QED
      BY <3>1, <3>2 DEF WindowBilledOnce
  <2>4. ASSUME NEW d \in Clerks PROVE ChargeIsDue(d)'
    <3>1. CASE d = c
      BY <1>1, <1>2, <1>3, <2>1, <2>2, <3>1 DEF ChargeIsDue
    <3>2. CASE d # c
      <4> SUFFICES ASSUME req[d].at = "charge" PROVE ChargeIsDue(d)'
        BY <1>3, <3>2 DEF ChargeIsDue
      <4>1. req'[d] = req[d] /\ req[d].window \in Windows /\ req[d].window # w
        BY <1>3, <2>2, <3>2 DEF RequestInv
      <4>2. opera'[req[d].window] = opera[req[d].window]
        BY <4>1 DEF CorePosts, OperaPosts, TypeOK
      <4> QED
        BY <1>2, <1>3, <4>1, <4>2 DEF ChargeIsDue
    <3> QED
      BY <3>1, <3>2
  <2> QED
    BY <1>3, <2>3, <2>4
<1> QED
  BY <1>4, <1>5, <1>6, <1>7

(* OPERA answers a check number it knows; a charge may follow.             *)
LEMMA CoreKnowsInv == ASSUME ArInv, NEW c \in Clerks, CoreKnows(c) PROVE ArInv'
<1> DEFINE w == req[c].window
           q == [req[c] EXCEPT !.at = "charge", !.answer = opera'[w]]
<1>1. w \in Windows /\ req[c].amount > 0 /\ opera'[w] \in Folio /\ req[c] \in Requests
  BY DEF CoreKnows, At, ArInv, RequestInv, TypeOK
<1>2. q \in Requests /\ q.at = "charge" /\ q.window = w /\ q.amount = req[c].amount
  BY <1>1 DEF Requests, Stages
<1>3. req' = [req EXCEPT ![c] = q] /\ req'[c] = q
  BY DEF CoreKnows, Received, ArInv, TypeOK
<1> HIDE DEF q
<1>4. RequestInv(c)'
  BY <1>1, <1>2, <1>3 DEF RequestInv
<1>5. local' \in [Windows -> Folio]
  BY DEF CoreKnows, ArInv, TypeOK
<1> QED
  BY <1>2, <1>3, <1>4, <1>5, RequestStep DEF CoreKnows

(* The request that writes a charge is the only one that may.              *)
LEMMA WriteChargeInv == ASSUME ArInv, NEW c \in Clerks, WriteCharge(c) PROVE ArInv'
<1> USE DEF ArInv
<1> DEFINE r == req[c]
           row == [amount |-> r.amount, window |-> r.window, invoice |-> NoInvoice]
<1>1. r \in Requests /\ r.window \in Windows /\ r.amount > 0 /\ r.at = "charge"
  BY DEF WriteCharge, At, RequestInv, TypeOK
<1>2. PICK a \in Charges : charges[a].amount = 0 /\ charges' = [charges EXCEPT ![a] = row]
  BY DEF WriteCharge, AddCharge
<1>3. row \in ChargeRows /\ row.amount = r.amount /\ row.window = r.window
  BY <1>1 DEF ChargeRows, Requests
<1>4. charges'[a] = row /\ \A b \in Charges \ {a} : charges'[b] = charges[b]
  BY <1>2 DEF TypeOK
<1>5. /\ req' = [req EXCEPT ![c] = Idle] /\ req'[c] = Idle
      /\ \A d \in Clerks \ {c} : req'[d] = req[d]
      /\ Idle.at = "idle"
      /\ UNCHANGED <<opera, account, invoices, paid>>
  BY DEF WriteCharge, Answer, TypeOK, Idle
<1>6. local' \in [Windows -> Folio]
  BY <1>1 DEF WriteCharge, TypeOK, Requests
<1>7. TypeOK'
  BY <1>2, <1>3, <1>5, <1>6, IdleIsRequest DEF TypeOK
<1>8. ASSUME NEW d \in Clerks PROVE RequestInv(d)'
  BY <1>5 DEF RequestInv
<1>9. VoidHoldsNothing'
  <2>1. row.invoice = NoInvoice /\ NoInvoice \notin Numbers
    BY ArAssumption DEF NoInvoice
  <2> HIDE DEF row
  <2>2. \A n \in Numbers : OnInvoice(n)' \subseteq OnInvoice(n)
    BY <1>4, <2>1 DEF OnInvoice
  <2> QED
    BY <1>5, <2>2 DEF VoidHoldsNothing, Used
<1> HIDE DEF row
<1>10. ASSUME ~ CoreAnswersKnown PROVE OneTransfer'
  <2> USE <1>10 DEF OneTransfer
  <2>1. /\ opera[r.window].transferred = r.amount
        /\ \A b \in Charges : charges[b].amount > 0 => charges[b].window # r.window
        /\ \A d \in Clerks : req[d].at = "charge" /\ req[d].window = r.window => d = c
    BY <1>1 DEF ChargeIsDue
  <2>2. \A w \in Windows : w = r.window => ChargedFor(w)' = {a}
    <3>1. charges'[a].amount > 0 /\ charges'[a].window = r.window
      BY <1>1, <1>3, <1>4
    <3>2. \A b \in Charges \ {a} : charges'[b].amount > 0 => charges'[b].window # r.window
      BY <1>4, <2>1
    <3> QED
      BY <3>1, <3>2 DEF ChargedFor
  <2>3. \A w \in Windows : w # r.window => ChargedFor(w)' = ChargedFor(w)
    BY <1>2, <1>3, <1>4 DEF ChargedFor
  <2>4. WindowBilledOnce'
    <3> SUFFICES ASSUME NEW w \in Windows
                 PROVE  /\ \A x, y \in ChargedFor(w)' : x = y
                        /\ \A x \in ChargedFor(w)' : charges'[x].amount = opera[w].transferred
      BY <1>5 DEF WindowBilledOnce
    <3>1. CASE w = r.window
      BY <1>3, <1>4, <2>1, <2>2, <3>1
    <3>2. CASE w # r.window
      <4>1. \A x \in ChargedFor(w) : x # a
        BY <1>2 DEF ChargedFor
      <4> QED
        BY <1>4, <2>3, <3>2, <4>1 DEF WindowBilledOnce, ChargedFor
    <3> QED
      BY <3>1, <3>2
  <2>5. ASSUME NEW d \in Clerks PROVE ChargeIsDue(d)'
    <3> SUFFICES ASSUME d # c, req[d].at = "charge" PROVE ChargeIsDue(d)'
      BY <1>5 DEF ChargeIsDue
    <3>1. req'[d] = req[d] /\ req[d].window # r.window
      BY <1>5, <2>1
    <3> QED
      BY <1>3, <1>4, <1>5, <3>1 DEF ChargeIsDue
  <2>6. \A b \in Charges : charges'[b].amount > 0 => charges'[b].window \in Windows
    BY <1>1, <1>3, <1>4
  <2> QED
    BY <2>4, <2>5, <2>6
<1> QED
  BY <1>7, <1>8, <1>9, <1>10

-----------------------------------------------------------------------------
(* The invoices.                                                           *)

(* A payment adds to what was received and gives charges to nobody.        *)
LEMMA WritePaymentInv == ASSUME ArInv, NEW c \in Clerks, WritePayment(c) PROVE ArInv'
<1> USE DEF ArInv
<1> DEFINE r == req[c]
<1>1. /\ r \in Requests /\ r.plan \in [Numbers -> Nat] /\ r.amount \in Nat
      /\ invoices \in [Numbers -> InvoiceRows]
  BY DEF TypeOK, Requests
<1>2. /\ invoices' = [n \in Numbers |-> Applied(invoices[n], r.plan[n], n \in r.settles)]
      /\ paid' = paid + r.amount /\ paid' <= MaxPaid
      /\ req' = [req EXCEPT ![c] = Idle] /\ req'[c] = Idle
      /\ \A d \in Clerks \ {c} : req'[d] = req[d]
      /\ Idle.at = "idle"
      /\ UNCHANGED <<opera, local, account, charges>>
  BY DEF WritePayment, Answer, TypeOK, Idle
<1>3. ASSUME NEW n \in Numbers
      PROVE  /\ invoices'[n] \in InvoiceRows
             /\ invoices'[n].received = invoices[n].received + r.plan[n]
             /\ invoices'[n].total = invoices[n].total
             /\ invoices'[n].st \in {invoices[n].st, "PAID"}
             /\ invoices[n].received \in Nat /\ r.plan[n] \in Nat
             /\ invoices[n].total \in Nat
  <2> DEFINE row == invoices[n]
             next == [row EXCEPT !.received = row.received + r.plan[n],
                                 !.st = IF n \in r.settles THEN "PAID" ELSE row.st]
  <2>1. row \in InvoiceRows /\ r.plan[n] \in Nat
    BY <1>1
  <2>2. invoices'[n] = next
    BY <1>2 DEF Applied
  <2>3. /\ row.received \in Nat /\ row.total \in Nat
        /\ row.st \in InvoiceStatuses \cup {"NONE"}
        /\ "PAID" \in InvoiceStatuses
    BY <2>1, ArAssumption DEF InvoiceRows, InvoiceStatuses
  <2>4. next \in InvoiceRows
    <3>1. \A x \in Nat, st \in InvoiceStatuses \cup {"NONE"} :
            [row EXCEPT !.received = x, !.st = st] \in InvoiceRows
      BY <2>1 DEF InvoiceRows
    <3>2. row.received + r.plan[n] \in Nat
      BY <2>1, <2>3
    <3>3. (IF n \in r.settles THEN "PAID" ELSE row.st) \in InvoiceStatuses \cup {"NONE"}
      BY <2>3
    <3> QED
      BY <3>1, <3>2, <3>3
  <2>5. /\ next.received = row.received + r.plan[n] /\ next.total = row.total
        /\ next.st \in {row.st, "PAID"}
    BY <2>1 DEF InvoiceRows
  <2> HIDE DEF next
  <2> QED
    BY <2>1, <2>2, <2>3, <2>4, <2>5
<1>4. TypeOK'
  <2>1. invoices' \in [Numbers -> InvoiceRows]
    BY <1>2, <1>3
  <2>2. paid' \in 0..MaxPaid
    BY <1>1, <1>2, ArAssumption DEF TypeOK
  <2> QED
    BY <1>2, <2>1, <2>2, IdleIsRequest DEF TypeOK
<1>5. ASSUME NEW d \in Clerks PROVE RequestInv(d)'
  <2>1. CASE d = c
    BY <1>2, <2>1 DEF RequestInv
  <2>2. CASE d # c
    <3>1. req'[d] = req[d] /\ req[d].settles \subseteq Numbers /\ req[d].plan \in [Numbers -> Nat]
      BY <1>2, <2>2 DEF TypeOK, Requests
    <3>2. ASSUME req[d].at = "apply", NEW n \in req[d].settles
          PROVE  /\ invoices'[n].st # "NONE"
                 /\ invoices'[n].received + req[d].plan[n] >= invoices'[n].total
      <4>1. /\ n \in Numbers /\ req[d].plan[n] \in Nat
            /\ invoices[n].st # "NONE"
            /\ invoices[n].received + req[d].plan[n] >= invoices[n].total
        BY <3>1, <3>2 DEF RequestInv
      <4> QED
        BY <1>3, <4>1
    <3> QED
      BY <3>1, <3>2 DEF RequestInv
  <2> QED
    BY <2>1, <2>2
<1>6. VoidHoldsNothing'
  <2>1. \A n \in Numbers : invoices'[n].st = "VOID" => invoices[n].st = "VOID"
    BY <1>3
  <2> QED
    BY <1>2, <2>1 DEF VoidHoldsNothing, Used, OnInvoice
<1>7. ~ CoreAnswersKnown => OneTransfer'
  BY <1>2, NoNewCharge DEF RequestInv
<1> QED
  BY <1>4, <1>5, <1>6, <1>7

(* A request that takes a number, or whose number is taken.                *)
LEMMA NumberInv ==
  ASSUME ArInv, NEW c \in Clerks, TakeNumber(c) \/ IssueTaken(c) PROVE ArInv'
<1>1. CASE IssueTaken(c)
  BY <1>1, AnswerStep DEF IssueTaken
<1>2. CASE TakeNumber(c)
  <2> DEFINE q == [req[c] EXCEPT !.at = "issue", !.number = NextNumber]
  <2>1. NextNumber \in Numbers /\ NextNumber \in Nat /\ req[c] \in Requests
    BY <1>2, ArAssumption DEF TakeNumber, ArInv, TypeOK
  <2>2. q \in Requests /\ q.at = "issue" /\ q.number = NextNumber
    BY <2>1 DEF Requests, Stages
  <2>3. req' = [req EXCEPT ![c] = q] /\ req'[c] = q
    BY <1>2 DEF TakeNumber, ArInv, TypeOK
  <2> HIDE DEF q
  <2>4. RequestInv(c)'
    BY <2>1, <2>2, <2>3 DEF RequestInv
  <2>5. local' \in [Windows -> Folio]
    BY <1>2 DEF TakeNumber, ArInv, TypeOK
  <2> QED
    BY <1>2, <2>2, <2>3, <2>4, <2>5, RequestStep DEF TakeNumber
<1> QED
  BY <1>1, <1>2

(* A new invoice takes the charges its request has read.                   *)
LEMMA IssueInv == ASSUME ArInv, NEW c \in Clerks, Issue(c) PROVE ArInv'
<1> USE DEF ArInv
<1> DEFINE r == req[c]
           m == r.number
           row == [st |-> "DRAFT", total |-> r.total, received |-> 0]
<1>1. r \in Requests /\ m \in Numbers /\ r.total \in 0..MaxTotal
  BY DEF Issue, At, RequestInv, TypeOK, Requests
<1>2. row \in InvoiceRows /\ row.st = "DRAFT"
  BY <1>1 DEF InvoiceRows, InvoiceStatuses
<1>3. /\ invoices[m].st = "NONE"
      /\ invoices' = [invoices EXCEPT ![m] = row] /\ invoices'[m] = row
      /\ \A n \in Numbers \ {m} : invoices'[n] = invoices[n]
      /\ req' = [req EXCEPT ![c] = Idle] /\ req'[c] = Idle
      /\ \A d \in Clerks \ {c} : req'[d] = req[d]
      /\ Idle.at = "idle"
      /\ UNCHANGED <<opera, local, account, paid>>
  BY <1>1 DEF Issue, Answer, TypeOK, Idle
<1> HIDE DEF row
<1>4. ASSUME NEW a \in Charges
      PROVE  /\ charges'[a] \in ChargeRows
             /\ charges'[a].amount = charges[a].amount
             /\ charges'[a].window = charges[a].window
             /\ charges'[a].invoice \in {charges[a].invoice, m}
  <2>1. charges[a] \in ChargeRows
    BY DEF TypeOK
  <2>2. charges'[a] \in {charges[a], [charges[a] EXCEPT !.invoice = m]}
    BY DEF Issue, Billed
  <2> QED
    BY <1>1, <2>1, <2>2 DEF ChargeRows
<1>5. charges' \in [Charges -> ChargeRows]
  BY <1>4 DEF Issue, Billed
<1>6. TypeOK'
  BY <1>1, <1>2, <1>3, <1>5, IdleIsRequest DEF TypeOK
<1>7. ASSUME NEW d \in Clerks PROVE RequestInv(d)'
  <2>1. CASE d = c
    BY <1>3, <2>1 DEF RequestInv
  <2>2. CASE d # c
    <3>1. req'[d] = req[d] /\ req[d].settles \subseteq Numbers
      BY <1>3, <2>2 DEF TypeOK, Requests
    <3> QED
      BY <1>3, <3>1 DEF RequestInv
  <2> QED
    BY <2>1, <2>2
<1>8. VoidHoldsNothing'
  <2> SUFFICES ASSUME NEW n \in Numbers, invoices'[n].st = "VOID" PROVE OnInvoice(n)' = {}
    BY DEF VoidHoldsNothing, Used
  <2>1. n # m /\ invoices[n].st = "VOID"
    BY <1>2, <1>3
  <2>2. OnInvoice(n) = {}
    BY <2>1 DEF VoidHoldsNothing, Used
  <2> QED
    BY <1>4, <2>1, <2>2 DEF OnInvoice
<1>9. ~ CoreAnswersKnown => OneTransfer'
  BY <1>3, <1>4, NoNewCharge DEF RequestInv
<1> QED
  BY <1>6, <1>7, <1>8, <1>9

(* Voiding frees the charges in the step that sets the status.             *)
LEMMA WriteStatusInv == ASSUME ArInv, NEW c \in Clerks, WriteStatus(c) PROVE ArInv'
<1> USE DEF ArInv
<1> DEFINE r == req[c]
           m == r.number
           row == [invoices[m] EXCEPT !.st = r.to]
<1>1. r \in Requests /\ m \in Numbers /\ r.to \in InvoiceStatuses /\ invoices[m] \in InvoiceRows
  BY DEF WriteStatus, At, RequestInv, TypeOK, Requests
<1>2. /\ row \in InvoiceRows /\ row.st = r.to
      /\ row.total = invoices[m].total /\ row.received = invoices[m].received
  BY <1>1 DEF InvoiceRows
<1>3. /\ invoices' = [invoices EXCEPT ![m] = row] /\ invoices'[m] = row
      /\ \A n \in Numbers \ {m} : invoices'[n] = invoices[n]
      /\ req' = [req EXCEPT ![c] = Idle] /\ req'[c] = Idle
      /\ \A d \in Clerks \ {c} : req'[d] = req[d]
      /\ Idle.at = "idle"
      /\ UNCHANGED <<opera, local, account, paid>>
  BY <1>1 DEF WriteStatus, Answer, TypeOK, Idle
<1> HIDE DEF row
<1>4. ASSUME NEW a \in Charges
      PROVE  /\ charges'[a] \in ChargeRows
             /\ charges'[a].amount = charges[a].amount
             /\ charges'[a].window = charges[a].window
             /\ charges'[a].invoice \in {charges[a].invoice, NoInvoice}
             /\ r.to = "VOID" => charges'[a].invoice # m
  <2>1. charges[a] \in ChargeRows
    BY DEF TypeOK
  <2>2. charges'[a] \in {charges[a], [charges[a] EXCEPT !.invoice = NoInvoice]}
    BY DEF WriteStatus, Released, TypeOK
  <2>3. r.to = "VOID" => charges'[a] = IF charges[a].invoice = m
                                      THEN [charges[a] EXCEPT !.invoice = NoInvoice]
                                      ELSE charges[a]
    BY DEF WriteStatus, Released
  <2>4. m # NoInvoice
    BY <1>1, ArAssumption DEF NoInvoice
  <2> QED
    BY <2>1, <2>2, <2>3, <2>4 DEF ChargeRows
<1>5. charges' \in [Charges -> ChargeRows]
  BY <1>4 DEF WriteStatus, Released, TypeOK
<1>6. TypeOK'
  BY <1>1, <1>2, <1>3, <1>5, IdleIsRequest DEF TypeOK
<1>7. ASSUME NEW d \in Clerks PROVE RequestInv(d)'
  <2>1. CASE d = c
    BY <1>3, <2>1 DEF RequestInv
  <2>2. CASE d # c
    <3>1. req'[d] = req[d] /\ req[d].settles \subseteq Numbers /\ r.to # "NONE"
      BY <1>1, <1>3, <2>2 DEF TypeOK, Requests, InvoiceStatuses
    <3> QED
      BY <1>2, <1>3, <3>1 DEF RequestInv
  <2> QED
    BY <2>1, <2>2
<1>8. VoidHoldsNothing'
  <2> SUFFICES ASSUME NEW n \in Numbers, invoices'[n].st = "VOID" PROVE OnInvoice(n)' = {}
    BY DEF VoidHoldsNothing, Used
  <2>1. n # NoInvoice
    BY ArAssumption DEF NoInvoice
  <2>2. CASE n = m
    BY <1>2, <1>3, <1>4, <2>2 DEF OnInvoice
  <2>3. CASE n # m
    <3>1. OnInvoice(n) = {}
      BY <1>3, <2>3 DEF VoidHoldsNothing, Used
    <3> QED
      BY <1>4, <2>1, <3>1 DEF OnInvoice
  <2> QED
    BY <2>2, <2>3
<1>9. ~ CoreAnswersKnown => OneTransfer'
  BY <1>3, <1>4, NoNewCharge DEF RequestInv
<1> QED
  BY <1>6, <1>7, <1>8, <1>9

-----------------------------------------------------------------------------
(* Steps around the requests.                                              *)
LEMMA AroundInv ==
  ASSUME ArInv,
         \/ UNCHANGED vars
         \/ \E c \in Clerks : UpdateAccount(c)
         \/ \E w \in Windows : FolioMoves(w) \/ CopyWindow(w) \/ CloseWindow(w)
  PROVE  ArInv'
<1> USE DEF ArInv
<1>1. UNCHANGED <<charges, invoices, paid, req>>
  BY DEF vars, UpdateAccount, FolioMoves, CopyWindow, CloseWindow
<1>2. account' \in [limit : Limits \cup {NoLimit}, active : BOOLEAN]
  <2>1. account \in [limit : Limits \cup {NoLimit}, active : BOOLEAN]
    BY DEF TypeOK
  <2>2. ASSUME NEW c \in Clerks, UpdateAccount(c)
        PROVE  account' \in [limit : Limits \cup {NoLimit}, active : BOOLEAN]
    BY <2>1, <2>2, ArAssumption DEF UpdateAccount
  <2> QED
    BY <2>1, <2>2 DEF vars, FolioMoves, CopyWindow, CloseWindow
<1>3. /\ opera' \in [Windows -> Folio] /\ local' \in [Windows -> Folio]
      /\ \A v \in Windows : opera'[v].transferred = opera[v].transferred
  <2> USE DEF TypeOK
  <2>1. CASE UNCHANGED <<opera, local>>
    BY <2>1
  <2>2. ASSUME NEW w \in Windows, FolioMoves(w) PROVE <1>3
    <3>1. PICK b \in Balances : opera' = [opera EXCEPT ![w].balance = b]
      BY <2>2 DEF FolioMoves
    <3>2. b \in Int
      BY ArAssumption
    <3> QED
      BY <2>2, <3>1, <3>2 DEF FolioMoves, Folio
  <2>3. ASSUME NEW w \in Windows, CopyWindow(w) PROVE <1>3
    BY <2>3 DEF CopyWindow
  <2>4. ASSUME NEW w \in Windows, CloseWindow(w) PROVE <1>3
    <3>1. \A f \in Folio : /\ [f EXCEPT !.open = FALSE] \in Folio
                          /\ [f EXCEPT !.open = FALSE].transferred = f.transferred
      BY DEF Folio
    <3>2. /\ opera' = [opera EXCEPT ![w] = [opera[w] EXCEPT !.open = FALSE]]
          /\ local' = [local EXCEPT ![w] = [local[w] EXCEPT !.open = FALSE]]
      BY <2>4 DEF CloseWindow
    <3> QED
      BY <3>1, <3>2
  <2> QED
    BY <2>1, <2>2, <2>3, <2>4 DEF vars, UpdateAccount
<1>5. TypeOK'
  BY <1>1, <1>2, <1>3 DEF TypeOK
<1>6. \A d \in Clerks : RequestInv(d)'
  BY <1>1 DEF RequestInv
<1>7. VoidHoldsNothing'
  BY <1>1 DEF VoidHoldsNothing, Used, OnInvoice
<1>8. ~ CoreAnswersKnown => OneTransfer'
  BY <1>1, <1>3, NoNewCharge DEF RequestInv
<1> QED
  BY <1>5, <1>6, <1>7, <1>8

(* The invariant is inductive.                                             *)
LEMMA NextInv == ArInv /\ [Next]_vars => ArInv'
<1> SUFFICES ASSUME ArInv, [Next]_vars PROVE ArInv'
  OBVIOUS
<1>1. ASSUME NEW c \in Clerks, Resumes(c) PROVE ArInv'
  <2>1. CASE CoreRefuses(c)
    BY <2>1, AnswerStep DEF CoreRefuses
  <2> QED
    BY <1>1, <2>1, CorePostsInv, CoreKnowsInv, WriteChargeInv, WritePaymentInv, NumberInv,
       IssueInv, WriteStatusInv DEF Resumes
<1>2. ASSUME NEW c \in Clerks, Dies(c) PROVE ArInv'
  BY <1>2, AnswerStep DEF Dies
<1> QED
  BY <1>1, <1>2, StartsInv, CoreSilentInv, AroundInv DEF Next

-----------------------------------------------------------------------------
(* The inductive invariant holds in every state of the service.            *)
THEOREM ArInvariant == Spec => []ArInv
BY InitInv, NextInv, PTL DEF Spec

(* Where OPERA refuses a check number it knows, an account is charged for  *)
(* a window at most once, and for the amount OPERA took off it, whatever   *)
(* answers are lost and however many clerks transfer it.                   *)
THEOREM BilledOnce ==
  ASSUME ~ CoreAnswersKnown PROVE Spec => []WindowBilledOnce
<1>1. ArInv => WindowBilledOnce
  BY DEF ArInv, OneTransfer
<1> QED
  BY <1>1, ArInvariant, PTL

(* A void invoice never holds a charge.                                    *)
THEOREM VoidIsEmpty == Spec => []VoidHoldsNothing
<1>1. ArInv => VoidHoldsNothing
  BY DEF ArInv
<1> QED
  BY <1>1, ArInvariant, PTL

(* A payment marks an invoice paid only when nothing is left open on it,   *)
(* although the figures it goes by may be old: receipts only grow.         *)
THEOREM MarkedPaidIsCovered == Spec => PaidIsCovered
<1>1. ASSUME ArInv, [Next]_vars
      PROVE  [\A n \in Numbers :
                invoices'[n].st = "PAID" /\ invoices'[n].received # invoices[n].received
                  /\ invoices[n].st # "PAID" =>
                    invoices'[n].received >= invoices'[n].total]_vars
  <2> SUFFICES ASSUME NEW n \in Numbers, invoices'[n].st = "PAID", invoices[n].st # "PAID",
                      invoices'[n].received # invoices[n].received
               PROVE  invoices'[n].received >= invoices'[n].total
    OBVIOUS
  <2>1. invoices \in [Numbers -> InvoiceRows]
    BY <1>1 DEF ArInv, TypeOK
  <2>2. ASSUME NEW c \in Clerks, WritePayment(c)
        PROVE  invoices'[n].received >= invoices'[n].total
    <3>1. /\ req[c] \in Requests
          /\ invoices'[n] = Applied(invoices[n], req[c].plan[n], n \in req[c].settles)
      BY <1>1, <2>2 DEF WritePayment, ArInv, TypeOK
    <3>2. /\ invoices'[n].st = IF n \in req[c].settles THEN "PAID" ELSE invoices[n].st
          /\ invoices'[n].received = invoices[n].received + req[c].plan[n]
          /\ invoices'[n].total = invoices[n].total
      BY <2>1, <3>1 DEF Applied, InvoiceRows
    <3>3. n \in req[c].settles
      BY <3>2
    <3> QED
      BY <1>1, <2>2, <3>2, <3>3 DEF ArInv, RequestInv, WritePayment, At
  <2>3. ASSUME NEW c \in Clerks, Issue(c) \/ WriteStatus(c)
        PROVE  invoices'[n].st = "DRAFT" \/ invoices'[n].received = invoices[n].received
    BY <2>1, <2>3 DEF Issue, WriteStatus, InvoiceRows
  <2>4. CASE UNCHANGED invoices
    BY <2>4
  <2>5. \/ UNCHANGED invoices
        \/ \E c \in Clerks : WritePayment(c) \/ Issue(c) \/ WriteStatus(c)
    BY <1>1 DEF vars, Next, Starts, Resumes, StartTransfer, StartPayment, StartInvoice,
       StartStatus, CorePosts, CoreKnows, CoreRefuses, CoreSilent, WriteCharge, TakeNumber,
       IssueTaken, Dies, UpdateAccount, FolioMoves, CopyWindow, CloseWindow
  <2> QED
    BY <2>2, <2>3, <2>4, <2>5
<1> QED
  BY <1>1, ArInvariant, PTL DEF Spec, PaidIsCovered

-----------------------------------------------------------------------------
(* Sums over finite sets.  Total is the sum every amount of the ledger is  *)
(* taken with; induction is by a smallest counterexample.                  *)

Total(f, S) == MapThenSumSet(LAMBDA x : f[x], S)

(* A set of natural numbers has a least one.                               *)
LEMMA Least ==
  ASSUME NEW T, T \subseteq Nat, T # {}
  PROVE  \E n \in T : \A m \in T : n <= m
<1> DEFINE R == OpToRel(<, Nat)
<1>1. IsWellFoundedOn(R, Nat)
  BY NatLessThanWellFounded
<1> HIDE DEF R
<1>2. PICK n \in T : \A m \in T : ~ (<<m, n>> \in R)
  BY <1>1, WFMin
<1>3. \A m \in Nat : m < n => <<m, n>> \in R
  BY DEF R, OpToRel
<1>4. \A m \in T : ~ (m < n)
  BY <1>2, <1>3
<1>5. \A m \in T : n <= m
  BY <1>4
<1> QED
  BY <1>5

(* Some set among subsets of a finite one has no smaller among them.       *)
LEMMA LeastSet ==
  ASSUME NEW S, IsFiniteSet(S), NEW B, B \subseteq SUBSET S, B # {}
  PROVE  \E U \in B : \A x \in U : U \ {x} \notin B
<1> DEFINE T == { Cardinality(U) : U \in B }
<1>1. \A U \in B : IsFiniteSet(U) /\ Cardinality(U) \in Nat
  BY FS_Subset, FS_CardinalityType
<1>2. T \subseteq Nat /\ T # {}
  BY <1>1
<1>3. PICK n \in T : \A m \in T : n <= m
  <2> HIDE DEF T
  <2> QED
    BY <1>2, Least
<1>4. PICK U \in B : Cardinality(U) = n
  OBVIOUS
<1>5. ASSUME NEW x \in U, U \ {x} \in B PROVE FALSE
  <2>1. IsFiniteSet(U) /\ Cardinality(U) \in Nat /\ Cardinality(U \ {x}) \in Nat
    BY <1>1, <1>5
  <2>2. Cardinality(U \ {x}) = Cardinality(U) - 1
    BY <2>1, FS_RemoveElement
  <2>3. Cardinality(U \ {x}) \in T
    BY <1>5
  <2>4. n <= Cardinality(U \ {x})
    BY <1>3, <2>3
  <2> QED
    BY <1>4, <2>1, <2>2, <2>4
<1> QED
  BY <1>5

(* The recursive function under a sum, and that there is one.              *)
Pick1(t) == CHOOSE x \in t : TRUE
Step(f, s, t) == IF t = {} THEN 0 ELSE f[Pick1(t)] + s[t \ {Pick1(t)}]
Sums(f, S) == CHOOSE s : s = [t \in SUBSET S |-> Step(f, s, t)]

LEMMA PickIn == ASSUME NEW t, t # {} PROVE Pick1(t) \in t
BY DEF Pick1

LEMMA SumsExist ==
  ASSUME NEW f, NEW S, IsFiniteSet(S)
  PROVE  \E g : g = [t \in SUBSET S |-> Step(f, g, t)]
<1> DEFINE Dom(n) == { t \in SUBSET S : Cardinality(t) <= n }
           Good(n) == \E g : g = [t \in Dom(n) |-> Step(f, g, t)]
           T == { n \in Nat : ~ Good(n) }
<1>1. \A t \in SUBSET S : IsFiniteSet(t) /\ Cardinality(t) \in Nat /\ Cardinality(t) <= Cardinality(S)
  BY FS_Subset, FS_CardinalityType
<1>2. ASSUME NEW n \in Nat, n # 0, Good(n - 1) PROVE Good(n)
  <2>1. PICK g : g = [t \in Dom(n - 1) |-> Step(f, g, t)]
    BY <1>2
  <2> DEFINE h == [t \in Dom(n) |-> Step(f, g, t)]
  <2>2. ASSUME NEW t \in Dom(n) PROVE Step(f, h, t) = Step(f, g, t)
    <3>1. CASE t = {}
      BY <3>1 DEF Step
    <3>2. CASE t # {}
      <4> DEFINE u == t \ {Pick1(t)}
      <4>1. Pick1(t) \in t
        BY <3>2, PickIn
      <4>2. Cardinality(u) = Cardinality(t) - 1 /\ Cardinality(t) \in Nat /\ u \in SUBSET S
            /\ Cardinality(u) \in Nat /\ Cardinality(t) <= n
        BY <1>1, <4>1, FS_RemoveElement
      <4>3. Cardinality(u) <= n - 1 /\ Cardinality(u) <= n
        BY <4>2
      <4>4. u \in Dom(n - 1) /\ u \in Dom(n)
        BY <4>2, <4>3
      <4> HIDE DEF u, Dom
      <4>5. h[u] = g[u]
        BY <2>1, <4>4
      <4> QED
        BY <3>2, <4>5 DEF Step, u
    <3> QED
      BY <3>1, <3>2
  <2>3. h = [t \in Dom(n) |-> Step(f, h, t)]
    <3> HIDE DEF Dom
    <3> QED
      BY <2>2
  <2> HIDE DEF h
  <2> QED
    BY <2>3
<1>3. Good(0)
  <2> DEFINE g == [t \in Dom(0) |-> 0]
  <2>1. \A t \in Dom(0) : t = {}
    BY <1>1, FS_EmptySet
  <2>2. \A t \in Dom(0) : Step(f, g, t) = 0
    BY <2>1 DEF Step
  <2>3. g = [t \in Dom(0) |-> Step(f, g, t)]
    <3> HIDE DEF Dom
    <3> QED
      BY <2>2
  <2> HIDE DEF g
  <2> QED
    BY <2>3
<1> HIDE DEF Good
<1>4. T = {}
  <2> SUFFICES ASSUME T # {} PROVE FALSE
    OBVIOUS
  <2>1. PICK n \in T : \A m \in T : n <= m
    <3>1. T \subseteq Nat
      OBVIOUS
    <3> HIDE DEF T
    <3> QED
      BY <3>1, Least
  <2>2. n \in Nat /\ n # 0
    BY <1>3
  <2>3. n - 1 \in Nat /\ ~ (n <= n - 1)
    BY <2>2
  <2>4. n - 1 \notin T
    BY <2>1, <2>3
  <2>5. Good(n - 1)
    BY <2>3, <2>4
  <2> QED
    BY <1>2, <2>2, <2>5
<1>5. Cardinality(S) \in Nat
  BY <1>1
<1>6. Good(Cardinality(S))
  BY <1>4, <1>5
<1>7. Dom(Cardinality(S)) = SUBSET S
  BY <1>1
<1> HIDE DEF Dom
<1> QED
  BY <1>6, <1>7 DEF Good

LEMMA SumsAre ==
  ASSUME NEW f, NEW S, IsFiniteSet(S)
  PROVE  /\ \A t \in SUBSET S : Sums(f, S)[t] = Step(f, Sums(f, S), t)
         /\ Total(f, S) = Sums(f, S)[S]
<1>1. \A t \in SUBSET S : Sums(f, S)[t] = Step(f, Sums(f, S), t)
  <2> DEFINE a == Sums(f, S)
  <2>1. a = [t \in SUBSET S |-> Step(f, a, t)]
    BY SumsExist DEF Sums
  <2> HIDE DEF a
  <2>2. \A t \in SUBSET S : a[t] = Step(f, a, t)
    BY <2>1
  <2> QED
    BY <2>2 DEF a
<1>2. Total(f, S) = Sums(f, S)[S]
  BY DEF Total, MapThenSumSet, MapThenFoldSet, Sums, Step, Pick1
<1> QED
  BY <1>1, <1>2

(* The sum over a part of a set is the same on its own.                    *)
LEMMA SumsOfPart ==
  ASSUME NEW f, NEW S, IsFiniteSet(S), NEW U \in SUBSET S
  PROVE  Sums(f, S)[U] = Total(f, U)
<1>1. IsFiniteSet(U)
  BY FS_Subset
<1> DEFINE a == Sums(f, S)
           b == Sums(f, U)
           B == { t \in SUBSET U : a[t] # b[t] }
<1>2. /\ \A t \in SUBSET S : a[t] = Step(f, a, t)
      /\ \A t \in SUBSET U : b[t] = Step(f, b, t)
      /\ Total(f, U) = b[U]
  BY <1>1, SumsAre
<1> HIDE DEF a, b
<1>3. B = {}
  <2> SUFFICES ASSUME B # {} PROVE FALSE
    OBVIOUS
  <2>1. PICK t \in B : \A x \in t : t \ {x} \notin B
    <3>1. B \subseteq SUBSET U
      OBVIOUS
    <3> HIDE DEF B
    <3> QED
      BY <1>1, <3>1, LeastSet
  <2>2. t \in SUBSET U /\ t \in SUBSET S /\ a[t] # b[t]
    OBVIOUS
  <2>3. a[t] = Step(f, a, t) /\ b[t] = Step(f, b, t)
    BY <1>2, <2>2
  <2>4. t # {}
    BY <2>2, <2>3 DEF Step
  <2>5. Pick1(t) \in t
    BY <2>4, PickIn
  <2>6. a[t \ {Pick1(t)}] = b[t \ {Pick1(t)}]
    BY <2>1, <2>2, <2>5
  <2> QED
    BY <2>2, <2>3, <2>4, <2>6 DEF Step
<1> QED
  BY <1>2, <1>3 DEF a

LEMMA TotalOfNothing == \A f : Total(f, {}) = 0
<1> SUFFICES ASSUME NEW f PROVE Total(f, {}) = 0
  OBVIOUS
<1>1. IsFiniteSet({})
  BY FS_EmptySet
<1> QED
  BY <1>1, SumsAre DEF Step

LEMMA TotalPicks ==
  ASSUME NEW f, NEW S, IsFiniteSet(S), S # {}
  PROVE  Total(f, S) = f[Pick1(S)] + Total(f, S \ {Pick1(S)})
<1>1. Total(f, S) = Step(f, Sums(f, S), S)
  BY SumsAre
<1>2. Sums(f, S)[S \ {Pick1(S)}] = Total(f, S \ {Pick1(S)})
  BY SumsOfPart
<1> QED
  BY <1>1, <1>2 DEF Step

(* A sum of integers is one.                                               *)
LEMMA TotalType ==
  ASSUME NEW S, IsFiniteSet(S), NEW f, \A x \in S : f[x] \in Int
  PROVE  Total(f, S) \in Int
<1> DEFINE B == { U \in SUBSET S : Total(f, U) \notin Int }
<1>1. B = {}
  <2> SUFFICES ASSUME B # {} PROVE FALSE
    OBVIOUS
  <2>1. PICK U \in B : \A x \in U : U \ {x} \notin B
    <3>1. B \subseteq SUBSET S
      OBVIOUS
    <3> HIDE DEF B
    <3> QED
      BY <3>1, LeastSet
  <2>2. U \in SUBSET S /\ Total(f, U) \notin Int /\ IsFiniteSet(U)
    BY FS_Subset
  <2>3. U # {}
    BY <2>2, TotalOfNothing
  <2>4. Pick1(U) \in U
    BY <2>3, PickIn
  <2>5. Total(f, U \ {Pick1(U)}) \in Int
    BY <2>1, <2>2, <2>4
  <2>6. f[Pick1(U)] \in Int
    BY <2>2, <2>4
  <2> QED
    BY <2>2, <2>3, <2>5, <2>6, TotalPicks
<1> QED
  BY <1>1

(* Any element can be taken out first.                                     *)
LEMMA TotalTakes ==
  ASSUME NEW S, IsFiniteSet(S), NEW f, \A x \in S : f[x] \in Int, NEW x \in S
  PROVE  Total(f, S) = f[x] + Total(f, S \ {x})
<1> DEFINE Fine(U) == \A y \in U : Total(f, U) = f[y] + Total(f, U \ {y})
           B == { U \in SUBSET S : ~ Fine(U) }
<1>1. \A U \in SUBSET S : IsFiniteSet(U) /\ Total(f, U) \in Int
  <2> SUFFICES ASSUME NEW U \in SUBSET S PROVE IsFiniteSet(U) /\ Total(f, U) \in Int
    OBVIOUS
  <2>1. IsFiniteSet(U)
    BY FS_Subset
  <2> QED
    BY <2>1, TotalType
<1>2. B = {}
  <2> SUFFICES ASSUME B # {} PROVE FALSE
    OBVIOUS
  <2>1. PICK U \in B : \A y \in U : U \ {y} \notin B
    <3>1. B \subseteq SUBSET S
      OBVIOUS
    <3> HIDE DEF B
    <3> QED
      BY <3>1, LeastSet
  <2>2. U \in SUBSET S /\ \A y \in U : Fine(U \ {y})
    BY <2>1
  <2>3. PICK y \in U : Total(f, U) # f[y] + Total(f, U \ {y})
    BY <2>1
  <2> DEFINE c == Pick1(U)
             V == (U \ {y}) \ {c}
  <2>4. c \in U /\ Total(f, U) = f[c] + Total(f, U \ {c})
    BY <1>1, <2>2, <2>3, PickIn, TotalPicks
  <2>5. y # c
    BY <2>3, <2>4
  <2>6. Total(f, U \ {c}) = f[y] + Total(f, V)
    <3>1. y \in U \ {c} /\ (U \ {c}) \ {y} = V
      BY <2>3, <2>5
    <3> HIDE DEF c, V
    <3> QED
      BY <2>2, <2>4, <3>1
  <2>7. Total(f, U \ {y}) = f[c] + Total(f, V)
    <3>1. c \in U \ {y}
      BY <2>4, <2>5
    <3> HIDE DEF c
    <3> QED
      BY <2>2, <3>1
  <2>8. f[c] \in Int /\ f[y] \in Int /\ Total(f, V) \in Int
    BY <1>1, <2>2, <2>3, <2>4
  <2> HIDE DEF c, V
  <2> QED
    BY <2>3, <2>4, <2>6, <2>7, <2>8
<1> QED
  BY <1>2

(* A sum depends on its terms.                                             *)
LEMMA TotalSame ==
  ASSUME NEW S, IsFiniteSet(S), NEW f, NEW g, \A x \in S : f[x] = g[x]
  PROVE  Total(f, S) = Total(g, S)
<1> DEFINE B == { U \in SUBSET S : Total(f, U) # Total(g, U) }
<1>1. B = {}
  <2> SUFFICES ASSUME B # {} PROVE FALSE
    OBVIOUS
  <2>1. PICK U \in B : \A x \in U : U \ {x} \notin B
    <3>1. B \subseteq SUBSET S
      OBVIOUS
    <3> HIDE DEF B
    <3> QED
      BY <3>1, LeastSet
  <2>2. U \in SUBSET S /\ Total(f, U) # Total(g, U) /\ IsFiniteSet(U)
    BY FS_Subset
  <2>3. U # {}
    BY <2>2, TotalOfNothing
  <2>4. Pick1(U) \in U
    BY <2>3, PickIn
  <2>5. Total(f, U \ {Pick1(U)}) = Total(g, U \ {Pick1(U)})
    BY <2>1, <2>2, <2>4
  <2>6. f[Pick1(U)] = g[Pick1(U)]
    BY <2>2, <2>4
  <2> QED
    BY <2>2, <2>3, <2>5, <2>6, TotalPicks
<1> QED
  BY <1>1

(* Sums over disjoint sets add up.                                         *)
LEMMA TotalUnion ==
  ASSUME NEW S, IsFiniteSet(S), NEW f, \A x \in S : f[x] \in Int,
         NEW U \in SUBSET S, NEW V \in SUBSET S, U \cap V = {}
  PROVE  Total(f, U \cup V) = Total(f, U) + Total(f, V)
<1> DEFINE B == { W \in SUBSET V : Total(f, U \cup W) # Total(f, U) + Total(f, W) }
<1>1. \A W \in SUBSET S : IsFiniteSet(W) /\ Total(f, W) \in Int
  <2> SUFFICES ASSUME NEW W \in SUBSET S PROVE IsFiniteSet(W) /\ Total(f, W) \in Int
    OBVIOUS
  <2>1. IsFiniteSet(W)
    BY FS_Subset
  <2> QED
    BY <2>1, TotalType
<1>2. B = {}
  <2> SUFFICES ASSUME B # {} PROVE FALSE
    OBVIOUS
  <2>1. PICK W \in B : \A x \in W : W \ {x} \notin B
    <3>1. B \subseteq SUBSET V /\ IsFiniteSet(V)
      BY <1>1
    <3> HIDE DEF B
    <3> QED
      BY <3>1, LeastSet
  <2>2. W \in SUBSET V /\ W \in SUBSET S /\ U \cup W \in SUBSET S
        /\ Total(f, U \cup W) # Total(f, U) + Total(f, W)
    OBVIOUS
  <2>3. W # {}
    <3> SUFFICES ASSUME W = {} PROVE FALSE
      OBVIOUS
    <3>1. U \cup W = U /\ Total(f, W) = 0 /\ Total(f, U) \in Int
      BY <1>1, TotalOfNothing
    <3> QED
      BY <2>2, <3>1
  <2>4. PICK x \in W : TRUE
    BY <2>3
  <2>5. Total(f, U \cup (W \ {x})) = Total(f, U) + Total(f, W \ {x})
    BY <2>1, <2>2, <2>4
  <2>6. Total(f, W) = f[x] + Total(f, W \ {x})
    BY <1>1, <2>2, <2>4, TotalTakes
  <2>7. Total(f, U \cup W) = f[x] + Total(f, (U \cup W) \ {x})
    <3>1. x \in U \cup W /\ \A y \in U \cup W : f[y] \in Int
      BY <2>2, <2>4
    <3> QED
      BY <1>1, <2>2, <3>1, TotalTakes
  <2>8. (U \cup W) \ {x} = U \cup (W \ {x})
    BY <2>2, <2>4
  <2>9. f[x] \in Int /\ Total(f, U) \in Int /\ Total(f, W \ {x}) \in Int
    BY <1>1, <2>2, <2>4
  <2>10. Total(f, U \cup W) = f[x] + (Total(f, U) + Total(f, W \ {x}))
    BY <2>5, <2>7, <2>8
  <2> HIDE DEF B
  <2> QED
    BY <2>2, <2>6, <2>9, <2>10
<1> QED
  BY <1>2

(* Sums of two functions add up.                                           *)
LEMMA TotalPlus ==
  ASSUME NEW S, IsFiniteSet(S), NEW f, NEW g, NEW h,
         \A x \in S : f[x] \in Int /\ g[x] \in Int /\ h[x] = f[x] + g[x]
  PROVE  Total(h, S) = Total(f, S) + Total(g, S)
<1> DEFINE B == { U \in SUBSET S : Total(h, U) # Total(f, U) + Total(g, U) }
<1>1. B = {}
  <2> SUFFICES ASSUME B # {} PROVE FALSE
    OBVIOUS
  <2>1. PICK U \in B : \A x \in U : U \ {x} \notin B
    <3>1. B \subseteq SUBSET S
      OBVIOUS
    <3> HIDE DEF B
    <3> QED
      BY <3>1, LeastSet
  <2>2. U \in SUBSET S /\ Total(h, U) # Total(f, U) + Total(g, U) /\ IsFiniteSet(U)
    BY FS_Subset
  <2>3. U # {}
    <3> SUFFICES ASSUME U = {} PROVE FALSE
      OBVIOUS
    <3>1. Total(h, U) = 0 /\ Total(f, U) = 0 /\ Total(g, U) = 0
      BY TotalOfNothing
    <3> QED
      BY <2>2, <3>1
  <2> DEFINE x == Pick1(U)
             W == U \ {x}
  <2>4. x \in U
    BY <2>3, PickIn
  <2>5. Total(h, W) = Total(f, W) + Total(g, W)
    BY <2>1, <2>2, <2>4
  <2>6. /\ Total(h, U) = h[x] + Total(h, W) /\ Total(f, U) = f[x] + Total(f, W)
        /\ Total(g, U) = g[x] + Total(g, W)
    BY <2>2, <2>3, TotalPicks
  <2>7. Total(f, W) \in Int /\ Total(g, W) \in Int
    <3>1. IsFiniteSet(W) /\ W \subseteq S
      BY <2>2, FS_Subset
    <3> QED
      BY <3>1, TotalType
  <2>8. f[x] \in Int /\ g[x] \in Int /\ h[x] = f[x] + g[x]
    BY <2>2, <2>4
  <2> HIDE DEF x, W
  <2> QED
    BY <2>2, <2>5, <2>6, <2>7, <2>8
<1> QED
  BY <1>1

(* A set whose terms are 0 adds nothing.                                   *)
LEMMA TotalZero ==
  ASSUME NEW S, IsFiniteSet(S), NEW f, \A x \in S : f[x] = 0
  PROVE  Total(f, S) = 0
<1> DEFINE B == { U \in SUBSET S : Total(f, U) # 0 }
<1>1. B = {}
  <2> SUFFICES ASSUME B # {} PROVE FALSE
    OBVIOUS
  <2>1. PICK U \in B : \A x \in U : U \ {x} \notin B
    <3>1. B \subseteq SUBSET S
      OBVIOUS
    <3> HIDE DEF B
    <3> QED
      BY <3>1, LeastSet
  <2>2. U \in SUBSET S /\ Total(f, U) # 0 /\ IsFiniteSet(U)
    BY FS_Subset
  <2>3. U # {}
    BY <2>2, TotalOfNothing
  <2>4. Pick1(U) \in U
    BY <2>3, PickIn
  <2>5. Total(f, U \ {Pick1(U)}) = 0
    BY <2>1, <2>2, <2>4
  <2> QED
    BY <2>2, <2>3, <2>4, <2>5, TotalPicks
<1> QED
  BY <1>1

-----------------------------------------------------------------------------
(* The amounts of the ledger as sums.                                      *)

Amounts(ch) == [a \in Charges |-> ch[a].amount]
AmountIn(ch, S) == MapThenSumSet(LAMBDA a : ch[a].amount, S)

LEMMA AmountInIs ==
  ASSUME NEW ch, NEW S, S \subseteq Charges
  PROVE  AmountIn(ch, S) = Total(Amounts(ch), S)
<1> DEFINE F(s) == [t \in SUBSET S |-> IF t = {} THEN 0
                      ELSE ch[CHOOSE x \in t : TRUE].amount + s[t \ {CHOOSE x \in t : TRUE}]]
           G(s) == [t \in SUBSET S |-> Step(Amounts(ch), s, t)]
<1>1. AmountIn(ch, S) = (CHOOSE s : s = F(s))[S]
  BY DEF AmountIn, MapThenSumSet, MapThenFoldSet
<1>2. Total(Amounts(ch), S) = (CHOOSE s : s = G(s))[S]
  BY DEF Total, MapThenSumSet, MapThenFoldSet, Step, Pick1
<1>3. ASSUME NEW s PROVE F(s) = G(s)
  <2>1. ASSUME NEW t \in SUBSET S, t # {}
        PROVE  Amounts(ch)[Pick1(t)] = ch[Pick1(t)].amount
    BY <2>1, PickIn DEF Amounts
  <2>2. \A t \in SUBSET S : F(s)[t] = G(s)[t]
    BY <2>1 DEF Step, Pick1
  <2> QED
    BY <2>2
<1> HIDE DEF F, G
<1>4. (CHOOSE s : s = F(s)) = (CHOOSE s : s = G(s))
  BY <1>3, Zenon
<1> QED
  BY <1>1, <1>2, <1>4

LEMMA AmountIs ==
  /\ \A S : S \subseteq Charges => AmountOf(S) = Total(Amounts(charges), S)
  /\ \A n : AmountOf(OnInvoice(n)) = Total(Amounts(charges), OnInvoice(n))
  /\ AmountOf(Unbilled) = Total(Amounts(charges), Unbilled)
  /\ AmountOf(Charges) = Total(Amounts(charges), Charges)
<1>1. \A S : AmountOf(S) = AmountIn(charges, S)
  BY DEF AmountOf, AmountIn, MapThenSumSet, MapThenFoldSet
<1>2. OnInvoice(0) \subseteq Charges /\ Unbilled \subseteq Charges /\ \A n : OnInvoice(n) \subseteq Charges
  BY DEF OnInvoice, Unbilled
<1> QED
  BY <1>1, <1>2, AmountInIs

LEMMA AmountIsNext ==
  /\ \A n : AmountOf(OnInvoice(n))' = Total(Amounts(charges'), OnInvoice(n)')
  /\ AmountOf(Unbilled)' = Total(Amounts(charges'), Unbilled')
  /\ AmountOf(Charges)' = Total(Amounts(charges'), Charges)
<1>1. Unbilled' \subseteq Charges /\ \A n : OnInvoice(n)' \subseteq Charges
  BY DEF OnInvoice, Unbilled
<1>2. /\ \A n : AmountOf(OnInvoice(n))' = AmountIn(charges', OnInvoice(n)')
      /\ AmountOf(Unbilled)' = AmountIn(charges', Unbilled')
      /\ AmountOf(Charges)' = AmountIn(charges', Charges)
  BY DEF AmountOf, AmountIn, MapThenSumSet, MapThenFoldSet
<1> QED
  BY <1>1, <1>2, AmountInIs

-----------------------------------------------------------------------------
(* The history, with any number of clerks: what holds of an invoice no     *)
(* request wrote on stale figures, and what a request may still count on.  *)

LEMMA HistoryOfLedger == HSpec => Spec
<1>1. HInit => Init
  BY DEF HInit
<1>2. [HNext]_hvars => [Next]_vars
  BY DEF HNext, hvars
<1> QED
  BY <1>1, <1>2, PTL DEF HSpec, Spec

OnIn(ch, n) == { a \in Charges : ch[a].amount > 0 /\ ch[a].invoice = n }
Made(st) == st # "NONE"
Stands(st) == st \notin {"NONE", "VOID"}

(* A charge is on an invoice that was made, nothing was received on one    *)
(* that was not; one that stands, and was not raced for, asks for its      *)
(* charges and is not overpaid.                                            *)
Books(ch, inv, rc) ==
  /\ \A a \in Charges : ch[a].invoice # NoInvoice => Made(inv[ch[a].invoice].st)
  /\ \A n \in Numbers :
       /\ ~ Made(inv[n].st) => inv[n].received = 0
       /\ n \notin rc =>
            /\ Stands(inv[n].st) => inv[n].total = Total(Amounts(ch), OnIn(ch, n))
            /\ inv[n].received <= inv[n].total

(* What request q still knows, where old are the invoices it must not      *)
(* count on any more.                                                      *)
PlanHolds(q, inv, old) ==
  \A n \in Numbers :
    /\ q.plan[n] > 0 =>
         /\ Made(inv[n].st)
         /\ n \notin old => /\ inv[n].st \in {"DRAFT", "SENT"}
                            /\ q.plan[n] <= inv[n].total - inv[n].received
    /\ n \in q.settles => q.plan[n] > 0
BillsHold(q, ch, old) ==
  /\ q.bills \subseteq Charges
  /\ \A a \in q.bills : ch[a].amount > 0 /\ ch[a].invoice \in {NoInvoice} \cup old
  /\ q.total = Total(Amounts(ch), q.bills)
StatusHolds(q, inv, old) ==
  Made(inv[q.number].st) /\ (q.number \notin old => Stands(inv[q.number].st))
Reads(q, ch, inv, old) ==
  /\ q.at = "apply" => PlanHolds(q, inv, old)
  /\ q.at \in {"number", "issue"} => BillsHold(q, ch, old)
  /\ q.at = "status" => StatusHolds(q, inv, old)

BooksInv ==
  /\ Books(charges, invoices, raced)
  /\ \A c \in Clerks : Reads(req[c], charges, invoices, stale[c])

LEMMA IdleReads ==
  ASSUME NEW q, q.at \notin {"apply", "number", "issue", "status"}, NEW ch, NEW inv, NEW old
  PROVE  Reads(q, ch, inv, old)
BY DEF Reads

(* The sum of any charges is an integer.                                   *)
LEMMA AmountsType ==
  ASSUME NEW ch \in [Charges -> ChargeRows], NEW S, S \subseteq Charges
  PROVE  IsFiniteSet(S) /\ (\A a \in S : Amounts(ch)[a] \in Int) /\ Total(Amounts(ch), S) \in Int
<1>1. IsFiniteSet(S)
  BY ArAssumption, FS_Subset
<1>2. \A a \in S : Amounts(ch)[a] \in Int
  BY DEF Amounts, ChargeRows
<1> QED
  BY <1>1, <1>2, TotalType

(* What any step leaves of the rows of the ledger: an invoice stays made,  *)
(* a charge keeps its amount, and comes onto an invoice that is written.   *)
LedgerStays ==
  /\ \A n \in Numbers : Made(invoices[n].st) => Made(invoices'[n].st)
  /\ \A a \in Charges : charges[a].amount > 0 => charges'[a].amount = charges[a].amount
  /\ \A a \in Charges : charges[a].amount > 0 =>
       charges'[a].invoice \in {charges[a].invoice, NoInvoice} \cup Written

(* What another's step leaves of what a request has read.                  *)
LEMMA OthersRead ==
  ASSUME ArInv, NEW c \in Clerks, UNCHANGED req[c], LedgerStays,
         Reads(req[c], charges, invoices, stale[c]),
         stale'[c] = stale[c] \cup (Written \cap Concerns(c)')
  PROVE  Reads(req[c], charges', invoices', stale'[c])
<1> DEFINE q == req[c]
           old == stale'[c]
<1>1. q \in Requests /\ q = req'[c] /\ (q.at = "status" => q.number \in Numbers)
      /\ charges \in [Charges -> ChargeRows]
  BY DEF ArInv, TypeOK, RequestInv
<1>2. ASSUME NEW n \in Numbers, n \in Concerns(c)', n \notin old
      PROVE  n \notin stale[c] /\ invoices'[n] = invoices[n]
  BY <1>2 DEF Written
<1>3. CASE q.at = "apply"
  <2>1. PlanHolds(q, invoices, stale[c])
    BY <1>3 DEF Reads
  <2>2. \A n \in Numbers : q.plan[n] > 0 => n \in Concerns(c)'
    BY <1>1 DEF Concerns
  <2> HIDE DEF q, old
  <2>3. PlanHolds(q, invoices', old)
    BY <1>2, <2>1, <2>2 DEF PlanHolds, LedgerStays
  <2> QED
    BY <1>3, <2>3 DEF Reads, q, old
<1>4. CASE q.at \in {"number", "issue"}
  <2>1. BillsHold(q, charges, stale[c])
    BY <1>4 DEF Reads
  <2>2. ASSUME NEW a \in q.bills
        PROVE  /\ charges'[a].amount = charges[a].amount /\ charges[a].amount > 0
               /\ charges'[a].invoice \in {NoInvoice} \cup old
    <3>1. a \in Charges /\ charges[a].amount > 0 /\ charges[a].invoice \in {NoInvoice} \cup stale[c]
      BY <2>1 DEF BillsHold
    <3>2. charges'[a].invoice \in {charges[a].invoice, NoInvoice} \cup Written
          /\ charges'[a].amount = charges[a].amount
      BY <3>1 DEF LedgerStays
    <3>3. ASSUME charges'[a].invoice \in Written PROVE charges'[a].invoice \in Concerns(c)'
      <4>1. charges'[a].invoice \in Numbers
        BY <3>3 DEF Written
      <4> QED
        BY <1>1, <4>1 DEF Concerns
    <3> QED
      BY <3>1, <3>2, <3>3
  <2>3. q.bills \subseteq Charges /\ IsFiniteSet(q.bills) /\ q.total = Total(Amounts(charges), q.bills)
    BY <1>1, <2>1, AmountsType DEF BillsHold
  <2>4. \A a \in q.bills : Amounts(charges')[a] = Amounts(charges)[a]
    BY <2>2, <2>3 DEF Amounts
  <2>5. Total(Amounts(charges'), q.bills) = Total(Amounts(charges), q.bills)
    BY <2>3, <2>4, TotalSame
  <2> HIDE DEF q, old
  <2>6. BillsHold(q, charges', old)
    BY <2>2, <2>3, <2>5 DEF BillsHold
  <2> QED
    BY <1>4, <2>6 DEF Reads, q, old
<1>5. CASE q.at = "status"
  <2>1. StatusHolds(q, invoices, stale[c]) /\ q.number \in Numbers
    BY <1>1, <1>5 DEF Reads
  <2>2. q.number \in Concerns(c)'
    BY <1>1, <1>5, <2>1 DEF Concerns
  <2> HIDE DEF q, old
  <2>3. StatusHolds(q, invoices', old)
    BY <1>2, <2>1, <2>2 DEF StatusHolds, LedgerStays
  <2> QED
    BY <1>5, <2>3 DEF Reads, q, old
<1>6. CASE q.at \notin {"apply", "number", "issue", "status"}
  BY <1>6, IdleReads
<1> QED
  BY <1>3, <1>4, <1>5, <1>6

(* The history's part of a step.                                           *)
StaleNext ==
  \A c \in Clerks :
    stale'[c] = IF Begins(c) THEN {} ELSE stale[c] \cup (Written \cap Concerns(c)')
RacedNext ==
  /\ raced \subseteq raced'
  /\ \A c \in Clerks : Ends(c) /\ Written # {} => stale[c] \cap Concerns(c) \subseteq raced'

(* A step of one clerk.                                                    *)
LEMMA ClerkStep ==
  ASSUME ArInv, BooksInv, StaleNext, LedgerStays,
         NEW c \in Clerks, NEW q, req' = [req EXCEPT ![c] = q],
         Books(charges', invoices', raced'), Reads(q, charges', invoices', stale'[c])
  PROVE  BooksInv'
<1>1. req'[c] = q /\ \A d \in Clerks \ {c} : req'[d] = req[d]
  BY DEF ArInv, TypeOK
<1>2. ASSUME NEW d \in Clerks \ {c} PROVE Reads(req'[d], charges', invoices', stale'[d])
  <2>1. req'[d] = req[d] /\ ~ Begins(d)
    BY <1>1 DEF Begins, At
  <2>2. stale'[d] = stale[d] \cup (Written \cap Concerns(d)')
    BY <2>1 DEF StaleNext
  <2>3. Reads(req[d], charges, invoices, stale[d])
    BY DEF BooksInv
  <2>4. Reads(req[d], charges', invoices', stale'[d])
    BY <2>1, <2>2, <2>3, OthersRead
  <2> QED
    BY <2>1, <2>4
<1> QED
  BY <1>1, <1>2 DEF BooksInv

(* One that leaves the ledger alone.                                       *)
LEMMA LedgerAlone ==
  ASSUME ArInv, BooksInv, UNCHANGED <<charges, invoices>>, RacedNext
  PROVE  LedgerStays /\ Written = {} /\ Books(charges', invoices', raced')
<1>1. Books(charges, invoices, raced) /\ raced \subseteq raced'
  BY DEF BooksInv, RacedNext
<1>2. Books(charges', invoices', raced')
  BY <1>1 DEF Books
<1> QED
  BY <1>2 DEF LedgerStays, Written

LEMMA ReadingStep ==
  ASSUME ArInv, BooksInv, StaleNext, RacedNext, NEW c \in Clerks, NEW q,
         req' = [req EXCEPT ![c] = q], UNCHANGED <<charges, invoices>>,
         Reads(q, charges, invoices, IF Begins(c) THEN {} ELSE stale[c])
  PROVE  BooksInv'
<1>1. LedgerStays /\ Written = {} /\ Books(charges', invoices', raced')
  BY LedgerAlone
<1>2. stale'[c] = IF Begins(c) THEN {} ELSE stale[c]
  BY <1>1 DEF StaleNext
<1>3. Reads(q, charges', invoices', stale'[c])
  BY <1>2
<1> QED
  BY <1>1, <1>3, ClerkStep

LEMMA AnswerBooks ==
  ASSUME ArInv, BooksInv, StaleNext, RacedNext, NEW c \in Clerks, Answer(c),
         UNCHANGED <<charges, invoices>>
  PROVE  BooksInv'
<1>1. Reads(Idle, charges, invoices, IF Begins(c) THEN {} ELSE stale[c])
  BY IdleReads DEF Idle
<1> QED
  BY <1>1, ReadingStep DEF Answer

(* Every request that begins reads the ledger as it is.                    *)
LEMMA StartsBooks ==
  ASSUME ArInv, BooksInv, StaleNext, RacedNext, NEW c \in Clerks, Starts(c)
  PROVE  BooksInv'
<1> USE ArAssumption
<1>0. /\ \A q : req' = [req EXCEPT ![c] = q] /\ q.at # "idle" => Begins(c)
      /\ charges \in [Charges -> ChargeRows] /\ invoices \in [Numbers -> InvoiceRows]
  BY DEF ArInv, TypeOK, Starts, StartTransfer, StartPayment, StartInvoice, StartStatus, Begin, Begins, At
<1>1. ASSUME NEW w \in Windows, StartTransfer(c, w) PROVE BooksInv'
  <2> DEFINE q == [Idle EXCEPT !.at = "post", !.window = w, !.amount = local[w].balance]
  <2>1. q.at = "post"
    BY DEF Idle
  <2>2. req' = [req EXCEPT ![c] = q] /\ UNCHANGED <<charges, invoices>>
    BY <1>1 DEF StartTransfer, Begin
  <2> HIDE DEF q
  <2>3. Reads(q, charges, invoices, IF Begins(c) THEN {} ELSE stale[c])
    BY <2>1, IdleReads
  <2> QED
    BY <2>2, <2>3, ReadingStep
<1>2. ASSUME NEW amount \in 1..MaxPaid, StartPayment(c, amount) PROVE BooksInv'
  <2>1. PICK plan \in [Numbers -> 0..amount] :
          /\ PlanAllowed(plan, amount)
          /\ Begin(c, [Idle EXCEPT !.at = "apply", !.amount = amount, !.plan = plan,
                                   !.settles = Settles(plan)])
    BY <1>2 DEF StartPayment
  <2> DEFINE q == [Idle EXCEPT !.at = "apply", !.amount = amount, !.plan = plan,
                               !.settles = Settles(plan)]
  <2>2. q.at = "apply" /\ q.plan = plan /\ q.settles = Settles(plan)
    BY DEF Idle
  <2>3. req' = [req EXCEPT ![c] = q] /\ UNCHANGED <<charges, invoices>>
    BY <1>2, <2>1 DEF StartPayment, Begin
  <2> HIDE DEF q
  <2>4. Begins(c)
    BY <1>0, <2>2, <2>3
  <2>5. PlanHolds(q, invoices, {})
    BY <2>1, <2>2 DEF PlanHolds, PlanAllowed, Open, Outstanding, Settles, Made
  <2>6. Reads(q, charges, invoices, {})
    BY <2>2, <2>5 DEF Reads
  <2> QED
    BY <2>3, <2>4, <2>6, ReadingStep
<1>3. ASSUME NEW stage \in {"number", "issue"}, NEW number, StartInvoice(c, stage, number)
      PROVE  BooksInv'
  <2>1. PICK total \in 1..MaxTotal :
          /\ total = AmountOf(Unbilled)
          /\ Begin(c, [Idle EXCEPT !.at = stage, !.bills = Unbilled, !.total = total,
                                   !.number = number])
    BY <1>3 DEF StartInvoice
  <2> DEFINE q == [Idle EXCEPT !.at = stage, !.bills = Unbilled, !.total = total,
                               !.number = number]
  <2>2. q.at = stage /\ q.bills = Unbilled /\ q.total = total
    BY DEF Idle
  <2>3. req' = [req EXCEPT ![c] = q] /\ UNCHANGED <<charges, invoices>>
    BY <1>3, <2>1 DEF StartInvoice, Begin
  <2> HIDE DEF q
  <2>4. Begins(c)
    BY <1>0, <2>2, <2>3
  <2>5. total = Total(Amounts(charges), Unbilled)
    BY <2>1, AmountIs
  <2>6. BillsHold(q, charges, {})
    BY <2>2, <2>5 DEF BillsHold, Unbilled
  <2>7. Reads(q, charges, invoices, {})
    BY <2>2, <2>6 DEF Reads
  <2> QED
    BY <2>3, <2>4, <2>7, ReadingStep
<1>4. ASSUME NEW n \in Numbers, NEW to \in Settable, StartStatus(c, n, to) PROVE BooksInv'
  <2> DEFINE q == [Idle EXCEPT !.at = "status", !.number = n, !.to = to]
  <2>1. q.at = "status" /\ q.number = n
    BY DEF Idle
  <2>2. req' = [req EXCEPT ![c] = q] /\ UNCHANGED <<charges, invoices>>
    BY <1>4 DEF StartStatus, Begin
  <2> HIDE DEF q
  <2>3. Begins(c)
    BY <1>0, <2>1, <2>2
  <2>4. StatusHolds(q, invoices, {})
    BY <1>4, <2>1 DEF StatusHolds, Stands, Made, StartStatus, MayChange
  <2>5. Reads(q, charges, invoices, {})
    BY <2>1, <2>4 DEF Reads
  <2> QED
    BY <2>2, <2>3, <2>5, ReadingStep
<1> QED
  BY <1>1, <1>2, <1>3, <1>4 DEF Starts

(* OPERA answers, and the number is read.                                  *)
LEMMA AnswersBooks ==
  ASSUME ArInv, BooksInv, StaleNext, RacedNext, NEW c \in Clerks,
         CorePosts(c) \/ CoreKnows(c) \/ TakeNumber(c)
  PROVE  BooksInv'
<1>0. req[c] \in Requests /\ Reads(req[c], charges, invoices, stale[c])
  BY DEF ArInv, TypeOK, BooksInv
<1>1. CASE CorePosts(c) \/ CoreKnows(c)
  <2> DEFINE q == [req[c] EXCEPT !.at = "charge", !.answer = opera'[req[c].window]]
  <2>1. q.at = "charge"
    BY <1>0 DEF Requests
  <2>2. req' = [req EXCEPT ![c] = q] /\ UNCHANGED <<charges, invoices>>
    BY <1>1 DEF CorePosts, CoreKnows, Received, ArInv, TypeOK
  <2> HIDE DEF q
  <2>3. Reads(q, charges, invoices, IF Begins(c) THEN {} ELSE stale[c])
    BY <2>1, IdleReads
  <2> QED
    BY <2>2, <2>3, ReadingStep
<1>2. CASE TakeNumber(c)
  <2> DEFINE q == [req[c] EXCEPT !.at = "issue", !.number = NextNumber]
  <2>1. /\ q.at = "issue" /\ q.bills = req[c].bills /\ q.total = req[c].total
        /\ req[c].at = "number"
    BY <1>0, <1>2 DEF Requests, TakeNumber, At
  <2>2. req' = [req EXCEPT ![c] = q] /\ UNCHANGED <<charges, invoices>>
    BY <1>2 DEF TakeNumber, ArInv, TypeOK
  <2> HIDE DEF q
  <2>3. ~ Begins(c)
    BY <2>1 DEF Begins, At
  <2>4. BillsHold(q, charges, stale[c])
    BY <1>0, <2>1 DEF Reads, BillsHold
  <2>5. Reads(q, charges, invoices, stale[c])
    BY <2>1, <2>4 DEF Reads
  <2> QED
    BY <2>2, <2>3, <2>5, ReadingStep
<1> QED
  BY <1>1, <1>2

-----------------------------------------------------------------------------
(* What a request writes.                                                  *)

(* A new charge is on no invoice.                                          *)
LEMMA AddsCharge ==
  ASSUME ArInv, NEW c \in Clerks, WriteCharge(c)
  PROVE  \E a \in Charges :
           /\ charges[a].amount = 0 /\ charges'[a].amount = req[c].amount
           /\ charges'[a].invoice = NoInvoice
           /\ charges'[a].window = req[c].window
           /\ \A b \in Charges \ {a} : charges'[b] = charges[b]
<1>1. PICK a \in Charges :
        /\ charges[a].amount = 0
        /\ charges' = [charges EXCEPT ![a] =
             [amount |-> req[c].amount, window |-> req[c].window, invoice |-> NoInvoice]]
  BY DEF WriteCharge, AddCharge
<1> QED
  BY <1>1 DEF ArInv, TypeOK

(* The end of a request, once its writing is known to keep the books.      *)
LEMMA WritingStep ==
  ASSUME ArInv, BooksInv, StaleNext, LedgerStays, NEW c \in Clerks, Answer(c),
         Books(charges', invoices', raced')
  PROVE  BooksInv'
<1>1. Reads(Idle, charges', invoices', stale'[c])
  BY IdleReads DEF Idle
<1> QED
  BY <1>1, ClerkStep DEF Answer

LEMMA WriteChargeBooks ==
  ASSUME ArInv, BooksInv, StaleNext, RacedNext, NEW c \in Clerks, WriteCharge(c)
  PROVE  BooksInv'
<1>1. PICK a \in Charges :
        /\ charges[a].amount = 0 /\ charges'[a].invoice = NoInvoice
        /\ \A b \in Charges \ {a} : charges'[b] = charges[b]
  BY AddsCharge
<1>2. charges \in [Charges -> ChargeRows] /\ UNCHANGED invoices /\ Answer(c)
  BY DEF WriteCharge, ArInv, TypeOK
<1>3. ASSUME NEW n \in Numbers
      PROVE  Total(Amounts(charges'), OnIn(charges', n)) = Total(Amounts(charges), OnIn(charges, n))
  <2>1. n # NoInvoice
    BY ArAssumption DEF NoInvoice
  <2>2. a \notin OnIn(charges, n) /\ a \notin OnIn(charges', n)
    BY <1>1, <2>1 DEF OnIn
  <2>3. OnIn(charges', n) = OnIn(charges, n)
    BY <1>1, <2>2 DEF OnIn
  <2>4. \A b \in OnIn(charges, n) : Amounts(charges')[b] = Amounts(charges)[b]
    BY <1>1, <2>2 DEF OnIn, Amounts
  <2>5. IsFiniteSet(OnIn(charges, n))
    BY <1>2, AmountsType DEF OnIn
  <2> QED
    BY <2>3, <2>4, <2>5, TotalSame
<1>4. Books(charges, invoices, raced) /\ raced \subseteq raced'
  BY DEF BooksInv, RacedNext
<1>5. \A b \in Charges : charges'[b].invoice # NoInvoice => charges'[b] = charges[b]
  BY <1>1
<1>6. Books(charges', invoices', raced')
  BY <1>2, <1>3, <1>4, <1>5 DEF Books
<1>7. LedgerStays
  BY <1>1, <1>2 DEF LedgerStays
<1> QED
  BY <1>2, <1>6, <1>7, WritingStep

LEMMA WritePaymentBooks ==
  ASSUME ArInv, BooksInv, StaleNext, RacedNext, NEW c \in Clerks, WritePayment(c)
  PROVE  BooksInv'
<1> DEFINE r == req[c]
<1>1. r \in Requests /\ r.at = "apply" /\ invoices \in [Numbers -> InvoiceRows]
  BY DEF WritePayment, At, ArInv, TypeOK
<1>2. /\ UNCHANGED charges /\ Answer(c)
      /\ \A n \in Numbers : invoices'[n] = Applied(invoices[n], r.plan[n], n \in r.settles)
  BY DEF WritePayment
<1>3. PlanHolds(r, invoices, stale[c]) /\ Books(charges, invoices, raced)
  BY <1>1 DEF BooksInv, Reads
<1>4. ASSUME NEW n \in Numbers
      PROVE  /\ invoices[n].received \in Nat /\ invoices[n].total \in Nat /\ r.plan[n] \in Nat
             /\ invoices'[n].received = invoices[n].received + r.plan[n]
             /\ invoices'[n].total = invoices[n].total
             /\ invoices'[n].st = IF n \in r.settles THEN "PAID" ELSE invoices[n].st
  <2>1. invoices[n] \in InvoiceRows
    BY <1>1
  <2>2. r.plan \in [Numbers -> Nat]
    BY <1>1 DEF Requests
  <2>3. invoices'[n] = [invoices[n] EXCEPT !.received = @ + r.plan[n],
                                           !.st = IF n \in r.settles THEN "PAID" ELSE @]
    BY <1>2 DEF Applied
  <2> HIDE DEF r
  <2> QED
    BY <2>1, <2>2, <2>3 DEF InvoiceRows
<1>5. Ends(c)
  BY <1>1, <1>2 DEF Ends, At, Answer, Idle, ArInv, TypeOK
(* An invoice it writes on stale figures is raced for.                     *)
<1>6. ASSUME NEW n \in Numbers, r.plan[n] > 0, n \notin raced' PROVE n \notin stale[c]
  <2>1. n \in Concerns(c)
    BY <1>6 DEF Concerns
  <2>2. invoices'[n].received # invoices[n].received
    BY <1>4, <1>6
  <2>3. Written # {}
    BY <2>2 DEF Written
  <2> QED
    BY <1>5, <1>6, <2>1, <2>3 DEF RacedNext
<1> HIDE DEF r
<1>7. ASSUME NEW n \in Numbers
      PROVE  /\ r.plan[n] > 0 => Made(invoices[n].st)
             /\ n \in r.settles => r.plan[n] > 0
             /\ r.plan[n] > 0 /\ n \notin raced' =>
                  /\ invoices[n].st \in {"DRAFT", "SENT"}
                  /\ r.plan[n] <= invoices[n].total - invoices[n].received
  BY <1>3, <1>6 DEF PlanHolds
<1>8. ASSUME NEW n \in Numbers
      PROVE  /\ Made(invoices'[n].st) <=> Made(invoices[n].st)
             /\ n \notin raced' => (Stands(invoices'[n].st) <=> Stands(invoices[n].st))
  BY <1>4, <1>7 DEF Made, Stands
<1>9. ASSUME NEW n \in Numbers
      PROVE  /\ ~ Made(invoices'[n].st) => invoices'[n].received = 0
             /\ n \notin raced' =>
                  /\ Stands(invoices'[n].st) =>
                       invoices'[n].total = Total(Amounts(charges), OnIn(charges, n))
                  /\ invoices'[n].received <= invoices'[n].total
  <2>1. ~ Made(invoices[n].st) => r.plan[n] = 0 /\ invoices[n].received = 0
    BY <1>3, <1>4, <1>7 DEF Books
  <2>2. n \notin raced' => n \notin raced
    BY DEF RacedNext
  <2>3. n \notin raced' =>
          /\ Stands(invoices[n].st) => invoices[n].total = Total(Amounts(charges), OnIn(charges, n))
          /\ invoices[n].received <= invoices[n].total
    BY <1>3, <2>2 DEF Books
  <2>4. n \notin raced' => invoices'[n].received <= invoices'[n].total
    BY <1>4, <1>7, <2>3
  <2> QED
    BY <1>4, <1>8, <2>1, <2>3, <2>4
<1>10. ASSUME NEW a \in Charges, charges[a].invoice # NoInvoice
       PROVE  Made(invoices'[charges[a].invoice].st)
  <2>1. charges[a].invoice \in Numbers
    BY <1>10 DEF ArInv, TypeOK, ChargeRows
  <2> QED
    BY <1>3, <1>8, <1>10, <2>1 DEF Books
<1>11. Books(charges', invoices', raced')
  BY <1>2, <1>9, <1>10 DEF Books
<1>12. LedgerStays
  BY <1>2, <1>8 DEF LedgerStays
<1> QED
  BY <1>2, <1>11, <1>12, WritingStep

(* What was billed is what the new invoice asks for; one it takes charges  *)
(* from is raced for.                                                      *)
LEMMA IssueBooks ==
  ASSUME ArInv, BooksInv, StaleNext, RacedNext, NEW c \in Clerks, Issue(c)
  PROVE  BooksInv'
<1> DEFINE r == req[c]
           n == r.number
           B == r.bills
<1>1. /\ r \in Requests /\ r.at = "issue" /\ n \in Numbers /\ n # NoInvoice
      /\ invoices \in [Numbers -> InvoiceRows] /\ charges \in [Charges -> ChargeRows]
  BY ArAssumption DEF Issue, At, ArInv, TypeOK, RequestInv, NoInvoice
<1>2. /\ invoices[n].st = "NONE" /\ Answer(c)
      /\ invoices' = [invoices EXCEPT ![n] = [st |-> "DRAFT", total |-> r.total, received |-> 0]]
      /\ charges' = Billed(r)
  BY DEF Issue
<1>3. Books(charges, invoices, raced) /\ BillsHold(r, charges, stale[c])
  BY <1>1 DEF BooksInv, Reads
<1>4. /\ invoices'[n].st = "DRAFT" /\ invoices'[n].total = r.total /\ invoices'[n].received = 0
      /\ r.total \in Nat /\ 0 <= r.total
      /\ \A m \in Numbers \ {n} : invoices'[m] = invoices[m]
  BY <1>1, <1>2, ArAssumption DEF Requests
<1>5. ASSUME NEW a \in Charges
      PROVE  /\ charges'[a].amount = charges[a].amount
             /\ charges'[a].invoice = IF a \in B THEN n ELSE charges[a].invoice
  BY <1>1, <1>2 DEF Billed, ChargeRows
<1>6. n \in Written
  BY <1>1, <1>2, <1>4 DEF Written
<1>7. Ends(c)
  BY <1>1, <1>2 DEF Ends, At, Answer, Idle, ArInv, TypeOK
<1>8. ASSUME NEW a \in B, NEW m \in Numbers, charges[a].invoice = m PROVE m \in raced'
  <2>1. m \in Concerns(c)
    BY <1>8 DEF Concerns
  <2>2. m \in stale[c]
    BY <1>3, <1>8, ArAssumption DEF BillsHold, NoInvoice
  <2> QED
    BY <1>6, <1>7, <2>1, <2>2 DEF RacedNext
<1>9. /\ B \subseteq Charges /\ r.total = Total(Amounts(charges), B)
      /\ \A a \in B : charges[a].amount > 0
  BY <1>3 DEF BillsHold
<1> HIDE DEF r, n, B
<1>10. Amounts(charges') = Amounts(charges)
  BY <1>5 DEF Amounts
<1>11. OnIn(charges, n) = {}
  BY <1>1, <1>2, <1>3 DEF Books, Made, OnIn
<1>12. OnIn(charges', n) = B
  BY <1>1, <1>5, <1>9, <1>11 DEF OnIn
<1>13. ASSUME NEW m \in Numbers \ {n}, m \notin raced' PROVE OnIn(charges', m) = OnIn(charges, m)
  <2>1. \A a \in B : charges[a].invoice # m
    BY <1>8, <1>13
  <2> QED
    BY <1>5, <1>13, <2>1 DEF OnIn
<1>14. ASSUME NEW a \in Charges, charges'[a].invoice # NoInvoice
       PROVE  Made(invoices'[charges'[a].invoice].st)
  <2>1. CASE a \in B
    BY <1>4, <1>5, <2>1 DEF Made
  <2>2. CASE a \notin B
    <3>1. charges'[a].invoice = charges[a].invoice /\ charges[a].invoice # NoInvoice
      BY <1>5, <1>14, <2>2
    <3>2. charges[a].invoice \in Numbers /\ Made(invoices[charges[a].invoice].st)
      BY <1>1, <1>3, <3>1 DEF Books, ChargeRows
    <3>3. charges[a].invoice # n
      BY <1>2, <3>2 DEF Made
    <3> QED
      BY <1>4, <3>1, <3>2, <3>3
  <2> QED
    BY <2>1, <2>2
<1>15. ASSUME NEW m \in Numbers
       PROVE  /\ ~ Made(invoices'[m].st) => invoices'[m].received = 0
              /\ m \notin raced' =>
                   /\ Stands(invoices'[m].st) =>
                        invoices'[m].total = Total(Amounts(charges'), OnIn(charges', m))
                   /\ invoices'[m].received <= invoices'[m].total
  <2>1. CASE m = n
    BY <1>4, <1>9, <1>10, <1>12, <2>1 DEF Made
  <2>2. CASE m # n
    <3>1. invoices'[m] = invoices[m] /\ (m \notin raced' => m \notin raced)
      BY <1>4, <2>2 DEF RacedNext
    <3>2. m \notin raced' => OnIn(charges', m) = OnIn(charges, m)
      BY <1>13, <2>2
    <3> QED
      BY <1>3, <1>10, <3>1, <3>2 DEF Books
  <2> QED
    BY <2>1, <2>2
<1>16. Books(charges', invoices', raced')
  BY <1>14, <1>15 DEF Books
<1>17. LedgerStays
  <2>1. \A m \in Numbers : Made(invoices[m].st) => Made(invoices'[m].st)
    BY <1>4 DEF Made
  <2> QED
    BY <1>5, <1>6, <2>1 DEF LedgerStays
<1> QED
  BY <1>2, <1>16, <1>17, WritingStep

(* An invoice that is voided frees its charges, and no other.              *)
LEMMA WriteStatusBooks ==
  ASSUME ArInv, BooksInv, StaleNext, RacedNext, NEW c \in Clerks, WriteStatus(c)
  PROVE  BooksInv'
<1> DEFINE r == req[c]
           n == r.number
<1>1. /\ r \in Requests /\ r.at = "status" /\ n \in Numbers /\ n # NoInvoice
      /\ invoices \in [Numbers -> InvoiceRows] /\ charges \in [Charges -> ChargeRows]
  BY ArAssumption DEF WriteStatus, At, ArInv, TypeOK, RequestInv, NoInvoice
<1>2. /\ Answer(c) /\ invoices' = [invoices EXCEPT ![n].st = r.to]
      /\ charges' = Released(n, r.to)
  BY DEF WriteStatus
<1>3. Books(charges, invoices, raced) /\ StatusHolds(r, invoices, stale[c])
      /\ r.to \in InvoiceStatuses
  BY <1>1 DEF BooksInv, Reads, Requests
<1>4. /\ invoices'[n].st = r.to /\ invoices'[n].total = invoices[n].total
      /\ invoices'[n].received = invoices[n].received /\ r.to # "NONE"
      /\ \A m \in Numbers \ {n} : invoices'[m] = invoices[m]
  BY <1>1, <1>2, <1>3 DEF InvoiceRows, InvoiceStatuses
<1>5. ASSUME NEW a \in Charges
      PROVE  /\ charges'[a].amount = charges[a].amount
             /\ charges'[a].invoice = IF r.to = "VOID" /\ charges[a].invoice = n
                                      THEN NoInvoice ELSE charges[a].invoice
  BY <1>1, <1>2 DEF Released, ChargeRows
<1>6. Ends(c)
  BY <1>1, <1>2 DEF Ends, At, Answer, Idle, ArInv, TypeOK
<1>7. n \in Concerns(c)
  BY <1>1 DEF Concerns
<1>8. n \notin raced' => n \notin raced /\ (Stands(invoices[n].st) \/ invoices'[n] = invoices[n])
  <2>1. CASE n \in stale[c]
    <3>1. invoices'[n] # invoices[n] => n \in Written
      BY <1>1 DEF Written
    <3> QED
      BY <1>6, <1>7, <2>1, <3>1 DEF RacedNext
  <2>2. CASE n \notin stale[c]
    BY <1>3, <2>2 DEF StatusHolds, RacedNext
  <2> QED
    BY <2>1, <2>2
<1> HIDE DEF r, n
<1>9. Amounts(charges') = Amounts(charges)
  BY <1>5 DEF Amounts
<1>10. \A m \in Numbers : (m = n /\ r.to = "VOID") \/ OnIn(charges', m) = OnIn(charges, m)
  <2>1. \A m \in Numbers : m # NoInvoice
    BY ArAssumption DEF NoInvoice
  <2> QED
    BY <1>5, <2>1 DEF OnIn
<1>11. ASSUME NEW a \in Charges, charges'[a].invoice # NoInvoice
       PROVE  Made(invoices'[charges'[a].invoice].st)
  <2>1. charges'[a].invoice = charges[a].invoice
    BY <1>5, <1>11
  <2>2. charges[a].invoice \in Numbers /\ Made(invoices[charges[a].invoice].st)
    BY <1>1, <1>3, <1>11, <2>1 DEF Books, ChargeRows
  <2> QED
    BY <1>4, <2>1, <2>2 DEF Made
<1>12. ASSUME NEW m \in Numbers
       PROVE  /\ ~ Made(invoices'[m].st) => invoices'[m].received = 0
              /\ m \notin raced' =>
                   /\ Stands(invoices'[m].st) =>
                        invoices'[m].total = Total(Amounts(charges'), OnIn(charges', m))
                   /\ invoices'[m].received <= invoices'[m].total
  <2>1. CASE m = n
    <3>1. Made(invoices'[m].st)
      BY <1>4, <2>1 DEF Made
    <3>2. ASSUME m \notin raced', Stands(invoices'[m].st)
          PROVE  invoices'[m].total = Total(Amounts(charges'), OnIn(charges', m))
      <4>1. Stands(invoices[m].st) /\ m \notin raced
        BY <1>8, <2>1, <3>2
      <4>2. OnIn(charges', m) = OnIn(charges, m)
        BY <1>4, <1>10, <2>1, <3>2 DEF Stands
      <4> QED
        BY <1>3, <1>4, <1>9, <2>1, <4>1, <4>2 DEF Books
    <3>3. m \notin raced' => invoices'[m].received <= invoices'[m].total
      BY <1>3, <1>4, <1>8, <2>1 DEF Books
    <3> QED
      BY <3>1, <3>2, <3>3
  <2>2. CASE m # n
    <3>1. invoices'[m] = invoices[m] /\ (m \notin raced' => m \notin raced)
      BY <1>4, <2>2 DEF RacedNext
    <3> QED
      BY <1>3, <1>9, <1>10, <2>2, <3>1 DEF Books
  <2> QED
    BY <2>1, <2>2
<1>13. Books(charges', invoices', raced')
  BY <1>11, <1>12 DEF Books
<1>14. LedgerStays
  <2>1. \A m \in Numbers : Made(invoices[m].st) => Made(invoices'[m].st)
    BY <1>4 DEF Made
  <2> QED
    BY <1>5, <2>1 DEF LedgerStays
<1> QED
  BY <1>2, <1>13, <1>14, WritingStep

LEMMA NextBooks ==
  ASSUME ArInv, BooksInv, StaleNext, RacedNext, Next
  PROVE  BooksInv'
<1>1. ASSUME UNCHANGED <<charges, invoices, req>> PROVE BooksInv'
  <2>1. LedgerStays /\ Written = {} /\ Books(charges', invoices', raced')
    BY <1>1, LedgerAlone
  <2>2. \A c \in Clerks : ~ Begins(c)
    BY <1>1 DEF Begins, At
  <2>3. \A c \in Clerks : stale'[c] = stale[c]
    BY <2>1, <2>2 DEF StaleNext
  <2> QED
    BY <1>1, <2>1, <2>3 DEF BooksInv
<1>2. ASSUME NEW c \in Clerks, UpdateAccount(c) PROVE UNCHANGED <<charges, invoices, req>>
  BY <1>2 DEF UpdateAccount
<1>3. ASSUME NEW c \in Clerks, CoreRefuses(c) \/ IssueTaken(c) \/ CoreSilent(c) \/ Dies(c)
      PROVE  BooksInv'
  <2>1. Answer(c) /\ UNCHANGED <<charges, invoices>>
    BY <1>3 DEF CoreRefuses, IssueTaken, CoreSilent, Dies
  <2> QED
    BY <2>1, AnswerBooks
<1>4. ASSUME NEW w \in Windows, FolioMoves(w) \/ CopyWindow(w) \/ CloseWindow(w)
      PROVE  UNCHANGED <<charges, invoices, req>>
  BY <1>4 DEF FolioMoves, CopyWindow, CloseWindow
<1> QED
  BY <1>1, <1>2, <1>3, <1>4, StartsBooks, AnswersBooks, WriteChargeBooks,
     WritePaymentBooks, IssueBooks, WriteStatusBooks DEF Next, Resumes

LEMMA BooksAlways == HSpec => [](ArInv /\ BooksInv)
<1>1. HInit => BooksInv
  <2> SUFFICES ASSUME HInit PROVE BooksInv
    OBVIOUS
  <2>1. \A c \in Clerks : Reads(req[c], charges, invoices, stale[c])
    BY IdleReads DEF HInit, Init, Idle
  <2>2. /\ \A a \in Charges : charges[a].invoice = NoInvoice
        /\ \A n \in Numbers : invoices[n].st = "NONE" /\ invoices[n].received = 0
                              /\ invoices[n].total = 0
    BY DEF HInit, Init, NoCharge, NoInvoiceRow
  <2> QED
    BY <2>1, <2>2 DEF BooksInv, Books, Made, Stands
<1>2. ArInv /\ BooksInv /\ [HNext]_hvars => BooksInv'
  <2> SUFFICES ASSUME ArInv, BooksInv, [HNext]_hvars PROVE BooksInv'
    OBVIOUS
  <2>1. CASE HNext
    <3>1. StaleNext /\ Next
      BY <2>1 DEF HNext, StaleNext
    <3>2. RacedNext
      BY <2>1 DEF HNext, RacedNext
    <3> QED
      BY <3>1, <3>2, NextBooks
  <2>2. CASE UNCHANGED hvars
    BY <2>2 DEF hvars, vars, BooksInv
  <2> QED
    BY <2>1, <2>2
<1> QED
  BY <1>1, <1>2, ArInvariant, HistoryOfLedger, PTL DEF HSpec

-----------------------------------------------------------------------------
(* What a step does to the rows of the ledger.                             *)

(* Only a transfer touches what is charged, and for which window.          *)
LEMMA RowsStay ==
  ASSUME ArInv, [Next]_vars, \A c \in Clerks : ~ WriteCharge(c)
  PROVE  \A a \in Charges : /\ charges'[a].amount = charges[a].amount
                            /\ charges'[a].window = charges[a].window
<1>0. charges \in [Charges -> ChargeRows]
  BY DEF ArInv, TypeOK
<1>1. CASE UNCHANGED charges
  BY <1>1
<1>2. ASSUME NEW c \in Clerks, Issue(c)
      PROVE  \A a \in Charges : /\ charges'[a].amount = charges[a].amount
                                /\ charges'[a].window = charges[a].window
  BY <1>0, <1>2 DEF Issue, Billed, ChargeRows
<1>3. ASSUME NEW c \in Clerks, WriteStatus(c)
      PROVE  \A a \in Charges : /\ charges'[a].amount = charges[a].amount
                                /\ charges'[a].window = charges[a].window
  BY <1>0, <1>3 DEF WriteStatus, Released, ChargeRows
<1>4. \/ UNCHANGED charges
      \/ \E c \in Clerks : Issue(c) \/ WriteStatus(c)
  <2>1. ASSUME NEW c \in Clerks, Starts(c) PROVE UNCHANGED charges
    BY <2>1 DEF Starts, StartTransfer, StartPayment, StartInvoice, StartStatus
  <2>2. ASSUME NEW c \in Clerks, Resumes(c)
        PROVE  UNCHANGED charges \/ Issue(c) \/ WriteStatus(c)
    BY <2>2 DEF Resumes, CorePosts, CoreKnows, CoreRefuses, WritePayment, TakeNumber, IssueTaken
  <2>3. ASSUME NEW c \in Clerks, CoreSilent(c) \/ Dies(c) \/ UpdateAccount(c)
        PROVE  UNCHANGED charges
    BY <2>3 DEF CoreSilent, Dies, UpdateAccount
  <2>4. ASSUME NEW w \in Windows, FolioMoves(w) \/ CopyWindow(w) \/ CloseWindow(w)
        PROVE  UNCHANGED charges
    BY <2>4 DEF FolioMoves, CopyWindow, CloseWindow
  <2>5. UNCHANGED vars => UNCHANGED charges
    BY DEF vars
  <2> QED
    BY <2>1, <2>2, <2>3, <2>4, <2>5 DEF Next
<1> QED
  BY <1>1, <1>2, <1>3, <1>4

(* A transfer adds its amount to what is charged.                          *)
LEMMA ChargeAdds ==
  ASSUME ArInv, NEW c \in Clerks, WriteCharge(c)
  PROVE  Total(Amounts(charges'), Charges) = Total(Amounts(charges), Charges) + req[c].amount
<1> DEFINE f == Amounts(charges)
           g == Amounts(charges')
<1>0. charges \in [Charges -> ChargeRows] /\ charges' \in [Charges -> ChargeRows]
  BY WriteChargeInv DEF ArInv, TypeOK
<1>1. PICK a \in Charges :
        /\ charges[a].amount = 0 /\ charges'[a].amount = req[c].amount
        /\ \A b \in Charges \ {a} : charges'[b] = charges[b]
  BY AddsCharge
<1>2. /\ f[a] = 0 /\ g[a] = req[c].amount
      /\ \A b \in Charges \ {a} : f[b] = g[b]
  BY <1>1 DEF Amounts
<1>3. /\ IsFiniteSet(Charges) /\ IsFiniteSet(Charges \ {a})
      /\ \A x \in Charges : f[x] \in Int /\ g[x] \in Int
      /\ Total(f, Charges \ {a}) \in Int /\ Total(g, Charges \ {a}) \in Int
  BY <1>0, AmountsType
<1> HIDE DEF f, g
<1>4. /\ Total(f, Charges) = f[a] + Total(f, Charges \ {a})
      /\ Total(g, Charges) = g[a] + Total(g, Charges \ {a})
  BY <1>3, TotalTakes
<1>5. Total(f, Charges \ {a}) = Total(g, Charges \ {a})
  BY <1>2, <1>3, TotalSame
<1>6. g[a] \in Int
  BY <1>3
<1>7. Total(g, Charges) = Total(f, Charges) + req[c].amount
  BY <1>2, <1>3, <1>4, <1>5, <1>6
<1> QED
  BY <1>7 DEF f, g

LEMMA PayingLowers ==
  \A charged, before, after \in Int :
    after >= before => ~ (charged - after > charged - before)
OBVIOUS

(* Whose request changes in a step.                                        *)
LEMMA Acts ==
  ASSUME ArInv, Next, NEW c \in Clerks, req'[c] # req[c]
  PROVE  Starts(c) \/ Resumes(c) \/ CoreSilent(c) \/ Dies(c)
<1>0. req \in [Clerks -> Requests]
  BY DEF ArInv, TypeOK
<1>1. ASSUME NEW d \in Clerks, Starts(d) \/ Resumes(d) \/ CoreSilent(d) \/ Dies(d) PROVE d = c
  <2>1. ASSUME Starts(d) PROVE \E q : req' = [req EXCEPT ![d] = q]
    BY <2>1 DEF Starts, StartTransfer, StartPayment, StartInvoice, StartStatus, Begin
  <2>2. ASSUME Resumes(d) PROVE \E q : req' = [req EXCEPT ![d] = q]
    BY <2>2 DEF Resumes, CorePosts, CoreKnows, CoreRefuses, WriteCharge, WritePayment, TakeNumber,
       IssueTaken, Issue, WriteStatus, Received, Answer
  <2>3. ASSUME CoreSilent(d) \/ Dies(d) PROVE \E q : req' = [req EXCEPT ![d] = q]
    BY <2>3 DEF CoreSilent, Dies, Answer
  <2> QED
    BY <1>0, <1>1, <2>1, <2>2, <2>3
<1>2. ASSUME NEW d \in Clerks, UpdateAccount(d) PROVE FALSE
  BY <1>2 DEF UpdateAccount
<1>3. ASSUME NEW w \in Windows, FolioMoves(w) \/ CopyWindow(w) \/ CloseWindow(w) PROVE FALSE
  BY <1>3 DEF FolioMoves, CopyWindow, CloseWindow
<1> QED
  BY <1>1, <1>2, <1>3 DEF Next

Transfers(q) == q.at \in {"post", "charge"}

LEMMA TransferBegins ==
  ASSUME ArInv, Next, NEW c \in Clerks, Begins(c), Transfers(req'[c])
  PROVE  /\ account.limit # NoLimit => Balance + req'[c].amount <= account.limit
         /\ UNCHANGED <<charges, paid>>
<1>0. req[c].at = "idle" /\ req'[c].at # "idle" /\ req \in [Clerks -> Requests]
  BY DEF Begins, At, ArInv, TypeOK
<1>1. Starts(c)
  <2>1. Starts(c) \/ Resumes(c) \/ CoreSilent(c) \/ Dies(c)
    BY <1>0, Acts
  <2> QED
    BY <1>0, <2>1 DEF Resumes, CorePosts, CoreKnows, CoreRefuses, WriteCharge, WritePayment, TakeNumber,
       IssueTaken, Issue, WriteStatus, CoreSilent, Dies, At
<1>2. ASSUME NEW w \in Windows, StartTransfer(c, w)
      PROVE  /\ account.limit # NoLimit => Balance + req'[c].amount <= account.limit
             /\ UNCHANGED <<charges, paid>>
  <2>1. req'[c] = [Idle EXCEPT !.at = "post", !.window = w, !.amount = local[w].balance]
    BY <1>0, <1>2 DEF StartTransfer, Begin
  <2>2. req'[c].amount = local[w].balance
    BY <2>1 DEF Idle
  <2> QED
    BY <1>2, <2>2 DEF StartTransfer, WithinLimit
<1>3. ASSUME NEW amount, StartPayment(c, amount) PROVE FALSE
  <2>1. PICK plan : req'[c] = [Idle EXCEPT !.at = "apply", !.amount = amount, !.plan = plan,
                                           !.settles = Settles(plan)]
    BY <1>0, <1>3 DEF StartPayment, Begin
  <2> QED
    BY <2>1 DEF Transfers, Idle
<1>4. ASSUME NEW stage \in {"number", "issue"}, NEW number, StartInvoice(c, stage, number) PROVE FALSE
  <2>1. PICK total : req'[c] = [Idle EXCEPT !.at = stage, !.bills = Unbilled, !.total = total,
                                            !.number = number]
    BY <1>0, <1>4 DEF StartInvoice, Begin
  <2> QED
    BY <2>1 DEF Transfers, Idle
<1>5. ASSUME NEW n, NEW to, StartStatus(c, n, to) PROVE FALSE
  <2>1. req'[c] = [Idle EXCEPT !.at = "status", !.number = n, !.to = to]
    BY <1>0, <1>5 DEF StartStatus, Begin
  <2> QED
    BY <2>1 DEF Transfers, Idle
<1> QED
  BY <1>1, <1>2, <1>3, <1>4, <1>5 DEF Starts

LEMMA TransferGoesOn ==
  ASSUME ArInv, Next, NEW c \in Clerks, ~ Begins(c), Transfers(req'[c])
  PROVE  Transfers(req[c]) /\ req'[c].amount = req[c].amount
<1>0. req[c].at # "idle" /\ req'[c].at # "idle" /\ req \in [Clerks -> Requests]
  BY DEF Begins, At, Transfers
    , ArInv, TypeOK
<1>1. CASE req'[c] = req[c]
  BY <1>1
<1>2. CASE req'[c] # req[c]
  <2>1. Starts(c) \/ Resumes(c) \/ CoreSilent(c) \/ Dies(c)
    BY <1>2, Acts
  <2>2. ~ Starts(c)
    BY <1>0 DEF Starts, StartTransfer, StartPayment, StartInvoice, StartStatus, Begin, At
  <2>3. ~ Answer(c)
    BY <1>0 DEF Answer, Idle
  <2>4. CorePosts(c) \/ CoreKnows(c) \/ TakeNumber(c)
    BY <2>1, <2>2, <2>3 DEF Resumes, CoreRefuses, WriteCharge, WritePayment, IssueTaken, Issue,
       WriteStatus, CoreSilent, Dies
  <2>5. CASE CorePosts(c) \/ CoreKnows(c)
    <3>1. req[c].at = "post" /\ req[c] \in Requests
          /\ req'[c] = [req[c] EXCEPT !.at = "charge", !.answer = opera'[req[c].window]]
      BY <1>0, <2>5 DEF CorePosts, CoreKnows, Received, At
    <3> QED
      BY <3>1 DEF Transfers, Requests
  <2>6. CASE TakeNumber(c)
    <3>1. req[c] \in Requests /\ req'[c] = [req[c] EXCEPT !.at = "issue", !.number = NextNumber]
      BY <1>0, <2>6 DEF TakeNumber
    <3> QED
      BY <3>1 DEF Transfers, Requests
  <2> QED
    BY <2>4, <2>5, <2>6
<1> QED
  BY <1>1, <1>2

(* What is charged never shrinks, and what is paid neither.                *)
LEMMA SumsGrow ==
  ASSUME ArInv, Next
  PROVE  LET now == Total(Amounts(charges), Charges)
             next == Total(Amounts(charges'), Charges)
         IN  /\ now \in Int /\ next \in Int /\ next - now \in Nat
             /\ paid \in Int /\ paid' \in Int /\ paid' >= paid
<1> DEFINE now == Total(Amounts(charges), Charges)
           next == Total(Amounts(charges'), Charges)
<1>1. ArInv'
  BY NextInv
<1>2. now \in Int /\ next \in Int /\ paid \in Int /\ paid' \in Int
      /\ \A c \in Clerks : req[c] \in Requests
  BY <1>1, AmountsType, ArAssumption DEF ArInv, TypeOK
<1>3. next - now \in Nat
  <2>1. ASSUME NEW c \in Clerks, WriteCharge(c) PROVE next - now \in Nat
    <3>1. next = now + req[c].amount /\ req[c].amount \in Nat
      BY <1>2, <2>1, ChargeAdds DEF Requests
    <3> HIDE DEF now, next
    <3> QED
      BY <1>2, <3>1
  <2>2. ASSUME \A c \in Clerks : ~ WriteCharge(c) PROVE next - now \in Nat
    <3>1. \A a \in Charges : charges'[a].amount = charges[a].amount
      BY <2>2, RowsStay
    <3>2. next = now
      BY <3>1 DEF Amounts
    <3> HIDE DEF now, next
    <3> QED
      BY <1>2, <3>2
  <2> QED
    BY <2>1, <2>2
<1>4. paid' >= paid
  <2>1. ASSUME NEW c \in Clerks, WritePayment(c) PROVE paid' >= paid
    BY <1>2, <2>1 DEF WritePayment, Requests
  <2>2. UNCHANGED paid \/ \E c \in Clerks : WritePayment(c)
    BY DEF Next, vars, Starts, Resumes, StartTransfer, StartPayment, StartInvoice,
       StartStatus, CorePosts, CoreKnows, CoreRefuses, WriteCharge, TakeNumber, IssueTaken, Issue,
       WriteStatus, CoreSilent, Dies, UpdateAccount, FolioMoves, CopyWindow, CloseWindow
  <2> QED
    BY <1>2, <2>1, <2>2
<1> QED
  BY <1>2, <1>3, <1>4

ReachInv ==
  \A c \in Clerks : reach[c] # NoLimit =>
    /\ reach[c] \in Nat
    /\ Transfers(req[c]) => Balance + req[c].amount <= reach[c]

LEMMA Reaching ==
  \A charged, more, before, after, amount, far \in Int :
    after >= before /\ charged - before + amount <= far
      => charged + more - after + amount <= far + more
OBVIOUS

LEMMA NextReach ==
  ASSUME ArInv, ReachInv, Next, \A c \in Clerks : reach'[c] = Reach(c)
  PROVE  ReachInv'
<1> DEFINE now == Total(Amounts(charges), Charges)
           next == Total(Amounts(charges'), Charges)
           more == next - now
<1>1. /\ now \in Int /\ next \in Int /\ more \in Nat /\ next = now + more
      /\ paid \in Int /\ paid' \in Int /\ paid' >= paid
  BY SumsGrow
<1>2. /\ Balance = now - paid /\ Balance' = next - paid'
      /\ AmountOf(Charges) = now /\ AmountOf(Charges)' = next
  BY AmountIs, AmountIsNext DEF Balance
<1> HIDE DEF now, next, more
<1> SUFFICES ASSUME NEW c \in Clerks, reach'[c] # NoLimit
             PROVE  /\ reach'[c] \in Nat
                    /\ Transfers(req'[c]) => Balance' + req'[c].amount <= reach'[c]
  BY DEF ReachInv
<1>3. ArInv'
  BY NextInv
<1>4. req[c] \in Requests /\ req'[c] \in Requests /\ account.limit \in Limits \cup {NoLimit}
      /\ Limits \subseteq Nat
  BY <1>3, ArAssumption DEF ArInv, TypeOK
<1>5. CASE Begins(c)
  <2>1. reach'[c] = account.limit /\ account.limit \in Nat
    BY <1>4, <1>5 DEF Reach
  <2>2. ASSUME Transfers(req'[c]) PROVE Balance' + req'[c].amount <= reach'[c]
    <3>1. /\ account.limit # NoLimit => Balance + req'[c].amount <= account.limit
          /\ UNCHANGED <<charges, paid>>
      BY <1>5, <2>2, TransferBegins
    <3>2. now = next
      BY <3>1 DEF now, next
    <3> QED
      BY <1>2, <2>1, <3>1, <3>2
  <2> QED
    BY <2>1, <2>2
<1>6. CASE ~ Begins(c)
  <2>1. reach[c] # NoLimit /\ reach'[c] = reach[c] + next - now
    BY <1>2, <1>6 DEF Reach
  <2>2. reach[c] \in Nat /\ reach'[c] = reach[c] + more
    BY <1>1, <2>1 DEF ReachInv
  <2>3. ASSUME Transfers(req'[c]) PROVE Balance' + req'[c].amount <= reach'[c]
    <3>1. Transfers(req[c]) /\ req'[c].amount = req[c].amount /\ req[c].amount \in Int
      BY <1>4, <1>6, <2>3, TransferGoesOn DEF Requests
    <3>2. now - paid + req[c].amount <= reach[c]
      BY <1>2, <2>1, <3>1 DEF ReachInv
    <3>3. now + more - paid' + req[c].amount <= reach[c] + more
      BY <1>1, <2>2, <3>1, <3>2, Reaching
    <3> QED
      BY <1>1, <1>2, <2>2, <3>1, <3>3
  <2> QED
    BY <1>1, <2>2, <2>3
<1> QED
  BY <1>5, <1>6

(* Between the check of the limit and the charge others may charge too: a  *)
(* transfer takes the account over the limit it read by no more than what  *)
(* they charged meanwhile (transferFolio).                                 *)
THEOREM ChargeWithinLimitAlways == HSpec => ChargeWithinLimit
<1>1. HInit => ReachInv
  BY DEF HInit, ReachInv
<1>2. ASSUME ArInv, ReachInv, [HNext]_hvars PROVE ReachInv'
  <2>1. CASE HNext
    <3>1. Next /\ \A c \in Clerks : reach'[c] = Reach(c)
      BY <2>1 DEF HNext
    <3> QED
      BY <1>2, <3>1, NextReach
  <2>2. CASE UNCHANGED hvars
    <3>1. Balance' = Balance
      BY <2>2, AmountIs, AmountIsNext DEF hvars, vars, Balance
    <3> QED
      BY <1>2, <2>2, <3>1 DEF hvars, vars, ReachInv
  <2> QED
    BY <1>2, <2>1, <2>2
<1>3. ASSUME ArInv, ReachInv
      PROVE  [\A c \in Clerks :
                WriteCharge(c) /\ reach[c] # NoLimit => Balance' <= reach[c]]_hvars
  <2> SUFFICES ASSUME NEW c \in Clerks, WriteCharge(c), reach[c] # NoLimit
               PROVE  Balance' <= reach[c]
    OBVIOUS
  <2> DEFINE now == Total(Amounts(charges), Charges)
             next == Total(Amounts(charges'), Charges)
  <2>1. Balance = now - paid /\ Balance' = next - paid'
    BY AmountIs, AmountIsNext DEF Balance
  <2>2. next = now + req[c].amount
    BY <1>3, ChargeAdds
  <2>3. paid' = paid /\ Transfers(req[c])
    BY DEF WriteCharge, At, Transfers
  <2>4. Balance + req[c].amount <= reach[c]
    BY <1>3, <2>3 DEF ReachInv
  <2>5. now \in Int /\ paid \in Int /\ req[c].amount \in Int
    BY <1>3, AmountsType, ArAssumption DEF ArInv, TypeOK, Requests
  <2> HIDE DEF now, next
  <2> QED
    BY <2>1, <2>2, <2>3, <2>4, <2>5
<1> QED
  BY <1>1, <1>2, <1>3, ArInvariant, HistoryOfLedger, PTL DEF HSpec, ChargeWithinLimit

-----------------------------------------------------------------------------
(* What OPERA took off a window is charged, unless a request was cut off.  *)

ChargedOrDue(w) ==
  \/ \E a \in Charges : charges[a].amount > 0 /\ charges[a].window = w
  \/ ChargeDue(w)
  \/ w \in lost

TransferInv == \A w \in Windows : opera[w].transferred > 0 => ChargedOrDue(w)

(* It survives what takes no further amount and drops no charge due.       *)
LEMMA TransferKept ==
  ASSUME TransferInv, lost \subseteq lost',
         \A w \in Windows : opera'[w].transferred > 0 =>
           opera[w].transferred > 0 \/ ChargedOrDue(w)',
         \A a \in Charges : charges[a].amount > 0 =>
           charges'[a].amount > 0 /\ charges'[a].window = charges[a].window,
         \A c \in Clerks : req[c].at = "charge" =>
           req'[c] = req[c] \/ (\A w \in Windows : req[c].window = w => ChargedOrDue(w)')
  PROVE  TransferInv'
<1> SUFFICES ASSUME NEW w \in Windows, opera[w].transferred > 0 PROVE ChargedOrDue(w)'
  BY DEF TransferInv
<1>1. CASE \E a \in Charges : charges[a].amount > 0 /\ charges[a].window = w
  BY <1>1 DEF ChargedOrDue
<1>2. CASE \E c \in Clerks : req[c].at = "charge" /\ req[c].window = w
  BY <1>2 DEF ChargedOrDue, ChargeDue, At
<1>3. CASE w \in lost
  BY <1>3 DEF ChargedOrDue
<1> QED
  BY <1>1, <1>2, <1>3 DEF TransferInv, ChargedOrDue, ChargeDue, At

LEMMA NextTransfer ==
  ASSUME ArInv, TransferInv, Next, lost \subseteq lost',
         \A c \in Clerks : CutOff(c) => req[c].window \in lost'
  PROVE  TransferInv'
<1>0. /\ opera \in [Windows -> Folio] /\ charges \in [Charges -> ChargeRows]
      /\ req \in [Clerks -> Requests]
  BY DEF ArInv, TypeOK
<1> DEFINE Rows == \A a \in Charges : charges[a].amount > 0 =>
                     charges'[a].amount > 0 /\ charges'[a].window = charges[a].window
           Taken == \A w \in Windows : opera'[w].transferred > 0 =>
                      opera[w].transferred > 0 \/ ChargedOrDue(w)'
           Due == \A c \in Clerks : req[c].at = "charge" =>
                    req'[c] = req[c] \/ (\A w \in Windows : req[c].window = w => ChargedOrDue(w)')
<1>1. Rows
  <2>1. ASSUME NEW c \in Clerks, WriteCharge(c) PROVE Rows
    <3>1. PICK a \in Charges :
            charges[a].amount = 0 /\ \A b \in Charges \ {a} : charges'[b] = charges[b]
      BY <2>1, AddsCharge
    <3> QED
      BY <3>1
  <2> QED
    BY <2>1, RowsStay
<1>2. Taken
  <2>1. ASSUME NEW c \in Clerks, CorePosts(c) PROVE Taken
    <3>1. req'[c].at = "charge" /\ req'[c].window = req[c].window
      <4>1. req'[c] = [req[c] EXCEPT !.at = "charge", !.answer = opera'[req[c].window]]
            /\ req[c] \in Requests
        BY <1>0, <2>1 DEF CorePosts, Received
      <4> QED
        BY <4>1 DEF Requests
    <3>2. \A w \in Windows : w = req[c].window => ChargedOrDue(w)'
      BY <3>1 DEF ChargedOrDue, ChargeDue, At
    <3>3. \A w \in Windows : w # req[c].window => opera'[w] = opera[w]
      BY <1>0, <2>1 DEF CorePosts, OperaPosts
    <3> QED
      BY <3>2, <3>3
  <2>2. ASSUME NEW w \in Windows, FolioMoves(w) PROVE Taken
    <3>1. PICK b \in Balances : opera' = [opera EXCEPT ![w].balance = b]
      BY <2>2 DEF FolioMoves
    <3>2. \A v \in Windows : opera'[v].transferred = opera[v].transferred
      BY <1>0, <3>1 DEF Folio
    <3> QED
      BY <3>2
  <2>3. ASSUME NEW w \in Windows, CloseWindow(w) PROVE Taken
    <3>1. \A v \in Windows : opera'[v].transferred = opera[v].transferred
      BY <1>0, <2>3 DEF CloseWindow, Folio
    <3> QED
      BY <3>1
  <2>4. UNCHANGED opera => Taken
    OBVIOUS
  <2>5. ASSUME NEW c \in Clerks, Starts(c) \/ Resumes(c) PROVE UNCHANGED opera \/ CorePosts(c)
    BY <2>5 DEF Starts, Resumes, StartTransfer, StartPayment, StartInvoice, StartStatus,
       CoreKnows, CoreRefuses, WriteCharge, WritePayment, TakeNumber, IssueTaken, Issue, WriteStatus
  <2>6. ASSUME NEW c \in Clerks, Dies(c) \/ UpdateAccount(c) PROVE UNCHANGED opera
    BY <2>6 DEF Dies, UpdateAccount
  <2>7. ASSUME NEW w \in Windows, CopyWindow(w) PROVE UNCHANGED opera
    BY <2>7 DEF CopyWindow
  <2>8. ASSUME NEW c \in Clerks, CoreSilent(c), opera' # opera PROVE Taken
    <3>1. OperaPosts(req[c].window, req[c].amount)
      BY <2>8 DEF CoreSilent
    <3>2. req[c].window \in lost'
      BY <2>8 DEF CutOff
    <3>3. \A w \in Windows : w = req[c].window => ChargedOrDue(w)'
      BY <3>2 DEF ChargedOrDue
    <3>4. \A w \in Windows : w # req[c].window => opera'[w] = opera[w]
      BY <1>0, <3>1 DEF OperaPosts
    <3> QED
      BY <3>3, <3>4
  <2> HIDE DEF Taken
  <2> QED
    BY <2>1, <2>2, <2>3, <2>4, <2>5, <2>6, <2>7, <2>8 DEF Next
<1>3. Due
  <2>1. ASSUME NEW c \in Clerks, WriteCharge(c) PROVE Due
    <3>1. req[c].amount > 0
      BY <2>1 DEF ArInv, RequestInv, WriteCharge, At
    <3>2. PICK a \in Charges : charges'[a].amount = req[c].amount /\ charges'[a].window = req[c].window
      BY <2>1, AddsCharge
    <3>3. \A w \in Windows : req[c].window = w => ChargedOrDue(w)'
      BY <3>1, <3>2 DEF ChargedOrDue
    <3>4. \A d \in Clerks \ {c} : req'[d] = req[d]
      BY <1>0, <2>1 DEF WriteCharge, Answer
    <3> QED
      BY <3>3, <3>4
  <2>2. ASSUME NEW c \in Clerks, req[c].at # "charge", \A d \in Clerks \ {c} : req'[d] = req[d]
        PROVE  Due
    BY <2>2
  <2>3. ASSUME NEW c \in Clerks, NEW q, req' = [req EXCEPT ![c] = q]
        PROVE  \A d \in Clerks \ {c} : req'[d] = req[d]
    BY <1>0, <2>3
  <2>4. ASSUME NEW c \in Clerks, Starts(c) PROVE Due
    <3>1. req[c].at = "idle" /\ \E q : req' = [req EXCEPT ![c] = q]
      BY <2>4 DEF Starts, StartTransfer, StartPayment, StartInvoice, StartStatus, Begin, At
    <3> HIDE DEF Due
    <3> QED
      BY <2>2, <2>3, <3>1
  <2>5. ASSUME NEW c \in Clerks, Resumes(c), ~ WriteCharge(c) PROVE Due
    <3>1. req[c].at # "charge" /\ \E q : req' = [req EXCEPT ![c] = q]
      BY <2>5 DEF Resumes, CorePosts, CoreKnows, CoreRefuses, WritePayment, TakeNumber, IssueTaken,
         Issue, WriteStatus, Received, Answer, At
    <3> HIDE DEF Due
    <3> QED
      BY <2>2, <2>3, <3>1
  <2>6. UNCHANGED req => Due
    OBVIOUS
  <2>7. ASSUME NEW c \in Clerks, CoreSilent(c) \/ Dies(c) PROVE Due
    <3>1. req' = [req EXCEPT ![c] = Idle]
      BY <2>7 DEF CoreSilent, Dies, Answer
    <3>2. req[c].at = "charge" => req[c].window \in lost'
      BY <2>7 DEF CutOff, CoreSilent, At
    <3>3. req[c].at = "charge" => \A w \in Windows : req[c].window = w => ChargedOrDue(w)'
      BY <3>2 DEF ChargedOrDue
    <3>4. \A d \in Clerks \ {c} : req'[d] = req[d]
      BY <2>3, <3>1
    <3> QED
      BY <3>3, <3>4
  <2>8. ASSUME NEW c \in Clerks, UpdateAccount(c) PROVE UNCHANGED req
    BY <2>8 DEF UpdateAccount
  <2>9. ASSUME NEW w \in Windows, FolioMoves(w) \/ CopyWindow(w) \/ CloseWindow(w)
        PROVE  UNCHANGED req
    BY <2>9 DEF FolioMoves, CopyWindow, CloseWindow
  <2> HIDE DEF Due
  <2> QED
    BY <2>1, <2>4, <2>5, <2>6, <2>7, <2>8, <2>9 DEF Next
<1> QED
  BY <1>1, <1>2, <1>3, TransferKept

(* "Both must hold" (transferFolio): however many clerks transfer, and     *)
(* whatever fails, what was taken off a window in OPERA is on the account, *)
(* or about to be, unless the request was cut off after OPERA took it; and *)
(* a transfer overcharges the account by no more than others charged while *)
(* it was under way.                                                       *)
THEOREM TransfersAreSoundAlways == HSpec => TransfersAreSound
<1>1. HInit => TransferInv
  BY DEF HInit, Init, TransferInv, NewFolio
<1>2. ArInv /\ TransferInv /\ [HNext]_hvars => TransferInv'
  <2> SUFFICES ASSUME ArInv, TransferInv, [HNext]_hvars PROVE TransferInv'
    OBVIOUS
  <2>1. CASE HNext
    <3>1. Next /\ lost \subseteq lost' /\ \A c \in Clerks : CutOff(c) => req[c].window \in lost'
      BY <2>1 DEF HNext
    <3> QED
      BY <3>1, NextTransfer
  <2>2. CASE UNCHANGED hvars
    BY <2>2 DEF hvars, vars, TransferInv, ChargedOrDue, ChargeDue, At
  <2> QED
    BY <2>1, <2>2
<1>3. TransferInv => TransferIsCharged
  BY DEF TransferInv, TransferIsCharged, ChargedOrDue, ChargedFor
<1> QED
  BY <1>1, <1>2, <1>3, ArInvariant, HistoryOfLedger, ChargeWithinLimitAlways, PTL
     DEF HSpec, TransfersAreSound

-----------------------------------------------------------------------------
(* Numbers are compared as strings, and the last of them is the largest as *)
(* long as they are all written with as many digits.                       *)

LEMMA RankGrows ==
  ASSUME NEW m \in Nat, NEW n \in Nat, m < n, m <= Padded, n <= Padded
  PROVE  Rank(m) < Rank(n) /\ Rank(m) \in Nat /\ Rank(n) \in Nat
<1>1. Base \in Nat /\ Base > 0
  BY ArAssumption
<1>2. PICK k \in Nat : n = m + 1 + k
  <2>1. n - m - 1 \in Nat /\ n = m + 1 + (n - m - 1)
    OBVIOUS
  <2> QED
    BY <2>1
<1>3. k * Base \in Nat /\ m * Base \in Nat /\ n * Base \in Nat
  BY <1>1, <1>2
<1>4. n * Base = m * Base + Base + k * Base
  BY <1>1, <1>2
<1>5. Rank(m) = m * Base /\ Rank(n) = n * Base
  BY DEF Rank
<1>6. m * Base < n * Base
  BY <1>1, <1>3, <1>4
<1> QED
  BY <1>3, <1>5, <1>6

LEMMA NumberIsFree ==
  ASSUME \A n \in Used : n <= Padded
  PROVE  NextNumber \notin Used
<1>0. Used \subseteq Numbers /\ Numbers \subseteq Nat /\ Padded \in Nat
  BY ArAssumption DEF Used
<1>1. CASE Used = {}
  BY <1>1 DEF NextNumber
<1>2. CASE Used # {}
  <2> DEFINE T == { Padded - n : n \in Used }
  <2>1. T \subseteq Nat /\ T # {}
    <3>1. ASSUME NEW n \in Used PROVE Padded - n \in Nat
      <4>1. n \in Nat /\ n <= Padded /\ Padded \in Nat
        BY <1>0
      <4> QED
        BY <4>1
    <3> QED
      BY <1>2, <3>1
  <2>2. PICK t \in T : \A u \in T : t <= u
    <3> HIDE DEF T
    <3> QED
      BY <2>1, Least
  <2>3. PICK n \in Used : t = Padded - n
    BY <2>2
  <2>4. ASSUME NEW m \in Used \ {n} PROVE Before(m, n)
    <3>1. Padded - n <= Padded - m
      BY <2>2, <2>3
    <3>2. /\ m \in Nat /\ n \in Nat /\ Padded \in Nat /\ m # n
          /\ m <= Padded /\ n <= Padded
      <4> HIDE DEF T
      <4> QED
        BY <1>0, <2>4
    <3>3. m < n
      <4> HIDE DEF T
      <4> QED
        BY <3>1, <3>2
    <3> QED
      BY <3>2, <3>3, RankGrows DEF Before
  <2>5. LastNumber \in Used /\ \A m \in Used \ {LastNumber} : Before(m, LastNumber)
    BY <2>4 DEF LastNumber
  <2>6. ASSUME LastNumber + 1 \in Used PROVE FALSE
    <3> DEFINE last == LastNumber
    <3>1. last \in Nat /\ last + 1 \in Nat /\ last <= Padded /\ last + 1 <= Padded /\ last < last + 1
      BY <1>0, <2>5, <2>6
    <3>2. Before(last + 1, last)
      BY <2>5, <2>6, <3>1
    <3> HIDE DEF last
    <3>3. Rank(last) < Rank(last + 1) /\ Rank(last) \in Nat /\ Rank(last + 1) \in Nat
      BY <3>1, RankGrows
    <3> QED
      BY <3>1, <3>2, <3>3 DEF Before
  <2> QED
    BY <1>2, <2>6 DEF NextNumber
<1> QED
  BY <1>1, <1>2

(* However many clerks bill, pay and set the status of invoices at the     *)
(* same time, an invoice none of them wrote, or billed anew, on stale      *)
(* figures asks for exactly the charges on it and is not overpaid; and the *)
(* number given out next is free as long as the numbers are padded to one  *)
(* width (createInvoice, recordPayment, updateInvoiceStatus).              *)
THEOREM InvoicesAreSoundAlways == HSpec => []InvoicesAreSound
<1>1. ASSUME ArInv, BooksInv PROVE InvoicesAreSound
  <2>1. \A n : OnInvoice(n) = OnIn(charges, n)
    BY DEF OnInvoice, OnIn
  <2>2. ASSUME NEW n \in Used \ raced
        PROVE  /\ invoices[n].st # "VOID" => invoices[n].total = AmountOf(OnInvoice(n))
               /\ invoices[n].received <= invoices[n].total
    <3>1. n \in Numbers /\ (invoices[n].st # "VOID" => Stands(invoices[n].st))
      BY DEF Used, Stands
    <3>2. /\ invoices[n].st # "VOID" => invoices[n].total = Total(Amounts(charges), OnIn(charges, n))
          /\ invoices[n].received <= invoices[n].total
      BY <1>1, <3>1 DEF BooksInv, Books
    <3> QED
      BY <2>1, <3>2, AmountIs
  <2> QED
    BY <2>2, NumberIsFree DEF InvoicesAreSound, NumbersGoOn
<1> QED
  BY <1>1, BooksAlways, PTL

-----------------------------------------------------------------------------
(* The sums of the statements.                                             *)

(* A sum can be taken by what its terms are sorted into.                   *)
SortedAs(S, k, u) == { x \in S : k[x] = u }
SortedIn(S, k, U) == { x \in S : k[x] \in U }

LEMMA TotalSorted ==
  ASSUME NEW S, IsFiniteSet(S), NEW f, \A x \in S : f[x] \in Int,
         NEW U, IsFiniteSet(U), NEW k, NEW g,
         \A u \in U : g[u] = Total(f, SortedAs(S, k, u))
  PROVE  Total(g, U) = Total(f, SortedIn(S, k, U))
<1> DEFINE In(W) == SortedIn(S, k, W)
           Of(u) == SortedAs(S, k, u)
           B == { W \in SUBSET U : Total(g, W) # Total(f, In(W)) }
<1>1. B = {}
  <2> SUFFICES ASSUME B # {} PROVE FALSE
    OBVIOUS
  <2>1. PICK W \in B : \A x \in W : W \ {x} \notin B
    <3>1. B \subseteq SUBSET U
      OBVIOUS
    <3> HIDE DEF B
    <3> QED
      BY <3>1, LeastSet
  <2>2. W \in SUBSET U /\ Total(g, W) # Total(f, In(W)) /\ IsFiniteSet(W)
    BY FS_Subset
  <2>3. W # {}
    <3>1. In({}) = {}
      BY DEF SortedIn
    <3> HIDE DEF In
    <3> QED
      BY <2>2, <3>1, TotalOfNothing
  <2> DEFINE u == Pick1(W)
             V == W \ {u}
  <2>4. u \in W /\ Total(g, W) = g[u] + Total(g, V)
    BY <2>2, <2>3, PickIn, TotalPicks
  <2>5. Total(g, V) = Total(f, In(V))
    BY <2>1, <2>2, <2>4
  <2>6. g[u] = Total(f, Of(u))
    BY <2>2, <2>4
  <2>7. In(W) = Of(u) \cup In(V) /\ Of(u) \cap In(V) = {}
        /\ Of(u) \in SUBSET S /\ In(V) \in SUBSET S
    BY <2>4 DEF SortedIn, SortedAs
  <2> HIDE DEF u, V, In, Of, B
  <2>8. Total(f, In(W)) = Total(f, Of(u)) + Total(f, In(V))
    BY <2>7, TotalUnion
  <2> QED
    BY <2>2, <2>4, <2>5, <2>6, <2>8
<1> QED
  BY <1>1

(* Smaller terms make no larger sum.                                       *)
LEMMA TotalAtMost ==
  ASSUME NEW S, IsFiniteSet(S), NEW f, NEW g,
         \A x \in S : f[x] \in Int /\ g[x] \in Int /\ f[x] <= g[x]
  PROVE  Total(f, S) <= Total(g, S)
<1> DEFINE B == { U \in SUBSET S : ~ (Total(f, U) <= Total(g, U)) }
<1>1. B = {}
  <2> SUFFICES ASSUME B # {} PROVE FALSE
    OBVIOUS
  <2>1. PICK U \in B : \A x \in U : U \ {x} \notin B
    <3>1. B \subseteq SUBSET S
      OBVIOUS
    <3> HIDE DEF B
    <3> QED
      BY <3>1, LeastSet
  <2>2. U \in SUBSET S /\ ~ (Total(f, U) <= Total(g, U)) /\ IsFiniteSet(U)
    BY FS_Subset
  <2>3. U # {}
    <3> SUFFICES ASSUME U = {} PROVE FALSE
      OBVIOUS
    <3>1. Total(f, U) = 0 /\ Total(g, U) = 0
      BY TotalOfNothing
    <3> QED
      BY <2>2, <3>1
  <2> DEFINE x == Pick1(U)
             W == U \ {x}
  <2>4. x \in U
    BY <2>3, PickIn
  <2>5. Total(f, W) <= Total(g, W)
    BY <2>1, <2>2, <2>4
  <2>6. Total(f, U) = f[x] + Total(f, W) /\ Total(g, U) = g[x] + Total(g, W)
    BY <2>2, <2>3, TotalPicks
  <2>7. Total(f, W) \in Int /\ Total(g, W) \in Int
    <3>1. IsFiniteSet(W) /\ W \subseteq S
      BY <2>2, FS_Subset
    <3> QED
      BY <3>1, TotalType
  <2>8. f[x] \in Int /\ g[x] \in Int /\ f[x] <= g[x]
    BY <2>2, <2>4
  <2> HIDE DEF x, W, B
  <2> QED
    BY <2>2, <2>5, <2>6, <2>7, <2>8
<1> QED
  BY <1>1

(* Leaving out terms makes no larger sum either.                           *)
LEMMA TotalOfPart ==
  ASSUME NEW S, IsFiniteSet(S), NEW T, T \subseteq S, NEW f, \A x \in S : f[x] \in Nat
  PROVE  Total(f, T) <= Total(f, S)
<1> DEFINE rest == S \ T
           zero == [x \in rest |-> 0]
<1>1. /\ S = T \cup rest /\ T \cap rest = {} /\ T \in SUBSET S /\ rest \in SUBSET S
      /\ IsFiniteSet(T) /\ IsFiniteSet(rest)
  BY FS_Subset
<1>2. /\ \A x \in S : f[x] \in Int
      /\ \A x \in rest : zero[x] = 0 /\ zero[x] \in Int /\ f[x] \in Int /\ zero[x] <= f[x]
  OBVIOUS
<1> HIDE DEF rest, zero
<1>3. Total(f, S) = Total(f, T) + Total(f, rest)
  BY <1>1, <1>2, TotalUnion
<1>4. Total(zero, rest) = 0
  BY <1>1, <1>2, TotalZero
<1>5. Total(zero, rest) <= Total(f, rest)
  BY <1>1, <1>2, TotalAtMost
<1>6. Total(f, T) \in Int /\ Total(f, rest) \in Int
  BY <1>1, <1>2, TotalType
<1> QED
  BY <1>3, <1>4, <1>5, <1>6

(* What invoices still ask for, were put, and asked for in all.            *)
Owed == [n \in Numbers |-> Outstanding(n)]
Got == [n \in Numbers |-> invoices[n].received]
Asked == [n \in Numbers |-> invoices[n].total]
OwedIn(S) == MapThenSumSet(Outstanding, S)
GotIn(S) == MapThenSumSet(LAMBDA n : invoices[n].received, S)

LEMMA OwedInIs == ASSUME NEW S, S \subseteq Numbers PROVE OwedIn(S) = Total(Owed, S)
<1> DEFINE F(s) == [t \in SUBSET S |-> IF t = {} THEN 0
                      ELSE Outstanding(CHOOSE x \in t : TRUE) + s[t \ {CHOOSE x \in t : TRUE}]]
           G(s) == [t \in SUBSET S |-> Step(Owed, s, t)]
<1>1. OwedIn(S) = (CHOOSE s : s = F(s))[S]
  BY DEF OwedIn, MapThenSumSet, MapThenFoldSet
<1>2. Total(Owed, S) = (CHOOSE s : s = G(s))[S]
  BY DEF Total, MapThenSumSet, MapThenFoldSet, Step, Pick1
<1>3. ASSUME NEW s PROVE F(s) = G(s)
  <2>1. ASSUME NEW t \in SUBSET S, t # {}
        PROVE  Owed[Pick1(t)] = Outstanding(Pick1(t))
    BY <2>1, PickIn DEF Owed
  <2>2. \A t \in SUBSET S : F(s)[t] = G(s)[t]
    BY <2>1 DEF Step, Pick1
  <2> QED
    BY <2>2
<1> HIDE DEF F, G
<1>4. (CHOOSE s : s = F(s)) = (CHOOSE s : s = G(s))
  BY <1>3, Zenon
<1> QED
  BY <1>1, <1>2, <1>4

LEMMA GotInIs == ASSUME NEW S, S \subseteq Numbers PROVE GotIn(S) = Total(Got, S)
<1> DEFINE F(s) == [t \in SUBSET S |-> IF t = {} THEN 0
             ELSE invoices[CHOOSE x \in t : TRUE].received + s[t \ {CHOOSE x \in t : TRUE}]]
           G(s) == [t \in SUBSET S |-> Step(Got, s, t)]
<1>1. GotIn(S) = (CHOOSE s : s = F(s))[S]
  BY DEF GotIn, MapThenSumSet, MapThenFoldSet
<1>2. Total(Got, S) = (CHOOSE s : s = G(s))[S]
  BY DEF Total, MapThenSumSet, MapThenFoldSet, Step, Pick1
<1>3. ASSUME NEW s PROVE F(s) = G(s)
  <2>1. ASSUME NEW t \in SUBSET S, t # {}
        PROVE  Got[Pick1(t)] = invoices[Pick1(t)].received
    BY <2>1, PickIn DEF Got
  <2>2. \A t \in SUBSET S : F(s)[t] = G(s)[t]
    BY <2>1 DEF Step, Pick1
  <2> QED
    BY <2>2
<1> HIDE DEF F, G
<1>4. (CHOOSE s : s = F(s)) = (CHOOSE s : s = G(s))
  BY <1>3, Zenon
<1> QED
  BY <1>1, <1>2, <1>4

LEMMA SumFunctionIs == ASSUME NEW f PROVE SumFunction(f) = Total(f, DOMAIN f)
BY DEF SumFunction, SumFunctionOnSet, FoldFunctionOnSet, Total, MapThenSumSet, MapThenFoldSet

LEMMA InvoiceSums ==
  ASSUME ArInv
  PROVE  /\ \A n \in Numbers : /\ Owed[n] = Asked[n] - Got[n] /\ Owed[n] \in Int
                               /\ Asked[n] \in Int /\ Got[n] \in Int
                               /\ Asked[n] = invoices[n].total /\ Got[n] = invoices[n].received
         /\ \A S : S \subseteq Numbers => IsFiniteSet(S)
<1>1. \A n \in Numbers : invoices[n].total \in Int /\ invoices[n].received \in Int
  BY ArAssumption DEF ArInv, TypeOK, InvoiceRows
<1>2. \A S : S \subseteq Numbers => IsFiniteSet(S)
  BY ArAssumption, FS_Subset
<1> QED
  BY <1>1, <1>2 DEF Owed, Asked, Got, Outstanding

-----------------------------------------------------------------------------
(* The aging report.                                                       *)

InBucket(late, ahead, b) == { n \in OpenOnes : BucketOf(late[n] + ahead) = b }
OverdueOnes(late, ahead) == { n \in OpenOnes : late[n] + ahead > 0 }

LEMMA AgingIs ==
  ASSUME NEW late, NEW ahead
  PROVE  /\ Aging(late, ahead).buckets = [b \in Buckets |-> OwedIn(InBucket(late, ahead, b))]
         /\ Aging(late, ahead).overdue = OwedIn(OverdueOnes(late, ahead))
         /\ Aging(late, ahead).total = OwedIn(OpenOnes)
BY DEF Aging, OwedIn, InBucket, OverdueOnes, MapThenSumSet, MapThenFoldSet

LEMMA BucketIs ==
  ASSUME NEW days \in Int
  PROVE  BucketOf(days) \in Buckets /\ (BucketOf(days) = "current" <=> ~ (days > 0))
<1>1. CASE days <= 0
  BY <1>1 DEF BucketOf, Buckets
<1>2. CASE 0 < days /\ days <= 30
  BY <1>2 DEF BucketOf, Buckets
<1>3. CASE 30 < days /\ days <= 60
  BY <1>3 DEF BucketOf, Buckets
<1>4. CASE 60 < days /\ days <= 90
  BY <1>4 DEF BucketOf, Buckets
<1>5. CASE 90 < days
  BY <1>5 DEF BucketOf, Buckets
<1> QED
  BY <1>1, <1>2, <1>3, <1>4, <1>5

LEMMA BucketsFinite == IsFiniteSet(Buckets)
<1>1. IsFiniteSet({"current"}) /\ IsFiniteSet({"days30"}) /\ IsFiniteSet({"days60"})
      /\ IsFiniteSet({"days90"}) /\ IsFiniteSet({"over90"})
  BY FS_Singleton
<1>2. IsFiniteSet({"current"} \cup {"days30"})
  BY <1>1, FS_Union
<1>3. IsFiniteSet(({"current"} \cup {"days30"}) \cup {"days60"})
  BY <1>1, <1>2, FS_Union
<1>4. IsFiniteSet((({"current"} \cup {"days30"}) \cup {"days60"}) \cup {"days90"})
  BY <1>1, <1>3, FS_Union
<1>5. IsFiniteSet(((({"current"} \cup {"days30"}) \cup {"days60"}) \cup {"days90"}) \cup {"over90"})
  BY <1>1, <1>4, FS_Union
<1>6. Buckets = ((({"current"} \cup {"days30"}) \cup {"days60"}) \cup {"days90"}) \cup {"over90"}
  BY DEF Buckets
<1> QED
  BY <1>5, <1>6

(* What an open invoice asks for.                                          *)
LEMMA OpenOwes == ASSUME ArInv PROVE \A n \in OpenOnes : n \in Numbers /\ Outstanding(n) \in Nat
<1> SUFFICES ASSUME NEW n \in OpenOnes PROVE n \in Numbers /\ Outstanding(n) \in Nat
  OBVIOUS
<1>1. n \in Numbers /\ invoices[n].total \in Int /\ invoices[n].received \in Int
  BY InvoiceSums DEF OpenOnes
<1>2. invoices[n].received < invoices[n].total
  BY DEF OpenOnes, Open
<1> QED
  BY <1>1, <1>2 DEF Outstanding

(* The invoices the detail flags are among those overdue by the report of  *)
(* today or of a later day, and are these when it lists every invoice.     *)
LEMMA FlaggedAreOverdue ==
  ASSUME ArInv, NEW late \in Lates, NEW ahead \in Int, NEW listed
  PROVE  /\ ahead >= 0 => Overdue(late, listed) \subseteq OverdueOnes(late, ahead)
         /\ ahead = 0 /\ Listed(listed) = Used => Overdue(late, listed) = OverdueOnes(late, ahead)
<1>1. \A n \in OpenOnes : late[n] \in Int
  BY StatementsAssumption DEF Lates
<1>2. ASSUME NEW n \in Numbers
      PROVE  invoices[n].st \in {"NONE", "DRAFT", "SENT", "PAID", "VOID"}
             /\ invoices[n].total \in Int /\ invoices[n].received \in Int
  BY ArAssumption DEF ArInv, TypeOK, InvoiceRows, InvoiceStatuses
<1>3. ASSUME NEW n \in Numbers
      PROVE  invoices[n].st \notin {"NONE", "PAID", "VOID"} /\ Outstanding(n) > 0 <=> Open(n)
  BY <1>2 DEF Outstanding, Open
<1>4. Listed(listed) \subseteq Used
  BY DEF Listed
<1>5. \A n : n \in Overdue(late, listed) <=>
              n \in Listed(listed) /\ n \in OpenOnes /\ late[n] > 0
  BY <1>3, <1>4 DEF Overdue, OpenOnes, Used
<1>6. \A n : n \in OverdueOnes(late, ahead) <=> n \in OpenOnes /\ late[n] + ahead > 0
  BY DEF OverdueOnes
<1>7. OpenOnes \subseteq Used
  BY DEF OpenOnes, Open, Used
<1>8. ASSUME ahead >= 0, NEW n \in Overdue(late, listed) PROVE n \in OverdueOnes(late, ahead)
  <2>1. n \in OpenOnes /\ late[n] > 0 /\ late[n] \in Int
    BY <1>1, <1>5, <1>8
  <2> QED
    BY <1>6, <1>8, <2>1
<1>9. ASSUME ahead = 0, Listed(listed) = Used, NEW n \in OverdueOnes(late, ahead)
      PROVE  n \in Overdue(late, listed)
  <2>1. n \in OpenOnes /\ late[n] + ahead > 0 /\ late[n] \in Int
    BY <1>1, <1>6, <1>9
  <2> QED
    BY <1>5, <1>7, <1>9, <2>1
<1> QED
  BY <1>8, <1>9

LEMMA AgingIsRight == ASSUME ArInv PROVE AgingAgrees
<1> SUFFICES ASSUME NEW late \in Lates, NEW ahead \in Ahead
             PROVE  LET report == Aging(late, ahead) IN
                    /\ SumFunction(report.buckets) = report.total
                    /\ report.overdue = report.total - report.buckets["current"]
                    /\ \A listed \in Listings :
                         /\ ahead >= 0 => OwedIn(Overdue(late, listed)) <= report.overdue
                         /\ ahead = 0 /\ Listed(listed) = Used
                              => OwedIn(Overdue(late, listed)) = report.overdue
  BY DEF AgingAgrees, OwedIn, MapThenSumSet, MapThenFoldSet
<1> DEFINE report == Aging(late, ahead)
           current == InBucket(late, ahead, "current")
           over == OverdueOnes(late, ahead)
           k == [n \in OpenOnes |-> BucketOf(late[n] + ahead)]
<1>0. ahead \in Int
  BY StatementsAssumption
<1>1. OpenOnes \subseteq Numbers /\ current \subseteq Numbers /\ over \subseteq Numbers
      /\ \A b : InBucket(late, ahead, b) \subseteq Numbers
  BY DEF OpenOnes, InBucket, OverdueOnes
<1>2. /\ report.buckets = [b \in Buckets |-> OwedIn(InBucket(late, ahead, b))]
      /\ report.overdue = OwedIn(over)
      /\ report.total = OwedIn(OpenOnes)
  BY AgingIs
<1>3. \A n \in OpenOnes : /\ late[n] + ahead \in Int
                          /\ k[n] = BucketOf(late[n] + ahead) /\ k[n] \in Buckets
  <2> TAKE n \in OpenOnes
  <2>0. late[n] \in Int
    BY StatementsAssumption DEF Lates
  <2>1. late[n] + ahead \in Int
    BY <1>0, <2>0
  <2> QED
    BY <2>1, BucketIs
<1> HIDE DEF report, k
<1>4. /\ IsFiniteSet(OpenOnes) /\ \A n \in OpenOnes : Owed[n] \in Int
  BY <1>1, InvoiceSums
<1>5. SumFunction(report.buckets) = report.total
  <2>1. SumFunction(report.buckets) = Total(report.buckets, Buckets)
    BY <1>2, SumFunctionIs
  <2>2. \A b \in Buckets : report.buckets[b] = Total(Owed, SortedAs(OpenOnes, k, b))
    <3>1. \A b : InBucket(late, ahead, b) = SortedAs(OpenOnes, k, b)
      BY <1>3 DEF InBucket, SortedAs
    <3>2. \A b : OwedIn(InBucket(late, ahead, b)) = Total(Owed, InBucket(late, ahead, b))
      BY <1>1, OwedInIs
    <3> QED
      BY <1>2, <3>1, <3>2
  <2>3. Total(report.buckets, Buckets) = Total(Owed, SortedIn(OpenOnes, k, Buckets))
    BY <1>4, <2>2, BucketsFinite, TotalSorted
  <2>4. SortedIn(OpenOnes, k, Buckets) = OpenOnes
    BY <1>3 DEF SortedIn
  <2>5. OwedIn(OpenOnes) = Total(Owed, OpenOnes)
    BY <1>1, OwedInIs
  <2> QED
    BY <1>2, <2>1, <2>3, <2>4, <2>5
<1>6. report.overdue = report.total - report.buckets["current"]
  <2>1. OpenOnes = current \cup over /\ current \cap over = {}
        /\ current \in SUBSET OpenOnes /\ over \in SUBSET OpenOnes
    BY <1>3, BucketIs DEF InBucket, OverdueOnes
  <2>2. Total(Owed, OpenOnes) = Total(Owed, current) + Total(Owed, over)
    BY <1>4, <2>1, TotalUnion
  <2>3. /\ report.total = Total(Owed, OpenOnes)
        /\ report.overdue = Total(Owed, over)
        /\ report.buckets["current"] = Total(Owed, current)
    BY <1>1, <1>2, OwedInIs DEF Buckets
  <2>4. Total(Owed, current) \in Int /\ Total(Owed, over) \in Int
    <3>1. /\ IsFiniteSet(current) /\ IsFiniteSet(over)
          /\ \A n \in current : Owed[n] \in Int
          /\ \A n \in over : Owed[n] \in Int
      BY <1>1, InvoiceSums
    <3> HIDE DEF current, over
    <3> QED
      BY <3>1, TotalType
  <2> HIDE DEF current, over
  <2> QED
    BY <2>2, <2>3, <2>4
<1>7. ASSUME NEW listed \in Listings
      PROVE  /\ ahead >= 0 => OwedIn(Overdue(late, listed)) <= report.overdue
             /\ ahead = 0 /\ Listed(listed) = Used => OwedIn(Overdue(late, listed)) = report.overdue
  <2> DEFINE shown == Overdue(late, listed)
  <2>1. /\ ahead >= 0 => shown \subseteq over
        /\ ahead = 0 /\ Listed(listed) = Used => shown = over
    BY <1>0, FlaggedAreOverdue
  <2>2. IsFiniteSet(over) /\ \A n \in over : Owed[n] \in Nat
    <3>1. \A n \in over : n \in Numbers /\ Outstanding(n) \in Nat
      BY OpenOwes DEF OverdueOnes
    <3>2. IsFiniteSet(over)
      BY <1>1, InvoiceSums
    <3> QED
      BY <3>1, <3>2 DEF Owed
  <2>3. OwedIn(over) = Total(Owed, over)
    BY <1>1, OwedInIs
  <2>4. shown \subseteq over => OwedIn(shown) = Total(Owed, shown)
    BY <1>1, OwedInIs
  <2>5. shown \subseteq over => Total(Owed, shown) <= Total(Owed, over)
    BY <2>2, TotalOfPart
  <2> HIDE DEF shown, over
  <2> QED
    BY <1>2, <2>1, <2>3, <2>4, <2>5 DEF shown
<1> QED
  BY <1>5, <1>6, <1>7 DEF report

-----------------------------------------------------------------------------
(* The balance and what is asked for.                                      *)

StandingOnes == { n \in Used : invoices[n].st # "VOID" }
VoidOnes == Used \ StandingOnes
ByHand == { n \in StandingOnes : invoices[n].st = "PAID" }

(* Every charge is unbilled or on an invoice that stands, and one that     *)
(* stands asks for its charges.                                            *)
LEMMA ChargesAddUp ==
  ASSUME ArInv, BooksInv, raced = {}
  PROVE  Total(Amounts(charges), Charges) =
           Total(Amounts(charges), Unbilled) + Total(Asked, StandingOnes)
<1> DEFINE f == Amounts(charges)
           k == [a \in Charges |-> charges[a].invoice]
           real == { a \in Charges : charges[a].amount > 0 }
           billed == SortedIn(real, k, StandingOnes)
           none == Charges \ real
<1>1. /\ IsFiniteSet(Charges) /\ \A a \in Charges : f[a] \in Int /\ f[a] = charges[a].amount
      /\ charges \in [Charges -> ChargeRows] /\ invoices \in [Numbers -> InvoiceRows]
      /\ \A a \in Charges : charges[a].amount \in Nat
  BY AmountsType DEF ArInv, TypeOK, Amounts, ChargeRows
<1>2. StandingOnes \subseteq Numbers /\ IsFiniteSet(StandingOnes) /\ NoInvoice \notin StandingOnes
  <2>1. StandingOnes \subseteq Numbers /\ NoInvoice \notin StandingOnes
    BY ArAssumption DEF StandingOnes, Used, NoInvoice
  <2> QED
    BY <2>1, InvoiceSums
<1>3. ASSUME NEW a \in real, charges[a].invoice # NoInvoice PROVE k[a] \in StandingOnes
  <2> DEFINE n == charges[a].invoice
  <2>1. n \in Numbers /\ a \in Charges /\ charges[a].amount > 0
    BY <1>1, <1>3 DEF ChargeRows
  <2>2. n \in Used
    BY <1>3, <2>1 DEF BooksInv, Books, Made, Used
  <2>3. a \in OnInvoice(n)
    BY <2>1 DEF OnInvoice
  <2>4. invoices[n].st # "VOID"
    BY <2>2, <2>3 DEF ArInv, VoidHoldsNothing
  <2> QED
    BY <2>1, <2>2, <2>4 DEF StandingOnes
<1>4. real = Unbilled \cup billed /\ Unbilled \cap billed = {}
      /\ Unbilled \in SUBSET Charges /\ billed \in SUBSET Charges
      /\ real \in SUBSET Charges /\ none \in SUBSET Charges
      /\ Charges = real \cup none /\ real \cap none = {}
  BY <1>2, <1>3 DEF Unbilled, SortedIn
<1>5. Total(f, none) = 0
  <2>1. IsFiniteSet(none) /\ \A a \in none : f[a] = 0
    BY <1>1, FS_Subset
  <2> HIDE DEF f, none
  <2> QED
    BY <2>1, TotalZero
<1>6. \A n \in StandingOnes : Asked[n] = Total(f, SortedAs(real, k, n))
  <2> TAKE n \in StandingOnes
  <2>1. Asked[n] = Total(f, OnIn(charges, n))
    BY <1>2 DEF Asked, BooksInv, Books, Stands, StandingOnes, Used
  <2>2. OnIn(charges, n) = SortedAs(real, k, n)
    BY DEF OnIn, SortedAs
  <2> QED
    BY <2>1, <2>2
<1>7. IsFiniteSet(real) /\ \A a \in real : f[a] \in Int
  BY <1>1, FS_Subset
<1> HIDE DEF f, k
<1>8. Total(Asked, StandingOnes) = Total(f, billed)
  <2> HIDE DEF real
  <2> QED
    BY <1>2, <1>6, <1>7, TotalSorted
<1> HIDE DEF real, billed, none
<1>9. /\ Total(f, Charges) = Total(f, real) + Total(f, none)
      /\ Total(f, real) = Total(f, Unbilled) + Total(f, billed)
  BY <1>1, <1>4, TotalUnion
<1>10. Total(f, Unbilled) \in Int /\ Total(f, billed) \in Int
  <2>1. \A S \in SUBSET Charges : IsFiniteSet(S)
    BY <1>1, FS_Subset
  <2> QED
    BY <1>1, <1>4, <2>1, TotalType
<1>11. Total(f, Charges) = Total(f, Unbilled) + Total(Asked, StandingOnes)
  BY <1>5, <1>8, <1>9, <1>10
<1> QED
  BY <1>11 DEF f

(* What was put on invoices is on standing or void ones.                   *)
LEMMA GotAddsUp ==
  ASSUME ArInv, BooksInv, raced = {}
  PROVE  /\ Total(Got, Numbers) = Total(Got, StandingOnes) + Total(Got, VoidOnes)
         /\ Total(Asked, StandingOnes) = Total(Owed, StandingOnes) + Total(Got, StandingOnes)
         /\ Total(Got, StandingOnes) \in Int /\ Total(Got, VoidOnes) \in Int
         /\ Total(Owed, StandingOnes) \in Int
<1> DEFINE unused == Numbers \ Used
<1>1. /\ Numbers = Used \cup unused /\ Used \cap unused = {}
      /\ Used = StandingOnes \cup VoidOnes /\ StandingOnes \cap VoidOnes = {}
      /\ Used \in SUBSET Numbers /\ unused \in SUBSET Numbers
      /\ StandingOnes \in SUBSET Numbers /\ VoidOnes \in SUBSET Numbers
  BY DEF Used, StandingOnes, VoidOnes
<1>2. /\ IsFiniteSet(Numbers) /\ IsFiniteSet(unused) /\ IsFiniteSet(StandingOnes)
      /\ IsFiniteSet(VoidOnes)
      /\ \A n \in Numbers : Got[n] \in Int /\ Owed[n] \in Int /\ Asked[n] = Owed[n] + Got[n]
  BY <1>1, InvoiceSums
<1>3. \A n \in unused : Got[n] = 0
  BY DEF Got, BooksInv, Books, Made, Used
<1>4. Total(Got, unused) = 0
  <2> HIDE DEF unused
  <2> QED
    BY <1>2, <1>3, TotalZero
<1> HIDE DEF unused
<1>5. /\ Total(Got, Numbers) = Total(Got, Used) + Total(Got, unused)
      /\ Total(Got, Used) = Total(Got, StandingOnes) + Total(Got, VoidOnes)
  BY <1>1, <1>2, TotalUnion
<1>6. Total(Got, StandingOnes) \in Int /\ Total(Got, VoidOnes) \in Int
      /\ Total(Owed, StandingOnes) \in Int
  BY <1>1, <1>2, TotalType
<1>7. Total(Asked, StandingOnes) = Total(Owed, StandingOnes) + Total(Got, StandingOnes)
  BY <1>1, <1>2, TotalPlus
<1> QED
  BY <1>4, <1>5, <1>6, <1>7

(* What standing invoices still ask for is on open ones, or on ones marked *)
(* paid by hand.                                                           *)
LEMMA OwedAddsUp ==
  ASSUME ArInv, BooksInv, raced = {}
  PROVE  /\ Total(Owed, StandingOnes) = Total(Owed, OpenOnes) + Total(Owed, ByHand)
         /\ Total(Owed, OpenOnes) \in Int /\ Total(Owed, ByHand) \in Int
<1> DEFINE asking == OpenOnes \cup ByHand
           settled == StandingOnes \ asking
<1>1. ASSUME NEW n \in Numbers
      PROVE  /\ invoices[n].st \in {"NONE", "DRAFT", "SENT", "PAID", "VOID"}
             /\ invoices[n].total \in Int /\ invoices[n].received \in Int
             /\ invoices[n].received <= invoices[n].total
  BY ArAssumption DEF ArInv, TypeOK, InvoiceRows, InvoiceStatuses, BooksInv, Books
<1>2. /\ StandingOnes = asking \cup settled /\ asking \cap settled = {}
      /\ OpenOnes \cap ByHand = {}
      /\ OpenOnes \in SUBSET Numbers /\ ByHand \in SUBSET Numbers
      /\ asking \in SUBSET Numbers /\ settled \in SUBSET Numbers
  BY DEF OpenOnes, Open, ByHand, StandingOnes, Used
<1>3. /\ IsFiniteSet(Numbers) /\ \A S \in SUBSET Numbers : IsFiniteSet(S)
      /\ \A n \in Numbers : Owed[n] \in Int
  BY InvoiceSums
<1>4. \A n \in settled : Owed[n] = 0
  <2> TAKE n \in settled
  <2>1. n \in Numbers /\ invoices[n].st \in {"DRAFT", "SENT"} /\ ~ (invoices[n].received < invoices[n].total)
    BY <1>1 DEF OpenOnes, Open, ByHand, StandingOnes, Used
  <2> QED
    BY <1>1, <2>1 DEF Owed, Outstanding
<1> HIDE DEF asking, settled
<1>5. Total(Owed, settled) = 0
  BY <1>2, <1>3, <1>4, TotalZero
<1>6. Total(Owed, StandingOnes) = Total(Owed, asking) + Total(Owed, settled)
  BY <1>2, <1>3, TotalUnion
<1>7. Total(Owed, asking) = Total(Owed, OpenOnes) + Total(Owed, ByHand)
  BY <1>2, <1>3, TotalUnion DEF asking
<1>8. Total(Owed, OpenOnes) \in Int /\ Total(Owed, ByHand) \in Int
  BY <1>2, <1>3, TotalType
<1> QED
  BY <1>5, <1>6, <1>7, <1>8

LEMMA BalanceAddsUp ==
  ASSUME NEW all \in Int, NEW unbilled \in Int, NEW asked \in Int, NEW got \in Int,
         NEW onVoid \in Int, NEW open \in Int, NEW hand \in Int, NEW pd \in Int,
         all = unbilled + asked, asked = open + hand + got
  PROVE  all - pd + (pd - (got + onVoid)) = unbilled + open + hand - onVoid
OBVIOUS

LEMMA StatementIsRight == ASSUME ArInv, BooksInv, raced = {} PROVE StatementAddsUp
<1>1. /\ StandingOnes \subseteq Numbers /\ VoidOnes \subseteq Numbers /\ ByHand \subseteq Numbers
      /\ OpenOnes \subseteq Numbers /\ Unbilled \subseteq Charges
  BY DEF StandingOnes, VoidOnes, ByHand, Used, OpenOnes, Unbilled
<1>2. /\ OwedIn(OpenOnes) = Total(Owed, OpenOnes) /\ OwedIn(ByHand) = Total(Owed, ByHand)
      /\ GotIn(VoidOnes) = Total(Got, VoidOnes) /\ GotIn(Numbers) = Total(Got, Numbers)
  BY <1>1, OwedInIs, GotInIs
<1>3. /\ Balance = Total(Amounts(charges), Charges) - paid
      /\ UnbilledTotal = Total(Amounts(charges), Unbilled)
  BY AmountIs DEF Balance, UnbilledTotal
<1>4. Unapplied = paid - GotIn(Numbers)
  BY DEF Unapplied, GotIn, MapThenSumSet, MapThenFoldSet
<1>5. /\ Total(Amounts(charges), Charges) \in Int /\ Total(Amounts(charges), Unbilled) \in Int
      /\ paid \in Int
  <2>1. charges \in [Charges -> ChargeRows] /\ paid \in 0..MaxPaid
    BY DEF ArInv, TypeOK
  <2> QED
    BY <1>1, <2>1, AmountsType, ArAssumption
<1>6. Total(Asked, StandingOnes) \in Int
      /\ Total(Asked, StandingOnes) = Total(Owed, OpenOnes) + Total(Owed, ByHand) + Total(Got, StandingOnes)
  BY GotAddsUp, OwedAddsUp
<1>7. Balance + Unapplied = UnbilledTotal + OwedIn(OpenOnes) + OwedIn(ByHand) - GotIn(VoidOnes)
  BY <1>2, <1>3, <1>4, <1>5, <1>6, ChargesAddUp, GotAddsUp, OwedAddsUp, BalanceAddsUp
<1> QED
  BY <1>7 DEF StatementAddsUp, StandingOnes, VoidOnes, ByHand, OwedIn, GotIn, MapThenSumSet, MapThenFoldSet

(* The buckets of the aging report add up to what is open, all but the     *)
(* current one is overdue, and what the account's detail flags is no more  *)
(* than a report of today or later says, and the same today as long as the *)
(* detail lists every invoice.  As long as no request wrote an invoice on  *)
(* stale figures, the balance, which is never stored, is what is unbilled  *)
(* and what the invoices still ask for (aging, accountDetail).             *)
THEOREM StatementsAgreeAlways == HSpec => []StatementsAgree
<1>1. ArInv /\ BooksInv => StatementsAgree
  BY AgingIsRight, StatementIsRight DEF StatementsAgree
<1> QED
  BY <1>1, BooksAlways, PTL

-----------------------------------------------------------------------------
(* The automatic allocation: the fold over the open invoices runs from the *)
(* one due first to the one due last.                                      *)

DueOrder(late, listed) == late \in Lates /\ listed \in Listings

(* Due dates, with the order of issue between equal ones, put the invoices *)
(* in one order.                                                           *)
LEMMA DueBeforeOrders ==
  ASSUME NEW late, NEW listed, DueOrder(late, listed),
         NEW l \in OpenOnes, NEW m \in OpenOnes, NEW n \in OpenOnes
  PROVE  /\ m # n => DueBefore(late, listed, m, n) \/ DueBefore(late, listed, n, m)
         /\ ~ (DueBefore(late, listed, m, n) /\ DueBefore(late, listed, n, m))
         /\ DueBefore(late, listed, l, m) /\ DueBefore(late, listed, m, n)
              => DueBefore(late, listed, l, n)
<1>1. /\ late[l] \in Int /\ late[m] \in Int /\ late[n] \in Int
      /\ listed[l] \in Int /\ listed[m] \in Int /\ listed[n] \in Int
      /\ listed[m] = listed[n] => m = n
  <2>1. /\ late \in [OpenOnes -> Lateness] /\ Lateness \subseteq Int
        /\ listed \in [Used -> Numbers] /\ Numbers \subseteq Nat /\ OpenOnes \subseteq Used
    BY StatementsAssumption, ArAssumption
       DEF DueOrder, Lates, Listings, Injection, OpenOnes, Open, Used
  <2>2. \A i, j \in Used : listed[i] = listed[j] => i = j
    <3>1. IsInjective(listed) /\ DOMAIN listed = Used
      BY <2>1 DEF DueOrder, Listings, Injection
    <3> QED
      BY <3>1 DEF IsInjective
  <2>3. listed[l] \in Nat /\ listed[m] \in Nat /\ listed[n] \in Nat
    BY <2>1
  <2>4. late[l] \in Int /\ late[m] \in Int /\ late[n] \in Int
    BY <2>1
  <2> QED
    BY <2>1, <2>2, <2>3, <2>4
<1> QED
  BY <1>1 DEF DueBefore

(* Some invoices among finitely many, if any, one is due last.             *)
LEMMA DueLastIsLast ==
  ASSUME NEW late, NEW listed, DueOrder(late, listed),
         NEW S \in SUBSET OpenOnes, S # {}
  PROVE  /\ DueLast(late, listed, S) \in S
         /\ \A m \in S \ {DueLast(late, listed, S)} :
              DueBefore(late, listed, m, DueLast(late, listed, S))
<1> DEFINE Last(U, n) == n \in U /\ \A m \in U \ {n} : DueBefore(late, listed, m, n)
           B == { U \in SUBSET S : U # {} /\ \A n \in U : ~ Last(U, n) }
<1>1. B = {}
  <2> SUFFICES ASSUME B # {} PROVE FALSE
    OBVIOUS
  <2>1. PICK U \in B : \A x \in U : U \ {x} \notin B
    <3>1. B \subseteq SUBSET S /\ IsFiniteSet(S)
      BY ArAssumption, FS_Subset DEF OpenOnes
    <3> HIDE DEF B
    <3> QED
      BY <3>1, LeastSet
  <2>2. PICK x \in U : TRUE
    OBVIOUS
  <2>3. U \ {x} # {}
    BY <2>2
  <2>4. PICK y \in U \ {x} : Last(U \ {x}, y)
    BY <2>1, <2>2, <2>3
  <2>5. x \in OpenOnes /\ y \in OpenOnes /\ x # y /\ U \subseteq OpenOnes
    BY <2>2, <2>4
  <2>6. CASE DueBefore(late, listed, x, y)
    <3>1. Last(U, y)
      BY <2>4, <2>6
    <3> QED
      BY <2>4, <3>1
  <2>7. CASE DueBefore(late, listed, y, x)
    <3>1. \A m \in (U \ {x}) \ {y} : DueBefore(late, listed, m, x)
      BY <2>4, <2>5, <2>7, DueBeforeOrders
    <3>2. Last(U, x)
      BY <2>2, <2>7, <3>1
    <3> QED
      BY <2>2, <3>2
  <2> QED
    BY <2>5, <2>6, <2>7, DueBeforeOrders
<1>2. PICK n \in S : Last(S, n)
  BY <1>1
<1> QED
  BY <1>2 DEF DueLast

(* The recursive function under the allocation, and that there is one.     *)
NothingYet(amount) == [plan |-> NoPlan, left |-> amount]
FillStep(late, listed, amount, s, t) ==
  IF t = {} THEN NothingYet(amount)
  ELSE Fill(DueLast(late, listed, t), s[t \ {DueLast(late, listed, t)}])
FillsFrom(late, listed, amount, s, S) ==
  [t \in SUBSET S |-> FillStep(late, listed, amount, s, t)]
Fills(late, listed, amount, S) == CHOOSE s : s = FillsFrom(late, listed, amount, s, S)

LEMMA FillsExist ==
  ASSUME NEW late, NEW listed, DueOrder(late, listed), NEW amount, NEW S \in SUBSET OpenOnes
  PROVE  \E g : g = FillsFrom(late, listed, amount, g, S)
<1> DEFINE After(g, t) == FillStep(late, listed, amount, g, t)
           Dom(n) == { t \in SUBSET S : Cardinality(t) <= n }
           Good(n) == \E g : g = [t \in Dom(n) |-> After(g, t)]
           T == { n \in Nat : ~ Good(n) }
<1>1. \A t \in SUBSET S : /\ t \in SUBSET OpenOnes /\ IsFiniteSet(t)
                          /\ Cardinality(t) \in Nat /\ Cardinality(t) <= Cardinality(S)
  <2>1. OpenOnes \subseteq Numbers /\ IsFiniteSet(S)
    BY ArAssumption, FS_Subset DEF OpenOnes
  <2> QED
    BY <2>1, FS_Subset, FS_CardinalityType
<1>2. ASSUME NEW n \in Nat, n # 0, Good(n - 1) PROVE Good(n)
  <2>1. PICK g : g = [t \in Dom(n - 1) |-> After(g, t)]
    BY <1>2
  <2> DEFINE h == [t \in Dom(n) |-> After(g, t)]
  <2>2. ASSUME NEW t \in Dom(n) PROVE After(h, t) = After(g, t)
    <3>1. CASE t = {}
      BY <3>1 DEF FillStep
    <3>2. CASE t # {}
      <4> DEFINE x == DueLast(late, listed, t)
                 u == t \ {x}
      <4>1. x \in t
        BY <1>1, <3>2, DueLastIsLast
      <4>2. Cardinality(u) = Cardinality(t) - 1 /\ Cardinality(t) \in Nat /\ u \in SUBSET S
            /\ Cardinality(u) \in Nat /\ Cardinality(t) <= n
        <5> HIDE DEF x
        <5> QED
          BY <1>1, <4>1, FS_RemoveElement
      <4>3. Cardinality(u) <= n - 1 /\ Cardinality(u) <= n
        BY <4>2
      <4>4. u \in Dom(n - 1) /\ u \in Dom(n)
        BY <4>2, <4>3
      <4> HIDE DEF x, u, Dom
      <4>5. h[u] = g[u]
        BY <2>1, <4>4
      <4> QED
        BY <3>2, <4>5 DEF FillStep, u, x
    <3> QED
      BY <3>1, <3>2
  <2>3. h = [t \in Dom(n) |-> After(h, t)]
    <3> HIDE DEF Dom, After
    <3> QED
      BY <2>2
  <2> HIDE DEF h, After
  <2> QED
    BY <2>3
<1>3. Good(0)
  <2> DEFINE g == [t \in Dom(0) |-> NothingYet(amount)]
  <2>1. \A t \in Dom(0) : t = {}
    BY <1>1, FS_EmptySet
  <2>2. \A t \in Dom(0) : After(g, t) = NothingYet(amount)
    BY <2>1 DEF FillStep
  <2>3. g = [t \in Dom(0) |-> After(g, t)]
    <3> HIDE DEF Dom, After
    <3> QED
      BY <2>2
  <2> HIDE DEF g, After
  <2> QED
    BY <2>3
<1> HIDE DEF Good
<1>4. T = {}
  <2> SUFFICES ASSUME T # {} PROVE FALSE
    OBVIOUS
  <2>1. PICK n \in T : \A m \in T : n <= m
    <3>1. T \subseteq Nat
      OBVIOUS
    <3> HIDE DEF T
    <3> QED
      BY <3>1, Least
  <2>2. n \in Nat /\ n # 0
    BY <1>3
  <2>3. n - 1 \in Nat /\ ~ (n <= n - 1)
    BY <2>2
  <2>4. n - 1 \notin T
    BY <2>1, <2>3
  <2>5. Good(n - 1)
    BY <2>3, <2>4
  <2> QED
    BY <1>2, <2>2, <2>5
<1>5. Cardinality(S) \in Nat
  BY <1>1
<1>6. Good(Cardinality(S))
  BY <1>4, <1>5
<1>7. Dom(Cardinality(S)) = SUBSET S
  BY <1>1
<1> HIDE DEF Dom
<1> QED
  BY <1>6, <1>7 DEF Good, FillsFrom

LEMMA FillsAre ==
  ASSUME NEW late, NEW listed, DueOrder(late, listed), NEW amount
  PROVE  /\ \A t \in SUBSET OpenOnes :
              Fills(late, listed, amount, OpenOnes)[t] =
                FillStep(late, listed, amount, Fills(late, listed, amount, OpenOnes), t)
         /\ AutoPlan(late, listed, amount) = Fills(late, listed, amount, OpenOnes)[OpenOnes].plan
<1> DEFINE a == Fills(late, listed, amount, OpenOnes)
<1>1. OpenOnes \in SUBSET OpenOnes
  OBVIOUS
<1>2. a = FillsFrom(late, listed, amount, a, OpenOnes)
  <2>1. \E g : g = FillsFrom(late, listed, amount, g, OpenOnes)
    BY <1>1, FillsExist
  <2> QED
    BY <2>1, Zenon DEF Fills
<1>3. AutoPlan(late, listed, amount) = a[OpenOnes].plan
  BY DEF AutoPlan, MapThenFoldSet, Fills, FillsFrom, FillStep, NothingYet
<1> HIDE DEF a
<1>4. \A t \in SUBSET OpenOnes : a[t] = FillStep(late, listed, amount, a, t)
  BY <1>2 DEF FillsFrom
<1> QED
  BY <1>3, <1>4 DEF a

(* What holds after the invoices of t have had their turn: what is left    *)
(* over is left because they are covered, and one that got something has   *)
(* those due earlier covered.                                              *)
Filled(late, listed, amount, t, acc) ==
  /\ acc.plan \in [Numbers -> Nat] /\ acc.left \in Nat
  /\ \A n \in Numbers \ t : acc.plan[n] = 0
  /\ \A n \in t : acc.plan[n] <= Outstanding(n)
  /\ acc.left > 0 => \A n \in t : acc.plan[n] = Outstanding(n)
  /\ \A m, n \in t : DueBefore(late, listed, m, n) /\ acc.plan[n] > 0
                       => acc.plan[m] = Outstanding(m)
  /\ Total(acc.plan, t) + acc.left = amount

(* One turn of the loop.                                                   *)
LEMMA FillKeeps ==
  ASSUME ArInv, NEW late, NEW listed, DueOrder(late, listed), NEW amount \in Int,
         NEW t \in SUBSET OpenOnes, NEW x \in t,
         \A m \in t \ {x} : DueBefore(late, listed, m, x),
         NEW acc, Filled(late, listed, amount, t \ {x}, acc)
  PROVE  Filled(late, listed, amount, t, Fill(x, acc))
<1> DEFINE o == Outstanding(x)
           apply == IF acc.left > o THEN o ELSE acc.left
           plan == [acc.plan EXCEPT ![x] = apply]
           left == acc.left - apply
           u == t \ {x}
<1>1. /\ x \in Numbers /\ o \in Nat /\ t \subseteq Numbers /\ IsFiniteSet(t) /\ IsFiniteSet(u)
      /\ t \subseteq OpenOnes
      /\ \A n \in t : Outstanding(n) \in Nat
  <2>1. /\ t \subseteq Numbers /\ u \subseteq Numbers
        /\ \A n \in t : n \in Numbers /\ Outstanding(n) \in Nat
    BY OpenOwes
  <2> QED
    BY <2>1, ArAssumption, FS_Subset
<1>2. Fill(x, acc).plan = plan /\ Fill(x, acc).left = left
  BY DEF Fill
<1>3. acc.plan \in [Numbers -> Nat] /\ acc.left \in Nat
  BY DEF Filled
<1>4. apply \in Nat /\ left \in Nat /\ apply <= o /\ (left > 0 => apply = o)
      /\ (apply > 0 => acc.left > 0) /\ left + apply = acc.left
      /\ (left > 0 => acc.left > 0)
  BY <1>1, <1>3
<1>5. /\ plan \in [Numbers -> Nat] /\ plan[x] = apply
      /\ \A n \in Numbers \ {x} : plan[n] = acc.plan[n]
  BY <1>1, <1>3, <1>4
<1> HIDE DEF apply, plan, left, o
<1>6. \A n \in Numbers \ t : plan[n] = 0
  BY <1>5 DEF Filled
<1>7. \A n \in t : plan[n] <= Outstanding(n)
  BY <1>1, <1>4, <1>5 DEF Filled, o
<1>8. left > 0 => \A n \in t : plan[n] = Outstanding(n)
  BY <1>1, <1>4, <1>5 DEF Filled, o
<1>9. ASSUME NEW m \in t, NEW n \in t, DueBefore(late, listed, m, n), plan[n] > 0
      PROVE  plan[m] = Outstanding(m)
  <2>1. m # x
    <3> SUFFICES ASSUME m = x PROVE FALSE
      OBVIOUS
    <3>1. n # x => DueBefore(late, listed, n, x)
      OBVIOUS
    <3> QED
      BY <1>1, <1>9, <3>1, DueBeforeOrders
  <2>2. m \in u /\ plan[m] = acc.plan[m]
    BY <1>1, <1>5, <2>1
  <2>3. CASE n = x
    BY <1>4, <1>5, <1>9, <2>2, <2>3 DEF Filled
  <2>4. CASE n # x
    <3>1. n \in u /\ plan[n] = acc.plan[n]
      BY <1>1, <1>5, <2>4
    <3> QED
      BY <1>9, <2>2, <3>1 DEF Filled
  <2> QED
    BY <2>3, <2>4
<1>10. Total(plan, t) + left = amount
  <2>1. \A n \in t : plan[n] \in Int
    BY <1>1, <1>5
  <2>2. Total(plan, t) = plan[x] + Total(plan, u)
    BY <1>1, <2>1, TotalTakes
  <2>3. Total(plan, u) = Total(acc.plan, u)
    <3>1. \A n \in u : plan[n] = acc.plan[n]
      BY <1>1, <1>5
    <3> QED
      BY <1>1, <3>1, TotalSame
  <2>4. Total(plan, u) \in Int
    BY <1>1, <2>1, TotalType
  <2>5. Total(acc.plan, u) + acc.left = amount
    BY DEF Filled
  <2> QED
    BY <1>3, <1>4, <1>5, <2>2, <2>3, <2>4, <2>5
<1> QED
  BY <1>2, <1>4, <1>5, <1>6, <1>7, <1>8, <1>9, <1>10 DEF Filled

(* The whole loop.                                                         *)
LEMMA AllFilled ==
  ASSUME ArInv, NEW late, NEW listed, DueOrder(late, listed), NEW amount \in Nat
  PROVE  \E acc : /\ AutoPlan(late, listed, amount) = acc.plan
                  /\ Filled(late, listed, amount, OpenOnes, acc)
<1> DEFINE a == Fills(late, listed, amount, OpenOnes)
           B == { t \in SUBSET OpenOnes : ~ Filled(late, listed, amount, t, a[t]) }
<1>1. /\ \A t \in SUBSET OpenOnes : a[t] = FillStep(late, listed, amount, a, t)
      /\ AutoPlan(late, listed, amount) = a[OpenOnes].plan
  BY FillsAre
<1>2. OpenOnes \subseteq Numbers /\ IsFiniteSet(OpenOnes)
  BY ArAssumption, FS_Subset DEF OpenOnes
<1> HIDE DEF a
<1>3. B = {}
  <2> SUFFICES ASSUME B # {} PROVE FALSE
    OBVIOUS
  <2>1. PICK t \in B : \A x \in t : t \ {x} \notin B
    <3>1. B \subseteq SUBSET OpenOnes
      OBVIOUS
    <3> HIDE DEF B
    <3> QED
      BY <1>2, <3>1, LeastSet
  <2>2. t \in SUBSET OpenOnes
        /\ ~ Filled(late, listed, amount, t, a[t])
        /\ a[t] = FillStep(late, listed, amount, a, t)
    BY <1>1, <1>2
  <2>3. CASE t = {}
    <3>1. a[t].plan = NoPlan /\ a[t].left = amount
      BY <2>2, <2>3 DEF FillStep, NothingYet
    <3>2. Total(NoPlan, {}) = 0
      BY TotalOfNothing
    <3> QED
      BY <2>2, <2>3, <3>1, <3>2 DEF Filled, NoPlan
  <2>4. CASE t # {}
    <3> DEFINE x == DueLast(late, listed, t)
    <3>1. x \in t /\ \A m \in t \ {x} : DueBefore(late, listed, m, x)
      BY <2>2, <2>4, DueLastIsLast
    <3>2. a[t] = Fill(x, a[t \ {x}])
      BY <2>2, <2>4 DEF FillStep
    <3> HIDE DEF x
    <3>3. Filled(late, listed, amount, t \ {x}, a[t \ {x}])
      BY <2>1, <2>2, <3>1
    <3> QED
      BY <2>2, <3>1, <3>2, <3>3, FillKeeps
  <2> QED
    BY <2>3, <2>4
<1>4. Filled(late, listed, amount, OpenOnes, a[OpenOnes])
  BY <1>3
<1> QED
  BY <1>1, <1>4

(* A plan puts something on open invoices only, so its sum is theirs.      *)
LEMMA PlanIsRight ==
  ASSUME ArInv, NEW late, NEW listed, DueOrder(late, listed), NEW amount \in Nat
  PROVE  LET plan == AutoPlan(late, listed, amount)
             owed == OwedIn(OpenOnes)
         IN  /\ PlanAllowed(plan, amount)
             /\ SumFunction(plan) = IF amount < owed THEN amount ELSE owed
             /\ \A m, n \in OpenOnes :
                  DueBefore(late, listed, m, n) /\ plan[n] > 0 => plan[m] = Outstanding(m)
<1>1. PICK acc : /\ AutoPlan(late, listed, amount) = acc.plan
                 /\ Filled(late, listed, amount, OpenOnes, acc)
  BY AllFilled
<1> DEFINE plan == acc.plan
           left == acc.left
           rest == Numbers \ OpenOnes
<1>2. /\ plan \in [Numbers -> Nat] /\ left \in Nat
      /\ \A n \in rest : plan[n] = 0
      /\ \A n \in OpenOnes : plan[n] <= Outstanding(n)
      /\ left > 0 => \A n \in OpenOnes : plan[n] = Outstanding(n)
      /\ \A m, n \in OpenOnes : DueBefore(late, listed, m, n) /\ plan[n] > 0
                                  => plan[m] = Outstanding(m)
      /\ Total(plan, OpenOnes) + left = amount
  BY <1>1 DEF Filled
<1>3. OpenOnes \in SUBSET Numbers /\ IsFiniteSet(OpenOnes) /\ IsFiniteSet(rest)
      /\ IsFiniteSet(Numbers)
  BY ArAssumption, FS_Subset DEF OpenOnes
<1> HIDE DEF plan, left
<1>4. /\ \A n \in OpenOnes : plan[n] \in Int /\ Owed[n] \in Int /\ Owed[n] = Outstanding(n)
      /\ \A n \in Numbers : plan[n] \in Int
  BY <1>2, <1>3, InvoiceSums DEF Owed
<1>5. SumFunction(plan) = Total(plan, OpenOnes)
  <2>1. SumFunction(plan) = Total(plan, Numbers)
    BY <1>2, SumFunctionIs
  <2>2. OpenOnes \cup rest = Numbers /\ OpenOnes \cap rest = {} /\ rest \in SUBSET Numbers
    BY <1>3
  <2>3. Total(plan, OpenOnes \cup rest) = Total(plan, OpenOnes) + Total(plan, rest)
    BY <1>3, <1>4, <2>2, TotalUnion
  <2>4. Total(plan, rest) = 0
    BY <1>2, <1>3, TotalZero
  <2>5. Total(plan, OpenOnes) \in Int
    BY <1>3, <1>4, TotalType
  <2> HIDE DEF rest
  <2> QED
    BY <2>1, <2>2, <2>3, <2>4, <2>5
<1>6. OwedIn(OpenOnes) = Total(Owed, OpenOnes)
  BY <1>3, OwedInIs
<1>7. Total(plan, OpenOnes) \in Int /\ Total(Owed, OpenOnes) \in Int
  BY <1>3, <1>4, TotalType
<1>8. Total(plan, OpenOnes) <= Total(Owed, OpenOnes)
  BY <1>2, <1>3, <1>4, TotalAtMost
<1>9. left > 0 => Total(plan, OpenOnes) = Total(Owed, OpenOnes)
  <2> SUFFICES ASSUME left > 0 PROVE Total(plan, OpenOnes) = Total(Owed, OpenOnes)
    OBVIOUS
  <2>1. \A n \in OpenOnes : plan[n] = Owed[n]
    BY <1>2, <1>4
  <2> QED
    BY <1>3, <2>1, TotalSame
<1>10. SumFunction(plan) = IF amount < OwedIn(OpenOnes) THEN amount ELSE OwedIn(OpenOnes)
  BY <1>2, <1>5, <1>6, <1>7, <1>8, <1>9
<1>11. PlanAllowed(plan, amount)
  <2>1. SumFunction(plan) <= amount
    BY <1>2, <1>5, <1>7
  <2>2. ASSUME NEW n \in Numbers, plan[n] > 0 PROVE Open(n) /\ plan[n] <= Outstanding(n)
    <3>1. n \in OpenOnes
      BY <1>2, <2>2
    <3> QED
      BY <1>2, <3>1 DEF OpenOnes
  <2> QED
    BY <2>1, <2>2 DEF PlanAllowed
<1> QED
  BY <1>1, <1>2, <1>10, <1>11 DEF plan

(* Whatever the due dates and the order of issue, an automatic payment is  *)
(* put on the invoice due first until that is covered, then on the next,   *)
(* and nothing is kept back that an open invoice could take                *)
(* (autoAllocate).  It holds in every reachable state, for every number of *)
(* clerks, since it asks for no more than that the amounts have their type.*)
THEOREM ClearsOldestFirstAlways == Spec => []ClearsOldestFirst
<1>1. ArInv => ClearsOldestFirst
  <2> SUFFICES ASSUME ArInv, NEW late \in Lates, NEW listed \in Listings,
                      NEW amount \in 1..MaxPaid
               PROVE  LET plan == AutoPlan(late, listed, amount)
                          owed == OwedIn(OpenOnes)
                      IN  /\ PlanAllowed(plan, amount)
                          /\ SumFunction(plan) = IF amount < owed THEN amount ELSE owed
                          /\ \A m, n \in OpenOnes :
                               DueBefore(late, listed, m, n) /\ plan[n] > 0
                                 => plan[m] = Outstanding(m)
    <3>1. OwedIn(OpenOnes) = MapThenSumSet(Outstanding, OpenOnes)
      BY DEF OwedIn
    <3> QED
      BY <3>1 DEF ClearsOldestFirst
  <2>1. DueOrder(late, listed) /\ amount \in Nat
    BY ArAssumption DEF DueOrder
  <2> QED
    BY <2>1, PlanIsRight
<1> QED
  BY <1>1, ArInvariant, PTL

-----------------------------------------------------------------------------
(* The performance report and the night audit (Reports), which add up sums *)
(* too: for every number of rooms, reservations, outages, channels, days.  *)

(* Stays have nights, and a guest in house has arrived.                    *)
StaysAreNights ==
  \A x \in Stays : /\ stay[x].from < stay[x].to
                   /\ stay[x].st = "IN_HOUSE" => stay[x].from <= day

LEMMA ReportInit ==
  ASSUME HotelInit PROVE HotelTypeOK /\ StaysAreNights
<1>1. LastDay \in Nat /\ 1 \in Days
  BY ReportsAssumption DEF Days
<1>2. NoOutage \in Outage
  BY <1>1 DEF NoOutage, Outage, Never
<1>3. stay \in [Stays -> Stay]
      /\ \A x \in Stays : stay[x].st = "BOOKED" /\ stay[x].from < stay[x].to
  BY DEF HotelInit
<1> QED
  BY <1>1, <1>2, <1>3 DEF HotelInit, HotelTypeOK, StaysAreNights

LEMMA ReportNext ==
  ASSUME HotelTypeOK, StaysAreNights, [HotelNext]_hotel
  PROVE  HotelTypeOK' /\ StaysAreNights'
<1> USE DEF HotelTypeOK, StaysAreNights
<1>1. LastDay \in Nat /\ None \notin Rooms /\ \A d \in Days : d \in Int
  BY ReportsAssumption DEF Days
<1>2. \A x \in Stays : /\ stay[x] \in Stay /\ stay[x].from \in Int /\ stay[x].to \in Int
                       /\ stay[x].from \in Days
  BY <1>1 DEF Stay
<1>3. day \in Int /\ day \in Days
  BY <1>1
<1>4. ASSUME NEW x \in Stays, NEW st \in {"IN_HOUSE", "CHECKED_OUT", "CANCELLED"},
             Becomes(x, st), st = "IN_HOUSE" => stay[x].from <= day
      PROVE  HotelTypeOK' /\ StaysAreNights'
  <2>1. stay' = [stay EXCEPT ![x].st = st] /\ UNCHANGED <<day, outage, flagged>>
    BY <1>4 DEF Becomes
  <2>2. [stay[x] EXCEPT !.st = st] \in Stay
    BY <1>2 DEF Stay
  <2>3. stay' \in [Stays -> Stay]
    BY <2>1, <2>2
  <2>4. \A y \in Stays : /\ stay'[y].from = stay[y].from /\ stay'[y].to = stay[y].to
                         /\ y = x => stay'[y].st = st
                         /\ y # x => stay'[y].st = stay[y].st
    BY <1>2, <2>1 DEF Stay
  <2> QED
    BY <1>4, <2>1, <2>3, <2>4
<1>5. ASSUME NEW x \in Stays, NEW to \in 2..LastDay + 1, Modify(x, to)
      PROVE  HotelTypeOK' /\ StaysAreNights'
  <2>1. /\ stay' = [stay EXCEPT ![x].to = to] /\ UNCHANGED <<day, outage, flagged>>
        /\ to > day /\ stay[x].st = "IN_HOUSE"
    BY <1>5 DEF Modify
  <2>2. [stay[x] EXCEPT !.to = to] \in Stay /\ to \in Int
    BY <1>1, <1>2 DEF Stay
  <2>3. stay' \in [Stays -> Stay]
    BY <2>1, <2>2
  <2>4. \A y \in Stays : /\ stay'[y].from = stay[y].from /\ stay'[y].st = stay[y].st
                         /\ y = x => stay'[y].to = to
                         /\ y # x => stay'[y].to = stay[y].to
    BY <1>2, <2>1 DEF Stay
  <2>5. stay[x].from < to
    BY <1>2, <1>3, <2>1, <2>2
  <2> QED
    BY <2>1, <2>3, <2>4, <2>5
<1>6. ASSUME NEW o \in Outages, NEW r \in Rooms, NEW from \in Days, NEW to \in Days,
             TakeOut(o, r, from, to)
      PROVE  HotelTypeOK' /\ StaysAreNights'
  <2>1. [room |-> r, from |-> from, to |-> to, released |-> Never] \in Outage
    BY DEF Outage
  <2> QED
    BY <1>6, <2>1 DEF TakeOut
<1>7. ASSUME NEW o \in Outages, Release(o) PROVE HotelTypeOK' /\ StaysAreNights'
  <2>1. [outage[o] EXCEPT !.released = day] \in Outage
    BY DEF Outage
  <2> QED
    BY <1>7, <2>1 DEF Release
<1>8. ASSUME NEW r \in Rooms, Flag(r) PROVE HotelTypeOK' /\ StaysAreNights'
  BY <1>8 DEF Flag
<1>9. ASSUME NextDay PROVE HotelTypeOK' /\ StaysAreNights'
  <2>1. day' = day + 1 /\ day' \in Days /\ UNCHANGED <<stay, outage, flagged>>
    BY <1>1, <1>9 DEF NextDay, Days
  <2> QED
    BY <1>2, <1>3, <2>1
<1>10. CASE UNCHANGED hotel
  BY <1>10 DEF hotel
<1> QED
  BY <1>4, <1>5, <1>6, <1>7, <1>8, <1>9, <1>10
     DEF HotelNext, CheckIn, CheckOut, Cancel

(* A finished audit leaves nobody off tonight's row: who is in house has   *)
(* arrived and, not being due out, stays the night; who was booked has     *)
(* arrived or was cancelled (review, daily).                               *)
THEOREM ReportsAlways == HotelSpec => []ReportsInv
<1>1. HotelTypeOK /\ StaysAreNights => ReportsInv
  <2> SUFFICES ASSUME HotelTypeOK, StaysAreNights, Ready PROVE ReadyIsReported
    BY DEF ReportsInv, ReadyIsReported
  <2>1. \A x \in Stays : stay[x].from \in Int /\ stay[x].to \in Int /\ day \in Int
    BY ReportsAssumption DEF HotelTypeOK, Stay, Days
  <2>2. ASSUME NEW x \in Stays, stay[x].st = "IN_HOUSE" PROVE x \in SoldOn(day)
    BY <2>1, <2>2 DEF StaysAreNights, Ready, DeparturePending, SoldOn,
                      Realized, Covers
  <2>3. BookedOn(day) = {}
    BY DEF Ready, ArrivalPending, BookedOn, Covers
  <2> QED
    BY <2>2, <2>3 DEF ReadyIsReported
<1> QED
  BY <1>1, ReportInit, ReportNext, PTL DEF HotelSpec

(* What was available on a past day moves only when an outage is entered   *)
(* for days that had begun: a release counts from its day on, and a flag   *)
(* from today on (daily).                                                  *)
THEOREM PastIsKeptAlways == HotelSpec => PastIsKept
<1> DEFINE Kept == \A d \in 1..day - 1 :
       AvailableOn(d)' # AvailableOn(d) =>
         \E o \in Registered' \ Registered : outage'[o].from <= d
<1>1. ASSUME HotelTypeOK, [HotelNext]_hotel PROVE Kept
  <2> SUFFICES ASSUME NEW d \in 1..day - 1,
                      ~ \E o \in Registered' \ Registered : outage'[o].from <= d
               PROVE  BrokenOn(d)' = BrokenOn(d)
    BY DEF AvailableOn
  <2>1. /\ d \in Int /\ day \in Int /\ ~ (d >= day) /\ d < day /\ day <= LastDay /\ LastDay \in Int
        /\ \A e \in Days : e \in Int
    BY <1>1, ReportsAssumption DEF HotelTypeOK, Days
  <2> DEFINE Counts(out, o) == /\ out[o].room # None /\ d < out[o].released
                               /\ out[o].from <= d /\ d <= out[o].to
  <2>2. day' \in Int /\ ~ (d >= day')
    BY <1>1, <2>1 DEF HotelNext, CheckIn, CheckOut, Cancel, Modify,
          Becomes, TakeOut, Release, Flag, NextDay, hotel
  <2>3. /\ BrokenOn(d) = { outage[o].room : o \in { p \in Outages : Counts(outage, p) } }
        /\ BrokenOn(d)' = { outage'[o].room : o \in { p \in Outages : Counts(outage', p) } }
    BY <2>1, <2>2 DEF BrokenOn, Registered, StillOut, Runs
  <2>4. \A o \in Outages : /\ Counts(outage', o) <=> Counts(outage, o)
                           /\ Counts(outage, o) => outage'[o].room = outage[o].room
    <3>1. CASE UNCHANGED outage
      BY <3>1
    <3>2. ASSUME NEW o \in Outages, NEW r \in Rooms, NEW from \in Days, NEW to \in Days,
                 TakeOut(o, r, from, to)
          PROVE  <2>4
      <4>1. /\ outage' = [outage EXCEPT ![o] = [room |-> r, from |-> from, to |-> to,
                                                released |-> Never]]
            /\ outage[o].room = None /\ r # None /\ outage \in [Outages -> Outage]
        BY <1>1, <3>2, ReportsAssumption DEF TakeOut, Registered, HotelTypeOK
      <4>2. o \in Registered' \ Registered /\ outage'[o].from = from
        BY <4>1 DEF Registered
      <4>3. ~ (from <= d)
        BY <4>2
      <4> QED
        BY <4>1, <4>3
    <3>3. ASSUME NEW o \in Outages, Release(o) PROVE <2>4
      <4>1. /\ outage' = [outage EXCEPT ![o].released = day] /\ outage[o].released = LastDay + 1
            /\ outage \in [Outages -> Outage]
        BY <1>1, <3>3 DEF Release, HotelTypeOK, Unreleased, Never
      <4>2. d < day /\ d < LastDay + 1
        BY <2>1
      <4>3. /\ \A p \in Outages \ {o} : outage'[p] = outage[p]
            /\ outage'[o] = [outage[o] EXCEPT !.released = day]
        BY <4>1
      <4>4. outage'[o].room = outage[o].room /\ outage'[o].from = outage[o].from
            /\ outage'[o].to = outage[o].to /\ outage'[o].released = day
        BY <4>1, <4>3 DEF Outage
      <4> QED
        BY <4>1, <4>2, <4>3, <4>4
    <3> QED
      BY <1>1, <3>1, <3>2, <3>3 DEF HotelNext, CheckIn, CheckOut, Cancel,
         Modify, Becomes, Flag, NextDay, hotel
  <2> HIDE DEF Counts
  <2> QED
    BY <2>3, <2>4
<1>2. HotelTypeOK /\ [HotelNext]_hotel => [Kept]_hotel
  BY <1>1
<1>3. HotelSpec => []HotelTypeOK
  BY ReportInit, ReportNext, PTL DEF HotelSpec
<1> QED
  BY <1>2, <1>3, PTL DEF HotelSpec, PastIsKept

-----------------------------------------------------------------------------
(* The breakdown by channel.                                               *)

(* A table adds up to the same by rows and by columns.                     *)
ColumnOf(F, C, d) == [c \in C |-> F[c][d]]
RowSums(F, C, D) == [c \in C |-> Total(F[c], D)]
ColumnSums(F, C, D) == [d \in D |-> Total(ColumnOf(F, C, d), C)]

LEMMA TotalSwap ==
  ASSUME NEW C, IsFiniteSet(C), NEW D, IsFiniteSet(D), NEW F,
         \A c \in C, d \in D : F[c][d] \in Int
  PROVE  Total(RowSums(F, C, D), C) = Total(ColumnSums(F, C, D), D)
<1> DEFINE row == RowSums(F, C, D)
           Column(d) == ColumnOf(F, C, d)
           Part(U) == [d \in D |-> Total(Column(d), U)]
           B == { U \in SUBSET C : Total(row, U) # Total(Part(U), D) }
<1>0. \A c \in C : row[c] = Total(F[c], D)
  BY DEF RowSums
<1> HIDE DEF row
<1>1. \A d \in D : \A c \in C : Column(d)[c] = F[c][d] /\ Column(d)[c] \in Int
  BY DEF ColumnOf
<1>2. B = {}
  <2> SUFFICES ASSUME B # {} PROVE FALSE
    OBVIOUS
  <2>1. PICK U \in B : \A x \in U : U \ {x} \notin B
    <3>1. B \subseteq SUBSET C
      OBVIOUS
    <3> HIDE DEF B
    <3> QED
      BY <3>1, LeastSet
  <2>2. U \in SUBSET C /\ Total(row, U) # Total(Part(U), D) /\ IsFiniteSet(U)
    BY FS_Subset
  <2> HIDE DEF Column
  <2>3. U # {}
    <3> SUFFICES ASSUME U = {} PROVE FALSE
      OBVIOUS
    <3>1. \A d \in D : Part(U)[d] = 0
      BY TotalOfNothing
    <3> HIDE DEF Part
    <3>2. Total(Part(U), D) = 0
      BY <3>1, TotalZero
    <3> QED
      BY <2>2, <3>2, TotalOfNothing
  <2> DEFINE x == Pick1(U)
             V == U \ {x}
  <2>4. x \in U /\ x \in C
    BY <2>2, <2>3, PickIn
  <2>5. Total(row, V) = Total(Part(V), D)
    BY <2>1, <2>2, <2>4
  <2>6. Total(row, U) = Total(F[x], D) + Total(row, V)
    BY <1>0, <2>2, <2>3, <2>4, TotalPicks
  <2>7. ASSUME NEW d \in D
        PROVE  F[x][d] \in Int /\ Part(V)[d] \in Int /\ Part(U)[d] = F[x][d] + Part(V)[d]
    <3>1. Total(Column(d), U) = Column(d)[x] + Total(Column(d), V)
      BY <2>2, <2>3, TotalPicks
    <3>2. IsFiniteSet(V) /\ \A c \in V : Column(d)[c] \in Int
      BY <1>1, <2>2, FS_Subset
    <3>3. Total(Column(d), V) \in Int
      BY <3>2, TotalType
    <3> QED
      BY <1>1, <2>4, <3>1, <3>3
  <2> HIDE DEF x, V, Part, B
  <2>8. Total(Part(U), D) = Total(F[x], D) + Total(Part(V), D)
    BY <2>7, TotalPlus
  <2> QED
    BY <2>2, <2>5, <2>6, <2>8
<1>3. C \in SUBSET C
  OBVIOUS
<1>4. Total(row, C) = Total(Part(C), D)
  BY <1>2, <1>3
<1>5. Part(C) = ColumnSums(F, C, D)
  BY DEF ColumnSums
<1> HIDE DEF Part, B
<1> QED
  BY <1>4, <1>5 DEF row

(* The size of a set is a sum.                                             *)
Ones(S) == [x \in S |-> 1]

LEMMA TotalOfOnes ==
  ASSUME NEW S, IsFiniteSet(S), NEW W \in SUBSET S
  PROVE  Total(Ones(S), W) = Cardinality(W)
<1> DEFINE B == { U \in SUBSET S : Total(Ones(S), U) # Cardinality(U) }
<1>1. B = {}
  <2> SUFFICES ASSUME B # {} PROVE FALSE
    OBVIOUS
  <2>1. PICK U \in B : \A x \in U : U \ {x} \notin B
    <3>1. B \subseteq SUBSET S
      OBVIOUS
    <3> HIDE DEF B
    <3> QED
      BY <3>1, LeastSet
  <2>2. U \in SUBSET S /\ Total(Ones(S), U) # Cardinality(U) /\ IsFiniteSet(U)
    BY FS_Subset
  <2>3. U # {}
    BY <2>2, TotalOfNothing, FS_EmptySet
  <2>4. Pick1(U) \in U /\ Ones(S)[Pick1(U)] = 1
    BY <2>2, <2>3, PickIn DEF Ones
  <2>5. Total(Ones(S), U \ {Pick1(U)}) = Cardinality(U \ {Pick1(U)})
    BY <2>1, <2>2, <2>4
  <2>6. Total(Ones(S), U) = 1 + Total(Ones(S), U \ {Pick1(U)})
    BY <2>2, <2>3, <2>4, TotalPicks
  <2>7. Cardinality(U \ {Pick1(U)}) = Cardinality(U) - 1 /\ Cardinality(U) \in Nat
    BY <2>2, <2>4, FS_RemoveElement, FS_CardinalityType
  <2> QED
    BY <2>2, <2>5, <2>6, <2>7
<1> QED
  BY <1>1

(* What rounding each term to sixths takes or gives in all.                *)
LEMMA TotalRounded ==
  ASSUME NEW S, IsFiniteSet(S), NEW f, NEW r,
         \A x \in S : /\ f[x] \in Int /\ r[x] \in Int
                      /\ f[x] - 2 <= 6 * r[x] /\ 6 * r[x] <= f[x] + 3
  PROVE  /\ Total(f, S) - 2 * Cardinality(S) <= 6 * Total(r, S)
         /\ 6 * Total(r, S) <= Total(f, S) + 3 * Cardinality(S)
<1> DEFINE Near(U) == /\ Total(f, U) - 2 * Cardinality(U) <= 6 * Total(r, U)
                      /\ 6 * Total(r, U) <= Total(f, U) + 3 * Cardinality(U)
           B == { U \in SUBSET S : ~ Near(U) }
<1>1. \A U \in SUBSET S : /\ IsFiniteSet(U) /\ Cardinality(U) \in Nat
                          /\ Total(f, U) \in Int /\ Total(r, U) \in Int
  <2> SUFFICES ASSUME NEW U \in SUBSET S
               PROVE  /\ IsFiniteSet(U) /\ Cardinality(U) \in Nat
                      /\ Total(f, U) \in Int /\ Total(r, U) \in Int
    OBVIOUS
  <2>1. IsFiniteSet(U)
    BY FS_Subset
  <2> QED
    BY <2>1, FS_CardinalityType, TotalType
<1>2. B = {}
  <2> SUFFICES ASSUME B # {} PROVE FALSE
    OBVIOUS
  <2>1. PICK U \in B : \A x \in U : U \ {x} \notin B
    <3>1. B \subseteq SUBSET S
      OBVIOUS
    <3> HIDE DEF B
    <3> QED
      BY <3>1, LeastSet
  <2>2. U \in SUBSET S /\ ~ Near(U) /\ IsFiniteSet(U)
    BY <1>1
  <2>3. U # {}
    <3>1. Total(f, {}) = 0 /\ Total(r, {}) = 0 /\ Cardinality({}) = 0
      BY TotalOfNothing, FS_EmptySet
    <3>2. Near({})
      BY <3>1
    <3> HIDE DEF Near
    <3> QED
      BY <2>2, <3>2
  <2> DEFINE x == Pick1(U)
             V == U \ {x}
  <2>4. x \in U /\ x \in S
    BY <2>2, <2>3, PickIn
  <2>5. V \in SUBSET S /\ Near(V)
    BY <2>1, <2>2, <2>4
  <2>6. Total(f, U) = f[x] + Total(f, V) /\ Total(r, U) = r[x] + Total(r, V)
    BY <2>2, <2>3, TotalPicks
  <2>7. Cardinality(V) = Cardinality(U) - 1
    BY <2>2, <2>4, FS_RemoveElement
  <2> HIDE DEF x, V, B
  <2>8. /\ Cardinality(U) \in Int /\ Cardinality(V) \in Int
        /\ Total(f, V) \in Int /\ Total(r, V) \in Int /\ f[x] \in Int /\ r[x] \in Int
        /\ f[x] - 2 <= 6 * r[x] /\ 6 * r[x] <= f[x] + 3
    BY <1>1, <2>2, <2>4, <2>5
  <2> QED
    BY <2>2, <2>5, <2>6, <2>7, <2>8
<1> QED
  BY <1>2

(* Channels, and that every reservation is of one.                         *)
Channels == Codes \cup {None}
SoldBy(c, d) == Bucket(c) \cap SoldOn(d)
SumsBy(f, D, c) == [d \in D |-> Total(f, SoldBy(c, d))]
PartSums(f, D) == [c \in Channels |-> Total(SumsBy(f, D, c), D)]
WholeSums(f, D) == [d \in D |-> Total(f, SoldOn(d))]

LEMMA ChannelsSplit ==
  ASSUME HotelTypeOK,
         NEW f, \A x \in Stays : f[x] \in Int, NEW D, IsFiniteSet(D)
  PROVE  Total(PartSums(f, D), Channels) = Total(WholeSums(f, D), D)
<1>1. IsFiniteSet(Stays) /\ IsFiniteSet(Channels)
  <2>1. IsFiniteSet(Stays) /\ IsFiniteSet(Codes)
    BY ReportsAssumption
  <2> QED
    BY <2>1, FS_AddElement DEF Channels
<1>2. \A d : SoldOn(d) \in SUBSET Stays
  BY DEF SoldOn, Realized
<1>3. \A U \in SUBSET Stays : IsFiniteSet(U) /\ Total(f, U) \in Int
  <2> SUFFICES ASSUME NEW U \in SUBSET Stays PROVE IsFiniteSet(U) /\ Total(f, U) \in Int
    OBVIOUS
  <2>1. IsFiniteSet(U)
    BY <1>1, FS_Subset
  <2> QED
    BY <2>1, TotalType
<1> DEFINE F == [c \in Channels |-> SumsBy(f, D, c)]
           k == [x \in Stays |-> stay[x].code]
<1>4. \A c \in Channels, d \in D :
        /\ F[c][d] = Total(f, SoldBy(c, d))
        /\ F[c][d] \in Int
  BY <1>2, <1>3 DEF SumsBy, SoldBy
<1>5. RowSums(F, Channels, D) = PartSums(f, D)
  BY DEF RowSums, PartSums
<1>6. ASSUME NEW d \in D PROVE Total(f, SoldOn(d)) = Total(ColumnOf(F, Channels, d), Channels)
  <2> DEFINE g == ColumnOf(F, Channels, d)
             S == SoldOn(d)
  <2>1. IsFiniteSet(S) /\ \A x \in S : f[x] \in Int
    BY <1>2, <1>3
  <2>2. \A c \in Channels : SortedAs(S, k, c) = SoldBy(c, d)
    BY <1>2 DEF SortedAs, SoldBy, Bucket
  <2>3. \A c \in Channels : g[c] = Total(f, SortedAs(S, k, c))
    BY <1>4, <2>2 DEF ColumnOf
  <2>4. SortedIn(S, k, Channels) = S
    BY <1>2 DEF SortedIn, Channels, HotelTypeOK, Stay
  <2> HIDE DEF g, S, k, F
  <2>5. Total(g, Channels) = Total(f, SortedIn(S, k, Channels))
    BY <1>1, <2>1, <2>3, TotalSorted
  <2> QED
    BY <2>4, <2>5 DEF g, S
<1>7. \A c \in Channels, d \in D : F[c][d] \in Int
  BY <1>4
<1> HIDE DEF F, k
<1>8. ColumnSums(F, Channels, D) = WholeSums(f, D)
  BY <1>6 DEF ColumnSums, WholeSums
<1> QED
  BY <1>1, <1>5, <1>7, <1>8, TotalSwap

(* What rounding a number of sixths takes or gives.                        *)
LEMMA RoundedIs ==
  ASSUME NEW m \in Int
  PROVE  /\ Rounded(m) \in Int
         /\ m - 2 <= 6 * Rounded(m) /\ 6 * Rounded(m) <= m + 3
BY DEF Rounded, Sixths

(* An integer divided by a positive one is one.                            *)
LEMMA QuotientType == \A a, n \in Int : n > 0 => a \div n \in Int
OBVIOUS

(* What each stay pays for a night.                                        *)
Shares == [x \in Stays |-> Share(x)]

LEMMA SharesAreWhole ==
  ASSUME HotelTypeOK, StaysAreNights
  PROVE  \A x \in Stays : Shares[x] \in Int
<1> SUFFICES ASSUME NEW x \in Stays PROVE Share(x) \in Int
  BY DEF Shares
<1>1. /\ stay[x].cents \in Int /\ stay[x].from \in Int /\ stay[x].to \in Int
      /\ stay[x].from < stay[x].to
  <2>1. stay[x] \in Stay /\ stay[x].from < stay[x].to
    BY DEF HotelTypeOK, StaysAreNights
  <2>2. LastDay \in Int /\ \A e \in Cents : e \in Int
    BY ReportsAssumption
  <2>3. stay[x].cents \in Cents /\ stay[x].from \in Days /\ stay[x].to \in 2..LastDay + 1
    BY <2>1 DEF Stay
  <2>4. stay[x].cents \in Int
    BY <2>2, <2>3
  <2> QED
    BY <2>1, <2>2, <2>3, <2>4 DEF Days
<1> DEFINE a == stay[x].cents * 6
           n == stay[x].to - stay[x].from
<1>2. a \in Int /\ n \in Int /\ n > 0
  BY <1>1
<1>3. Share(x) = a \div n
  BY DEF Share, NightsOf, Sixths
<1>4. a \div n \in Int
  <2> HIDE DEF a, n
  <2> QED
    BY <1>2, QuotientType
<1> HIDE DEF a, n
<1> QED
  BY <1>3, <1>4, Zenon

(* Nights and revenue of some stays as sums over all.                      *)
LEMMA StaysSums ==
  ASSUME HotelTypeOK, NEW S, S \subseteq Stays
  PROVE  /\ IsFiniteSet(S)
         /\ Cardinality(S) = Total(Ones(Stays), S)
         /\ RevenueOf(S) = Total(Shares, S)
<1>1. IsFiniteSet(Stays)
  BY ReportsAssumption
<1>2. IsFiniteSet(S)
  BY <1>1, FS_Subset
<1>3. Cardinality(S) = Total(Ones(Stays), S)
  BY <1>1, TotalOfOnes
<1> DEFINE f == [x \in S |-> Share(x)]
<1>4. RevenueOf(S) = Total(f, S)
  <2>1. DOMAIN f = S
    OBVIOUS
  <2>2. RevenueOf(S) = SumFunction(f)
    BY DEF RevenueOf
  <2> HIDE DEF f
  <2> QED
    BY <2>1, <2>2, SumFunctionIs
<1>5. \A x \in S : f[x] = Shares[x]
  BY DEF Shares
<1> HIDE DEF f
<1>6. Total(f, S) = Total(Shares, S)
  BY <1>2, <1>5, TotalSame
<1> QED
  BY <1>2, <1>3, <1>4, <1>6

(* What the rows and the channels of a range say.                          *)
LEMMA RowIs ==
  ASSUME HotelTypeOK, NEW d
  PROVE  /\ Row(d).sold = Total(Ones(Stays), SoldOn(d))
         /\ Row(d).revenue = Rounded(Total(Shares, SoldOn(d)))
<1>1. SoldOn(d) \subseteq Stays
  BY DEF SoldOn, Realized
<1> QED
  BY <1>1, StaysSums DEF Row

LEMMA PartIs ==
  ASSUME HotelTypeOK, NEW range, NEW c \in Channels
  PROVE  LET part == Breakdown(range)[c] IN
         /\ part.sold = Total(SumsBy(Ones(Stays), range, c), range)
         /\ part.revenue = Rounded(Total(SumsBy(Shares, range, c), range))
<1> DEFINE f == [d \in range |-> Cardinality(SoldBy(c, d))]
           g == [d \in range |-> RevenueOf(SoldBy(c, d))]
<1>1. /\ Breakdown(range)[c].sold = SumFunction(f)
      /\ Breakdown(range)[c].revenue = Rounded(SumFunction(g))
  BY DEF Breakdown, SoldBy, Channels
<1>2. \A d : SoldBy(c, d) \subseteq Stays
  BY DEF SoldBy, SoldOn, Realized
<1>3. f = SumsBy(Ones(Stays), range, c) /\ g = SumsBy(Shares, range, c)
  BY <1>2, StaysSums DEF SumsBy
<1>4. DOMAIN f = range /\ DOMAIN g = range
  OBVIOUS
<1> HIDE DEF f, g
<1>5. SumFunction(f) = Total(f, range) /\ SumFunction(g) = Total(g, range)
  BY <1>4, SumFunctionIs
<1> QED
  BY <1>1, <1>3, <1>5

(* The channels' nights are the totals', and the channels' revenue is the  *)
(* totals' within half a cent for each row and each channel ("These must   *)
(* sum to the totals above", daily), however many there are.               *)
THEOREM ChannelsAddUpAlways == HotelSpec => []ChannelsAddUp
<1>1. ASSUME HotelTypeOK, StaysAreNights PROVE ChannelsAddUp
  <2> SUFFICES ASSUME NEW from \in Days, NEW to \in Days
               PROVE  LET range == from..to
                          parts == Breakdown(range)
                          off == SumFunction([code \in DOMAIN parts |-> parts[code].revenue])
                                   - Totals(range).revenue IN
                      /\ SumFunction([code \in DOMAIN parts |-> parts[code].sold])
                           = Totals(range).sold
                      /\ 2 * off <= Cardinality(range) + Cardinality(Codes) + 1
                      /\ -2 * off <= Cardinality(range) + Cardinality(Codes) + 1
    BY DEF ChannelsAddUp
  <2> DEFINE range == from..to
             parts == Breakdown(range)
             partSold == [c \in DOMAIN parts |-> parts[c].sold]
             partRevenue == [c \in DOMAIN parts |-> parts[c].revenue]
             rowSold == [d \in range |-> Row(d).sold]
             rowRevenue == [d \in range |-> Row(d).revenue]
             partShares == [c \in Channels |-> Total(SumsBy(Shares, range, c), range)]
             rowShares == [d \in range |-> Total(Shares, SoldOn(d))]
  <2>1. DOMAIN parts = Channels
    BY DEF Breakdown, Channels
  <2>2. /\ IsFiniteSet(range) /\ IsFiniteSet(Codes) /\ IsFiniteSet(Channels)
        /\ Cardinality(Channels) = Cardinality(Codes) + 1
        /\ Cardinality(Codes) \in Int /\ Cardinality(range) \in Int
    <3>1. IsFiniteSet(Codes) /\ None \notin Codes
      BY ReportsAssumption
    <3>2. from \in Int /\ to \in Int
      BY ReportsAssumption DEF Days
    <3>3. IsFiniteSet(range) /\ Cardinality(range) \in Int
      BY <3>2, FS_Interval, FS_CardinalityType
    <3> QED
      BY <3>1, <3>3, FS_AddElement, FS_CardinalityType DEF Channels
  <2>3. \A c \in Channels : /\ partSold[c] = Total(SumsBy(Ones(Stays), range, c), range)
                            /\ partRevenue[c] = Rounded(partShares[c])
    <3> SUFFICES ASSUME NEW c \in Channels
                 PROVE  /\ partSold[c] = Total(SumsBy(Ones(Stays), range, c), range)
                        /\ partRevenue[c] = Rounded(partShares[c])
      OBVIOUS
    <3>1. /\ partSold[c] = parts[c].sold /\ partRevenue[c] = parts[c].revenue
          /\ partShares[c] = Total(SumsBy(Shares, range, c), range)
      BY <2>1
    <3> HIDE DEF partSold, partRevenue, partShares, range
    <3> QED
      BY <1>1, <3>1, PartIs
  <2>4. \A d \in range : /\ rowSold[d] = Total(Ones(Stays), SoldOn(d))
                         /\ rowRevenue[d] = Rounded(rowShares[d])
    <3> SUFFICES ASSUME NEW d \in range
                 PROVE  /\ rowSold[d] = Total(Ones(Stays), SoldOn(d))
                        /\ rowRevenue[d] = Rounded(rowShares[d])
      OBVIOUS
    <3>1. /\ rowSold[d] = Row(d).sold /\ rowRevenue[d] = Row(d).revenue
          /\ rowShares[d] = Total(Shares, SoldOn(d))
      OBVIOUS
    <3> HIDE DEF rowSold, rowRevenue, rowShares, range
    <3> QED
      BY <1>1, <3>1, RowIs
  <2>5. /\ SumFunction(partSold) = Total(partSold, Channels)
        /\ SumFunction(partRevenue) = Total(partRevenue, Channels)
        /\ Totals(range).sold = Total(rowSold, range)
        /\ Totals(range).revenue = Total(rowRevenue, range)
    <3>1. DOMAIN partSold = Channels /\ DOMAIN partRevenue = Channels
          /\ DOMAIN rowSold = range /\ DOMAIN rowRevenue = range
      BY <2>1
    <3>2. /\ Totals(range).sold = SumFunction(rowSold)
          /\ Totals(range).revenue = SumFunction(rowRevenue)
      BY DEF Totals
    <3> HIDE DEF partSold, partRevenue, rowSold, rowRevenue, range
    <3> QED
      BY <3>1, <3>2, SumFunctionIs
  <2>6. (\A x \in Stays : Ones(Stays)[x] \in Int) /\ (\A x \in Stays : Shares[x] \in Int)
    BY <1>1, SharesAreWhole DEF Ones
  <2>7. Total(partSold, Channels) = Total(rowSold, range)
    <3>1. partSold = PartSums(Ones(Stays), range) /\ rowSold = WholeSums(Ones(Stays), range)
      BY <2>1, <2>3, <2>4 DEF PartSums, WholeSums
    <3> HIDE DEF partSold, rowSold, range
    <3> QED
      BY <1>1, <2>2, <2>6, <3>1, ChannelsSplit
  <2>8. Total(partShares, Channels) = Total(rowShares, range)
    <3>1. partShares = PartSums(Shares, range) /\ rowShares = WholeSums(Shares, range)
      BY DEF PartSums, WholeSums
    <3> HIDE DEF partShares, rowShares, range
    <3> QED
      BY <1>1, <2>2, <2>6, <3>1, ChannelsSplit
  <2>9. \A S \in SUBSET Stays : Total(Shares, S) \in Int
    <3> SUFFICES ASSUME NEW S \in SUBSET Stays PROVE Total(Shares, S) \in Int
      OBVIOUS
    <3>1. IsFiniteSet(S)
      BY <1>1, StaysSums
    <3> QED
      BY <2>6, <3>1, TotalType
  <2>10. \A d : SoldOn(d) \in SUBSET Stays /\ \A c : SoldBy(c, d) \in SUBSET Stays
    BY DEF SoldOn, Realized, SoldBy
  <2>11. \A d \in range : rowShares[d] \in Int
    BY <2>9, <2>10
  <2>12. \A c \in Channels : partShares[c] \in Int
    <3> SUFFICES ASSUME NEW c \in Channels PROVE Total(SumsBy(Shares, range, c), range) \in Int
      OBVIOUS
    <3>1. \A d \in range : SumsBy(Shares, range, c)[d] \in Int
      BY <2>9, <2>10 DEF SumsBy
    <3> QED
      BY <2>2, <3>1, TotalType
  <2> HIDE DEF range, parts, partSold, partRevenue, rowSold, rowRevenue, partShares, rowShares
  <2>13. \A c \in Channels :
           /\ partShares[c] \in Int /\ partRevenue[c] \in Int
           /\ partShares[c] - 2 <= 6 * partRevenue[c] /\ 6 * partRevenue[c] <= partShares[c] + 3
    BY <2>3, <2>12, RoundedIs
  <2>14. \A d \in range :
           /\ rowShares[d] \in Int /\ rowRevenue[d] \in Int
           /\ rowShares[d] - 2 <= 6 * rowRevenue[d] /\ 6 * rowRevenue[d] <= rowShares[d] + 3
    BY <2>4, <2>11, RoundedIs
  <2>15. /\ Total(partShares, Channels) \in Int /\ Total(partRevenue, Channels) \in Int
         /\ Total(rowShares, range) \in Int /\ Total(rowRevenue, range) \in Int
    BY <2>2, <2>13, <2>14, TotalType
  <2>16. /\ Total(partShares, Channels) - 2 * Cardinality(Channels) <= 6 * Total(partRevenue, Channels)
         /\ 6 * Total(partRevenue, Channels) <= Total(partShares, Channels) + 3 * Cardinality(Channels)
    BY <2>2, <2>13, TotalRounded
  <2>17. /\ Total(rowShares, range) - 2 * Cardinality(range) <= 6 * Total(rowRevenue, range)
         /\ 6 * Total(rowRevenue, range) <= Total(rowShares, range) + 3 * Cardinality(range)
    BY <2>2, <2>14, TotalRounded
  <2> DEFINE off == Total(partRevenue, Channels) - Total(rowRevenue, range)
  <2>18. /\ Cardinality(range) >= 0 /\ Cardinality(Codes) >= 0
    BY <2>2, FS_CardinalityType
  <2>19. /\ 2 * off <= Cardinality(range) + Cardinality(Codes) + 1
         /\ -2 * off <= Cardinality(range) + Cardinality(Codes) + 1
    BY <2>2, <2>8, <2>15, <2>16, <2>17, <2>18
  <2>20. off = SumFunction(partRevenue) - Totals(range).revenue
    BY <2>5
  <2> HIDE DEF off
  <2> QED
    BY <2>5, <2>7, <2>19, <2>20 DEF range, parts, partSold, partRevenue
<1> QED
  BY <1>1, ReportInit, ReportNext, PTL DEF HotelSpec

=============================================================================
