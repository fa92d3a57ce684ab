------------------------------- MODULE Payments -------------------------------
(***************************************************************************)
(* The payments service (src/payments/payments.service.ts): authorise,     *)
(* capture, void and refund of payments on one folio window.               *)
(*                                                                         *)
(* A request is a chain of awaits: it reads our database, calls the PSP,   *)
(* writes the payment row, posts to OPERA through Core and copies OPERA's  *)
(* answer over the local folio.  Nothing is locked between two awaits, so  *)
(* each is one action here and the requests of several clerks interleave   *)
(* at every point.  req[c] holds what the request of clerk c read earlier  *)
(* and still uses.                                                         *)
(*                                                                         *)
(* An idempotency key is unique over the payment rows                      *)
(* (prisma/schema.prisma), so a row is named by its key.  Amounts are in   *)
(* minor units.  Charges, currency, masks and texts are left out; the      *)
(* balance of the window is not kept, so check-out may close it at any     *)
(* time (a window with a zero balance may still have a card on hold).      *)
(***************************************************************************)
EXTENDS Integers, FiniteSets, OperaFolio

CONSTANTS
  Clerks,      \* clients with at most one request in flight each
  Keys,        \* idempotency keys, one payment row each at most
  Txns,        \* transaction numbers the PSP can give out (bounds authorise)
  MaxAmount,   \* bound on the amount of a request
  MaxReturned, \* bound on what the PSP pays back of one transaction
  Whole,       \* minor units in one whole unit of the currency
  Trouble,     \* the failures of the environment that may happen
  NoKey, NoTxn, NoCheck

(* "psp": an answer of the PSP gets lost.  "core": an answer of Core gets  *)
(* lost or Core is down.  "dies": the process, or the database call of one *)
(* request, fails between two steps.  "closes": check-out closes the       *)
(* folio.                                                                  *)
Troubles == {"psp", "core", "dies", "closes"}

ASSUME PaymentsAssumption ==
  /\ MaxAmount \in Nat \ {0}
  /\ MaxReturned \in Nat
  /\ Whole \in Nat \ {0}
  /\ Trouble \subseteq Troubles
  /\ NoKey \notin Keys
  /\ NoTxn \notin Txns

VARIABLES
  pay,     \* payment rows of our database, by key
  psp,     \* the PSP's transactions
  opera,   \* the folio window in OPERA
  local,   \* our copy of the window
  linked,  \* check numbers of the local postings that carry a paymentId
  req      \* the request each clerk has in flight

vars == <<pay, psp, opera, local, linked, req>>

Amounts == 1..MaxAmount
Settled == {"CAPTURED", "REFUNDED"}
Statuses == {"NONE", "AUTHORIZED", "FAILED", "VOIDED"} \cup Settled

(* PAY-<id> and PAY-<id>-R<refunded so far, rounded to the whole unit>.    *)
PaymentCheck(k) == [kind |-> "payment", key |-> k, no |-> 0]
RefundNo(total) == (2 * total + Whole) \div (2 * Whole)
RefundCheck_AsPayment(k, total) == PaymentCheck(k)
RefundCheck(k, total) == [kind |-> "refund", key |-> k, no |-> RefundNo(total)]

Checks == [kind : {"payment", "refund"}, key : Keys, no : Int]
Postings == [check : Checks, amount : Amounts]

Rows == [st : Statuses, amount : 0..MaxAmount, refunded : 0..MaxAmount,
         txn : Txns \cup {NoTxn}]
NoRow == [st |-> "NONE", amount |-> 0, refunded |-> 0, txn |-> NoTxn]

PspTxns == [st : {"unused", "held", "captured", "voided"}, key : Keys \cup {NoKey},
            held : 0..MaxAmount, taken : 0..MaxAmount, returned : 0..MaxReturned]
UnusedTxn == [st |-> "unused", key |-> NoKey, held |-> 0, taken |-> 0, returned |-> 0]

(* Where a request stands: the await it will resume with.                  *)
Stages == {"idle", "insertCash", "pspAuthorize", "insertHold", "insertFailed",
           "pspCapture", "writeCapture", "pspVoid", "writeVoid",
           "pspRefund", "writeRefund", "post", "mirror"}

Requests == [at : Stages, key : Keys \cup {NoKey}, amount : 0..MaxAmount,
             txn : Txns \cup {NoTxn}, base : 0..MaxAmount,
             check : Checks \cup {NoCheck}, answer : Folios(Postings)]
Idle == [at |-> "idle", key |-> NoKey, amount |-> 0, txn |-> NoTxn, base |-> 0,
         check |-> NoCheck, answer |-> EmptyFolio]

Init ==
  /\ pay = [k \in Keys |-> NoRow]
  /\ psp = [t \in Txns |-> UnusedTxn]
  /\ opera = EmptyFolio
  /\ local = EmptyFolio
  /\ linked = {}
  /\ req = [c \in Clerks |-> Idle]

-----------------------------------------------------------------------------
(* Steps shared by the handlers.                                           *)

At(c, stage) == req[c].at = stage
Answer(c) == req' = [req EXCEPT ![c] = Idle]
Resume(c, stage) == req' = [req EXCEPT ![c].at = stage]
Begin(c, stage, k, a, t, base) ==
  /\ At(c, "idle")
  /\ req' = [req EXCEPT ![c] =
       [Idle EXCEPT !.at = stage, !.key = k, !.amount = a, !.txn = t, !.base = base]]

(* The await that follows a settled row: core.createPosting.               *)
GoPost(c, check) ==
  req' = [req EXCEPT ![c] = [@ EXCEPT !.at = "post", !.check = check]]

-----------------------------------------------------------------------------
(* authorize: cash and transfer are settled at once, a card asks the PSP.  *)

(* A known key returns the row it has, a closed window is refused.         *)
MayAuthorize_SentAgain(k) == local.open
MayAuthorize(k) == pay[k].st = "NONE" /\ local.open

StartCash(c, k, a) ==
  /\ MayAuthorize(k)
  /\ Begin(c, "insertCash", k, a, NoTxn, 0)
  /\ UNCHANGED <<pay, psp, opera, local, linked>>

StartCard(c, k, a) ==
  /\ MayAuthorize(k)
  /\ Begin(c, "pspAuthorize", k, a, NoTxn, 0)
  /\ UNCHANGED <<pay, psp, opera, local, linked>>

(* The unique key lets the first insert in and fails every other one.      *)
InsertRow_Upsert(k, row) == pay' = [pay EXCEPT ![k] = row]
InsertRow(k, row) ==
  pay' = IF pay[k].st = "NONE" THEN [pay EXCEPT ![k] = row] ELSE pay

HoldRow(r) ==
  [st |-> "AUTHORIZED", amount |-> r.amount, refunded |-> 0, txn |-> r.txn]
FailedRow(r) == [NoRow EXCEPT !.st = "FAILED", !.amount = r.amount]
CashRow(r) == [NoRow EXCEPT !.st = "CAPTURED", !.amount = r.amount]

InsertCash(c) ==
  LET r == req[c] IN
  /\ At(c, "insertCash")
  /\ InsertRow(r.key, CashRow(r))
  /\ IF pay[r.key].st = "NONE" THEN GoPost(c, PaymentCheck(r.key)) ELSE Answer(c)
  /\ UNCHANGED <<psp, opera, local, linked>>

InsertHold_Posts(c) ==
  LET r == req[c] IN
  /\ At(c, "insertHold")
  /\ InsertRow(r.key, HoldRow(r))
  /\ GoPost(c, PaymentCheck(r.key))
  /\ UNCHANGED <<psp, opera, local, linked>>
InsertHold(c) ==
  LET r == req[c] IN
  /\ At(c, "insertHold")
  /\ InsertRow(r.key, HoldRow(r))
  /\ Answer(c)
  /\ UNCHANGED <<psp, opera, local, linked>>

InsertFailed(c) ==
  LET r == req[c] IN
  /\ At(c, "insertFailed")
  /\ InsertRow(r.key, FailedRow(r))
  /\ Answer(c)
  /\ UNCHANGED <<psp, opera, local, linked>>

-----------------------------------------------------------------------------
(* capture, void and refund: the guard is read, the PSP is asked, the row  *)
(* is written whatever it says by then.                                    *)

CaptureAllowed(row, a) == row.st = "AUTHORIZED" /\ row.txn # NoTxn /\ a <= row.amount
VoidAllowed(row) == row.st = "AUTHORIZED" /\ row.txn # NoTxn
RefundAllowed(row, a) == row.st \in Settled /\ a <= row.amount - row.refunded

StartCapture(c, k, a) ==
  /\ CaptureAllowed(pay[k], a)
  /\ Begin(c, "pspCapture", k, a, pay[k].txn, 0)
  /\ UNCHANGED <<pay, psp, opera, local, linked>>

StartVoid(c, k) ==
  /\ VoidAllowed(pay[k])
  /\ Begin(c, "pspVoid", k, 0, pay[k].txn, 0)
  /\ UNCHANGED <<pay, psp, opera, local, linked>>

(* Money that never went through the PSP is not refunded through it.       *)
RefundStage(row) == IF row.txn = NoTxn THEN "writeRefund" ELSE "pspRefund"
StartRefund(c, k, a) ==
  /\ RefundAllowed(pay[k], a)
  /\ Begin(c, RefundStage(pay[k]), k, a, pay[k].txn, pay[k].refunded)
  /\ UNCHANGED <<pay, psp, opera, local, linked>>

CapturedRow(row, r) == [row EXCEPT !.st = "CAPTURED", !.amount = r.amount]
VoidedRow(row) == [row EXCEPT !.st = "VOIDED"]
RefundedRow_Overwrites(row, r) ==
  [row EXCEPT !.st = "REFUNDED", !.refunded = r.amount]
RefundedRow(row, r) ==
  [row EXCEPT !.st = "REFUNDED", !.refunded = r.base + r.amount]

WriteCapture_NotPosted(c) ==
  LET r == req[c] IN
  /\ At(c, "writeCapture")
  /\ pay' = [pay EXCEPT ![r.key] = CapturedRow(@, r)]
  /\ Answer(c)
  /\ UNCHANGED <<psp, opera, local, linked>>
WriteCapture(c) ==
  LET r == req[c] IN
  /\ At(c, "writeCapture")
  /\ pay' = [pay EXCEPT ![r.key] = CapturedRow(@, r)]
  /\ GoPost(c, PaymentCheck(r.key))
  /\ UNCHANGED <<psp, opera, local, linked>>

WriteVoid(c) ==
  /\ At(c, "writeVoid")
  /\ pay' = [pay EXCEPT ![req[c].key] = VoidedRow(@)]
  /\ Answer(c)
  /\ UNCHANGED <<psp, opera, local, linked>>

(* The total is the one read before the PSP was asked, plus this refund.   *)
WriteRefund(c) ==
  LET r == req[c] IN
  /\ At(c, "writeRefund")
  /\ pay' = [pay EXCEPT ![r.key] = RefundedRow(@, r)]
  /\ GoPost(c, RefundCheck(r.key, r.base + r.amount))
  /\ UNCHANGED <<psp, opera, local, linked>>

-----------------------------------------------------------------------------
(* The PSP, as MockPaymentDriver is: it looks at no key, and gives every   *)
(* authorisation a transaction of its own.                                 *)

Unused == { t \in Txns : psp[t].st = "unused" }
Hold(t, k, a) ==
  psp' = [psp EXCEPT ![t] = [st |-> "held", key |-> k, held |-> a,
                             taken |-> 0, returned |-> 0]]

PspApproves(c) ==
  LET r == req[c] IN
  /\ At(c, "pspAuthorize")
  /\ \E t \in Unused :
       /\ Hold(t, r.key, r.amount)
       /\ req' = [req EXCEPT ![c] = [@ EXCEPT !.at = "insertHold", !.txn = t]]
  /\ UNCHANGED <<pay, opera, local, linked>>

PspDeclines(c) ==
  /\ At(c, "pspAuthorize")
  /\ Resume(c, "insertFailed")
  /\ UNCHANGED <<pay, psp, opera, local, linked>>

PspCaptures(t, a) ==
  /\ psp[t].st = "held"
  /\ a <= psp[t].held
  /\ psp' = [psp EXCEPT ![t].st = "captured", ![t].taken = a]
PspVoids(t) ==
  /\ psp[t].st = "held"
  /\ psp' = [psp EXCEPT ![t].st = "voided"]
PspRefunds(t, a) ==
  /\ psp[t].st = "captured"
  /\ psp[t].returned + a <= MaxReturned
  /\ psp' = [psp EXCEPT ![t].returned = @ + a]

(* The effect of the call a request is waiting for, and where it resumes.  *)
PspEffect(r) ==
  CASE r.at = "pspCapture" -> PspCaptures(r.txn, r.amount)
    [] r.at = "pspVoid" -> PspVoids(r.txn)
    [] r.at = "pspRefund" -> PspRefunds(r.txn, r.amount)
AfterPsp(r) ==
  CASE r.at = "pspCapture" -> "writeCapture"
    [] r.at = "pspVoid" -> "writeVoid"
    [] r.at = "pspRefund" -> "writeRefund"
AtPsp(c) == req[c].at \in {"pspCapture", "pspVoid", "pspRefund"}

PspDone(c) ==
  /\ AtPsp(c)
  /\ PspEffect(req[c])
  /\ Resume(c, AfterPsp(req[c]))
  /\ UNCHANGED <<pay, opera, local, linked>>

(* A refusal may come at any time; the request ends and writes nothing.    *)
PspRefuses(c) ==
  /\ AtPsp(c)
  /\ Answer(c)
  /\ UNCHANGED <<pay, psp, opera, local, linked>>

(* An answer that does not come is taken for a failure: an authorisation   *)
(* leaves no row, the other calls end like a refusal, whether or not the   *)
(* PSP acted.                                                              *)
PspSilent(c) ==
  LET r == req[c] IN
  /\ "psp" \in Trouble
  /\ \/ At(c, "pspAuthorize") /\ UNCHANGED psp
     \/ /\ At(c, "pspAuthorize")
        /\ \E t \in Unused : Hold(t, r.key, r.amount)
     \/ AtPsp(c) /\ PspEffect(r)
  /\ Answer(c)
  /\ UNCHANGED <<pay, opera, local, linked>>

-----------------------------------------------------------------------------
(* postToFolio: OPERA first, then our copy of its answer.                  *)

Posting(r) == [check |-> r.check, amount |-> r.amount]
Received(c) == req' = [req EXCEPT ![c] = [@ EXCEPT !.at = "mirror", !.answer = opera']]

CorePosts(c) ==
  /\ At(c, "post")
  /\ OperaAccepts(opera, Posting(req[c]))
  /\ opera' = OperaPosts(opera, Posting(req[c]))
  /\ Received(c)
  /\ UNCHANGED <<pay, psp, local, linked>>

(* A check number OPERA knows is not posted again: it answers with the     *)
(* window as it stands, or refuses as it does for a closed window.         *)
CoreKnows(c) ==
  /\ At(c, "post")
  /\ opera.open /\ KnowsCheck(opera, Posting(req[c]))
  /\ UNCHANGED opera
  /\ Received(c)
  /\ UNCHANGED <<pay, psp, local, linked>>

CoreRefuses(c) ==
  /\ At(c, "post")
  /\ ~ OperaAccepts(opera, Posting(req[c]))
  /\ Answer(c)
  /\ UNCHANGED <<pay, psp, opera, local, linked>>

(* Core times out or is down: OPERA may have posted.  Nobody posts again.  *)
CoreSilent(c) ==
  /\ "core" \in Trouble
  /\ At(c, "post")
  /\ \/ UNCHANGED opera
     \/ OperaAccepts(opera, Posting(req[c])) /\ opera' = OperaPosts(opera, Posting(req[c]))
  /\ Answer(c)
  /\ UNCHANGED <<pay, psp, local, linked>>

(* The row of our own check number, if the answer has it, gets the         *)
(* paymentId.                                                              *)
LinkOwn(links, r) ==
  links \cup ({r.check} \cap { p.check : p \in r.answer.postings })

Mirror_PostsAgain(c) ==
  LET r == req[c] IN
  /\ At(c, "mirror")
  /\ local' = MirrorFolio(local, r.answer)
  /\ linked' = LinkOwn(MirrorLinks(linked, r.answer), r)
  /\ req' = [req EXCEPT ![c].at = "post"]
  /\ UNCHANGED <<pay, psp, opera>>
Mirror(c) ==
  LET r == req[c] IN
  /\ At(c, "mirror")
  /\ local' = MirrorFolio(local, r.answer)
  /\ linked' = LinkOwn(MirrorLinks(linked, r.answer), r)
  /\ Answer(c)
  /\ UNCHANGED <<pay, psp, opera>>

-----------------------------------------------------------------------------
(* What happens around the requests.                                       *)

(* The process goes down, or one database call of the request fails.       *)
Dies(c) ==
  /\ "dies" \in Trouble
  /\ ~ At(c, "idle")
  /\ Answer(c)
  /\ UNCHANGED <<pay, psp, opera, local, linked>>

(* Check-out closes the window in OPERA and then, in its transaction, the  *)
(* local row; a close that fails at OPERA is logged and the local row      *)
(* closed all the same.                                                    *)
CloseAtOpera ==
  /\ "closes" \in Trouble
  /\ opera.open
  /\ opera' = [opera EXCEPT !.open = FALSE]
  /\ UNCHANGED <<pay, psp, local, linked, req>>
CloseLocally ==
  /\ "closes" \in Trouble
  /\ local.open
  /\ opera.open => "core" \in Trouble
  /\ local' = [local EXCEPT !.open = FALSE]
  /\ UNCHANGED <<pay, psp, opera, linked, req>>

Starts(c) ==
  \E k \in Keys :
    \/ \E a \in Amounts :
         \/ StartCash(c, k, a)
         \/ StartCard(c, k, a)
         \/ StartCapture(c, k, a)
         \/ StartRefund(c, k, a)
    \/ StartVoid(c, k)

(* The steps the runtime takes once a request is in flight.                *)
Resumes(c) ==
  \/ InsertCash(c) \/ InsertHold(c) \/ InsertFailed(c)
  \/ WriteCapture(c) \/ WriteVoid(c) \/ WriteRefund(c)
  \/ PspApproves(c) \/ PspDeclines(c) \/ PspDone(c) \/ PspRefuses(c)
  \/ CorePosts(c) \/ CoreKnows(c) \/ CoreRefuses(c) \/ Mirror(c)

Fails(c) == PspSilent(c) \/ CoreSilent(c) \/ Dies(c)

Next ==
  \/ \E c \in Clerks : Starts(c) \/ Resumes(c) \/ Fails(c)
  \/ CloseAtOpera
  \/ CloseLocally

Spec == Init /\ [][Next]_vars

(* With nothing failing, a request in flight keeps running: a promise that *)
(* settled is resumed by the event loop, and every call to the PSP and to  *)
(* Core has a time limit.                                                  *)
Undisturbed == \E c \in Clerks : Starts(c) \/ Resumes(c)
FairSpec == Init /\ [][Undisturbed]_vars /\ \A c \in Clerks : WF_vars(Resumes(c))

-----------------------------------------------------------------------------
Quiet == \A c \in Clerks : At(c, "idle")
Posted(folio, check) == \E p \in folio.postings : p.check = check

(* Every variable keeps the values the code gives it.                      *)
TypeOK ==
  /\ pay \in [Keys -> Rows]
  /\ psp \in [Txns -> PspTxns]
  /\ opera \in Folios(Postings)
  /\ local \in Folios(Postings)
  /\ linked \in SUBSET Checks
  /\ req \in [Clerks -> Requests]

(* A payment credited to the folio is money that was taken, and for the    *)
(* amount that was taken: no step of two clerks, lost answer or crash puts *)
(* a credit on the folio for a hold, a void or a refused card.             *)
FolioCreditIsTaken ==
  \A p \in opera.postings :
    p.check.kind = "payment" =>
      pay[p.check.key].st \in Settled /\ p.amount = pay[p.check.key].amount

(* What our rows say of a card payment is what the PSP did: a void row was *)
(* voided there, a captured one captured there for the same amount, and an *)
(* authorised one is a transaction of this very payment.                   *)
LedgerAgreesWithPsp ==
  \A k \in Keys : pay[k].txn # NoTxn =>
    LET t == pay[k].txn IN
    /\ psp[t].key = k
    /\ pay[k].st = "VOIDED" => psp[t].st = "voided"
    /\ pay[k].st \in Settled => psp[t].st = "captured" /\ psp[t].taken = pay[k].amount

(* The refunds recorded on a payment never exceed what was taken.          *)
RefundRecordedWithinPayment ==
  \A k \in Keys : pay[k].refunded <= pay[k].amount

(* A guest is charged once for one key, however often it is sent and       *)
(* however often the PSP was asked: only one transaction is captured.      *)
GuestChargedOnce ==
  \A s, t \in Txns :
    psp[s].st = "captured" /\ psp[t].st = "captured" /\ psp[s].key = psp[t].key => s = t

(* A row moves NONE -> FAILED | AUTHORIZED | CAPTURED, AUTHORIZED ->       *)
(* CAPTURED | VOIDED, CAPTURED -> REFUNDED, and never back; a row keeps    *)
(* its transaction.                                                        *)
Successors(st) ==
  CASE st = "NONE" -> {"FAILED", "AUTHORIZED", "CAPTURED"}
    [] st = "AUTHORIZED" -> {"CAPTURED", "VOIDED"}
    [] st \in Settled -> {"REFUNDED"}
    [] OTHER -> {}
RowMovesForward(k) ==
  pay'[k] # pay[k] =>
    /\ pay'[k].st \in Successors(pay[k].st)
    /\ pay[k].st # "NONE" => pay'[k].txn = pay[k].txn
StatusOnlyMovesForward == [][\A k \in Keys : RowMovesForward(k)]_vars

-----------------------------------------------------------------------------
(* Why the statements above hold: the inductive invariant.                 *)

(* A row has the transaction and the amounts its status goes with.         *)
RowsInv ==
  \A k \in Keys :
    /\ pay[k].st = "NONE" => pay[k] = NoRow
    /\ pay[k].st = "FAILED" => pay[k].txn = NoTxn
    /\ pay[k].st \in {"AUTHORIZED", "VOIDED"} => pay[k].txn # NoTxn
    /\ pay[k].st # "NONE" => pay[k].amount \in Amounts
    /\ pay[k].st \notin Settled => pay[k].refunded = 0
    /\ pay[k].refunded <= pay[k].amount

(* A transaction that was captured or voided is the one its row names.     *)
TxnsInv ==
  \A t \in Txns :
    /\ IF psp[t].st = "unused" THEN psp[t].key = NoKey ELSE psp[t].key \in Keys
    /\ psp[t].st \in {"captured", "voided"} => pay[psp[t].key].txn = t

(* What a request that has read a row, or was answered by the PSP, may     *)
(* still count on when it goes on.                                         *)
RequestInv(c) ==
  LET r == req[c] IN
  /\ r.at # "idle" => r.key \in Keys
  /\ r.at \in {"insertCash", "pspAuthorize", "insertHold", "insertFailed", "pspCapture",
               "writeCapture", "pspRefund", "writeRefund", "post"} => r.amount \in Amounts
  /\ r.at \in {"insertHold", "pspCapture", "writeCapture", "pspVoid", "writeVoid", "pspRefund"} =>
       r.txn \in Txns
  /\ r.at = "insertHold" => psp[r.txn].st # "unused" /\ psp[r.txn].key = r.key
  /\ r.at \in {"pspCapture", "writeCapture", "pspVoid", "writeVoid"} => pay[r.key].txn = r.txn
  /\ r.at \in {"pspCapture", "writeCapture"} /\ pay[r.key].st = "AUTHORIZED" =>
       r.amount <= pay[r.key].amount
  /\ r.at = "writeCapture" =>
       /\ pay[r.key].st = "AUTHORIZED"
       /\ psp[r.txn].st = "captured" /\ psp[r.txn].taken = r.amount
  /\ r.at = "writeVoid" => pay[r.key].st = "AUTHORIZED" /\ psp[r.txn].st = "voided"
  /\ r.at \in {"pspRefund", "writeRefund"} =>
       pay[r.key].st \in Settled /\ r.base + r.amount <= pay[r.key].amount
  /\ r.at = "post" => r.check \in Checks /\ r.check.key = r.key
  /\ r.at = "post" /\ r.check.kind = "payment" =>
       /\ r.check = PaymentCheck(r.key)
       /\ pay[r.key].st \in Settled /\ r.amount = pay[r.key].amount

(* The PSP lets one capture or one void through: one request writes it.    *)
OneWriter ==
  \A c, d \in Clerks :
    req[c].at \in {"writeCapture", "writeVoid"} /\ req[d].at = req[c].at
      /\ req[c].key = req[d].key => c = d

(* OPERA has one posting under a check number.                             *)
ChecksAreUnique ==
  \A p, q \in opera.postings : p.check = q.check => p = q

PaymentsInv ==
  /\ TypeOK
  /\ RowsInv
  /\ TxnsInv
  /\ LedgerAgreesWithPsp
  /\ \A c \in Clerks : RequestInv(c)
  /\ OneWriter
  /\ FolioCreditIsTaken
  /\ \A p \in opera.postings : p.check.kind = "payment" => p.check = PaymentCheck(p.check.key)
  /\ ChecksAreUnique

-----------------------------------------------------------------------------
(* Payments implements PaymentLifecycle: a payment is where its row says   *)
(* it is, and its credits are the payment postings OPERA has for it.       *)
PhaseOf(st) ==
  CASE st = "NONE" -> "none"
    [] st = "FAILED" -> "refused"
    [] st = "AUTHORIZED" -> "held"
    [] st = "VOIDED" -> "released"
    [] st \in Settled -> "taken"
CreditsOf(k) == { p.amount : p \in { q \in opera.postings : q.check = PaymentCheck(k) } }

Lifecycle == INSTANCE PaymentLifecycle WITH
  phase <- [k \in Keys |-> PhaseOf(pay[k].st)],
  value <- [k \in Keys |-> pay[k].amount],
  returned <- [k \in Keys |-> pay[k].refunded],
  credits <- [k \in Keys |-> CreditsOf(k)]

(* Every step of the service is a step of the promised lifecycle, or none  *)
(* of its business: in particular credits appear one at a time, only for   *)
(* money taken, and for the amount taken.                                  *)
ImplementsLifecycle == Lifecycle!LifecycleSpec

=============================================================================
