---------------------------- MODULE PaymentsProofs ----------------------------
(***************************************************************************)
(* Proofs about Payments and its history, for every number of clerks,      *)
(* payments and transactions, every bound on amounts and every combination *)
(* of failures.                                                            *)
(***************************************************************************)
EXTENDS PaymentsHistory, FiniteSetTheorems, WellFoundedInduction, TLAPS

(* The check number of a refund is a check number.                         *)
LEMMA RefundCheckType ==
  ASSUME NEW k \in Keys, NEW n \in Nat
  PROVE  RefundCheck(k, n) \in Checks
BY PaymentsAssumption DEF RefundCheck, RefundNo, Checks

(* The invariant holds before the first request.                           *)
LEMMA InitInv == Init => PaymentsInv
<1> SUFFICES ASSUME Init PROVE PaymentsInv
  OBVIOUS
<1> USE PaymentsAssumption DEF Init
<1>1. TypeOK
  BY DEF TypeOK, Rows, NoRow, Statuses, PspTxns, UnusedTxn, Folios, EmptyFolio,
         Requests, Idle, Stages
<1>2. RowsInv
  BY DEF RowsInv, NoRow, Settled
<1>3. TxnsInv
  BY DEF TxnsInv, UnusedTxn
<1>4. LedgerAgreesWithPsp
  BY DEF LedgerAgreesWithPsp, NoRow
<1>5. \A c \in Clerks : RequestInv(c)
  BY DEF RequestInv, Idle
<1>6. OneWriter
  BY DEF OneWriter, Idle
<1>7. FolioCreditIsTaken
  BY DEF FolioCreditIsTaken, EmptyFolio
<1>8. ChecksAreUnique
  BY DEF ChecksAreUnique, EmptyFolio
<1> QED
  BY <1>1, <1>2, <1>3, <1>4, <1>5, <1>6, <1>7, <1>8 DEF PaymentsInv, EmptyFolio


-----------------------------------------------------------------------------
(* A step that touches no book: only the request and our copy change.      *)
LEMMA RequestStep ==
  ASSUME PaymentsInv, NEW c \in Clerks, NEW q \in Requests,
         req' = [req EXCEPT ![c] = q],
         q.at \notin {"writeCapture", "writeVoid"},
         RequestInv(c)',
         UNCHANGED <<pay, psp, opera>>,
         local' \in Folios(Postings), linked' \in SUBSET Checks
  PROVE  PaymentsInv'
<1> USE DEF PaymentsInv
<1>1. /\ req'[c] = q
      /\ \A d \in Clerks \ {c} : req'[d] = req[d]
  BY DEF TypeOK
<1>2. TypeOK'
  BY DEF TypeOK
<1>3. RowsInv' /\ TxnsInv' /\ LedgerAgreesWithPsp'
  BY DEF RowsInv, TxnsInv, LedgerAgreesWithPsp
<1>4. ASSUME NEW d \in Clerks PROVE RequestInv(d)'
  <2>1. CASE d = c
    BY <2>1
  <2>2. CASE d # c
    BY <1>1, <2>2 DEF RequestInv
  <2> QED
    BY <2>1, <2>2
<1>5. OneWriter'
  BY <1>1 DEF OneWriter
<1>6. FolioCreditIsTaken' /\ ChecksAreUnique'
  BY DEF FolioCreditIsTaken, ChecksAreUnique
<1> QED
  BY <1>2, <1>3, <1>4, <1>5, <1>6

(* A clerk without a request is a value of the request table.              *)
LEMMA IdleIsRequest == Idle \in Requests
BY PaymentsAssumption DEF Idle, Requests, Stages, EmptyFolio, Folios

(* A request that ends without touching a book.                            *)
LEMMA AnswerStep ==
  ASSUME PaymentsInv, NEW c \in Clerks, Answer(c),
         UNCHANGED <<pay, psp, opera>>,
         local' \in Folios(Postings), linked' \in SUBSET Checks
  PROVE  PaymentsInv'
<1>1. req'[c] = Idle
  BY DEF Answer, PaymentsInv, TypeOK
<1>2. RequestInv(c)'
  BY <1>1 DEF RequestInv, Idle
<1>3. Idle.at = "idle"
  BY DEF Idle
<1> QED
  BY <1>2, <1>3, RequestStep, IdleIsRequest DEF Answer

(* A request that begins, with the values it has read.                     *)
LEMMA BeginStep ==
  ASSUME PaymentsInv, NEW c \in Clerks, NEW k \in Keys,
         NEW stage \in {"insertCash", "pspAuthorize", "pspCapture", "pspVoid",
                        "pspRefund", "writeRefund"},
         NEW a \in 0..MaxAmount, NEW t \in Txns \cup {NoTxn}, NEW base \in 0..MaxAmount,
         Begin(c, stage, k, a, t, base),
         stage # "pspVoid" => a \in Amounts,
         stage \in {"pspCapture", "pspVoid"} => t \in Txns /\ pay[k].txn = t,
         stage = "pspCapture" => a <= pay[k].amount,
         stage = "pspRefund" => t \in Txns,
         stage \in {"pspRefund", "writeRefund"} =>
           pay[k].st \in Settled /\ base + a <= pay[k].amount,
         UNCHANGED <<pay, psp, opera, local, linked>>
  PROVE  PaymentsInv'
<1> DEFINE q == [Idle EXCEPT !.at = stage, !.key = k, !.amount = a, !.txn = t, !.base = base]
<1>1. q \in Requests
  BY IdleIsRequest DEF Idle, Requests, Stages
<1>2. req' = [req EXCEPT ![c] = q] /\ req'[c] = q
  BY DEF Begin, PaymentsInv, TypeOK
<1>3. q.at = stage /\ q.key = k /\ q.amount = a /\ q.txn = t /\ q.base = base
  BY DEF Idle
<1>4. RequestInv(c)'
  BY <1>2, <1>3 DEF RequestInv
<1>5. local' \in Folios(Postings) /\ linked' \in SUBSET Checks
  BY DEF PaymentsInv, TypeOK
<1> HIDE DEF q
<1> QED
  BY <1>1, <1>2, <1>3, <1>4, <1>5, RequestStep

(* A request starts only where its guard has been read to hold.            *)
LEMMA StartsInv ==
  ASSUME PaymentsInv, NEW c \in Clerks, Starts(c)
  PROVE  PaymentsInv'
<1> PICK k \in Keys : \/ \E a \in Amounts : \/ StartCash(c, k, a)
                                            \/ StartCard(c, k, a)
                                            \/ StartCapture(c, k, a)
                                            \/ StartRefund(c, k, a)
                      \/ StartVoid(c, k)
  BY DEF Starts
<1>0. /\ pay[k] \in Rows
      /\ pay[k].refunded \in 0..MaxAmount /\ pay[k].amount \in 0..MaxAmount
      /\ pay[k].txn \in Txns \cup {NoTxn}
      /\ 0 \in 0..MaxAmount
  BY PaymentsAssumption DEF PaymentsInv, TypeOK, Rows
<1>1. ASSUME NEW a \in Amounts, StartCash(c, k, a) \/ StartCard(c, k, a)
      PROVE  PaymentsInv'
  BY <1>0, <1>1, BeginStep, PaymentsAssumption DEF StartCash, StartCard, Amounts
<1>2. ASSUME NEW a \in Amounts, StartCapture(c, k, a)
      PROVE  PaymentsInv'
  BY <1>0, <1>2, BeginStep, PaymentsAssumption DEF StartCapture, CaptureAllowed, Amounts
<1>3. ASSUME NEW a \in Amounts, StartRefund(c, k, a)
      PROVE  PaymentsInv'
  <2> DEFINE stage == RefundStage(pay[k])
  <2>1. /\ Begin(c, stage, k, a, pay[k].txn, pay[k].refunded)
        /\ stage \in {"pspRefund", "writeRefund"}
        /\ stage = "pspRefund" => pay[k].txn \in Txns
        /\ pay[k].st \in Settled /\ pay[k].refunded + a <= pay[k].amount
        /\ UNCHANGED <<pay, psp, opera, local, linked>>
    BY <1>0, <1>3, PaymentsAssumption DEF StartRefund, RefundStage, RefundAllowed, Amounts
  <2> HIDE DEF stage
  <2> QED
    BY <1>0, <2>1, BeginStep, PaymentsAssumption DEF Amounts
<1>4. CASE StartVoid(c, k)
  BY <1>0, <1>4, BeginStep, PaymentsAssumption DEF StartVoid, VoidAllowed
<1> QED
  BY <1>1, <1>2, <1>3, <1>4

-----------------------------------------------------------------------------
(* Writing the payment row.                                                *)

(* The row under a new key; under a known key nothing is written.          *)
LEMMA InsertRowInv ==
  ASSUME PaymentsInv, NEW c \in Clerks, NEW k \in Keys, NEW row \in Rows,
         row.st \in {"AUTHORIZED", "CAPTURED", "FAILED"},
         row.refunded = 0, row.amount \in Amounts,
         row.st = "AUTHORIZED" => row.txn \in Txns /\ psp[row.txn].key = k,
         row.st # "AUTHORIZED" => row.txn = NoTxn,
         InsertRow(k, row),
         NEW q \in Requests, req' = [req EXCEPT ![c] = q],
         q.at \notin {"writeCapture", "writeVoid"},
         RequestInv(c)',
         UNCHANGED <<psp, opera, local, linked>>
  PROVE  PaymentsInv'
<1> USE DEF PaymentsInv
<1>0. CASE pay[k].st # "NONE"
  BY <1>0, RequestStep DEF InsertRow, TypeOK
<1>1. CASE pay[k].st = "NONE"
  <2>1. /\ pay'[k] = row
        /\ \A j \in Keys \ {k} : pay'[j] = pay[j]
        /\ req'[c] = q
        /\ \A d \in Clerks \ {c} : req'[d] = req[d]
        /\ pay[k].txn = NoTxn /\ pay[k].amount = 0
    BY <1>1 DEF TypeOK, InsertRow, RowsInv, NoRow
  <2>2. row.amount \in 0..MaxAmount /\ row.st \notin {"VOIDED", "NONE"}
    BY DEF Rows
  <2>3. TypeOK'
    BY <1>1 DEF TypeOK, InsertRow
  <2>4. RowsInv'
    BY <2>1, <2>2, PaymentsAssumption DEF RowsInv, Settled
  <2>5. TxnsInv'
    BY <2>1, PaymentsAssumption DEF TxnsInv
  <2>6. LedgerAgreesWithPsp'
    BY <2>1, <2>2, PaymentsAssumption DEF LedgerAgreesWithPsp, Settled
  <2>7. ASSUME NEW d \in Clerks, d # c PROVE RequestInv(d)'
    BY <1>1, <2>1, <2>7, PaymentsAssumption DEF RequestInv, Settled
  <2>8. OneWriter'
    BY <2>1 DEF OneWriter
  <2>9. FolioCreditIsTaken' /\ ChecksAreUnique'
    BY <1>1, <2>1 DEF FolioCreditIsTaken, ChecksAreUnique, Settled, TypeOK, Folios, Postings, Checks
  <2> QED
    BY <2>3, <2>4, <2>5, <2>6, <2>7, <2>8, <2>9
<1> QED
  BY <1>0, <1>1

(* The request a settled row leaves behind: it is on its way to the folio. *)
LEMMA GoPostType ==
  ASSUME PaymentsInv, NEW c \in Clerks, NEW check \in Checks, GoPost(c, check)
  PROVE  \E q \in Requests :
           /\ req' = [req EXCEPT ![c] = q] /\ req'[c] = q
           /\ q.at = "post" /\ q.check = check
           /\ q.key = req[c].key /\ q.amount = req[c].amount
<1> DEFINE q == [req[c] EXCEPT !.at = "post", !.check = check]
<1>1. q \in Requests /\ q.at = "post" /\ q.check = check
      /\ q.key = req[c].key /\ q.amount = req[c].amount
  BY DEF PaymentsInv, TypeOK, Requests, Stages
<1>2. req' = [req EXCEPT ![c] = q] /\ req'[c] = q
  BY DEF GoPost, PaymentsInv, TypeOK
<1> QED
  BY <1>1, <1>2

(* The three inserts of authorize keep the invariant.                      *)
LEMMA InsertsInv ==
  ASSUME PaymentsInv, NEW c \in Clerks,
         InsertCash(c) \/ InsertHold(c) \/ InsertFailed(c)
  PROVE  PaymentsInv'
<1> DEFINE r == req[c]
<1>1. r \in Requests /\ r.amount \in 0..MaxAmount /\ 0 \in 0..MaxAmount /\ r.amount \in Amounts
      /\ r.at \in {"insertCash", "insertHold", "insertFailed"} /\ r.key \in Keys
  BY PaymentsAssumption DEF PaymentsInv, TypeOK, Requests, RequestInv, InsertCash, InsertHold, InsertFailed, At
<1>2. CASE InsertCash(c) /\ pay[r.key].st = "NONE"
  <2>1. GoPost(c, PaymentCheck(r.key)) /\ InsertRow(r.key, CashRow(r))
        /\ UNCHANGED <<psp, opera, local, linked>> /\ r.amount \in Amounts
    BY <1>2 DEF InsertCash, RequestInv, PaymentsInv, At
  <2>2. PaymentCheck(r.key) \in Checks /\ PaymentCheck(r.key).key = r.key
    BY <1>1 DEF PaymentCheck, Checks
  <2>3. /\ CashRow(r) \in Rows /\ CashRow(r).st = "CAPTURED" /\ CashRow(r).refunded = 0
        /\ CashRow(r).txn = NoTxn /\ CashRow(r).amount = r.amount
    BY <1>1 DEF CashRow, NoRow, Rows, Statuses, Settled
  <2>4. PICK q \in Requests :
           /\ req' = [req EXCEPT ![c] = q] /\ req'[c] = q
           /\ q.at = "post" /\ q.check = PaymentCheck(r.key)
           /\ q.key = r.key /\ q.amount = r.amount
    BY <2>1, <2>2, GoPostType
  <2>5. pay'[r.key] = CashRow(r)
    BY <1>1, <1>2, <2>1 DEF InsertRow, PaymentsInv, TypeOK
  <2>6. RequestInv(c)'
    BY <1>1, <2>1, <2>2, <2>3, <2>4, <2>5 DEF RequestInv, Settled
  <2> HIDE DEF r
  <2> QED
    BY <1>1, <2>1, <2>3, <2>4, <2>6, InsertRowInv
<1>3. CASE InsertCash(c) /\ pay[r.key].st # "NONE"
  <2>1. Answer(c) /\ UNCHANGED <<pay, psp, opera, local, linked>>
    BY <1>3 DEF InsertCash, InsertRow
  <2> QED
    BY <2>1, AnswerStep DEF PaymentsInv, TypeOK
<1>4. ASSUME NEW row \in {HoldRow(r), FailedRow(r)},
             InsertRow(r.key, row), Answer(c),
             UNCHANGED <<psp, opera, local, linked>>,
             row = HoldRow(r) => r.at = "insertHold"
      PROVE  PaymentsInv'
  <2>1. /\ row \in Rows /\ row.refunded = 0 /\ row.amount \in Amounts
        /\ row.st \in {"AUTHORIZED", "FAILED"}
        /\ row.st = "AUTHORIZED" => row.txn \in Txns /\ psp[row.txn].key = r.key
        /\ row.st # "AUTHORIZED" => row.txn = NoTxn
    <3>1. CASE row = HoldRow(r)
      BY <1>1, <1>4, <3>1 DEF HoldRow, Rows, Statuses, Settled, Requests, RequestInv, PaymentsInv
    <3>2. CASE row = FailedRow(r)
      BY <1>1, <3>2 DEF FailedRow, NoRow, Rows, Statuses, Settled
    <3> QED
      BY <3>1, <3>2
  <2>2. req' = [req EXCEPT ![c] = Idle] /\ req'[c] = Idle /\ Idle.at = "idle"
    BY <1>4 DEF Answer, PaymentsInv, TypeOK, Idle
  <2>3. RequestInv(c)'
    BY <2>2 DEF RequestInv
  <2> HIDE DEF r
  <2> QED
    BY <1>1, <1>4, <2>1, <2>2, <2>3, InsertRowInv, IdleIsRequest
<1>5. CASE InsertHold(c)
  BY <1>4, <1>5 DEF InsertHold, At
<1>6. CASE InsertFailed(c)
  <2>1. FailedRow(r) # HoldRow(r)
    BY DEF FailedRow, HoldRow, NoRow
  <2> QED
    BY <1>4, <1>6, <2>1 DEF InsertFailed
<1> QED
  BY <1>2, <1>3, <1>5, <1>6

(* A captured row is written once, over the hold the PSP captured.         *)
LEMMA WriteCaptureInv ==
  ASSUME PaymentsInv, NEW c \in Clerks, WriteCapture(c)
  PROVE  PaymentsInv'
<1> DEFINE r == req[c]
<1> DEFINE k == r.key
<1> USE DEF PaymentsInv
<1>0. /\ r.at = "writeCapture" /\ k \in Keys /\ r.amount \in Amounts /\ r.txn \in Txns
      /\ pay[k].txn = r.txn /\ pay[k].st = "AUTHORIZED"
      /\ psp[r.txn].st = "captured" /\ psp[r.txn].taken = r.amount
  BY DEF WriteCapture, At, RequestInv
<1>1. /\ r.at = "writeCapture" /\ k \in Keys /\ r.amount \in Amounts /\ r.txn \in Txns
      /\ pay[k].txn = r.txn /\ pay[k].st = "AUTHORIZED" /\ pay[k].refunded = 0
      /\ psp[r.txn].st = "captured" /\ psp[r.txn].taken = r.amount /\ psp[r.txn].key = k
      /\ pay[k] \in Rows
  BY <1>0, PaymentsAssumption DEF RowsInv, Settled, TypeOK, LedgerAgreesWithPsp
<1>2. PaymentCheck(k) \in Checks /\ PaymentCheck(k).key = k
  BY <1>1 DEF PaymentCheck, Checks
<1>3. /\ pay' = [pay EXCEPT ![k] = CapturedRow(pay[k], r)]
      /\ GoPost(c, PaymentCheck(k))
      /\ UNCHANGED <<psp, opera, local, linked>>
  BY <1>1 DEF WriteCapture, TypeOK
<1>4. PICK q \in Requests :
        /\ req' = [req EXCEPT ![c] = q] /\ req'[c] = q
        /\ q.at = "post" /\ q.check = PaymentCheck(k)
        /\ q.key = k /\ q.amount = r.amount
  BY <1>2, <1>3, GoPostType
<1>5. /\ pay'[k].st = "CAPTURED" /\ pay'[k].amount = r.amount
      /\ pay'[k].refunded = 0 /\ pay'[k].txn = r.txn
      /\ CapturedRow(pay[k], r) \in Rows
      /\ \A j \in Keys \ {k} : pay'[j] = pay[j]
      /\ \A d \in Clerks \ {c} : req'[d] = req[d]
  <2>1. r.amount \in 0..MaxAmount
    BY <1>1, PaymentsAssumption DEF Amounts
  <2>2. CapturedRow(pay[k], r) = [pay[k] EXCEPT !.st = "CAPTURED", !.amount = r.amount]
    BY DEF CapturedRow
  <2> HIDE DEF r
  <2>3. /\ CapturedRow(pay[k], r) \in Rows
        /\ CapturedRow(pay[k], r).st = "CAPTURED" /\ CapturedRow(pay[k], r).amount = r.amount
        /\ CapturedRow(pay[k], r).refunded = 0 /\ CapturedRow(pay[k], r).txn = r.txn
    BY <1>1, <2>1, <2>2 DEF Rows, Statuses, Settled
  <2> QED
    BY <1>1, <1>3, <1>4, <2>3 DEF TypeOK
<1>6. TypeOK'
  BY <1>1, <1>3, <1>4, <1>5 DEF TypeOK
<1>7. RowsInv'
  BY <1>1, <1>5, PaymentsAssumption DEF RowsInv, Settled, Amounts
<1>8. TxnsInv'
  BY <1>1, <1>3, <1>5 DEF TxnsInv
<1>9. LedgerAgreesWithPsp'
  BY <1>1, <1>3, <1>5 DEF LedgerAgreesWithPsp, Settled
<1>10. RequestInv(c)'
  BY <1>1, <1>2, <1>4, <1>5 DEF RequestInv, Settled
<1>11. ASSUME NEW d \in Clerks, d # c PROVE RequestInv(d)'
  <2>1. req'[d] = req[d] /\ RequestInv(d) /\ UNCHANGED psp
    BY <1>3, <1>5, <1>11
  <2>2. CASE req[d].key # k
    <3>1. req[d].at # "idle" => pay'[req[d].key] = pay[req[d].key]
      BY <2>1, <2>2, <1>5 DEF RequestInv
    <3> QED
      BY <2>1, <3>1 DEF RequestInv
  <2>3. CASE req[d].key = k
    <3>1. req[d].at # "writeCapture"
      BY <1>1, <1>11, <2>3 DEF OneWriter
    <3>2. /\ req[d].at \notin {"writeVoid", "pspRefund", "writeRefund"}
          /\ ~ (req[d].at = "post" /\ req[d].check.kind = "payment")
      BY <1>1, <2>1, <2>3 DEF RequestInv, Settled
    <3> QED
      BY <1>1, <1>5, <2>1, <2>3, <3>1, <3>2 DEF RequestInv
  <2> QED
    BY <2>2, <2>3
<1>12. OneWriter'
  BY <1>4, <1>5 DEF OneWriter
<1>13. FolioCreditIsTaken' /\ ChecksAreUnique'
  BY <1>1, <1>3, <1>5 DEF FolioCreditIsTaken, ChecksAreUnique, Settled, TypeOK, Folios, Postings, Checks
<1> QED
  BY <1>3, <1>6, <1>7, <1>8, <1>9, <1>10, <1>11, <1>12, <1>13

(* A void row is written once, over the hold the PSP voided.               *)
LEMMA WriteVoidInv ==
  ASSUME PaymentsInv, NEW c \in Clerks, WriteVoid(c)
  PROVE  PaymentsInv'
<1> DEFINE r == req[c]
<1> DEFINE k == r.key
<1> USE DEF PaymentsInv
<1>1. /\ r.at = "writeVoid" /\ k \in Keys /\ r.txn \in Txns
      /\ pay[k].txn = r.txn /\ pay[k].st = "AUTHORIZED" /\ pay[k].refunded = 0
      /\ psp[r.txn].st = "voided" /\ psp[r.txn].key = k
      /\ pay[k] \in Rows
  BY PaymentsAssumption DEF WriteVoid, At, RequestInv, RowsInv, Settled, TypeOK, LedgerAgreesWithPsp
<1>2. /\ pay' = [pay EXCEPT ![k] = VoidedRow(pay[k])]
      /\ req' = [req EXCEPT ![c] = Idle]
      /\ UNCHANGED <<psp, opera, local, linked>>
  BY <1>1 DEF WriteVoid, TypeOK, Answer
<1>3. req'[c] = Idle /\ Idle.at = "idle" /\ Idle \in Requests
  BY <1>2, IdleIsRequest DEF TypeOK, Idle
<1>4. /\ pay'[k].st = "VOIDED" /\ pay'[k].amount = pay[k].amount
      /\ pay'[k].refunded = 0 /\ pay'[k].txn = r.txn
      /\ VoidedRow(pay[k]) \in Rows
      /\ \A j \in Keys \ {k} : pay'[j] = pay[j]
      /\ \A d \in Clerks \ {c} : req'[d] = req[d]
  BY <1>1, <1>2 DEF TypeOK, VoidedRow, Rows, Statuses, Settled
<1>5. TypeOK'
  BY <1>1, <1>2, <1>3, <1>4 DEF TypeOK
<1>6. RowsInv'
  BY <1>1, <1>4, PaymentsAssumption DEF RowsInv, Settled
<1>7. TxnsInv'
  BY <1>1, <1>2, <1>4 DEF TxnsInv
<1>8. LedgerAgreesWithPsp'
  BY <1>1, <1>2, <1>4 DEF LedgerAgreesWithPsp, Settled
<1>9. RequestInv(c)'
  BY <1>3 DEF RequestInv
<1>10. ASSUME NEW d \in Clerks, d # c PROVE RequestInv(d)'
  BY <1>1, <1>2, <1>4, <1>10 DEF RequestInv, Settled, OneWriter
<1>11. OneWriter'
  BY <1>3, <1>4 DEF OneWriter
<1>12. FolioCreditIsTaken' /\ ChecksAreUnique'
  BY <1>1, <1>2, <1>4 DEF FolioCreditIsTaken, ChecksAreUnique, Settled, TypeOK, Folios, Postings, Checks
<1> QED
  BY <1>2, <1>5, <1>6, <1>7, <1>8, <1>9, <1>10, <1>11, <1>12

(* A refund is written within what was taken, whatever total it overwrites. *)
LEMMA WriteRefundInv ==
  ASSUME PaymentsInv, NEW c \in Clerks, WriteRefund(c)
  PROVE  PaymentsInv'
<1> DEFINE r == req[c]
<1> DEFINE k == r.key
<1> DEFINE total == r.base + r.amount
<1> USE DEF PaymentsInv
<1>1. /\ r.at = "writeRefund" /\ k \in Keys /\ r.amount \in Amounts
      /\ pay[k].st \in Settled /\ total <= pay[k].amount
      /\ pay[k] \in Rows /\ r.base \in 0..MaxAmount
  BY PaymentsAssumption DEF WriteRefund, At, RequestInv, TypeOK, Requests
<1>2. total \in 0..MaxAmount /\ total \in Nat
  BY <1>1, PaymentsAssumption DEF Rows, Amounts
<1>3. RefundCheck(k, total) \in Checks
  BY <1>1, <1>2, RefundCheckType
<1>4. RefundCheck(k, total).key = k /\ RefundCheck(k, total).kind = "refund"
  BY DEF RefundCheck
<1>5. /\ pay' = [pay EXCEPT ![k] = RefundedRow(pay[k], r)]
      /\ GoPost(c, RefundCheck(k, total))
      /\ UNCHANGED <<psp, opera, local, linked>>
  BY <1>1 DEF WriteRefund, TypeOK
<1>6. PICK q \in Requests :
        /\ req' = [req EXCEPT ![c] = q] /\ req'[c] = q
        /\ q.at = "post" /\ q.check = RefundCheck(k, total)
        /\ q.key = k /\ q.amount = r.amount
  BY <1>3, <1>5, GoPostType
<1>7. /\ pay'[k].st = "REFUNDED" /\ pay'[k].amount = pay[k].amount
      /\ pay'[k].refunded = total /\ pay'[k].txn = pay[k].txn
      /\ RefundedRow(pay[k], r) \in Rows
      /\ \A j \in Keys \ {k} : pay'[j] = pay[j]
      /\ \A d \in Clerks \ {c} : req'[d] = req[d]
  <2>1. RefundedRow(pay[k], r) = [pay[k] EXCEPT !.st = "REFUNDED", !.refunded = total]
    BY DEF RefundedRow
  <2> HIDE DEF r, total
  <2>2. /\ RefundedRow(pay[k], r) \in Rows
        /\ RefundedRow(pay[k], r).st = "REFUNDED"
        /\ RefundedRow(pay[k], r).amount = pay[k].amount
        /\ RefundedRow(pay[k], r).refunded = total
        /\ RefundedRow(pay[k], r).txn = pay[k].txn
    BY <1>1, <1>2, <2>1 DEF Rows, Statuses, Settled
  <2> QED
    BY <1>1, <1>5, <1>6, <2>2 DEF TypeOK
<1>8. TypeOK'
  BY <1>1, <1>5, <1>6, <1>7 DEF TypeOK
<1>9. RowsInv'
  BY <1>1, <1>7, PaymentsAssumption DEF RowsInv, Settled
<1>10. TxnsInv'
  BY <1>1, <1>5, <1>7 DEF TxnsInv
<1>11. LedgerAgreesWithPsp'
  BY <1>1, <1>5, <1>7 DEF LedgerAgreesWithPsp, Settled
<1>12. RequestInv(c)'
  BY <1>1, <1>3, <1>4, <1>6 DEF RequestInv
<1>13. ASSUME NEW d \in Clerks, d # c PROVE RequestInv(d)'
  BY <1>1, <1>5, <1>7, <1>13 DEF RequestInv, Settled
<1>14. OneWriter'
  BY <1>6, <1>7 DEF OneWriter
<1>15. FolioCreditIsTaken' /\ ChecksAreUnique'
  BY <1>1, <1>5, <1>7 DEF FolioCreditIsTaken, ChecksAreUnique, Settled, TypeOK, Folios, Postings, Checks
<1> QED
  BY <1>5, <1>8, <1>9, <1>10, <1>11, <1>12, <1>13, <1>14, <1>15

-----------------------------------------------------------------------------
(* The PSP acts.                                                           *)

(* A new hold takes a number nobody else has.                              *)
LEMMA HoldInv ==
  ASSUME PaymentsInv, NEW c \in Clerks, NEW t \in Txns, NEW k \in Keys, NEW a \in Amounts,
         psp[t].st = "unused", Hold(t, k, a),
         NEW q \in Requests, req' = [req EXCEPT ![c] = q],
         q.at \notin {"writeCapture", "writeVoid"},
         RequestInv(c)',
         UNCHANGED <<pay, opera, local, linked>>
  PROVE  PaymentsInv'
<1> USE DEF PaymentsInv
<1> DEFINE new == [st |-> "held", key |-> k, held |-> a, taken |-> 0, returned |-> 0]
<1>1. /\ psp' = [psp EXCEPT ![t] = new] /\ psp'[t] = new
      /\ \A u \in Txns \ {t} : psp'[u] = psp[u]
      /\ req'[c] = q
      /\ \A d \in Clerks \ {c} : req'[d] = req[d]
  BY DEF TypeOK, Hold
<1>2. new \in PspTxns
  BY PaymentsAssumption DEF PspTxns, Amounts
<1>3. TypeOK'
  BY <1>1, <1>2 DEF TypeOK
<1>4. RowsInv'
  BY DEF RowsInv
<1>5. TxnsInv'
  BY <1>1 DEF TxnsInv
<1>6. \A j \in Keys : pay[j].txn # t
  BY PaymentsAssumption DEF LedgerAgreesWithPsp, TxnsInv
<1>7. LedgerAgreesWithPsp'
  BY <1>1, <1>6, PaymentsAssumption DEF LedgerAgreesWithPsp, TypeOK, Rows
<1>8. ASSUME NEW d \in Clerks, d # c PROVE RequestInv(d)'
  <2>1. RequestInv(d) /\ req'[d] = req[d]
    BY <1>1, <1>8
  <2> QED
    BY <1>1, <1>6, <2>1 DEF RequestInv
<1>9. OneWriter'
  BY <1>1 DEF OneWriter
<1>10. FolioCreditIsTaken' /\ ChecksAreUnique'
  BY DEF FolioCreditIsTaken, ChecksAreUnique
<1> QED
  BY <1>3, <1>4, <1>5, <1>7, <1>8, <1>9, <1>10

(* The PSP captures, voids or refunds for the request of clerk c, and the  *)
(* request goes on (PspDone) or ends without an answer (PspSilent).        *)
LEMMA PspEffectInv ==
  ASSUME PaymentsInv, NEW c \in Clerks, AtPsp(c), PspEffect(req[c]),
         Resume(c, AfterPsp(req[c])) \/ Answer(c),
         UNCHANGED <<pay, opera, local, linked>>
  PROVE  PaymentsInv'
<1> DEFINE r == req[c]
<1> DEFINE t == r.txn
<1> DEFINE k == r.key
<1> USE DEF PaymentsInv
<1>1. /\ r.at \in {"pspCapture", "pspVoid", "pspRefund"}
      /\ t \in Txns /\ k \in Keys /\ r \in Requests
      /\ r.at \in {"pspCapture", "pspVoid"} => pay[k].txn = t
      /\ r.at \in {"pspCapture", "pspRefund"} => r.amount \in Amounts
      /\ r.at = "pspRefund" => pay[k].st \in Settled /\ r.base + r.amount <= pay[k].amount
      /\ psp[t] \in PspTxns
  BY DEF AtPsp, RequestInv, TypeOK
<1>2. r.at = "pspCapture" => PspCaptures(t, r.amount)
  BY DEF PspEffect
<1>3. r.at = "pspVoid" => PspVoids(t)
  BY DEF PspEffect
<1>4. r.at = "pspRefund" => PspRefunds(t, r.amount)
  BY DEF PspEffect
<1>5. PICK q \in Requests :
        /\ req' = [req EXCEPT ![c] = q] /\ req'[c] = q
        /\ \/ q.at = "idle"
           \/ /\ q.key = k /\ q.amount = r.amount /\ q.txn = t /\ q.base = r.base
              /\ r.at = "pspCapture" => q.at = "writeCapture"
              /\ r.at = "pspVoid" => q.at = "writeVoid"
              /\ r.at = "pspRefund" => q.at = "writeRefund"
  <2>1. CASE Answer(c)
    BY <2>1, IdleIsRequest DEF Answer, Idle, TypeOK
  <2>2. CASE Resume(c, AfterPsp(r))
    <3> DEFINE q == [r EXCEPT !.at = AfterPsp(r)]
    <3>1. /\ r.at = "pspCapture" => AfterPsp(r) = "writeCapture"
          /\ r.at = "pspVoid" => AfterPsp(r) = "writeVoid"
          /\ r.at = "pspRefund" => AfterPsp(r) = "writeRefund"
      BY DEF AfterPsp
    <3>2. req' = [req EXCEPT ![c] = q] /\ req'[c] = q
      BY <2>2 DEF Resume, TypeOK
    <3>3. AfterPsp(r) \in Stages
      BY <1>1, <3>1 DEF Stages
    <3>4. q \in Requests /\ q.at = AfterPsp(r) /\ q.key = k /\ q.amount = r.amount
          /\ q.txn = t /\ q.base = r.base
      BY <1>1, <3>3 DEF Requests
    <3> HIDE DEF q, r
    <3> QED
      BY <3>1, <3>2, <3>4
  <2> QED
    BY <2>1, <2>2
<1>6. /\ psp'[t] \in PspTxns /\ psp' \in [Txns -> PspTxns]
      /\ \A u \in Txns \ {t} : psp'[u] = psp[u]
      /\ psp'[t].key = psp[t].key /\ psp'[t].st # "unused" /\ psp[t].st # "unused"
      /\ psp'[t].st # "held"
      /\ r.at = "pspCapture" => psp[t].st = "held" /\ psp'[t].st = "captured"
                                  /\ psp'[t].taken = r.amount
      /\ r.at = "pspVoid" => psp[t].st = "held" /\ psp'[t].st = "voided"
      /\ r.at = "pspRefund" => psp[t].st = "captured" /\ psp'[t].st = "captured"
                                  /\ psp'[t].taken = psp[t].taken
  BY <1>1, <1>2, <1>3, <1>4, PaymentsAssumption
  DEF PspCaptures, PspVoids, PspRefunds, TypeOK, PspTxns, Amounts
<1>7. \A d \in Clerks \ {c} : req'[d] = req[d]
  BY <1>5 DEF TypeOK
<1>8. r.at \in {"pspCapture", "pspVoid"} => pay[k].st = "AUTHORIZED" /\ psp[t].key = k
  BY <1>1, <1>6, PaymentsAssumption
  DEF LedgerAgreesWithPsp, RowsInv, NoRow, TypeOK, Rows, Statuses, Settled
<1>9. TypeOK'
  BY <1>5, <1>6 DEF TypeOK
<1>10. RowsInv'
  BY DEF RowsInv
<1>11. TxnsInv'
  BY <1>1, <1>6, <1>8 DEF TxnsInv
<1>12. LedgerAgreesWithPsp'
  <2>1. ASSUME NEW j \in Keys, pay[j].txn = t
        PROVE  /\ psp'[t].key = j
               /\ pay[j].st = "VOIDED" => psp'[t].st = "voided"
               /\ pay[j].st \in Settled => psp'[t].st = "captured" /\ psp'[t].taken = pay[j].amount
    <3>1. /\ psp[t].key = j
          /\ pay[j].st = "VOIDED" => psp[t].st = "voided"
          /\ pay[j].st \in Settled => psp[t].st = "captured" /\ psp[t].taken = pay[j].amount
      BY <1>1, <2>1, PaymentsAssumption DEF LedgerAgreesWithPsp
    <3> QED
      BY <1>1, <1>6, <3>1
  <2>2. ASSUME NEW j \in Keys, pay[j].txn # NoTxn, pay[j].txn # t
        PROVE  pay[j].txn \in Txns /\ psp'[pay[j].txn] = psp[pay[j].txn]
    BY <1>6, <2>2 DEF TypeOK, Rows
  <2> QED
    BY <2>1, <2>2 DEF LedgerAgreesWithPsp
<1>13. RequestInv(c)'
  BY <1>1, <1>5, <1>6, <1>8 DEF RequestInv
<1>14. ASSUME NEW d \in Clerks, d # c PROVE RequestInv(d)'
  <2>1. RequestInv(d) /\ req'[d] = req[d]
    BY <1>7, <1>14
  <2> QED
    BY <1>1, <1>6, <2>1 DEF RequestInv
<1>15. \A d \in Clerks : req[d].at \in {"writeCapture", "writeVoid"} /\ req[d].key = k
                           => r.at = "pspRefund"
  BY <1>1, <1>6 DEF RequestInv
<1>16. OneWriter'
  BY <1>1, <1>5, <1>7, <1>15 DEF OneWriter
<1>17. FolioCreditIsTaken' /\ ChecksAreUnique'
  BY DEF FolioCreditIsTaken, ChecksAreUnique
<1> QED
  BY <1>9, <1>10, <1>11, <1>12, <1>13, <1>14, <1>16, <1>17

(* Every way a call to the PSP ends keeps the invariant.                   *)
LEMMA PspInv ==
  ASSUME PaymentsInv, NEW c \in Clerks,
         PspApproves(c) \/ PspDeclines(c) \/ PspDone(c) \/ PspRefuses(c) \/ PspSilent(c)
  PROVE  PaymentsInv'
<1> DEFINE r == req[c]
<1>1. r \in Requests /\ RequestInv(c) /\ local \in Folios(Postings) /\ linked \in SUBSET Checks
  BY DEF PaymentsInv, TypeOK
<1>2. r.at = "pspAuthorize" => r.key \in Keys /\ r.amount \in Amounts
  BY <1>1 DEF RequestInv
<1>3. \A t \in Unused : t \in Txns /\ psp[t].st = "unused"
  BY DEF Unused
<1>4. CASE PspApproves(c)
  <2>1. PICK t \in Unused :
          Hold(t, r.key, r.amount) /\ req' = [req EXCEPT ![c] = [@ EXCEPT !.at = "insertHold", !.txn = t]]
    BY <1>4 DEF PspApproves
  <2>2. /\ r.at = "pspAuthorize" /\ r.key \in Keys /\ r.amount \in Amounts
        /\ t \in Txns /\ psp[t].st = "unused"
        /\ UNCHANGED <<pay, opera, local, linked>>
    BY <1>2, <1>3, <1>4 DEF PspApproves, At
  <2> DEFINE q == [r EXCEPT !.at = "insertHold", !.txn = t]
  <2>3. q \in Requests /\ q.at = "insertHold" /\ q.txn = t /\ q.key = r.key /\ q.amount = r.amount
    BY <1>1, <2>2 DEF Requests, Stages
  <2>4. req' = [req EXCEPT ![c] = q] /\ req'[c] = q
    BY <2>1 DEF PaymentsInv, TypeOK
  <2>5. psp'[t].st # "unused" /\ psp'[t].key = r.key
    BY <1>3, <2>1, <2>2 DEF Hold, PaymentsInv, TypeOK
  <2> HIDE DEF q
  <2>6. RequestInv(c)'
    BY <2>2, <2>3, <2>4, <2>5 DEF RequestInv
  <2> HIDE DEF r
  <2> QED
    BY <2>1, <2>2, <2>3, <2>4, <2>6, HoldInv
<1>5. CASE PspDeclines(c)
  <2> DEFINE q == [r EXCEPT !.at = "insertFailed"]
  <2>1. q \in Requests /\ q.at = "insertFailed" /\ q.key = r.key /\ q.amount = r.amount
        /\ r.at = "pspAuthorize"
    BY <1>1, <1>5 DEF Requests, Stages, PspDeclines, At
  <2>2. req' = [req EXCEPT ![c] = q] /\ req'[c] = q /\ UNCHANGED <<pay, psp, opera, local, linked>>
    BY <1>5 DEF PspDeclines, Resume, PaymentsInv, TypeOK
  <2> HIDE DEF q
  <2>3. RequestInv(c)'
    BY <1>2, <2>1, <2>2 DEF RequestInv
  <2> QED
    BY <1>1, <2>1, <2>2, <2>3, RequestStep
<1>6. CASE PspDone(c)
  BY <1>6, PspEffectInv DEF PspDone
<1>7. CASE PspRefuses(c)
  BY <1>1, <1>7, AnswerStep DEF PspRefuses
<1>8. CASE PspSilent(c)
  <2>1. Answer(c) /\ UNCHANGED <<pay, opera, local, linked>>
    BY <1>8 DEF PspSilent
  <2>2. CASE UNCHANGED psp
    BY <1>1, <2>1, <2>2, AnswerStep
  <2>3. CASE AtPsp(c) /\ PspEffect(r)
    BY <2>1, <2>3, PspEffectInv
  <2>4. ASSUME r.at = "pspAuthorize", NEW t \in Unused, Hold(t, r.key, r.amount)
        PROVE  PaymentsInv'
    <3>1. t \in Txns /\ psp[t].st = "unused" /\ r.key \in Keys /\ r.amount \in Amounts
      BY <1>2, <1>3, <2>4
    <3>2. req' = [req EXCEPT ![c] = Idle] /\ req'[c] = Idle /\ Idle.at = "idle"
      BY <2>1 DEF Answer, PaymentsInv, TypeOK, Idle
    <3>3. RequestInv(c)'
      BY <3>2 DEF RequestInv
    <3> HIDE DEF r
    <3> QED
      BY <2>1, <2>4, <3>1, <3>2, <3>3, HoldInv, IdleIsRequest
  <2> QED
    BY <1>8, <2>2, <2>3, <2>4 DEF PspSilent, At
<1> QED
  BY <1>4, <1>5, <1>6, <1>7, <1>8

-----------------------------------------------------------------------------
(* OPERA posts, and our copy follows.                                      *)

(* A posting of a payment that was taken, for the amount that was taken.   *)
LEMMA PostInv ==
  ASSUME PaymentsInv, NEW c \in Clerks, At(c, "post"),
         OperaAccepts(opera, Posting(req[c])),
         opera' = OperaPosts(opera, Posting(req[c])),
         Received(c) \/ Answer(c),
         UNCHANGED <<pay, psp, local, linked>>
  PROVE  PaymentsInv'
<1> DEFINE r == req[c]
<1> DEFINE p == Posting(r)
<1> USE DEF PaymentsInv
<1>1. /\ r.at = "post" /\ r \in Requests /\ r.key \in Keys
      /\ r.check \in Checks /\ r.amount \in Amounts /\ r.check.key = r.key
      /\ r.check.kind = "payment" =>
           /\ r.check = PaymentCheck(r.key)
           /\ pay[r.key].st \in Settled /\ r.amount = pay[r.key].amount
  BY DEF At, RequestInv, TypeOK
<1>2. p \in Postings /\ p.check = r.check /\ p.amount = r.amount
  BY <1>1 DEF Posting, Postings
<1>3. /\ opera'.postings = opera.postings \cup {p}
      /\ opera' \in Folios(Postings)
      /\ \A q \in opera.postings : q.check # p.check
  BY <1>2 DEF OperaPosts, OperaAccepts, KnowsCheck, TypeOK, Folios
<1>4. PICK q \in Requests :
        req' = [req EXCEPT ![c] = q] /\ req'[c] = q /\ q.at \in {"idle", "mirror"} /\
        (q.at = "mirror" => q.key = r.key)
  <2>1. CASE Answer(c)
    BY <2>1, IdleIsRequest DEF Answer, Idle, TypeOK
  <2>2. CASE Received(c)
    <3> DEFINE q == [r EXCEPT !.at = "mirror", !.answer = opera']
    <3>1. q \in Requests /\ q.at = "mirror" /\ q.key = r.key
      BY <1>1, <1>3 DEF Requests, Stages
    <3>2. req' = [req EXCEPT ![c] = q] /\ req'[c] = q
      BY <2>2 DEF Received, TypeOK
    <3> HIDE DEF q
    <3> QED
      BY <3>1, <3>2
  <2> QED
    BY <2>1, <2>2
<1>5. \A d \in Clerks \ {c} : req'[d] = req[d]
  BY <1>4 DEF TypeOK
<1>6. TypeOK'
  BY <1>3, <1>4 DEF TypeOK
<1>7. RowsInv' /\ TxnsInv' /\ LedgerAgreesWithPsp'
  BY DEF RowsInv, TxnsInv, LedgerAgreesWithPsp
<1>8. RequestInv(c)'
  BY <1>1, <1>4 DEF RequestInv
<1>9. ASSUME NEW d \in Clerks, d # c PROVE RequestInv(d)'
  BY <1>5, <1>9 DEF RequestInv
<1>10. OneWriter'
  BY <1>4, <1>5 DEF OneWriter
<1>11. FolioCreditIsTaken'
  BY <1>1, <1>2, <1>3 DEF FolioCreditIsTaken
<1>12. ChecksAreUnique'
  BY <1>3 DEF ChecksAreUnique
<1>13. \A s \in opera'.postings : s.check.kind = "payment" => s.check = PaymentCheck(s.check.key)
  BY <1>1, <1>2, <1>3
<1> QED
  BY <1>6, <1>7, <1>8, <1>9, <1>10, <1>11, <1>12, <1>13 DEF PaymentCheck

(* Every way a call to Core ends, and the copy of the answer.              *)
LEMMA CoreInv ==
  ASSUME PaymentsInv, NEW c \in Clerks,
         CorePosts(c) \/ CoreKnows(c) \/ CoreRefuses(c) \/ CoreSilent(c) \/ Mirror(c)
  PROVE  PaymentsInv'
<1> DEFINE r == req[c]
<1>1. r \in Requests /\ RequestInv(c) /\ opera \in Folios(Postings)
      /\ local \in Folios(Postings) /\ linked \in SUBSET Checks
  BY DEF PaymentsInv, TypeOK
<1>2. CASE CorePosts(c)
  BY <1>2, PostInv DEF CorePosts
<1>3. CASE CoreKnows(c)
  <2> DEFINE q == [r EXCEPT !.at = "mirror", !.answer = opera]
  <2>1. q \in Requests /\ q.at = "mirror" /\ q.key = r.key /\ r.at = "post"
    BY <1>1, <1>3 DEF Requests, Stages, CoreKnows, At
  <2>2. req' = [req EXCEPT ![c] = q] /\ req'[c] = q /\ UNCHANGED <<pay, psp, opera, local, linked>>
    BY <1>3 DEF CoreKnows, Received, PaymentsInv, TypeOK
  <2> HIDE DEF q
  <2>3. RequestInv(c)'
    BY <1>1, <2>1, <2>2 DEF RequestInv
  <2> QED
    BY <1>1, <2>1, <2>2, <2>3, RequestStep
<1>4. CASE CoreRefuses(c)
  BY <1>1, <1>4, AnswerStep DEF CoreRefuses
<1>5. CASE CoreSilent(c)
  BY <1>1, <1>5, AnswerStep, PostInv DEF CoreSilent
<1>6. CASE Mirror(c)
  <2>1. r.answer \in Folios(Postings)
    BY <1>1 DEF Requests
  <2>2. local' \in Folios(Postings)
    BY <1>1, <1>6, <2>1 DEF Mirror, MirrorFolio, Folios
  <2>3. linked' \in SUBSET Checks
    BY <1>1, <1>6, <2>1 DEF Mirror, MirrorLinks, LinkOwn, Folios, Postings
  <2> QED
    BY <1>6, <2>2, <2>3, AnswerStep DEF Mirror
<1> QED
  BY <1>2, <1>3, <1>4, <1>5, <1>6

(* Check-out closes the window in both places and leaves the books alone.  *)
LEMMA CloseInv ==
  ASSUME PaymentsInv, CloseAtOpera \/ CloseLocally
  PROVE  PaymentsInv'
<1> USE DEF PaymentsInv
<1>1. /\ UNCHANGED <<pay, psp, linked, req>>
      /\ opera' \in Folios(Postings) /\ opera'.postings = opera.postings
      /\ local' \in Folios(Postings)
  BY DEF CloseAtOpera, CloseLocally, TypeOK, Folios
<1>2. TypeOK'
  BY <1>1 DEF TypeOK
<1>3. RowsInv' /\ TxnsInv' /\ LedgerAgreesWithPsp' /\ OneWriter'
  BY <1>1 DEF RowsInv, TxnsInv, LedgerAgreesWithPsp, OneWriter
<1>4. ASSUME NEW d \in Clerks PROVE RequestInv(d)'
  BY <1>1 DEF RequestInv
<1>5. FolioCreditIsTaken' /\ ChecksAreUnique'
  BY <1>1 DEF FolioCreditIsTaken, ChecksAreUnique
<1> QED
  BY <1>1, <1>2, <1>3, <1>4, <1>5

(* The invariant is inductive.                                             *)
LEMMA NextInv == PaymentsInv /\ [Next]_vars => PaymentsInv'
<1> SUFFICES ASSUME PaymentsInv, [Next]_vars PROVE PaymentsInv'
  OBVIOUS
<1>1. ASSUME NEW c \in Clerks, Starts(c) PROVE PaymentsInv'
  BY <1>1, StartsInv
<1>2. ASSUME NEW c \in Clerks, Resumes(c) PROVE PaymentsInv'
  BY <1>2, InsertsInv, WriteCaptureInv, WriteVoidInv, WriteRefundInv, PspInv, CoreInv DEF Resumes
<1>3. ASSUME NEW c \in Clerks, Fails(c) PROVE PaymentsInv'
  <2>1. CASE Dies(c)
    BY <2>1, AnswerStep DEF Dies, PaymentsInv, TypeOK
  <2> QED
    BY <1>3, <2>1, PspInv, CoreInv DEF Fails
<1>4. CASE CloseAtOpera \/ CloseLocally
  BY <1>4, CloseInv
<1>5. CASE UNCHANGED vars
  <2> USE <1>5 DEF vars
  <2>1. TypeOK' /\ RowsInv' /\ TxnsInv' /\ LedgerAgreesWithPsp' /\ OneWriter'
    BY DEF PaymentsInv, TypeOK, RowsInv, TxnsInv, LedgerAgreesWithPsp, OneWriter
  <2>2. \A c \in Clerks : RequestInv(c)'
    BY DEF PaymentsInv, RequestInv
  <2>3. FolioCreditIsTaken' /\ ChecksAreUnique'
    BY DEF PaymentsInv, FolioCreditIsTaken, ChecksAreUnique
  <2> QED
    BY <2>1, <2>2, <2>3 DEF PaymentsInv
<1> QED
  BY <1>1, <1>2, <1>3, <1>4, <1>5 DEF Next

-----------------------------------------------------------------------------
(* The inductive invariant holds in every state of the service.            *)
THEOREM PaymentsInvariant == Spec => []PaymentsInv
BY InitInv, NextInv, PTL DEF Spec

(* Rows, transactions, folio and requests keep their types.                *)
THEOREM TypeCorrect == Spec => []TypeOK
<1>1. PaymentsInv => TypeOK
  BY DEF PaymentsInv
<1> QED
  BY <1>1, PaymentsInvariant, PTL

(* A payment credited to the folio is money that was taken, for the amount *)
(* that was taken, however the requests of any number of clerks interleave *)
(* and whatever answers are lost.                                          *)
THEOREM CreditIsTaken == Spec => []FolioCreditIsTaken
<1>1. PaymentsInv => FolioCreditIsTaken
  BY DEF PaymentsInv
<1> QED
  BY <1>1, PaymentsInvariant, PTL

(* What our rows say of a card payment is what the PSP did.                *)
THEOREM LedgerAgrees == Spec => []LedgerAgreesWithPsp
<1>1. PaymentsInv => LedgerAgreesWithPsp
  BY DEF PaymentsInv
<1> QED
  BY <1>1, PaymentsInvariant, PTL

(* No refund total is recorded beyond what was taken.                      *)
THEOREM RefundsWithinPayment == Spec => []RefundRecordedWithinPayment
<1>1. PaymentsInv => RefundRecordedWithinPayment
  BY DEF PaymentsInv, RowsInv, RefundRecordedWithinPayment
<1> QED
  BY <1>1, PaymentsInvariant, PTL

(* One key charges the guest once, also with a PSP that ignores resends.   *)
THEOREM ChargedOnce == Spec => []GuestChargedOnce
<1>1. PaymentsInv => GuestChargedOnce
  BY DEF PaymentsInv, TxnsInv, GuestChargedOnce
<1> QED
  BY <1>1, PaymentsInvariant, PTL

-----------------------------------------------------------------------------
(* Payments implements PaymentLifecycle, and a payment row only moves      *)
(* forward.  Both follow from what one step can do to the rows and to the  *)
(* postings in OPERA: nothing, one row written, or one posting added.      *)

BooksUnchanged == pay' = pay /\ opera'.postings = opera.postings

RowWritten(k) ==
  /\ opera'.postings = opera.postings
  /\ pay' = [pay EXCEPT ![k] = pay'[k]]
  /\ pay'[k].amount \in Amounts
  /\ \/ /\ pay[k] = NoRow /\ pay'[k].st \in {"FAILED", "AUTHORIZED", "CAPTURED"}
        /\ pay'[k].refunded = 0
     \/ /\ pay[k].st = "AUTHORIZED" /\ pay'[k].st \in {"CAPTURED", "VOIDED"}
        /\ pay'[k].refunded = pay[k].refunded
        /\ pay'[k].amount <= pay[k].amount
        /\ pay'[k].st = "VOIDED" => pay'[k].amount = pay[k].amount
        /\ pay'[k].txn = pay[k].txn
     \/ /\ pay[k].st \in Settled /\ pay'[k].st = "REFUNDED"
        /\ pay'[k].refunded \in 1..pay[k].amount
        /\ pay'[k].amount = pay[k].amount
        /\ pay'[k].txn = pay[k].txn

PostingAdded(p) ==
  /\ pay' = pay
  /\ opera'.postings = opera.postings \cup {p}
  /\ ~ KnowsCheck(opera, p)
  /\ p.check.kind = "payment" =>
       /\ p.check = PaymentCheck(p.check.key)
       /\ pay[p.check.key].st \in Settled /\ p.amount = pay[p.check.key].amount

(* What a settled or held row has for an amount is an amount.              *)
LEMMA InsertEffect ==
  ASSUME PaymentsInv, NEW k \in Keys, NEW row \in Rows,
         row.st \in {"AUTHORIZED", "CAPTURED", "FAILED"}, row.refunded = 0,
         row.amount \in Amounts,
         InsertRow(k, row), opera' = opera
  PROVE  BooksUnchanged \/ RowWritten(k)
<1>1. CASE pay[k].st = "NONE"
  <2>1. pay' = [pay EXCEPT ![k] = row] /\ pay'[k] = row /\ pay[k] = NoRow
    BY <1>1 DEF InsertRow, PaymentsInv, TypeOK, RowsInv
  <2> QED
    BY <2>1 DEF RowWritten
<1>2. CASE pay[k].st # "NONE"
  BY <1>2 DEF InsertRow, BooksUnchanged
<1> QED
  BY <1>1, <1>2

(* The three inserts of authorize.                                         *)
LEMMA InsertsEffect ==
  ASSUME PaymentsInv, NEW c \in Clerks,
         InsertCash(c) \/ InsertHold(c) \/ InsertFailed(c)
  PROVE  BooksUnchanged \/ RowWritten(req[c].key)
<1> DEFINE r == req[c]
<1>1. r \in Requests /\ r.amount \in Amounts /\ r.amount \in 0..MaxAmount
      /\ 0 \in 0..MaxAmount /\ r.key \in Keys /\ opera' = opera
  BY PaymentsAssumption DEF PaymentsInv, TypeOK, Requests, RequestInv, InsertCash, InsertHold, InsertFailed, At
<1>2. ASSUME NEW row \in {CashRow(r), HoldRow(r), FailedRow(r)}, InsertRow(r.key, row),
             row = HoldRow(r) => r.txn \in Txns
      PROVE  BooksUnchanged \/ RowWritten(r.key)
  <2>1. row \in Rows /\ row.refunded = 0 /\ row.amount = r.amount
        /\ row.st \in {"AUTHORIZED", "CAPTURED", "FAILED"}
    <3>1. CASE row = HoldRow(r)
      BY <1>1, <1>2, <3>1 DEF HoldRow, Rows, Statuses, Settled
    <3>2. CASE row = FailedRow(r)
      BY <1>1, <3>2 DEF FailedRow, NoRow, Rows, Statuses, Settled
    <3>3. CASE row = CashRow(r)
      BY <1>1, <3>3 DEF CashRow, NoRow, Rows, Statuses, Settled
    <3> QED
      BY <1>2, <3>1, <3>2, <3>3
  <2> HIDE DEF r
  <2> QED
    BY <1>1, <1>2, <2>1, InsertEffect
<1>3. FailedRow(r) # HoldRow(r) /\ CashRow(r) # HoldRow(r)
  BY DEF FailedRow, CashRow, HoldRow, NoRow
<1>4. InsertHold(c) => r.txn \in Txns
  BY DEF InsertHold, At, PaymentsInv, RequestInv
<1> QED
  BY <1>2, <1>3, <1>4 DEF InsertCash, InsertHold, InsertFailed

(* The row writes of capture, void and refund.                             *)
LEMMA WritesEffect ==
  ASSUME PaymentsInv, NEW c \in Clerks,
         WriteCapture(c) \/ WriteVoid(c) \/ WriteRefund(c)
  PROVE  RowWritten(req[c].key)
<1> DEFINE r == req[c]
<1> DEFINE k == r.key
<1>1. k \in Keys /\ pay[k] \in Rows /\ opera' = opera /\ RequestInv(c) /\ r \in Requests
  BY DEF PaymentsInv, TypeOK, RequestInv, WriteCapture, WriteVoid, WriteRefund, At
<1>2. CASE WriteCapture(c)
  <2>1. /\ r.amount \in Amounts /\ r.amount <= pay[k].amount
        /\ pay[k].st = "AUTHORIZED"
        /\ pay' = [pay EXCEPT ![k] = CapturedRow(pay[k], r)]
    BY <1>1, <1>2 DEF WriteCapture, At, RequestInv, PaymentsInv, TypeOK
  <2>2. /\ pay'[k] = CapturedRow(pay[k], r)
        /\ pay'[k].st = "CAPTURED" /\ pay'[k].amount = r.amount
        /\ pay'[k].refunded = pay[k].refunded /\ pay'[k].txn = pay[k].txn
    BY <1>1, <2>1 DEF CapturedRow, Rows, PaymentsInv, TypeOK
  <2> QED
    BY <1>1, <2>1, <2>2 DEF RowWritten
<1>3. CASE WriteVoid(c)
  <2>1. pay[k].st = "AUTHORIZED" /\ pay' = [pay EXCEPT ![k] = VoidedRow(pay[k])]
    BY <1>1, <1>3 DEF WriteVoid, At, RequestInv, PaymentsInv, TypeOK
  <2>2. pay[k].amount \in Amounts
    BY <1>1, <2>1 DEF PaymentsInv, RowsInv
  <2>3. /\ pay'[k] = VoidedRow(pay[k])
        /\ pay'[k].st = "VOIDED" /\ pay'[k].amount = pay[k].amount
        /\ pay'[k].refunded = pay[k].refunded /\ pay'[k].txn = pay[k].txn
    BY <1>1, <2>1 DEF VoidedRow, Rows, PaymentsInv, TypeOK
  <2> QED
    <3>1. pay[k].amount <= pay[k].amount
      BY <2>2, PaymentsAssumption DEF Amounts
    <3> QED
      BY <1>1, <2>1, <2>2, <2>3, <3>1 DEF RowWritten
<1>4. CASE WriteRefund(c)
  <2>1. /\ r.amount \in Amounts /\ r.base \in 0..MaxAmount /\ r.base + r.amount <= pay[k].amount
        /\ pay[k].st \in Settled
        /\ pay' = [pay EXCEPT ![k] = RefundedRow(pay[k], r)]
    BY <1>1, <1>4 DEF WriteRefund, At, RequestInv, PaymentsInv, TypeOK, Requests
  <2>2. /\ pay'[k] = RefundedRow(pay[k], r)
        /\ pay'[k].st = "REFUNDED" /\ pay'[k].amount = pay[k].amount
        /\ pay'[k].refunded = r.base + r.amount /\ pay'[k].txn = pay[k].txn
    BY <1>1, <2>1 DEF RefundedRow, Rows, PaymentsInv, TypeOK
  <2>3. pay[k].amount \in Amounts /\ r.base + r.amount \in 1..pay[k].amount
    BY <1>1, <2>1, PaymentsAssumption DEF Rows, Amounts
  <2> QED
    BY <1>1, <2>1, <2>2, <2>3 DEF RowWritten
<1> QED
  BY <1>2, <1>3, <1>4

(* A posting OPERA accepts is a new one, and one of money taken.           *)
LEMMA PostEffect ==
  ASSUME PaymentsInv, NEW c \in Clerks, At(c, "post"),
         OperaAccepts(opera, Posting(req[c])),
         opera' = OperaPosts(opera, Posting(req[c])), pay' = pay
  PROVE  \E p \in Postings : PostingAdded(p)
<1> DEFINE p == Posting(req[c])
<1>1. p \in Postings /\ p.check = req[c].check /\ p.amount = req[c].amount
  BY DEF At, PaymentsInv, RequestInv, Posting, Postings
<1>2. opera'.postings = opera.postings \cup {p} /\ ~ KnowsCheck(opera, p)
  BY DEF OperaPosts, OperaAccepts, PaymentsInv, TypeOK, Folios
<1>3. p.check.kind = "payment" =>
        /\ p.check = PaymentCheck(p.check.key)
        /\ pay[p.check.key].st \in Settled /\ p.amount = pay[p.check.key].amount
  BY <1>1 DEF At, PaymentsInv, RequestInv
<1> HIDE DEF p
<1> QED
  BY <1>1, <1>2, <1>3 DEF PostingAdded

(* What a step can do to the books.                                        *)
LEMMA StepEffect ==
  PaymentsInv /\ [Next]_vars =>
    \/ BooksUnchanged
    \/ \E k \in Keys : RowWritten(k)
    \/ \E p \in Postings : PostingAdded(p)
<1> SUFFICES ASSUME PaymentsInv, [Next]_vars
             PROVE  \/ BooksUnchanged
                    \/ \E k \in Keys : RowWritten(k)
                    \/ \E p \in Postings : PostingAdded(p)
  OBVIOUS
<1>1. ASSUME NEW c \in Clerks, Starts(c) PROVE BooksUnchanged
  BY <1>1 DEF Starts, StartCash, StartCard, StartCapture, StartRefund, StartVoid, BooksUnchanged
<1>2. ASSUME NEW c \in Clerks,
             \/ InsertCash(c) \/ InsertHold(c) \/ InsertFailed(c)
             \/ WriteCapture(c) \/ WriteVoid(c) \/ WriteRefund(c)
      PROVE  BooksUnchanged \/ \E k \in Keys : RowWritten(k)
  <2>1. req[c].key \in Keys
    BY <1>2 DEF PaymentsInv, RequestInv, InsertCash, InsertHold, InsertFailed,
                WriteCapture, WriteVoid, WriteRefund, At
  <2> QED
    BY <1>2, <2>1, InsertsEffect, WritesEffect
<1>3. ASSUME NEW c \in Clerks,
             \/ PspApproves(c) \/ PspDeclines(c) \/ PspDone(c) \/ PspRefuses(c) \/ PspSilent(c)
             \/ CoreKnows(c) \/ CoreRefuses(c) \/ Mirror(c) \/ Dies(c)
      PROVE  BooksUnchanged
  BY <1>3 DEF BooksUnchanged, PspApproves, PspDeclines, PspDone, PspRefuses, PspSilent,
              CoreKnows, CoreRefuses, Mirror, Dies
<1>4. ASSUME NEW c \in Clerks, CorePosts(c) \/ CoreSilent(c)
      PROVE  BooksUnchanged \/ \E p \in Postings : PostingAdded(p)
  BY <1>4, PostEffect DEF CorePosts, CoreSilent, BooksUnchanged
<1>5. CASE CloseAtOpera \/ CloseLocally
  BY <1>5 DEF CloseAtOpera, CloseLocally, BooksUnchanged, PaymentsInv, TypeOK, Folios
<1>6. CASE UNCHANGED vars
  BY <1>6 DEF vars, BooksUnchanged
<1> QED
  BY <1>1, <1>2, <1>3, <1>4, <1>5, <1>6 DEF Next, Resumes, Fails

(* A payment row only moves forward through its lifecycle, in any          *)
(* interleaving and under any failure.                                     *)
THEOREM RowsMoveForward == Spec => StatusOnlyMovesForward
<1>1. PaymentsInv /\ [Next]_vars => \A k \in Keys : RowMovesForward(k)
  <2> SUFFICES ASSUME PaymentsInv, [Next]_vars, NEW k \in Keys, pay'[k] # pay[k]
               PROVE  /\ pay'[k].st \in Successors(pay[k].st)
                      /\ pay[k].st # "NONE" => pay'[k].txn = pay[k].txn
    BY DEF RowMovesForward
  <2>1. PICK j \in Keys : RowWritten(j)
    BY StepEffect DEF BooksUnchanged, PostingAdded
  <2>2. j = k
    BY <2>1 DEF RowWritten, PaymentsInv, TypeOK
  <2> QED
    BY <2>1, <2>2 DEF RowWritten, Successors, Settled, NoRow
<1> QED
  BY <1>1, PaymentsInvariant, PTL DEF Spec, StatusOnlyMovesForward

-----------------------------------------------------------------------------
(* The refinement.  Phases, Values, Returns and Credits are the four       *)
(* functions Payments substitutes for the variables of PaymentLifecycle.   *)

Phases == [k \in Keys |-> PhaseOf(pay[k].st)]
Values == [k \in Keys |-> pay[k].amount]
Returns == [k \in Keys |-> pay[k].refunded]
Credits == [k \in Keys |-> CreditsOf(k)]

(* The first state of the service is a first state of the lifecycle.       *)
LEMMA InitRefines == Init => Lifecycle!Init
<1> SUFFICES ASSUME Init PROVE Lifecycle!Init
  OBVIOUS
<1>1. \A k \in Keys : pay[k] = NoRow
  BY DEF Init
<1>2. \A k \in Keys : PhaseOf(pay[k].st) = "none" /\ pay[k].amount = 0 /\ pay[k].refunded = 0
  BY <1>1 DEF NoRow, PhaseOf, Settled
<1>3. \A k \in Keys : CreditsOf(k) = {}
  BY DEF Init, EmptyFolio, CreditsOf
<1> QED
  BY <1>2, <1>3 DEF Lifecycle!Init

(* A written row is a decision, a take, a release or a refund.             *)
LEMMA RowRefines ==
  ASSUME PaymentsInv, NEW k \in Keys, RowWritten(k)
  PROVE  Lifecycle!Next
<1>1. /\ \A j \in Keys \ {k} : pay'[j] = pay[j]
      /\ \A j \in Keys : CreditsOf(j)' = CreditsOf(j)
      /\ pay'[k].amount \in Amounts
  BY DEF RowWritten, PaymentsInv, TypeOK, CreditsOf
<1>2. /\ Phases' = [Phases EXCEPT ![k] = PhaseOf(pay'[k].st)]
      /\ Values' = [Values EXCEPT ![k] = pay'[k].amount]
      /\ Returns' = [Returns EXCEPT ![k] = pay'[k].refunded]
      /\ Credits' = Credits
  BY <1>1 DEF Phases, Values, Returns, Credits
<1>3. /\ Phases[k] = PhaseOf(pay[k].st) /\ Values[k] = pay[k].amount
      /\ Returns[k] = pay[k].refunded
  BY DEF Phases, Values, Returns
<1>4. CASE pay[k] = NoRow /\ pay'[k].st \in {"FAILED", "AUTHORIZED", "CAPTURED"}
           /\ pay'[k].refunded = 0
  <2>1. Phases[k] = "none" /\ Returns[k] = 0
    BY <1>3, <1>4 DEF PhaseOf, NoRow, Settled
  <2>2. PhaseOf(pay'[k].st) \in {"refused", "held", "taken"}
    BY <1>4 DEF PhaseOf, Settled
  <2>3. Returns' = Returns
    BY <1>2, <1>4, <2>1 DEF Returns
  <2>4. PICK a \in 1..MaxAmount : a = pay'[k].amount
    BY <1>1 DEF Amounts
  <2>5. PICK o \in {"refused", "held", "taken"} : o = PhaseOf(pay'[k].st)
    BY <2>2
  <2>6. Lifecycle!Decide(k, o, a)
    BY <1>2, <2>1, <2>3, <2>4, <2>5 DEF Lifecycle!Decide, Phases, Values, Returns, Credits
  <2>7. o \in Lifecycle!Phases
    BY DEF Lifecycle!Phases
  <2> QED
    BY <2>6, <2>7 DEF Lifecycle!Next
<1>5. CASE pay[k].st = "AUTHORIZED" /\ pay'[k].st = "CAPTURED"
           /\ pay'[k].refunded = pay[k].refunded /\ pay'[k].amount <= pay[k].amount
  <2>1. Phases[k] = "held" /\ PhaseOf(pay'[k].st) = "taken"
    BY <1>3, <1>5 DEF PhaseOf, Settled
  <2>2. Returns' = Returns
    BY <1>2, <1>5 DEF Returns
  <2>3. PICK a \in 1..MaxAmount : a = pay'[k].amount
    BY <1>1 DEF Amounts
  <2>4. Lifecycle!Take(k, a)
    BY <1>2, <1>3, <1>5, <2>1, <2>2, <2>3 DEF Lifecycle!Take, Phases, Values, Returns, Credits
  <2> QED
    BY <2>4 DEF Lifecycle!Next
<1>6. CASE pay[k].st = "AUTHORIZED" /\ pay'[k].st = "VOIDED"
           /\ pay'[k].refunded = pay[k].refunded /\ pay'[k].amount = pay[k].amount
  <2>1. Phases[k] = "held" /\ PhaseOf(pay'[k].st) = "released"
    BY <1>3, <1>6 DEF PhaseOf, Settled
  <2>2. Returns' = Returns /\ Values' = Values
    BY <1>2, <1>6 DEF Returns, Values
  <2>3. Lifecycle!Release(k)
    BY <1>2, <2>1, <2>2 DEF Lifecycle!Release, Phases, Values, Returns, Credits
  <2> QED
    BY <2>3 DEF Lifecycle!Next
<1>7. CASE pay[k].st \in Settled /\ pay'[k].st = "REFUNDED"
           /\ pay'[k].refunded \in 1..pay[k].amount /\ pay'[k].amount = pay[k].amount
  <2>1. Phases[k] = "taken" /\ PhaseOf(pay'[k].st) = "taken"
    BY <1>3, <1>7 DEF PhaseOf, Settled
  <2>2. Phases' = Phases /\ Values' = Values
    BY <1>2, <1>7, <2>1 DEF Phases, Values
  <2>3. pay'[k].refunded <= Values[k] /\ pay'[k].refunded \in 1..MaxAmount
    BY <1>1, <1>3, <1>7, PaymentsAssumption DEF Amounts
  <2>4. PICK r \in 1..MaxAmount : r = pay'[k].refunded
    BY <2>3
  <2>5. Lifecycle!GiveBack(k, r)
    BY <1>2, <2>1, <2>2, <2>3, <2>4 DEF Lifecycle!GiveBack, Phases, Values, Returns, Credits
  <2> QED
    BY <2>5 DEF Lifecycle!Next
<1> QED
  BY <1>4, <1>5, <1>6, <1>7 DEF RowWritten

(* A payment posting is the credit of that payment; a refund posting is    *)
(* none of the lifecycle's business.                                       *)
LEMMA PostingRefines ==
  ASSUME PaymentsInv, NEW p \in Postings, PostingAdded(p)
  PROVE  Lifecycle!Next \/ UNCHANGED <<Phases, Values, Returns, Credits>>
<1>1. Phases' = Phases /\ Values' = Values /\ Returns' = Returns
  BY DEF PostingAdded, Phases, Values, Returns
<1>2. CASE p.check.kind # "payment"
  <2>1. \A k \in Keys : p.check # PaymentCheck(k)
    BY <1>2 DEF PaymentCheck
  <2>2. \A k \in Keys : CreditsOf(k)' = CreditsOf(k)
    BY <2>1 DEF PostingAdded, CreditsOf, PaymentCheck
  <2> QED
    BY <1>1, <2>2 DEF Credits
<1>3. CASE p.check.kind = "payment"
  <2> DEFINE k == p.check.key
  <2>1. /\ k \in Keys /\ p.check = PaymentCheck(k)
        /\ pay[k].st \in Settled /\ p.amount = pay[k].amount
        /\ opera'.postings = opera.postings \cup {p}
        /\ \A q \in opera.postings : q.check # PaymentCheck(k)
    BY <1>3 DEF PostingAdded, Postings, Checks, KnowsCheck
  <2>2. \A j \in Keys \ {k} : PaymentCheck(j) # PaymentCheck(k)
    BY DEF PaymentCheck
  <2>3. CreditsOf(k) = {} /\ CreditsOf(k)' = {pay[k].amount}
    <3>1. { q \in opera.postings : q.check = PaymentCheck(k) } = {}
      BY <2>1
    <3>2. { q \in opera'.postings : q.check = PaymentCheck(k) } = {p}
      BY <2>1
    <3>3. CreditsOf(k)' = { q.amount : q \in { q \in opera'.postings : q.check = PaymentCheck(k) } }
      BY DEF CreditsOf, PaymentCheck
    <3> HIDE DEF k
    <3> QED
      BY <2>1, <3>1, <3>2, <3>3 DEF CreditsOf
  <2>4. \A j \in Keys \ {k} : CreditsOf(j)' = CreditsOf(j)
    <3>1. ASSUME NEW j \in Keys \ {k}
          PROVE  { q \in opera'.postings : q.check = PaymentCheck(j) }
                   = { q \in opera.postings : q.check = PaymentCheck(j) }
      BY <2>1, <2>2
    <3> QED
      BY <3>1 DEF CreditsOf, PaymentCheck
  <2> HIDE DEF k
  <2>5. Phases[k] = "taken" /\ Values[k] = pay[k].amount /\ Credits[k] = {}
    BY <2>1, <2>3 DEF Phases, Values, Credits, PhaseOf, Settled
  <2>6. Credits' = [Credits EXCEPT ![k] = {Values[k]}]
    BY <2>3, <2>4, <2>5 DEF Credits
  <2>7. Lifecycle!Credit(k)
    BY <1>1, <2>5, <2>6 DEF Lifecycle!Credit, Phases, Values, Returns, Credits
  <2> QED
    BY <2>1, <2>7 DEF Lifecycle!Next
<1> QED
  BY <1>2, <1>3

(* Every behaviour of the service, whatever the number of clerks and the   *)
(* failures, is a behaviour of the promised lifecycle.                     *)
THEOREM PaymentsImplementLifecycle == Spec => ImplementsLifecycle
<1>1. PaymentsInv /\ [Next]_vars =>
        Lifecycle!Next \/ UNCHANGED <<Phases, Values, Returns, Credits>>
  <2> SUFFICES ASSUME PaymentsInv, [Next]_vars
               PROVE  Lifecycle!Next \/ UNCHANGED <<Phases, Values, Returns, Credits>>
    OBVIOUS
  <2>1. CASE BooksUnchanged
    BY <2>1 DEF BooksUnchanged, Phases, Values, Returns, Credits, CreditsOf
  <2> QED
    BY <2>1, StepEffect, RowRefines, PostingRefines
<1>2. PaymentsInv /\ [Next]_vars => [Lifecycle!Next]_(Lifecycle!lifecycleVars)
  BY <1>1 DEF Lifecycle!lifecycleVars, Phases, Values, Returns, Credits
<1> QED
  BY <1>2, InitRefines, PaymentsInvariant, PTL
  DEF Spec, ImplementsLifecycle, Lifecycle!LifecycleSpec


-----------------------------------------------------------------------------
(* With the history.                                                       *)

(* The history asks nothing of the service: its steps are the service's.   *)
LEMMA HistoryStep == [HNext]_hvars => [Next]_vars
<1> SUFFICES ASSUME [HNext]_hvars PROVE [Next]_vars
  OBVIOUS
<1>1. CASE UNCHANGED hvars
  BY <1>1 DEF hvars
<1>2. ASSUME NEW c \in Clerks, Works(c) \/ Disturbed(c) PROVE Next
  BY <1>2 DEF Works, Disturbed, Next
<1> QED
  BY <1>1, <1>2 DEF HNext

LEMMA HistoryInvariant == HSpec => []PaymentsInv
<1>1. HInit => PaymentsInv
  BY InitInv DEF HInit
<1>2. PaymentsInv /\ [HNext]_hvars => PaymentsInv'
  BY HistoryStep, NextInv
<1> QED
  BY <1>1, <1>2, PTL DEF HSpec

-----------------------------------------------------------------------------
(* One hold for each key.                                                  *)

(* While a key is certain, one request at most asks for it; the PSP holds  *)
(* nothing for it before that request is approved, and no more than what   *)
(* that request, or the row, knows of after.                               *)
HeldInv ==
  \A k \in Keys \ uncertain :
    /\ \A c, d \in Clerks : Asks(c, k) /\ Asks(d, k) => c = d
    /\ \A c \in Clerks : req[c].at = "pspAuthorize" /\ req[c].key = k =>
         \A t \in Txns : psp[t].key # k
    /\ pay[k].st = "NONE" => \A t \in Txns : psp[t].key = k =>
         \E c \in Clerks : req[c].at = "insertHold" /\ req[c].key = k
    /\ \A s, t \in Txns : psp[s].key = k /\ psp[t].key = k => s = t

(* A step that makes no hold for a certain key and begins no asking; a     *)
(* request that stops asking after its hold leaves a row.                  *)
LEMMA NothingHeld ==
  ASSUME PaymentsInv, HeldInv, NEW c \in Clerks, NEW q,
         req' = [req EXCEPT ![c] = q], uncertain \subseteq uncertain',
         \A k \in Keys \ uncertain' :
           /\ \A t \in Txns : psp'[t].key = k <=> psp[t].key = k
           /\ pay'[k].st = "NONE" => pay[k].st = "NONE"
           /\ q.at \in {"pspAuthorize", "insertHold"} => q = req[c]
           /\ req[c].at = "insertHold" /\ req[c].key = k =>
                q = req[c] \/ pay'[k].st # "NONE"
  PROVE  HeldInv'
<1> SUFFICES ASSUME NEW k \in Keys \ uncertain'
             PROVE  /\ \A a, b \in Clerks : Asks(a, k)' /\ Asks(b, k)' => a = b
                    /\ \A a \in Clerks : req'[a].at = "pspAuthorize" /\ req'[a].key = k =>
                         \A t \in Txns : psp'[t].key # k
                    /\ pay'[k].st = "NONE" => \A t \in Txns : psp'[t].key = k =>
                         \E a \in Clerks : req'[a].at = "insertHold" /\ req'[a].key = k
                    /\ \A s, t \in Txns : psp'[s].key = k /\ psp'[t].key = k => s = t
  BY DEF HeldInv
<1>1. k \in Keys \ uncertain
  OBVIOUS
<1>2. req'[c] = q /\ \A d \in Clerks : d # c => req'[d] = req[d]
  BY DEF PaymentsInv, TypeOK
<1>3. \A a \in Clerks : req'[a].at \in {"pspAuthorize", "insertHold"} => req'[a] = req[a]
  BY <1>2
<1>4. \A a, b \in Clerks : Asks(a, k)' /\ Asks(b, k)' => a = b
  BY <1>1, <1>3 DEF HeldInv, Asks
<1>5. \A a \in Clerks : req'[a].at = "pspAuthorize" /\ req'[a].key = k =>
        \A t \in Txns : psp'[t].key # k
  BY <1>1, <1>3 DEF HeldInv
<1>6. ASSUME pay'[k].st = "NONE", NEW t \in Txns, psp'[t].key = k
      PROVE  \E a \in Clerks : req'[a].at = "insertHold" /\ req'[a].key = k
  <2>1. PICK a \in Clerks : req[a].at = "insertHold" /\ req[a].key = k
    BY <1>1, <1>6 DEF HeldInv
  <2>2. req'[a] = req[a]
    BY <1>2, <1>6, <2>1
  <2> QED
    BY <2>1, <2>2
<1>7. \A s, t \in Txns : psp'[s].key = k /\ psp'[t].key = k => s = t
  BY <1>1 DEF HeldInv
<1> QED
  BY <1>4, <1>5, <1>6, <1>7

(* A request of authorize begins to ask, alone or the key is uncertain.    *)
LEMMA StartCardHeld ==
  ASSUME PaymentsInv, HeldInv, NEW c \in Clerks, NEW k \in Keys, NEW a \in Amounts,
         StartCard(c, k, a), uncertain' = uncertain \cup AskedTwice'
  PROVE  HeldInv'
<1>1. PICK q : /\ req' = [req EXCEPT ![c] = q] /\ q.at = "pspAuthorize" /\ q.key = k
               /\ At(c, "idle")
  <2> DEFINE q == [Idle EXCEPT !.at = "pspAuthorize", !.key = k, !.amount = a, !.txn = NoTxn, !.base = 0]
  <2>1. q.at = "pspAuthorize" /\ q.key = k
    BY DEF Idle
  <2> QED
    BY <2>1 DEF StartCard, Begin
<1>2. /\ pay' = pay /\ psp' = psp /\ pay[k].st = "NONE"
      /\ req'[c] = q /\ \A d \in Clerks : d # c => req'[d] = req[d]
  BY <1>1 DEF StartCard, MayAuthorize, PaymentsInv, TypeOK
<1> SUFFICES ASSUME NEW j \in Keys \ uncertain'
             PROVE  /\ \A b, d \in Clerks : Asks(b, j)' /\ Asks(d, j)' => b = d
                    /\ \A b \in Clerks : req'[b].at = "pspAuthorize" /\ req'[b].key = j =>
                         \A t \in Txns : psp'[t].key # j
                    /\ pay'[j].st = "NONE" => \A t \in Txns : psp'[t].key = j =>
                         \E b \in Clerks : req'[b].at = "insertHold" /\ req'[b].key = j
                    /\ \A s, t \in Txns : psp'[s].key = j /\ psp'[t].key = j => s = t
  BY DEF HeldInv
<1>3. j \in Keys \ uncertain /\ j \notin AskedTwice'
  OBVIOUS
<1>4. \A b, d \in Clerks : Asks(b, j)' /\ Asks(d, j)' => b = d
  BY <1>3 DEF AskedTwice
<1>5. j = k => \A t \in Txns : psp[t].key # k
  <2> SUFFICES ASSUME j = k, NEW t \in Txns, psp[t].key = k PROVE FALSE
    OBVIOUS
  <2>1. PICK b \in Clerks : req[b].at = "insertHold" /\ req[b].key = k
    BY <1>2, <1>3 DEF HeldInv
  <2>2. b # c
    BY <1>1, <2>1 DEF At
  <2>3. Asks(b, k)' /\ Asks(c, k)'
    BY <1>1, <1>2, <2>1, <2>2 DEF Asks
  <2> QED
    BY <1>4, <2>2, <2>3
<1>6. ASSUME NEW b \in Clerks, req'[b].at = "pspAuthorize", req'[b].key = j, NEW t \in Txns
      PROVE  psp'[t].key # j
  <2>1. CASE b = c
    BY <1>1, <1>2, <1>5, <1>6, <2>1
  <2>2. CASE b # c
    BY <1>2, <1>3, <1>6, <2>2 DEF HeldInv
  <2> QED
    BY <2>1, <2>2
<1>7. ASSUME pay'[j].st = "NONE", NEW t \in Txns, psp'[t].key = j
      PROVE  \E b \in Clerks : req'[b].at = "insertHold" /\ req'[b].key = j
  <2>1. PICK b \in Clerks : req[b].at = "insertHold" /\ req[b].key = j
    BY <1>2, <1>3, <1>7 DEF HeldInv
  <2>2. req'[b] = req[b]
    BY <1>1, <1>2, <2>1 DEF At
  <2> QED
    BY <2>1, <2>2
<1>8. \A s, t \in Txns : psp'[s].key = j /\ psp'[t].key = j => s = t
  BY <1>2, <1>3 DEF HeldInv
<1> QED
  BY <1>4, <1>6, <1>7, <1>8

(* The PSP makes the hold that the only request for a certain key asks.    *)
LEMMA ApprovesHeld ==
  ASSUME PaymentsInv, HeldInv, NEW c \in Clerks, PspApproves(c), uncertain \subseteq uncertain'
  PROVE  HeldInv'
<1>0. PICK k \in Keys : req[c].key = k
  BY DEF PspApproves, At, PaymentsInv, RequestInv
<1>1. PICK u \in Unused :
        /\ Hold(u, k, req[c].amount)
        /\ req' = [req EXCEPT ![c] = [req[c] EXCEPT !.at = "insertHold", !.txn = u]]
  BY <1>0 DEF PspApproves, PaymentsInv, TypeOK
<1>2. /\ u \in Txns /\ psp'[u].key = k /\ \A t \in Txns : t # u => psp'[t] = psp[t]
      /\ pay' = pay /\ req[c].at = "pspAuthorize"
      /\ psp[u].key = NoKey
  BY <1>0, <1>1 DEF Hold, Unused, PspApproves, At, PaymentsInv, TypeOK, TxnsInv, RequestInv
<1>3. /\ req'[c].at = "insertHold" /\ req'[c].key = k
      /\ \A d \in Clerks : d # c => req'[d] = req[d]
  BY <1>0, <1>1 DEF PaymentsInv, TypeOK, Requests
<1> SUFFICES ASSUME NEW j \in Keys \ uncertain'
             PROVE  /\ \A b, d \in Clerks : Asks(b, j)' /\ Asks(d, j)' => b = d
                    /\ \A b \in Clerks : req'[b].at = "pspAuthorize" /\ req'[b].key = j =>
                         \A t \in Txns : psp'[t].key # j
                    /\ pay'[j].st = "NONE" => \A t \in Txns : psp'[t].key = j =>
                         \E b \in Clerks : req'[b].at = "insertHold" /\ req'[b].key = j
                    /\ \A s, t \in Txns : psp'[s].key = j /\ psp'[t].key = j => s = t
  BY DEF HeldInv
<1>4. j \in Keys \ uncertain
  OBVIOUS
<1>5. \A b \in Clerks : Asks(b, j)' <=> Asks(b, j)
  BY <1>0, <1>2, <1>3 DEF Asks
<1>6. \A b, d \in Clerks : Asks(b, j)' /\ Asks(d, j)' => b = d
  BY <1>4, <1>5 DEF HeldInv
<1>7. j # k => \A t \in Txns : psp'[t].key = j <=> psp[t].key = j
  BY <1>2, PaymentsAssumption
<1>8. ASSUME j = k
      PROVE  /\ \A t \in Txns : psp'[t].key = k <=> t = u
             /\ \A b \in Clerks : b # c => ~ Asks(b, k)'
  <2>1. \A t \in Txns : psp[t].key # k
    BY <1>0, <1>2, <1>4, <1>8 DEF HeldInv
  <2>2. Asks(c, k)'
    BY <1>0, <1>3 DEF Asks
  <2> QED
    BY <1>2, <1>6, <1>8, <2>1, <2>2
<1>9. ASSUME NEW b \in Clerks, req'[b].at = "pspAuthorize", req'[b].key = j
      PROVE  \A t \in Txns : psp'[t].key # j
  <2>1. b # c /\ req'[b] = req[b]
    BY <1>3, <1>9
  <2>2. j # k
    BY <1>8, <1>9, <2>1 DEF Asks
  <2> QED
    BY <1>4, <1>7, <1>9, <2>1, <2>2 DEF HeldInv
<1>10. ASSUME pay'[j].st = "NONE", NEW t \in Txns, psp'[t].key = j
       PROVE  \E b \in Clerks : req'[b].at = "insertHold" /\ req'[b].key = j
  <2>1. CASE j = k
    BY <1>3, <2>1
  <2>2. CASE j # k
    <3>1. PICK b \in Clerks : req[b].at = "insertHold" /\ req[b].key = j
      BY <1>2, <1>4, <1>7, <1>10, <2>2 DEF HeldInv
    <3>2. b # c
      BY <1>2, <3>1
    <3> QED
      BY <1>3, <3>1, <3>2
  <2> QED
    BY <2>1, <2>2
<1>11. \A s, t \in Txns : psp'[s].key = j /\ psp'[t].key = j => s = t
  BY <1>4, <1>7, <1>8 DEF HeldInv
<1> QED
  BY <1>6, <1>9, <1>10, <1>11

(* The PSP's transactions keep their keys while it captures, voids, refunds. *)
LEMMA EffectKeeps ==
  ASSUME PaymentsInv, NEW c \in Clerks, AtPsp(c), PspEffect(req[c])
  PROVE  \A t \in Txns : psp'[t].key = psp[t].key
<1> DEFINE t == req[c].txn
<1>1. psp \in [Txns -> PspTxns] /\ t \in Txns
  BY DEF PaymentsInv, TypeOK, RequestInv, AtPsp
<1>2. PspCaptures(t, req[c].amount) \/ PspVoids(t) \/ PspRefunds(t, req[c].amount)
  BY DEF AtPsp, PspEffect
<1> HIDE DEF t
<1> QED
  BY <1>1, <1>2 DEF PspCaptures, PspVoids, PspRefunds, PspTxns

(* A step after which the request of clerk c asks for nothing.             *)
AsksNoMore(c) ==
  \E q : req' = [req EXCEPT ![c] = q] /\ q.at \notin {"pspAuthorize", "insertHold"}

LEMMA NoMore ==
  ASSUME PaymentsInv, NEW c \in Clerks,
         \/ Answer(c) \/ Received(c)
         \/ \E check : GoPost(c, check)
         \/ \E stage : Resume(c, stage) /\ stage \notin {"pspAuthorize", "insertHold"}
  PROVE  AsksNoMore(c)
<1>1. Idle.at = "idle"
  BY DEF Idle
<1>2. req[c] \in Requests /\ req \in [Clerks -> Requests]
  BY DEF PaymentsInv, TypeOK
<1>3. ASSUME NEW q, req' = [req EXCEPT ![c] = q], q.at \notin {"pspAuthorize", "insertHold"}
      PROVE  AsksNoMore(c)
  BY <1>3 DEF AsksNoMore
<1>4. CASE Answer(c)
  BY <1>1, <1>3, <1>4 DEF Answer
<1>5. CASE Received(c)
  <2>1. [req[c] EXCEPT !.at = "mirror", !.answer = opera'].at = "mirror"
    BY <1>2 DEF Requests
  <2> QED
    BY <1>2, <1>3, <1>5, <2>1 DEF Received
<1>6. ASSUME NEW check, GoPost(c, check) PROVE AsksNoMore(c)
  <2>1. [req[c] EXCEPT !.at = "post", !.check = check].at = "post"
    BY <1>2 DEF Requests
  <2> QED
    BY <1>2, <1>3, <1>6, <2>1 DEF GoPost
<1>7. ASSUME NEW stage, Resume(c, stage), stage \notin {"pspAuthorize", "insertHold"}
      PROVE  AsksNoMore(c)
  <2>1. [req[c] EXCEPT !.at = stage].at = stage
    BY <1>2 DEF Requests
  <2> QED
    BY <1>2, <1>3, <1>7, <2>1 DEF Resume
<1> QED
  BY <1>4, <1>5, <1>6, <1>7

LEMMA ResumesAskNoMore ==
  ASSUME PaymentsInv, NEW c \in Clerks, Resumes(c), ~ PspApproves(c)
  PROVE  AsksNoMore(c)
<1>1. AtPsp(c) => AfterPsp(req[c]) \notin {"pspAuthorize", "insertHold"}
  BY DEF AtPsp, AfterPsp
<1>2. CASE InsertCash(c) \/ InsertHold(c) \/ InsertFailed(c)
  BY <1>2, NoMore DEF InsertCash, InsertHold, InsertFailed
<1>3. CASE WriteCapture(c) \/ WriteVoid(c) \/ WriteRefund(c)
  BY <1>3, NoMore DEF WriteCapture, WriteVoid, WriteRefund
<1>4. CASE PspDeclines(c) \/ PspDone(c) \/ PspRefuses(c)
  BY <1>1, <1>4, NoMore DEF PspDeclines, PspDone, PspRefuses
<1>5. CASE CorePosts(c) \/ CoreKnows(c) \/ CoreRefuses(c) \/ Mirror(c)
  BY <1>5, NoMore DEF CorePosts, CoreKnows, CoreRefuses, Mirror
<1> QED
  BY <1>2, <1>3, <1>4, <1>5 DEF Resumes

(* A row that is there stays there, and a hold that is answered gets one.  *)
LEMMA RowsStay ==
  ASSUME PaymentsInv, NEW c \in Clerks, Resumes(c)
  PROVE  /\ \A k \in Keys : pay'[k].st = "NONE" => pay[k].st = "NONE"
         /\ req[c].at = "insertHold" => pay'[req[c].key].st # "NONE"
<1> DEFINE r == req[c]
<1>1. pay \in [Keys -> Rows] /\ (r.at # "idle" => r.key \in Keys)
  BY DEF PaymentsInv, TypeOK, RequestInv
<1>2. CASE UNCHANGED pay /\ r.at # "insertHold"
  BY <1>2
<1>3. ASSUME NEW row, InsertRow(r.key, row), row.st # "NONE", r.at # "idle"
      PROVE  /\ \A k \in Keys : pay'[k].st = "NONE" => pay[k].st = "NONE"
             /\ pay'[r.key].st # "NONE"
  <2> HIDE DEF r
  <2> QED
    BY <1>1, <1>3 DEF InsertRow
<1>4. CASE InsertCash(c) \/ InsertHold(c) \/ InsertFailed(c)
  <2>1. CashRow(r).st # "NONE" /\ HoldRow(r).st # "NONE" /\ FailedRow(r).st # "NONE"
    BY DEF CashRow, HoldRow, FailedRow, NoRow
  <2>2. r.at # "idle"
    BY <1>4 DEF InsertCash, InsertHold, InsertFailed, At
  <2>3. \E row : InsertRow(r.key, row) /\ row.st # "NONE"
    BY <1>4, <2>1 DEF InsertCash, InsertHold, InsertFailed
  <2> QED
    BY <1>3, <2>2, <2>3
<1>5. CASE WriteCapture(c) \/ WriteVoid(c) \/ WriteRefund(c)
  <2>1. r.at # "idle" /\ r.at # "insertHold"
    BY <1>5 DEF WriteCapture, WriteVoid, WriteRefund, At
  <2>2. pay[r.key] \in Rows /\ r.key \in Keys
    BY <1>1, <2>1
  <2>3. /\ CapturedRow(pay[r.key], r).st # "NONE" /\ VoidedRow(pay[r.key]).st # "NONE"
        /\ RefundedRow(pay[r.key], r).st # "NONE"
    BY <2>2 DEF CapturedRow, VoidedRow, RefundedRow, Rows
  <2>4. PICK row : pay' = [pay EXCEPT ![r.key] = row] /\ row.st # "NONE"
    BY <1>5, <2>3 DEF WriteCapture, WriteVoid, WriteRefund
  <2> HIDE DEF r
  <2> QED
    BY <1>1, <2>1, <2>2, <2>4 DEF r
<1> QED
  BY <1>2, <1>4, <1>5 DEF Resumes, PspApproves, PspDeclines, PspDone, PspRefuses, AtPsp, CorePosts,
     CoreKnows, CoreRefuses, Mirror, At

(* What a step of a request that holds nothing leaves of it.               *)
LEMMA ResumesHeld ==
  ASSUME PaymentsInv, HeldInv, NEW c \in Clerks, Resumes(c), ~ PspApproves(c),
         uncertain \subseteq uncertain'
  PROVE  HeldInv'
<1>1. \A t \in Txns : psp'[t].key = psp[t].key
  BY EffectKeeps DEF Resumes, InsertCash, InsertHold, InsertFailed, WriteCapture, WriteVoid,
     WriteRefund, PspDeclines, PspDone, PspRefuses, CorePosts, CoreKnows, CoreRefuses, Mirror
<1>2. PICK q : req' = [req EXCEPT ![c] = q] /\ q.at \notin {"pspAuthorize", "insertHold"}
  BY ResumesAskNoMore DEF AsksNoMore
<1>3. \A k \in Keys \ uncertain' :
        /\ \A t \in Txns : psp'[t].key = k <=> psp[t].key = k
        /\ pay'[k].st = "NONE" => pay[k].st = "NONE"
        /\ q.at \in {"pspAuthorize", "insertHold"} => q = req[c]
        /\ req[c].at = "insertHold" /\ req[c].key = k => q = req[c] \/ pay'[k].st # "NONE"
  BY <1>1, <1>2, RowsStay
<1>4. req' = [req EXCEPT ![c] = q]
  BY <1>2
<1> QED
  BY <1>3, <1>4, NothingHeld

(* A failure while a request asks makes its key uncertain.                 *)
LEMMA FailsHeld ==
  ASSUME PaymentsInv, HeldInv, NEW c \in Clerks, Fails(c),
         uncertain' = uncertain \cup Unheard(c)
  PROVE  HeldInv'
<1> DEFINE r == req[c]
<1>1. Idle.at \notin {"pspAuthorize", "insertHold"} /\ req' = [req EXCEPT ![c] = Idle] /\ pay' = pay
  BY DEF Fails, PspSilent, CoreSilent, Dies, Answer, Idle
<1>2. \A k \in Keys \ uncertain' : r.at \in {"pspAuthorize", "insertHold"} => r.key # k
  BY DEF Unheard, Asks
<1>3. ASSUME NEW k \in Keys \ uncertain', NEW t \in Txns PROVE psp'[t].key = k <=> psp[t].key = k
  <2>1. CASE UNCHANGED psp
    BY <2>1
  <2>2. CASE AtPsp(c) /\ PspEffect(r)
    BY <2>2, EffectKeeps
  <2>3. ASSUME r.at = "pspAuthorize", NEW u \in Unused, Hold(u, r.key, r.amount)
        PROVE  psp'[t].key = k <=> psp[t].key = k
    <3>1. u \in Txns /\ psp[u].key = NoKey /\ psp'[u].key = r.key /\ (t # u => psp'[t] = psp[t])
      BY <2>3 DEF Hold, Unused, PaymentsInv, TypeOK, TxnsInv
    <3> QED
      BY <1>2, <2>3, <3>1, PaymentsAssumption
  <2> QED
    BY <2>1, <2>2, <2>3 DEF Fails, PspSilent, CoreSilent, Dies, At
<1> DEFINE q == Idle
<1>4. \A k \in Keys \ uncertain' :
        /\ \A t \in Txns : psp'[t].key = k <=> psp[t].key = k
        /\ pay'[k].st = "NONE" => pay[k].st = "NONE"
        /\ q.at \in {"pspAuthorize", "insertHold"} => q = req[c]
        /\ req[c].at = "insertHold" /\ req[c].key = k => q = req[c] \/ pay'[k].st # "NONE"
  BY <1>1, <1>2, <1>3
<1>5. req' = [req EXCEPT ![c] = q] /\ uncertain \subseteq uncertain'
  BY <1>1
<1> HIDE DEF q
<1> QED
  BY <1>4, <1>5, NothingHeld

LEMMA NextHeld ==
  ASSUME PaymentsInv, HeldInv, [HNext]_hvars
  PROVE  HeldInv'
<1>1. CASE UNCHANGED hvars
  BY <1>1 DEF hvars, vars, HeldInv, Asks
<1>2. ASSUME NEW c \in Clerks, Works(c) PROVE HeldInv'
  <2>1. uncertain' = uncertain \cup AskedTwice' /\ uncertain \subseteq uncertain'
    BY <1>2 DEF Works
  <2>2. CASE Resumes(c)
    BY <2>1, <2>2, ResumesHeld, ApprovesHeld
  <2>3. ASSUME NEW k \in Keys, NEW a \in Amounts, StartCard(c, k, a) PROVE HeldInv'
    BY <2>1, <2>3, StartCardHeld
  <2>4. ASSUME NEW k, NEW a, NEW t, NEW base,
               NEW stage \in Stages \ {"pspAuthorize", "insertHold"}, Begin(c, stage, k, a, t, base),
               UNCHANGED <<pay, psp>>
        PROVE  HeldInv'
    <3> DEFINE q == [Idle EXCEPT !.at = stage, !.key = k, !.amount = a, !.txn = t, !.base = base]
    <3>1. q.at = stage /\ req' = [req EXCEPT ![c] = q] /\ req[c].at = "idle"
      BY <2>4 DEF Begin, Idle, At
    <3> HIDE DEF q
    <3> QED
      BY <2>1, <2>4, <3>1, NothingHeld
  <2>5. ASSUME Starts(c), \A k \in Keys, a \in Amounts : ~ StartCard(c, k, a) PROVE HeldInv'
    <3>1. /\ \E stage \in Stages \ {"pspAuthorize", "insertHold"} : \E k, a, t, base : Begin(c, stage, k, a, t, base)
          /\ UNCHANGED <<pay, psp>>
      BY <2>5 DEF Starts, StartCash, StartCapture, StartRefund, StartVoid, RefundStage, Stages
    <3> QED
      BY <2>4, <3>1
  <2> QED
    BY <1>2, <2>2, <2>3, <2>5 DEF Works
<1>3. ASSUME NEW c \in Clerks, Disturbed(c) PROVE HeldInv'
  <2>1. CASE Fails(c) /\ uncertain' = uncertain \cup Unheard(c)
    BY <2>1, FailsHeld
  <2>2. CASE (CloseAtOpera \/ CloseLocally) /\ UNCHANGED uncertain
    BY <2>2 DEF CloseAtOpera, CloseLocally, HeldInv, Asks
  <2> QED
    BY <1>3, <2>1, <2>2 DEF Disturbed
<1> QED
  BY <1>1, <1>2, <1>3 DEF HNext

(* The guest's money is held once for a key, whatever overlaps, fails or   *)
(* is sent again, unless two requests asked the PSP for that key at once   *)
(* or one that asked ended without an answer or a row: a PSP that looks at *)
(* no key is asked again only by a key that has no row (authorize).        *)
THEOREM HeldOnce == HSpec => []GuestHeldOnce
<1>1. HInit => HeldInv
  BY PaymentsAssumption DEF HInit, Init, HeldInv, Asks, UnusedTxn, Idle
<1>2. PaymentsInv /\ HeldInv /\ [HNext]_hvars => HeldInv'
  BY NextHeld
<1>3. HeldInv => GuestHeldOnce
  BY DEF HeldInv, GuestHeldOnce
<1> QED
  BY <1>1, <1>2, <1>3, HistoryInvariant, PTL DEF HSpec

-----------------------------------------------------------------------------
(* While nothing overlaps.                                                 *)

(* What the only request at work, q, leaves of the agreement between our   *)
(* rows and the PSP: only what it was just told is not written yet.        *)
Books(q, rows, txns) ==
  /\ \A t \in Txns : txns[t].st # "captured" => txns[t].returned = 0
  /\ \A t \in Txns : txns[t].st = "captured" =>
       rows[txns[t].key].st \in Settled \/ (q.at = "writeCapture" /\ q.txn = t)
  /\ \A k \in Keys : rows[k].txn # NoTxn =>
       txns[rows[k].txn].returned =
         IF q.at = "writeRefund" /\ q.key = k THEN rows[k].refunded + q.amount
         ELSE rows[k].refunded
  /\ q.at \in {"pspRefund", "writeRefund"} =>
       q.base = rows[q.key].refunded /\ q.txn = rows[q.key].txn

(* And of the agreement between our rows and the folio: only the payment   *)
(* it is about to post, or to copy, is not there yet.                      *)
OnFolio(q, rows, op, copy, links) ==
  /\ op.open
  /\ \A k \in Keys : rows[k].st \in Settled =>
       \/ /\ \E p \in op.postings : p.check = PaymentCheck(k)
          /\ PaymentCheck(k) \in links \/ (q.at = "mirror" /\ q.check = PaymentCheck(k))
       \/ q.at = "post" /\ q.check = PaymentCheck(k)
  /\ q.at = "mirror" => q.answer = op
  /\ q.at # "mirror" => copy.postings = op.postings
  /\ q.at = "post" /\ q.check.kind = "payment" => \A p \in op.postings : p.check # q.check

CalmInv == calm =>
  /\ Quiet => Books(Idle, pay, psp) /\ OnFolio(Idle, pay, opera, local, linked)
  /\ \A c \in Clerks : ~ At(c, "idle") =>
       /\ \A d \in Clerks : d # c => At(d, "idle")
       /\ Books(req[c], pay, psp) /\ OnFolio(req[c], pay, opera, local, linked)

(* A request that is over leaves nothing open.                             *)
LEMMA BooksClose ==
  ASSUME NEW q, q.at = "idle", NEW rows, NEW txns, Books(q, rows, txns)
  PROVE  Books(Idle, rows, txns)
<1>1. Idle.at = "idle"
  BY DEF Idle
<1> QED
  BY <1>1 DEF Books

LEMMA FolioCloses ==
  ASSUME NEW q, q.at = "idle", NEW rows, NEW op, NEW copy, NEW links,
         OnFolio(q, rows, op, copy, links)
  PROVE  OnFolio(Idle, rows, op, copy, links)
<1>1. Idle.at = "idle"
  BY DEF Idle
<1> QED
  BY <1>1 DEF OnFolio

(* The invariant after a step of the only request at work.                 *)
LEMMA CalmStep ==
  ASSUME PaymentsInv, NEW c \in Clerks, NEW q \in Requests,
         \A d \in Clerks : d # c => At(d, "idle"),
         req' = [req EXCEPT ![c] = q],
         Books(q, pay', psp'), OnFolio(q, pay', opera', local', linked')
  PROVE  CalmInv'
<1>1. req \in [Clerks -> Requests]
  BY DEF PaymentsInv, TypeOK
<1>2. req'[c] = q /\ \A d \in Clerks : d # c => req'[d].at = "idle"
  BY <1>1 DEF At
<1>3. ASSUME q.at = "idle" PROVE Books(Idle, pay', psp') /\ OnFolio(Idle, pay', opera', local', linked')
  BY <1>3, BooksClose, FolioCloses
<1>4. \A b \in Clerks : req'[b].at # "idle" => b = c
  BY <1>2
<1>5. ASSUME NEW b \in Clerks, req'[b].at # "idle"
      PROVE  Books(req'[b], pay', psp') /\ OnFolio(req'[b], pay', opera', local', linked')
  BY <1>2, <1>4, <1>5
<1>6. (Quiet => Books(Idle, pay, psp) /\ OnFolio(Idle, pay, opera, local, linked))'
  BY <1>2, <1>3 DEF Quiet, At
<1>7. \A b \in Clerks : req'[b].at # "idle" =>
        /\ \A d \in Clerks : d # b => req'[d].at = "idle"
        /\ Books(req'[b], pay', psp') /\ OnFolio(req'[b], pay', opera', local', linked')
  BY <1>2, <1>4, <1>5
<1> QED
  BY <1>6, <1>7 DEF CalmInv, At

(* What the request at work finds.                                         *)
LEMMA AtWork ==
  ASSUME PaymentsInv, CalmInv, calm, NEW c \in Clerks, ~ At(c, "idle")
  PROVE  /\ Books(req[c], pay, psp) /\ OnFolio(req[c], pay, opera, local, linked)
         /\ \A d \in Clerks : d # c => At(d, "idle")
         /\ RequestInv(c) /\ req[c] \in Requests /\ req[c].key \in Keys
         /\ pay \in [Keys -> Rows] /\ psp \in [Txns -> PspTxns]
         /\ opera \in Folios(Postings) /\ local \in Folios(Postings)
BY DEF CalmInv, PaymentsInv, TypeOK, RequestInv, At

(* A request that begins while another is at work disturbs the calm.       *)
LEMMA Pair == ASSUME NEW x, NEW y, x # y PROVE Cardinality({x, y}) = 2
<1>1. IsFiniteSet({x}) /\ Cardinality({x}) = 1
  BY FS_Singleton
<1>2. Cardinality({x} \cup {y}) = 2
  BY <1>1, FS_AddElement
<1>3. {x} \cup {y} = {x, y}
  OBVIOUS
<1> QED
  BY <1>2, <1>3

LEMMA BeginsAlone ==
  ASSUME PaymentsInv, CalmInv, calm, NEW c \in Clerks, NEW q \in Requests,
         At(c, "idle"), q.at # "idle", req' = [req EXCEPT ![c] = q],
         Cardinality(InFlight') <= 1
  PROVE  /\ \A d \in Clerks : At(d, "idle")
         /\ Books(Idle, pay, psp) /\ OnFolio(Idle, pay, opera, local, linked)
<1>1. \A d \in Clerks : At(d, "idle")
  <2> SUFFICES ASSUME NEW d \in Clerks, ~ At(d, "idle") PROVE FALSE
    OBVIOUS
  <2>1. d # c /\ \A b \in Clerks : b # d => At(b, "idle")
    BY DEF CalmInv
  <2>2. req \in [Clerks -> Requests]
    BY DEF PaymentsInv, TypeOK
  <2>3. InFlight' = {c, d}
    BY <2>1, <2>2 DEF InFlight, At
  <2>4. Cardinality({c, d}) = 2
    BY <2>1, Pair
  <2>5. Cardinality(InFlight') = 2
    BY <2>3, <2>4
  <2> QED
    BY <2>5
<1> QED
  BY <1>1 DEF CalmInv, Quiet

(* A request that ends without writing anything leaves what it found.      *)
LEMMA NothingWritten ==
  ASSUME PaymentsInv, CalmInv, calm, NEW c \in Clerks, ~ At(c, "idle"), NEW q \in Requests,
         req' = [req EXCEPT ![c] = q],
         req[c].at \notin {"writeCapture", "writeRefund", "post", "mirror"},
         q.at \notin {"writeCapture", "writeRefund", "pspRefund", "post", "mirror"},
         UNCHANGED <<pay, psp, opera, local, linked>>
  PROVE  CalmInv'
<1>1. /\ Books(req[c], pay, psp) /\ OnFolio(req[c], pay, opera, local, linked)
      /\ \A d \in Clerks : d # c => At(d, "idle")
  BY AtWork
<1>2. Books(q, pay', psp')
  BY <1>1 DEF Books
<1>3. OnFolio(q, pay', opera', local', linked')
  BY <1>1 DEF OnFolio
<1> QED
  BY <1>1, <1>2, <1>3, CalmStep

LEMMA StartsCalm ==
  ASSUME PaymentsInv, CalmInv, calm, NEW c \in Clerks, Starts(c), Cardinality(InFlight') <= 1
  PROVE  CalmInv'
<1> PICK k \in Keys : \/ \E a \in Amounts : \/ StartCash(c, k, a)
                                            \/ StartCard(c, k, a)
                                            \/ StartCapture(c, k, a)
                                            \/ StartRefund(c, k, a)
                      \/ StartVoid(c, k)
  BY DEF Starts
<1>0. /\ pay[k].refunded \in 0..MaxAmount /\ pay[k].txn \in Txns \cup {NoTxn}
      /\ 0 \in 0..MaxAmount /\ Amounts \subseteq 0..MaxAmount
      /\ UNCHANGED <<pay, psp, opera, local, linked>>
  BY PaymentsAssumption DEF PaymentsInv, TypeOK, Rows, Amounts,
     StartCash, StartCard, StartCapture, StartRefund, StartVoid
<1>1. ASSUME NEW stage \in {"insertCash", "pspAuthorize", "pspCapture", "pspVoid",
                            "pspRefund", "writeRefund"},
             NEW a \in 0..MaxAmount, NEW t \in Txns \cup {NoTxn}, NEW base \in 0..MaxAmount,
             Begin(c, stage, k, a, t, base),
             stage \in {"pspRefund", "writeRefund"} => t = pay[k].txn /\ base = pay[k].refunded,
             stage = "writeRefund" => t = NoTxn
      PROVE  CalmInv'
  <2> DEFINE q == [Idle EXCEPT !.at = stage, !.key = k, !.amount = a, !.txn = t, !.base = base]
  <2>1. /\ q \in Requests /\ q.at = stage /\ q.key = k /\ q.amount = a /\ q.txn = t /\ q.base = base
        /\ req' = [req EXCEPT ![c] = q] /\ At(c, "idle") /\ Idle.at = "idle"
    BY <1>1, IdleIsRequest DEF Begin, Idle, Requests, Stages
  <2> HIDE DEF q
  <2>2. /\ \A d \in Clerks : At(d, "idle")
        /\ Books(Idle, pay, psp) /\ OnFolio(Idle, pay, opera, local, linked)
    BY <2>1, BeginsAlone
  <2>3. Books(q, pay', psp')
    BY <1>0, <1>1, <2>1, <2>2 DEF Books
  <2>4. OnFolio(q, pay', opera', local', linked')
    BY <1>0, <2>1, <2>2 DEF OnFolio
  <2> QED
    BY <2>1, <2>2, <2>3, <2>4, CalmStep
<1>2. CASE \E a \in Amounts : StartCash(c, k, a) \/ StartCard(c, k, a) \/ StartCapture(c, k, a)
  BY <1>0, <1>1, <1>2 DEF StartCash, StartCard, StartCapture
<1>3. CASE \E a \in Amounts : StartRefund(c, k, a)
  BY <1>0, <1>1, <1>3 DEF StartRefund, RefundStage
<1>4. CASE StartVoid(c, k)
  BY <1>0, <1>1, <1>4 DEF StartVoid
<1> QED
  BY <1>2, <1>3, <1>4

-----------------------------------------------------------------------------
(* The only request at work writes its row.                                *)

(* A payment that is not settled is not on the folio.                      *)
LEMMA NotPostedYet ==
  ASSUME PaymentsInv, NEW k \in Keys, pay[k].st \notin Settled
  PROVE  \A p \in opera.postings : p.check # PaymentCheck(k)
BY DEF PaymentsInv, FolioCreditIsTaken, PaymentCheck

(* The rows authorize inserts.                                             *)
LEMMA NewRows ==
  ASSUME NEW r, r.amount \in 0..MaxAmount
  PROVE  /\ CashRow(r) \in Rows /\ CashRow(r).refunded = 0 /\ CashRow(r).txn = NoTxn
         /\ FailedRow(r) \in Rows /\ FailedRow(r).refunded = 0 /\ FailedRow(r).txn = NoTxn
         /\ FailedRow(r).st \notin Settled
<1>1. NoRow \in Rows /\ NoRow.refunded = 0 /\ NoRow.txn = NoTxn
  BY PaymentsAssumption DEF NoRow, Rows, Statuses, Settled
<1>2. CashRow(r) \in Rows /\ CashRow(r).refunded = 0 /\ CashRow(r).txn = NoTxn
  BY <1>1 DEF CashRow, Rows, Statuses, Settled
<1>3. /\ FailedRow(r) \in Rows /\ FailedRow(r).refunded = 0 /\ FailedRow(r).txn = NoTxn
      /\ FailedRow(r).st = "FAILED"
  BY <1>1 DEF FailedRow, Rows, Statuses
<1> QED
  BY <1>2, <1>3 DEF Settled

LEMMA InsertsCalm ==
  ASSUME PaymentsInv, CalmInv, calm, NEW c \in Clerks,
         InsertCash(c) \/ InsertHold(c) \/ InsertFailed(c)
  PROVE  CalmInv'
<1> DEFINE r == req[c]
           k == r.key
<1>1. /\ r.at \in {"insertCash", "insertHold", "insertFailed"} /\ ~ At(c, "idle")
      /\ UNCHANGED <<psp, opera, local, linked>>
  BY DEF InsertCash, InsertHold, InsertFailed, At
<1>2. /\ Books(r, pay, psp) /\ OnFolio(r, pay, opera, local, linked)
      /\ \A d \in Clerks : d # c => At(d, "idle")
      /\ RequestInv(c) /\ r \in Requests /\ k \in Keys
      /\ pay \in [Keys -> Rows] /\ psp \in [Txns -> PspTxns]
  BY <1>1, AtWork
<1>3. ASSUME Answer(c), UNCHANGED pay PROVE CalmInv'
  <2>1. Idle \in Requests /\ Idle.at = "idle" /\ req' = [req EXCEPT ![c] = Idle]
    BY <1>3, IdleIsRequest DEF Idle, Answer
  <2> QED
    BY <1>1, <1>3, <2>1, NothingWritten
<1>4. CASE pay[k].st # "NONE"
  BY <1>3, <1>4 DEF InsertCash, InsertHold, InsertFailed, InsertRow
<1>5. ASSUME pay[k].st = "NONE", NEW row \in Rows, NEW q \in Requests,
             pay' = [pay EXCEPT ![k] = row], req' = [req EXCEPT ![c] = q],
             row.refunded = 0,
             row.txn # NoTxn => r.at = "insertHold" /\ row.txn = r.txn,
             q.at \in {"idle", "post"},
             q.at = "idle" => row.st \notin Settled,
             q.at = "post" => q.check = PaymentCheck(k)
      PROVE  CalmInv'
  <2>1. /\ pay'[k] = row /\ \A j \in Keys : j # k => pay'[j] = pay[j]
        /\ pay[k].txn = NoTxn /\ pay[k].st \notin Settled
    BY <1>2, <1>5 DEF PaymentsInv, RowsInv, NoRow, Settled
  <2>2. row.txn # NoTxn => row.txn \in Txns /\ psp[row.txn].st # "captured"
    BY <1>1, <1>2, <1>5, <2>1, PaymentsAssumption DEF RequestInv, PaymentsInv, TxnsInv
  <2>3. \A t \in Txns : psp[t].st = "captured" => psp[t].key # k
    BY <1>2, <2>1, PaymentsAssumption DEF PaymentsInv, TxnsInv
  <2>4. Books(q, pay', psp')
    <3>1. \A t \in Txns : psp[t].st # "captured" => psp[t].returned = 0
      BY <1>2 DEF Books
    <3>2. ASSUME NEW t \in Txns, psp[t].st = "captured" PROVE pay'[psp[t].key].st \in Settled
      <4>1. psp[t].key \in Keys /\ psp[t].key # k
        BY <2>3, <3>2 DEF PaymentsInv, TxnsInv
      <4>2. pay[psp[t].key].st \in Settled
        BY <1>1, <1>2, <3>2 DEF Books
      <4> QED
        BY <2>1, <4>1, <4>2
    <3>3. ASSUME NEW j \in Keys, pay'[j].txn # NoTxn
          PROVE  psp[pay'[j].txn].returned = pay'[j].refunded
      <4>1. CASE j = k
        BY <1>5, <2>1, <2>2, <3>1, <3>3, <4>1
      <4>2. CASE j # k
        BY <1>1, <1>2, <2>1, <3>3, <4>2 DEF Books
      <4> QED
        BY <4>1, <4>2
    <3> QED
      BY <1>1, <1>5, <3>1, <3>2, <3>3 DEF Books
  <2>5. OnFolio(q, pay', opera', local', linked')
    <3>1. \A p \in opera.postings : p.check # PaymentCheck(k)
      BY <1>2, <2>1, NotPostedYet
    <3>2. /\ opera.open /\ local.postings = opera.postings
          /\ \A j \in Keys : pay[j].st \in Settled =>
               (\E p \in opera.postings : p.check = PaymentCheck(j)) /\ PaymentCheck(j) \in linked
      BY <1>1, <1>2 DEF OnFolio
    <3>3. \A j \in Keys : pay'[j].st \in Settled =>
               \/ (\E p \in opera.postings : p.check = PaymentCheck(j)) /\ PaymentCheck(j) \in linked
               \/ q.at = "post" /\ q.check = PaymentCheck(j)
      BY <1>5, <2>1, <3>2
    <3> QED
      BY <1>1, <1>5, <3>1, <3>2, <3>3 DEF OnFolio
  <2> HIDE DEF k, r
  <2> QED
    BY <1>2, <1>5, <2>4, <2>5, CalmStep
<1>6. CASE pay[k].st = "NONE" /\ InsertCash(c)
  <2>1. CashRow(r) \in Rows /\ CashRow(r).refunded = 0 /\ CashRow(r).txn = NoTxn
    BY <1>2, NewRows DEF Requests
  <2>2. PaymentCheck(k) \in Checks
    BY <1>2 DEF PaymentCheck, Checks
  <2>3. PICK q \in Requests :
          req' = [req EXCEPT ![c] = q] /\ q.at = "post" /\ q.check = PaymentCheck(k)
    BY <1>6, <2>2, GoPostType DEF InsertCash
  <2>4. pay' = [pay EXCEPT ![k] = CashRow(r)]
    BY <1>6 DEF InsertCash, InsertRow
  <2> HIDE DEF k, r
  <2> QED
    BY <1>5, <1>6, <2>1, <2>3, <2>4
<1>7. CASE pay[k].st = "NONE" /\ InsertHold(c)
  <2>1. /\ HoldRow(r) \in Rows /\ HoldRow(r).refunded = 0 /\ HoldRow(r).txn = r.txn
        /\ HoldRow(r).st \notin Settled /\ r.at = "insertHold"
    BY <1>2, <1>7, PaymentsAssumption DEF HoldRow, Rows, Statuses, Settled, Requests, InsertHold, At
  <2>2. req' = [req EXCEPT ![c] = Idle] /\ pay' = [pay EXCEPT ![k] = HoldRow(r)]
        /\ Idle \in Requests /\ Idle.at = "idle"
    BY <1>7, IdleIsRequest DEF InsertHold, InsertRow, Answer, Idle
  <2> HIDE DEF k, r
  <2> QED
    BY <1>5, <1>7, <2>1, <2>2
<1>8. CASE pay[k].st = "NONE" /\ InsertFailed(c)
  <2>1. /\ FailedRow(r) \in Rows /\ FailedRow(r).refunded = 0 /\ FailedRow(r).txn = NoTxn
        /\ FailedRow(r).st \notin Settled
    BY <1>2, NewRows DEF Requests
  <2>2. req' = [req EXCEPT ![c] = Idle] /\ pay' = [pay EXCEPT ![k] = FailedRow(r)]
        /\ Idle \in Requests /\ Idle.at = "idle"
    BY <1>8, IdleIsRequest DEF InsertFailed, InsertRow, Answer, Idle
  <2> HIDE DEF k, r
  <2> QED
    BY <1>5, <1>8, <2>1, <2>2
<1> QED
  BY <1>4, <1>6, <1>7, <1>8

(* A row written again keeps its transaction; what it settles is posted    *)
(* before, or is what the request posts next.                              *)
LEMMA RewriteCalm ==
  ASSUME PaymentsInv, CalmInv, calm, NEW c \in Clerks,
         req[c].at \in {"writeCapture", "writeVoid", "writeRefund"},
         NEW row, NEW q \in Requests,
         pay' = [pay EXCEPT ![req[c].key] = row], req' = [req EXCEPT ![c] = q],
         UNCHANGED <<psp, opera, local, linked>>,
         row.txn = pay[req[c].key].txn,
         row.refunded = IF req[c].at = "writeRefund"
                        THEN pay[req[c].key].refunded + req[c].amount
                        ELSE pay[req[c].key].refunded,
         req[c].at = "writeVoid" => q.at = "idle" /\ row.st = "VOIDED",
         req[c].at # "writeVoid" => q.at = "post" /\ row.st \in Settled,
         req[c].at = "writeCapture" => q.check = PaymentCheck(req[c].key),
         req[c].at = "writeRefund" => q.check.kind = "refund"
  PROVE  CalmInv'
<1> DEFINE r == req[c]
           k == r.key
<1>1. /\ Books(r, pay, psp) /\ OnFolio(r, pay, opera, local, linked)
      /\ \A d \in Clerks : d # c => At(d, "idle")
      /\ RequestInv(c) /\ r \in Requests /\ k \in Keys
      /\ pay \in [Keys -> Rows] /\ psp \in [Txns -> PspTxns]
  BY AtWork DEF At
<1>2. /\ pay'[k] = row /\ \A j \in Keys : j # k => pay'[j] = pay[j]
      /\ row.txn = pay[k].txn
  BY <1>1
<1>3. /\ r.at # "writeRefund" => pay[k].st = "AUTHORIZED" /\ pay[k].txn = r.txn
      /\ r.at = "writeRefund" => pay[k].st \in Settled
      /\ r.at = "writeVoid" => psp[r.txn].st = "voided"
  BY <1>1 DEF RequestInv
<1>4. Books(q, pay', psp')
  <2>1. \A t \in Txns : psp[t].st # "captured" => psp[t].returned = 0
    BY <1>1 DEF Books
  <2>2. ASSUME NEW t \in Txns, psp[t].st = "captured" PROVE pay'[psp[t].key].st \in Settled
    <3>1. psp[t].key \in Keys /\ pay[psp[t].key].txn = t
      BY <2>2 DEF PaymentsInv, TxnsInv
    <3>2. CASE psp[t].key = k
      <4>1. r.at # "writeVoid"
        BY <1>1, <1>3, <2>2, <3>1, <3>2
      <4> QED
        BY <1>2, <3>2, <4>1
    <3>3. CASE psp[t].key # k
      <4>1. pay[psp[t].key].st \in Settled \/ (r.at = "writeCapture" /\ r.txn = t)
        BY <1>1, <2>2 DEF Books
      <4>2. ~ (r.at = "writeCapture" /\ r.txn = t)
        <5> SUFFICES ASSUME r.at = "writeCapture", r.txn = t PROVE FALSE
          OBVIOUS
        <5>1. pay[k].txn = t /\ t # NoTxn
          BY <1>3, PaymentsAssumption
        <5>2. psp[t].key = k
          BY <1>1, <5>1 DEF PaymentsInv, LedgerAgreesWithPsp
        <5> QED
          BY <3>3, <5>2
      <4> QED
        BY <1>2, <3>1, <3>3, <4>1, <4>2
    <3> QED
      BY <3>2, <3>3
  <2>3. ASSUME NEW j \in Keys, pay'[j].txn # NoTxn
        PROVE  psp[pay'[j].txn].returned = pay'[j].refunded
    <3>1. CASE j = k
      BY <1>1, <1>2, <2>3, <3>1 DEF Books
    <3>2. CASE j # k
      BY <1>1, <1>2, <2>3, <3>2 DEF Books
    <3> QED
      BY <3>1, <3>2
  <2>4. q.at \notin {"pspRefund", "writeRefund", "writeCapture"}
    BY <1>1
  <2> QED
    BY <2>1, <2>2, <2>3, <2>4 DEF Books
<1>5. OnFolio(q, pay', opera', local', linked')
  <2>1. r.at = "writeCapture" => \A p \in opera.postings : p.check # PaymentCheck(k)
    BY <1>1, <1>3, NotPostedYet DEF Settled
  <2>2. /\ opera.open /\ local.postings = opera.postings
        /\ \A j \in Keys : pay[j].st \in Settled =>
             (\E p \in opera.postings : p.check = PaymentCheck(j)) /\ PaymentCheck(j) \in linked
    BY <1>1 DEF OnFolio
  <2>3. ASSUME NEW j \in Keys, pay'[j].st \in Settled
        PROVE  \/ (\E p \in opera.postings : p.check = PaymentCheck(j)) /\ PaymentCheck(j) \in linked
               \/ q.at = "post" /\ q.check = PaymentCheck(j)
    <3>1. CASE j # k
      BY <1>2, <2>2, <2>3, <3>1
    <3>2. CASE j = k /\ r.at = "writeCapture"
      BY <3>2
    <3>3. CASE j = k /\ r.at = "writeVoid"
      BY <1>2, <2>3, <3>3 DEF Settled
    <3>4. CASE j = k /\ r.at = "writeRefund"
      BY <1>3, <2>2, <3>4
    <3> QED
      BY <3>1, <3>2, <3>3, <3>4
  <2>4. /\ q.at # "mirror"
        /\ q.at = "post" /\ q.check.kind = "payment" => \A p \in opera.postings : p.check # q.check
    BY <2>1
  <2> QED
    BY <2>2, <2>3, <2>4 DEF OnFolio
<1> HIDE DEF k, r
<1> QED
  BY <1>1, <1>4, <1>5, CalmStep

LEMMA WritesCalm ==
  ASSUME PaymentsInv, CalmInv, calm, NEW c \in Clerks,
         WriteCapture(c) \/ WriteVoid(c) \/ WriteRefund(c)
  PROVE  CalmInv'
<1> DEFINE r == req[c]
           k == r.key
<1>1. /\ r.at \in {"writeCapture", "writeVoid", "writeRefund"}
      /\ UNCHANGED <<psp, opera, local, linked>>
  BY DEF WriteCapture, WriteVoid, WriteRefund, At
<1>2. /\ Books(r, pay, psp) /\ RequestInv(c) /\ r \in Requests /\ k \in Keys
      /\ pay \in [Keys -> Rows] /\ pay[k] \in Rows
      /\ r.amount \in 0..MaxAmount /\ pay[k].refunded \in 0..MaxAmount
  BY <1>1, AtWork DEF At, Requests, Rows
<1>3. CASE WriteCapture(c)
  <2> DEFINE row == CapturedRow(pay[k], r)
  <2>1. PaymentCheck(k) \in Checks /\ r.at = "writeCapture"
    BY <1>2, <1>3 DEF PaymentCheck, Checks, WriteCapture, At
  <2>2. PICK q \in Requests :
          req' = [req EXCEPT ![c] = q] /\ q.at = "post" /\ q.check = PaymentCheck(k)
    BY <1>3, <2>1, GoPostType DEF WriteCapture
  <2>3. pay' = [pay EXCEPT ![k] = row]
    BY <1>2, <1>3 DEF WriteCapture
  <2>4. row.txn = pay[k].txn /\ row.refunded = pay[k].refunded /\ row.st = "CAPTURED"
    BY <1>2 DEF CapturedRow, Rows
  <2> HIDE DEF row, r, k
  <2>5. row.st \in Settled
    BY <2>4 DEF Settled
  <2> QED
    BY <1>1, <2>1, <2>2, <2>3, <2>4, <2>5, RewriteCalm DEF r, k
<1>4. CASE WriteVoid(c)
  <2> DEFINE row == VoidedRow(pay[k])
  <2>1. r.at = "writeVoid" /\ req' = [req EXCEPT ![c] = Idle] /\ Idle.at = "idle"
    BY <1>4 DEF WriteVoid, At, Answer, Idle
  <2>2. pay' = [pay EXCEPT ![k] = row]
    BY <1>2, <1>4 DEF WriteVoid
  <2>3. row.txn = pay[k].txn /\ row.refunded = pay[k].refunded /\ row.st = "VOIDED"
    BY <1>2 DEF VoidedRow, Rows
  <2> HIDE DEF row, r, k
  <2> QED
    BY <1>1, <2>1, <2>2, <2>3, RewriteCalm, IdleIsRequest DEF r, k
<1>5. CASE WriteRefund(c)
  <2> DEFINE row == RefundedRow(pay[k], r)
             check == RefundCheck(k, r.base + r.amount)
  <2>1. r.at = "writeRefund" /\ r.base = pay[k].refunded
    BY <1>2, <1>5 DEF WriteRefund, At, Books
  <2>2. r.base + r.amount \in Nat
    BY <1>2, <2>1, PaymentsAssumption
  <2>3. check \in Checks /\ check.kind = "refund"
    BY <1>2, <2>2, RefundCheckType DEF RefundCheck
  <2>4. PICK q \in Requests :
          req' = [req EXCEPT ![c] = q] /\ q.at = "post" /\ q.check = check
    BY <1>5, <2>3, GoPostType DEF WriteRefund
  <2>5. pay' = [pay EXCEPT ![k] = row]
    BY <1>2, <1>5 DEF WriteRefund
  <2>6. /\ row.txn = pay[k].txn /\ row.refunded = r.base + r.amount /\ row.st = "REFUNDED"
    BY <1>2 DEF RefundedRow, Rows
  <2> HIDE DEF row, check, r, k
  <2>7. row.st \in Settled /\ row.refunded = pay[k].refunded + r.amount
    BY <2>1, <2>6 DEF Settled
  <2> QED
    BY <1>1, <2>1, <2>3, <2>4, <2>5, <2>6, <2>7, RewriteCalm DEF r, k
<1> QED
  BY <1>3, <1>4, <1>5

-----------------------------------------------------------------------------
(* The only request at work and the PSP.                                   *)

LEMMA HoldsCalm ==
  ASSUME PaymentsInv, CalmInv, calm, NEW c \in Clerks, PspApproves(c)
  PROVE  CalmInv'
<1> DEFINE r == req[c]
<1>1. /\ r.at = "pspAuthorize" /\ ~ At(c, "idle") /\ UNCHANGED <<pay, opera, local, linked>>
  BY DEF PspApproves, At
<1>2. /\ Books(r, pay, psp) /\ OnFolio(r, pay, opera, local, linked)
      /\ \A d \in Clerks : d # c => At(d, "idle")
      /\ r \in Requests /\ psp \in [Txns -> PspTxns] /\ pay \in [Keys -> Rows]
  BY <1>1, AtWork
<1>3. PICK t \in Unused :
        /\ Hold(t, r.key, r.amount)
        /\ req' = [req EXCEPT ![c] = [@ EXCEPT !.at = "insertHold", !.txn = t]]
  BY DEF PspApproves
<1> DEFINE q == [r EXCEPT !.at = "insertHold", !.txn = t]
<1>4. t \in Txns /\ psp[t].st = "unused"
  BY <1>3 DEF Unused
<1>5. q \in Requests /\ q.at = "insertHold" /\ req' = [req EXCEPT ![c] = q]
  BY <1>2, <1>3, <1>4 DEF Requests, Stages
<1> HIDE DEF q
<1>6. /\ \A u \in Txns : u # t => psp'[u] = psp[u]
      /\ psp'[t].st = "held" /\ psp'[t].returned = 0
  BY <1>2, <1>3, <1>4 DEF Hold
<1>7. \A k \in Keys : pay[k].txn # t
  BY <1>4, PaymentsAssumption DEF PaymentsInv, LedgerAgreesWithPsp, TxnsInv
<1>8. \A k \in Keys : pay[k].txn # NoTxn => pay[k].txn \in Txns
  BY <1>2 DEF Rows
<1>9. Books(q, pay', psp')
  <2>1. \A u \in Txns : psp'[u].st # "captured" => psp'[u].returned = 0
    BY <1>2, <1>6 DEF Books
  <2>2. \A u \in Txns : psp'[u].st = "captured" => pay'[psp'[u].key].st \in Settled
    BY <1>1, <1>2, <1>6 DEF Books
  <2>3. \A k \in Keys : pay'[k].txn # NoTxn => psp'[pay'[k].txn].returned = pay'[k].refunded
    BY <1>1, <1>2, <1>6, <1>7, <1>8 DEF Books
  <2> QED
    BY <1>5, <2>1, <2>2, <2>3 DEF Books
<1>10. OnFolio(q, pay', opera', local', linked')
  BY <1>1, <1>2, <1>5 DEF OnFolio
<1> HIDE DEF r
<1> QED
  BY <1>2, <1>5, <1>9, <1>10, CalmStep

LEMMA PspDoneCalm ==
  ASSUME PaymentsInv, CalmInv, calm, NEW c \in Clerks, PspDone(c)
  PROVE  CalmInv'
<1> DEFINE r == req[c]
           t == r.txn
           k == r.key
<1>1. /\ r.at \in {"pspCapture", "pspVoid", "pspRefund"} /\ ~ At(c, "idle")
      /\ UNCHANGED <<pay, opera, local, linked>>
      /\ PspEffect(r) /\ Resume(c, AfterPsp(r))
  BY DEF PspDone, AtPsp, At
<1>2. /\ Books(r, pay, psp) /\ OnFolio(r, pay, opera, local, linked)
      /\ \A d \in Clerks : d # c => At(d, "idle")
      /\ RequestInv(c) /\ r \in Requests /\ k \in Keys
      /\ psp \in [Txns -> PspTxns] /\ pay \in [Keys -> Rows]
  BY <1>1, AtWork
<1>3. /\ t \in Txns /\ psp[t] \in PspTxns
      /\ r.at \in {"pspCapture", "pspVoid"} => pay[k].txn = t
      /\ r.at = "pspRefund" => pay[k].st \in Settled /\ pay[k].txn = t /\ r.base = pay[k].refunded
  BY <1>1, <1>2 DEF RequestInv, Books
<1>4. pay[k].txn = t /\ psp[t].key = k /\ t # NoTxn
  BY <1>1, <1>2, <1>3, PaymentsAssumption DEF PaymentsInv, LedgerAgreesWithPsp
<1>5. /\ r.at = "pspCapture" => AfterPsp(r) = "writeCapture" /\ PspCaptures(t, r.amount)
      /\ r.at = "pspVoid" => AfterPsp(r) = "writeVoid" /\ PspVoids(t)
      /\ r.at = "pspRefund" => AfterPsp(r) = "writeRefund" /\ PspRefunds(t, r.amount)
  BY <1>1 DEF PspEffect, AfterPsp
<1>6. /\ \A u \in Txns : u # t => psp'[u] = psp[u]
      /\ psp'[t].key = psp[t].key
      /\ r.at = "pspCapture" =>
           psp[t].st = "held" /\ psp'[t].st = "captured" /\ psp'[t].returned = psp[t].returned
      /\ r.at = "pspVoid" => psp'[t].st = "voided" /\ psp'[t].returned = psp[t].returned
                               /\ psp[t].st = "held"
      /\ r.at = "pspRefund" =>
           psp[t].st = "captured" /\ psp'[t].st = "captured"
             /\ psp'[t].returned = psp[t].returned + r.amount
  BY <1>1, <1>2, <1>3, <1>5 DEF PspCaptures, PspVoids, PspRefunds, PspTxns
<1> DEFINE q == [r EXCEPT !.at = AfterPsp(r)]
<1>7. AfterPsp(r) \in {"writeCapture", "writeVoid", "writeRefund"}
  BY <1>1, <1>5
<1>8. /\ q \in Requests /\ q.at = AfterPsp(r) /\ q.key = k /\ q.txn = t /\ q.amount = r.amount
      /\ q.base = r.base /\ req' = [req EXCEPT ![c] = q]
  BY <1>1, <1>2, <1>7 DEF Requests, Stages, Resume
<1> HIDE DEF q
<1>9. Books(q, pay', psp')
  <2>0. \A u \in Txns : psp[u].st # "captured" => psp[u].returned = 0
    BY <1>2 DEF Books
  <2>1. ASSUME NEW u \in Txns, psp'[u].st # "captured" PROVE psp'[u].returned = 0
    BY <1>1, <1>6, <2>0, <2>1
  <2>2. ASSUME NEW u \in Txns, psp'[u].st = "captured"
        PROVE  pay'[psp'[u].key].st \in Settled \/ (q.at = "writeCapture" /\ q.txn = u)
    <3>1. \A v \in Txns : psp[v].st = "captured" => pay[psp[v].key].st \in Settled
      BY <1>1, <1>2 DEF Books
    <3>2. CASE u = t
      BY <1>1, <1>5, <1>6, <1>8, <2>2, <3>1, <3>2
    <3>3. CASE u # t
      BY <1>1, <1>6, <2>2, <3>1, <3>3
    <3> QED
      BY <3>2, <3>3
  <2>3. ASSUME NEW j \in Keys, pay'[j].txn # NoTxn
        PROVE  psp'[pay'[j].txn].returned =
                 IF q.at = "writeRefund" /\ q.key = j THEN pay'[j].refunded + q.amount
                 ELSE pay'[j].refunded
    <3>0. psp[pay[j].txn].returned = pay[j].refunded /\ pay[j].txn \in Txns
          /\ psp[pay[j].txn].key = j
      BY <1>1, <1>2, <2>3 DEF Books, Rows, PaymentsInv, LedgerAgreesWithPsp
    <3>1. CASE j = k
      BY <1>1, <1>4, <1>5, <1>6, <1>8, <3>0, <3>1
    <3>2. CASE j # k
      <4>1. pay[j].txn # t
        BY <1>4, <3>0, <3>2
      <4> QED
        BY <1>1, <1>6, <1>8, <3>0, <3>2, <4>1
    <3> QED
      BY <3>1, <3>2
  <2>4. q.at \in {"pspRefund", "writeRefund"} => r.at = "pspRefund"
    BY <1>1, <1>5, <1>8
  <2>5. q.at \in {"pspRefund", "writeRefund"} =>
          q.base = pay'[q.key].refunded /\ q.txn = pay'[q.key].txn
    BY <1>1, <1>3, <1>8, <2>4
  <2> QED
    BY <2>1, <2>2, <2>3, <2>5 DEF Books
<1>10. OnFolio(q, pay', opera', local', linked')
  BY <1>1, <1>2, <1>7, <1>8 DEF OnFolio
<1> HIDE DEF r, t, k
<1> QED
  BY <1>2, <1>8, <1>9, <1>10, CalmStep

LEMMA NoAnswerCalm ==
  ASSUME PaymentsInv, CalmInv, calm, NEW c \in Clerks, PspDeclines(c) \/ PspRefuses(c)
  PROVE  CalmInv'
<1>1. /\ req[c].at \in {"pspAuthorize", "pspCapture", "pspVoid", "pspRefund"} /\ ~ At(c, "idle")
      /\ UNCHANGED <<pay, psp, opera, local, linked>>
  BY DEF PspDeclines, PspRefuses, AtPsp, At
<1>2. req[c] \in Requests
  BY <1>1, AtWork
<1>3. CASE PspDeclines(c)
  <2> DEFINE q == [req[c] EXCEPT !.at = "insertFailed"]
  <2>1. q \in Requests /\ q.at = "insertFailed"
    BY <1>2 DEF Requests, Stages
  <2>2. req' = [req EXCEPT ![c] = q]
    BY <1>3 DEF PspDeclines, Resume
  <2> HIDE DEF q
  <2> QED
    BY <1>1, <2>1, <2>2, NothingWritten
<1>4. CASE PspRefuses(c)
  <2>1. req' = [req EXCEPT ![c] = Idle] /\ Idle.at = "idle"
    BY <1>4 DEF PspRefuses, Answer, Idle
  <2> QED
    BY <1>1, <2>1, NothingWritten, IdleIsRequest
<1> QED
  BY <1>3, <1>4

-----------------------------------------------------------------------------
(* The only request at work and OPERA.                                     *)

(* While a request posts or copies, the books are settled.                 *)
LEMMA BooksAtFolio ==
  ASSUME NEW r, r.at \in {"post", "mirror"}, Books(r, pay, psp),
         NEW q, q.at \in {"idle", "post", "mirror"},
         UNCHANGED <<pay, psp>>
  PROVE  Books(q, pay', psp')
BY DEF Books

LEMMA CoreCalm ==
  ASSUME PaymentsInv, CalmInv, calm, NEW c \in Clerks,
         CorePosts(c) \/ CoreKnows(c) \/ CoreRefuses(c)
  PROVE  CalmInv'
<1> DEFINE r == req[c]
           p == Posting(r)
<1>1. r.at = "post" /\ ~ At(c, "idle") /\ UNCHANGED <<pay, psp, local, linked>>
  BY DEF CorePosts, CoreKnows, CoreRefuses, At
<1>2. /\ Books(r, pay, psp) /\ OnFolio(r, pay, opera, local, linked)
      /\ \A d \in Clerks : d # c => At(d, "idle")
      /\ r \in Requests /\ RequestInv(c) /\ opera \in Folios(Postings)
  BY <1>1, AtWork
<1>3. /\ r.check \in Checks /\ r.amount \in Amounts /\ p.check = r.check /\ p \in Postings
  BY <1>1, <1>2 DEF RequestInv, Posting, Postings
<1>4. /\ opera.open /\ local.postings = opera.postings
      /\ r.check.kind = "payment" => \A s \in opera.postings : s.check # r.check
      /\ \A k \in Keys : pay[k].st \in Settled =>
           \/ (\E s \in opera.postings : s.check = PaymentCheck(k)) /\ PaymentCheck(k) \in linked
           \/ r.check = PaymentCheck(k)
  BY <1>1, <1>2 DEF OnFolio
<1>5. CASE CorePosts(c)
  <2> DEFINE q == [r EXCEPT !.at = "mirror", !.answer = opera']
  <2>1. /\ opera'.open /\ opera'.postings = opera.postings \cup {p}
        /\ opera' \in Folios(Postings)
    BY <1>2, <1>3, <1>4, <1>5 DEF CorePosts, OperaPosts, Folios
  <2>2. /\ q \in Requests /\ q.at = "mirror" /\ q.check = r.check /\ q.answer = opera'
        /\ req' = [req EXCEPT ![c] = q]
    BY <1>2, <1>5, <2>1 DEF Requests, Stages, CorePosts, Received
  <2> HIDE DEF q, p
  <2>3. Books(q, pay', psp')
    BY <1>1, <1>2, <2>2, BooksAtFolio
  <2>4. OnFolio(q, pay', opera', local', linked')
    BY <1>1, <1>3, <1>4, <2>1, <2>2 DEF OnFolio
  <2> HIDE DEF r
  <2> QED
    BY <1>2, <2>2, <2>3, <2>4, CalmStep
<1>6. ASSUME KnowsCheck(opera, p) PROVE r.check.kind = "refund"
  BY <1>3, <1>4, <1>6 DEF KnowsCheck, Checks
<1>7. ASSUME r.check.kind = "refund", NEW k \in Keys, pay[k].st \in Settled
      PROVE  (\E s \in opera.postings : s.check = PaymentCheck(k)) /\ PaymentCheck(k) \in linked
  BY <1>4, <1>7 DEF PaymentCheck
<1>8. CASE CoreKnows(c)
  <2> DEFINE q == [r EXCEPT !.at = "mirror", !.answer = opera']
  <2>1. opera' = opera
    BY <1>8 DEF CoreKnows
  <2>2. /\ q \in Requests /\ q.at = "mirror" /\ q.check = r.check /\ q.answer = opera'
        /\ req' = [req EXCEPT ![c] = q]
    BY <1>2, <1>8, <2>1 DEF Requests, Stages, CoreKnows, Received
  <2> HIDE DEF q, p
  <2>3. Books(q, pay', psp')
    BY <1>1, <1>2, <2>2, BooksAtFolio
  <2>4. r.check.kind = "refund"
    BY <1>6, <1>8 DEF CoreKnows, p
  <2>5. OnFolio(q, pay', opera', local', linked')
    BY <1>1, <1>4, <1>7, <2>1, <2>2, <2>4 DEF OnFolio
  <2> HIDE DEF r
  <2> QED
    BY <1>2, <2>2, <2>3, <2>5, CalmStep
<1>9. CASE CoreRefuses(c)
  <2>1. /\ req' = [req EXCEPT ![c] = Idle] /\ Idle.at = "idle" /\ Idle \in Requests
        /\ opera' = opera
    BY <1>9, IdleIsRequest DEF CoreRefuses, Answer, Idle
  <2>2. r.check.kind = "refund"
    BY <1>4, <1>6, <1>9 DEF CoreRefuses, OperaAccepts
  <2>3. Books(Idle, pay', psp')
    BY <1>1, <1>2, <2>1, BooksAtFolio
  <2>4. OnFolio(Idle, pay', opera', local', linked')
    BY <1>1, <1>4, <1>7, <2>1, <2>2 DEF OnFolio
  <2> HIDE DEF r, p
  <2> QED
    BY <1>2, <2>1, <2>3, <2>4, CalmStep
<1> QED
  BY <1>5, <1>8, <1>9

LEMMA MirrorCalm ==
  ASSUME PaymentsInv, CalmInv, calm, NEW c \in Clerks, Mirror(c)
  PROVE  CalmInv'
<1> DEFINE r == req[c]
<1>1. r.at = "mirror" /\ ~ At(c, "idle") /\ UNCHANGED <<pay, psp, opera>>
  BY DEF Mirror, At
<1>2. /\ Books(r, pay, psp) /\ OnFolio(r, pay, opera, local, linked)
      /\ \A d \in Clerks : d # c => At(d, "idle")
      /\ r \in Requests /\ opera \in Folios(Postings) /\ local \in Folios(Postings)
  BY <1>1, AtWork
<1>3. /\ opera.open /\ r.answer = opera
      /\ \A k \in Keys : pay[k].st \in Settled =>
           /\ \E s \in opera.postings : s.check = PaymentCheck(k)
           /\ PaymentCheck(k) \in linked \/ r.check = PaymentCheck(k)
  BY <1>1, <1>2 DEF OnFolio
<1>4. local'.postings = opera.postings
  BY <1>2, <1>3 DEF Mirror, MirrorFolio, Folios
<1>5. linked' = (linked \cap { s.check : s \in opera.postings })
                  \cup ({r.check} \cap { s.check : s \in opera.postings })
  BY <1>3 DEF Mirror, MirrorLinks, LinkOwn
<1>6. \A k \in Keys : pay[k].st \in Settled => PaymentCheck(k) \in linked'
  BY <1>3, <1>5
<1>7. /\ req' = [req EXCEPT ![c] = Idle] /\ Idle.at = "idle" /\ Idle \in Requests
  BY IdleIsRequest DEF Mirror, Answer, Idle
<1>8. Books(Idle, pay', psp')
  BY <1>1, <1>2, <1>7, BooksAtFolio
<1>9. OnFolio(Idle, pay', opera', local', linked')
  BY <1>1, <1>3, <1>4, <1>6, <1>7 DEF OnFolio
<1> HIDE DEF r
<1> QED
  BY <1>2, <1>7, <1>8, <1>9, CalmStep

LEMMA CalmNext ==
  ASSUME PaymentsInv, CalmInv, [HNext]_hvars
  PROVE  CalmInv'
<1>1. CASE UNCHANGED hvars
  BY <1>1 DEF hvars, vars, CalmInv, Quiet, At
<1>2. ASSUME NEW c \in Clerks, Disturbed(c) PROVE CalmInv'
  BY <1>2 DEF Disturbed, CalmInv
<1>3. ASSUME NEW c \in Clerks, Works(c) PROVE CalmInv'
  <2> SUFFICES ASSUME calm' PROVE CalmInv'
    BY DEF CalmInv
  <2>1. calm /\ Cardinality(InFlight') <= 1
    BY <1>3 DEF Works
  <2>2. CASE Starts(c)
    BY <2>1, <2>2, StartsCalm
  <2>3. CASE Resumes(c)
    BY <2>1, <2>3, InsertsCalm, WritesCalm, HoldsCalm, PspDoneCalm, NoAnswerCalm, CoreCalm,
       MirrorCalm DEF Resumes
  <2> QED
    BY <1>3, <2>2, <2>3 DEF Works
<1> QED
  BY <1>1, <1>2, <1>3 DEF HNext

LEMMA CalmInit == HInit => CalmInv
<1> SUFFICES ASSUME HInit PROVE CalmInv
  OBVIOUS
<1>1. /\ \A k \in Keys : pay[k] = NoRow
      /\ \A t \in Txns : psp[t] = UnusedTxn
      /\ opera = EmptyFolio /\ local = EmptyFolio
      /\ \A c \in Clerks : At(c, "idle")
      /\ Idle.at = "idle"
  BY DEF HInit, Init, At, Idle
<1>2. Books(Idle, pay, psp)
  BY <1>1 DEF Books, UnusedTxn, NoRow
<1>3. OnFolio(Idle, pay, opera, local, linked)
  BY <1>1 DEF OnFolio, EmptyFolio, NoRow, Settled
<1> QED
  BY <1>1, <1>2, <1>3 DEF CalmInv

LEMMA CalmInvariant == HSpec => []CalmInv
<1>1. PaymentsInv /\ CalmInv /\ [HNext]_hvars => CalmInv'
  BY CalmNext
<1> QED
  BY <1>1, CalmInit, HistoryInvariant, PTL DEF HSpec

(* While nothing overlaps or fails, and between requests, what the PSP     *)
(* captured is captured in our rows, what it paid back is the refunded     *)
(* total they record, and it paid back no more than it took (capture,      *)
(* refund).                                                                *)
THEOREM PaymentsFollowPspAlways == HSpec => []PaymentsFollowPsp
<1>1. PaymentsInv /\ CalmInv => PaymentsFollowPsp
  <2> SUFFICES ASSUME PaymentsInv, CalmInv, calm
               PROVE  CaptureIsRecorded /\ RefundIsRecorded /\ RefundsAtPspWithinTaken
    BY DEF PaymentsFollowPsp
  <2>1. PICK q \in Requests : Books(q, pay, psp) /\ (Quiet => q.at = "idle")
                                /\ (q.at = "writeRefund" =>
                                      q.key \in Keys /\ q.base + q.amount <= pay[q.key].amount)
    <3>1. CASE Quiet
      <4>1. Idle \in Requests /\ Idle.at = "idle"
        BY IdleIsRequest DEF Idle
      <4> QED
        BY <3>1, <4>1 DEF CalmInv
    <3>2. CASE ~ Quiet
      <4>1. PICK c \in Clerks : ~ At(c, "idle")
        BY <3>2 DEF Quiet
      <4> QED
        BY <3>2, <4>1, AtWork DEF RequestInv
    <3> QED
      BY <3>1, <3>2
  <2>2. CaptureIsRecorded
    <3> SUFFICES ASSUME Quiet, NEW t \in Txns, psp[t].st = "captured"
                 PROVE  pay[psp[t].key].st \in Settled /\ pay[psp[t].key].txn = t
      BY DEF CaptureIsRecorded
    <3> QED
      BY <2>1 DEF Books, PaymentsInv, TxnsInv
  <2>3. RefundIsRecorded
    BY <2>1 DEF RefundIsRecorded, Books
  <2>4. RefundsAtPspWithinTaken
    <3> SUFFICES ASSUME NEW t \in Txns PROVE psp[t].returned <= psp[t].taken
      BY DEF RefundsAtPspWithinTaken
    <3> DEFINE k == psp[t].key
    <3>1. psp[t].returned \in Nat /\ psp[t].taken \in Nat
      BY PaymentsAssumption DEF PaymentsInv, TypeOK, PspTxns
    <3>2. CASE psp[t].st # "captured"
      BY <2>1, <3>1, <3>2 DEF Books
    <3>3. CASE psp[t].st = "captured"
      <4>1. k \in Keys /\ pay[k].txn = t /\ t # NoTxn
        BY <3>3, PaymentsAssumption DEF PaymentsInv, TxnsInv
      <4>2. /\ pay[k].refunded <= pay[k].amount
            /\ pay[k].refunded \in 0..MaxAmount /\ pay[k].amount \in 0..MaxAmount
            /\ pay[k].st \notin Settled => pay[k].refunded = 0
            /\ pay[k].st \in Settled => psp[t].taken = pay[k].amount
        BY <4>1 DEF PaymentsInv, TypeOK, Rows, RowsInv, LedgerAgreesWithPsp
      <4>3. psp[t].returned = IF q.at = "writeRefund" /\ q.key = k
                              THEN pay[k].refunded + q.amount ELSE pay[k].refunded
        BY <2>1, <4>1 DEF Books
      <4>4. pay[k].st \in Settled \/ q.at = "writeCapture"
        BY <2>1, <3>3 DEF Books
      <4>5. q.at = "writeRefund" /\ q.key = k => pay[k].refunded + q.amount <= pay[k].amount
        BY <2>1 DEF Books
      <4> HIDE DEF k
      <4> QED
        BY <3>1, <4>2, <4>3, <4>4, <4>5, PaymentsAssumption
    <3> QED
      BY <3>2, <3>3
  <2> QED
    BY <2>2, <2>3, <2>4
<1> QED
  BY <1>1, HistoryInvariant, CalmInvariant, PTL

(* While nothing overlaps or fails, and between requests, every settled    *)
(* payment is on the folio and linked to its row, and our copy shows what  *)
(* OPERA has; whatever whole unit the refunds' check numbers round to      *)
(* (postToFolio, mirrorFolios).                                            *)
THEOREM SettledPaymentsAreOnFolio == HSpec => [](calm => SettledIsOnFolio /\ CopyFollowsOpera)
<1>1. CalmInv => (calm => SettledIsOnFolio /\ CopyFollowsOpera)
  <2>1. Idle.at = "idle"
    BY DEF Idle
  <2> QED
    BY <2>1 DEF CalmInv, OnFolio, SettledIsOnFolio, CopyFollowsOpera, Posted
<1> QED
  BY <1>1, CalmInvariant, PTL

-----------------------------------------------------------------------------
(* Sums over finite sets.  Total is the sum the refunds of a folio are     *)
(* taken with; induction is by a smallest counterexample.                  *)

Total(f, S) == MapThenSumSet(LAMBDA x : f[x], S)

(* A set of natural numbers has a least one.                               *)
LEMMA Least ==
  ASSUME NEW T, T \subseteq Nat, T # {}
  PROVE  \E n \in T : \A m \in T : n <= m
<1> DEFINE R == OpToRel(<, Nat)
<1>1. IsWellFoundedOn(R, Nat)
  BY NatLessThanWellFounded
<1> HIDE DEF R
<1>2. PICK n \in T : \A m \in T : ~ (<<m, n>> \in R)
  BY <1>1, WFMin
<1>3. \A m \in Nat : m < n => <<m, n>> \in R
  BY DEF R, OpToRel
<1>4. \A m \in T : ~ (m < n)
  BY <1>2, <1>3
<1>5. \A m \in T : n <= m
  BY <1>4
<1> QED
  BY <1>5

(* Some set among subsets of a finite one has no smaller among them.       *)
LEMMA LeastSet ==
  ASSUME NEW S, IsFiniteSet(S), NEW B, B \subseteq SUBSET S, B # {}
  PROVE  \E U \in B : \A x \in U : U \ {x} \notin B
<1> DEFINE T == { Cardinality(U) : U \in B }
<1>1. \A U \in B : IsFiniteSet(U) /\ Cardinality(U) \in Nat
  BY FS_Subset, FS_CardinalityType
<1>2. T \subseteq Nat /\ T # {}
  BY <1>1
<1>3. PICK n \in T : \A m \in T : n <= m
  <2> HIDE DEF T
  <2> QED
    BY <1>2, Least
<1>4. PICK U \in B : Cardinality(U) = n
  OBVIOUS
<1>5. ASSUME NEW x \in U, U \ {x} \in B PROVE FALSE
  <2>1. IsFiniteSet(U) /\ Cardinality(U) \in Nat /\ Cardinality(U \ {x}) \in Nat
    BY <1>1, <1>5
  <2>2. Cardinality(U \ {x}) = Cardinality(U) - 1
    BY <2>1, FS_RemoveElement
  <2>3. Cardinality(U \ {x}) \in T
    BY <1>5
  <2>4. n <= Cardinality(U \ {x})
    BY <1>3, <2>3
  <2> QED
    BY <1>4, <2>1, <2>2, <2>4
<1> QED
  BY <1>5

(* The recursive function under a sum, and that there is one.              *)
Pick1(t) == CHOOSE x \in t : TRUE
Step(f, s, t) == IF t = {} THEN 0 ELSE f[Pick1(t)] + s[t \ {Pick1(t)}]
Sums(f, S) == CHOOSE s : s = [t \in SUBSET S |-> Step(f, s, t)]

LEMMA PickIn == ASSUME NEW t, t # {} PROVE Pick1(t) \in t
BY DEF Pick1

LEMMA SumsExist ==
  ASSUME NEW f, NEW S, IsFiniteSet(S)
  PROVE  \E g : g = [t \in SUBSET S |-> Step(f, g, t)]
<1> DEFINE Dom(n) == { t \in SUBSET S : Cardinality(t) <= n }
           Good(n) == \E g : g = [t \in Dom(n) |-> Step(f, g, t)]
           T == { n \in Nat : ~ Good(n) }
<1>1. \A t \in SUBSET S : IsFiniteSet(t) /\ Cardinality(t) \in Nat /\ Cardinality(t) <= Cardinality(S)
  BY FS_Subset, FS_CardinalityType
<1>2. ASSUME NEW n \in Nat, n # 0, Good(n - 1) PROVE Good(n)
  <2>1. PICK g : g = [t \in Dom(n - 1) |-> Step(f, g, t)]
    BY <1>2
  <2> DEFINE h == [t \in Dom(n) |-> Step(f, g, t)]
  <2>2. ASSUME NEW t \in Dom(n) PROVE Step(f, h, t) = Step(f, g, t)
    <3>1. CASE t = {}
      BY <3>1 DEF Step
    <3>2. CASE t # {}
      <4> DEFINE u == t \ {Pick1(t)}
      <4>1. Pick1(t) \in t
        BY <3>2, PickIn
      <4>2. Cardinality(u) = Cardinality(t) - 1 /\ Cardinality(t) \in Nat /\ u \in SUBSET S
            /\ Cardinality(u) \in Nat /\ Cardinality(t) <= n
        BY <1>1, <4>1, FS_RemoveElement
      <4>3. Cardinality(u) <= n - 1 /\ Cardinality(u) <= n
        BY <4>2
      <4>4. u \in Dom(n - 1) /\ u \in Dom(n)
        BY <4>2, <4>3
      <4> HIDE DEF u, Dom
      <4>5. h[u] = g[u]
        BY <2>1, <4>4
      <4> QED
        BY <3>2, <4>5 DEF Step, u
    <3> QED
      BY <3>1, <3>2
  <2>3. h = [t \in Dom(n) |-> Step(f, h, t)]
    <3> HIDE DEF Dom
    <3> QED
      BY <2>2
  <2> HIDE DEF h
  <2> QED
    BY <2>3
<1>3. Good(0)
  <2> DEFINE g == [t \in Dom(0) |-> 0]
  <2>1. \A t \in Dom(0) : t = {}
    BY <1>1, FS_EmptySet
  <2>2. \A t \in Dom(0) : Step(f, g, t) = 0
    BY <2>1 DEF Step
  <2>3. g = [t \in Dom(0) |-> Step(f, g, t)]
    <3> HIDE DEF Dom
    <3> QED
      BY <2>2
  <2> HIDE DEF g
  <2> QED
    BY <2>3
<1> HIDE DEF Good
<1>4. T = {}
  <2> SUFFICES ASSUME T # {} PROVE FALSE
    OBVIOUS
  <2>1. PICK n \in T : \A m \in T : n <= m
    <3>1. T \subseteq Nat
      OBVIOUS
    <3> HIDE DEF T
    <3> QED
      BY <3>1, Least
  <2>2. n \in Nat /\ n # 0
    BY <1>3
  <2>3. n - 1 \in Nat /\ ~ (n <= n - 1)
    BY <2>2
  <2>4. n - 1 \notin T
    BY <2>1, <2>3
  <2>5. Good(n - 1)
    BY <2>3, <2>4
  <2> QED
    BY <1>2, <2>2, <2>5
<1>5. Cardinality(S) \in Nat
  BY <1>1
<1>6. Good(Cardinality(S))
  BY <1>4, <1>5
<1>7. Dom(Cardinality(S)) = SUBSET S
  BY <1>1
<1> HIDE DEF Dom
<1> QED
  BY <1>6, <1>7 DEF Good

LEMMA SumsAre ==
  ASSUME NEW f, NEW S, IsFiniteSet(S)
  PROVE  /\ \A t \in SUBSET S : Sums(f, S)[t] = Step(f, Sums(f, S), t)
         /\ Total(f, S) = Sums(f, S)[S]
<1>1. \A t \in SUBSET S : Sums(f, S)[t] = Step(f, Sums(f, S), t)
  <2> DEFINE a == Sums(f, S)
  <2>1. a = [t \in SUBSET S |-> Step(f, a, t)]
    BY SumsExist DEF Sums
  <2> HIDE DEF a
  <2>2. \A t \in SUBSET S : a[t] = Step(f, a, t)
    BY <2>1
  <2> QED
    BY <2>2 DEF a
<1>2. Total(f, S) = Sums(f, S)[S]
  BY DEF Total, MapThenSumSet, MapThenFoldSet, Sums, Step, Pick1
<1> QED
  BY <1>1, <1>2

(* The sum over a part of a set is the same on its own.                    *)
LEMMA SumsOfPart ==
  ASSUME NEW f, NEW S, IsFiniteSet(S), NEW U \in SUBSET S
  PROVE  Sums(f, S)[U] = Total(f, U)
<1>1. IsFiniteSet(U)
  BY FS_Subset
<1> DEFINE a == Sums(f, S)
           b == Sums(f, U)
           B == { t \in SUBSET U : a[t] # b[t] }
<1>2. /\ \A t \in SUBSET S : a[t] = Step(f, a, t)
      /\ \A t \in SUBSET U : b[t] = Step(f, b, t)
      /\ Total(f, U) = b[U]
  BY <1>1, SumsAre
<1> HIDE DEF a, b
<1>3. B = {}
  <2> SUFFICES ASSUME B # {} PROVE FALSE
    OBVIOUS
  <2>1. PICK t \in B : \A x \in t : t \ {x} \notin B
    <3>1. B \subseteq SUBSET U
      OBVIOUS
    <3> HIDE DEF B
    <3> QED
      BY <1>1, <3>1, LeastSet
  <2>2. t \in SUBSET U /\ t \in SUBSET S /\ a[t] # b[t]
    OBVIOUS
  <2>3. a[t] = Step(f, a, t) /\ b[t] = Step(f, b, t)
    BY <1>2, <2>2
  <2>4. t # {}
    BY <2>2, <2>3 DEF Step
  <2>5. Pick1(t) \in t
    BY <2>4, PickIn
  <2>6. a[t \ {Pick1(t)}] = b[t \ {Pick1(t)}]
    BY <2>1, <2>2, <2>5
  <2> QED
    BY <2>2, <2>3, <2>4, <2>6 DEF Step
<1> QED
  BY <1>2, <1>3 DEF a

LEMMA TotalOfNothing == \A f : Total(f, {}) = 0
<1> SUFFICES ASSUME NEW f PROVE Total(f, {}) = 0
  OBVIOUS
<1>1. IsFiniteSet({})
  BY FS_EmptySet
<1> QED
  BY <1>1, SumsAre DEF Step

LEMMA TotalPicks ==
  ASSUME NEW f, NEW S, IsFiniteSet(S), S # {}
  PROVE  Total(f, S) = f[Pick1(S)] + Total(f, S \ {Pick1(S)})
<1>1. Total(f, S) = Step(f, Sums(f, S), S)
  BY SumsAre
<1>2. Sums(f, S)[S \ {Pick1(S)}] = Total(f, S \ {Pick1(S)})
  BY SumsOfPart
<1> QED
  BY <1>1, <1>2 DEF Step

(* A sum of integers is one.                                               *)
LEMMA TotalType ==
  ASSUME NEW S, IsFiniteSet(S), NEW f, \A x \in S : f[x] \in Int
  PROVE  Total(f, S) \in Int
<1> DEFINE B == { U \in SUBSET S : Total(f, U) \notin Int }
<1>1. B = {}
  <2> SUFFICES ASSUME B # {} PROVE FALSE
    OBVIOUS
  <2>1. PICK U \in B : \A x \in U : U \ {x} \notin B
    <3>1. B \subseteq SUBSET S
      OBVIOUS
    <3> HIDE DEF B
    <3> QED
      BY <3>1, LeastSet
  <2>2. U \in SUBSET S /\ Total(f, U) \notin Int /\ IsFiniteSet(U)
    BY FS_Subset
  <2>3. U # {}
    BY <2>2, TotalOfNothing
  <2>4. Pick1(U) \in U
    BY <2>3, PickIn
  <2>5. Total(f, U \ {Pick1(U)}) \in Int
    BY <2>1, <2>2, <2>4
  <2>6. f[Pick1(U)] \in Int
    BY <2>2, <2>4
  <2> QED
    BY <2>2, <2>3, <2>5, <2>6, TotalPicks
<1> QED
  BY <1>1

(* Any element can be taken out first.                                     *)
LEMMA TotalTakes ==
  ASSUME NEW S, IsFiniteSet(S), NEW f, \A x \in S : f[x] \in Int, NEW x \in S
  PROVE  Total(f, S) = f[x] + Total(f, S \ {x})
<1> DEFINE Fine(U) == \A y \in U : Total(f, U) = f[y] + Total(f, U \ {y})
           B == { U \in SUBSET S : ~ Fine(U) }
<1>1. \A U \in SUBSET S : IsFiniteSet(U) /\ Total(f, U) \in Int
  <2> SUFFICES ASSUME NEW U \in SUBSET S PROVE IsFiniteSet(U) /\ Total(f, U) \in Int
    OBVIOUS
  <2>1. IsFiniteSet(U)
    BY FS_Subset
  <2> QED
    BY <2>1, TotalType
<1>2. B = {}
  <2> SUFFICES ASSUME B # {} PROVE FALSE
    OBVIOUS
  <2>1. PICK U \in B : \A y \in U : U \ {y} \notin B
    <3>1. B \subseteq SUBSET S
      OBVIOUS
    <3> HIDE DEF B
    <3> QED
      BY <3>1, LeastSet
  <2>2. U \in SUBSET S /\ \A y \in U : Fine(U \ {y})
    BY <2>1
  <2>3. PICK y \in U : Total(f, U) # f[y] + Total(f, U \ {y})
    BY <2>1
  <2> DEFINE c == Pick1(U)
             V == (U \ {y}) \ {c}
  <2>4. c \in U /\ Total(f, U) = f[c] + Total(f, U \ {c})
    BY <1>1, <2>2, <2>3, PickIn, TotalPicks
  <2>5. y # c
    BY <2>3, <2>4
  <2>6. Total(f, U \ {c}) = f[y] + Total(f, V)
    <3>1. y \in U \ {c} /\ (U \ {c}) \ {y} = V
      BY <2>3, <2>5
    <3> HIDE DEF c, V
    <3> QED
      BY <2>2, <2>4, <3>1
  <2>7. Total(f, U \ {y}) = f[c] + Total(f, V)
    <3>1. c \in U \ {y}
      BY <2>4, <2>5
    <3> HIDE DEF c
    <3> QED
      BY <2>2, <3>1
  <2>8. f[c] \in Int /\ f[y] \in Int /\ Total(f, V) \in Int
    BY <1>1, <2>2, <2>3, <2>4
  <2> HIDE DEF c, V
  <2> QED
    BY <2>3, <2>4, <2>6, <2>7, <2>8
<1> QED
  BY <1>2

-----------------------------------------------------------------------------
(* The refunds the folio shows.                                            *)

Refunds(op, k) == { p \in op : p.check.kind = "refund" /\ p.check.key = k }
RefundSum(f, op, k) == Total(f, Refunds(op, k))

(* What a posting shows, and the most it may stand for.                    *)
Face == [p \in Postings |-> p.amount]
Most == [p \in Postings |-> p.amount + Whole - 1]

LEMMA ValuesType ==
  ASSUME NEW p \in Postings
  PROVE  /\ Face[p] = p.amount /\ Most[p] = p.amount + Whole - 1
         /\ p.amount \in Int /\ Face[p] \in Int /\ Most[p] \in Int
BY PaymentsAssumption DEF Face, Most, Postings, Amounts

LEMMA FaceIs ==
  ASSUME NEW k, opera.postings \subseteq Postings
  PROVE  RefundsOnFolio(k) = RefundSum(Face, opera.postings, k)
<1> DEFINE S == Refunds(opera.postings, k)
           F(s) == [t \in SUBSET S |-> IF t = {} THEN 0
                      ELSE (CHOOSE x \in t : TRUE).amount + s[t \ {CHOOSE x \in t : TRUE}]]
           G(s) == [t \in SUBSET S |-> Step(Face, s, t)]
<1>1. RefundsOnFolio(k) = (CHOOSE s : s = F(s))[S]
  BY DEF RefundsOnFolio, RefundsOf, Refunds, MapThenSumSet, MapThenFoldSet
<1>2. Total(Face, S) = (CHOOSE s : s = G(s))[S]
  BY DEF Total, MapThenSumSet, MapThenFoldSet, Step, Pick1
<1>3. ASSUME NEW s PROVE F(s) = G(s)
  <2>1. ASSUME NEW t \in SUBSET S, t # {}
        PROVE  Face[Pick1(t)] = Pick1(t).amount
    BY <2>1, PickIn DEF Face, Refunds
  <2>2. \A t \in SUBSET S : F(s)[t] = G(s)[t]
    BY <2>1 DEF Step, Pick1
  <2> QED
    BY <2>2
<1> HIDE DEF F, G
<1>4. (CHOOSE s : s = F(s)) = (CHOOSE s : s = G(s))
  BY <1>3, Zenon
<1> QED
  BY <1>1, <1>2, <1>4 DEF RefundSum

LEMMA MostIs ==
  ASSUME NEW k, opera.postings \subseteq Postings
  PROVE  RefundsHeardOf(k) = RefundSum(Most, opera.postings, k)
<1> DEFINE S == Refunds(opera.postings, k)
           F(s) == [t \in SUBSET S |-> IF t = {} THEN 0
                      ELSE (CHOOSE x \in t : TRUE).amount + Whole - 1
                             + s[t \ {CHOOSE x \in t : TRUE}]]
           G(s) == [t \in SUBSET S |-> Step(Most, s, t)]
<1>1. RefundsHeardOf(k) = (CHOOSE s : s = F(s))[S]
  BY DEF RefundsHeardOf, RefundsOf, Refunds, MapThenSumSet, MapThenFoldSet
<1>2. Total(Most, S) = (CHOOSE s : s = G(s))[S]
  BY DEF Total, MapThenSumSet, MapThenFoldSet, Step, Pick1
<1>3. ASSUME NEW s PROVE F(s) = G(s)
  <2>1. ASSUME NEW t \in SUBSET S, t # {}
        PROVE  Most[Pick1(t)] = Pick1(t).amount + Whole - 1
    BY <2>1, PickIn DEF Most, Refunds
  <2>2. \A t \in SUBSET S : F(s)[t] = G(s)[t]
    BY <2>1 DEF Step, Pick1
  <2> QED
    BY <2>2
<1> HIDE DEF F, G
<1>4. (CHOOSE s : s = F(s)) = (CHOOSE s : s = G(s))
  BY <1>3, Zenon
<1> QED
  BY <1>1, <1>2, <1>4 DEF RefundSum

LEMMA SumsType ==
  ASSUME NEW op, op \subseteq Postings, IsFiniteSet(op), NEW k, NEW f \in {Face, Most}
  PROVE  /\ IsFiniteSet(Refunds(op, k)) /\ \A p \in Refunds(op, k) : f[p] \in Int
         /\ RefundSum(f, op, k) \in Int
<1>1. IsFiniteSet(Refunds(op, k))
  BY FS_Subset DEF Refunds
<1>2. \A p \in Refunds(op, k) : f[p] \in Int
  BY ValuesType DEF Refunds
<1> QED
  BY <1>1, <1>2, TotalType DEF RefundSum

(* A posting adds its amount to the refunds of its payment, if it is one.  *)
LEMMA RefundAdds ==
  ASSUME NEW op, op \subseteq Postings, IsFiniteSet(op), NEW p \in Postings, p \notin op, NEW k,
         NEW f \in {Face, Most}
  PROVE  RefundSum(f, op \cup {p}, k) =
           IF p.check.kind = "refund" /\ p.check.key = k
           THEN RefundSum(f, op, k) + f[p] ELSE RefundSum(f, op, k)
<1> DEFINE all == op \cup {p}
<1>1. IsFiniteSet(all) /\ all \subseteq Postings
  BY FS_AddElement
<1>2. CASE p.check.kind = "refund" /\ p.check.key = k
  <2>1. p \in Refunds(all, k) /\ Refunds(all, k) \ {p} = Refunds(op, k)
    BY <1>2 DEF Refunds
  <2>2. IsFiniteSet(Refunds(all, k)) /\ (\A q \in Refunds(all, k) : f[q] \in Int)
        /\ RefundSum(f, op, k) \in Int
    BY <1>1, SumsType
  <2> HIDE DEF all
  <2>3. Total(f, Refunds(all, k)) = f[p] + Total(f, Refunds(all, k) \ {p})
    BY <2>1, <2>2, TotalTakes
  <2>4. RefundSum(f, all, k) = f[p] + RefundSum(f, op, k)
    BY <2>1, <2>3 DEF RefundSum
  <2>5. f[p] \in Int
    BY ValuesType
  <2>6. RefundSum(f, all, k) = RefundSum(f, op, k) + f[p]
    BY <2>2, <2>4, <2>5
  <2> QED
    BY <1>2, <2>6 DEF all
<1>3. CASE ~ (p.check.kind = "refund" /\ p.check.key = k)
  <2>1. Refunds(all, k) = Refunds(op, k)
    BY <1>3 DEF Refunds
  <2> QED
    BY <1>3, <2>1 DEF RefundSum
<1> QED
  BY <1>2, <1>3

-----------------------------------------------------------------------------
(* The numbers of refunds.                                                 *)

LEMMA Quotient ==
  ASSUME NEW a \in Int, NEW n \in Int, n > 0
  PROVE  a \div n \in Int /\ n * (a \div n) <= a /\ a < n * (a \div n) + n
OBVIOUS

LEMMA QuotientsOrdered ==
  ASSUME NEW n \in Int, n > 0, NEW p \in Int, NEW q \in Int, NEW x \in Int, NEW y \in Int,
         x <= y, n * p <= x, y < n * q + n
  PROVE  p <= q
<1> SUFFICES ASSUME p >= q + 1 PROVE FALSE
  OBVIOUS
<1>1. n * p >= n * (q + 1)
  OBVIOUS
<1>2. n * (q + 1) = n * q + n
  OBVIOUS
<1> QED
  BY <1>1, <1>2

(* A larger total has no smaller number, and totals of one number lie less *)
(* than a whole unit apart.                                                *)
LEMMA RefundNos ==
  ASSUME NEW a \in Nat, NEW b \in Nat, a <= b
  PROVE  /\ RefundNo(a) \in Int /\ RefundNo(b) \in Int
         /\ RefundNo(a) <= RefundNo(b)
         /\ RefundNo(a) = RefundNo(b) => b <= a + Whole - 1
<1> DEFINE n == 2 * Whole
           x == 2 * a + Whole
           y == 2 * b + Whole
           p == x \div n
           q == y \div n
<1>1. /\ n \in Int /\ n > 0 /\ x \in Int /\ y \in Int /\ x <= y /\ Whole \in Int
      /\ y - x = 2 * (b - a) /\ n = 2 * Whole
  BY PaymentsAssumption
<1>2. RefundNo(a) = p /\ RefundNo(b) = q
  BY DEF RefundNo
<1> HIDE DEF n, x, y
<1>3. /\ p \in Int /\ n * p <= x /\ x < n * p + n
      /\ q \in Int /\ n * q <= y /\ y < n * q + n
  BY <1>1, Quotient
<1> HIDE DEF p, q
<1>4. p <= q
  BY <1>1, <1>3, QuotientsOrdered
<1>5. p = q => b <= a + Whole - 1
  <2> SUFFICES ASSUME p = q PROVE b <= a + Whole - 1
    OBVIOUS
  <2>1. n * p \in Int /\ n * p = n * q
    BY <1>1, <1>3
  <2>2. y - x < n
    BY <1>1, <1>3, <2>1
  <2> QED
    BY <1>1, <2>2
<1> QED
  BY <1>2, <1>3, <1>4, <1>5

(* A refund that is written and not yet posted.                            *)
DueRefund(c) == req[c].at = "post" /\ req[c].check.kind = "refund"

(* What postings op of a folio show of refunds of payment k that come to   *)
(* total: the last posting was numbered by a total that was seen, and what *)
(* came after it had the same number.                                      *)
Shown(op, k, total) ==
  \/ total = 0 /\ Refunds(op, k) = {}
  \/ \E seen \in 1..total :
       /\ RefundNo(seen) = RefundNo(total)
       /\ RefundSum(Face, op, k) <= seen
       /\ seen + Whole - 1 <= RefundSum(Most, op, k)
       /\ \A p \in Refunds(op, k) : p.check.no <= RefundNo(seen)

(* In the calm, the folio shows every refund recorded, but for the one     *)
(* that is due.                                                            *)
RefundInv == calm =>
  /\ IsFiniteSet(opera.postings)
  /\ \A c \in Clerks : DueRefund(c) =>
       LET k == req[c].key IN
       /\ req[c].check = RefundCheck(k, pay[k].refunded)
       /\ Shown(opera.postings, k, pay[k].refunded - req[c].amount)
  /\ \A k \in Keys : (\A c \in Clerks : DueRefund(c) => req[c].key # k) =>
       Shown(opera.postings, k, pay[k].refunded)

(* The sums enclose the total.                                             *)
LEMMA ShownBounds ==
  ASSUME NEW op, op \subseteq Postings, IsFiniteSet(op), NEW k, NEW total \in Nat,
         Shown(op, k, total)
  PROVE  RefundSum(Face, op, k) <= total /\ total <= RefundSum(Most, op, k)
<1>1. CASE total = 0 /\ Refunds(op, k) = {}
  BY <1>1, TotalOfNothing DEF RefundSum
<1>2. ASSUME NEW seen \in 1..total, RefundNo(seen) = RefundNo(total),
             RefundSum(Face, op, k) <= seen, seen + Whole - 1 <= RefundSum(Most, op, k)
      PROVE  RefundSum(Face, op, k) <= total /\ total <= RefundSum(Most, op, k)
  <2>1. seen \in Nat /\ seen <= total
    OBVIOUS
  <2>2. total <= seen + Whole - 1
    BY <1>2, <2>1, RefundNos
  <2>3. RefundSum(Face, op, k) \in Int /\ RefundSum(Most, op, k) \in Int /\ Whole \in Int
    BY SumsType, PaymentsAssumption
  <2> QED
    BY <1>2, <2>1, <2>2, <2>3
<1> QED
  BY <1>1, <1>2 DEF Shown

(* A refund under a number OPERA knows is hidden by the posting that has   *)
(* the number.                                                             *)
LEMMA ShownHides ==
  ASSUME NEW op, op \subseteq Postings, NEW k, NEW total \in Nat, NEW a \in Amounts,
         Shown(op, k, total),
         NEW q \in op, q.check = RefundCheck(k, total + a)
  PROVE  Shown(op, k, total + a)
<1>1. q \in Refunds(op, k) /\ q.check.no = RefundNo(total + a)
  BY DEF Refunds, RefundCheck
<1>2. PICK seen \in 1..total :
        /\ RefundNo(seen) = RefundNo(total)
        /\ RefundSum(Face, op, k) <= seen
        /\ seen + Whole - 1 <= RefundSum(Most, op, k)
        /\ \A p \in Refunds(op, k) : p.check.no <= RefundNo(seen)
  BY <1>1 DEF Shown
<1>3. total + a \in Nat /\ total <= total + a /\ seen \in 1..(total + a)
  BY DEF Amounts
<1>4. RefundNo(total + a) <= RefundNo(total) /\ RefundNo(total) <= RefundNo(total + a)
      /\ RefundNo(total) \in Int /\ RefundNo(total + a) \in Int
  BY <1>1, <1>2, <1>3, RefundNos
<1>5. RefundNo(seen) = RefundNo(total + a)
  BY <1>2, <1>4
<1> QED
  BY <1>2, <1>3, <1>5 DEF Shown

(* A refund under a new number is posted.                                  *)
LEMMA ShownPosts ==
  ASSUME NEW op, op \subseteq Postings, IsFiniteSet(op), NEW k, NEW total \in Nat, NEW a \in Amounts,
         Shown(op, k, total),
         NEW p \in Postings, p \notin op, p.check = RefundCheck(k, total + a), p.amount = a
  PROVE  Shown(op \cup {p}, k, total + a)
<1> DEFINE all == op \cup {p}
<1>1. /\ p.check.kind = "refund" /\ p.check.key = k /\ p.check.no = RefundNo(total + a)
      /\ Refunds(all, k) = Refunds(op, k) \cup {p}
  BY DEF RefundCheck, Refunds
<1>2. /\ RefundSum(Face, all, k) = RefundSum(Face, op, k) + a
      /\ RefundSum(Most, all, k) = RefundSum(Most, op, k) + (a + Whole - 1)
  <2>1. Face[p] = a /\ Most[p] = a + Whole - 1
    BY ValuesType
  <2>2. RefundSum(Face, all, k) = RefundSum(Face, op, k) + Face[p]
    BY <1>1, RefundAdds
  <2>3. RefundSum(Most, all, k) = RefundSum(Most, op, k) + Most[p]
    BY <1>1, RefundAdds
  <2> HIDE DEF all
  <2> QED
    BY <2>1, <2>2, <2>3
<1>3. /\ RefundSum(Face, op, k) \in Int /\ RefundSum(Most, op, k) \in Int /\ Whole \in Int
      /\ RefundSum(Face, op, k) <= total /\ total <= RefundSum(Most, op, k)
  BY SumsType, ShownBounds, PaymentsAssumption
<1>4. total + a \in Nat /\ total <= total + a /\ total + a \in 1..(total + a) /\ a \in Int
  BY DEF Amounts
<1>5. \A q \in Refunds(op, k) : q.check.no <= RefundNo(total + a)
  <2> SUFFICES ASSUME NEW q \in Refunds(op, k) PROVE q.check.no <= RefundNo(total + a)
    OBVIOUS
  <2>1. PICK seen \in 1..total : RefundNo(seen) = RefundNo(total) /\ q.check.no <= RefundNo(seen)
    BY DEF Shown
  <2>2. /\ RefundNo(total) <= RefundNo(total + a)
        /\ RefundNo(total) \in Int /\ RefundNo(total + a) \in Int
    BY <1>4, RefundNos
  <2>3. q.check.no \in Int
    BY DEF Refunds, Postings, Checks
  <2> QED
    BY <2>1, <2>2, <2>3
<1>6. RefundNo(total + a) \in Int
  BY <1>4, RefundNos
<1> HIDE DEF all
<1>7. /\ RefundSum(Face, all, k) <= total + a
      /\ (total + a) + Whole - 1 <= RefundSum(Most, all, k)
  BY <1>2, <1>3, <1>4
<1>8. \A q \in Refunds(all, k) : q.check.no <= RefundNo(total + a)
  BY <1>1, <1>5, <1>6
<1>9. Shown(all, k, total + a)
  BY <1>4, <1>7, <1>8 DEF Shown
<1> QED
  BY <1>9 DEF all

(* Another posting changes nothing of it.                                  *)
LEMMA ShownStays ==
  ASSUME NEW op, NEW k, NEW total, Shown(op, k, total),
         NEW p, ~ (p.check.kind = "refund" /\ p.check.key = k)
  PROVE  Shown(op \cup {p}, k, total)
<1>1. Refunds(op \cup {p}, k) = Refunds(op, k)
  BY DEF Refunds
<1> QED
  BY <1>1 DEF Shown, RefundSum

(* A step that writes and posts no refund.                                 *)
LEMMA RefundsKeep ==
  ASSUME RefundInv, calm, PaymentsInv, opera'.postings = opera.postings,
         \A k \in Keys : pay'[k].refunded = pay[k].refunded,
         \A c \in Clerks : req'[c] = req[c] \/ (~ DueRefund(c) /\ ~ DueRefund(c)')
  PROVE  RefundInv'
<1>1. \A c \in Clerks : DueRefund(c)' => DueRefund(c) /\ req'[c] = req[c]
  BY DEF DueRefund
<1>2. \A c \in Clerks : DueRefund(c) => DueRefund(c)' /\ req'[c] = req[c]
  BY DEF DueRefund
<1>3. \A c \in Clerks : DueRefund(c) => req[c].key \in Keys
  BY DEF DueRefund, PaymentsInv, RequestInv
<1> HIDE DEF DueRefund
<1>4. ASSUME NEW c \in Clerks, DueRefund(c)', NEW k, k = req'[c].key
      PROVE  /\ req'[c].check = RefundCheck(k, pay'[k].refunded)
             /\ Shown(opera'.postings, k, pay'[k].refunded - req'[c].amount)
  BY <1>1, <1>3, <1>4 DEF RefundInv
<1>5. ASSUME NEW k \in Keys, \A c \in Clerks : DueRefund(c)' => req'[c].key # k
      PROVE  Shown(opera'.postings, k, pay'[k].refunded)
  BY <1>2, <1>5 DEF RefundInv
<1>6. IsFiniteSet(opera'.postings)
  BY DEF RefundInv
<1> QED
  BY <1>4, <1>5, <1>6 DEF RefundInv

(* The same for a step of one request.                                     *)
LEMMA RequestKeeps ==
  ASSUME RefundInv, calm, PaymentsInv, opera'.postings = opera.postings,
         \A k \in Keys : pay'[k].refunded = pay[k].refunded,
         NEW c \in Clerks, NEW q, req' = [req EXCEPT ![c] = q],
         ~ DueRefund(c), q.at # "post" \/ q.check.kind = "payment"
  PROVE  RefundInv'
<1>1. req'[c] = q /\ \A d \in Clerks : d # c => req'[d] = req[d]
  BY DEF PaymentsInv, TypeOK
<1>2. ~ DueRefund(c)'
  BY <1>1 DEF DueRefund
<1> QED
  BY <1>1, <1>2, RefundsKeep

(* authorize inserts rows without refunds.                                 *)
LEMMA InsertsRefunds ==
  ASSUME RefundInv, calm, PaymentsInv, NEW c \in Clerks,
         InsertCash(c) \/ InsertHold(c) \/ InsertFailed(c)
  PROVE  RefundInv'
<1> DEFINE r == req[c]
<1>1. r.at \in {"insertCash", "insertHold", "insertFailed"} /\ opera' = opera /\ ~ DueRefund(c)
      /\ r.key \in Keys /\ pay \in [Keys -> Rows]
  BY DEF InsertCash, InsertHold, InsertFailed, At, DueRefund, PaymentsInv, TypeOK, RequestInv
<1>2. ASSUME NEW row, row.refunded = 0, InsertRow(r.key, row)
      PROVE  \A k \in Keys : pay'[k].refunded = pay[k].refunded
  <2>1. pay[r.key].st = "NONE" => pay[r.key].refunded = 0
    BY <1>1 DEF PaymentsInv, RowsInv, NoRow
  <2> HIDE DEF r
  <2> QED
    BY <1>1, <1>2, <2>1 DEF InsertRow
<1>3. \A k \in Keys : pay'[k].refunded = pay[k].refunded
  <2>1. CashRow(r).refunded = 0 /\ HoldRow(r).refunded = 0 /\ FailedRow(r).refunded = 0
    BY DEF CashRow, HoldRow, FailedRow, NoRow
  <2>2. InsertRow(r.key, CashRow(r)) \/ InsertRow(r.key, HoldRow(r)) \/ InsertRow(r.key, FailedRow(r))
    BY DEF InsertCash, InsertHold, InsertFailed
  <2> HIDE DEF r
  <2> QED
    BY <1>2, <2>1, <2>2
<1>4. \E q : req' = [req EXCEPT ![c] = q] /\ (q.at # "post" \/ q.check.kind = "payment")
  <2>1. Idle.at # "post"
    BY DEF Idle
  <2>2. ASSUME GoPost(c, PaymentCheck(r.key)) PROVE <1>4
    <3>1. PaymentCheck(r.key) \in Checks /\ PaymentCheck(r.key).kind = "payment"
      BY <1>1 DEF PaymentCheck, Checks
    <3> QED
      BY <2>2, <3>1, GoPostType
  <2> QED
    BY <2>1, <2>2 DEF InsertCash, InsertHold, InsertFailed, Answer
<1> QED
  BY <1>1, <1>3, <1>4, RequestKeeps

(* A capture or a void leaves the refunds as they are.                     *)
LEMMA WritesRefunds ==
  ASSUME RefundInv, calm, PaymentsInv, NEW c \in Clerks, WriteCapture(c) \/ WriteVoid(c)
  PROVE  RefundInv'
<1> DEFINE r == req[c]
<1>1. r.at \in {"writeCapture", "writeVoid"} /\ opera' = opera /\ ~ DueRefund(c)
      /\ r.key \in Keys /\ pay \in [Keys -> Rows]
  BY DEF WriteCapture, WriteVoid, At, DueRefund, PaymentsInv, TypeOK, RequestInv
<1>2. \A k \in Keys : pay'[k].refunded = pay[k].refunded
  <2>1. /\ CapturedRow(pay[r.key], r).refunded = pay[r.key].refunded
        /\ VoidedRow(pay[r.key]).refunded = pay[r.key].refunded
    <3>1. pay[r.key] \in Rows
      BY <1>1
    <3> QED
      BY <3>1 DEF CapturedRow, VoidedRow, Rows
  <2>2. \/ pay' = [pay EXCEPT ![r.key] = CapturedRow(pay[r.key], r)]
        \/ pay' = [pay EXCEPT ![r.key] = VoidedRow(pay[r.key])]
    BY <1>1 DEF WriteCapture, WriteVoid
  <2> HIDE DEF r
  <2> QED
    BY <1>1, <2>1, <2>2
<1>3. PICK q : req' = [req EXCEPT ![c] = q] /\ (q.at # "post" \/ q.check.kind = "payment")
  <2>1. Idle.at # "post"
    BY DEF Idle
  <2>2. PaymentCheck(r.key) \in Checks /\ PaymentCheck(r.key).kind = "payment"
    BY <1>1 DEF PaymentCheck, Checks
  <2> QED
    BY <2>1, <2>2, GoPostType DEF WriteCapture, WriteVoid, Answer
<1> QED
  BY <1>1, <1>2, <1>3, RequestKeeps

(* The refund is written over the total it was read with, and is due.      *)
LEMMA WriteRefundRefunds ==
  ASSUME RefundInv, calm, PaymentsInv, CalmInv, NEW c \in Clerks, WriteRefund(c)
  PROVE  RefundInv'
<1> DEFINE r == req[c]
           k == r.key
           total == r.base + r.amount
<1>1. r.at = "writeRefund" /\ ~ At(c, "idle") /\ opera' = opera
  BY DEF WriteRefund, At
<1>2. /\ r \in Requests /\ k \in Keys /\ pay \in [Keys -> Rows] /\ pay[k] \in Rows
      /\ RequestInv(c) /\ Books(r, pay, psp)
      /\ \A d \in Clerks : d # c => At(d, "idle")
  BY <1>1, AtWork
<1>3. /\ r.base = pay[k].refunded /\ r.amount \in Amounts
      /\ pay[k].refunded \in Nat /\ r.amount \in Nat /\ total \in Nat
  BY <1>1, <1>2, PaymentsAssumption DEF Books, RequestInv, Rows, Amounts
<1>4. /\ pay'[k].refunded = total
      /\ \A j \in Keys : j # k => pay'[j] = pay[j]
  <2>1. pay' = [pay EXCEPT ![k] = RefundedRow(pay[k], r)]
    BY <1>2 DEF WriteRefund
  <2>2. RefundedRow(pay[k], r).refunded = total
    BY <1>2 DEF RefundedRow, Rows
  <2> HIDE DEF r, k, total
  <2> QED
    BY <1>2, <2>1, <2>2
<1>5. PICK q : /\ req' = [req EXCEPT ![c] = q] /\ req'[c] = q
               /\ q.at = "post" /\ q.check = RefundCheck(k, total)
               /\ q.key = k /\ q.amount = r.amount
  <2>1. RefundCheck(k, total) \in Checks
    BY <1>2, <1>3, RefundCheckType
  <2>2. GoPost(c, RefundCheck(k, total))
    BY DEF WriteRefund
  <2> HIDE DEF total
  <2> QED
    BY <2>1, <2>2, GoPostType
<1>6. RefundCheck(k, total).kind = "refund"
  BY DEF RefundCheck
<1>7. /\ \A d \in Clerks : ~ DueRefund(d)
      /\ \A d \in Clerks : DueRefund(d)' => d = c
  BY <1>1, <1>2, <1>5 DEF DueRefund, At, PaymentsInv, TypeOK
<1>8. /\ IsFiniteSet(opera.postings)
      /\ \A j \in Keys : Shown(opera.postings, j, pay[j].refunded)
  BY <1>7 DEF RefundInv
<1>9. total - r.amount = pay[k].refunded
  BY <1>3
<1> HIDE DEF r, k, total
<1>10. DueRefund(c)'
  BY <1>5, <1>6 DEF DueRefund
<1>11. ASSUME NEW d \in Clerks, DueRefund(d)', NEW j, j = req'[d].key
       PROVE  /\ req'[d].check = RefundCheck(j, pay'[j].refunded)
              /\ Shown(opera'.postings, j, pay'[j].refunded - req'[d].amount)
  <2>1. d = c /\ j = k /\ req'[d] = q
    BY <1>5, <1>7, <1>11
  <2> QED
    BY <1>1, <1>2, <1>4, <1>5, <1>8, <1>9, <2>1
<1>12. ASSUME NEW j \in Keys, \A d \in Clerks : DueRefund(d)' => req'[d].key # j
       PROVE  Shown(opera'.postings, j, pay'[j].refunded)
  <2>1. j # k
    BY <1>5, <1>10, <1>12
  <2> QED
    BY <1>1, <1>4, <1>8, <2>1
<1> QED
  BY <1>1, <1>8, <1>11, <1>12 DEF RefundInv

(* OPERA answers: a refund that is due is posted, or hidden.               *)
LEMMA CoreRefunds ==
  ASSUME RefundInv, calm, PaymentsInv, CalmInv, NEW c \in Clerks,
         CorePosts(c) \/ CoreKnows(c) \/ CoreRefuses(c)
  PROVE  RefundInv'
<1> DEFINE r == req[c]
           p == Posting(r)
           op == opera.postings
<1>1. r.at = "post" /\ ~ At(c, "idle") /\ pay' = pay
  BY DEF CorePosts, CoreKnows, CoreRefuses, At
<1>2. /\ r \in Requests /\ RequestInv(c) /\ OnFolio(r, pay, opera, local, linked)
      /\ opera \in Folios(Postings) /\ opera.postings \subseteq Postings
      /\ \A d \in Clerks : d # c => At(d, "idle")
      /\ pay \in [Keys -> Rows]
  BY <1>1, AtWork DEF Folios
<1>3. PICK q : req' = [req EXCEPT ![c] = q] /\ q.at # "post"
  <2>1. Idle.at # "post"
    BY DEF Idle
  <2>2. [r EXCEPT !.at = "mirror", !.answer = opera'].at # "post"
    BY <1>2 DEF Requests
  <2> QED
    BY <2>1, <2>2 DEF CorePosts, CoreKnows, CoreRefuses, Answer, Received
<1>4. /\ req'[c] = q /\ \A d \in Clerks : d # c => req'[d] = req[d]
      /\ \A d \in Clerks : ~ DueRefund(d)'
  BY <1>2, <1>3 DEF DueRefund, At, PaymentsInv, TypeOK
<1>5. /\ r.check \in Checks /\ r.amount \in Amounts /\ r.check.key = r.key /\ r.key \in Keys
      /\ p \in Postings /\ p.check = r.check /\ p.amount = r.amount /\ opera.open
      /\ pay[r.key].refunded \in Nat
  BY <1>1, <1>2, PaymentsAssumption DEF RequestInv, Posting, Postings, OnFolio, Rows
<1>6. /\ DueRefund(c) <=> p.check.kind = "refund"
      /\ \A d \in Clerks : DueRefund(d) => d = c
  BY <1>1, <1>2, <1>5 DEF DueRefund, At
<1>7. IsFiniteSet(op)
  BY DEF RefundInv
<1>8. ASSUME DueRefund(c)
      PROVE  \E before \in Nat :
               /\ pay[r.key].refunded = before + r.amount /\ Shown(op, r.key, before)
               /\ p.check = RefundCheck(r.key, before + r.amount)
  <2>1. r.check = RefundCheck(r.key, pay[r.key].refunded)
        /\ Shown(op, r.key, pay[r.key].refunded - r.amount)
    BY <1>8 DEF RefundInv
  <2> DEFINE before == pay[r.key].refunded - r.amount
  <2>2. r.amount \in Int /\ pay[r.key].refunded \in Int
    BY <1>5 DEF Amounts
  <2>3. before \in Nat /\ pay[r.key].refunded = before + r.amount
    <3>1. before = 0 \/ \E seen \in 1..before : TRUE
      BY <2>1 DEF Shown
    <3> QED
      BY <2>2, <3>1
  <2> HIDE DEF before, r, p
  <2> QED
    BY <1>5, <2>1, <2>3 DEF before
<1>9. \A k \in Keys : (DueRefund(c) => r.key # k) => Shown(op, k, pay[k].refunded)
  BY <1>6 DEF RefundInv
<1>10. CASE CoreKnows(c) \/ CoreRefuses(c)
  <2>1. KnowsCheck(opera, p) /\ opera' = opera
    BY <1>5, <1>10 DEF CoreKnows, CoreRefuses, OperaAccepts
  <2>2. PICK s \in op : s.check = p.check
    BY <2>1 DEF KnowsCheck
  <2> HIDE DEF r, p
  <2>3. DueRefund(c) => Shown(op, r.key, pay[r.key].refunded)
    BY <1>2, <1>5, <1>8, <2>2, ShownHides
  <2>4. \A k \in Keys : Shown(op, k, pay[k].refunded)
    BY <1>9, <2>3
  <2> QED
    BY <1>1, <1>4, <1>7, <2>1, <2>4 DEF RefundInv
<1>11. CASE CorePosts(c)
  <2>1. opera'.postings = op \cup {p} /\ p \notin op
    BY <1>2, <1>11 DEF CorePosts, OperaPosts, OperaAccepts, KnowsCheck, Folios
  <2>2. IsFiniteSet(op \cup {p})
    BY <1>7, FS_AddElement
  <2> HIDE DEF r, p
  <2>3. DueRefund(c) => Shown(op \cup {p}, r.key, pay[r.key].refunded)
    BY <1>2, <1>5, <1>7, <1>8, <2>1, ShownPosts
  <2>4. \A k \in Keys : (DueRefund(c) => r.key # k) => Shown(op \cup {p}, k, pay[k].refunded)
    BY <1>5, <1>6, <1>9, ShownStays
  <2>5. \A k \in Keys : Shown(op \cup {p}, k, pay[k].refunded)
    BY <2>3, <2>4
  <2> QED
    BY <1>1, <1>4, <2>1, <2>2, <2>5 DEF RefundInv
<1> QED
  BY <1>10, <1>11

(* The other steps write no refund and post none.                          *)
LEMMA OthersRefunds ==
  ASSUME RefundInv, calm, PaymentsInv, NEW c \in Clerks,
         \/ Starts(c) \/ Mirror(c)
         \/ PspApproves(c) \/ PspDeclines(c) \/ PspDone(c) \/ PspRefuses(c)
  PROVE  RefundInv'
<1>1. ~ DueRefund(c) /\ opera' = opera /\ pay' = pay
  BY DEF DueRefund, At, AtPsp, Starts, StartCash, StartCard, StartCapture, StartRefund, StartVoid, Begin,
     Mirror, PspApproves, PspDeclines, PspDone, PspRefuses
<1>2. req[c] \in Requests
  BY DEF PaymentsInv, TypeOK
<1>3. \E q : req' = [req EXCEPT ![c] = q] /\ q.at # "post"
  <2>1. Idle.at # "post"
    BY DEF Idle
  <2>2. ASSUME Mirror(c) \/ PspRefuses(c) PROVE <1>3
    BY <2>1, <2>2 DEF Mirror, PspRefuses, Answer
  <2>3. ASSUME NEW stage \in Stages \ {"post"}, Resume(c, stage) PROVE <1>3
    <3>1. [req[c] EXCEPT !.at = stage].at # "post"
      BY <1>2 DEF Requests
    <3> QED
      BY <2>3, <3>1 DEF Resume
  <2>4. ASSUME PspDeclines(c) \/ PspDone(c) PROVE <1>3
    <3>1. AtPsp(c) => AfterPsp(req[c]) \in Stages \ {"post"}
      BY DEF AtPsp, AfterPsp, Stages
    <3>2. "insertFailed" \in Stages \ {"post"}
      BY DEF Stages
    <3> QED
      BY <2>3, <2>4, <3>1, <3>2 DEF PspDeclines, PspDone
  <2>5. ASSUME PspApproves(c) PROVE <1>3
    <3>1. PICK t : req' = [req EXCEPT ![c] = [req[c] EXCEPT !.at = "insertHold", !.txn = t]]
      BY <2>5, <1>2 DEF PspApproves, PaymentsInv, TypeOK
    <3>2. [req[c] EXCEPT !.at = "insertHold", !.txn = t].at # "post"
      BY <1>2 DEF Requests
    <3> QED
      BY <3>1, <3>2
  <2>6. ASSUME NEW stage \in Stages \ {"post"}, NEW k, NEW a, NEW t, NEW base,
               Begin(c, stage, k, a, t, base)
        PROVE  <1>3
    <3>1. [Idle EXCEPT !.at = stage, !.key = k, !.amount = a, !.txn = t, !.base = base].at # "post"
      BY DEF Idle
    <3> QED
      BY <2>6, <3>1 DEF Begin
  <2>7. ASSUME Starts(c) PROVE <1>3
    <3>1. \E stage \in Stages \ {"post"} : \E k, a, t, base : Begin(c, stage, k, a, t, base)
      BY <2>7 DEF Starts, StartCash, StartCard, StartCapture, StartRefund, StartVoid, RefundStage, Stages
    <3> QED
      BY <2>6, <3>1
  <2> QED
    BY <2>2, <2>4, <2>5, <2>7
<1> QED
  BY <1>1, <1>3, RequestKeeps

LEMMA NextRefunds ==
  ASSUME RefundInv, PaymentsInv, CalmInv, [HNext]_hvars
  PROVE  RefundInv'
<1>1. CASE UNCHANGED hvars
  BY <1>1 DEF hvars, vars, RefundInv, DueRefund
<1>2. ASSUME NEW c \in Clerks, Disturbed(c) PROVE RefundInv'
  BY <1>2 DEF Disturbed, RefundInv
<1>3. ASSUME NEW c \in Clerks, Works(c) PROVE RefundInv'
  <2> SUFFICES ASSUME calm' PROVE RefundInv'
    BY DEF RefundInv
  <2>1. calm /\ (Starts(c) \/ Resumes(c))
    BY <1>3 DEF Works
  <2> QED
    BY <2>1, InsertsRefunds, WritesRefunds, WriteRefundRefunds, CoreRefunds, OthersRefunds DEF Resumes
<1> QED
  BY <1>1, <1>2, <1>3 DEF HNext

(* While nothing overlaps or fails, and between requests, the folio shows  *)
(* what our rows say: every settled payment, and refunds that add up to    *)
(* the total the row records but for what the rounding of their check      *)
(* numbers hides, less than a whole unit for each posting ("A payment      *)
(* lands on the folio at capture"; refund, postToFolio).                   *)
THEOREM FolioFollowsPaymentsAlways == HSpec => []FolioFollowsPayments
<1>1. HInit => RefundInv
  <2> SUFFICES ASSUME HInit PROVE RefundInv
    OBVIOUS
  <2>1. /\ opera.postings = {} /\ \A k \in Keys : pay[k].refunded = 0
        /\ \A c \in Clerks : ~ DueRefund(c)
    BY DEF HInit, Init, EmptyFolio, NoRow, DueRefund, Idle
  <2>2. \A k \in Keys : Shown(opera.postings, k, pay[k].refunded)
    BY <2>1 DEF Shown, Refunds
  <2>3. IsFiniteSet(opera.postings)
    BY <2>1, FS_EmptySet
  <2> QED
    BY <2>1, <2>2, <2>3 DEF RefundInv
<1>2. RefundInv /\ PaymentsInv /\ CalmInv /\ [HNext]_hvars => RefundInv'
  BY NextRefunds
<1>3. RefundInv /\ PaymentsInv => (calm => RefundIsOnFolio)
  <2> SUFFICES ASSUME RefundInv, PaymentsInv, calm, Quiet, NEW k \in Keys
               PROVE  RefundsOnFolio(k) <= pay[k].refunded /\ pay[k].refunded <= RefundsHeardOf(k)
    BY DEF RefundIsOnFolio
  <2>1. \A c \in Clerks : ~ DueRefund(c)
    BY DEF Quiet, At, DueRefund
  <2>2. opera.postings \subseteq Postings /\ pay[k].refunded \in Nat
    BY PaymentsAssumption DEF PaymentsInv, TypeOK, Folios, Rows
  <2>3. IsFiniteSet(opera.postings) /\ Shown(opera.postings, k, pay[k].refunded)
    BY <2>1 DEF RefundInv
  <2>4. /\ RefundsOnFolio(k) = RefundSum(Face, opera.postings, k)
        /\ RefundsHeardOf(k) = RefundSum(Most, opera.postings, k)
    BY <2>2, FaceIs, MostIs
  <2> QED
    BY <2>2, <2>3, <2>4, ShownBounds
<1>4. (calm => SettledIsOnFolio /\ CopyFollowsOpera) /\ (calm => RefundIsOnFolio)
        => FolioFollowsPayments
  BY DEF FolioFollowsPayments
<1> QED
  BY <1>1, <1>2, <1>3, <1>4, HistoryInvariant, CalmInvariant, SettledPaymentsAreOnFolio, PTL DEF HSpec

=============================================================================
