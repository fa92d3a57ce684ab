----------------------------- MODULE PaymentBooks -----------------------------
(***************************************************************************)
(* What the three books of a payment owe each other: our payment rows, the *)
(* PSP's transactions and OPERA's folio.  The statements are about Payments*)
(* with sums over postings.                                                *)
(***************************************************************************)
EXTENDS Payments, FiniteSetsExt

RefundsOf(k) == { p \in opera.postings : p.check.kind = "refund" /\ p.check.key = k }
RefundsOnFolio(k) == MapThenSumSet(LAMBDA p : p.amount, RefundsOf(k))

(* The most the postings may stand for: two totals that round to the same  *)
(* whole unit have one check number, so a posting may hide refunds of less *)
(* than one whole unit that followed it.                                   *)
RefundsHeardOf(k) == MapThenSumSet(LAMBDA p : p.amount + Whole - 1, RefundsOf(k))

(* The refunds the guest's folio shows for a payment never add up to more  *)
(* than the payment (payments.service.spec.ts:394, partial refunds         *)
(* accumulate and cannot exceed what is left).                             *)
RefundsOnFolioWithinPayment ==
  \A k \in Keys : RefundsOnFolio(k) <= pay[k].amount

(* The PSP never pays back more than it took.                              *)
RefundsAtPspWithinTaken ==
  \A t \in Txns : psp[t].returned <= psp[t].taken

(* With no request in flight, a settled payment is on the folio, and our   *)
(* copy knows which payment it is ("A payment lands on the folio at        *)
(* capture", payments.service.ts:23).                                      *)
SettledIsOnFolio ==
  Quiet => \A k \in Keys : pay[k].st \in Settled =>
             /\ Posted(opera, PaymentCheck(k))
             /\ PaymentCheck(k) \in linked

(* With no request in flight, the refunds given are on the folio ("A second *)
(* posting with the opposite sign is added", payments.service.ts:258): the  *)
(* postings add up to no more than what the row records, and to no less     *)
(* than that but for what the rounding of the check number (:302) hides.    *)
RefundIsOnFolio ==
  Quiet => \A k \in Keys :
    RefundsOnFolio(k) <= pay[k].refunded /\ pay[k].refunded <= RefundsHeardOf(k)

(* With no request in flight, the row records what the PSP paid back.      *)
RefundIsRecorded ==
  Quiet => \A k \in Keys : pay[k].txn # NoTxn => psp[pay[k].txn].returned = pay[k].refunded

(* With no request in flight, a transaction the PSP captured is recorded   *)
(* as captured: no money was taken that our books do not know of.          *)
CaptureIsRecorded ==
  Quiet => \A t \in Txns : psp[t].st = "captured" =>
             pay[psp[t].key].st \in Settled /\ pay[psp[t].key].txn = t

(* With no request in flight, our copy shows what OPERA has ("The local    *)
(* ledger follows OPERA", folio-mirror.ts:159).                            *)
CopyFollowsOpera == Quiet => local.postings = opera.postings

(* Money that was taken reaches the folio.                                 *)
CaptureReachesFolio ==
  \A k \in Keys : pay[k].st \in Settled ~> Posted(opera, PaymentCheck(k))

(* Every request is answered.                                              *)
RequestsAreAnswered == \A c \in Clerks : ~ At(c, "idle") ~> At(c, "idle")

=============================================================================
