------------------------------- MODULE Journal -------------------------------
(***************************************************************************)
(* The closing journal (src/reports/journal.service.ts) over the folio of  *)
(* PosCharges.  A row of ours is OPERA's posting; postings are numbered in *)
(* the order they were made, so the day a journal is of is the postings    *)
(* after some number, and what it carries in is those up to it.  Codes,    *)
(* groups and taxes are left out.                                          *)
(***************************************************************************)
EXTENDS PosCharges

RowsHere == { p \in Posts : local.row[p].win # 0 }
SumOf(S) == Cardinality({ p \in S : opera.post[p].amt = 1 })
            - Cardinality({ p \in S : opera.post[p].amt = -1 })

OpeningBalance(last) == SumOf({ p \in RowsHere : p <= last })
OfDay(last) == { p \in RowsHere : p > last }
(* Money in; an adjustment down counts as money here, a reversal does not. *)
IsPayment(p) == opera.post[p].amt = -1 /\ opera.post[p].voids = 0
ChargeTotal(last) == SumOf({ p \in OfDay(last) : ~ IsPayment(p) })
PaymentTotal_Refunds(last) == SumOf({ p \in OfDay(last) : IsPayment(p) })
PaymentTotal(last) == -SumOf({ p \in OfDay(last) : IsPayment(p) })
ClosingBalance(last) == OpeningBalance(last) + ChargeTotal(last) - PaymentTotal(last)
Outstanding == Sum(local.bal, OpenLocally)

(* While requests do not overlap and nothing fails, the journal of the     *)
(* last day balances, wherever that day began: what it carries in, charges *)
(* and received is what the open folios owe, a guest who left included     *)
(* ("Must match the closing balance", daily).                              *)
JournalBalances ==
  calm /\ Quiet => \A last \in 0..MaxPosts : ClosingBalance(last) = Outstanding

=============================================================================
