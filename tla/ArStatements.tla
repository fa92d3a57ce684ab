---------------------------- MODULE ArStatements ----------------------------
(***************************************************************************)
(* What is read off the city ledger (src/ar/ar.service.ts): the automatic  *)
(* allocation of a payment, the detail of the account and the aging        *)
(* report.  Due dates are not part of the ledger's state: late[n] says how *)
(* many days past due an open invoice is today, and may be anything in     *)
(* Lateness.                                                               *)
(***************************************************************************)
EXTENDS ArLedger

CONSTANTS
  Lateness,    \* days past due today; not positive: not due yet
  Ahead,       \* days from today to the day a report is asked for
  DetailShows  \* how many invoices the account's detail lists (50)

ASSUME StatementsAssumption == Lateness \subseteq Int /\ Ahead \subseteq Int /\ DetailShows \in Nat

OpenOnes == { n \in Numbers : Open(n) }
Lates == [OpenOnes -> Lateness]

-----------------------------------------------------------------------------
(* autoAllocate: what was received goes to the open invoices, the one due  *)
(* first before the others.                                                *)

(* The order the database lists open invoices in: by due date, then by     *)
(* when they were issued; in any order when that is the same.              *)
Listings == Injection(Used, Numbers)
DueBefore(late, listed, m, n) ==
  late[m] > late[n] \/ (late[m] = late[n] /\ listed[m] < listed[n])
DueLast_ByIssue(late, listed, S) ==
  CHOOSE n \in S : \A m \in S \ {n} : listed[m] < listed[n]
DueLast(late, listed, S) ==
  CHOOSE n \in S : \A m \in S \ {n} : DueBefore(late, listed, m, n)

(* One turn of the loop.  The fold takes the one due last out and runs it  *)
(* after all the others.                                                   *)
Fill(n, acc) ==
  LET apply == IF acc.left > Outstanding(n) THEN Outstanding(n) ELSE acc.left
  IN [plan |-> [acc.plan EXCEPT ![n] = apply], left |-> acc.left - apply]
AutoPlan(late, listed, amount) ==
  MapThenFoldSet(Fill, [plan |-> NoPlan, left |-> amount], LAMBDA n : n,
                 LAMBDA S : DueLast(late, listed, S), OpenOnes).plan

(* A payment applied automatically is within what is owed, leaves nothing  *)
(* over that an open invoice could have taken, and reaches an invoice only *)
(* when those due earlier are covered ("Fills the earliest-due invoices    *)
(* first", autoAllocate).                                                  *)
ClearsOldestFirst ==
  \A late \in Lates, listed \in Listings, amount \in 1..MaxPaid :
    LET plan == AutoPlan(late, listed, amount)
        owed == MapThenSumSet(Outstanding, OpenOnes) IN
    /\ PlanAllowed(plan, amount)
    /\ SumFunction(plan) = IF amount < owed THEN amount ELSE owed
    /\ \A m, n \in OpenOnes :
         DueBefore(late, listed, m, n) /\ plan[n] > 0 => plan[m] = Outstanding(m)

-----------------------------------------------------------------------------
(* The detail of the account, and the aging report.                        *)

UnbilledTotal == AmountOf(Unbilled)

(* The invoices the detail flags: of the ones it lists, those issued last, *)
(* what is past due today.                                                 *)
Listed(listed) ==
  { n \in Used : Cardinality({ m \in Used : listed[m] > listed[n] }) < DetailShows }
Overdue(late, listed) ==
  { n \in Listed(listed) : /\ invoices[n].st \notin {"PAID", "VOID"}
                           /\ Outstanding(n) > 0
                           /\ late[n] > 0 }

Buckets == {"current", "days30", "days60", "days90", "over90"}
BucketOf(days) ==
  CASE days <= 0 -> "current" [] 0 < days /\ days <= 30 -> "days30"
    [] 30 < days /\ days <= 60 -> "days60" [] 60 < days /\ days <= 90 -> "days90"
    [] 90 < days -> "over90"

(* aging counts from the day asked for, which is ahead days from today; it *)
(* drops the invoices with nothing left, whatever their status.            *)
Aging(late, ahead) ==
  LET days(n) == late[n] + ahead
      In(b) == { n \in OpenOnes : BucketOf(days(n)) = b } IN
  [buckets |-> [b \in Buckets |-> MapThenSumSet(Outstanding, In(b))],
   overdue |-> MapThenSumSet(Outstanding, { n \in OpenOnes : days(n) > 0 }),
   total |-> MapThenSumSet(Outstanding, OpenOnes)]

(* The report agrees with itself: what is overdue is all but the current   *)
(* bucket.  What the account's detail flags is no more than a report of    *)
(* today or later says, and is the same today as long as the detail lists  *)
(* every invoice.                                                          *)
AgingAgrees ==
  \A late \in Lates, ahead \in Ahead :
    LET report == Aging(late, ahead) IN
    /\ SumFunction(report.buckets) = report.total
    /\ report.overdue = report.total - report.buckets["current"]
    /\ \A listed \in Listings :
         LET flagged == MapThenSumSet(Outstanding, Overdue(late, listed)) IN
         /\ ahead >= 0 => flagged <= report.overdue
         /\ ahead = 0 /\ Listed(listed) = Used => flagged = report.overdue

(* The ledger's balance is what the report and the next invoice ask for,   *)
(* less payments on no invoice; invoices somebody marked paid by hand are  *)
(* not asked for, and what was put on an invoice voided later answers for  *)
(* nothing ("The balance is never stored").                                *)
StatementAddsUp ==
  LET used == { n \in Used : invoices[n].st # "VOID" }
      byHand == MapThenSumSet(Outstanding, { n \in used : invoices[n].st = "PAID" })
      onVoid == MapThenSumSet(LAMBDA n : invoices[n].received, Used \ used) IN
  Balance + Unapplied = UnbilledTotal + MapThenSumSet(Outstanding, OpenOnes) + byHand - onVoid

=============================================================================
