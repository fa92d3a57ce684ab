------------------------------ MODULE ArHistory ------------------------------
(***************************************************************************)
(* What the city ledger (src/ar/ar.service.ts) still promises when several *)
(* clerks work on one account and anything may fail.  Nothing locks the    *)
(* account between the reads of a request and the transaction it ends      *)
(* with, so a request may write what others have overtaken, and a transfer *)
(* may be cut off after OPERA took it.  Here the history of that is kept   *)
(* beside the ledger, and the properties say exactly how far the harm      *)
(* goes: to the invoices, the windows and the amounts named in it.         *)
(***************************************************************************)
EXTENDS ArStatements

VARIABLES
  reach,  \* by clerk: what its transfer may bring the balance to
  stale,  \* by clerk: the invoices of its request written since it read them
  raced,  \* invoices a request wrote, or took charges from, on stale figures
  lost    \* windows whose transfer was cut off after OPERA took it

hvars == <<vars, reach, stale, raced, lost>>

HInit ==
  /\ Init
  /\ reach = [c \in Clerks |-> NoLimit]
  /\ stale = [c \in Clerks |-> {}]
  /\ raced = {}
  /\ lost = {}

Begins(c) == At(c, "idle") /\ ~ At(c, "idle")'
Ends(c) == ~ At(c, "idle") /\ At(c, "idle")'
Written == { n \in Numbers : invoices'[n] # invoices[n] }

(* The limit as the transfer read it, and what others charged since.       *)
Reach(c) ==
  IF Begins(c) THEN account.limit
  ELSE IF At(c, "idle")' \/ reach[c] = NoLimit THEN NoLimit
  ELSE reach[c] + AmountOf(Charges)' - AmountOf(Charges)

(* The invoices a request is about to write, or to take charges from.      *)
Concerns(c) ==
  LET r == req[c] IN
  { n \in Numbers : \/ r.plan[n] > 0
                    \/ r.at = "status" /\ r.number = n
                    \/ \E a \in r.bills : charges[a].invoice = n }

CutOff(c) ==
  \/ CoreSilent(c) /\ opera' # opera
  \/ Dies(c) /\ At(c, "charge")

HNext ==
  /\ Next
  /\ reach' = [c \in Clerks |-> Reach(c)]
  /\ stale' = [c \in Clerks |-> IF Begins(c) THEN {} ELSE stale[c] \cup (Written \cap Concerns(c)')]
  /\ raced' = raced \cup UNION { stale[c] \cap Concerns(c) : c \in { d \in Clerks : Ends(d) /\ Written # {} } }
  /\ lost' = lost \cup { req[c].window : c \in { d \in Clerks : CutOff(d) } }

HSpec == HInit /\ [][HNext]_hvars

-----------------------------------------------------------------------------
(* The limit is checked before OPERA is called and the charge is written   *)
(* after: a transfer takes the account over the limit it was checked       *)
(* against by no more than what others charged in between                  *)
(* (transferFolio).                                                        *)
ChargeWithinLimit ==
  [][\A c \in Clerks :
       WriteCharge(c) /\ reach[c] # NoLimit => Balance' <= reach[c]]_hvars

(* "Both must hold" (transferFolio): what OPERA took off a window is on    *)
(* the account, or is about to be, unless the request was cut off between. *)
ChargeDue(w) == \E c \in Clerks : At(c, "charge") /\ req[c].window = w
TransferIsCharged ==
  \A w \in Windows : opera[w].transferred > 0 => ChargedFor(w) # {} \/ ChargeDue(w) \/ w \in lost

TransfersAreSound == ChargeWithinLimit /\ []TransferIsCharged

(* The number given out next is free until one is used that is longer than *)
(* the padding: from then on the numbers, compared as strings, come back   *)
(* (nextInvoiceNumber).                                                    *)
NumbersGoOn == (\A n \in Used : n <= Padded) => NextNumber \notin Used

(* An invoice that no request wrote, or billed anew, on stale figures asks *)
(* for exactly the charges on it, unless it is void, and is not overpaid   *)
(* (createInvoice, recordPayment, updateInvoiceStatus).                    *)
InvoicesAreSound ==
  /\ \A n \in Used \ raced :
       /\ invoices[n].st # "VOID" => invoices[n].total = AmountOf(OnInvoice(n))
       /\ invoices[n].received <= invoices[n].total
  /\ NumbersGoOn

(* What a company is sent: the aging report agrees with itself and with    *)
(* the account's detail, and as long as no invoice was written on stale    *)
(* figures the ledger's balance is what report and detail ask for (aging,  *)
(* accountDetail).                                                         *)
StatementsAgree == AgingAgrees /\ (raced = {} => StatementAddsUp)

=============================================================================
