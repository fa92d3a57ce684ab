--------------------------- MODULE PaymentLifecycle ---------------------------
(***************************************************************************)
(* What the payments component promises for each payment, without saying   *)
(* how: money is held, taken or released once; the folio is credited only  *)
(* with money that was taken, once and for exactly the amount taken; and   *)
(* no more than what was taken is recorded as given back.                  *)
(*                                                                         *)
(* Payments.tla, where each of these steps is spread over the PSP, the     *)
(* database and OPERA, is shown to implement this specification.           *)
(***************************************************************************)
EXTENDS Integers

CONSTANTS Keys,       \* payments, each under its own idempotency key
          MaxAmount   \* bound on an amount

VARIABLES phase,      \* phase[k]: where payment k stands
          value,      \* value[k]: the amount held, then the amount taken
          returned,   \* returned[k]: the amount recorded as given back
          credits     \* credits[k]: the amounts k is credited with on the folio

lifecycleVars == <<phase, value, returned, credits>>

Phases == {"none", "refused", "held", "released", "taken"}

Init ==
  /\ phase = [k \in Keys |-> "none"]
  /\ value = [k \in Keys |-> 0]
  /\ returned = [k \in Keys |-> 0]
  /\ credits = [k \in Keys |-> {}]

(* A first answer for payment k: refused, held on a card, or taken as cash. *)
Decide(k, outcome, a) ==
  /\ phase[k] = "none"
  /\ outcome \in {"refused", "held", "taken"}
  /\ phase' = [phase EXCEPT ![k] = outcome]
  /\ value' = [value EXCEPT ![k] = a]
  /\ UNCHANGED <<returned, credits>>

Take(k, a) ==
  /\ phase[k] = "held"
  /\ a <= value[k]
  /\ phase' = [phase EXCEPT ![k] = "taken"]
  /\ value' = [value EXCEPT ![k] = a]
  /\ UNCHANGED <<returned, credits>>

Release(k) ==
  /\ phase[k] = "held"
  /\ phase' = [phase EXCEPT ![k] = "released"]
  /\ UNCHANGED <<value, returned, credits>>

Credit(k) ==
  /\ phase[k] = "taken"
  /\ credits[k] = {}
  /\ credits' = [credits EXCEPT ![k] = {value[k]}]
  /\ UNCHANGED <<phase, value, returned>>

GiveBack(k, r) ==
  /\ phase[k] = "taken"
  /\ r <= value[k]
  /\ returned' = [returned EXCEPT ![k] = r]
  /\ UNCHANGED <<phase, value, credits>>

Next ==
  \E k \in Keys :
    \/ \E a \in 1..MaxAmount :
         \/ \E outcome \in Phases : Decide(k, outcome, a)
         \/ Take(k, a)
         \/ GiveBack(k, a)
    \/ Release(k)
    \/ Credit(k)

LifecycleSpec == Init /\ [][Next]_lifecycleVars

=============================================================================
