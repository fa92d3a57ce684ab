------------------------------- MODULE PosCheck -------------------------------
(***************************************************************************)
(* What an outlet is promised about a check ("One check from one outlet    *)
(* posts once", src/pos/pos.service.ts): it is charged once and reversed   *)
(* once, and never reversed before it was charged.                         *)
(***************************************************************************)
CONSTANTS Outlets, Checks

VARIABLE check  \* how far each outlet's check has come on the guest's bill

Init == check = [k \in Outlets \X Checks |-> "none"]

Moves(k, from, to) ==
  check[k] = from /\ check' = [check EXCEPT ![k] = to]

Next ==
  \E k \in Outlets \X Checks : Moves(k, "none", "charged") \/ Moves(k, "charged", "reversed")

Spec == Init /\ [][Next]_check

=============================================================================
