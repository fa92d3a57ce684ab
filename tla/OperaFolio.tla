------------------------------ MODULE OperaFolio ------------------------------
(***************************************************************************)
(* One folio window, as OPERA keeps it and as PlanForge copies it.         *)
(*                                                                         *)
(* OPERA owns the ledger (src/folios/folios.service.ts:21-24); a service   *)
(* that posts hands the request to OPERA through Core and copies the       *)
(* window that comes back over its local rows with mirrorFolios.  This     *)
(* module has no state: it defines the values and the operations, and the  *)
(* modules of the services hold OPERA's window, the local copy and the     *)
(* answers that are still on their way.                                    *)
(*                                                                         *)
(* A posting is a record with a `check` (the check number the service      *)
(* sends as `reference`) and an `amount`; type, text, currency and date    *)
(* tell nothing apart here and are left out.                               *)
(***************************************************************************)

Folios(Postings) == [open : BOOLEAN, postings : SUBSET Postings]

EmptyFolio == [open |-> TRUE, postings |-> {}]

(* OPERA knows a check number it has already posted.                       *)
KnowsCheck(folio, p) == \E q \in folio.postings : q.check = p.check

(* What the code in src/ relies on (pos.service.ts:66-67, the comment      *)
(* folios.service.ts:76-77): a closed window takes nothing and the same    *)
(* check number is not posted twice.                                       *)
OperaAccepts(folio, p) == folio.open /\ ~ KnowsCheck(folio, p)

OperaPosts(folio, p) == [folio EXCEPT !.postings = @ \cup {p}]

-----------------------------------------------------------------------------
(* mirrorFolios, on one window: status and postings become those of the    *)
(* answer, rows the answer does not list are deleted.                      *)
MirrorFolio(local, answer) ==
  [local EXCEPT !.open = answer.open, !.postings = answer.postings]

(* What OPERA does not know (the payment a posting belongs to) is kept on  *)
(* rows that survive the copy and lost with the rows it deletes.           *)
MirrorLinks(linked, answer) ==
  linked \cap { p.check : p \in answer.postings }

=============================================================================
