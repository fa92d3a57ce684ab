--------------------------- MODULE PaymentsHistory ---------------------------
(***************************************************************************)
(* Payments with a history.  calm holds while no two requests overlapped,  *)
(* nothing failed and no window was closed; uncertain has the keys whose   *)
(* card the service may have put on hold without knowing it.  What the     *)
(* books owe each other in the light of it is stated here; what no         *)
(* interleaving breaks is in Payments.                                     *)
(***************************************************************************)
EXTENDS PaymentBooks

CONSTANT MaxKeys  \* requests overlap, or fail, with no more keys in use (bound)

ASSUME MaxKeysAssumption == MaxKeys \in Nat

VARIABLES
  calm,
  uncertain  \* keys sent twice at once, or whose hold was made and not recorded

hvars == <<vars, calm, uncertain>>

HInit == Init /\ calm = TRUE /\ uncertain = {}

InFlight == { c \in Clerks : ~ At(c, "idle") }
KeysInUse == { k \in Keys : \/ pay[k].st # "NONE"
                            \/ \E c \in Clerks : req[c].key = k
                            \/ \E t \in Txns : psp[t].key = k }
FewKeys == calm \/ Cardinality(KeysInUse) <= MaxKeys

(* A request that has asked, or is about to ask, for a hold of key k.      *)
Asks(c, k) == req[c].at \in {"pspAuthorize", "insertHold"} /\ req[c].key = k
AskedTwice == { k \in Keys : \E c, d \in Clerks : c # d /\ Asks(c, k) /\ Asks(d, k) }
Unheard(c) == { k \in Keys : Asks(c, k) }

Works(c) ==
  /\ Starts(c) \/ Resumes(c)
  /\ calm' = (calm /\ Cardinality(InFlight') <= 1)
  /\ uncertain' = uncertain \cup AskedTwice'
  /\ FewKeys'
Disturbed(c) ==
  /\ \/ Fails(c) /\ uncertain' = uncertain \cup Unheard(c)
     \/ (CloseAtOpera \/ CloseLocally) /\ UNCHANGED uncertain
  /\ calm' = FALSE
  /\ FewKeys'
HNext == \E c \in Clerks : Works(c) \/ Disturbed(c)

HSpec == HInit /\ [][HNext]_hvars

-----------------------------------------------------------------------------
(* The guest's money is held twice under one key only where two requests   *)
(* asked for it at once, or one that asked ended without an answer or a    *)
(* row; whatever else overlaps, fails or is sent again ("Money leaving a   *)
(* guest twice is harder to undo than anything else", authorize).          *)
GuestHeldOnce ==
  \A k \in Keys \ uncertain :
    \A s, t \in Txns : psp[s].key = k /\ psp[t].key = k => s = t

(* While nothing overlaps or fails, and between requests, the folio shows  *)
(* what our rows say: a settled payment is on it once and its refunds are, *)
(* up to the rounding of their check numbers; our copy is the folio, and   *)
(* it knows which payment a row is of ("A payment lands on the folio at    *)
(* capture", PaymentsService).                                             *)
FolioFollowsPayments ==
  calm => SettledIsOnFolio /\ RefundIsOnFolio /\ CopyFollowsOpera

(* While nothing overlaps or fails, and between requests, our rows say     *)
(* what the PSP did: what it captured is captured here, and what it paid   *)
(* back is the refunded total, which stays within the payment.             *)
PaymentsFollowPsp ==
  calm => CaptureIsRecorded /\ RefundIsRecorded /\ RefundsAtPspWithinTaken

=============================================================================
