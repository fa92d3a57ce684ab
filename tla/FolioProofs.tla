----------------------------- MODULE FolioProofs -----------------------------
(***************************************************************************)
(* Proofs about FolioDesk, PosCharges and Journal, for every number of     *)
(* clerks, windows, postings, outlets and checks and every combination of  *)
(* failures.                                                               *)
(***************************************************************************)
EXTENDS Journal, FiniteSetTheorems, WellFoundedInduction, TLAPS

-----------------------------------------------------------------------------
(* Values.                                                                 *)

(* Postings are counted with natural numbers.                              *)
LEMMA PostsAreFinite == \A S \in SUBSET Posts : Cardinality(S) \in Nat
<1>1. IsFiniteSet(Posts)
  BY FolioAssumption, FS_Interval DEF Posts
<1> QED
  BY <1>1, FS_Subset, FS_CardinalityType

(* The balance of a window is an integer.                                  *)
LEMMA BalanceType ==
  ASSUME NEW at, NEW w
  PROVE  Balance(at, w) \in Int
<1> DEFINE On(amt) == { p \in Posts : at[p] = w /\ opera.post[p].amt = amt }
<1>1. Cardinality(On(1)) \in Nat /\ Cardinality(On(-1)) \in Nat
  BY PostsAreFinite
<1>2. Balance(at, w) = Cardinality(On(1)) - Cardinality(On(-1))
  BY DEF Balance
<1> QED
  BY <1>1, <1>2

(* A clerk without a request, and a posting not made, are values.          *)
LEMMA Values ==
  /\ NoRef \in Refs /\ NoPost \in Post /\ NoAnswer \in Answer /\ Idle \in Requests
  /\ NoRow \in Row /\ FirstWindow \in [Windows -> WindowState]
<1>1. NoRef \in Refs
  BY DEF NoRef, Refs
<1>2. NoPost \in Post
  BY <1>1 DEF NoPost, Post, Amounts, Makers
<1>3. NoAnswer \in Answer
  BY DEF NoAnswer, Answer, WindowState
<1>4. Idle \in Requests
  BY <1>1, <1>3 DEF Idle, Requests, Stages, Ops, Amounts, Makers
<1>5. NoRow \in Row /\ FirstWindow \in [Windows -> WindowState]
  BY DEF NoRow, Row, FirstWindow, WindowState
<1> QED
  BY <1>1, <1>2, <1>3, <1>4, <1>5

(* A check number of an outlet or of a payment, and a request that uses    *)
(* one, are values.                                                        *)
LEMMA RequestType ==
  ASSUME NEW op \in Ops, NEW w \in Windows \cup {0}, NEW p \in Posts \cup {0},
         NEW amt \in Amounts, NEW ref \in Refs, NEW by \in Makers
  PROVE  Request(op, w, p, amt, ref, by) \in Requests
BY Values DEF Request, Requests, Stages, Idle

(* A check number of an outlet, for any kind of posting.                   *)
LEMMA RefType ==
  ASSUME NEW k \in Checks, NEW kind \in {"none", "charge", "void", "pay"}
  PROVE  Ref(k, kind) \in Refs
BY DEF Ref, Refs

-----------------------------------------------------------------------------
(* What one request counts on, of OPERA's postings.                        *)
Reversed(post, r) ==
  \E o \in Outlets, k \in Checks :
    /\ r.post \in Posts /\ r.by = o /\ r.ref = Ref(k, "void")
    /\ post[r.post].by = o /\ post[r.post].voids = 0 /\ post[r.post].ref = Ref(k, "charge")
Made(post, r) ==
  \E p \in Posts : post[p].win # 0 /\ post[p].ref = r.ref /\ post[p].by = r.by
Holds(q, post) ==
  /\ \A p \in Posts : q.ans.at[p] # 0 => post[p].win # 0
  /\ q.at \in {"core", "mirror"} => q.win \in Windows
  /\ q.at = "core" =>
       /\ q.op \in {"transfer", "pay", "charge", "void"}
       /\ q.op = "transfer" => q.post \in Posts
       /\ q.op = "charge" => q.by \in Outlets /\ q.ref.kind = "charge"
       /\ q.op = "pay" => q.by = "payment" /\ q.ref.kind = "pay"
       /\ q.op = "void" => Reversed(post, q)
  /\ q.at = "mirror" /\ q.op \in {"pay", "charge", "void"} =>
       q.ref.kind # "none" /\ Made(post, q)

(* InFlightInv, said of one request at a time.                             *)
LEMMA HoldsIsInv == InFlightInv <=> \A c \in Clerks : Holds(req[c], opera.post)
<1>1. \A c \in Clerks : MayReverse(req[c]) <=> Reversed(opera.post, req[c])
  BY DEF MayReverse, IsCharge, Reversed
<1> QED
  BY <1>1 DEF InFlightInv, Holds, Made, At

(* The same after a step.                                                  *)
LEMMA HoldsIsInvNext == InFlightInv' <=> \A c \in Clerks : Holds(req'[c], opera'.post)
<1>1. \A c \in Clerks : MayReverse(req[c])' <=> Reversed(opera'.post, req'[c])
  BY DEF MayReverse, IsCharge, Reversed
<1> QED
  BY <1>1 DEF InFlightInv, Holds, Made, At

(* OPERA forgets no posting; it may move it.                               *)
Onward ==
  \A p \in Posts : opera.post[p].win # 0 =>
    /\ opera'.post[p].win # 0
    /\ opera'.post[p].amt = opera.post[p].amt /\ opera'.post[p].ref = opera.post[p].ref
    /\ opera'.post[p].by = opera.post[p].by /\ opera'.post[p].voids = opera.post[p].voids

(* A check number that was sent is on a posting that was made.             *)
LEMMA RefIsMade ==
  ASSUME PostsAreOnce, NEW p \in Posts,
         opera.post[p].ref.kind # "none" \/ opera.post[p].voids # 0
  PROVE  opera.post[p].win # 0
BY DEF PostsAreOnce, NoPost, NoRef

(* What a request counts on survives whatever OPERA adds or moves.         *)
LEMMA HoldsOnward ==
  ASSUME PostsAreOnce, Onward, NEW q \in Requests, Holds(q, opera.post)
  PROVE  Holds(q, opera'.post)
<1>1. ASSUME Reversed(opera.post, q) PROVE Reversed(opera'.post, q)
  <2>1. PICK o \in Outlets, k \in Checks :
          /\ q.post \in Posts /\ q.by = o /\ q.ref = Ref(k, "void")
          /\ opera.post[q.post].by = o /\ opera.post[q.post].voids = 0
          /\ opera.post[q.post].ref = Ref(k, "charge")
    BY <1>1 DEF Reversed
  <2>2. opera.post[q.post].win # 0
    BY <2>1, RefIsMade DEF Ref
  <2> QED
    BY <2>1, <2>2 DEF Reversed, Onward
<1>2. ASSUME Made(opera.post, q) PROVE Made(opera'.post, q)
  BY <1>2 DEF Made, Onward
<1> QED
  BY <1>1, <1>2 DEF Holds, Onward

(* The requests' part of the invariant after a step of one of them.        *)
LEMMA RequestStep ==
  ASSUME FolioInv, NEW c \in Clerks, NEW q \in Requests,
         req' = [req EXCEPT ![c] = q], Holds(q, opera'.post), Onward
  PROVE  req' \in [Clerks -> Requests] /\ InFlightInv'
<1>1. req \in [Clerks -> Requests] /\ PostsAreOnce
  BY DEF FolioInv, TypeOK
<1>2. \A d \in Clerks : Holds(req[d], opera.post)
  BY HoldsIsInv DEF FolioInv
<1>3. \A d \in Clerks : Holds(req'[d], opera'.post)
  BY <1>1, <1>2, HoldsOnward
<1> QED
  BY <1>1, <1>3, HoldsIsInvNext

(* Our rows after a step that leaves them alone.                           *)
LEMMA LocalOnward ==
  ASSUME FolioInv, Onward, UNCHANGED local
  PROVE  RowsAreReal' /\ VoidedIsReversed'
<1>1. local.row \in [Posts -> Row]
  BY DEF FolioInv, TypeOK, LocalState
<1>2. RowsAreReal'
  BY DEF FolioInv, RowsAreReal, Onward
<1>3. ASSUME NEW p \in Posts, local.row[p].voided # 0
      PROVE  opera'.post[local.row[p].voided].voids = p
  <2>1. local.row[p].voided \in Posts
    BY <1>1, <1>3 DEF Row
  <2>2. opera.post[local.row[p].voided].voids = p /\ p # 0
    BY <1>3 DEF FolioInv, VoidedIsReversed, Posts
  <2>3. opera.post[local.row[p].voided].win # 0
    BY <2>1, <2>2, RefIsMade DEF FolioInv
  <2> QED
    BY <2>1, <2>2, <2>3 DEF Onward
<1> QED
  BY <1>2, <1>3 DEF VoidedIsReversed

-----------------------------------------------------------------------------
(* OPERA's steps.                                                          *)

(* What may be posted: an outlet posts charges under their check number,   *)
(* and a reversal under that of the charge it reverses.                    *)
Sound(new) ==
  /\ new.by \in Outlets /\ new.voids = 0 => new.ref.kind = "charge"
  /\ new.voids # 0 => \E o \in Outlets, k \in Checks :
       /\ new.voids \in Posts /\ IsCharge(new.voids, o, k)
       /\ new.by = o /\ new.ref = Ref(k, "void")

(* One posting is made, and no other changes.                              *)
Adds(p, r) ==
  /\ opera.post[p].win = 0 /\ r.win # 0 /\ ~ Known(opera, r.ref)
  /\ opera'.post = [opera.post EXCEPT ![p] = r]

(* The postings themselves: a number once, a reversal with its charge.     *)
LEMMA AddsOnce ==
  ASSUME FolioInv, NEW p \in Posts, NEW r \in Post, Sound(r), Adds(p, r)
  PROVE  PostsAreOnce' /\ Onward
<1>1. opera.post \in [Posts -> Post] /\ PostsAreOnce
  BY DEF FolioInv, TypeOK, OperaState
<1>2. opera'.post[p] = r /\ \A q \in Posts : q # p => opera'.post[q] = opera.post[q]
  BY <1>1 DEF Adds
<1>3. Onward
  BY <1>2 DEF Onward, Adds
<1>4. \A s \in Posts, o \in Outlets, k \in Checks :
        IsCharge(s, o, k) => s # p /\ opera'.post[s] = opera.post[s]
  <2> SUFFICES ASSUME NEW s \in Posts, NEW o \in Outlets, NEW k \in Checks, IsCharge(s, o, k)
               PROVE  s # p
    BY <1>2
  <2>1. opera.post[s].ref.kind # "none"
    BY DEF IsCharge, Ref
  <2> QED
    BY <1>1, <2>1, RefIsMade DEF Adds
<1>5. \A q \in Posts : opera'.post[q].win = 0 => opera'.post[q] = NoPost
  BY <1>1, <1>2 DEF PostsAreOnce, Adds
<1>6. \A q, s \in Posts :
        opera'.post[q].ref.kind # "none" /\ opera'.post[s].ref = opera'.post[q].ref => s = q
  BY <1>1, <1>2 DEF PostsAreOnce, Adds, Known
<1>7. \A q \in Posts : opera'.post[q].by \in Outlets /\ opera'.post[q].voids = 0 =>
        opera'.post[q].ref.kind = "charge"
  BY <1>1, <1>2 DEF PostsAreOnce, Sound
<1>8. ASSUME NEW q \in Posts, opera'.post[q].voids # 0
      PROVE  Reverses(q, opera.post[q].voids)'
  <2>1. CASE q = p
    <3>1. PICK o \in Outlets, k \in Checks :
            /\ r.voids \in Posts /\ IsCharge(r.voids, o, k) /\ r.by = o /\ r.ref = Ref(k, "void")
      BY <1>2, <1>8, <2>1 DEF Sound
    <3>2. opera'.post[r.voids] = opera.post[r.voids]
      BY <1>4, <3>1
    <3>3. IsCharge(r.voids, o, k)'
      BY <3>1, <3>2 DEF IsCharge
    <3> QED
      BY <1>2, <2>1, <3>1, <3>3 DEF Reverses
  <2>2. CASE q # p
    <3>1. opera'.post[q] = opera.post[q]
      BY <1>2, <2>2
    <3>2. Reverses(q, opera.post[q].voids) /\ opera.post[q].voids \in Posts
      BY <1>1, <1>8, <3>1 DEF PostsAreOnce, Post
    <3>3. PICK o \in Outlets, k \in Checks :
            /\ IsCharge(opera.post[q].voids, o, k)
            /\ opera.post[q].by = o /\ opera.post[q].ref = Ref(k, "void")
      BY <3>2 DEF Reverses
    <3>4. opera'.post[opera.post[q].voids] = opera.post[opera.post[q].voids]
      BY <1>4, <3>2, <3>3
    <3> QED
      BY <3>1, <3>3, <3>4 DEF Reverses, IsCharge
  <2> QED
    BY <2>1, <2>2
<1> QED
  BY <1>3, <1>5, <1>6, <1>7, <1>8 DEF PostsAreOnce

(* A posting OPERA accepts.                                                *)
LEMMA PostsStep ==
  ASSUME FolioInv, NEW w \in Windows, NEW new \in Post, Sound(new), OperaPosts(w, new)
  PROVE  /\ opera' \in OperaState /\ Onward /\ PostsAreOnce'
         /\ \E p \in Posts : Adds(p, [new EXCEPT !.win = w])
<1> DEFINE r == [new EXCEPT !.win = w]
<1>1. opera \in OperaState
  BY DEF FolioInv, TypeOK
<1>2. PICK p \in Posts :
        /\ \A q \in Posts : opera.post[q].win # 0 <=> q < p
        /\ opera' = [opera EXCEPT !.post[p] = r]
  BY DEF OperaPosts
<1>3. /\ r \in Post /\ r.win = w /\ w # 0
      /\ r.amt = new.amt /\ r.ref = new.ref /\ r.by = new.by /\ r.voids = new.voids
  BY DEF Post, Windows
<1>4. ~ (p < p)
  BY DEF Posts
<1>5. opera' \in OperaState /\ opera'.post = [opera.post EXCEPT ![p] = r]
  BY <1>1, <1>2, <1>3 DEF OperaState
<1>6. Adds(p, r)
  BY <1>2, <1>3, <1>4, <1>5 DEF Adds, OperaPosts
<1>7. Sound(r)
  BY <1>3 DEF Sound
<1>8. Onward /\ PostsAreOnce'
  BY <1>3, <1>6, <1>7, AddsOnce
<1> QED
  BY <1>5, <1>6, <1>8

(* The postings stay as they are, but for the window one is on.            *)
Places == \A p \in Posts :
  /\ opera'.post[p].win = 0 <=> opera.post[p].win = 0
  /\ opera'.post[p].amt = opera.post[p].amt /\ opera'.post[p].ref = opera.post[p].ref
  /\ opera'.post[p].by = opera.post[p].by /\ opera'.post[p].voids = opera.post[p].voids

(* Moving postings leaves numbers and reversals as they are.               *)
LEMMA PlacesOnce ==
  ASSUME FolioInv, opera' \in OperaState, Places
  PROVE  Onward /\ PostsAreOnce'
<1>1. opera.post \in [Posts -> Post] /\ opera'.post \in [Posts -> Post] /\ PostsAreOnce
  BY DEF FolioInv, TypeOK, OperaState
<1>2. Onward
  BY DEF Places, Onward
<1>3. ASSUME NEW p \in Posts, opera'.post[p].win = 0 PROVE opera'.post[p] = NoPost
  <2>1. opera.post[p] = NoPost
    BY <1>1, <1>3 DEF PostsAreOnce, Places
  <2> QED
    BY <1>1, <1>3, <2>1 DEF Places, Post, NoPost
<1>4. \A p, q \in Posts : opera'.post[p].ref.kind # "none" /\ opera'.post[q].ref = opera'.post[p].ref => q = p
  BY <1>1 DEF PostsAreOnce, Places
<1>5. \A p \in Posts : opera'.post[p].by \in Outlets /\ opera'.post[p].voids = 0 =>
        opera'.post[p].ref.kind = "charge"
  BY <1>1 DEF PostsAreOnce, Places
<1>6. ASSUME NEW p \in Posts, opera'.post[p].voids # 0
      PROVE  Reverses(p, opera.post[p].voids)'
  <2>1. opera.post[p].voids # 0 /\ opera.post[p].voids \in Posts /\ opera'.post[p].voids = opera.post[p].voids
    BY <1>1, <1>6 DEF Places, Post
  <2>2. Reverses(p, opera.post[p].voids)
    BY <1>1, <2>1 DEF PostsAreOnce
  <2> QED
    BY <2>1, <2>2 DEF Reverses, IsCharge, Places
<1> QED
  BY <1>2, <1>3, <1>4, <1>5, <1>6 DEF PostsAreOnce

(* What a request may ask of OPERA.                                        *)
Sends(q) ==
  /\ q.win \in Windows
  /\ \/ q.op = "open"
     \/ q.op = "transfer" /\ q.post \in Posts
     \/ q.op = "post" /\ q.by \notin Outlets
     \/ q.op = "pay" /\ q.by \notin Outlets /\ q.ref.kind # "none"
     \/ q.op = "charge" /\ q.by \in Outlets /\ q.ref.kind = "charge"
     \/ q.op = "void" /\ MayReverse(q)

(* What OPERA does with a request.                                         *)
LEMMA PostingType ==
  ASSUME NEW q \in Requests
  PROVE  /\ Posting(q) \in Post /\ Posting(q).ref = q.ref /\ Posting(q).by = q.by
         /\ Posting(q).voids = 0 /\ Posting(q).amt = q.amt
BY Values DEF Posting, NoPost, Post, Requests

(* A reversal is sound: it names the charge it reverses.                   *)
LEMMA VoidsStep ==
  ASSUME FolioInv, NEW q \in Requests, MayReverse(q), OperaVoids(q.post, Posting(q))
  PROVE  /\ opera' \in OperaState /\ Onward /\ PostsAreOnce'
         /\ \E p \in Posts, r \in Post :
              /\ Adds(p, r) /\ r.ref = q.ref /\ r.by = q.by /\ r.voids = q.post
              /\ Sound(r)
<1> DEFINE new == [Posting(q) EXCEPT !.amt = Opposite[opera.post[q.post].amt], !.voids = q.post]
<1>1. PICK o \in Outlets, k \in Checks :
        q.post \in Posts /\ IsCharge(q.post, o, k) /\ q.by = o /\ q.ref = Ref(k, "void")
  BY DEF MayReverse
<1>2. opera.post[q.post] \in Post /\ opera.post[q.post].win # 0
  BY <1>1 DEF FolioInv, TypeOK, OperaState, OperaVoids
<1>3. opera.post[q.post].win \in Windows /\ Opposite[opera.post[q.post].amt] \in Amounts
  BY <1>2 DEF Post, Opposite, Amounts
<1>4. new \in Post /\ new.ref = q.ref /\ new.by = q.by /\ new.voids = q.post
  BY <1>1, <1>3, PostingType DEF Post
<1>5. q.post # 0
  BY <1>1 DEF Posts
<1>6. Sound(new)
  BY <1>1, <1>4, <1>5 DEF Sound
<1>7. OperaPosts(opera.post[q.post].win, new)
  BY DEF OperaVoids
<1>8. /\ opera' \in OperaState /\ Onward /\ PostsAreOnce'
      /\ \E p \in Posts : Adds(p, [new EXCEPT !.win = opera.post[q.post].win])
  BY <1>3, <1>4, <1>6, <1>7, PostsStep
<1> DEFINE r == [new EXCEPT !.win = opera.post[q.post].win]
<1>9. r \in Post /\ r.ref = q.ref /\ r.by = q.by /\ r.voids = q.post
  BY <1>3, <1>4 DEF Post
<1>10. Sound(r)
  BY <1>1, <1>9, <1>5 DEF Sound
<1> HIDE DEF new, r
<1> QED
  BY <1>8, <1>9, <1>10 DEF r

(* Whatever OPERA does keeps the invariant's part about its postings.      *)
LEMMA DoesStep ==
  ASSUME FolioInv, NEW q \in Requests, Sends(q), Does(q)
  PROVE  /\ opera' \in OperaState /\ Onward /\ PostsAreOnce'
         /\ q.op \in {"pay", "charge", "void"} => q.ref.kind # "none" /\ Made(opera'.post, q)
<1>1. opera \in OperaState
  BY DEF FolioInv, TypeOK
<1>2. CASE q.op = "open" /\ OperaOpens(q.win)
  <2>1. opera' \in OperaState /\ Places
    BY <1>1, <1>2 DEF OperaOpens, OperaState, WindowState, Places
  <2> QED
    BY <1>2, <2>1, PlacesOnce
<1>3. CASE q.op = "transfer" /\ OperaMoves(q.post, q.win)
  <2>1. q.post \in Posts /\ q.win \in Windows /\ q.win # 0
    BY <1>3 DEF Sends, Windows
  <2>2. opera' = [opera EXCEPT !.post[q.post].win = q.win] /\ opera.post[q.post].win # 0
    BY <1>3 DEF OperaMoves, Windows
  <2>3. opera' \in OperaState /\ Places
    BY <1>1, <2>1, <2>2 DEF OperaState, Post, Places
  <2> QED
    BY <1>3, <2>3, PlacesOnce
<1>4. CASE q.op \in {"post", "pay", "charge"} /\ OperaPosts(q.win, Posting(q))
  <2>1. Sound(Posting(q)) /\ q.win \in Windows
    BY <1>4, PostingType DEF Sends, Sound
  <2>2. /\ opera' \in OperaState /\ Onward /\ PostsAreOnce'
        /\ \E p \in Posts : Adds(p, [Posting(q) EXCEPT !.win = q.win])
    BY <1>4, <2>1, PostingType, PostsStep
  <2> DEFINE r == [Posting(q) EXCEPT !.win = q.win]
  <2>3. r.win # 0 /\ r.ref = q.ref /\ r.by = q.by
    BY <2>1, PostingType DEF Post, Windows
  <2>4. Made(opera'.post, q)
    BY <1>1, <2>2, <2>3 DEF Made, Adds, OperaState
  <2> QED
    BY <1>4, <2>2, <2>4 DEF Sends
<1>5. CASE q.op = "void" /\ OperaVoids(q.post, Posting(q))
  <2>1. MayReverse(q)
    BY <1>5 DEF Sends
  <2>2. /\ opera' \in OperaState /\ Onward /\ PostsAreOnce'
        /\ \E p \in Posts, r \in Post : Adds(p, r) /\ r.ref = q.ref /\ r.by = q.by
    BY <1>5, <2>1, VoidsStep
  <2>3. Made(opera'.post, q)
    BY <1>1, <2>2 DEF Made, Adds, OperaState
  <2>4. q.ref.kind # "none"
    BY <2>1 DEF MayReverse, Ref
  <2> QED
    BY <1>5, <2>2, <2>3, <2>4
<1> QED
  BY <1>2, <1>3, <1>4, <1>5 DEF Does

(* A request and the answer it got.                                        *)
LEMMA AnsweredStep ==
  ASSUME NEW q \in Requests, opera' \in OperaState, Sends(q),
         q.op \in {"pay", "charge", "void"} => q.ref.kind # "none" /\ Made(opera'.post, q)
  PROVE  Answered(q) \in Requests /\ Holds(Answered(q), opera'.post)
<1> DEFINE a == AnswerOn(Touched(q), opera')
<1>1. opera'.win \in [Windows -> WindowState] /\ opera'.post \in [Posts -> Post]
  BY DEF OperaState
<1>2. a.last \in Nat
  BY PostsAreFinite DEF AnswerOn
<1>3. a.win \in [Windows -> WindowState] /\ a.at \in [Posts -> Windows \cup {0}]
  BY <1>1 DEF AnswerOn, WindowState, Post
<1>4. a \in Answer
  BY <1>2, <1>3 DEF AnswerOn, Answer
<1>5. \A p \in Posts : a.at[p] # 0 => opera'.post[p].win # 0
  BY DEF AnswerOn
<1> HIDE DEF a
<1> DEFINE b == [q EXCEPT !.at = "mirror", !.post = 0, !.amt = 1, !.ans = a]
<1>6. Answered(q) = b
  BY DEF Answered, a
<1>7. b \in Requests
  BY <1>4 DEF Requests, Stages, Amounts
<1>8. /\ b.at = "mirror" /\ b.ans = a
      /\ b.win = q.win /\ b.op = q.op /\ b.ref = q.ref /\ b.by = q.by
  BY DEF Requests
<1> HIDE DEF b
<1>9. Holds(b, opera'.post)
  BY <1>5, <1>8 DEF Holds, Made, Sends
<1> QED
  BY <1>6, <1>7, <1>9

-----------------------------------------------------------------------------
(* The steps.                                                              *)

(* The invariant after a step that changes none of our rows.               *)
LEMMA KeepsRows ==
  ASSUME FolioInv, NEW c \in Clerks, NEW q \in Requests,
         req' = [req EXCEPT ![c] = q], Holds(q, opera'.post),
         opera' \in OperaState, Onward, PostsAreOnce', UNCHANGED local,
         stay' \in {"IN_HOUSE", "CHECKED_OUT"}, calm' \in BOOLEAN, troubles' \in 0..MaxTrouble
  PROVE  FolioInv'
<1>1. req' \in [Clerks -> Requests] /\ InFlightInv'
  BY RequestStep
<1>2. RowsAreReal' /\ VoidedIsReversed'
  BY LocalOnward
<1>3. local' \in LocalState
  BY DEF FolioInv, TypeOK
<1> QED
  BY <1>1, <1>2, <1>3 DEF FolioInv, TypeOK

(* OPERA unchanged is OPERA with nothing forgotten.                        *)
LEMMA StillOnward ==
  ASSUME FolioInv, UNCHANGED opera
  PROVE  opera' \in OperaState /\ Onward /\ PostsAreOnce'
BY DEF FolioInv, TypeOK, Onward, PostsAreOnce, Reverses, IsCharge

(* A request that does not wait for OPERA counts on nothing.               *)
LEMMA RestHolds ==
  ASSUME NEW q, \A p \in Posts : q.ans.at[p] = 0, q.at \in {"idle", "close"}
  PROVE  \A post : Holds(q, post)
BY DEF Holds

(* A clerk without a request counts on nothing.                            *)
LEMMA IdleHolds == \A post : Holds(Idle, post)
BY RestHolds DEF Idle, NoAnswer

(* A request that is begun, and waits for OPERA or for its windows.        *)
LEMMA BeginsStep ==
  ASSUME FolioInv, NEW c \in Clerks, NEW q \in Requests, Begins(c, q), Holds(q, opera.post)
  PROVE  FolioInv'
<1>1. req' = [req EXCEPT ![c] = q] /\ UNCHANGED <<opera, local, stay, troubles>> /\ calm' \in BOOLEAN
  BY DEF Begins, FolioInv, TypeOK, Quiet
<1>2. opera' \in OperaState /\ Onward /\ PostsAreOnce'
  BY <1>1, StillOnward
<1> QED
  BY <1>1, <1>2, KeepsRows DEF FolioInv, TypeOK

(* A request that asks OPERA at once.                                      *)
LEMMA CallsStep ==
  ASSUME FolioInv, NEW c \in Clerks, NEW q \in Requests, Sends(q), Calls(c, q)
  PROVE  FolioInv'
<1>1. /\ Does(q) /\ req' = [req EXCEPT ![c] = Answered(q)]
      /\ UNCHANGED <<local, stay, troubles>> /\ calm' \in BOOLEAN
  BY DEF Calls, FolioInv, TypeOK, Quiet
<1>2. /\ opera' \in OperaState /\ Onward /\ PostsAreOnce'
      /\ q.op \in {"pay", "charge", "void"} => q.ref.kind # "none" /\ Made(opera'.post, q)
  BY <1>1, DoesStep
<1>3. Answered(q) \in Requests /\ Holds(Answered(q), opera'.post)
  BY <1>2, AnsweredStep
<1> QED
  BY <1>1, <1>2, <1>3, KeepsRows DEF FolioInv, TypeOK

(* What a request at the desk or of a payment is made of.                  *)
LEMMA RequestFields ==
  ASSUME NEW op, NEW w, NEW p, NEW amt, NEW ref, NEW by
  PROVE  LET q == Request(op, w, p, amt, ref, by) IN
         /\ q.at = "core" /\ q.op = op /\ q.win = w /\ q.post = p /\ q.ref = ref /\ q.by = by
         /\ q.ans = NoAnswer
BY DEF Request, Idle

(* Opening a window is a request that may be sent.                         *)
LEMMA OpenSends ==
  ASSUME NEW w \in Windows
  PROVE  LET q == Request("open", w, 0, 1, NoRef, "desk") IN q \in Requests /\ Sends(q)
<1>1. Request("open", w, 0, 1, NoRef, "desk") \in Requests
  BY Values, RequestType DEF Ops, Amounts, Makers
<1> QED
  BY <1>1, RequestFields DEF Sends

(* A posting at the desk has no check number of an outlet.                 *)
LEMMA PostingSends ==
  ASSUME NEW w \in Windows, NEW amt \in Amounts
  PROVE  LET q == Request("post", w, 0, amt, NoRef, "desk") IN q \in Requests /\ Sends(q)
<1>1. Request("post", w, 0, amt, NoRef, "desk") \in Requests
  BY Values, RequestType DEF Ops, Makers
<1> QED
  BY <1>1, FolioAssumption, RequestFields DEF Sends

(* A payment's posting carries the payment's own number.                   *)
LEMMA PaySends ==
  ASSUME NEW w \in Windows, NEW k \in Checks
  PROVE  LET q == Request("pay", w, 0, -1, Ref(k, "pay"), "payment") IN
         q \in Requests /\ Sends(q)
<1>1. Request("pay", w, 0, -1, Ref(k, "pay"), "payment") \in Requests
  BY RefType, RequestType DEF Ops, Amounts, Makers
<1> QED
  BY <1>1, FolioAssumption, RequestFields DEF Sends, Ref

(* Requests of the desk and of payments keep the invariant.                *)
LEMMA DeskStartsInv ==
  ASSUME FolioInv, NEW c \in Clerks, DeskStarts(c)
  PROVE  FolioInv'
<1>3. ASSUME NEW w \in Windows, StartOpen(c, w) PROVE FolioInv'
  BY <1>3, OpenSends, CallsStep DEF StartOpen
<1>4. ASSUME NEW w \in Windows, NEW amt \in Amounts, StartPosting(c, w, amt) PROVE FolioInv'
  BY <1>4, PostingSends, CallsStep DEF StartPosting
<1>5. ASSUME StartDeposit(c) PROVE FolioInv'
  <2>1. 1 \in Windows /\ -1 \in Amounts
    BY FolioAssumption DEF Windows, Amounts
  <2> QED
    BY <1>4, <1>5, <2>1 DEF StartDeposit
<1>6. ASSUME NEW w \in Windows, NEW k \in Checks, StartPay(c, w, k) PROVE FolioInv'
  <2> DEFINE q == Request("pay", w, 0, -1, Ref(k, "pay"), "payment")
  <2>1. \A r \in Posts : q.ans.at[r] = 0
    BY RequestFields DEF NoAnswer
  <2>2. q.at = "core" /\ q.op = "pay" /\ q.win = w /\ q.by = "payment" /\ q.ref.kind = "pay"
    BY RequestFields DEF Ref
  <2>3. Holds(q, opera.post)
    BY <2>1, <2>2 DEF Holds
  <2>4. q \in Requests /\ Begins(c, q)
    BY <1>6, PaySends DEF StartPay
  <2> QED
    BY <2>3, <2>4, BeginsStep
<1>7. ASSUME NEW w \in Windows, NEW p \in Posts, StartTransfer(c, p, w) PROVE FolioInv'
  <2> DEFINE q == Request("transfer", w, p, 1, NoRef, "desk")
  <2>1. q \in Requests
    BY Values, RequestType DEF Ops, Amounts, Makers
  <2>2. \A r \in Posts : q.ans.at[r] = 0
    BY RequestFields DEF NoAnswer
  <2>3. Holds(q, opera.post)
    BY <2>2, RequestFields DEF Holds
  <2>4. Begins(c, q)
    BY <1>7 DEF StartTransfer
  <2> QED
    BY <2>1, <2>3, <2>4, BeginsStep
<1>8. ASSUME StartCheckOut(c) PROVE FolioInv'
  <2> DEFINE q == [Idle EXCEPT !.at = "close", !.op = "checkOut", !.todo = OpenLocally]
  <2>1. q \in Requests
    BY Values DEF Requests, Stages, Ops, OpenLocally
  <2>2. Holds(q, opera.post)
    BY RestHolds DEF Idle, NoAnswer
  <2>3. Begins(c, q)
    BY <1>8 DEF StartCheckOut
  <2> QED
    BY <2>1, <2>2, <2>3, BeginsStep
<1> QED
  BY <1>3, <1>4, <1>5, <1>6, <1>7, <1>8 DEF DeskStarts, Amounts

(* Requests of an outlet keep the invariant.                               *)
LEMMA PosStartsInv ==
  ASSUME FolioInv, NEW c \in Clerks, PosStarts(c)
  PROVE  FolioInv'
<1>1. ASSUME NEW o \in Outlets, NEW k \in Checks, NEW w \in Windows, StartCharge(c, o, k, w)
      PROVE  FolioInv'
  <2> DEFINE q == Request("charge", w, 0, 1, ChargeRef(k), o)
  <2>1. q \in Requests
    BY RefType, RequestType DEF Ops, Amounts, Makers, ChargeRef
  <2>2. \A r \in Posts : q.ans.at[r] = 0
    BY RequestFields DEF NoAnswer
  <2>3. Holds(q, opera.post)
    BY <2>2, RequestFields DEF Holds, ChargeRef, Ref
  <2>4. Begins(c, q)
    BY <1>1 DEF StartCharge
  <2> QED
    BY <2>1, <2>3, <2>4, BeginsStep
<1>2. ASSUME NEW o \in Outlets, NEW k \in Checks, StartVoid(c, o, k)
      PROVE  FolioInv'
  <2>1. PICK p \in Found(o, k) :
          Begins(c, Request("void", local.row[p].win, p, 1, Ref(k, "void"), o))
    BY <1>2 DEF StartVoid
  <2> DEFINE q == Request("void", local.row[p].win, p, 1, Ref(k, "void"), o)
  <2>2. /\ p \in Posts /\ local.row[p].win # 0 /\ local.row[p].tag = o
        /\ opera.post[p].ref = Ref(k, "charge")
    BY DEF Found
  <2>3. local.row[p] \in Row /\ opera.post[p] \in Post
    BY <2>2 DEF FolioInv, TypeOK, LocalState, OperaState
  <2>4. local.row[p].win \in Windows
    BY <2>2, <2>3 DEF Row
  <2>5. opera.post[p].by = o
    BY <2>2, FolioAssumption DEF FolioInv, RowsAreReal, NoRow
  <2>6. opera.post[p].voids = 0
    <3> SUFFICES ASSUME opera.post[p].voids # 0 PROVE FALSE
      OBVIOUS
    <3>1. Reverses(p, opera.post[p].voids)
      BY <2>2 DEF FolioInv, PostsAreOnce
    <3>2. opera.post[p].ref.kind = "void"
      BY <3>1 DEF Reverses, Ref
    <3> QED
      BY <2>2, <3>2 DEF Ref
  <2>7. q \in Requests
    BY <2>2, <2>4, RefType, RequestType DEF Ops, Amounts, Makers
  <2>8. \A r \in Posts : q.ans.at[r] = 0
    BY RequestFields DEF NoAnswer
  <2>9. q.at = "core" /\ q.op = "void" /\ q.win = local.row[p].win /\ Reversed(opera.post, q)
    BY <2>2, <2>5, <2>6, RequestFields DEF Reversed
  <2>10. Holds(q, opera.post)
    BY <2>4, <2>8, <2>9 DEF Holds
  <2> QED
    BY <2>1, <2>7, <2>10, BeginsStep
<1> QED
  BY <1>1, <1>2 DEF PosStarts

(* A request that waited, and OPERA's answer.                              *)
LEMMA CoreAnswersInv ==
  ASSUME FolioInv, NEW c \in Clerks, CoreAnswers(c)
  PROVE  FolioInv'
<1> DEFINE q == req[c]
<1>1. q \in Requests /\ Holds(q, opera.post) /\ q.at = "core"
  BY HoldsIsInv DEF FolioInv, TypeOK, CoreAnswers, At
<1>2. /\ Does(q) /\ req' = [req EXCEPT ![c] = Answered(q)]
      /\ UNCHANGED <<local, stay, calm, troubles>>
  BY DEF CoreAnswers, FolioInv, TypeOK
<1>3. q.op = "void" => MayReverse(q)
  BY <1>1 DEF Holds, Reversed, MayReverse, IsCharge
<1>4. Sends(q)
  BY <1>1, <1>3, FolioAssumption DEF Holds, Sends
<1>5. /\ opera' \in OperaState /\ Onward /\ PostsAreOnce'
      /\ q.op \in {"pay", "charge", "void"} => q.ref.kind # "none" /\ Made(opera'.post, q)
  BY <1>1, <1>2, <1>4, DoesStep
<1>6. Answered(q) \in Requests /\ Holds(Answered(q), opera'.post)
  BY <1>1, <1>4, <1>5, AnsweredStep
<1> QED
  BY <1>2, <1>5, <1>6, KeepsRows DEF FolioInv, TypeOK

(* A failure is counted, within its bound.                                 *)
LEMMA FailsStep ==
  ASSUME FolioInv, NEW kind, Fails(kind)
  PROVE  calm' \in BOOLEAN /\ troubles' \in 0..MaxTrouble
<1>1. troubles \in 0..MaxTrouble /\ MaxTrouble \in Nat
  BY FolioAssumption DEF FolioInv, TypeOK
<1>2. troubles < MaxTrouble /\ troubles' = troubles + 1 /\ calm' = FALSE
  BY DEF Fails
<1>3. troubles' \in 0..MaxTrouble
  BY <1>1, <1>2
<1> QED
  BY <1>2, <1>3

(* The windows closed at check-out, and requests that end early.           *)
LEMMA ClosesInv ==
  ASSUME FolioInv, NEW c \in Clerks, CloseWindow(c) \/ CloseFails(c)
  PROVE  FolioInv'
<1>1. req[c] \in Requests /\ Holds(req[c], opera.post) /\ req[c].at = "close"
  BY HoldsIsInv DEF FolioInv, TypeOK, CloseWindow, CloseFails, At
<1>2. PICK w \in req[c].todo :
        /\ OperaCloses(w) \/ UNCHANGED opera
        /\ NextWindow(c, w)
  BY DEF CloseWindow, CloseFails
<1> DEFINE q == [req[c] EXCEPT !.todo = @ \ {w}]
<1>3. q \in Requests /\ q.ans = req[c].ans /\ q.at = "close" /\ req' = [req EXCEPT ![c] = q]
  BY <1>1, <1>2 DEF Requests, NextWindow, FolioInv, TypeOK
<1>4. opera' \in OperaState /\ Onward /\ PostsAreOnce'
  <2>1. CASE OperaCloses(w)
    <3>1. w \in Windows
      BY <1>1, <1>2 DEF Requests
    <3>2. opera' \in OperaState /\ Places
      BY <2>1, <3>1 DEF OperaCloses, FolioInv, TypeOK, OperaState, WindowState, Places
    <3> QED
      BY <3>2, PlacesOnce
  <2>2. CASE UNCHANGED opera
    BY <2>2, StillOnward
  <2> QED
    BY <1>2, <2>1, <2>2
<1>5. Holds(q, opera.post)
  BY <1>1, <1>3 DEF Holds
<1>6. Holds(q, opera'.post)
  BY <1>3, <1>4, <1>5, HoldsOnward DEF FolioInv
<1>7. /\ UNCHANGED <<local, stay>>
      /\ UNCHANGED <<calm, troubles>> \/ Fails("close")
  BY DEF CloseWindow, CloseFails
<1>8. calm' \in BOOLEAN /\ troubles' \in 0..MaxTrouble
  BY <1>7, FailsStep DEF FolioInv, TypeOK
<1> QED
  BY <1>3, <1>4, <1>6, <1>7, <1>8, KeepsRows DEF FolioInv, TypeOK

(* Requests that end without copying an answer keep the invariant.         *)
LEMMA EndsInv ==
  ASSUME FolioInv, NEW c \in Clerks, CoreRefuses(c) \/ Dies(c) \/ FinishCheckOut(c)
  PROVE  FolioInv'
<1>1. /\ req' = [req EXCEPT ![c] = Idle] /\ UNCHANGED opera
      /\ stay' \in {"IN_HOUSE", "CHECKED_OUT"} /\ calm' \in BOOLEAN /\ troubles' \in 0..MaxTrouble
  <2>1. CASE CoreRefuses(c)
    BY <2>1 DEF CoreRefuses, Ends, FolioInv, TypeOK
  <2>2. CASE Dies(c)
    BY <2>2, FailsStep DEF Dies, Ends, FolioInv, TypeOK
  <2>3. CASE FinishCheckOut(c)
    BY <2>3 DEF FinishCheckOut, Ends, FolioInv, TypeOK
  <2> QED
    BY <2>1, <2>2, <2>3
<1>2. opera' \in OperaState /\ Onward /\ PostsAreOnce'
  BY <1>1, StillOnward
<1>3. req' \in [Clerks -> Requests] /\ InFlightInv'
  BY <1>1, <1>2, Values, IdleHolds, RequestStep
<1>4. local' \in LocalState /\ local'.row = local.row
  BY DEF CoreRefuses, Dies, FinishCheckOut, FolioInv, TypeOK, LocalState, WindowState
<1>5. RowsAreReal' /\ VoidedIsReversed'
  BY <1>1, <1>4 DEF FolioInv, RowsAreReal, VoidedIsReversed
<1> QED
  BY <1>1, <1>2, <1>3, <1>4, <1>5 DEF FolioInv, TypeOK

-----------------------------------------------------------------------------
(* The copy of an answer.                                                  *)

(* A row of ours is nothing, or a posting OPERA has, with the tag of who   *)
(* made it, and the reversal it names is one.                              *)
RowIsReal(r, p) ==
  /\ r \in Row
  /\ r # NoRow => r.win # 0 /\ opera.post[p].win # 0 /\ r.tag \in {"none", opera.post[p].by}
  /\ r.voided # 0 => opera.post[r.voided].voids = p

(* RowsAreReal, said of one row at a time.                                 *)
LEMMA RowsAreRealRows ==
  ASSUME FolioInv
  PROVE  \A p \in Posts : RowIsReal(local.row[p], p)
BY DEF FolioInv, TypeOK, LocalState, RowsAreReal, VoidedIsReversed, RowIsReal

(* A posting we have no row of is nothing to check.                        *)
LEMMA NoRowIsReal == \A p \in Posts : RowIsReal(NoRow, p)
<1>1. NoRow.voided = 0
  BY DEF NoRow
<1> QED
  BY <1>1, Values DEF RowIsReal

(* The reversal a row names once an answer was copied.                     *)
LEMMA VoidLinkStep ==
  ASSUME FolioInv, NEW a \in Answer, NEW p \in Posts
  PROVE  LET v == VoidLink(local, a, p) IN
         /\ v \in Posts \cup {0}
         /\ v # 0 => opera.post[v].voids = p
         /\ p \notin Kept(a) => v \in {0, local.row[p].voided}
<1> DEFINE old == local.row[p]
           v == VoidLink(local, a, p)
           links == IF p \in Kept(a) THEN Reversal(local, a, p) ELSE {}
           link == IF links = {} THEN old.voided ELSE CHOOSE q \in links : TRUE
<1>1. old.voided \in Posts \cup {0} /\ (old.voided # 0 => opera.post[old.voided].voids = p)
  BY RowsAreRealRows DEF RowIsReal, Row
<1>2. \A q \in links : q \in Posts /\ opera.post[q].voids = p
  BY DEF Reversal
<1>3. links # {} => (CHOOSE q \in links : TRUE) \in links
  OBVIOUS
<1>4. link \in Posts \cup {0} /\ (link # 0 => opera.post[link].voids = p)
  BY <1>1, <1>2, <1>3
<1>5. v = IF link \in Gone(local, a) THEN 0 ELSE link
  BY DEF VoidLink
<1>6. p \notin Kept(a) => link = old.voided
  OBVIOUS
<1> HIDE DEF links, link
<1> QED
  BY <1>4, <1>5, <1>6

(* A row after an answer was copied.                                       *)
LEMMA MirroredRowStep ==
  ASSUME FolioInv, NEW a \in Answer, NEW p \in Posts,
         \A s \in Posts : a.at[s] # 0 => opera.post[s].win # 0
  PROVE  RowIsReal(MirroredRow(local, a, p), p)
<1> DEFINE old == local.row[p]
           v == VoidLink(local, a, p)
<1>1. RowIsReal(old, p) /\ a.at[p] \in Windows \cup {0}
  BY RowsAreRealRows DEF Answer
<1>2. /\ v \in Posts \cup {0}
      /\ v # 0 => opera.post[v].voids = p
      /\ p \notin Kept(a) => v \in {0, old.voided}
  BY VoidLinkStep
<1> HIDE DEF v
<1>3. CASE p \in Gone(local, a)
  BY <1>3, NoRowIsReal DEF MirroredRow
<1>4. CASE p \notin Gone(local, a) /\ p \in Kept(a)
  <2>1. a.at[p] # 0 /\ opera.post[p].win # 0
    BY <1>4 DEF Kept
  <2>2. MirroredRow(local, a, p) = [old EXCEPT !.win = a.at[p], !.voided = v]
    BY <1>4 DEF MirroredRow, v
  <2>3. old.tag \in {"none", opera.post[p].by}
    BY <1>1 DEF RowIsReal, NoRow
  <2> QED
    BY <1>1, <1>2, <2>1, <2>2, <2>3 DEF RowIsReal, Row
<1>5. CASE p \notin Gone(local, a) /\ p \notin Kept(a)
  <2>1. MirroredRow(local, a, p) = [old EXCEPT !.win = old.win, !.voided = v]
    BY <1>5 DEF MirroredRow, v
  <2> DEFINE r == MirroredRow(local, a, p)
  <2>2. r \in Row /\ r.win = old.win /\ r.tag = old.tag /\ r.voided = v
    BY <1>1, <1>2, <2>1 DEF Row, RowIsReal
  <2> HIDE DEF r
  <2>3. CASE old = NoRow
    <3>1. r.win = 0 /\ r.tag = "none" /\ r.voided = 0
      BY <1>2, <1>5, <2>2, <2>3 DEF NoRow
    <3>2. r = NoRow
      BY <2>2, <3>1 DEF NoRow, Row
    <3> QED
      BY <3>2, NoRowIsReal DEF r
  <2>4. CASE old # NoRow
    <3>1. old.win # 0 /\ opera.post[p].win # 0 /\ old.tag \in {"none", opera.post[p].by}
      BY <1>1, <2>4 DEF RowIsReal
    <3> HIDE DEF old
    <3>2. RowIsReal(r, p)
      BY <1>2, <2>2, <3>1 DEF RowIsReal
    <3> QED
      BY <3>2 DEF r
  <2> QED
    BY <2>3, <2>4
<1> QED
  BY <1>3, <1>4, <1>5

(* All rows and windows after an answer was copied.                        *)
LEMMA MirroredStep ==
  ASSUME FolioInv, NEW a \in Answer,
         \A s \in Posts : a.at[s] # 0 => opera.post[s].win # 0
  PROVE  Mirrored(local, a) \in LocalState
<1> DEFINE m == Mirrored(local, a)
<1>1. m.win \in [Windows -> WindowState]
  BY DEF Mirrored, MirroredWindows, FolioInv, TypeOK, LocalState, Answer
<1>2. m.bal \in [Windows -> Int]
  BY BalanceType DEF Mirrored, MirroredBalances, BalanceIn, FolioInv, TypeOK, LocalState
<1>3. m.row \in [Posts -> Row]
  BY MirroredRowStep DEF Mirrored, RowIsReal
<1> QED
  BY <1>1, <1>2, <1>3 DEF Mirrored, LocalState

(* Copying an answer keeps the invariant (mirrorFolios).                   *)
LEMMA WriteMirrorInv ==
  ASSUME FolioInv, NEW c \in Clerks, WriteMirror(c)
  PROVE  FolioInv'
<1> DEFINE q == req[c]
           m == Mirrored(local, q.ans)
<1>1. q \in Requests /\ Holds(q, opera.post) /\ q.at = "mirror"
  BY HoldsIsInv DEF FolioInv, TypeOK, WriteMirror, At
<1>2. /\ local' = IF RolledBack(m, q) THEN local ELSE Copied(local, q)
      /\ req' = [req EXCEPT ![c] = Idle] /\ UNCHANGED <<opera, stay, calm, troubles>>
  BY DEF WriteMirror, Ends
<1>3. opera' \in OperaState /\ Onward /\ PostsAreOnce'
  BY <1>2, StillOnward
<1>4. CASE local' = local
  BY <1>2, <1>3, <1>4, Values, IdleHolds, KeepsRows DEF FolioInv, TypeOK
<1>5. CASE local' = Copied(local, q)
  <2>1. q.ans \in Answer /\ \A s \in Posts : q.ans.at[s] # 0 => opera.post[s].win # 0
    BY <1>1 DEF Requests, Holds
  <2>2. m \in LocalState
    BY <2>1, MirroredStep
  <2>3. ASSUME NEW p \in Posts PROVE RowIsReal(m.row[p], p)
    <3>1. m.row[p] = MirroredRow(local, q.ans, p)
      BY DEF Mirrored
    <3> QED
      BY <2>1, <3>1, MirroredRowStep
  <2> HIDE DEF m
  <2>4. ASSUME q.op \in {"pay", "charge", "void"}, NEW p \in Own(q, m)
        PROVE  p \in Posts /\ m.row[p].win # 0 /\ q.by = opera.post[p].by
    <3>1. p \in Posts /\ m.row[p].win = q.win /\ opera.post[p].ref = q.ref
      BY <2>4 DEF Own
    <3>2. q.win # 0
      BY <1>1 DEF Holds, Windows
    <3>3. q.ref.kind # "none" /\ Made(opera.post, q)
      BY <1>1, <2>4 DEF Holds
    <3>4. \A s \in Posts : opera.post[s].ref = q.ref => s = p
      BY <3>1, <3>3 DEF FolioInv, PostsAreOnce
    <3> QED
      BY <3>1, <3>2, <3>3, <3>4 DEF Made
  <2>5. local' \in LocalState /\ \A p \in Posts : RowIsReal(local'.row[p], p)
    <3>1. CASE q.op \notin {"pay", "charge", "void"}
      <4>1. local' = m
        BY <1>5, <3>1 DEF Copied, m
      <4> QED
        BY <2>2, <2>3, <4>1
    <3>2. CASE q.op \in {"pay", "charge", "void"}
      <4> DEFINE rows == [p \in Posts |->
                   IF p \in Own(q, m) THEN [m.row[p] EXCEPT !.tag = q.by] ELSE m.row[p]]
      <4>1. local' = [m EXCEPT !.row = rows]
        BY <1>5, <3>2 DEF Copied, Tagged, m
      <4>2. q.by \in Makers
        BY <1>1 DEF Requests
      <4>3. ASSUME NEW p \in Posts
            PROVE  RowIsReal(rows[p], p)
        <5>1. CASE p \in Own(q, m)
          <6>1. rows[p] = [m.row[p] EXCEPT !.tag = q.by]
            BY <5>1
          <6>2. m.row[p].win # 0 /\ q.by = opera.post[p].by
            BY <2>4, <3>2, <5>1
          <6>3. m.row[p] # NoRow
            BY <6>2 DEF NoRow
          <6> HIDE DEF rows
          <6> QED
            BY <2>3, <4>2, <6>1, <6>2, <6>3 DEF Row, RowIsReal
        <5>2. CASE p \notin Own(q, m)
          BY <2>3, <5>2
        <5> QED
          BY <5>1, <5>2
      <4>4. rows \in [Posts -> Row]
        BY <4>3 DEF RowIsReal
      <4> HIDE DEF rows
      <4> QED
        BY <2>2, <4>1, <4>3, <4>4 DEF LocalState
    <3> QED
      BY <3>1, <3>2
  <2>6. RowsAreReal' /\ VoidedIsReversed'
    BY <1>2, <2>5 DEF RowsAreReal, VoidedIsReversed, RowIsReal
  <2>7. req' \in [Clerks -> Requests] /\ InFlightInv'
    BY <1>2, <1>3, Values, IdleHolds, RequestStep
  <2> QED
    BY <1>2, <1>3, <2>5, <2>6, <2>7 DEF FolioInv, TypeOK
<1> QED
  BY <1>2, <1>4, <1>5

-----------------------------------------------------------------------------
(* Every step keeps the invariant.                                         *)

(* The first state satisfies the invariant.                                *)
LEMMA InitInv == Init => FolioInv
<1> SUFFICES ASSUME Init PROVE FolioInv
  OBVIOUS
<1>1. opera.post = [p \in Posts |-> NoPost] /\ local.row = [p \in Posts |-> NoRow]
      /\ req = [c \in Clerks |-> Idle]
  BY DEF Init, Start
<1>2. TypeOK
  BY Values, FolioAssumption DEF Init, Start, TypeOK, OperaState, LocalState
<1>3. RowsAreReal /\ VoidedIsReversed
  BY <1>1 DEF RowsAreReal, VoidedIsReversed, NoRow
<1>4. PostsAreOnce
  BY <1>1, FolioAssumption DEF PostsAreOnce, NoPost, NoRef
<1>5. InFlightInv
  BY <1>1, IdleHolds, HoldsIsInv
<1> QED
  BY <1>2, <1>3, <1>4, <1>5 DEF FolioInv

(* Every step keeps it.                                                    *)
LEMMA NextInv ==
  ASSUME FolioInv, [Next]_vars
  PROVE  FolioInv'
<1>1. CASE UNCHANGED vars
  BY <1>1 DEF vars, FolioInv, TypeOK, RowsAreReal, VoidedIsReversed, PostsAreOnce, Reverses,
              IsCharge, InFlightInv, MayReverse, At
<1>2. CASE Next
  <2>1. PICK c \in Clerks : DeskStarts(c) \/ PosStarts(c) \/ Resumes(c) \/ Troubled(c)
    BY <1>2 DEF Next
  <2> QED
    BY <2>1, DeskStartsInv, PosStartsInv, CoreAnswersInv, WriteMirrorInv, ClosesInv, EndsInv
       DEF Resumes, Troubled
<1> QED
  BY <1>1, <1>2

(* Our rows are postings OPERA has, what we say is voided is reversed, a   *)
(* check number is on the bill once, and nothing a request was answered is *)
(* taken back, however requests interleave and fail (folios.service.ts,    *)
(* folio-mirror.ts, pos.service.ts).                                       *)
THEOREM FolioInvariant == Spec => []FolioInv
<1>1. Init => FolioInv
  BY InitInv
<1>2. FolioInv /\ [Next]_vars => FolioInv'
  BY NextInv
<1> QED
  BY <1>1, <1>2, PTL DEF Spec

-----------------------------------------------------------------------------
(* A check of an outlet is charged once and reversed once.                 *)

Keys == Outlets \X Checks

(* OPERA either keeps its postings where they count, or adds one.          *)
Added(r) ==
  /\ r \in Post /\ Sound(r)
  /\ \E p \in Posts : Adds(p, r)

(* OPERA adds one posting it did not know, or only moves some.             *)
LEMMA DoesAdds ==
  ASSUME FolioInv, NEW q \in Requests, Sends(q), Does(q)
  PROVE  Places \/ \E r \in Post : Added(r)
<1>1. opera \in OperaState
  BY DEF FolioInv, TypeOK
<1>2. CASE q.op = "open" /\ OperaOpens(q.win)
  BY <1>1, <1>2 DEF OperaOpens, OperaState, Places
<1>3. CASE q.op = "transfer" /\ OperaMoves(q.post, q.win)
  <2>1. q.post \in Posts /\ q.win \in Windows /\ q.win # 0
    BY <1>3 DEF Sends, Windows
  <2>2. opera' = [opera EXCEPT !.post[q.post].win = q.win] /\ opera.post[q.post].win # 0
    BY <1>3 DEF OperaMoves, Windows
  <2> QED
    BY <1>1, <2>1, <2>2 DEF OperaState, Post, Places
<1>4. CASE q.op \in {"post", "pay", "charge"} /\ OperaPosts(q.win, Posting(q))
  <2>1. Sound(Posting(q)) /\ q.win \in Windows
    BY <1>4, PostingType DEF Sends, Sound
  <2> DEFINE r == [Posting(q) EXCEPT !.win = q.win]
  <2>2. \E p \in Posts : Adds(p, r)
    BY <1>4, <2>1, PostingType, PostsStep
  <2>3. /\ r \in Post /\ r.by = q.by /\ r.voids = 0 /\ r.ref = q.ref
    BY <2>1, PostingType DEF Post
  <2>4. Sound(r)
    BY <2>1, <2>3, PostingType DEF Sound
  <2> HIDE DEF r
  <2> QED
    BY <2>2, <2>3, <2>4 DEF Added
<1>5. CASE q.op = "void" /\ OperaVoids(q.post, Posting(q))
  <2>1. MayReverse(q)
    BY <1>5 DEF Sends
  <2> QED
    BY <1>5, <2>1, VoidsStep DEF Added
<1> QED
  BY <1>2, <1>3, <1>4, <1>5 DEF Does

(* So does every step of the system.                                       *)
LEMMA StepAdds ==
  ASSUME FolioInv, [Next]_vars
  PROVE  Places \/ \E r \in Post : Added(r)
<1>1. CASE UNCHANGED opera
  BY <1>1 DEF Places
<1>2. ASSUME NEW c \in Clerks, NEW q \in Requests, Sends(q), Calls(c, q)
      PROVE  Places \/ \E r \in Post : Added(r)
  BY <1>2, DoesAdds DEF Calls
<1>3. ASSUME NEW c \in Clerks, CoreAnswers(c)
      PROVE  Places \/ \E r \in Post : Added(r)
  <2>1. req[c] \in Requests /\ Holds(req[c], opera.post) /\ req[c].at = "core" /\ Does(req[c])
    BY <1>3, HoldsIsInv DEF FolioInv, TypeOK, CoreAnswers, At
  <2>2. req[c].op = "void" => MayReverse(req[c])
    BY <2>1 DEF Holds, Reversed, MayReverse, IsCharge
  <2>3. Sends(req[c])
    BY <2>1, <2>2, FolioAssumption DEF Holds, Sends
  <2> QED
    BY <2>1, <2>3, DoesAdds
<1>4. ASSUME NEW c \in Clerks, DeskStarts(c)
      PROVE  Places \/ \E r \in Post : Added(r)
  <2>1. CASE \E w \in Windows : StartOpen(c, w)
    BY <2>1, <1>2, OpenSends DEF StartOpen
  <2>2. CASE \E w \in Windows, amt \in Amounts : StartPosting(c, w, amt)
    BY <2>2, <1>2, PostingSends DEF StartPosting
  <2>3. CASE \/ \E w \in Windows, p \in Posts : StartTransfer(c, p, w)
             \/ \E w \in Windows, k \in Checks : StartPay(c, w, k)
             \/ StartCheckOut(c)
    BY <1>1, <2>3 DEF StartTransfer, StartPay, StartCheckOut, Begins
  <2>4. StartDeposit(c) => \E w \in Windows, amt \in Amounts : StartPosting(c, w, amt)
    BY FolioAssumption DEF StartDeposit, Windows, Amounts
  <2> QED
    BY <1>4, <2>1, <2>2, <2>3, <2>4 DEF DeskStarts
<1>5. ASSUME NEW c \in Clerks, PosStarts(c) PROVE UNCHANGED opera
  BY <1>5 DEF PosStarts, StartCharge, StartVoid, Begins
<1>6. ASSUME NEW c \in Clerks, CoreRefuses(c) \/ WriteMirror(c) \/ FinishCheckOut(c) \/ Troubled(c)
      PROVE  UNCHANGED opera
  BY <1>6 DEF CoreRefuses, WriteMirror, FinishCheckOut, Troubled, CloseFails, Dies
<1>7. ASSUME NEW c \in Clerks, CloseWindow(c) PROVE Places
  <2>1. opera'.post = opera.post
    BY <1>7 DEF CloseWindow, OperaCloses, FolioInv, TypeOK, OperaState
  <2> QED
    BY <2>1 DEF Places
<1> QED
  BY <1>1, <1>3, <1>4, <1>5, <1>6, <1>7 DEF Next, Resumes, vars

(* A charge is on the bill once, and so is its reversal.                   *)
LEMMA ChargesOnce ==
  ASSUME FolioInv, NEW o \in Outlets, NEW k \in Checks
  PROVE  /\ \A p \in Charges(<<o, k>>) : IsCharge(p, o, k) /\ p \in Posts /\ opera.post[p].win # 0
         /\ \A q \in Reversals(<<o, k>>) :
              /\ q \in Posts /\ opera.post[q].ref = Ref(k, "void")
              /\ opera.post[q].win # 0 /\ opera.post[q].voids # 0
         /\ Once(Charges(<<o, k>>)) /\ Once(Reversals(<<o, k>>))
         /\ Reversals(<<o, k>>) # {} => Charges(<<o, k>>) # {}
<1>1. ASSUME NEW p \in Charges(<<o, k>>)
      PROVE  IsCharge(p, o, k) /\ p \in Posts /\ opera.post[p].win # 0
  <2>1. /\ p \in Posts /\ opera.post[p].win # 0 /\ opera.post[p].by = o
        /\ opera.post[p].voids = 0 /\ opera.post[p].ref.check = k
    BY DEF Charges
  <2>2. opera.post[p].ref.kind = "charge"
    BY <2>1 DEF FolioInv, PostsAreOnce
  <2>3. opera.post[p].ref \in Refs
    BY <2>1 DEF FolioInv, TypeOK, OperaState, Post
  <2> QED
    BY <2>1, <2>2, <2>3 DEF IsCharge, Ref, Refs
<1>2. ASSUME NEW q \in Reversals(<<o, k>>)
      PROVE  /\ q \in Posts /\ opera.post[q].ref = Ref(k, "void")
             /\ opera.post[q].win # 0 /\ opera.post[q].voids # 0
             /\ opera.post[q].voids \in Charges(<<o, k>>)
  <2>1. q \in Posts /\ opera.post[q].voids \in Charges(<<o, k>>)
    BY DEF Reversals
  <2>2. opera.post[q].voids \in Posts /\ opera.post[q].voids # 0
    BY <2>1 DEF Charges, Posts
  <2>3. PICK x \in Outlets, y \in Checks :
          IsCharge(opera.post[q].voids, x, y) /\ opera.post[q].ref = Ref(y, "void")
    BY <2>1, <2>2 DEF FolioInv, PostsAreOnce, Reverses
  <2>4. IsCharge(opera.post[q].voids, o, k)
    BY <1>1, <2>1
  <2>5. y = k
    BY <2>3, <2>4 DEF IsCharge, Ref
  <2>6. opera.post[q].win # 0
    BY <2>1, <2>2, RefIsMade DEF FolioInv
  <2> QED
    BY <2>1, <2>2, <2>3, <2>5, <2>6
<1>3. Once(Charges(<<o, k>>))
  <2> SUFFICES ASSUME NEW x \in Charges(<<o, k>>), NEW y \in Charges(<<o, k>>) PROVE x = y
    BY DEF Once
  <2>1. /\ x \in Posts /\ y \in Posts
        /\ opera.post[x].ref = Ref(k, "charge") /\ opera.post[y].ref = Ref(k, "charge")
    BY <1>1 DEF IsCharge
  <2>2. opera.post[x].ref.kind # "none"
    BY <2>1 DEF Ref
  <2> QED
    BY <2>1, <2>2 DEF FolioInv, PostsAreOnce
<1>4. Once(Reversals(<<o, k>>))
  <2> SUFFICES ASSUME NEW x \in Reversals(<<o, k>>), NEW y \in Reversals(<<o, k>>) PROVE x = y
    BY DEF Once
  <2>1. /\ x \in Posts /\ y \in Posts
        /\ opera.post[x].ref = Ref(k, "void") /\ opera.post[y].ref = Ref(k, "void")
    BY <1>2
  <2>2. opera.post[x].ref.kind # "none"
    BY <2>1 DEF Ref
  <2> QED
    BY <2>1, <2>2 DEF FolioInv, PostsAreOnce
<1> QED
  BY <1>1, <1>2, <1>3, <1>4

(* Where a check stands, without asking whether it is there twice.         *)
StateOf(k) ==
  IF Reversals(k) # {} THEN "reversed" ELSE IF Charges(k) # {} THEN "charged" ELSE "none"

(* Under the invariant a check is never there twice.                       *)
LEMMA StateOfCheck == \A k \in Keys : FolioInv => CheckState(k) = StateOf(k)
<1> SUFFICES ASSUME FolioInv, NEW k \in Keys PROVE CheckState(k) = StateOf(k)
  OBVIOUS
<1>1. PICK o \in Outlets, n \in Checks : k = <<o, n>>
  BY DEF Keys
<1>2. Once(Charges(k)) /\ Once(Reversals(k))
  BY <1>1, ChargesOnce
<1> QED
  BY <1>2 DEF CheckState, StateOf

(* Nor after a step.                                                       *)
LEMMA StateOfCheckNext == \A k \in Keys : FolioInv' => CheckState(k)' = StateOf(k)'
<1>1. (\A k \in Keys : FolioInv => CheckState(k) = StateOf(k))'
  BY StateOfCheck, PTL
<1> QED
  BY <1>1


(* Where no posting is added, every check stands where it stood.           *)
LEMMA PlacesState ==
  ASSUME Places
  PROVE  \A k \in Keys : StateOf(k)' = StateOf(k)
<1> SUFFICES ASSUME NEW k \in Keys PROVE StateOf(k)' = StateOf(k)
  OBVIOUS
<1>1. Charges(k)' = Charges(k)
  BY DEF Places, Charges
<1>2. Reversals(k)' = Reversals(k)
  BY <1>1 DEF Places, Reversals
<1> QED
  BY <1>1, <1>2 DEF StateOf

(* A posting that is added moves at most the check it is of, a step on.    *)
LEMMA AddedState ==
  ASSUME FolioInv, FolioInv', NEW r \in Post, Added(r)
  PROVE  \/ \A k \in Keys : StateOf(k)' = StateOf(k)
         \/ \E k \in Keys :
              /\ \A n \in Keys \ {k} : StateOf(n)' = StateOf(n)
              /\ \/ StateOf(k) = "none" /\ StateOf(k)' = "charged"
                 \/ StateOf(k) = "charged" /\ StateOf(k)' = "reversed"
<1>1. PICK p \in Posts : Adds(p, r)
  BY DEF Added
<1>2. opera.post \in [Posts -> Post] /\ opera.post[p].win = 0
  BY <1>1 DEF FolioInv, TypeOK, OperaState, Adds
<1>3. /\ opera'.post[p] = r /\ r.win # 0 /\ ~ Known(opera, r.ref)
      /\ \A q \in Posts : q # p => opera'.post[q] = opera.post[q]
  BY <1>1, <1>2 DEF Adds
<1>4. opera.post[p] = NoPost
  BY <1>2 DEF FolioInv, PostsAreOnce
<1>5. \A k \in Keys : p \notin Charges(k) /\ p \notin Reversals(k)
  BY <1>2, <1>4 DEF Charges, Reversals, NoPost, Posts
<1>6. \A k \in Keys : Charges(k)' = IF p \in Charges(k)' THEN Charges(k) \cup {p} ELSE Charges(k)
  BY <1>3, <1>5 DEF Charges
<1>7. \A k \in Keys : p \in Charges(k)' <=> r.by = k[1] /\ r.voids = 0 /\ r.ref.check = k[2]
  BY <1>3 DEF Charges
<1>8. \A q \in Posts : opera.post[q].voids # p
  <2> SUFFICES ASSUME NEW q \in Posts, opera.post[q].voids = p PROVE FALSE
    OBVIOUS
  <2>1. p # 0
    BY DEF Posts
  <2>2. Reverses(q, p)
    BY <2>1 DEF FolioInv, PostsAreOnce
  <2> QED
    BY <1>4, <2>2 DEF Reverses, IsCharge, Ref, NoPost, NoRef
<1>9. r.voids # p
  <2> SUFFICES ASSUME r.voids = p PROVE FALSE
    OBVIOUS
  <2>1. r.voids # 0
    BY DEF Posts
  <2>2. PICK o \in Outlets, m \in Checks : IsCharge(r.voids, o, m)
    BY <2>1 DEF Added, Sound
  <2>3. opera.post[p].ref.kind = "charge"
    BY <2>2 DEF IsCharge, Ref
  <2> QED
    BY <1>4, <2>3 DEF NoPost, NoRef
<1>10. \A k \in Keys : Reversals(k)' =
         IF r.voids \in Charges(k) THEN Reversals(k) \cup {p} ELSE Reversals(k)
  <2> SUFFICES ASSUME NEW k \in Keys
               PROVE  Reversals(k)' =
                        IF r.voids \in Charges(k) THEN Reversals(k) \cup {p} ELSE Reversals(k)
    OBVIOUS
  <2>1. \A q \in Posts : q # p => (q \in Reversals(k)' <=> q \in Reversals(k))
    BY <1>3, <1>6, <1>8 DEF Reversals
  <2>2. p \in Reversals(k)' <=> r.voids \in Charges(k)
    BY <1>3, <1>6, <1>9 DEF Reversals
  <2>3. Reversals(k)' \subseteq Posts /\ Reversals(k) \subseteq Posts
    BY DEF Reversals
  <2> QED
    BY <1>5, <2>1, <2>2, <2>3
<1>11. CASE r.voids = 0 /\ r.by \notin Outlets
  <2>1. \A k \in Keys : k[1] \in Outlets
    BY DEF Keys
  <2>2. \A k \in Keys : Charges(k)' = Charges(k)
    BY <1>6, <1>7, <1>11, <2>1
  <2>3. \A k \in Keys : 0 \notin Charges(k)
    BY DEF Charges, Posts
  <2>4. \A k \in Keys : Reversals(k)' = Reversals(k)
    BY <1>10, <1>11, <2>3
  <2> QED
    BY <2>2, <2>4 DEF StateOf
<1>12. CASE r.voids = 0 /\ r.by \in Outlets
  <2>1. r.ref.kind = "charge" /\ r.ref \in Refs
    BY <1>12 DEF Added, Sound, Post
  <2>2. \A k \in Keys : 0 \notin Charges(k)
    BY DEF Charges, Posts
  <2>3. \A k \in Keys : Reversals(k)' = Reversals(k)
    BY <1>10, <1>12, <2>2
  <2>4. CASE r.ref.check \notin Checks
    <3>1. \A k \in Keys : k[2] \in Checks
      BY DEF Keys
    <3>2. \A k \in Keys : Charges(k)' = Charges(k)
      BY <1>6, <1>7, <2>4, <3>1
    <3> QED
      BY <2>3, <3>2 DEF StateOf
  <2>5. CASE r.ref.check \in Checks
    <3> DEFINE k == <<r.by, r.ref.check>>
    <3>1. k \in Keys /\ k[1] = r.by /\ k[2] = r.ref.check
      BY <1>12, <2>5 DEF Keys
    <3>2. \A n \in Keys \ {k} : ~ (r.by = n[1] /\ r.ref.check = n[2])
      BY DEF Keys
    <3>3. \A n \in Keys \ {k} : StateOf(n)' = StateOf(n)
      BY <1>6, <1>7, <2>3, <3>2 DEF StateOf
    <3>4. p \in Charges(k)'
      BY <1>7, <1>12, <3>1
    <3>5. Charges(k) = {}
      <4> SUFFICES ASSUME NEW q \in Charges(k) PROVE FALSE
        OBVIOUS
      <4>1. IsCharge(q, r.by, r.ref.check) /\ q \in Posts
        BY <1>12, <2>5, ChargesOnce
      <4>2. opera.post[q].ref = r.ref
        BY <2>1, <4>1 DEF IsCharge, Ref, Refs
      <4> QED
        BY <1>3, <2>1, <4>1, <4>2 DEF Known
    <3>6. Reversals(k) = {}
      BY <1>12, <2>5, <3>5, ChargesOnce
    <3> HIDE DEF k
    <3>7. StateOf(k) = "none" /\ StateOf(k)' = "charged"
      BY <2>3, <3>1, <3>4, <3>5, <3>6 DEF StateOf
    <3> QED
      BY <3>1, <3>3, <3>7
  <2> QED
    BY <2>4, <2>5
<1>13. CASE r.voids # 0
  <2>1. PICK o \in Outlets, m \in Checks :
          /\ r.voids \in Posts /\ IsCharge(r.voids, o, m) /\ r.by = o /\ r.ref = Ref(m, "void")
    BY <1>13 DEF Added, Sound
  <2> DEFINE k == <<o, m>>
  <2>2. k \in Keys /\ k[1] = o /\ k[2] = m
    BY DEF Keys
  <2>3. \A n \in Keys : Charges(n)' = Charges(n)
    BY <1>6, <1>7, <1>13
  <2>4. r.voids \in Charges(k)
    <3>1. opera.post[r.voids].ref.kind # "none" /\ opera.post[r.voids].ref.check = m
      BY <2>1 DEF IsCharge, Ref
    <3>2. opera.post[r.voids].win # 0
      BY <2>1, <3>1, RefIsMade DEF FolioInv
    <3> QED
      BY <2>1, <2>2, <3>1, <3>2 DEF Charges, IsCharge
  <2>5. \A n \in Keys \ {k} : r.voids \notin Charges(n)
    <3> SUFFICES ASSUME NEW n \in Keys, r.voids \in Charges(n) PROVE n = k
      OBVIOUS
    <3>1. PICK x \in Outlets, y \in Checks : n = <<x, y>>
      BY DEF Keys
    <3>2. IsCharge(r.voids, x, y)
      BY <3>1, ChargesOnce
    <3>3. x = o /\ Ref(y, "charge") = Ref(m, "charge")
      BY <2>1, <3>2 DEF IsCharge
    <3>4. Ref(y, "charge").check = Ref(m, "charge").check
      BY <3>3
    <3>5. y = m
      BY <3>4 DEF Ref
    <3> QED
      BY <3>1, <3>3, <3>5
  <2>6. \A n \in Keys \ {k} : StateOf(n)' = StateOf(n)
    BY <1>10, <2>3, <2>5 DEF StateOf
  <2>7. Reversals(k) = {}
    <3> SUFFICES ASSUME NEW q \in Reversals(k) PROVE FALSE
      OBVIOUS
    <3>1. q \in Posts /\ opera.post[q].ref = Ref(m, "void")
      BY ChargesOnce
    <3> QED
      BY <1>3, <2>1, <3>1 DEF Known, Ref
  <2> HIDE DEF k
  <2>8. StateOf(k) = "charged" /\ StateOf(k)' = "reversed"
    BY <1>10, <2>2, <2>4, <2>7 DEF StateOf
  <2> QED
    BY <2>2, <2>6, <2>8
<1> QED
  BY <1>11, <1>12, <1>13

(* Every step moves one check a step on, or none.                          *)
LEMMA CheckStep ==
  ASSUME FolioInv, FolioInv', [Next]_vars
  PROVE  [Promise!Next]_[k \in Outlets \X Checks |-> CheckState(k)]
<1>1. /\ \A k \in Keys : CheckState(k) = StateOf(k)
      /\ \A k \in Keys : CheckState(k)' = StateOf(k)'
  BY StateOfCheck, StateOfCheckNext
<1>2. CASE \A k \in Keys : StateOf(k)' = StateOf(k)
  BY <1>1, <1>2 DEF Keys
<1>3. ASSUME NEW k \in Keys,
             \A n \in Keys \ {k} : StateOf(n)' = StateOf(n),
             \/ StateOf(k) = "none" /\ StateOf(k)' = "charged"
             \/ StateOf(k) = "charged" /\ StateOf(k)' = "reversed"
      PROVE  Promise!Next
  <2>1. [n \in Keys |-> CheckState(n)'] = [[n \in Keys |-> CheckState(n)] EXCEPT ![k] = CheckState(k)']
    BY <1>1, <1>3
  <2>2. \/ Promise!Moves(k, "none", "charged")
        \/ Promise!Moves(k, "charged", "reversed")
    BY <1>1, <1>3, <2>1 DEF Promise!Moves, Keys
  <2> QED
    BY <2>2 DEF Promise!Next, Keys
<1> QED
  BY <1>2, <1>3, StepAdds, PlacesState, AddedState

(* One check of one outlet is charged once, and reversed once and after it,*)
(* however often and however overlapped it is sent (postCharge, voidCharge)*)
THEOREM ChecksPostOnce == Spec => ImplementsPosCheck
<1>1. Init => Promise!Init
  <2> SUFFICES ASSUME Init PROVE Promise!Init
    OBVIOUS
  <2>1. FolioInv /\ opera.post = [p \in Posts |-> NoPost]
    BY InitInv DEF Init, Start
  <2>2. \A k \in Keys : Charges(k) = {} /\ Reversals(k) = {}
    BY <2>1 DEF Charges, Reversals, NoPost, Posts
  <2>3. \A k \in Keys : CheckState(k) = "none"
    BY <2>1, <2>2, StateOfCheck DEF StateOf
  <2> QED
    BY <2>3 DEF Promise!Init, Keys
<1>2. FolioInv /\ FolioInv' /\ [Next]_vars =>
        [Promise!Next]_[k \in Outlets \X Checks |-> CheckState(k)]
  BY CheckStep
<1> QED
  BY <1>1, <1>2, FolioInvariant, PTL DEF Spec, ImplementsPosCheck, Promise!Spec

-----------------------------------------------------------------------------
(* While requests do not overlap and nothing fails: our copy is OPERA's    *)
(* folio, but for what the only request at work is about to write.         *)

Tagging(q) == q.op \in {"pay", "charge", "void"}
Tagged1 == Outlets \cup {"payment"}

(* The windows of the answer a request has not copied yet.                 *)
Ahead(q) == IF q.at = "mirror" THEN { w \in Windows : Named(q.ans, w) } ELSE {}

(* The balance of a window, of OPERA's state at any time.                  *)
Bal(o, w) ==
  LET On(amt) == { p \in Posts : o.post[p].win = w /\ o.post[p].amt = amt }
  IN Cardinality(On(1)) - Cardinality(On(-1))

WindowsAgree(q, l, o) == \A w \in Windows \ Ahead(q) :
  \/ l.win[w] = o.win[w]
  \/ q.at = "close" /\ l.win[w] = "open" /\ o.win[w] = "closed"
BalancesAgree(q, l, o) == \A w \in Windows \ Ahead(q) : l.bal[w] = Bal(o, w)
RowsAgree(q, l, o) == \A p \in Posts :
  /\ o.post[p].win \in Ahead(q) => l.row[p].win \in Ahead(q) \cup {0}
  /\ o.post[p].win \notin Ahead(q) => l.row[p].win = o.post[p].win
LinksAgree(q, l, o) == \A p, r \in Posts :
  o.post[r].voids = p => l.row[p].voided = r \/ o.post[p].win \in Ahead(q)
TagsAgree(q, l, o) == \A p \in Posts :
  o.post[p].win # 0 /\ o.post[p].by \in Tagged1 =>
    \/ l.row[p].tag = o.post[p].by
    \/ q.at = "mirror" /\ Tagging(q) /\ o.post[p].ref = q.ref

(* The answer about to be copied is how OPERA is, and has the posting the  *)
(* request looks for.                                                      *)
IsCurrent(q, o) ==
  /\ \A w \in Ahead(q) : q.ans.win[w] = o.win[w]
  /\ \A p \in Posts : q.ans.at[p] = IF o.post[p].win \in Ahead(q) THEN o.post[p].win ELSE 0
  /\ \A p \in Posts : o.post[p].win # 0 => p <= q.ans.last
  /\ Tagging(q) =>
       q.win \in Ahead(q) /\ \E p \in Posts : o.post[p].ref = q.ref /\ o.post[p].win = q.win

(* What a request decided by is still so.                                  *)
AsksRightly(q, l, o) ==
  /\ q.at = "core" /\ q.op = "void" => o.post[q.post].win = q.win
  /\ q.at = "core" /\ q.op = "transfer" => o.post[q.post].by # "payment"
  /\ q.at = "mirror" => IsCurrent(q, o)
  /\ q.at = "close" =>
       /\ q.todo = { w \in Windows : o.win[w] = "open" }
       /\ Sum(l.bal, { w \in Windows : l.win[w] = "open" }) = 0

(* OPERA's postings are in order and on windows it has; a window is closed *)
(* by the check-out only.                                                  *)
Filled(o) == \E n \in 0..MaxPosts : \A p \in Posts : o.post[p].win # 0 <=> p <= n
InOrder(q, l, o, st) ==
  /\ Filled(o)
  /\ \A p \in Posts : o.post[p].win # 0 => o.win[o.post[p].win] # "none"
  /\ st = "IN_HOUSE" => \A w \in Windows : l.win[w] # "closed"
  /\ st = "IN_HOUSE" /\ q.at # "close" => \A w \in Windows : o.win[w] # "closed"
  /\ q.at = "close" => st = "IN_HOUSE"

Fits(q, l, o, st) ==
  /\ WindowsAgree(q, l, o) /\ BalancesAgree(q, l, o) /\ RowsAgree(q, l, o)
  /\ LinksAgree(q, l, o) /\ TagsAgree(q, l, o)
  /\ AsksRightly(q, l, o) /\ InOrder(q, l, o, st)

Works(q) ==
  \/ Quiet /\ q = Idle
  \/ \E c \in Clerks :
       req[c] = q /\ q.at # "idle" /\ \A d \in Clerks \ {c} : At(d, "idle")
CalmInv == calm => \E q \in Requests : Works(q) /\ Fits(q, local, opera, stay)

(* A request that is not idle is the one at work.                          *)
LEMMA OnlyOne ==
  ASSUME CalmInv, calm, NEW c \in Clerks, ~ At(c, "idle")
  PROVE  /\ \A d \in Clerks \ {c} : At(d, "idle")
         /\ Fits(req[c], local, opera, stay)
<1>1. PICK q \in Requests : Works(q) /\ Fits(q, local, opera, stay)
  BY DEF CalmInv
<1>2. PICK d \in Clerks : req[d] = q /\ q.at # "idle" /\ \A e \in Clerks \ {d} : At(e, "idle")
  BY <1>1 DEF Works, Quiet
<1>3. d = c
  BY <1>2
<1> QED
  BY <1>1, <1>2, <1>3

(* With every clerk idle, our copy is OPERA's folio.                       *)
LEMMA NoneAtWork ==
  ASSUME CalmInv, calm, Quiet
  PROVE  Fits(Idle, local, opera, stay)
<1>1. PICK q \in Requests : Works(q) /\ Fits(q, local, opera, stay)
  BY DEF CalmInv
<1>2. q = Idle
  BY <1>1 DEF Works, Quiet, At
<1> QED
  BY <1>1, <1>2

(* A step of the only request at work.                                     *)
LEMMA CalmStep ==
  ASSUME FolioInv, NEW c \in Clerks, NEW q \in Requests,
         req' = [req EXCEPT ![c] = q], q = Idle \/ q.at # "idle",
         \A d \in Clerks \ {c} : At(d, "idle"),
         Fits(q, local', opera', stay')
  PROVE  CalmInv'
<1>1. req'[c] = q /\ \A d \in Clerks \ {c} : req'[d] = req[d]
  BY DEF FolioInv, TypeOK
<1>2. \A d \in Clerks \ {c} : At(d, "idle")'
  BY <1>1 DEF At
<1>3. CASE q = Idle
  <2>1. At(c, "idle")'
    BY <1>1, <1>3 DEF At, Idle
  <2>2. Quiet'
    BY <1>2, <2>1 DEF Quiet
  <2> QED
    BY <1>3, <2>2 DEF CalmInv, Works
<1>4. CASE q.at # "idle"
  BY <1>1, <1>2, <1>4 DEF CalmInv, Works
<1> QED
  BY <1>3, <1>4

(* A step that goes on with the only request at work.                      *)
LEMMA CalmGoes ==
  ASSUME FolioInv, CalmInv, NEW c \in Clerks, ~ At(c, "idle"), NEW q \in Requests,
         req' = [req EXCEPT ![c] = q], q = Idle \/ q.at # "idle", calm' => calm,
         calm /\ Fits(req[c], local, opera, stay) => Fits(q, local', opera', stay')
  PROVE  CalmInv'
<1> SUFFICES ASSUME calm' PROVE CalmInv'
  BY DEF CalmInv
<1> QED
  BY OnlyOne, CalmStep

(* A request that starts alone.                                            *)
LEMMA CalmStart ==
  ASSUME FolioInv, CalmInv, NEW c \in Clerks, At(c, "idle"), NEW q \in Requests,
         req' = [req EXCEPT ![c] = q], q.at # "idle", calm' = (calm /\ Quiet),
         Fits(Idle, local, opera, stay) => Fits(q, local', opera', stay')
  PROVE  CalmInv'
<1> SUFFICES ASSUME calm, Quiet PROVE CalmInv'
  BY DEF CalmInv
<1>1. Fits(q, local', opera', stay')
  BY NoneAtWork
<1>2. \A d \in Clerks \ {c} : At(d, "idle")
  BY DEF Quiet
<1> QED
  BY <1>1, <1>2, CalmStep

(* One that waits for OPERA, or for its windows, has written nothing.      *)
LEMMA CalmBegins ==
  ASSUME FolioInv, CalmInv, NEW c \in Clerks, NEW q \in Requests, Begins(c, q),
         q.at \in {"core", "close"},
         Fits(Idle, local, opera, stay) =>
           AsksRightly(q, local, opera) /\ (q.at = "close" => stay = "IN_HOUSE")
  PROVE  CalmInv'
<1>1. /\ At(c, "idle") /\ req' = [req EXCEPT ![c] = q] /\ calm' = (calm /\ Quiet)
      /\ UNCHANGED <<opera, local, stay>>
  BY DEF Begins
<1>2. Ahead(Idle) = {} /\ Ahead(q) = {} /\ Idle.at = "idle"
  BY DEF Ahead, Idle
<1>3. ASSUME Fits(Idle, local, opera, stay) PROVE Fits(q, local, opera, stay)
  <2>1. WindowsAgree(q, local, opera) /\ BalancesAgree(q, local, opera)
    BY <1>2, <1>3 DEF Fits, WindowsAgree, BalancesAgree
  <2>2. RowsAgree(q, local, opera) /\ LinksAgree(q, local, opera)
    BY <1>2, <1>3 DEF Fits, RowsAgree, LinksAgree
  <2>3. TagsAgree(q, local, opera)
    BY <1>2, <1>3 DEF Fits, TagsAgree
  <2>4. InOrder(q, local, opera, stay)
    BY <1>2, <1>3 DEF Fits, InOrder
  <2> QED
    BY <1>3, <2>1, <2>2, <2>3, <2>4 DEF Fits
<1> QED
  BY <1>1, <1>3, CalmStart

-----------------------------------------------------------------------------
(* The copy of an answer that is current.                                  *)

(* The balances of OPERA's windows, as the copy counts them.               *)
LEMMA BalanceIs ==
  ASSUME NEW w \in Windows
  PROVE  Balance(Place(opera), w) = Bal(opera, w)
<1>1. \A p \in Posts : Place(opera)[p] = opera.post[p].win
  BY DEF Place
<1> DEFINE At1(amt) == { p \in Posts : Place(opera)[p] = w /\ opera.post[p].amt = amt }
           At2(amt) == { p \in Posts : opera.post[p].win = w /\ opera.post[p].amt = amt }
<1>2. At1(1) = At2(1) /\ At1(-1) = At2(-1)
  BY <1>1
<1> QED
  BY <1>2 DEF Balance, Bal

LEMMA AnswerBalances ==
  ASSUME NEW q, IsCurrent(q, opera), NEW w \in Ahead(q), w \in Windows
  PROVE  BalanceIn(q.ans, w) = Bal(opera, w)
<1>1. w # 0
  BY DEF Windows
<1>2. \A p \in Posts : q.ans.at[p] = w <=> opera.post[p].win = w
  BY <1>1 DEF IsCurrent
<1> DEFINE At1(amt) == { p \in Posts : q.ans.at[p] = w /\ opera.post[p].amt = amt }
           At2(amt) == { p \in Posts : opera.post[p].win = w /\ opera.post[p].amt = amt }
<1>3. At1(1) = At2(1) /\ At1(-1) = At2(-1)
  BY <1>2
<1> QED
  BY <1>3 DEF BalanceIn, Balance, Bal

(* A charge has one reversal.                                              *)
LEMMA ReversedOnce ==
  ASSUME FolioInv, NEW p \in Posts, NEW r \in Posts, NEW s \in Posts,
         opera.post[r].voids = p, opera.post[s].voids = p
  PROVE  r = s
<1>1. p # 0
  BY DEF Posts
<1>2. Reverses(r, p) /\ Reverses(s, p)
  BY <1>1 DEF FolioInv, PostsAreOnce
<1>3. opera.post[r].ref = opera.post[s].ref /\ opera.post[r].ref.kind = "void"
  BY <1>2 DEF Reverses, IsCharge, Ref
<1> QED
  BY <1>3 DEF FolioInv, PostsAreOnce

(* Copying a current answer deletes nothing, puts every posting where it   *)
(* is and links every reversal.                                            *)
LEMMA RowsMirrored ==
  ASSUME FolioInv, NEW q \in Requests, q.at = "mirror", Fits(q, local, opera, stay),
         NEW p \in Posts
  PROVE  LET row == MirroredRow(local, q.ans, p) IN
         /\ row.win = opera.post[p].win
         /\ row.tag = local.row[p].tag
         /\ \A r \in Posts : opera.post[r].voids = p => row.voided = r
<1> DEFINE a == q.ans
<1>1. /\ \A s \in Posts : a.at[s] = IF opera.post[s].win \in Ahead(q) THEN opera.post[s].win ELSE 0
      /\ \A s \in Posts : opera.post[s].win # 0 => s <= a.last
      /\ Ahead(q) = { w \in Windows : Named(a, w) }
  BY DEF Fits, AsksRightly, IsCurrent, Ahead
<1>2. 0 \notin Ahead(q)
  BY <1>1 DEF Windows
<1>3. local.row \in [Posts -> Row] /\ opera.post \in [Posts -> Post]
  BY DEF FolioInv, TypeOK, LocalState, OperaState
<1>4. \A s \in Posts : s \in Kept(a) <=> opera.post[s].win \in Ahead(q)
  BY <1>1, <1>2 DEF Kept
<1>5. \A s \in Posts : s \notin Kept(a) => local.row[s].win = opera.post[s].win
  BY <1>4 DEF Fits, RowsAgree
<1>6. Gone(local, a) = {}
  <2> SUFFICES ASSUME NEW s \in Gone(local, a) PROVE FALSE
    OBVIOUS
  <2>1. /\ s \in Posts /\ s \notin Kept(a) /\ local.row[s].win # 0 /\ Named(a, local.row[s].win)
    BY DEF Gone
  <2>2. local.row[s].win \in Windows
    BY <1>3, <2>1 DEF Row
  <2> QED
    BY <1>1, <1>4, <1>5, <2>1, <2>2
<1> DEFINE v == VoidLink(local, a, p)
<1>7. MirroredRow(local, a, p) =
        [local.row[p] EXCEPT !.win = IF p \in Kept(a) THEN a.at[p] ELSE local.row[p].win, !.voided = v]
  BY <1>6 DEF MirroredRow
<1>8. ASSUME NEW r \in Posts, opera.post[r].voids = p PROVE v = r
  <2>1. p # 0 /\ opera.post[r].win # 0
    BY <1>8, RefIsMade DEF FolioInv, Posts
  <2>2. \A s \in Posts : opera.post[s].voids = p <=> s = r
    BY <1>8, ReversedOnce
  <2>3. CASE p \in Kept(a)
    <3>1. r <= a.last /\ (r \in Kept(a) \/ local.row[r].win # 0)
      BY <1>1, <1>5, <2>1
    <3>2. Reversal(local, a, p) = {r}
      BY <1>8, <2>2, <3>1 DEF Reversal
    <3>3. (CHOOSE s \in {r} : TRUE) = r
      OBVIOUS
    <3> QED
      BY <1>6, <2>3, <3>2, <3>3 DEF VoidLink
  <2>4. CASE p \notin Kept(a)
    <3>1. local.row[p].voided = r
      BY <1>4, <1>8, <2>4 DEF Fits, LinksAgree
    <3> QED
      BY <1>6, <2>4, <3>1 DEF VoidLink
  <2> QED
    BY <2>3, <2>4
<1> HIDE DEF v
<1>9. local.row[p] \in Row
  BY <1>3
<1>10. (IF p \in Kept(a) THEN a.at[p] ELSE local.row[p].win) = opera.post[p].win
  BY <1>1, <1>4, <1>5
<1> QED
  BY <1>7, <1>8, <1>9, <1>10 DEF Row

(* The posting a request looks for is the only one with its number, and is *)
(* there: nothing is rolled back.                                          *)
LEMMA CopyIsWritten ==
  ASSUME FolioInv, NEW c \in Clerks, req[c].at = "mirror", Tagging(req[c]),
         Fits(req[c], local, opera, stay)
  PROVE  \E p \in Posts :
           /\ Own(req[c], Mirrored(local, req[c].ans)) = {p}
           /\ opera.post[p].ref = req[c].ref /\ opera.post[p].by = req[c].by
           /\ \A s \in Posts : opera.post[s].ref = req[c].ref => s = p
           /\ ~ RolledBack(Mirrored(local, req[c].ans), req[c])
<1> DEFINE q == req[c]
           m == Mirrored(local, q.ans)
<1>1. q \in Requests /\ Holds(q, opera.post) /\ q.at = "mirror"
  BY HoldsIsInv DEF FolioInv, TypeOK
<1>2. PICK p \in Posts : opera.post[p].ref = q.ref /\ opera.post[p].win = q.win
  BY DEF Fits, AsksRightly, IsCurrent
<1>3. q.ref.kind # "none" /\ Made(opera.post, q)
  BY <1>1 DEF Holds, Tagging
<1>4. \A s \in Posts : opera.post[s].ref = q.ref => s = p
  BY <1>2, <1>3 DEF FolioInv, PostsAreOnce
<1>5. opera.post[p].by = q.by
  BY <1>3, <1>4 DEF Made
<1>6. \A s \in Posts : m.row[s].win = opera.post[s].win
  BY <1>1, RowsMirrored DEF Mirrored
<1> HIDE DEF m
<1>7. Own(q, m) = {p}
  BY <1>2, <1>4, <1>6 DEF Own
<1>8. ~ RolledBack(m, q)
  BY <1>4, <1>7 DEF RolledBack, Clash
<1> QED
  BY <1>2, <1>4, <1>5, <1>7, <1>8 DEF m

(* Once it is copied, our copy is OPERA's folio.                           *)
LEMMA WriteMirrorCalm ==
  ASSUME FolioInv, CalmInv, NEW c \in Clerks, WriteMirror(c)
  PROVE  CalmInv'
<1> DEFINE q == req[c]
           m == Mirrored(local, q.ans)
<1>1. /\ q \in Requests /\ q.at = "mirror" /\ ~ At(c, "idle")
      /\ req' = [req EXCEPT ![c] = Idle] /\ UNCHANGED <<opera, stay, calm>>
      /\ local' = IF RolledBack(m, q) THEN local ELSE Copied(local, q)
  BY DEF WriteMirror, Ends, At, FolioInv, TypeOK
<1>2. ASSUME Fits(q, local, opera, stay) PROVE Fits(Idle, local', opera, stay)
  <2>1. /\ \A w \in Windows : m.win[w] = IF w \in Ahead(q) THEN q.ans.win[w] ELSE local.win[w]
        /\ \A w \in Windows : m.bal[w] = IF w \in Ahead(q) THEN BalanceIn(q.ans, w) ELSE local.bal[w]
    BY <1>1 DEF Mirrored, MirroredWindows, MirroredBalances, Ahead
  <2>2. IsCurrent(q, opera)
    BY <1>1, <1>2 DEF Fits, AsksRightly
  <2>3. ASSUME NEW w \in Windows PROVE m.win[w] = opera.win[w] /\ m.bal[w] = Bal(opera, w)
    <3>1. CASE w \in Ahead(q)
      BY <2>1, <2>2, <3>1, AnswerBalances DEF IsCurrent
    <3>2. CASE w \notin Ahead(q)
      BY <1>1, <1>2, <2>1, <3>2 DEF Fits, WindowsAgree, BalancesAgree
    <3> QED
      BY <3>1, <3>2
  <2>4. ASSUME NEW p \in Posts
        PROVE  /\ m.row[p].win = opera.post[p].win
               /\ m.row[p].tag = local.row[p].tag
               /\ \A r \in Posts : opera.post[r].voids = p => m.row[p].voided = r
    BY <1>1, <1>2, RowsMirrored DEF Mirrored
  <2>5. m.row \in [Posts -> Row] /\ m = [win |-> m.win, bal |-> m.bal, row |-> m.row]
    <3>1. q.ans \in Answer /\ \A s \in Posts : q.ans.at[s] # 0 => opera.post[s].win # 0
      BY <1>1, HoldsIsInv DEF FolioInv, Requests, Holds
    <3>2. m \in LocalState
      BY <3>1, MirroredStep
    <3> QED
      BY <3>2 DEF LocalState, Mirrored
  <2> HIDE DEF m
  <2>6. /\ local'.win = m.win /\ local'.bal = m.bal
        /\ \A p \in Posts :
             /\ local'.row[p].win = m.row[p].win /\ local'.row[p].voided = m.row[p].voided
             /\ opera.post[p].win # 0 /\ opera.post[p].by \in Tagged1 =>
                  local'.row[p].tag = opera.post[p].by
    <3>1. CASE ~ Tagging(q)
      <4>1. local' = m
        BY <1>1, <3>1 DEF Copied, RolledBack, Tagging, m
      <4> QED
        BY <1>2, <2>4, <3>1, <4>1 DEF Fits, TagsAgree
    <3>2. CASE Tagging(q)
      <4>1. PICK p \in Posts :
              /\ Own(q, m) = {p} /\ opera.post[p].ref = q.ref /\ opera.post[p].by = q.by
              /\ \A s \in Posts : opera.post[s].ref = q.ref => s = p
              /\ ~ RolledBack(m, q)
        BY <1>1, <1>2, <3>2, CopyIsWritten DEF m
      <4> DEFINE rows == [s \in Posts |->
                   IF s \in Own(q, m) THEN [m.row[s] EXCEPT !.tag = q.by] ELSE m.row[s]]
      <4>2. local' = [m EXCEPT !.row = rows]
        BY <1>1, <3>2, <4>1 DEF Copied, Tagged, Tagging, m
      <4>3. rows[p] = [m.row[p] EXCEPT !.tag = q.by] /\ \A s \in Posts \ {p} : rows[s] = m.row[s]
        BY <4>1
      <4> HIDE DEF rows
      <4>4. local'.win = m.win /\ local'.bal = m.bal /\ local'.row = rows
        BY <2>5, <4>2
      <4>5. /\ rows[p].win = m.row[p].win /\ rows[p].voided = m.row[p].voided
            /\ rows[p].tag = opera.post[p].by
        BY <2>5, <4>1, <4>3 DEF Row
      <4>6. \A s \in Posts \ {p} : opera.post[s].win # 0 /\ opera.post[s].by \in Tagged1 =>
              local.row[s].tag = opera.post[s].by
        BY <1>2, <4>1 DEF Fits, TagsAgree
      <4> QED
        BY <2>4, <4>3, <4>4, <4>5, <4>6
    <3> QED
      BY <3>1, <3>2
  <2>7. Ahead(Idle) = {} /\ Idle.at = "idle"
    BY DEF Ahead, Idle
  <2>8. WindowsAgree(Idle, local', opera) /\ BalancesAgree(Idle, local', opera)
    BY <2>3, <2>6, <2>7 DEF WindowsAgree, BalancesAgree
  <2>9. RowsAgree(Idle, local', opera) /\ LinksAgree(Idle, local', opera)
    BY <2>4, <2>6, <2>7 DEF RowsAgree, LinksAgree
  <2>10. TagsAgree(Idle, local', opera)
    BY <2>6 DEF TagsAgree
  <2>11. AsksRightly(Idle, local', opera)
    BY <2>7 DEF AsksRightly
  <2>12. InOrder(Idle, local', opera, stay)
    BY <1>1, <1>2, <2>3, <2>6, <2>7 DEF Fits, InOrder
  <2> QED
    BY <2>8, <2>9, <2>10, <2>11, <2>12 DEF Fits
<1> QED
  BY <1>1, <1>2, Values, CalmGoes

-----------------------------------------------------------------------------
(* What OPERA does with a request, and the answer.                         *)

(* A request changes nothing outside the windows it touches: it opens one, *)
(* moves a posting between two, or adds a posting to one.                  *)
Effect(q, ws, o, o2) ==
  /\ ws \subseteq Windows /\ (Tagging(q) => q.win \in ws)
  /\ \A w \in ws : o2.win[w] = "open"
  /\ \A w \in Windows \ ws : o2.win[w] = o.win[w]
  /\ \A p \in Posts : o2.post[p].win \notin ws => o2.post[p] = o.post[p]
  /\ \A p \in Posts : o2.post[p].win \in ws => o.post[p].win \in ws \cup {0}
  /\ \A p, r \in Posts : o2.post[r].voids = p => o.post[r].voids = p \/ o2.post[p].win \in ws
  /\ \A p \in Posts : o.post[p].win # 0 =>
       o2.post[p].win # 0 /\ o2.post[p].by = o.post[p].by /\ o2.post[p].ref = o.post[p].ref
  /\ \A p \in Posts : o2.post[p].win # 0 /\ o.post[p].win = 0 /\ o2.post[p].by \in Tagged1 =>
       Tagging(q) /\ o2.post[p].ref = q.ref
  /\ Tagging(q) => \E p \in Posts : o2.post[p].ref = q.ref /\ o2.post[p].win = q.win
  /\ Filled(o2)

(* The windows of an answer are the ones that were touched, and it counts  *)
(* every posting.                                                          *)
LEMMA AnswerIsCurrent ==
  ASSUME NEW q \in Requests, NEW ws, NEW o, NEW o2 \in OperaState, Effect(q, ws, o, o2),
         NEW r, r.at = "mirror", r.ans = AnswerOn(ws, o2),
         r.op = q.op, r.win = q.win, r.ref = q.ref
  PROVE  Ahead(r) = ws /\ IsCurrent(r, o2)
<1>1. ws \subseteq Windows /\ \A w \in ws : o2.win[w] = "open"
  BY DEF Effect
<1>2. Ahead(r) = ws
  BY <1>1 DEF Ahead, Named, AnswerOn
<1>3. \A w \in ws : r.ans.win[w] = o2.win[w]
  BY <1>1 DEF AnswerOn
<1>4. \A p \in Posts : r.ans.at[p] = IF o2.post[p].win \in ws THEN o2.post[p].win ELSE 0
  BY DEF AnswerOn
<1>5. \A p \in Posts : o2.post[p].win # 0 => p <= r.ans.last
  <2>1. PICK n \in 0..MaxPosts : \A p \in Posts : o2.post[p].win # 0 <=> p <= n
    BY DEF Effect, Filled
  <2>2. { p \in Posts : o2.post[p].win # 0 } = 1..n
    BY <2>1, FolioAssumption DEF Posts
  <2>3. Cardinality(1..n) = n
    BY <2>1, FolioAssumption, FS_Interval
  <2>4. r.ans.last = Cardinality({ p \in Posts : o2.post[p].win # 0 })
    BY DEF AnswerOn
  <2> QED
    BY <2>1, <2>2, <2>3, <2>4
<1>6. Tagging(r) => r.win \in ws /\ \E p \in Posts : o2.post[p].ref = r.ref /\ o2.post[p].win = r.win
  BY DEF Effect, Tagging
<1> QED
  BY <1>2, <1>3, <1>4, <1>5, <1>6 DEF IsCurrent

(* Balances off the touched windows stay.                                  *)
LEMMA BalancesStay ==
  ASSUME NEW q, NEW ws, NEW o, NEW o2, Effect(q, ws, o, o2), NEW w \in Windows \ ws
  PROVE  Bal(o2, w) = Bal(o, w)
<1>1. w # 0
  BY DEF Windows
<1>2. \A p \in Posts : o2.post[p].win = w => o2.post[p] = o.post[p]
  BY DEF Effect
<1>3. \A p \in Posts : o.post[p].win = w => o2.post[p] = o.post[p]
  BY <1>1 DEF Effect
<1> DEFINE On(s, amt) == { p \in Posts : s.post[p].win = w /\ s.post[p].amt = amt }
<1>4. On(o2, 1) = On(o, 1) /\ On(o2, -1) = On(o, -1)
  BY <1>2, <1>3
<1> QED
  BY <1>4 DEF Bal

(* So after the answer only the windows it names are still to be copied.   *)
LEMMA AnsweredFits ==
  ASSUME FolioInv, NEW q \in Requests, NEW q0, q0.at \in {"idle", "core"},
         Fits(q0, local, opera, stay), NEW ws, Effect(q, ws, opera, opera'),
         opera' \in OperaState,
         NEW r, r.at = "mirror", r.ans = AnswerOn(ws, opera'),
         r.op = q.op, r.win = q.win, r.ref = q.ref
  PROVE  Fits(r, local, opera', stay)
<1> DEFINE o == opera
           o2 == opera'
<1>1. Ahead(r) = ws /\ IsCurrent(r, o2) /\ Ahead(q0) = {}
  BY AnswerIsCurrent DEF Ahead
<1>2. o.post \in [Posts -> Post] /\ o2.post \in [Posts -> Post] /\ 0 \notin ws
  BY DEF FolioInv, TypeOK, OperaState, Effect, Windows
<1>3. WindowsAgree(r, local, o2)
  BY <1>1 DEF Fits, WindowsAgree, Effect
<1>4. BalancesAgree(r, local, o2)
  BY <1>1, BalancesStay DEF Fits, BalancesAgree
<1>5. RowsAgree(r, local, o2)
  <2>1. \A p \in Posts : local.row[p].win = o.post[p].win
    BY <1>1 DEF Fits, RowsAgree
  <2> QED
    BY <1>1, <2>1 DEF RowsAgree, Effect
<1>6. LinksAgree(r, local, o2)
  BY <1>1 DEF Fits, LinksAgree, Effect
<1>7. TagsAgree(r, local, o2)
  <2> SUFFICES ASSUME NEW p \in Posts, o2.post[p].win # 0, o2.post[p].by \in Tagged1
               PROVE  local.row[p].tag = o2.post[p].by \/ (Tagging(r) /\ o2.post[p].ref = r.ref)
    BY DEF TagsAgree
  <2>1. CASE o.post[p].win = 0
    BY <2>1 DEF Effect, Tagging
  <2>2. CASE o.post[p].win # 0
    <3>1. o2.post[p].by = o.post[p].by
      BY <2>2 DEF Effect
    <3> QED
      BY <2>2, <3>1 DEF Fits, TagsAgree
  <2> QED
    BY <2>1, <2>2
<1>8. AsksRightly(r, local, o2)
  BY <1>1 DEF AsksRightly
<1>9. InOrder(r, local, o2, stay)
  <2>1. ASSUME NEW p \in Posts, o2.post[p].win # 0 PROVE o2.win[o2.post[p].win] # "none"
    <3>1. CASE o2.post[p].win \in ws
      BY <3>1 DEF Effect
    <3>2. CASE o2.post[p].win \notin ws
      <4>1. o2.post[p] = o.post[p] /\ o2.post[p].win \in Windows
        BY <1>2, <2>1, <3>2 DEF Effect, Post
      <4> QED
        BY <2>1, <3>2, <4>1 DEF Fits, InOrder, Effect
    <3> QED
      BY <3>1, <3>2
  <2>2. stay = "IN_HOUSE" => \A w \in Windows : local.win[w] # "closed" /\ o2.win[w] # "closed"
    BY DEF Fits, InOrder, Effect
  <2> QED
    BY <2>1, <2>2 DEF InOrder, Effect
<1> QED
  BY <1>3, <1>4, <1>5, <1>6, <1>7, <1>8, <1>9 DEF Fits

(* A posting OPERA accepts is the next one.                                *)
LEMMA PostsEffect ==
  ASSUME FolioInv, NEW q \in Requests, NEW w \in Windows, NEW new \in Post,
         OperaPosts(w, new), new.ref = q.ref, new.by = q.by, q.win = w,
         ~ Tagging(q) => q.by \notin Tagged1,
         new.voids = 0 \/ (new.voids \in Posts /\ opera.post[new.voids].win = w)
  PROVE  Effect(q, {w}, opera, opera')
<1> DEFINE r == [new EXCEPT !.win = w]
<1>1. opera \in OperaState /\ opera.win[w] = "open"
  BY DEF FolioInv, TypeOK, OperaPosts
<1>2. PICK p \in Posts :
        /\ \A s \in Posts : opera.post[s].win # 0 <=> s < p
        /\ opera' = [opera EXCEPT !.post[p] = r]
  BY DEF OperaPosts
<1>3. /\ r.win = w /\ w # 0 /\ r.ref = q.ref /\ r.by = q.by /\ r.voids = new.voids
  BY DEF Post, Windows
<1> HIDE DEF r
<1>4. /\ opera'.win = opera.win /\ opera'.post[p] = r
      /\ \A s \in Posts \ {p} : opera'.post[s] = opera.post[s]
  BY <1>1, <1>2 DEF OperaState
<1>5. opera.post[p].win = 0
  BY <1>2 DEF Posts
<1>6. Filled(opera')
  <2>1. p \in 0..MaxPosts
    BY FolioAssumption DEF Posts
  <2>2. \A s \in Posts : opera'.post[s].win # 0 <=> s <= p
    BY <1>2, <1>3, <1>4 DEF Posts
  <2> QED
    BY <2>1, <2>2 DEF Filled
<1>7. \A s, t \in Posts : opera'.post[t].voids = s =>
        opera.post[t].voids = s \/ opera'.post[s].win \in {w}
  <2> SUFFICES ASSUME NEW s \in Posts, r.voids = s PROVE opera'.post[s].win = w
    BY <1>4
  <2>1. opera.post[s].win = w
    BY <1>3 DEF Posts
  <2> QED
    BY <1>3, <1>4, <1>5, <2>1
<1>8. \A s \in Posts : opera'.post[s].win # 0 /\ opera.post[s].win = 0
        /\ opera'.post[s].by \in Tagged1 => Tagging(q) /\ opera'.post[s].ref = q.ref
  BY <1>3, <1>4
<1>9. \E s \in Posts : opera'.post[s].ref = q.ref /\ opera'.post[s].win = q.win
  BY <1>3, <1>4
<1> QED
  BY <1>1, <1>3, <1>4, <1>5, <1>6, <1>7, <1>8, <1>9 DEF Effect

(* OPERA moves a posting between the two windows it answers with.          *)
LEMMA MovesEffect ==
  ASSUME FolioInv, NEW q \in Requests, q.op = "transfer", q.post \in Posts, q.win \in Windows,
         OperaMoves(q.post, q.win), Filled(opera)
  PROVE  Effect(q, {opera.post[q.post].win, q.win}, opera, opera')
<1> DEFINE p == q.post
           w == q.win
           v == opera.post[p].win
<1>1. /\ opera \in OperaState /\ v \in Windows /\ v # 0 /\ w # 0
      /\ opera.win[v] = "open" /\ opera.win[w] = "open"
      /\ opera' = [opera EXCEPT !.post[p].win = w]
  BY DEF FolioInv, TypeOK, OperaMoves, Windows
<1>2. /\ opera'.win = opera.win
      /\ \A s \in Posts \ {p} : opera'.post[s] = opera.post[s]
      /\ opera'.post[p].win = w /\ opera'.post[p].ref = opera.post[p].ref
      /\ opera'.post[p].by = opera.post[p].by /\ opera'.post[p].voids = opera.post[p].voids
  BY <1>1 DEF OperaState, Post
<1>3. Filled(opera')
  BY <1>1, <1>2 DEF Filled
<1>4. ~ Tagging(q)
  BY DEF Tagging
<1>5. \A s, t \in Posts : opera'.post[t].voids = s => opera.post[t].voids = s
  BY <1>2
<1> HIDE DEF p, w, v
<1>6. p \in Posts /\ w \in Windows /\ opera.post[p].win = v
  BY DEF p, v, w
<1>7. \A s \in Posts : /\ opera'.post[s].win \notin {v, w} => opera'.post[s] = opera.post[s]
                      /\ opera'.post[s].win \in {v, w} => opera.post[s].win \in {v, w, 0}
  BY <1>2, <1>6
<1>8. \A s \in Posts : opera.post[s].win # 0 =>
        /\ opera'.post[s].win # 0 /\ opera'.post[s].by = opera.post[s].by
        /\ opera'.post[s].ref = opera.post[s].ref
  BY <1>1, <1>2
<1>9. \A s \in Posts : ~ (opera'.post[s].win # 0 /\ opera.post[s].win = 0)
  BY <1>1, <1>2, <1>6
<1>10. Effect(q, {v, w}, opera, opera')
  BY <1>1, <1>2, <1>3, <1>4, <1>5, <1>6, <1>7, <1>8, <1>9 DEF Effect
<1> QED
  BY <1>10 DEF p, w, v

LEMMA OpensEffect ==
  ASSUME FolioInv, NEW q \in Requests, q.op = "open", q.win \in Windows,
         OperaOpens(q.win), Filled(opera)
  PROVE  Effect(q, {q.win}, opera, opera')
<1>1. opera \in OperaState /\ opera' = [opera EXCEPT !.win[q.win] = "open"]
  BY DEF FolioInv, TypeOK, OperaOpens
<1>2. /\ opera'.post = opera.post /\ opera'.win[q.win] = "open"
      /\ \A w \in Windows \ {q.win} : opera'.win[w] = opera.win[w]
  BY <1>1 DEF OperaState
<1>3. ~ Tagging(q)
  BY DEF Tagging
<1> QED
  BY <1>2, <1>3 DEF Effect, Filled

(* Nothing is on the window that is opened, and whatever OPERA does it     *)
(* answers with the windows it touched.                                    *)
LEMMA DoesEffect ==
  ASSUME FolioInv, NEW q \in Requests, Sends(q), Does(q), Filled(opera),
         q.op = "void" => opera.post[q.post].win = q.win,
         q.op = "post" => q.by = "desk"
  PROVE  Effect(q, Touched(q), opera, opera')
<1>1. CASE q.op = "open" /\ OperaOpens(q.win)
  BY <1>1, OpensEffect DEF Sends, Touched
<1>2. CASE q.op = "transfer" /\ OperaMoves(q.post, q.win)
  BY <1>2, MovesEffect DEF Sends, Touched
<1>3. CASE q.op \in {"post", "pay", "charge"} /\ OperaPosts(q.win, Posting(q))
  <2>1. q.win \in Windows /\ Touched(q) = {q.win}
    BY <1>3 DEF Sends, Touched
  <2>2. ~ Tagging(q) => q.by \notin Tagged1
    BY <1>3, FolioAssumption DEF Tagging, Tagged1
  <2> QED
    BY <1>3, <2>1, <2>2, PostingType, PostsEffect
<1>4. CASE q.op = "void" /\ OperaVoids(q.post, Posting(q))
  <2> DEFINE new == [Posting(q) EXCEPT !.amt = Opposite[opera.post[q.post].amt], !.voids = q.post]
  <2>1. q.post \in Posts /\ q.win \in Windows
    BY <1>4 DEF Sends, MayReverse
  <2>2. opera.post[q.post] \in Post
    BY <2>1 DEF FolioInv, TypeOK, OperaState
  <2>3. Opposite[opera.post[q.post].amt] \in Amounts
    BY <2>2 DEF Post, Opposite, Amounts
  <2>4. new \in Post /\ new.ref = q.ref /\ new.by = q.by /\ new.voids = q.post
    BY <2>1, <2>3, PostingType DEF Post
  <2>5. OperaPosts(q.win, new) /\ Touched(q) = {q.win} /\ opera.post[q.post].win = q.win
    BY <1>4 DEF OperaVoids, Touched
  <2> HIDE DEF new
  <2>6. Tagging(q)
    BY <1>4 DEF Tagging
  <2> QED
    BY <2>1, <2>4, <2>5, <2>6, PostsEffect
<1> QED
  BY <1>1, <1>2, <1>3, <1>4 DEF Does

(* A request with its answer.                                              *)
LEMMA AnsweredIs ==
  ASSUME NEW q \in Requests
  PROVE  LET r == Answered(q) IN
         /\ r.at = "mirror" /\ r.ans = AnswerOn(Touched(q), opera')
         /\ r.op = q.op /\ r.win = q.win /\ r.ref = q.ref
BY DEF Answered, Requests

-----------------------------------------------------------------------------
(* The steps of the only request at work.                                  *)

(* A request that asks OPERA at once (open, post, deposit).                *)
LEMMA CallsCalm ==
  ASSUME FolioInv, CalmInv, NEW c \in Clerks, NEW q \in Requests, Sends(q), Calls(c, q),
         q.op # "void", q.op = "post" => q.by = "desk"
  PROVE  CalmInv'
<1>1. /\ At(c, "idle") /\ Does(q) /\ req' = [req EXCEPT ![c] = Answered(q)]
      /\ calm' = (calm /\ Quiet) /\ UNCHANGED <<local, stay>>
  BY DEF Calls
<1>2. /\ opera' \in OperaState
      /\ q.op \in {"pay", "charge", "void"} => q.ref.kind # "none" /\ Made(opera'.post, q)
  BY <1>1, DoesStep
<1>3. Answered(q) \in Requests
  BY <1>2, AnsweredStep
<1> DEFINE r == Answered(q)
<1>4. /\ r.at = "mirror" /\ r.ans = AnswerOn(Touched(q), opera')
      /\ r.op = q.op /\ r.win = q.win /\ r.ref = q.ref
  BY AnsweredIs
<1> HIDE DEF r
<1>5. ASSUME Fits(Idle, local, opera, stay) PROVE Fits(r, local', opera', stay')
  <2>1. Effect(q, Touched(q), opera, opera')
    BY <1>1, <1>5, DoesEffect DEF Fits, InOrder
  <2>2. Idle.at \in {"idle", "core"}
    BY DEF Idle
  <2>3. Fits(r, local, opera', stay)
    BY <1>2, <1>4, <1>5, <2>1, <2>2, AnsweredFits
  <2> QED
    BY <1>1, <2>3
<1> QED
  BY <1>1, <1>3, <1>4, <1>5, CalmStart DEF r

(* OPERA's answer to a transfer, a payment, a charge or a void.            *)
LEMMA CoreAnswersCalm ==
  ASSUME FolioInv, CalmInv, NEW c \in Clerks, CoreAnswers(c)
  PROVE  CalmInv'
<1> DEFINE q == req[c]
<1>1. /\ q \in Requests /\ Holds(q, opera.post) /\ q.at = "core" /\ ~ At(c, "idle")
  BY HoldsIsInv DEF FolioInv, TypeOK, CoreAnswers, At
<1>2. /\ Does(q) /\ req' = [req EXCEPT ![c] = Answered(q)]
      /\ UNCHANGED <<local, stay, calm, troubles>>
  BY DEF CoreAnswers, FolioInv, TypeOK
<1>3. q.op = "void" => MayReverse(q)
  BY <1>1 DEF Holds, Reversed, MayReverse, IsCharge
<1>4. Sends(q) /\ q.op \in {"transfer", "pay", "charge", "void"}
  BY <1>1, <1>3, FolioAssumption DEF Holds, Sends
<1>5. /\ opera' \in OperaState
      /\ q.op \in {"pay", "charge", "void"} => q.ref.kind # "none" /\ Made(opera'.post, q)
  BY <1>1, <1>2, <1>4, DoesStep
<1>6. Answered(q) \in Requests
  BY <1>1, <1>4, <1>5, AnsweredStep
<1> DEFINE r == Answered(q)
<1>7. /\ r.at = "mirror" /\ r.ans = AnswerOn(Touched(q), opera')
      /\ r.op = q.op /\ r.win = q.win /\ r.ref = q.ref
  BY <1>1, AnsweredIs
<1> HIDE DEF r
<1>8. ASSUME Fits(q, local, opera, stay) PROVE Fits(r, local', opera', stay')
  <2>1. Effect(q, Touched(q), opera, opera')
    BY <1>1, <1>2, <1>4, <1>8, DoesEffect DEF Fits, InOrder, AsksRightly
  <2>2. Fits(r, local, opera', stay)
    BY <1>1, <1>5, <1>7, <1>8, <2>1, AnsweredFits
  <2> QED
    BY <1>2, <2>2
<1> QED
  BY <1>1, <1>2, <1>6, <1>7, <1>8, CalmGoes DEF r

(* A request of the desk that waits asks what it read.                     *)
LEMMA StartTransferCalm ==
  ASSUME FolioInv, CalmInv, NEW c \in Clerks, NEW p \in Posts, NEW w \in Windows,
         StartTransfer(c, p, w)
  PROVE  CalmInv'
<1> DEFINE q == Request("transfer", w, p, 1, NoRef, "desk")
<1>1. q \in Requests
  BY Values, RequestType DEF Ops, Amounts, Makers
<1>2. q.at = "core" /\ q.op = "transfer" /\ q.post = p
  BY RequestFields
<1>3. Begins(c, q) /\ local.row[p].win # 0 /\ local.row[p].tag # "payment"
  BY DEF StartTransfer, MayMove
<1> HIDE DEF q
<1>4. ASSUME Fits(Idle, local, opera, stay) PROVE opera.post[p].by # "payment"
  <2>1. opera.post[p].win # 0
    BY <1>3 DEF FolioInv, RowsAreReal, NoRow
  <2>2. Idle.at # "mirror"
    BY DEF Idle
  <2> QED
    BY <1>3, <1>4, <2>1, <2>2 DEF Fits, TagsAgree, Tagged1
<1> QED
  BY <1>1, <1>2, <1>3, <1>4, CalmBegins DEF AsksRightly

LEMMA StartCheckOutCalm ==
  ASSUME FolioInv, CalmInv, NEW c \in Clerks, StartCheckOut(c)
  PROVE  CalmInv'
<1> DEFINE q == [Idle EXCEPT !.at = "close", !.op = "checkOut", !.todo = OpenLocally]
<1>1. q \in Requests
  BY Values DEF Requests, Stages, Ops, OpenLocally
<1>2. q.at = "close" /\ q.todo = OpenLocally
  BY DEF Idle
<1>3. Begins(c, q) /\ stay = "IN_HOUSE" /\ Sum(local.bal, OpenLocally) = 0
  BY DEF StartCheckOut, Settled
<1> HIDE DEF q
<1>4. ASSUME Fits(Idle, local, opera, stay) PROVE OpenLocally = { w \in Windows : opera.win[w] = "open" }
  <2>1. Ahead(Idle) = {} /\ Idle.at = "idle"
    BY DEF Ahead, Idle
  <2>2. \A w \in Windows : local.win[w] = opera.win[w]
    BY <1>4, <2>1 DEF Fits, WindowsAgree
  <2> QED
    BY <2>2 DEF OpenLocally
<1>5. Fits(Idle, local, opera, stay) => AsksRightly(q, local, opera)
  BY <1>2, <1>3, <1>4 DEF AsksRightly, OpenLocally
<1> QED
  BY <1>1, <1>2, <1>3, <1>5, CalmBegins

LEMMA PosStartsCalm ==
  ASSUME FolioInv, CalmInv, NEW c \in Clerks, PosStarts(c)
  PROVE  CalmInv'
<1>1. ASSUME NEW o \in Outlets, NEW k \in Checks, NEW w \in Windows, StartCharge(c, o, k, w)
      PROVE  CalmInv'
  <2> DEFINE q == Request("charge", w, 0, 1, ChargeRef(k), o)
  <2>1. q \in Requests
    BY RefType, RequestType DEF Ops, Amounts, Makers, ChargeRef
  <2>2. q.at = "core" /\ q.op = "charge"
    BY RequestFields
  <2>3. Begins(c, q)
    BY <1>1 DEF StartCharge
  <2> HIDE DEF q
  <2> QED
    BY <2>1, <2>2, <2>3, CalmBegins DEF AsksRightly
<1>2. ASSUME NEW o \in Outlets, NEW k \in Checks, StartVoid(c, o, k)
      PROVE  CalmInv'
  <2>1. PICK p \in Found(o, k) :
          Begins(c, Request("void", local.row[p].win, p, 1, Ref(k, "void"), o))
    BY <1>2 DEF StartVoid
  <2> DEFINE q == Request("void", local.row[p].win, p, 1, Ref(k, "void"), o)
  <2>2. p \in Posts /\ local.row[p].win # 0
    BY DEF Found
  <2>3. local.row[p] \in Row
    BY <2>2 DEF FolioInv, TypeOK, LocalState
  <2>4. local.row[p].win \in Windows
    BY <2>2, <2>3 DEF Row
  <2>5. q \in Requests
    BY <2>2, <2>4, RefType, RequestType DEF Ops, Amounts, Makers
  <2>6. q.at = "core" /\ q.op = "void" /\ q.post = p /\ q.win = local.row[p].win
    BY RequestFields
  <2>7. Begins(c, q)
    BY <2>1
  <2> HIDE DEF q
  <2>8. ASSUME Fits(Idle, local, opera, stay) PROVE opera.post[p].win = local.row[p].win
    <3>1. Ahead(Idle) = {}
      BY DEF Ahead, Idle
    <3> QED
      BY <2>2, <2>8, <3>1 DEF Fits, RowsAgree
  <2> QED
    BY <2>5, <2>6, <2>7, <2>8, CalmBegins DEF AsksRightly
<1> QED
  BY <1>1, <1>2 DEF PosStarts

LEMMA DeskStartsCalm ==
  ASSUME FolioInv, CalmInv, NEW c \in Clerks, DeskStarts(c)
  PROVE  CalmInv'
<1>1. ASSUME NEW w \in Windows, StartOpen(c, w) PROVE CalmInv'
  <2>1. Request("open", w, 0, 1, NoRef, "desk").op = "open"
    BY RequestFields
  <2> QED
    BY <1>1, <2>1, OpenSends, CallsCalm DEF StartOpen
<1>2. ASSUME NEW w \in Windows, NEW amt \in Amounts, StartPosting(c, w, amt) PROVE CalmInv'
  <2> DEFINE q == Request("post", w, 0, amt, NoRef, "desk")
  <2>1. q.op = "post" /\ q.by = "desk" /\ q \in Requests /\ Sends(q) /\ Calls(c, q)
    BY <1>2, RequestFields, PostingSends DEF StartPosting
  <2> HIDE DEF q
  <2> QED
    BY <2>1, CallsCalm
<1>3. ASSUME StartDeposit(c) PROVE CalmInv'
  <2>1. 1 \in Windows /\ -1 \in Amounts
    BY FolioAssumption DEF Windows, Amounts
  <2> QED
    BY <1>2, <1>3, <2>1 DEF StartDeposit
<1>4. ASSUME NEW w \in Windows, NEW k \in Checks, StartPay(c, w, k) PROVE CalmInv'
  <2> DEFINE q == Request("pay", w, 0, -1, Ref(k, "pay"), "payment")
  <2>1. q.op = "pay" /\ q.at = "core" /\ q \in Requests /\ Begins(c, q)
    BY <1>4, RequestFields, PaySends DEF StartPay
  <2> HIDE DEF q
  <2> QED
    BY <2>1, CalmBegins DEF AsksRightly
<1> QED
  BY <1>1, <1>2, <1>3, <1>4, StartTransferCalm, StartCheckOutCalm DEF DeskStarts, Amounts

(* OPERA refuses: nothing was written.                                     *)
LEMMA CoreRefusesCalm ==
  ASSUME FolioInv, CalmInv, NEW c \in Clerks, CoreRefuses(c)
  PROVE  CalmInv'
<1>1. /\ req[c].at = "core" /\ ~ At(c, "idle") /\ req' = [req EXCEPT ![c] = Idle]
      /\ UNCHANGED <<opera, local, stay, calm>>
  BY DEF CoreRefuses, Ends, At
<1>2. ASSUME Fits(req[c], local, opera, stay) PROVE Fits(Idle, local, opera, stay)
  <2>1. Ahead(Idle) = {} /\ Ahead(req[c]) = {} /\ Idle.at = "idle"
    BY <1>1 DEF Ahead, Idle
  <2>2. WindowsAgree(Idle, local, opera) /\ BalancesAgree(Idle, local, opera)
    BY <1>1, <1>2, <2>1 DEF Fits, WindowsAgree, BalancesAgree
  <2>3. RowsAgree(Idle, local, opera) /\ LinksAgree(Idle, local, opera)
    BY <1>2, <2>1 DEF Fits, RowsAgree, LinksAgree
  <2>4. TagsAgree(Idle, local, opera)
    BY <1>1, <1>2 DEF Fits, TagsAgree
  <2>5. AsksRightly(Idle, local, opera) /\ InOrder(Idle, local, opera, stay)
    BY <1>1, <1>2, <2>1 DEF Fits, AsksRightly, InOrder
  <2> QED
    BY <2>2, <2>3, <2>4, <2>5 DEF Fits
<1> QED
  BY <1>1, <1>2, Values, CalmGoes

(* At check-out a window is closed in OPERA before it is in our copy.      *)
LEMMA CloseWindowCalm ==
  ASSUME FolioInv, CalmInv, NEW c \in Clerks, CloseWindow(c)
  PROVE  CalmInv'
<1> DEFINE q == req[c]
<1>1. /\ q \in Requests /\ q.at = "close" /\ ~ At(c, "idle")
      /\ UNCHANGED <<local, stay, calm>>
  BY DEF CloseWindow, At, FolioInv, TypeOK
<1>2. PICK w \in q.todo : OperaCloses(w) /\ NextWindow(c, w)
  BY DEF CloseWindow
<1> DEFINE r == [q EXCEPT !.todo = @ \ {w}]
<1>3. r \in Requests /\ r.at = "close" /\ r.todo = q.todo \ {w} /\ req' = [req EXCEPT ![c] = r]
  BY <1>1, <1>2 DEF Requests, NextWindow, FolioInv, TypeOK
<1>4. /\ w \in Windows /\ opera'.post = opera.post /\ opera'.win[w] = "closed"
      /\ \A v \in Windows \ {w} : opera'.win[v] = opera.win[v]
  BY <1>1, <1>2 DEF OperaCloses, FolioInv, TypeOK, OperaState, Requests
<1> HIDE DEF q, r
<1>5. ASSUME Fits(q, local, opera, stay) PROVE Fits(r, local, opera', stay)
  <2>1. Ahead(q) = {} /\ Ahead(r) = {}
    BY <1>1, <1>3 DEF Ahead
  <2>2. q.todo = { v \in Windows : opera.win[v] = "open" } /\ stay = "IN_HOUSE"
    BY <1>1, <1>5 DEF Fits, AsksRightly, InOrder
  <2>3. local.win[w] = "open"
    BY <1>2, <1>4, <1>5, <2>1, <2>2 DEF Fits, WindowsAgree
  <2>4. WindowsAgree(r, local, opera')
    BY <1>3, <1>4, <1>5, <2>1, <2>3 DEF Fits, WindowsAgree
  <2>5. BalancesAgree(r, local, opera')
    BY <1>4, <1>5, <2>1 DEF Fits, BalancesAgree, Bal
  <2>6. RowsAgree(r, local, opera') /\ LinksAgree(r, local, opera')
    BY <1>4, <1>5, <2>1 DEF Fits, RowsAgree, LinksAgree
  <2>7. TagsAgree(r, local, opera')
    BY <1>1, <1>4, <1>5 DEF Fits, TagsAgree
  <2>8. r.todo = { v \in Windows : opera'.win[v] = "open" }
    BY <1>3, <1>4, <2>2
  <2>9. AsksRightly(r, local, opera')
    BY <1>1, <1>3, <1>5, <2>8 DEF Fits, AsksRightly
  <2>10. \A p \in Posts : opera'.post[p].win # 0 => opera'.win[opera'.post[p].win] # "none"
    <3> SUFFICES ASSUME NEW p \in Posts, opera.post[p].win # 0
                 PROVE  opera'.win[opera.post[p].win] # "none"
      BY <1>4
    <3>1. opera.post[p].win \in Windows /\ opera.win[opera.post[p].win] # "none"
      BY <1>5 DEF Fits, InOrder, FolioInv, TypeOK, OperaState, Post
    <3> QED
      BY <1>4, <3>1
  <2>11. InOrder(r, local, opera', stay)
    BY <1>3, <1>4, <1>5, <2>2, <2>10 DEF Fits, InOrder, Filled
  <2> QED
    BY <2>4, <2>5, <2>6, <2>7, <2>9, <2>11 DEF Fits
<1> QED
  BY <1>1, <1>3, <1>5, CalmGoes DEF q

(* While nothing fails, a window the check-out means to close is open.     *)
LEMMA TroubledCalm ==
  ASSUME FolioInv, CalmInv, NEW c \in Clerks, Troubled(c)
  PROVE  CalmInv'
<1> SUFFICES ASSUME calm' PROVE CalmInv'
  BY DEF CalmInv
<1>1. PICK w \in req[c].todo :
        opera.win[w] # "open" /\ UNCHANGED calm /\ At(c, "close")
  BY DEF Troubled, Dies, CloseFails, Fails
<1>2. Fits(req[c], local, opera, stay)
  BY <1>1, OnlyOne DEF At
<1>3. req[c].todo = { v \in Windows : opera.win[v] = "open" }
  BY <1>1, <1>2 DEF Fits, AsksRightly, At
<1> QED
  BY <1>1, <1>3

(* With all windows closed in OPERA, our copy closes them too.             *)
LEMMA FinishCheckOutCalm ==
  ASSUME FolioInv, CalmInv, NEW c \in Clerks, FinishCheckOut(c)
  PROVE  CalmInv'
<1> DEFINE q == req[c]
<1>1. /\ q \in Requests /\ q.at = "close" /\ ~ At(c, "idle") /\ q.todo = {}
      /\ req' = [req EXCEPT ![c] = Idle] /\ UNCHANGED <<opera, calm>> /\ stay' = "CHECKED_OUT"
      /\ local.win \in [Windows -> WindowState]
  BY DEF FinishCheckOut, Ends, At, FolioInv, TypeOK, LocalState
<1>2. /\ local'.bal = local.bal /\ local'.row = local.row
      /\ \A w \in Windows : local'.win[w] = IF local.win[w] = "open" THEN "closed" ELSE local.win[w]
  BY <1>1 DEF FinishCheckOut, FolioInv, TypeOK, LocalState
<1> HIDE DEF q
<1>3. ASSUME Fits(q, local, opera, stay) PROVE Fits(Idle, local', opera, stay')
  <2>1. Ahead(q) = {} /\ Ahead(Idle) = {} /\ Idle.at = "idle"
    BY <1>1 DEF Ahead, Idle
  <2>2. \A w \in Windows : opera.win[w] # "open"
    BY <1>1, <1>3 DEF Fits, AsksRightly
  <2>3. WindowsAgree(Idle, local', opera)
    BY <1>1, <1>2, <1>3, <2>1, <2>2 DEF Fits, WindowsAgree
  <2>4. BalancesAgree(Idle, local', opera)
    BY <1>2, <1>3, <2>1 DEF Fits, BalancesAgree
  <2>5. RowsAgree(Idle, local', opera) /\ LinksAgree(Idle, local', opera)
    BY <1>2, <1>3, <2>1 DEF Fits, RowsAgree, LinksAgree
  <2>6. TagsAgree(Idle, local', opera)
    BY <1>1, <1>2, <1>3 DEF Fits, TagsAgree
  <2>7. AsksRightly(Idle, local', opera) /\ InOrder(Idle, local', opera, stay')
    BY <1>1, <1>3, <2>1 DEF Fits, AsksRightly, InOrder
  <2> QED
    BY <2>3, <2>4, <2>5, <2>6, <2>7 DEF Fits
<1> QED
  BY <1>1, <1>3, Values, CalmGoes DEF q

(* Every step of a calm history.                                           *)
LEMMA CalmNext ==
  ASSUME FolioInv, CalmInv, Next
  PROVE  CalmInv'
<1>1. PICK c \in Clerks : DeskStarts(c) \/ PosStarts(c) \/ Resumes(c) \/ Troubled(c)
  BY DEF Next
<1> QED
  BY <1>1, DeskStartsCalm, PosStartsCalm, CoreAnswersCalm, CoreRefusesCalm, WriteMirrorCalm,
     CloseWindowCalm, FinishCheckOutCalm, TroubledCalm DEF Resumes

LEMMA CalmAlways == Spec => [](FolioInv /\ CalmInv)
<1>1. Init => CalmInv
  <2> SUFFICES ASSUME Init PROVE CalmInv
    OBVIOUS
  <2>1. Works(Idle) /\ Idle.at = "idle" /\ Ahead(Idle) = {}
    BY DEF Init, Works, Quiet, At, Idle, Ahead
  <2>2. /\ opera.win = FirstWindow /\ local.win = FirstWindow /\ stay = "IN_HOUSE"
        /\ \A p \in Posts : opera.post[p] = NoPost /\ local.row[p] = NoRow
        /\ \A w \in Windows : local.bal[w] = 0
    BY DEF Init, Start
  <2>3. \A p \in Posts : opera.post[p].win = 0 /\ opera.post[p].voids = 0 /\ local.row[p].win = 0
    BY <2>2 DEF NoPost, NoRow
  <2>4. WindowsAgree(Idle, local, opera)
    BY <2>2 DEF WindowsAgree
  <2>5. BalancesAgree(Idle, local, opera)
    <3> SUFFICES ASSUME NEW w \in Windows PROVE Bal(opera, w) = 0
      BY <2>2 DEF BalancesAgree
    <3>1. w # 0
      BY DEF Windows
    <3> DEFINE On(amt) == { p \in Posts : opera.post[p].win = w /\ opera.post[p].amt = amt }
    <3>2. On(1) = {} /\ On(-1) = {}
      BY <2>3, <3>1
    <3>3. Cardinality({}) = 0
      BY FS_EmptySet
    <3>4. Bal(opera, w) = Cardinality(On(1)) - Cardinality(On(-1))
      BY DEF Bal
    <3> HIDE DEF On
    <3> QED
      BY <3>2, <3>3, <3>4
  <2>6. RowsAgree(Idle, local, opera)
    BY <2>1, <2>3 DEF RowsAgree
  <2>7. LinksAgree(Idle, local, opera)
    BY <2>3 DEF LinksAgree, Posts
  <2>8. TagsAgree(Idle, local, opera)
    BY <2>3 DEF TagsAgree
  <2>9. AsksRightly(Idle, local, opera)
    BY <2>1 DEF AsksRightly
  <2>10. Filled(opera)
    <3>1. 0 \in 0..MaxPosts /\ \A p \in Posts : ~ (p <= 0)
      BY FolioAssumption DEF Posts
    <3> QED
      BY <2>3, <3>1 DEF Filled
  <2>11. InOrder(Idle, local, opera, stay)
    BY <2>1, <2>2, <2>3, <2>10 DEF InOrder, FirstWindow
  <2>12. Fits(Idle, local, opera, stay)
    BY <2>4, <2>5, <2>6, <2>7, <2>8, <2>9, <2>11 DEF Fits
  <2> QED
    BY <2>1, <2>12, Values DEF CalmInv
<1>2. FolioInv /\ CalmInv /\ [Next]_vars => CalmInv'
  <2>1. ASSUME CalmInv, UNCHANGED vars PROVE CalmInv'
    BY <2>1 DEF vars, CalmInv, Works, Quiet, At
  <2> QED
    BY <2>1, CalmNext
<1> QED
  BY <1>1, <1>2, FolioInvariant, PTL DEF Spec

(* While requests do not overlap and nothing fails, our copy is OPERA's    *)
(* folio between requests: windows, balances, the window of every posting, *)
(* what reversed what, and the outlet of every charge (mirrorFolios, and   *)
(* the tag postCharge and voidCharge write after it).                      *)
THEOREM CopyFollowsOperaAlways == Spec => []CopyFollowsOpera
<1>1. FolioInv /\ CalmInv => CopyFollowsOpera
  <2> SUFFICES ASSUME FolioInv, CalmInv, calm, Quiet
               PROVE  /\ local.win = opera.win
                      /\ \A w \in Windows : local.bal[w] = Balance(Place(opera), w)
                      /\ \A p \in Posts :
                           /\ local.row[p].win = opera.post[p].win
                           /\ \A q \in Posts : opera.post[q].voids = p <=> local.row[p].voided = q
                           /\ opera.post[p].win # 0 /\ opera.post[p].by \in Outlets =>
                                local.row[p].tag = opera.post[p].by
    BY DEF CopyFollowsOpera
  <2>1. Fits(Idle, local, opera, stay) /\ Ahead(Idle) = {} /\ Idle.at = "idle"
    BY NoneAtWork DEF Ahead, Idle
  <2>2. local.win \in [Windows -> WindowState] /\ opera.win \in [Windows -> WindowState]
    BY DEF FolioInv, TypeOK, LocalState, OperaState
  <2>3. \A w \in Windows : local.win[w] = opera.win[w]
    BY <2>1 DEF Fits, WindowsAgree
  <2>4. \A w \in Windows : local.bal[w] = Balance(Place(opera), w)
    BY <2>1, BalanceIs DEF Fits, BalancesAgree
  <2>5. ASSUME NEW p \in Posts, NEW q \in Posts
        PROVE  opera.post[q].voids = p <=> local.row[p].voided = q
    <3>1. opera.post[q].voids = p => local.row[p].voided = q
      BY <2>1 DEF Fits, LinksAgree
    <3>2. local.row[p].voided = q => opera.post[q].voids = p
      BY DEF FolioInv, VoidedIsReversed, Posts
    <3> QED
      BY <3>1, <3>2
  <2>6. \A p \in Posts : local.row[p].win = opera.post[p].win
    BY <2>1 DEF Fits, RowsAgree
  <2>7. \A p \in Posts : opera.post[p].win # 0 /\ opera.post[p].by \in Outlets =>
          local.row[p].tag = opera.post[p].by
    BY <2>1 DEF Fits, TagsAgree, Tagged1
  <2>8. local.win = opera.win
    BY <2>2, <2>3
  <2> QED
    BY <2>4, <2>5, <2>6, <2>7, <2>8
<1> QED
  BY <1>1, CalmAlways, PTL

-----------------------------------------------------------------------------
(* Sums over the windows, and what a step of a calm history may not do.    *)

(* A sum depends only on its terms.                                        *)
LEMMA SumOfTerms ==
  ASSUME NEW f, NEW S, NEW g, NEW T,
         \A n \in Windows : (IF n \in S THEN f[n] ELSE 0) = (IF n \in T THEN g[n] ELSE 0)
  PROVE  Sum(f, S) = Sum(g, T)
<1> DEFINE F(s) == [n \in 0..MaxWin |->
                     IF n = 0 THEN 0 ELSE s[n - 1] + (IF n \in S THEN f[n] ELSE 0)]
           G(s) == [n \in 0..MaxWin |->
                     IF n = 0 THEN 0 ELSE s[n - 1] + (IF n \in T THEN g[n] ELSE 0)]
<1>1. \A n \in 0..MaxWin : n # 0 => n \in Windows
  BY FolioAssumption DEF Windows
<1>2. \A s : F(s) = G(s)
  BY <1>1
<1>3. Sum(f, S) = (CHOOSE s : s = F(s))[MaxWin] /\ Sum(g, T) = (CHOOSE s : s = G(s))[MaxWin]
  BY DEF Sum
<1> HIDE DEF F, G
<1>4. (CHOOSE s : s = F(s)) = (CHOOSE s : s = G(s))
  BY <1>2, Zenon
<1> QED
  BY <1>3, <1>4

-----------------------------------------------------------------------------
(* Whatever OPERA does with a request, only a transfer moves a posting,    *)
(* and only the one it names.                                              *)
LEMMA PostsMovesNothing ==
  ASSUME FolioInv, NEW w, NEW new, OperaPosts(w, new), NEW p \in Posts, opera.post[p].win # 0
  PROVE  opera'.post[p] = opera.post[p]
<1>1. PICK r \in Posts :
        /\ \A s \in Posts : opera.post[s].win # 0 <=> s < r
        /\ opera' = [opera EXCEPT !.post[r] = [new EXCEPT !.win = w]]
  BY DEF OperaPosts
<1>2. p # r
  BY <1>1 DEF Posts
<1> QED
  BY <1>1, <1>2 DEF FolioInv, TypeOK, OperaState

LEMMA StaysOn ==
  ASSUME FolioInv, NEW q \in Requests, Does(q), NEW p \in Posts, opera.post[p].win # 0,
         ~ (q.op = "transfer" /\ q.post = p)
  PROVE  opera'.post[p].win = opera.post[p].win
<1>1. CASE q.op = "open" /\ OperaOpens(q.win)
  BY <1>1 DEF OperaOpens, FolioInv, TypeOK, OperaState
<1>2. CASE q.op = "transfer" /\ OperaMoves(q.post, q.win)
  <2>1. opera' = [opera EXCEPT !.post[q.post].win = q.win] /\ q.post # p
    BY <1>2 DEF OperaMoves
  <2> QED
    BY <2>1 DEF FolioInv, TypeOK, OperaState
<1>3. CASE OperaPosts(q.win, Posting(q))
  BY <1>3, PostsMovesNothing
<1>4. CASE OperaVoids(q.post, Posting(q))
  BY <1>4, PostsMovesNothing DEF OperaVoids
<1> QED
  BY <1>1, <1>2, <1>3, <1>4 DEF Does

(* What the desk starts asks OPERA at once, or leaves it alone.            *)
LEMMA DeskStartsAsks ==
  ASSUME FolioInv, NEW c \in Clerks, DeskStarts(c)
  PROVE  /\ UNCHANGED stay /\ (calm' => calm)
         /\ \/ UNCHANGED opera
            \/ \E q \in Requests : Sends(q) /\ Does(q) /\ q.op # "transfer"
<1>1. ASSUME NEW q, Calls(c, q) \/ Begins(c, q)
      PROVE  UNCHANGED stay /\ (calm' => calm) /\ (Calls(c, q) => Does(q))
  BY <1>1 DEF Calls, Begins
<1>2. ASSUME NEW w \in Windows, StartOpen(c, w)
      PROVE  \E q \in Requests : Sends(q) /\ Calls(c, q) /\ q.op # "transfer"
  <2> DEFINE q == Request("open", w, 0, 1, NoRef, "desk")
  <2>1. q \in Requests /\ q.op = "open" /\ Sends(q) /\ Calls(c, q)
    BY <1>2, OpenSends, RequestFields DEF StartOpen
  <2> HIDE DEF q
  <2> QED
    BY <2>1
<1>3. ASSUME NEW w \in Windows, NEW amt \in Amounts, StartPosting(c, w, amt)
      PROVE  \E q \in Requests : Sends(q) /\ Calls(c, q) /\ q.op # "transfer"
  <2> DEFINE q == Request("post", w, 0, amt, NoRef, "desk")
  <2>1. q \in Requests /\ q.op = "post" /\ Sends(q) /\ Calls(c, q)
    BY <1>3, PostingSends, RequestFields DEF StartPosting
  <2> HIDE DEF q
  <2> QED
    BY <2>1
<1>4. ASSUME StartDeposit(c)
      PROVE  \E q \in Requests : Sends(q) /\ Calls(c, q) /\ q.op # "transfer"
  <2>1. 1 \in Windows /\ -1 \in Amounts
    BY FolioAssumption DEF Windows, Amounts
  <2> QED
    BY <1>3, <1>4, <2>1 DEF StartDeposit
<1>5. \/ \E q \in Requests : Sends(q) /\ Calls(c, q) /\ q.op # "transfer"
      \/ (\E q : Begins(c, q)) /\ UNCHANGED opera
  BY <1>2, <1>3, <1>4 DEF DeskStarts, StartPay, StartTransfer, StartCheckOut, Begins
<1> QED
  BY <1>1, <1>5

(* While requests do not overlap and nothing fails, no step moves what a   *)
(* payment posted to another window: a transfer is refused by the tag on   *)
(* our row, and every posting of a payment has it by then (transferPosting *)
(* and the tag settle and capture write).                                  *)
THEOREM PaymentStaysPutAlways == Spec => PaymentStaysPut
<1>1. ASSUME FolioInv, CalmInv, Next, calm', NEW p \in Posts,
             opera.post[p].win # 0, opera.post[p].by = "payment"
      PROVE  opera'.post[p].win = opera.post[p].win
  <2>1. ASSUME NEW c \in Clerks, CoreAnswers(c) PROVE opera'.post[p].win = opera.post[p].win
    <3>1. /\ req[c] \in Requests /\ Does(req[c]) /\ req[c].at = "core" /\ calm
          /\ ~ At(c, "idle")
      BY <1>1, <2>1 DEF FolioInv, TypeOK, CoreAnswers, At
    <3>2. Fits(req[c], local, opera, stay)
      BY <1>1, <3>1, OnlyOne
    <3>3. req[c].op = "transfer" => opera.post[req[c].post].by # "payment"
      BY <3>1, <3>2 DEF Fits, AsksRightly
    <3> QED
      BY <1>1, <3>1, <3>3, StaysOn
  <2>2. ASSUME NEW c \in Clerks, CloseWindow(c) PROVE opera'.post[p].win = opera.post[p].win
    BY <1>1, <2>2 DEF CloseWindow, OperaCloses, FolioInv, TypeOK, OperaState
  <2>3. ASSUME NEW c \in Clerks,
               PosStarts(c) \/ CoreRefuses(c) \/ WriteMirror(c) \/ FinishCheckOut(c) \/ Troubled(c)
        PROVE  UNCHANGED opera
    BY <2>3 DEF PosStarts, StartCharge, StartVoid, Begins, CoreRefuses, WriteMirror,
                FinishCheckOut, Troubled, CloseFails, Dies
  <2>4. ASSUME NEW c \in Clerks, DeskStarts(c) PROVE opera'.post[p].win = opera.post[p].win
    BY <1>1, <2>4, DeskStartsAsks, StaysOn
  <2>5. UNCHANGED opera => opera'.post[p].win = opera.post[p].win
    OBVIOUS
  <2> QED
    BY <1>1, <2>1, <2>2, <2>3, <2>4, <2>5 DEF Next, Resumes
<1>2. FolioInv /\ CalmInv /\ [Next]_vars =>
        [calm' => \A p \in Posts : opera.post[p].win # 0 /\ opera.post[p].by = "payment" =>
           opera'.post[p].win = opera.post[p].win]_vars
  BY <1>1
<1> QED
  BY <1>2, CalmAlways, PTL DEF Spec, PaymentStaysPut

-----------------------------------------------------------------------------
(* A window OPERA does not have has nothing on it.                         *)
LEMMA NothingOnNoWindow ==
  ASSUME NEW w \in Windows, opera.win[w] = "none",
         \A p \in Posts : opera.post[p].win # 0 => opera.win[opera.post[p].win] # "none"
  PROVE  Bal(opera, w) = 0
<1> DEFINE On(amt) == { p \in Posts : opera.post[p].win = w /\ opera.post[p].amt = amt }
<1>1. On(1) = {} /\ On(-1) = {}
  BY DEF Windows
<1>2. Bal(opera, w) = Cardinality(On(1)) - Cardinality(On(-1))
  BY DEF Bal
<1> HIDE DEF On
<1> QED
  BY <1>1, <1>2, FS_EmptySet

(* A check-out in a calm history that closed every window leaves nothing   *)
(* owed: it read the balances of the windows open here, and OPERA has      *)
(* nothing on any other.                                                   *)
LEMMA FinishesSettled ==
  ASSUME FolioInv, CalmInv, calm, NEW c \in Clerks, FinishCheckOut(c)
  PROVE  Sum([w \in Windows |-> Balance(Place(opera), w)], Windows) = 0
<1> DEFINE q == req[c]
           g == [w \in Windows |-> Balance(Place(opera), w)]
<1>1. q.at = "close" /\ q.todo = {} /\ ~ At(c, "idle")
  BY DEF FinishCheckOut, At
<1>2. Fits(q, local, opera, stay)
  BY <1>1, OnlyOne
<1>3. Ahead(q) = {}
  BY <1>1 DEF Ahead
<1>4. stay = "IN_HOUSE" /\ Sum(local.bal, OpenLocally) = 0
  BY <1>1, <1>2 DEF Fits, InOrder, AsksRightly, OpenLocally
<1>5. ASSUME NEW w \in Windows
      PROVE  (IF w \in Windows THEN g[w] ELSE 0) = (IF w \in OpenLocally THEN local.bal[w] ELSE 0)
  <2>1. g[w] = Bal(opera, w)
    BY BalanceIs
  <2>2. local.bal[w] = Bal(opera, w)
    BY <1>2, <1>3 DEF Fits, BalancesAgree
  <2>3. CASE w \in OpenLocally
    BY <2>1, <2>2, <2>3
  <2>4. CASE w \notin OpenLocally
    <3>1. local.win[w] = "none"
      <4>1. local.win[w] \in WindowState /\ local.win[w] # "closed" /\ local.win[w] # "open"
        BY <1>2, <1>4, <2>4 DEF FolioInv, TypeOK, LocalState, Fits, InOrder, OpenLocally
      <4> QED
        BY <4>1 DEF WindowState
    <3>2. opera.win[w] = "none"
      BY <1>2, <1>3, <3>1 DEF Fits, WindowsAgree
    <3>3. Bal(opera, w) = 0
      BY <1>2, <3>2, NothingOnNoWindow DEF Fits, InOrder
    <3> QED
      BY <2>1, <2>4, <3>3
  <2> QED
    BY <2>3, <2>4
<1> HIDE DEF g
<1>6. Sum(g, Windows) = Sum(local.bal, OpenLocally)
  BY <1>5, SumOfTerms
<1> QED
  BY <1>4, <1>6 DEF g

(* While requests do not overlap and nothing fails, a guest who is checked *)
(* out owes nothing (checkOut).                                            *)
THEOREM DepartsSettledAlways == Spec => DepartsSettled
<1>1. ASSUME FolioInv, CalmInv, Next, calm', stay' # stay
      PROVE  Sum([w \in Windows |-> Balance(Place(opera), w)], Windows) = 0
  <2>1. ASSUME NEW c \in Clerks, DeskStarts(c) PROVE UNCHANGED stay
    BY <2>1 DEF DeskStarts, StartOpen, StartPosting, StartPay, StartTransfer, StartDeposit,
                StartCheckOut, Calls, Begins
  <2>2. ASSUME NEW c \in Clerks, PosStarts(c) \/ CoreAnswers(c) \/ CoreRefuses(c)
                 \/ WriteMirror(c) \/ CloseWindow(c) \/ Troubled(c)
        PROVE  UNCHANGED stay
    BY <2>2 DEF PosStarts, StartCharge, StartVoid, Begins, CoreAnswers, CoreRefuses,
                WriteMirror, CloseWindow, Troubled, CloseFails, Dies
  <2>3. PICK c \in Clerks : FinishCheckOut(c)
    BY <1>1, <2>1, <2>2 DEF Next, Resumes
  <2>4. calm
    BY <1>1, <2>3 DEF FinishCheckOut
  <2> QED
    BY <1>1, <2>3, <2>4, FinishesSettled
<1>2. FolioInv /\ CalmInv /\ [Next]_vars =>
        [calm' /\ stay' # stay =>
           Sum([w \in Windows |-> Balance(Place(opera), w)], Windows) = 0]_vars
  BY <1>1
<1> QED
  BY <1>2, CalmAlways, PTL DEF Spec, DepartsSettled

-----------------------------------------------------------------------------
(* What the windows add up to.                                             *)

(* A set of natural numbers has a least one: induction, for a goal that    *)
(* could fail first somewhere.                                             *)
LEMMA Least ==
  ASSUME NEW T, T \subseteq Nat, T # {}
  PROVE  \E n \in T : \A m \in T : n <= m
<1> DEFINE R == OpToRel(<, Nat)
<1>1. IsWellFoundedOn(R, Nat)
  BY NatLessThanWellFounded
<1> HIDE DEF R
<1>2. PICK n \in T : \A m \in T : ~ (<<m, n>> \in R)
  BY <1>1, WFMin
<1>3. \A m \in Nat : m < n => <<m, n>> \in R
  BY DEF R, OpToRel
<1>4. \A m \in T : ~ (m < n)
  BY <1>2, <1>3
<1>5. \A m \in T : n <= m
  BY <1>4
<1> QED
  BY <1>5

(* A sum over windows is whatever runs up to it window by window.          *)
LEMMA SumIs ==
  ASSUME NEW f, NEW S, NEW h, h[0] = 0,
         \A n \in Windows : h[n] = h[n - 1] + (IF n \in S THEN f[n] ELSE 0)
  PROVE  Sum(f, S) = h[MaxWin]
<1> DEFINE F(s) == [n \in 0..MaxWin |->
                     IF n = 0 THEN 0 ELSE s[n - 1] + (IF n \in S THEN f[n] ELSE 0)]
           g == [n \in 0..MaxWin |-> h[n]]
           sum == CHOOSE s : s = F(s)
<1>1. Sum(f, S) = sum[MaxWin]
  BY DEF Sum
<1>2. \A n \in 0..MaxWin : n # 0 => n \in Windows /\ n - 1 \in 0..MaxWin
  BY FolioAssumption DEF Windows
<1>3. g = F(g)
  BY <1>2
<1>4. sum = F(sum)
  <2>1. \E s : s = F(s)
    BY <1>3
  <2> HIDE DEF F
  <2> QED
    BY <2>1
<1> HIDE DEF sum
<1> DEFINE T == { n \in 0..MaxWin : sum[n] # h[n] }
<1>5. T = {}
  <2> SUFFICES ASSUME T # {} PROVE FALSE
    OBVIOUS
  <2>1. T \subseteq Nat
    BY FolioAssumption
  <2>2. PICK n \in T : \A m \in T : n <= m
    <3> HIDE DEF T
    <3> QED
      BY <2>1, Least
  <2>3. n \in 0..MaxWin /\ sum[n] # h[n]
    OBVIOUS
  <2>4. n # 0
    BY <1>4, <2>3
  <2>5. n - 1 \in 0..MaxWin /\ n \in Windows /\ ~ (n <= n - 1)
    BY <1>2, <2>3, <2>4 DEF Windows
  <2>6. n - 1 \notin T
    BY <2>2, <2>5
  <2>7. sum[n - 1] = h[n - 1]
    BY <2>5, <2>6
  <2>8. sum[n] = sum[n - 1] + (IF n \in S THEN f[n] ELSE 0)
    BY <1>4, <2>3, <2>4
  <2> QED
    BY <2>3, <2>5, <2>7, <2>8
<1>6. MaxWin \in 0..MaxWin
  BY FolioAssumption
<1> QED
  BY <1>1, <1>5, <1>6

(* Sums of postings are integers, and add up over disjoint sets.           *)
LEMMA SumOfType ==
  ASSUME NEW S, S \subseteq Posts
  PROVE  SumOf(S) \in Int
<1> DEFINE On(amt) == { p \in S : opera.post[p].amt = amt }
<1>1. Cardinality(On(1)) \in Nat /\ Cardinality(On(-1)) \in Nat
  BY PostsAreFinite
<1>2. SumOf(S) = Cardinality(On(1)) - Cardinality(On(-1))
  BY DEF SumOf
<1> QED
  BY <1>1, <1>2

LEMMA SumOfNothing == SumOf({}) = 0
<1> DEFINE On(amt) == { p \in {} : opera.post[p].amt = amt }
<1>1. On(1) = {} /\ On(-1) = {}
  OBVIOUS
<1>2. SumOf({}) = Cardinality(On(1)) - Cardinality(On(-1))
  BY DEF SumOf
<1> HIDE DEF On
<1> QED
  BY <1>1, <1>2, FS_EmptySet

LEMMA CardinalityAdds ==
  ASSUME NEW S, NEW T, S \subseteq Posts, T \subseteq Posts, S \cap T = {}
  PROVE  Cardinality(S \cup T) = Cardinality(S) + Cardinality(T)
<1>1. IsFiniteSet(Posts)
  BY FolioAssumption, FS_Interval DEF Posts
<1>2. IsFiniteSet(S) /\ IsFiniteSet(T)
  BY <1>1, FS_Subset
<1>3. Cardinality(S \cup T) = Cardinality(S) + Cardinality(T) - Cardinality(S \cap T)
  BY <1>2, FS_Union
<1>4. Cardinality(S \cap T) = 0 /\ Cardinality(S) \in Nat /\ Cardinality(T) \in Nat
  BY <1>2, FS_EmptySet, FS_CardinalityType
<1> QED
  BY <1>3, <1>4

LEMMA SumOfAdds ==
  ASSUME NEW S, NEW T, S \subseteq Posts, T \subseteq Posts, S \cap T = {}
  PROVE  SumOf(S \cup T) = SumOf(S) + SumOf(T)
<1> DEFINE On(U, amt) == { p \in U : opera.post[p].amt = amt }
<1>1. \A U : SumOf(U) = Cardinality(On(U, 1)) - Cardinality(On(U, -1))
  BY DEF SumOf
<1>2. ASSUME NEW amt
      PROVE  /\ Cardinality(On(S \cup T, amt)) = Cardinality(On(S, amt)) + Cardinality(On(T, amt))
             /\ Cardinality(On(S, amt)) \in Nat /\ Cardinality(On(T, amt)) \in Nat
  <2>1. /\ On(S \cup T, amt) = On(S, amt) \cup On(T, amt)
        /\ On(S, amt) \cap On(T, amt) = {}
        /\ On(S, amt) \subseteq Posts /\ On(T, amt) \subseteq Posts
    OBVIOUS
  <2> HIDE DEF On
  <2> QED
    BY <2>1, CardinalityAdds, PostsAreFinite
<1> HIDE DEF On
<1>3. /\ Cardinality(On(S \cup T, 1)) = Cardinality(On(S, 1)) + Cardinality(On(T, 1))
      /\ Cardinality(On(S \cup T, -1)) = Cardinality(On(S, -1)) + Cardinality(On(T, -1))
      /\ Cardinality(On(S, 1)) \in Nat /\ Cardinality(On(T, 1)) \in Nat
      /\ Cardinality(On(S, -1)) \in Nat /\ Cardinality(On(T, -1)) \in Nat
  BY <1>2
<1> QED
  BY <1>1, <1>3

(* The balances of some windows are what the postings on them sum to.      *)
PostsOn(S) == { p \in Posts : opera.post[p].win \in S }
LEMMA WindowsSum ==
  ASSUME NEW f, NEW S, S \subseteq Windows, \A w \in S : f[w] = Bal(opera, w)
  PROVE  Sum(f, S) = SumOf(PostsOn(S))
<1> DEFINE h == [n \in 0..MaxWin |-> SumOf(PostsOn(S \cap (1..n)))]
<1>1. \A w : Bal(opera, w) = SumOf(PostsOn({w}))
  <2> SUFFICES ASSUME NEW w PROVE Bal(opera, w) = SumOf(PostsOn({w}))
    OBVIOUS
  <2>1. ASSUME NEW amt
        PROVE  { p \in PostsOn({w}) : opera.post[p].amt = amt }
                 = { p \in Posts : opera.post[p].win = w /\ opera.post[p].amt = amt }
    BY DEF PostsOn
  <2> QED
    BY <2>1 DEF Bal, SumOf
<1>2. h[0] = 0
  <2>1. PostsOn(S \cap (1..0)) = {} /\ 0 \in 0..MaxWin
    BY FolioAssumption DEF PostsOn
  <2> QED
    BY <2>1, SumOfNothing
<1>3. ASSUME NEW n \in Windows
      PROVE  h[n] = h[n - 1] + (IF n \in S THEN f[n] ELSE 0)
  <2>1. n \in 0..MaxWin /\ n - 1 \in 0..MaxWin
    BY FolioAssumption DEF Windows
  <2> DEFINE before == PostsOn(S \cap (1..(n - 1)))
  <2>2. before \subseteq Posts
    BY DEF PostsOn
  <2>3. SumOf(before) \in Int
    BY <2>2, SumOfType
  <2>4. CASE n \in S
    <3>1. S \cap (1..n) = (S \cap (1..(n - 1))) \cup {n} /\ n \notin 1..(n - 1)
      BY <2>1, <2>4
    <3>2. PostsOn(S \cap (1..n)) = before \cup PostsOn({n}) /\ before \cap PostsOn({n}) = {}
          /\ PostsOn({n}) \subseteq Posts
      BY <3>1 DEF PostsOn
    <3> HIDE DEF before
    <3>3. SumOf(PostsOn(S \cap (1..n))) = SumOf(before) + SumOf(PostsOn({n}))
      BY <2>2, <3>2, SumOfAdds
    <3> QED
      BY <1>1, <2>1, <2>4, <3>3 DEF before
  <2>5. CASE n \notin S
    <3>1. S \cap (1..n) = S \cap (1..(n - 1))
      BY <2>1, <2>5
    <3>2. h[n] = SumOf(before) /\ h[n - 1] = SumOf(before)
      BY <2>1, <3>1
    <3> QED
      BY <2>3, <2>5, <3>2
  <2> QED
    BY <2>4, <2>5
<1>4. h[MaxWin] = SumOf(PostsOn(S))
  <2>1. S \cap (1..MaxWin) = S
    BY DEF Windows
  <2>2. MaxWin \in 0..MaxWin
    BY FolioAssumption
  <2> QED
    BY <2>1, <2>2
<1> HIDE DEF h
<1> QED
  BY <1>2, <1>3, <1>4, SumIs

-----------------------------------------------------------------------------
(* After a check-out in a calm history, what was closed owes nothing       *)
(* together, and nothing is posted there any more.                         *)

ClosedWindows == { w \in Windows : opera.win[w] = "closed" }
ClosedInv == calm /\ stay = "CHECKED_OUT" => SumOf(PostsOn(ClosedWindows)) = 0

(* Whatever OPERA does with a request stays off closed windows.            *)
LEMMA ClosedStays ==
  ASSUME FolioInv, NEW q \in Requests, Sends(q), Does(q)
  PROVE  SumOf(PostsOn(ClosedWindows))' = SumOf(PostsOn(ClosedWindows))
<1>1. opera \in OperaState /\ Onward
  BY DoesStep DEF FolioInv, TypeOK
<1>2. ASSUME NEW w, NEW new, OperaPosts(w, new), w \in Windows
      PROVE  PostsOn(ClosedWindows)' = PostsOn(ClosedWindows)
  <2>1. PICK p \in Posts :
          /\ \A s \in Posts : opera.post[s].win # 0 <=> s < p
          /\ opera' = [opera EXCEPT !.post[p] = [new EXCEPT !.win = w]]
    BY <1>2 DEF OperaPosts
  <2>2. opera'.win = opera.win /\ \A s \in Posts \ {p} : opera'.post[s] = opera.post[s]
    BY <1>1, <2>1 DEF OperaState
  <2>3. opera.post[p].win = 0 /\ 0 \notin Windows
    BY <2>1 DEF Posts, Windows
  <2>4. opera'.post[p] = [new EXCEPT !.win = w]
    BY <1>1, <2>1 DEF OperaState
  <2>5. opera.win[w] # "closed"
    BY <1>2 DEF OperaPosts
  <2>6. opera'.post[p].win \notin ClosedWindows
    <3> DEFINE r == [new EXCEPT !.win = w]
    <3>1. r.win = w \/ r.win = new.win
      OBVIOUS
    <3> QED
      BY <2>4, <2>5 DEF ClosedWindows
  <2>7. ClosedWindows' = ClosedWindows
    BY <2>2 DEF ClosedWindows
  <2> QED
    BY <2>2, <2>3, <2>6, <2>7 DEF PostsOn, ClosedWindows
<1>3. PostsOn(ClosedWindows)' = PostsOn(ClosedWindows)
  <2>1. CASE q.op = "open" /\ OperaOpens(q.win)
    <3>1. /\ opera'.post = opera.post
          /\ \A w \in Windows : opera'.win[w] = "closed" <=> opera.win[w] = "closed"
      BY <1>1, <2>1 DEF OperaOpens, OperaState
    <3> QED
      BY <3>1 DEF PostsOn, ClosedWindows
  <2>2. CASE q.op = "transfer" /\ OperaMoves(q.post, q.win)
    <3>1. /\ q.post \in Posts /\ opera' = [opera EXCEPT !.post[q.post].win = q.win]
          /\ opera.win[opera.post[q.post].win] = "open" /\ opera.win[q.win] = "open"
      BY <2>2 DEF OperaMoves, Sends
    <3>2. /\ opera'.win = opera.win /\ opera'.post[q.post].win = q.win
          /\ \A s \in Posts \ {q.post} : opera'.post[s] = opera.post[s]
      BY <1>1, <3>1 DEF OperaState, Post
    <3>3. ClosedWindows' = ClosedWindows
      BY <3>2 DEF ClosedWindows
    <3>4. q.win \notin ClosedWindows /\ opera.post[q.post].win \notin ClosedWindows
      BY <3>1 DEF ClosedWindows
    <3> QED
      BY <3>2, <3>3, <3>4 DEF PostsOn
  <2>3. CASE q.op \in {"post", "pay", "charge"} /\ OperaPosts(q.win, Posting(q))
    BY <1>2, <2>3 DEF Sends
  <2>4. CASE q.op = "void" /\ OperaVoids(q.post, Posting(q))
    <3>1. q.post \in Posts /\ opera.post[q.post].win # 0
      BY <2>4 DEF Sends, MayReverse, OperaVoids
    <3>2. opera.post[q.post].win \in Windows
      BY <1>1, <3>1 DEF OperaState, Post
    <3> QED
      BY <1>2, <2>4, <3>2 DEF OperaVoids
  <2> QED
    BY <2>1, <2>2, <2>3, <2>4 DEF Does
<1>4. \A p \in PostsOn(ClosedWindows) : opera'.post[p].amt = opera.post[p].amt
  BY <1>1 DEF PostsOn, ClosedWindows, Onward, Windows
<1> DEFINE P == PostsOn(ClosedWindows)
           On(amt) == { p \in P : opera.post[p].amt = amt }
           After(amt) == { p \in P : opera'.post[p].amt = amt }
<1>5. On(1) = After(1) /\ On(-1) = After(-1)
  BY <1>4
<1>6. /\ SumOf(P) = Cardinality(On(1)) - Cardinality(On(-1))
      /\ SumOf(P)' = Cardinality(After(1)) - Cardinality(After(-1))
  BY <1>3 DEF SumOf
<1> QED
  BY <1>5, <1>6

(* A check-out that ends leaves every window OPERA has closed.             *)
LEMMA FinishCloses ==
  ASSUME FolioInv, CalmInv, calm, NEW c \in Clerks, FinishCheckOut(c)
  PROVE  SumOf(PostsOn(ClosedWindows)) = 0
<1> DEFINE g == [w \in Windows |-> Balance(Place(opera), w)]
<1>1. Sum(g, Windows) = 0
  BY FinishesSettled
<1>2. \A w \in Windows : g[w] = Bal(opera, w)
  BY BalanceIs
<1> HIDE DEF g
<1>3. SumOf(PostsOn(Windows)) = 0
  BY <1>1, <1>2, WindowsSum
<1>4. req[c].at = "close" /\ req[c].todo = {} /\ ~ At(c, "idle")
  BY DEF FinishCheckOut, At
<1>5. Fits(req[c], local, opera, stay)
  BY <1>4, OnlyOne
<1>6. \A w \in Windows : opera.win[w] # "open"
  BY <1>4, <1>5 DEF Fits, AsksRightly
<1>7. \A p \in Posts : opera.post[p].win # 0 => opera.win[opera.post[p].win] # "none"
  BY <1>5 DEF Fits, InOrder
<1>8. \A w \in Windows : opera.win[w] \in {"none", "open", "closed"}
  BY DEF FolioInv, TypeOK, OperaState, WindowState
<1>9. PostsOn(Windows) = PostsOn(ClosedWindows)
  BY <1>6, <1>7, <1>8 DEF PostsOn, ClosedWindows, Windows
<1> QED
  BY <1>3, <1>9

LEMMA ClosedNext ==
  ASSUME FolioInv, CalmInv, ClosedInv, Next
  PROVE  ClosedInv'
<1> SUFFICES ASSUME calm', stay' = "CHECKED_OUT"
             PROVE  SumOf(PostsOn(ClosedWindows))' = 0
  BY DEF ClosedInv
<1>1. ASSUME calm, UNCHANGED <<opera, stay>> PROVE SumOf(PostsOn(ClosedWindows))' = 0
  BY <1>1 DEF ClosedInv, SumOf, PostsOn, ClosedWindows
<1>2. ASSUME calm, UNCHANGED stay, NEW q \in Requests, Sends(q), Does(q)
      PROVE  SumOf(PostsOn(ClosedWindows))' = 0
  BY <1>2, ClosedStays DEF ClosedInv
<1>3. ASSUME NEW c \in Clerks, DeskStarts(c) PROVE SumOf(PostsOn(ClosedWindows))' = 0
  <2>1. calm /\ UNCHANGED stay
    BY <1>3, DeskStartsAsks
  <2>2. UNCHANGED opera \/ \E q \in Requests : Sends(q) /\ Does(q)
    BY <1>3, DeskStartsAsks
  <2> QED
    BY <1>1, <1>2, <2>1, <2>2
<1>4. ASSUME NEW c \in Clerks, CoreAnswers(c) PROVE SumOf(PostsOn(ClosedWindows))' = 0
  <2>1. /\ req[c] \in Requests /\ Holds(req[c], opera.post) /\ req[c].at = "core"
    BY <1>4, HoldsIsInv DEF FolioInv, TypeOK, CoreAnswers, At
  <2>2. req[c].op = "void" => MayReverse(req[c])
    BY <2>1 DEF Holds, Reversed, MayReverse, IsCharge
  <2>3. Sends(req[c])
    BY <2>1, <2>2, FolioAssumption DEF Holds, Sends
  <2>4. Does(req[c]) /\ calm /\ UNCHANGED stay
    BY <1>4 DEF CoreAnswers
  <2> QED
    BY <1>2, <2>1, <2>3, <2>4
<1>5. ASSUME NEW c \in Clerks, CloseWindow(c) PROVE FALSE
  <2>1. calm /\ ~ At(c, "idle") /\ req[c].at = "close" /\ stay = "CHECKED_OUT"
    BY <1>5 DEF CloseWindow, At
  <2> QED
    BY <2>1, OnlyOne DEF Fits, InOrder
<1>6. ASSUME NEW c \in Clerks, FinishCheckOut(c) PROVE SumOf(PostsOn(ClosedWindows))' = 0
  <2>1. calm /\ UNCHANGED opera
    BY <1>6 DEF FinishCheckOut
  <2>2. SumOf(PostsOn(ClosedWindows)) = 0
    BY <1>6, <2>1, FinishCloses
  <2> QED
    BY <2>1, <2>2 DEF SumOf, PostsOn, ClosedWindows
<1>7. ASSUME NEW c \in Clerks, PosStarts(c) \/ CoreRefuses(c) \/ WriteMirror(c) \/ Troubled(c)
      PROVE  calm /\ UNCHANGED <<opera, stay>>
  BY <1>7 DEF PosStarts, StartCharge, StartVoid, Begins, CoreRefuses, WriteMirror,
              Troubled, CloseFails, Dies, Fails
<1> QED
  BY <1>1, <1>3, <1>4, <1>5, <1>6, <1>7 DEF Next, Resumes

LEMMA ClosedAlways == Spec => [](FolioInv /\ CalmInv /\ ClosedInv)
<1>1. Init => ClosedInv
  BY DEF Init, ClosedInv
<1>2. FolioInv /\ CalmInv /\ ClosedInv /\ [Next]_vars => ClosedInv'
  <2>1. ASSUME ClosedInv, UNCHANGED vars PROVE ClosedInv'
    BY <2>1 DEF vars, ClosedInv, SumOf, PostsOn, ClosedWindows
  <2> QED
    BY <2>1, ClosedNext
<1> QED
  BY <1>1, <1>2, CalmAlways, PTL DEF Spec

-----------------------------------------------------------------------------
(* The journal: what it carries in and the day's charges and receipts are  *)
(* all the rows there are, wherever the day begins.                        *)
LEMMA ClosingIsAll ==
  ASSUME NEW last \in 0..MaxPosts
  PROVE  ClosingBalance(last) = SumOf(RowsHere)
<1> DEFINE before == { p \in RowsHere : p <= last }
           money == { p \in OfDay(last) : IsPayment(p) }
           charged == { p \in OfDay(last) : ~ IsPayment(p) }
<1>1. before \subseteq Posts /\ money \subseteq Posts /\ charged \subseteq Posts
  BY DEF RowsHere, OfDay
<1>2. before \cap charged = {} /\ (before \cup charged) \cap money = {}
  BY <1>1 DEF OfDay, Posts
<1>3. RowsHere = (before \cup charged) \cup money
  BY <1>1 DEF RowsHere, OfDay, Posts
<1>4. ClosingBalance(last) = SumOf(before) + SumOf(charged) - (-SumOf(money))
  BY DEF ClosingBalance, OpeningBalance, ChargeTotal, PaymentTotal
<1> HIDE DEF before, money, charged
<1>5. SumOf(before) \in Int /\ SumOf(charged) \in Int /\ SumOf(money) \in Int
  BY <1>1, SumOfType
<1>6. SumOf(before \cup charged) = SumOf(before) + SumOf(charged)
  BY <1>1, <1>2, SumOfAdds
<1>7. before \cup charged \subseteq Posts
  BY <1>1
<1>8. SumOf(RowsHere) = SumOf(before \cup charged) + SumOf(money)
  BY <1>1, <1>2, <1>3, <1>7, SumOfAdds
<1> QED
  BY <1>4, <1>5, <1>6, <1>8

(* While requests do not overlap and nothing fails, the closing journal    *)
(* balances wherever the day began: what is carried in, charged and        *)
(* received is what the open folios owe (daily), a guest who left included *)
(* because what the check-out closed adds up to nothing.                   *)
THEOREM JournalBalancesAlways == Spec => []JournalBalances
<1>1. FolioInv /\ CalmInv /\ ClosedInv => JournalBalances
  <2> SUFFICES ASSUME FolioInv, CalmInv, ClosedInv, calm, Quiet, NEW last \in 0..MaxPosts
               PROVE  ClosingBalance(last) = Outstanding
    BY DEF JournalBalances
  <2>1. Fits(Idle, local, opera, stay) /\ Ahead(Idle) = {} /\ Idle.at = "idle"
    BY NoneAtWork DEF Ahead, Idle
  <2>2. \A w \in Windows : local.bal[w] = Bal(opera, w) /\ local.win[w] = opera.win[w]
    BY <2>1 DEF Fits, BalancesAgree, WindowsAgree
  <2>3. OpenLocally \subseteq Windows /\ ClosedWindows \subseteq Windows
        /\ OpenLocally \cap ClosedWindows = {}
    BY <2>2 DEF OpenLocally, ClosedWindows
  <2>4. Outstanding = SumOf(PostsOn(OpenLocally))
    BY <2>2, <2>3, WindowsSum DEF Outstanding
  <2>5. SumOf(PostsOn(ClosedWindows)) = 0
    <3>1. CASE stay = "IN_HOUSE"
      <4>1. ClosedWindows = {}
        BY <2>1, <3>1 DEF Fits, InOrder, ClosedWindows
      <4>2. PostsOn(ClosedWindows) = {}
        BY <4>1 DEF PostsOn
      <4> QED
        BY <4>2, SumOfNothing
    <3>2. CASE stay = "CHECKED_OUT"
      BY <3>2 DEF ClosedInv
    <3> QED
      BY <3>1, <3>2 DEF FolioInv, TypeOK
  <2>6. RowsHere = PostsOn(OpenLocally) \cup PostsOn(ClosedWindows)
    <3>1. \A p \in Posts : local.row[p].win = opera.post[p].win
      BY <2>1 DEF Fits, RowsAgree
    <3>2. \A p \in Posts : opera.post[p].win # 0 =>
            opera.post[p].win \in OpenLocally \cup ClosedWindows
      <4> SUFFICES ASSUME NEW p \in Posts, opera.post[p].win # 0
                   PROVE  opera.post[p].win \in OpenLocally \cup ClosedWindows
        OBVIOUS
      <4>1. opera.post[p].win \in Windows
        BY DEF FolioInv, TypeOK, OperaState, Post
      <4>2. opera.win[opera.post[p].win] # "none"
        BY <2>1 DEF Fits, InOrder
      <4>3. opera.win[opera.post[p].win] \in WindowState
        BY <4>1 DEF FolioInv, TypeOK, OperaState
      <4> QED
        BY <2>2, <4>1, <4>2, <4>3 DEF WindowState, OpenLocally, ClosedWindows
    <3>3. 0 \notin OpenLocally /\ 0 \notin ClosedWindows
      BY DEF OpenLocally, ClosedWindows, Windows
    <3> QED
      BY <3>1, <3>2, <3>3 DEF RowsHere, PostsOn
  <2>7. PostsOn(OpenLocally) \subseteq Posts /\ PostsOn(ClosedWindows) \subseteq Posts
        /\ PostsOn(OpenLocally) \cap PostsOn(ClosedWindows) = {}
    BY <2>3 DEF PostsOn
  <2>8. SumOf(RowsHere) = SumOf(PostsOn(OpenLocally)) + SumOf(PostsOn(ClosedWindows))
    BY <2>6, <2>7, SumOfAdds
  <2>9. SumOf(PostsOn(OpenLocally)) \in Int
    BY <2>7, SumOfType
  <2> QED
    BY <2>4, <2>5, <2>8, <2>9, ClosingIsAll
<1> QED
  BY <1>1, ClosedAlways, PTL

=============================================================================
