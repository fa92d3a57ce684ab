---------------------------- MODULE MCDeskHistory ----------------------------
(***************************************************************************)
(* DeskHistory for TLC.                                                    *)
(***************************************************************************)
EXTENDS DeskHistory, TLC

(* Clerks, rooms and cards are interchangeable, and so are those who share *)
(* when there is one party of them.                                        *)
DeskSymmetry ==
  Permutations(Clerks) \cup UNION { Permutations(S) : S \in Sharing } \cup Permutations(Rooms)
    \cup Permutations(Cards)

=============================================================================
