---------------------------- MODULE MCPosCharges ----------------------------
(***************************************************************************)
(* PosCharges for TLC.                                                     *)
(***************************************************************************)
EXTENDS Journal, TLC

(* Clerks, outlets and check numbers are interchangeable.                  *)
FolioSymmetry == Permutations(Clerks) \cup Permutations(Outlets) \cup Permutations(Checks)

=============================================================================
