----------------------------- MODULE MCProfiles -----------------------------
(***************************************************************************)
(* Profiles for TLC.                                                       *)
(***************************************************************************)
EXTENDS Profiles, TLC

(* Clerks, rows, OPERA's ids, emails and stays are interchangeable.        *)
ProfilesSymmetry == Permutations(Clerks) \cup Permutations(Profiles)
                      \cup Permutations(Links) \cup Permutations(Emails)
                      \cup Permutations(Stays)

=============================================================================
