--------------------------- MODULE MCDispatchJobs ---------------------------
(***************************************************************************)
(* Instances of DispatchJobs for TLC.                                      *)
(***************************************************************************)
EXTENDS DispatchJobs, TLC

\* Lands differ in nothing, and branches in nothing.
Same == Permutations(Land) \cup Permutations(Branch)
=============================================================================
