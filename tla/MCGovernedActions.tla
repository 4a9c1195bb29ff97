------------------------- MODULE MCGovernedActions -------------------------
(***************************************************************************)
(* Instances of GovernedActions for TLC.                                   *)
(***************************************************************************)
EXTENDS GovernedActions, TLC

\* Servers differ in nothing, and keys in nothing.
Same == Permutations(Server) \cup Permutations(Key)
=============================================================================
