---------------------------- MODULE MCRunJournal ----------------------------
(***************************************************************************)
(* Instances of RunJournal for TLC.                                        *)
(***************************************************************************)
EXTENDS RunJournal, TLC

CONSTANTS r, s

\* The first links of two runs.
TwoRuns == {<<r, 1>>, <<s, 1>>}

Same == Permutations(Proc) \cup Permutations(Run)
=============================================================================
