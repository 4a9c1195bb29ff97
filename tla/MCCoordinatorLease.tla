------------------------- MODULE MCCoordinatorLease -------------------------
(***************************************************************************)
(* Instances of CoordinatorLease for TLC.  Each .cfg turns off the parts it*)
(* is not about: no Verbs, no Asks, MaxBack = 0.                           *)
(***************************************************************************)
EXTENDS CoordinatorLease

\* One instant longer after each death.
Growing == [n \in 1..(MaxDeaths - 1) |-> n]
=============================================================================
