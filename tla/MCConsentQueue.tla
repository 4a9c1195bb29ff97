--------------------------- MODULE MCConsentQueue ---------------------------
(***************************************************************************)
(* Instances of ConsentQueue for TLC.  Each .cfg turns off the parts it is *)
(* not about: no Hook or no Client, MaxGrant = 0, MaxBack = 0.             *)
(***************************************************************************)
EXTENDS ConsentQueue, TLC

\* Every request is one and the same call of one session.
SameCall    == [r \in Request |-> CHOOSE c \in Call : TRUE]
SameSession == [r \in Request |-> CHOOSE s \in Session : TRUE]

EveryKey   == Key
EveryCover == Key \X Request
EveryOne   == Request
FirstKey   == {CHOOSE k \in Key : TRUE}
FirstCover == FirstKey \X Request
None       == {}
EverySession == Session

Requests == Permutations(Request)
RequestsAndHooks == Permutations(Request) \cup Permutations(Hook)
=============================================================================
