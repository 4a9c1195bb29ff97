----------------------------- MODULE LateAllow ------------------------------
(***************************************************************************)
(* What the consent queue promises about late rulings (levain/consent/     *)
(* queue.py, module docstring and take_ruled_allow): an identical call has *)
(* at most one ticket.  Ruling on any request of the call replaces it, with*)
(* that request for an allow and with nothing for a deny; a run of the call*)
(* uses it up.                                                             *)
(***************************************************************************)
CONSTANTS Request, Call, CallOf, None

VARIABLES ticket,   \* [Call -> Request \cup {None}]
          ruled,    \* requests ruled on, each of them once
          run       \* requests whose allow a run has used up

vars == <<ticket, ruled, run>>

TypeOK == /\ ticket \in [Call -> Request \cup {None}]
          /\ ruled \subseteq Request
          /\ run \subseteq Request

Init == /\ ticket = [c \in Call |-> None]
        /\ ruled = {}
        /\ run = {}

Rule(r) == /\ r \notin ruled
           /\ ruled' = ruled \cup {r}
           /\ \E t \in {r, None} : ticket' = [ticket EXCEPT ![CallOf[r]] = t]
           /\ UNCHANGED run

Run(c) == /\ ticket[c] # None
          /\ run' = run \cup {ticket[c]}
          /\ ticket' = [ticket EXCEPT ![c] = None]
          /\ UNCHANGED ruled

Next == \/ \E r \in Request : Rule(r)
        \/ \E c \in Call : Run(c)

Spec == Init /\ [][Next]_vars
=============================================================================
