----------------------------- MODULE RunJournal -----------------------------
(***************************************************************************)
(* The run journal of levain/autonomic/journal.py over a `/2' store, with  *)
(* the gate of levain/autonomic/gate.py that asks for decisions, resolves  *)
(* them and runs effects through it.                                       *)
(*                                                                         *)
(* A run of a binding is a sequence of effects.  An effect runs at most    *)
(* once: its intent is recorded before it is called and its outcome after, *)
(* and a lease that its live caller holds tells an effect in flight from   *)
(* one whose outcome nobody knows.  An effect whose risk asks for it waits *)
(* for a decision, the hold, made by a person's signature or by silence.   *)
(* An approval is checked again, outside the store's transaction, when its *)
(* effect is admitted.                                                     *)
(*                                                                         *)
(* Every transaction of the store is one step; what a process read before  *)
(* it stays in the process.  Nothing relates the runs of two bindings, so  *)
(* there is one binding.                                                   *)
(***************************************************************************)
EXTENDS Integers

CONSTANTS
  Proc,     \* processes with a gate over the store
  Run,      \* runs of the binding
  Effect,   \* pairs of a run and a link of it
  Digest,   \* the bytes that an effect may be delivered with
  Risk,     \* the rungs that the risk inputs may ask for
  Cooling,  \* the first rung that asks for a decision
  Confirm,  \* the first rung at which only a person may approve
  Tries,    \* _ADMIT_TRIES
  MaxCalls, \* bound: how often the gate is called
  MaxMoves, \* bound: how often the risk inputs move
  MaxFence  \* bound: the last generation of the binding's fence

ASSUME JournalAssumption ==
  /\ Effect \subseteq Run \X Nat
  /\ Risk \subseteq Nat
  /\ {Cooling, Confirm, Tries, MaxMoves, MaxCalls, MaxFence} \subseteq Nat

VARIABLES
  fence,     \* the binding's generation
  gen,       \* the generation that a run was admitted under, Unstarted before
  cancelled, \* the runs with a cancels row
  effect,    \* the effects rows
  hold,      \* the holds rows
  risk,      \* the risk inputs as they are now: the rung they ask for
  calls,     \* how often the gate was called
  moves,     \* how often they moved
  enrolled,  \* whether the person's key is enrolled
  proc,      \* what each process is doing
  ran        \* how often each effect happened

vars == <<fence, gen, cancelled, effect, hold, risk, moves, calls, enrolled, proc, ran>>

Unstarted == -1
RunOf(e) == e[1]

NoEffect == [state |-> "none"]
NoHold == [state |-> "none"]
NoKey == [by |-> "nobody"]
NoCheck == [key |-> NoKey, live |-> -1]
Idle == [pc |-> "idle"]

Init ==
  /\ fence = 0
  /\ gen = [x \in Run |-> Unstarted]
  /\ cancelled = {}
  /\ effect = [e \in Effect |-> NoEffect]
  /\ hold = [e \in Effect |-> NoHold]
  /\ risk \in Risk /\ moves = 0 /\ calls = 0 /\ enrolled = TRUE
  /\ proc = [p \in Proc |-> Idle]
  /\ ran = [e \in Effect |-> 0]

------------------------------------------------------------------------------
(***************************************************************************)
(* What the store says.                                                    *)
(***************************************************************************)

RunLive(x) == x \notin cancelled /\ fence <= gen[x]

\* _OPEN_HOLD: a decision of a live run that somebody still owes, on the binding of e.
OpenBefore(e) == \E o \in Effect : hold[o].state = "open" /\ RunLive(RunOf(o))

\* The lease of an effect: a live process is in its call, or records its end.
Inside == {"inside", "acted", "leaving"}
Leased(e) == \E p \in Proc : proc[p].pc \in Inside /\ proc[p].e = e

\* Faulty: an effect that nobody is inside may be called again.
Barrier_Retry(e, d) ==
  CASE effect[e].state = "done" /\ effect[e].digest # d -> "changed"
    [] effect[e].state = "done" /\ effect[e].digest = d -> "replayed"
    [] effect[e].state = "unknown" -> "poisoned"
    [] effect[e].state = "intent" /\ Leased(e) -> "in_flight"
    [] RunOf(e) \in cancelled -> "cancelled"
    [] fence > gen[RunOf(e)] -> "fenced"
    [] OTHER -> "none"

\* _barrier: what stops an effect before any decision.
Barrier(e, d) ==
  CASE effect[e].state = "done" /\ effect[e].digest # d -> "changed"
    [] effect[e].state = "done" /\ effect[e].digest = d -> "replayed"
    [] effect[e].state = "unknown" -> "poisoned"
    [] effect[e].state = "intent" -> IF Leased(e) THEN "in_flight" ELSE "poisoned"
    [] effect[e].state = "none" /\ RunOf(e) \in cancelled -> "cancelled"
    [] effect[e].state = "none" /\ RunOf(e) \notin cancelled /\ fence > gen[RunOf(e)] -> "fenced"
    [] OTHER -> "none"

\* The rung that the effect of a hold needs: never under the one it was proposed at.
Needed(h, r) == IF h.sealed >= r THEN h.sealed ELSE r

\* A decision meets what the risk inputs ask for.
Meets(h, r) ==
  /\ h.key.rung >= Needed(h, r)
  /\ IF h.key.by = "person" THEN h.key.fence = r ELSE Needed(h, r) < Confirm

Goes(p, q) == proc' = [proc EXCEPT ![p] = q]
Cancels(e) == cancelled' = cancelled \cup {RunOf(e)}

------------------------------------------------------------------------------
(***************************************************************************)
(* Runs, fences and the world.                                             *)
(***************************************************************************)

Start(x) ==
  /\ gen[x] = Unstarted
  /\ gen' = [gen EXCEPT ![x] = fence]
  /\ UNCHANGED <<fence, cancelled, effect, hold, risk, moves, calls, enrolled, proc, ran>>

Fence ==
  /\ fence < MaxFence
  /\ fence' = fence + 1
  /\ UNCHANGED <<gen, cancelled, effect, hold, risk, moves, calls, enrolled, proc, ran>>

Cancel(x) ==
  /\ gen[x] # Unstarted /\ x \notin cancelled
  /\ cancelled' = cancelled \cup {x}
  /\ UNCHANGED <<fence, gen, effect, hold, risk, moves, calls, enrolled, proc, ran>>

\* The manifest, the binding's tools or its cover changes.
RiskMoves ==
  /\ moves < MaxMoves
  /\ moves' = moves + 1 /\ risk' \in Risk \ {risk}
  /\ UNCHANGED <<fence, gen, cancelled, effect, hold, calls, enrolled, proc, ran>>

Unenroll ==
  /\ enrolled /\ enrolled' = FALSE
  /\ UNCHANGED <<fence, gen, cancelled, effect, hold, risk, moves, calls, proc, ran>>

\* A process dies, or a read it needs fails: what it had not recorded is lost, and its lease.
Dies(p) ==
  /\ proc[p] # Idle
  /\ Goes(p, Idle)
  /\ UNCHANGED <<fence, gen, cancelled, effect, hold, risk, moves, calls, enrolled, ran>>

------------------------------------------------------------------------------
(***************************************************************************)
(* The gate's forward path: the rung is decided from the risk inputs; one  *)
(* that asks for no decision calls the effect, the others propose it.      *)
(***************************************************************************)

\* RunJournal.effect is called: for the bytes d, with the risk fence r that the rung was decided
\* from and, for a resolver, the decision it acts on.
Calls(e, d, r, key) ==
  [pc |-> "checking", e |-> e, digest |-> d, fence |-> r, expect |-> key, left |-> Tries]

Deliver(p, e, d) ==
  /\ calls < MaxCalls /\ calls' = calls + 1
  /\ proc[p] = Idle /\ gen[RunOf(e)] # Unstarted
  /\ Goes(p, IF risk < Cooling THEN Calls(e, d, risk, NoKey)
             ELSE [pc |-> "proposing", e |-> e, digest |-> d, fence |-> risk])
  /\ UNCHANGED <<fence, gen, cancelled, effect, hold, risk, moves, enrolled, ran>>

\* A resolver has read the hold of e, and the decision on it.
Looked(e) == [pc |-> "looked", e |-> e, key |-> hold[e].key]

\* RunJournal.hold.  An approval that it finds is resolved as any other.
Propose(p) ==
  LET q == proc[p]
      h == hold[q.e]
      changed == Barrier(q.e, q.digest) = "changed" \/ (h.state # "none" /\ h.digest # q.digest)
  IN /\ q.pc = "proposing"
     /\ Goes(p, IF Barrier(q.e, q.digest) = "none" /\ h.state = "approved" /\ ~changed THEN Looked(q.e) ELSE Idle)
     /\ IF Barrier(q.e, q.digest) = "none" /\ h.state = "none"
        THEN hold' = [hold EXCEPT ![q.e] = [state |-> "open", digest |-> q.digest, sealed |-> q.fence, key |-> NoKey]]
        ELSE hold' = hold
     /\ IF Barrier(q.e, q.digest) \in {"none", "changed"} /\ changed THEN Cancels(q.e) ELSE cancelled' = cancelled
     /\ UNCHANGED <<fence, gen, effect, risk, moves, calls, enrolled, ran>>

------------------------------------------------------------------------------
(***************************************************************************)
(* The gate's resolve path: a person's reply, or the sweep of a pending    *)
(* past its time, finds the hold.                                          *)
(***************************************************************************)
Look(p, e) ==
  /\ calls < MaxCalls /\ calls' = calls + 1
  /\ proc[p] = Idle /\ hold[e].state \in {"open", "approved"}
  /\ Goes(p, Looked(e))
  /\ UNCHANGED <<fence, gen, cancelled, effect, hold, risk, moves, enrolled, ran>>

\* _resolve_rung: the rung needed now, and what the reply makes of it.
Derive(p) ==
  LET q == proc[p]
      needed == Needed(hold[q.e], risk)
      Decides(key) == Goes(p, [pc |-> "peeking", e |-> q.e, key |-> key, fence |-> risk])
  IN /\ q.pc = "looked"
     /\ \/ /\ q.key # NoKey
           /\ Goes(p, IF q.key.by = "on-loop" /\ needed > q.key.rung THEN [pc |-> "ending", e |-> q.e]
                      ELSE Calls(q.e, hold[q.e].digest, risk, q.key))
        \/ q.key = NoKey /\ enrolled /\ Decides([by |-> "person", rung |-> needed, fence |-> risk])
        \/ q.key = NoKey /\ needed < Confirm /\ Decides([by |-> "on-loop", rung |-> needed, fence |-> 0])
     /\ UNCHANGED <<fence, gen, cancelled, effect, hold, risk, moves, calls, enrolled, ran>>

\* What stops the effect without a decision is read before the decision is written.
Peek(p) ==
  LET q == proc[p]
      barrier == Barrier(q.e, hold[q.e].digest)
  IN /\ q.pc = "peeking"
     /\ Goes(p, CASE barrier = "none" -> [q EXCEPT !.pc = "deciding"]
                  [] barrier \in {"cancelled", "fenced"} -> [pc |-> "rejecting", e |-> q.e]
                  [] OTHER -> Idle)
     /\ IF barrier = "changed" THEN Cancels(q.e) ELSE cancelled' = cancelled
     /\ UNCHANGED <<fence, gen, effect, hold, risk, moves, calls, enrolled, ran>>

\* decide: the write-once decision, and a call of the effect under the decision that stands.
Approve(p) ==
  LET q == proc[p] IN
  /\ q.pc = "deciding"
  /\ IF hold[q.e].state = "open"
     THEN /\ hold' = [hold EXCEPT ![q.e].state = "approved", ![q.e].key = q.key]
          /\ Goes(p, Calls(q.e, hold[q.e].digest, q.fence, q.key))
     ELSE hold' = hold /\ Goes(p, IF hold[q.e].state = "approved" THEN Looked(q.e) ELSE Idle)
  /\ UNCHANGED <<fence, gen, cancelled, effect, risk, moves, calls, enrolled, ran>>

\* Faulty: a rejection overwrites the decision that another resolver made.
Rejectable_Decided(e) == hold[e].state \in {"open", "approved"}

Rejectable(e) == hold[e].state = "open"

Reject(p) ==
  LET e == proc[p].e IN
  /\ proc[p].pc = "rejecting" \/ (proc[p].pc = "looked" /\ proc[p].key = NoKey)
  /\ Goes(p, Idle)
  /\ IF Rejectable(e)
     THEN hold' = [hold EXCEPT ![e].state = "rejected"] /\ Cancels(e)
     ELSE UNCHANGED <<hold, cancelled>>
  /\ UNCHANGED <<fence, gen, effect, risk, moves, calls, enrolled, ran>>

\* cancel_unstarted: the check and the cancel are one transaction.
EndUnstarted(p) ==
  LET e == proc[p].e IN
  /\ proc[p].pc = "ending"
  /\ Goes(p, Idle)
  /\ IF effect[e].state = "none" THEN Cancels(e) ELSE cancelled' = cancelled
  /\ UNCHANGED <<fence, gen, effect, hold, risk, moves, calls, enrolled, ran>>

------------------------------------------------------------------------------
(***************************************************************************)
(* RunJournal.effect.                                                      *)
(***************************************************************************)

\* _authorized, its read: the decision and the fence that the check is about to be made for.
Check(p) ==
  LET q == proc[p]
      h == hold[q.e]
      Checked(pc, found) == Goes(p, [pc |-> pc, e |-> q.e, digest |-> q.digest, fence |-> q.fence,
                                  expect |-> q.expect, left |-> q.left, checked |-> found, verdict |-> "none"])
  IN /\ q.pc = "checking"
     /\ IF h.state = "approved" THEN Checked("verifying", [key |-> h.key, live |-> risk])
        ELSE Checked("admitting", NoCheck)
     /\ UNCHANGED <<fence, gen, cancelled, effect, hold, risk, moves, calls, enrolled, ran>>

\* Faulty: a decision that still verifies is taken, whatever the risk asks for by now.
Verdict_Verified(h, key, live) ==
  IF risk # live THEN "recheck" ELSE IF key.by = "person" => enrolled THEN "ok" ELSE "bad"

\* _authorize_admission, outside of any transaction.
Verdict(h, key, live) ==
  IF risk # live THEN "recheck"
  ELSE IF Meets([h EXCEPT !.key = key], risk) /\ (key.by = "person" => enrolled) THEN "ok" ELSE "bad"

Verify(p) ==
  LET q == proc[p] IN
  /\ q.pc = "verifying"
  /\ \E verdict \in {Verdict(hold[q.e], q.checked.key, q.checked.live), "unavailable"} :
       Goes(p, [q EXCEPT !.pc = "admitting", !.verdict = verdict])
  /\ UNCHANGED <<fence, gen, cancelled, effect, hold, risk, moves, calls, enrolled, ran>>

\* The verdict is for another decision than the one that stands, or for another risk than it is now.
Outdated(q, h) == q.checked # [key |-> h.key, live |-> risk] \/ q.verdict = "recheck"

\* The intent and its lease, which a process that just found its effect not started may still hold.
Enters(e) == IF Leased(e) THEN "raised" ELSE "intent"

\* _admit_in.  A resolver's effect always has its hold, so effect opens none itself.
Admission(q) ==
  LET h == hold[q.e]
      approved == h.state = "approved"
      barrier == Barrier(q.e, q.digest)
  IN CASE barrier # "none" -> barrier
       [] barrier = "none" /\ h.state = "open" -> "held"
       [] barrier = "none" /\ h.state = "rejected" -> "cancelled"
       [] barrier = "none" /\ h.state = "none" ->
            IF OpenBefore(q.e) THEN "held" ELSE IF q.fence # risk THEN "stale" ELSE Enters(q.e)
       [] OTHER ->
            IF h.digest # q.digest THEN "changed"
            ELSE IF q.expect # NoKey /\ q.expect # h.key THEN "held"
            ELSE IF Outdated(q, h) THEN "retry"
            ELSE IF q.verdict = "unavailable" THEN "held"
            ELSE IF q.verdict # "ok" THEN "reopened"
            ELSE IF q.fence # risk THEN "stale" ELSE Enters(q.e)

Retried(q) ==
  IF q.left = 1 THEN Idle
  ELSE [pc |-> "checking", e |-> q.e, digest |-> q.digest, fence |-> q.fence, expect |-> q.expect, left |-> q.left - 1]

Admit(p) ==
  LET q == proc[p]
      admission == Admission(q)
  IN /\ q.pc = "admitting"
     /\ Goes(p, CASE admission = "intent" -> [pc |-> "inside", e |-> q.e]
                  [] admission = "retry" -> Retried(q)
                  [] OTHER -> Idle)
     /\ effect' = IF admission = "intent"
                  THEN [effect EXCEPT ![q.e] = [state |-> "intent", digest |-> q.digest]] ELSE effect
     /\ hold' = IF admission = "reopened"
                THEN [hold EXCEPT ![q.e].state = "open", ![q.e].key = NoKey] ELSE hold
     /\ IF admission = "changed" THEN Cancels(q.e) ELSE cancelled' = cancelled
     /\ UNCHANGED <<fence, gen, risk, moves, calls, enrolled, ran>>

(***************************************************************************)
(* _run_effect: the call outside of any transaction, then its end, which   *)
(* the store may not take, then the lease.                                 *)
(***************************************************************************)
Acts(p) ==
  /\ proc[p].pc = "inside"
  /\ Goes(p, [proc[p] EXCEPT !.pc = "acted"])
  /\ ran' = [ran EXCEPT ![proc[p].e] = @ + 1]
  /\ UNCHANGED <<fence, gen, cancelled, effect, hold, risk, moves, calls, enrolled>>

Records(p, row) ==
  /\ effect' \in {effect, [effect EXCEPT ![proc[p].e] = row]}
  /\ Goes(p, [proc[p] EXCEPT !.pc = "leaving"])
  /\ UNCHANGED <<fence, gen, cancelled, hold, risk, moves, calls, enrolled, ran>>

Returns(p) == proc[p].pc = "acted" /\ Records(p, [effect[proc[p].e] EXCEPT !.state = "done"])
Raises(p) == proc[p].pc \in {"inside", "acted"} /\ Records(p, [effect[proc[p].e] EXCEPT !.state = "unknown"])
NotStarted(p) == proc[p].pc = "inside" /\ Records(p, NoEffect)

Leaves(p) ==
  /\ proc[p].pc = "leaving"
  /\ Goes(p, Idle)
  /\ UNCHANGED <<fence, gen, cancelled, effect, hold, risk, moves, calls, enrolled, ran>>

------------------------------------------------------------------------------
Resolve(p) == Derive(p) \/ Peek(p) \/ Approve(p) \/ Reject(p) \/ EndUnstarted(p)
Fire(p) == Check(p) \/ Verify(p) \/ Admit(p) \/ Acts(p) \/ Returns(p) \/ Raises(p) \/ NotStarted(p) \/ Leaves(p)

Next ==
  \/ Fence \/ RiskMoves \/ Unenroll
  \/ \E x \in Run : Start(x) \/ Cancel(x)
  \/ \E p \in Proc, e \in Effect : Look(p, e) \/ \E d \in Digest : Deliver(p, e, d)
  \/ \E p \in Proc : Propose(p) \/ Resolve(p) \/ Fire(p) \/ Dies(p)

Spec == Init /\ [][Next]_vars

------------------------------------------------------------------------------
(***************************************************************************)
(* Correctness.                                                            *)
(***************************************************************************)

\* An effect happens at most once, whoever dies, retries or resolves it, and what the journal says of it
\* is true: done only if it happened, and never again open to a call once it did.
AtMostOnce ==
  \A e \in Effect :
    /\ ran[e] <= 1
    /\ ran[e] = 1 => effect[e].state # "none"
    /\ effect[e].state = "done" => ran[e] = 1

\* An effect whose decision is open, or was rejected, has not happened and is in nobody's call: no
\* approval that somebody found earlier, and no later decision, gets past the one that stands.
UndecidedNeverRan ==
  \A e \in Effect : hold[e].state \in {"open", "rejected"} => ran[e] = 0 /\ effect[e].state = "none"

\* At the moment an effect is admitted its run is live and either the decision that stands meets the
\* risk as it is then, for these very bytes, or that risk asks for no decision and nobody is owed one
\* on the binding: not the risk, the decision or the bytes of an earlier read.
AuthorizedNow ==
  [][\A e \in Effect :
       effect[e].state = "none" /\ effect'[e].state = "intent" =>
         /\ RunLive(RunOf(e))
         /\ IF hold[e].state = "approved"
            THEN Meets(hold[e], risk) /\ effect'[e].digest = hold[e].digest
            ELSE /\ hold[e].state = "none" /\ risk < Cooling
                 /\ \A o \in Effect : hold[o].state = "open" => ~RunLive(RunOf(o))]_effect
=============================================================================
