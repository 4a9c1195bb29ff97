-------------------------- MODULE RunJournalProofs --------------------------
(***************************************************************************)
(* Theorems about RunJournal, for every number of processes, runs, effects *)
(* and rungs, and without its bounds on calls and moves.                   *)
(***************************************************************************)
EXTENDS RunJournal, TLAPS

-----------------------------------------------------------------------------
(* Types.                                                                  *)

Key == {NoKey} \cup [by : {"person", "on-loop"}, rung : Nat, fence : Nat]
EffectRow == {NoEffect} \cup [state : {"intent", "done", "unknown"}, digest : Digest]
OpenedHold == [state : {"open", "approved", "rejected"}, digest : Digest, sealed : Nat, key : Key]
HoldRow == {NoHold} \cup OpenedHold

Proposing == [pc : {"proposing"}, e : Effect, digest : Digest, fence : Nat]
Looking == [pc : {"looked"}, e : Effect, key : Key]
Deciding == [pc : {"peeking", "deciding"}, e : Effect, key : Key, fence : Nat]
Ending == [pc : {"ending", "rejecting"}, e : Effect]
Checking == [pc : {"checking"}, e : Effect, digest : Digest, fence : Nat, expect : Key, left : Int]
Admitting ==
  [pc : {"verifying", "admitting"}, e : Effect, digest : Digest, fence : Nat, expect : Key, left : Int,
   checked : [key : Key, live : Int], verdict : {"none", "ok", "bad", "recheck", "unavailable"}]
Entered == [pc : Inside, e : Effect]
Doing == {Idle} \cup Proposing \cup Looking \cup Deciding \cup Ending \cup Checking \cup Admitting \cup Entered

TypeOK ==
  /\ fence \in Nat /\ gen \in [Run -> Int] /\ cancelled \in SUBSET Run
  /\ effect \in [Effect -> EffectRow] /\ hold \in [Effect -> HoldRow]
  /\ risk \in Risk /\ moves \in Nat /\ calls \in Nat /\ enrolled \in BOOLEAN
  /\ proc \in [Proc -> Doing]
  /\ ran \in [Effect -> Nat]

\* Who decides an effect, or asks whether its decision is authority, does so of a hold that is there.
HasHold ==
  \A p \in Proc : proc[p].pc \in {"looked", "peeking", "deciding", "verifying"} => hold[proc[p].e].state # "none"

\* Whose call is not over has its intent on record, and it happened or not.
Intends ==
  \A p \in Proc :
    proc[p].pc \in {"inside", "acted"} =>
      /\ effect[proc[p].e].state = "intent"
      /\ ran[proc[p].e] = IF proc[p].pc = "inside" THEN 0 ELSE 1

\* An effect's lease is held by one process.
OneLease ==
  \A p \in Proc, q \in Proc :
    p # q /\ proc[p].pc \in Inside /\ proc[q].pc \in Inside => proc[p].e # proc[q].e

\* Who calls an effect without a decision does so at a rung that asks for none.
Unasked ==
  \A p \in Proc :
    proc[p].pc \in {"checking", "admitting"} => proc[p].fence < Cooling \/ hold[proc[p].e].state # "none"

\* A verdict is for the decision and the risk that it was given for.
Judged ==
  \A p \in Proc :
    proc[p].pc = "admitting" /\ proc[p].verdict = "ok" =>
      /\ hold[proc[p].e].state # "none"
      /\ Meets([hold[proc[p].e] EXCEPT !.key = proc[p].checked.key], proc[p].checked.live)

-----------------------------------------------------------------------------
LEMMA RiskNat == Risk \subseteq Nat /\ Cooling \in Nat /\ Confirm \in Nat /\ Tries \in Nat
  BY JournalAssumption

\* The rung that a hold needs is a rung.
LEMMA NeededNat ==
  ASSUME NEW h \in OpenedHold, NEW r \in Nat
  PROVE  Needed(h, r) \in Nat
  BY DEF Needed, OpenedHold

LEMMA KeyDistinct == NoKey \in Key /\ \A k \in Key : k # NoKey => k \in [by : {"person", "on-loop"}, rung : Nat, fence : Nat]
  BY DEF Key

\* A hold that is there is a row of the table.
LEMMA HoldThere ==
  ASSUME TypeOK, NEW e \in Effect, hold[e].state # "none"
  PROVE  hold[e] \in OpenedHold
  BY DEF TypeOK, HoldRow, NoHold

LEMMA RunThere ==
  ASSUME NEW e \in Effect
  PROVE  RunOf(e) \in Run
  BY JournalAssumption DEF RunOf

\* What a process holds, by what it is doing.
LEMMA ProcType ==
  ASSUME TypeOK, NEW p \in Proc
  PROVE  /\ proc[p].pc = "proposing" => proc[p] \in Proposing
         /\ proc[p].pc = "looked" => proc[p] \in Looking
         /\ proc[p].pc \in {"peeking", "deciding"} => proc[p] \in Deciding
         /\ proc[p].pc \in {"ending", "rejecting"} => proc[p] \in Ending
         /\ proc[p].pc = "checking" => proc[p] \in Checking
         /\ proc[p].pc \in {"verifying", "admitting"} => proc[p] \in Admitting
         /\ proc[p].pc \in Inside => proc[p] \in Entered
<1> DEFINE q == proc[p]
<1>1. q \in Doing
  BY DEF TypeOK
<1>2. Idle.pc = "idle"
  BY DEF Idle
<1> QED
  BY <1>1, <1>2 DEF Doing, Proposing, Looking, Deciding, Ending, Checking, Admitting, Entered, Inside

-----------------------------------------------------------------------------
(* Each kind of step keeps the types.                                      *)

\* What a process does next is something that it can do.
LEMMA GoesType ==
  ASSUME TypeOK, NEW p \in Proc, NEW d \in Doing, Goes(p, d)
  PROVE  proc' \in [Proc -> Doing]
  BY DEF TypeOK, Goes

LEMMA CancelsType ==
  ASSUME TypeOK, NEW e \in Effect, Cancels(e) \/ cancelled' = cancelled
  PROVE  cancelled' \in SUBSET Run
  BY RunThere DEF TypeOK, Cancels

LEMMA CallsType ==
  ASSUME NEW e \in Effect, NEW d \in Digest, NEW r \in Nat, NEW k \in Key
  PROVE  Calls(e, d, r, k) \in Checking
  BY RiskNat DEF Calls, Checking

LEMMA HoldDigest ==
  ASSUME NEW h \in OpenedHold
  PROVE  h.digest \in Digest /\ h.sealed \in Nat /\ h.key \in Key
  BY DEF OpenedHold

LEMMA StepTyped ==
  ASSUME TypeOK, HasHold, Intends, [Next]_vars
  PROVE  TypeOK'
<1> USE RiskNat
<1>1. CASE UNCHANGED vars
  BY <1>1 DEF vars, TypeOK
<1>2. CASE Fence
  BY <1>2 DEF Fence, TypeOK
<1>3. CASE RiskMoves
  BY <1>3 DEF RiskMoves, TypeOK
<1>4. CASE Unenroll
  BY <1>4 DEF Unenroll, TypeOK
<1>5. ASSUME NEW x \in Run, Start(x) PROVE TypeOK'
  BY <1>5 DEF Start, TypeOK
<1>6. ASSUME NEW x \in Run, Cancel(x) PROVE TypeOK'
  BY <1>6 DEF Cancel, TypeOK
<1>7. ASSUME NEW p \in Proc, NEW e \in Effect, Look(p, e) PROVE TypeOK'
  <2>1. hold[e] \in OpenedHold
    BY <1>7, HoldThere DEF Look
  <2>2. Looked(e) \in Doing
    BY <2>1, HoldDigest DEF Looked, Doing, Looking
  <2>3. proc' \in [Proc -> Doing]
    BY <1>7, <2>2, GoesType DEF Look
  <2> QED
    BY <1>7, <2>3 DEF Look, TypeOK
<1>8. ASSUME NEW p \in Proc, NEW e \in Effect, NEW d \in Digest, Deliver(p, e, d) PROVE TypeOK'
  <2>1. risk \in Nat
    BY DEF TypeOK
  <2>2. Calls(e, d, risk, NoKey) \in Doing
    BY <2>1, CallsType, KeyDistinct DEF Doing
  <2>3. [pc |-> "proposing", e |-> e, digest |-> d, fence |-> risk] \in Doing
    BY <2>1 DEF Doing, Proposing
  <2>4. proc' \in [Proc -> Doing]
    BY <1>8, <2>2, <2>3, GoesType DEF Deliver
  <2> QED
    BY <1>8, <2>4 DEF Deliver, TypeOK
<1>9. ASSUME NEW p \in Proc, Propose(p) PROVE TypeOK'
  <2> DEFINE q == proc[p]
  <2>1. q \in Proposing
    BY <1>9, ProcType DEF Propose
  <2>2. q.e \in Effect /\ q.digest \in Digest /\ q.fence \in Nat
    BY <2>1 DEF Proposing
  <2>3. hold[q.e].state = "approved" => Looked(q.e) \in Doing
    BY <2>2, HoldThere, HoldDigest DEF Looked, Doing, Looking
  <2>4. proc' \in [Proc -> Doing]
    BY <1>9, <2>3, GoesType DEF Propose, Doing
  <2>5. cancelled' \in SUBSET Run
    BY <1>9, <2>2, CancelsType DEF Propose
  <2>6. [state |-> "open", digest |-> q.digest, sealed |-> q.fence, key |-> NoKey] \in HoldRow
    BY <2>2, KeyDistinct DEF HoldRow, OpenedHold
  <2>7. hold' \in [Effect -> HoldRow]
    BY <1>9, <2>6 DEF Propose, TypeOK
  <2> QED
    BY <1>9, <2>4, <2>5, <2>7 DEF Propose, TypeOK
<1>10. ASSUME NEW p \in Proc, Derive(p) PROVE TypeOK'
  <2> DEFINE q == proc[p]
             needed == Needed(hold[q.e], risk)
  <2>1. q.e \in Effect /\ q.key \in Key
    BY <1>10, ProcType DEF Derive, Looking
  <2>2. hold[q.e] \in OpenedHold
    BY <1>10, <2>1, HoldThere DEF Derive, HasHold
  <2>3. risk \in Nat /\ needed \in Nat
    BY <2>2, NeededNat DEF TypeOK
  <2>4. Calls(q.e, hold[q.e].digest, risk, q.key) \in Doing
    BY <2>1, <2>2, <2>3, HoldDigest, CallsType DEF Doing
  <2>5. [pc |-> "ending", e |-> q.e] \in Doing
    BY <2>1 DEF Doing, Ending
  <2>6. \A k \in Key : [pc |-> "peeking", e |-> q.e, key |-> k, fence |-> risk] \in Doing
    BY <2>1, <2>3 DEF Doing, Deciding
  <2>7. /\ [by |-> "person", rung |-> needed, fence |-> risk] \in Key
        /\ [by |-> "on-loop", rung |-> needed, fence |-> 0] \in Key
    BY <2>3 DEF Key
  <2>8. proc' \in [Proc -> Doing]
    BY <1>10, <2>4, <2>5, <2>6, <2>7, GoesType DEF Derive
  <2> QED
    BY <1>10, <2>8 DEF Derive, TypeOK
<1>11. ASSUME NEW p \in Proc, Peek(p) PROVE TypeOK'
  <2> DEFINE q == proc[p]
  <2>1. q \in Deciding /\ q.e \in Effect
    BY <1>11, ProcType DEF Peek, Deciding
  <2>2. [q EXCEPT !.pc = "deciding"] \in Doing
    BY <2>1 DEF Doing, Deciding
  <2>3. [pc |-> "rejecting", e |-> q.e] \in Doing /\ Idle \in Doing
    BY <2>1 DEF Doing, Ending
  <2>4. proc' \in [Proc -> Doing]
    BY <1>11, <2>2, <2>3, GoesType DEF Peek
  <2>5. cancelled' \in SUBSET Run
    BY <1>11, <2>1, CancelsType DEF Peek
  <2> QED
    BY <1>11, <2>4, <2>5 DEF Peek, TypeOK
<1>12. ASSUME NEW p \in Proc, Approve(p) PROVE TypeOK'
  <2> DEFINE q == proc[p]
  <2>1. q.e \in Effect /\ q.key \in Key /\ q.fence \in Nat
    BY <1>12, ProcType DEF Approve, Deciding
  <2>2. hold[q.e] \in OpenedHold
    BY <1>12, <2>1, HoldThere DEF Approve, HasHold
  <2>3. Calls(q.e, hold[q.e].digest, q.fence, q.key) \in Doing
    BY <2>1, <2>2, HoldDigest, CallsType DEF Doing
  <2>4. Looked(q.e) \in Doing /\ Idle \in Doing
    BY <2>1, <2>2, HoldDigest DEF Looked, Doing, Looking
  <2>5. proc' \in [Proc -> Doing]
    BY <1>12, <2>3, <2>4, GoesType DEF Approve
  <2>6. [hold[q.e] EXCEPT !.state = "approved", !.key = q.key] \in HoldRow
    BY <2>1, <2>2 DEF HoldRow, OpenedHold
  <2>7. hold' \in [Effect -> HoldRow]
    BY <1>12, <2>6 DEF Approve, TypeOK
  <2> QED
    BY <1>12, <2>5, <2>7 DEF Approve, TypeOK
<1>13. ASSUME NEW p \in Proc, Reject(p) PROVE TypeOK'
  <2> DEFINE e == proc[p].e
  <2>1. e \in Effect
    BY <1>13, ProcType DEF Reject, Ending, Looking
  <2>2. hold[e].state = "open" => [hold[e] EXCEPT !.state = "rejected"] \in HoldRow
    BY <2>1, HoldThere DEF HoldRow, OpenedHold
  <2>3. hold' \in [Effect -> HoldRow]
    BY <1>13, <2>2 DEF Reject, Rejectable, TypeOK
  <2>4. cancelled' \in SUBSET Run
    BY <1>13, <2>1, CancelsType DEF Reject
  <2>5. proc' \in [Proc -> Doing]
    BY <1>13, GoesType DEF Reject, Doing
  <2> QED
    BY <1>13, <2>3, <2>4, <2>5 DEF Reject, TypeOK
<1>14. ASSUME NEW p \in Proc, EndUnstarted(p) PROVE TypeOK'
  <2>1. proc[p].e \in Effect
    BY <1>14, ProcType DEF EndUnstarted, Ending
  <2>2. cancelled' \in SUBSET Run
    BY <1>14, <2>1, CancelsType DEF EndUnstarted
  <2>3. proc' \in [Proc -> Doing]
    BY <1>14, GoesType DEF EndUnstarted, Doing
  <2> QED
    BY <1>14, <2>2, <2>3 DEF EndUnstarted, TypeOK
<1>15. ASSUME NEW p \in Proc, Check(p) PROVE TypeOK'
  <2> DEFINE q == proc[p]
             Next1(pc, found) == [pc |-> pc, e |-> q.e, digest |-> q.digest, fence |-> q.fence,
                                  expect |-> q.expect, left |-> q.left, checked |-> found, verdict |-> "none"]
  <2>1. /\ q.e \in Effect /\ q.digest \in Digest /\ q.fence \in Nat
        /\ q.expect \in Key /\ q.left \in Int
    BY <1>15, ProcType DEF Check, Checking
  <2>2. hold[q.e].state = "approved" => [key |-> hold[q.e].key, live |-> risk] \in [key : Key, live : Int]
    BY <2>1, HoldThere, HoldDigest DEF TypeOK
  <2>3. NoCheck \in [key : Key, live : Int]
    BY KeyDistinct DEF NoCheck
  <2>4. hold[q.e].state = "approved" => Next1("verifying", [key |-> hold[q.e].key, live |-> risk]) \in Doing
    BY <2>1, <2>2 DEF Doing, Admitting
  <2>5. Next1("admitting", NoCheck) \in Doing
    BY <2>1, <2>3 DEF Doing, Admitting
  <2>6. proc' \in [Proc -> Doing]
    BY <1>15, <2>4, <2>5, GoesType DEF Check
  <2> QED
    BY <1>15, <2>6 DEF Check, TypeOK
<1>16. ASSUME NEW p \in Proc, Verify(p) PROVE TypeOK'
  <2> DEFINE q == proc[p]
  <2>1. PICK v \in {Verdict(hold[q.e], q.checked.key, q.checked.live), "unavailable"} :
          Goes(p, [q EXCEPT !.pc = "admitting", !.verdict = v])
    BY <1>16 DEF Verify
  <2>2. v \in {"none", "ok", "bad", "recheck", "unavailable"}
    BY <2>1 DEF Verdict
  <2>3. q \in Admitting
    BY <1>16, ProcType DEF Verify
  <2>4. [q EXCEPT !.pc = "admitting", !.verdict = v] \in Doing
    BY <2>2, <2>3 DEF Admitting, Doing
  <2>5. proc' \in [Proc -> Doing]
    BY <2>1, <2>4, GoesType
  <2> QED
    BY <1>16, <2>5 DEF Verify, TypeOK
<1>17. ASSUME NEW p \in Proc, Admit(p) PROVE TypeOK'
  <2> DEFINE q == proc[p]
             admission == Admission(q)
  <2>1. /\ q.e \in Effect /\ q.digest \in Digest /\ q.fence \in Nat
        /\ q.expect \in Key /\ q.left \in Int
    BY <1>17, ProcType DEF Admit, Admitting
  <2>2. [pc |-> "inside", e |-> q.e] \in Doing
    BY <2>1 DEF Doing, Entered, Inside
  <2>3. Retried(q) \in Doing
    BY <2>1 DEF Retried, Doing, Checking
  <2>4. proc' \in [Proc -> Doing]
    BY <1>17, <2>2, <2>3, GoesType DEF Admit, Doing
  <2>5. [state |-> "intent", digest |-> q.digest] \in EffectRow
    BY <2>1 DEF EffectRow
  <2>6. effect' \in [Effect -> EffectRow]
    BY <1>17, <2>5 DEF Admit, TypeOK
  <2>7. admission = "reopened" => hold[q.e].state # "none"
    BY DEF Admission, Barrier, Enters
  <2>8. admission = "reopened" => [hold[q.e] EXCEPT !.state = "open", !.key = NoKey] \in HoldRow
    BY <2>1, <2>7, HoldThere, KeyDistinct DEF HoldRow, OpenedHold
  <2>9. hold' \in [Effect -> HoldRow]
    BY <1>17, <2>8 DEF Admit, TypeOK
  <2>10. cancelled' \in SUBSET Run
    BY <1>17, <2>1, CancelsType DEF Admit
  <2> QED
    BY <1>17, <2>4, <2>6, <2>9, <2>10 DEF Admit, TypeOK
<1>18. ASSUME NEW p \in Proc, Acts(p) PROVE TypeOK'
  <2>1. proc[p] \in Entered
    BY <1>18, ProcType DEF Acts, Inside
  <2>2. [proc[p] EXCEPT !.pc = "acted"] \in Doing
    BY <2>1 DEF Entered, Doing, Inside
  <2>3. proc' \in [Proc -> Doing]
    BY <1>18, <2>2, GoesType DEF Acts
  <2>4. ran' \in [Effect -> Nat]
    BY <1>18, <2>1 DEF Acts, TypeOK, Entered
  <2> QED
    BY <1>18, <2>3, <2>4 DEF Acts, TypeOK
<1>19. ASSUME NEW p \in Proc, Returns(p) \/ Raises(p) \/ NotStarted(p) PROVE TypeOK'
  <2> DEFINE e == proc[p].e
  <2>1. proc[p] \in Entered /\ e \in Effect
    BY <1>19, ProcType DEF Returns, Raises, NotStarted, Inside, Entered
  <2>2. [proc[p] EXCEPT !.pc = "leaving"] \in Doing
    BY <2>1 DEF Entered, Doing, Inside
  <2>3. proc' \in [Proc -> Doing]
    BY <1>19, <2>2, GoesType DEF Returns, Raises, NotStarted, Records
  <2>4. effect[e] \in [state : {"intent", "done", "unknown"}, digest : Digest]
    BY <1>19, <2>1 DEF Returns, Raises, NotStarted, Intends, TypeOK, EffectRow, NoEffect
  <2>5. /\ [effect[e] EXCEPT !.state = "done"] \in EffectRow
        /\ [effect[e] EXCEPT !.state = "unknown"] \in EffectRow
        /\ NoEffect \in EffectRow
    BY <2>4 DEF EffectRow
  <2>6. \A row \in EffectRow : [effect EXCEPT ![e] = row] \in [Effect -> EffectRow]
    BY <2>1 DEF TypeOK
  <2>7. effect' \in [Effect -> EffectRow]
    BY <1>19, <2>5, <2>6 DEF Returns, Raises, NotStarted, Records, TypeOK
  <2> QED
    BY <1>19, <2>3, <2>7 DEF Returns, Raises, NotStarted, Records, TypeOK
<1>20. ASSUME NEW p \in Proc, Leaves(p) \/ Dies(p) PROVE TypeOK'
  <2>1. proc' \in [Proc -> Doing]
    BY <1>20, GoesType DEF Leaves, Dies, Doing
  <2> QED
    BY <1>20, <2>1 DEF Leaves, Dies, TypeOK
<1> QED
  BY <1>1, <1>2, <1>3, <1>4, <1>5, <1>6, <1>7, <1>8, <1>9, <1>10, <1>11, <1>12, <1>13, <1>14, <1>15, <1>16,
     <1>17, <1>18, <1>19, <1>20 DEF Next, Resolve, Fire

-----------------------------------------------------------------------------
(* What steps do to effects.                                               *)

\* What lets a process act on an effect, or replay it.
LEMMA BarrierNone ==
  ASSUME TypeOK, NEW e \in Effect, NEW d, Barrier(e, d) = "none"
  PROVE  effect[e].state = "none" /\ RunLive(RunOf(e))
<1>1. effect[e] \in EffectRow /\ gen[RunOf(e)] \in Int /\ fence \in Nat
  BY RunThere DEF TypeOK
<1>2. effect[e].state \in {"none", "intent", "done", "unknown"}
  BY <1>1 DEF EffectRow, NoEffect
<1> QED
  BY <1>1, <1>2 DEF Barrier, RunLive

\* What an admission has found.
LEMMA Admissible ==
  ASSUME TypeOK, NEW p \in Proc, proc[p].pc = "admitting", Admission(proc[p]) = "intent"
  PROVE  LET q == proc[p]
             h == hold[proc[p].e]
         IN /\ effect[q.e].state = "none" /\ RunLive(RunOf(q.e))
            /\ ~Leased(q.e)
            /\ q.fence = risk
            /\ \/ h.state = "none" /\ ~OpenBefore(q.e)
               \/ /\ h.state = "approved" /\ h.digest = q.digest
                  /\ q.checked = [key |-> h.key, live |-> risk] /\ q.verdict = "ok"
<1> DEFINE q == proc[p]
           h == hold[q.e]
<1>1. q \in Admitting /\ q.e \in Effect
  BY ProcType DEF Admitting
<1>2. Barrier(q.e, q.digest) = "none"
  BY DEF Admission, Barrier, Enters
<1>3. effect[q.e].state = "none" /\ RunLive(RunOf(q.e))
  BY <1>1, <1>2, BarrierNone
<1>4. h.state \in {"none", "open", "approved", "rejected"}
  BY <1>1 DEF TypeOK, HoldRow, NoHold, OpenedHold
<1>5. h.state # "open" /\ h.state # "rejected"
  BY <1>2 DEF Admission
<1>6. CASE h.state = "none"
  BY <1>2, <1>3, <1>6 DEF Admission, Enters
<1>7. CASE h.state = "approved"
  BY <1>2, <1>3, <1>7 DEF Admission, Enters, Outdated
<1> QED
  BY <1>4, <1>5, <1>6, <1>7

\* A step that neither enters nor is in the call of an effect.
Quiet ==
  /\ effect' = effect /\ ran' = ran
  /\ \A p \in Proc : proc'[p].pc \in Inside => proc'[p] = proc[p]

\* p's effect is admitted.
Enter(p) ==
  /\ proc[p].pc = "admitting" /\ Admission(proc[p]) = "intent"
  /\ Goes(p, [pc |-> "inside", e |-> proc[p].e])
  /\ effect' = [effect EXCEPT ![proc[p].e] = [state |-> "intent", digest |-> proc[p].digest]]
  /\ hold' = hold /\ ran' = ran /\ cancelled' = cancelled

Ended(p) == Returns(p) \/ Raises(p) \/ NotStarted(p)

LEMMA QuietGoes ==
  ASSUME TypeOK, NEW p \in Proc, NEW d, d.pc \notin Inside, Goes(p, d), effect' = effect, ran' = ran
  PROVE  Quiet
  BY DEF TypeOK, Goes, Quiet

\* What a step does to effects.
LEMMA Steps ==
  ASSUME TypeOK, [Next]_vars
  PROVE  Quiet \/ \E p \in Proc : Enter(p) \/ Acts(p) \/ Ended(p)
<1>1. CASE UNCHANGED vars
  BY <1>1 DEF vars, Quiet
<1>2. CASE Fence \/ RiskMoves \/ Unenroll
  BY <1>2 DEF Fence, RiskMoves, Unenroll, Quiet
<1>3. ASSUME NEW x \in Run, Start(x) \/ Cancel(x) PROVE Quiet
  BY <1>3 DEF Start, Cancel, Quiet
<1>4. ASSUME NEW p \in Proc, NEW e \in Effect, Look(p, e) PROVE Quiet
  <2>1. Looked(e).pc \notin Inside
    BY DEF Looked, Inside
  <2> QED
    BY <1>4, <2>1, QuietGoes DEF Look
<1>5. ASSUME NEW p \in Proc, NEW e \in Effect, NEW d \in Digest, Deliver(p, e, d) PROVE Quiet
  <2>1. /\ Calls(e, d, risk, NoKey).pc \notin Inside
        /\ [pc |-> "proposing", e |-> e, digest |-> d, fence |-> risk].pc \notin Inside
    BY DEF Calls, Inside
  <2> QED
    BY <1>5, <2>1, QuietGoes DEF Deliver
<1>6. ASSUME NEW p \in Proc, Propose(p) PROVE Quiet
  <2>1. Looked(proc[p].e).pc \notin Inside /\ Idle.pc \notin Inside
    BY DEF Looked, Idle, Inside
  <2> QED
    BY <1>6, <2>1, QuietGoes DEF Propose
<1>7. ASSUME NEW p \in Proc, Derive(p) PROVE Quiet
  <2> DEFINE q == proc[p]
  <2>1. /\ Calls(q.e, hold[q.e].digest, risk, q.key).pc \notin Inside
        /\ [pc |-> "ending", e |-> q.e].pc \notin Inside
        /\ \A k : [pc |-> "peeking", e |-> q.e, key |-> k, fence |-> risk].pc \notin Inside
    BY DEF Calls, Inside
  <2> QED
    BY <1>7, <2>1, QuietGoes DEF Derive
<1>8. ASSUME NEW p \in Proc, Peek(p) PROVE Quiet
  <2>1. [proc[p] EXCEPT !.pc = "deciding"].pc \notin Inside
    BY <1>8, ProcType DEF Peek, Deciding, Inside
  <2>2. [pc |-> "rejecting", e |-> proc[p].e].pc \notin Inside /\ Idle.pc \notin Inside
    BY DEF Idle, Inside
  <2> QED
    BY <1>8, <2>1, <2>2, QuietGoes DEF Peek
<1>9. ASSUME NEW p \in Proc, Approve(p) PROVE Quiet
  <2> DEFINE q == proc[p]
  <2>1. /\ Calls(q.e, hold[q.e].digest, q.fence, q.key).pc \notin Inside
        /\ Looked(q.e).pc \notin Inside /\ Idle.pc \notin Inside
    BY DEF Calls, Looked, Idle, Inside
  <2> QED
    BY <1>9, <2>1, QuietGoes DEF Approve
<1>10. ASSUME NEW p \in Proc, Reject(p) \/ EndUnstarted(p) \/ Leaves(p) \/ Dies(p) PROVE Quiet
  <2>1. Idle.pc \notin Inside
    BY DEF Idle, Inside
  <2> QED
    BY <1>10, <2>1, QuietGoes DEF Reject, EndUnstarted, Leaves, Dies
<1>11. ASSUME NEW p \in Proc, Check(p) PROVE Quiet
  <2> DEFINE q == proc[p]
             Next1(pc, found) == [pc |-> pc, e |-> q.e, digest |-> q.digest, fence |-> q.fence,
                                  expect |-> q.expect, left |-> q.left, checked |-> found, verdict |-> "none"]
  <2>1. /\ Next1("verifying", [key |-> hold[q.e].key, live |-> risk]).pc \notin Inside
        /\ Next1("admitting", NoCheck).pc \notin Inside
    BY DEF Inside
  <2> QED
    BY <1>11, <2>1, QuietGoes DEF Check
<1>12. ASSUME NEW p \in Proc, Verify(p) PROVE Quiet
  <2>1. PICK v \in {Verdict(hold[proc[p].e], proc[p].checked.key, proc[p].checked.live), "unavailable"} :
          Goes(p, [proc[p] EXCEPT !.pc = "admitting", !.verdict = v])
    BY <1>12 DEF Verify
  <2>2. [proc[p] EXCEPT !.pc = "admitting", !.verdict = v].pc \notin Inside
    BY <1>12, ProcType DEF Verify, Admitting, Inside
  <2> QED
    BY <1>12, <2>1, <2>2, QuietGoes DEF Verify
<1>13. ASSUME NEW p \in Proc, Admit(p) PROVE Quiet \/ Enter(p)
  <2>1. CASE Admission(proc[p]) = "intent"
    BY <1>13, <2>1 DEF Admit, Enter
  <2>2. CASE Admission(proc[p]) # "intent"
    <3>1. Retried(proc[p]).pc \notin Inside /\ Idle.pc \notin Inside
      BY DEF Retried, Idle, Inside
    <3> QED
      BY <1>13, <2>2, <3>1, QuietGoes DEF Admit
  <2> QED
    BY <2>1, <2>2
<1> QED
  BY <1>1, <1>2, <1>3, <1>4, <1>5, <1>6, <1>7, <1>8, <1>9, <1>10, <1>11, <1>12, <1>13 DEF Next, Resolve, Fire, Ended

-----------------------------------------------------------------------------
(* At most once.                                                           *)

LEMMA StepOnce ==
  ASSUME TypeOK, Intends, OneLease, AtMostOnce, [Next]_vars
  PROVE  Intends' /\ OneLease' /\ AtMostOnce'
<1>1. CASE Quiet
  BY <1>1 DEF Quiet, Intends, OneLease, AtMostOnce, Inside
<1>2. ASSUME NEW p \in Proc, Enter(p) PROVE Intends' /\ OneLease' /\ AtMostOnce'
  <2> DEFINE e == proc[p].e
  <2>1. e \in Effect /\ effect[e].state = "none" /\ ~Leased(e) /\ ran[e] = 0
    <3>1. proc[p].pc = "admitting" /\ Admission(proc[p]) = "intent"
      BY <1>2 DEF Enter
    <3>2. e \in Effect
      BY <3>1, ProcType DEF Admitting
    <3>3. effect[e].state = "none" /\ ~Leased(e)
      BY <3>1, Admissible
    <3>4. ran[e] \in Nat
      BY <3>2 DEF TypeOK
    <3> QED
      BY <3>2, <3>3, <3>4 DEF AtMostOnce
  <2>2. \A q \in Proc : proc[q].pc \in Inside => proc[q].e # e
    BY <2>1 DEF Leased
  <2>3. \A q \in Proc : q # p => proc'[q] = proc[q]
    BY <1>2 DEF Enter, Goes, TypeOK
  <2>4. proc'[p] = [pc |-> "inside", e |-> e]
    BY <1>2 DEF Enter, Goes, TypeOK
  <2>5. /\ effect'[e] = [state |-> "intent", digest |-> proc[p].digest]
        /\ \A o \in Effect : o # e => effect'[o] = effect[o]
        /\ ran' = ran
    BY <1>2, <2>1 DEF Enter, TypeOK
  <2>6. Intends'
    BY <2>1, <2>2, <2>3, <2>4, <2>5, ProcType DEF Intends, Inside, Entered
  <2>7. OneLease'
    BY <2>2, <2>3, <2>4 DEF OneLease
  <2>8. AtMostOnce'
    BY <2>1, <2>5 DEF AtMostOnce
  <2> QED
    BY <2>6, <2>7, <2>8
<1>3. ASSUME NEW p \in Proc, Acts(p) PROVE Intends' /\ OneLease' /\ AtMostOnce'
  <2> DEFINE e == proc[p].e
  <2>1. e \in Effect /\ proc[p] \in Entered
    BY <1>3, ProcType DEF Acts, Entered, Inside
  <2>2. effect[e].state = "intent" /\ ran[e] = 0
    BY <1>3 DEF Acts, Intends
  <2>3. \A q \in Proc : q # p => proc'[q] = proc[q]
    BY <1>3 DEF Acts, Goes, TypeOK
  <2>4. proc'[p].pc = "acted" /\ proc'[p].e = e
    BY <1>3, <2>1 DEF Acts, Goes, TypeOK, Entered
  <2>5. effect' = effect /\ ran'[e] = 1 /\ \A o \in Effect : o # e => ran'[o] = ran[o]
    BY <1>3, <2>1, <2>2 DEF Acts, TypeOK
  <2>6. \A q \in Proc : q # p /\ proc[q].pc \in Inside => proc[q].e # e
    BY <1>3, <2>1 DEF OneLease, Acts, Inside
  <2>7. Intends'
    BY <2>2, <2>3, <2>4, <2>5, <2>6, ProcType DEF Intends, Inside, Entered
  <2>8. OneLease'
    BY <1>3, <2>3, <2>4, <2>6 DEF OneLease
  <2>9. AtMostOnce'
    BY <2>2, <2>5 DEF AtMostOnce
  <2> QED
    BY <2>7, <2>8, <2>9
<1>4. ASSUME NEW p \in Proc, Ended(p) PROVE Intends' /\ OneLease' /\ AtMostOnce'
  <2> DEFINE e == proc[p].e
  <2>1. e \in Effect /\ proc[p] \in Entered /\ proc[p].pc \in {"inside", "acted"}
    BY <1>4, ProcType DEF Ended, Returns, Raises, NotStarted, Entered, Inside
  <2>2. effect[e].state = "intent" /\ ran[e] = IF proc[p].pc = "inside" THEN 0 ELSE 1
    BY <2>1 DEF Intends
  <2>3. \A q \in Proc : q # p => proc'[q] = proc[q]
    BY <1>4 DEF Ended, Returns, Raises, NotStarted, Records, Goes, TypeOK
  <2>4. proc'[p].pc = "leaving" /\ proc'[p].e = e
    BY <1>4, <2>1 DEF Ended, Returns, Raises, NotStarted, Records, Goes, TypeOK, Entered
  <2>5. ran' = ran /\ \A o \in Effect : o # e => effect'[o] = effect[o]
    BY <1>4 DEF Ended, Returns, Raises, NotStarted, Records, TypeOK
  <2>6. effect[e] \in [state : {"intent", "done", "unknown"}, digest : Digest]
    BY <2>1, <2>2 DEF TypeOK, EffectRow, NoEffect
  <2>7. /\ effect'[e].state = "done" => ran[e] = 1
        /\ effect'[e].state = "none" => ran[e] = 0
    BY <1>4, <2>1, <2>2, <2>6 DEF Ended, Returns, Raises, NotStarted, Records, TypeOK, NoEffect
  <2>8. \A q \in Proc : q # p /\ proc[q].pc \in Inside => proc[q].e # e
    BY <2>1 DEF OneLease, Inside
  <2>9. Intends'
    BY <2>3, <2>4, <2>5, <2>8, ProcType DEF Intends, Inside, Entered
  <2>10. OneLease'
    BY <2>1, <2>3, <2>4, <2>8 DEF OneLease, Inside
  <2>11. AtMostOnce'
    BY <2>2, <2>5, <2>7 DEF AtMostOnce
  <2> QED
    BY <2>9, <2>10, <2>11
<1> QED
  BY <1>1, <1>2, <1>3, <1>4, Steps

-----------------------------------------------------------------------------
(* What steps do to holds.                                                 *)

\* A hold stays, with the rung it was proposed at, and becomes undecided or rejected only before its
\* effect began.
HoldStays(e) ==
  /\ hold[e].state # "none" =>
       hold'[e].state # "none" /\ \A k : [hold'[e] EXCEPT !.key = k].sealed = [hold[e] EXCEPT !.key = k].sealed
  /\ hold'[e].state \in {"open", "rejected"} => hold[e].state \in {"open", "rejected"} \/ effect[e].state = "none"

LEMMA SameHold ==
  ASSUME NEW e \in Effect, hold'[e] = hold[e]
  PROVE  HoldStays(e)
  BY DEF HoldStays

\* The rung of a hold does not depend on its decision.
LEMMA SealedKept ==
  ASSUME NEW h \in OpenedHold, NEW k
  PROVE  [h EXCEPT !.key = k].sealed = h.sealed /\ [h EXCEPT !.key = k].key = k
  BY DEF OpenedHold

LEMMA HoldSteps ==
  ASSUME TypeOK, TypeOK', HasHold, [Next]_vars, NEW e \in Effect
  PROVE  HoldStays(e)
<1>1. CASE hold' = hold
  BY <1>1, SameHold
<1>2. ASSUME NEW p \in Proc, Propose(p) PROVE HoldStays(e)
  <2> DEFINE q == proc[p]
  <2>1. q.e \in Effect
    BY <1>2, ProcType DEF Propose, Proposing
  <2>2. CASE Barrier(q.e, q.digest) = "none" /\ hold[q.e].state = "none" /\ e = q.e
    BY <2>1, <2>2, BarrierNone DEF HoldStays
  <2>3. CASE ~(Barrier(q.e, q.digest) = "none" /\ hold[q.e].state = "none" /\ e = q.e)
    <3>1. hold'[e] = hold[e]
      BY <1>2, <2>1, <2>3 DEF Propose, TypeOK
    <3> QED
      BY <3>1, SameHold
  <2> QED
    BY <2>2, <2>3
<1>3. ASSUME NEW p \in Proc, Approve(p) PROVE HoldStays(e)
  <2> DEFINE q == proc[p]
  <2>1. q.e \in Effect /\ q.key \in Key
    BY <1>3, ProcType DEF Approve, Deciding
  <2>2. CASE hold[q.e].state = "open" /\ e = q.e
    <3>1. hold[e] \in OpenedHold
      BY <2>2, HoldThere
    <3>2. hold'[e] = [hold[e] EXCEPT !.state = "approved", !.key = q.key]
      BY <1>3, <2>1, <2>2 DEF Approve, TypeOK
    <3>3. hold'[e] \in OpenedHold /\ hold'[e].state = "approved" /\ hold'[e].sealed = hold[e].sealed
      BY <2>1, <3>1, <3>2 DEF OpenedHold
    <3> QED
      BY <3>1, <3>3, SealedKept DEF HoldStays
  <2>3. CASE ~(hold[q.e].state = "open" /\ e = q.e)
    <3>1. hold'[e] = hold[e]
      BY <1>3, <2>1, <2>3 DEF Approve, TypeOK
    <3> QED
      BY <3>1, SameHold
  <2> QED
    BY <2>2, <2>3
<1>4. ASSUME NEW p \in Proc, Reject(p) PROVE HoldStays(e)
  <2> DEFINE o == proc[p].e
  <2>1. o \in Effect
    BY <1>4, ProcType DEF Reject, Ending, Looking
  <2>2. CASE hold[o].state = "open" /\ e = o
    <3>1. hold[e] \in OpenedHold
      BY <2>2, HoldThere
    <3>2. hold'[e] = [hold[e] EXCEPT !.state = "rejected"]
      BY <1>4, <2>1, <2>2 DEF Reject, Rejectable, TypeOK
    <3>3. hold'[e] \in OpenedHold /\ hold'[e].state = "rejected" /\ hold'[e].sealed = hold[e].sealed
      BY <3>1, <3>2 DEF OpenedHold
    <3> QED
      BY <2>2, <3>1, <3>3, SealedKept DEF HoldStays
  <2>3. CASE ~(hold[o].state = "open" /\ e = o)
    <3>1. hold'[e] = hold[e]
      BY <1>4, <2>1, <2>3 DEF Reject, Rejectable, TypeOK
    <3> QED
      BY <3>1, SameHold
  <2> QED
    BY <2>2, <2>3
<1>5. ASSUME NEW p \in Proc, Admit(p) PROVE HoldStays(e)
  <2> DEFINE q == proc[p]
  <2>1. q.e \in Effect
    BY <1>5, ProcType DEF Admit, Admitting
  <2>2. CASE Admission(q) = "reopened" /\ e = q.e
    <3>1. hold[e].state # "none" /\ Barrier(q.e, q.digest) = "none"
      BY <2>2 DEF Admission, Barrier, Enters
    <3>2. effect[e].state = "none"
      BY <2>1, <2>2, <3>1, BarrierNone
    <3>3. hold[e] \in OpenedHold
      BY <3>1, HoldThere
    <3>4. hold'[e] = [hold[e] EXCEPT !.state = "open", !.key = NoKey]
      BY <1>5, <2>1, <2>2 DEF Admit, TypeOK
    <3>5. hold'[e] \in OpenedHold /\ hold'[e].state = "open" /\ hold'[e].sealed = hold[e].sealed
      BY <3>3, <3>4, KeyDistinct DEF OpenedHold
    <3> QED
      BY <3>2, <3>3, <3>5, SealedKept DEF HoldStays
  <2>3. CASE ~(Admission(q) = "reopened" /\ e = q.e)
    <3>1. hold'[e] = hold[e]
      BY <1>5, <2>1, <2>3 DEF Admit, TypeOK
    <3> QED
      BY <3>1, SameHold
  <2> QED
    BY <2>2, <2>3
<1>6. CASE UNCHANGED vars \/ Fence \/ RiskMoves \/ Unenroll
  BY <1>1, <1>6 DEF vars, Fence, RiskMoves, Unenroll
<1>7. ASSUME NEW x \in Run, Start(x) \/ Cancel(x) PROVE HoldStays(e)
  BY <1>1, <1>7 DEF Start, Cancel
<1>8. ASSUME NEW p \in Proc, NEW o \in Effect, Look(p, o) \/ \E d \in Digest : Deliver(p, o, d) PROVE HoldStays(e)
  BY <1>1, <1>8 DEF Look, Deliver
<1>9. ASSUME NEW p \in Proc, Derive(p) \/ Peek(p) \/ EndUnstarted(p) \/ Check(p) \/ Verify(p) \/ Dies(p)
      PROVE  HoldStays(e)
  BY <1>1, <1>9 DEF Derive, Peek, EndUnstarted, Check, Verify, Dies
<1>10. ASSUME NEW p \in Proc, Acts(p) \/ Returns(p) \/ Raises(p) \/ NotStarted(p) \/ Leaves(p)
       PROVE  HoldStays(e)
  BY <1>1, <1>10 DEF Acts, Returns, Raises, NotStarted, Records, Leaves
<1> QED
  BY <1>2, <1>3, <1>4, <1>5, <1>6, <1>7, <1>8, <1>9, <1>10 DEF Next, Resolve, Fire

-----------------------------------------------------------------------------
(* No effect without its decision.                                         *)

LEMMA StepUndecided ==
  ASSUME TypeOK, TypeOK', HasHold, Intends, AtMostOnce, UndecidedNeverRan, [Next]_vars
  PROVE  UndecidedNeverRan'
<1> SUFFICES ASSUME NEW e \in Effect, hold'[e].state \in {"open", "rejected"}
             PROVE  ran'[e] = 0 /\ effect'[e].state = "none"
  BY DEF UndecidedNeverRan
<1>1. hold[e].state \in {"open", "rejected"} \/ effect[e].state = "none"
  BY HoldSteps DEF HoldStays
<1>2. ran[e] = 0 /\ effect[e].state = "none"
  <2>1. CASE hold[e].state \in {"open", "rejected"}
    BY <2>1 DEF UndecidedNeverRan
  <2>2. CASE effect[e].state = "none"
    <3>1. ran[e] \in Nat
      BY DEF TypeOK
    <3> QED
      BY <2>2, <3>1 DEF AtMostOnce
  <2> QED
    BY <1>1, <2>1, <2>2
<1>3. CASE Quiet
  BY <1>2, <1>3 DEF Quiet
<1>4. ASSUME NEW p \in Proc, Enter(p) PROVE ran'[e] = 0 /\ effect'[e].state = "none"
  <2>1. hold[proc[p].e].state \in {"none", "approved"}
    BY <1>4, Admissible DEF Enter
  <2>2. e # proc[p].e
    BY <1>4, <2>1 DEF Enter
  <2> QED
    BY <1>2, <1>4, <2>2 DEF Enter, TypeOK
<1>5. ASSUME NEW p \in Proc, Acts(p) \/ Ended(p) PROVE ran'[e] = 0 /\ effect'[e].state = "none"
  <2>1. e # proc[p].e
    BY <1>2, <1>5 DEF Acts, Ended, Returns, Raises, NotStarted, Intends
  <2>2. ran'[e] = ran[e] /\ effect'[e] = effect[e]
    BY <1>5, <2>1 DEF Acts, Ended, Returns, Raises, NotStarted, Records, TypeOK
  <2> QED
    BY <1>2, <2>2
<1> QED
  BY <1>3, <1>4, <1>5, Steps

-----------------------------------------------------------------------------
(* What the processes know.                                                *)

\* p alone moves, to d.
LEMMA GoesTo ==
  ASSUME TypeOK, NEW p \in Proc, NEW d, Goes(p, d)
  PROVE  proc'[p] = d /\ \A o \in Proc : o # p => proc'[o] = proc[o]
  BY DEF TypeOK, Goes

Knows(p) ==
  /\ proc[p].pc \in {"looked", "peeking", "deciding", "verifying"} => hold[proc[p].e].state # "none"
  /\ proc[p].pc \in {"checking", "admitting"} => proc[p].fence < Cooling \/ hold[proc[p].e].state # "none"
  /\ proc[p].pc = "admitting" /\ proc[p].verdict = "ok" =>
       /\ hold[proc[p].e].state # "none"
       /\ Meets([hold[proc[p].e] EXCEPT !.key = proc[p].checked.key], proc[p].checked.live)

LEMMA KnowsAll == HasHold /\ Unasked /\ Judged <=> \A p \in Proc : Knows(p)
  BY DEF HasHold, Unasked, Judged, Knows

\* What a decision meets is said by its key and by the rung its hold was proposed at.
LEMMA MeetsSame ==
  ASSUME NEW h \in OpenedHold, NEW g \in OpenedHold, h.sealed = g.sealed, NEW k, NEW r
  PROVE  Meets([h EXCEPT !.key = k], r) <=> Meets([g EXCEPT !.key = k], r)
<1>1. [h EXCEPT !.key = k].sealed = [g EXCEPT !.key = k].sealed
  BY SealedKept
<1>2. [h EXCEPT !.key = k].key = [g EXCEPT !.key = k].key
  BY SealedKept
<1> QED
  BY <1>1, <1>2 DEF Meets, Needed

\* Who does not move knows what it knew.
LEMMA KnowsKept ==
  ASSUME TypeOK, TypeOK', HasHold, [Next]_vars, NEW p \in Proc, Knows(p), proc'[p] = proc[p]
  PROVE  Knows(p)'
<1> DEFINE q == proc[p]
<1>1. CASE q.pc \in {"looked", "peeking", "deciding", "verifying", "checking", "admitting"}
  <2>1. q.e \in Effect
    BY <1>1, ProcType DEF Looking, Deciding, Checking, Admitting
  <2>2. hold[q.e].state # "none" => hold'[q.e].state # "none"
    BY <2>1, HoldSteps DEF HoldStays
  <2>3. ASSUME hold[q.e].state # "none", Meets([hold[q.e] EXCEPT !.key = q.checked.key], q.checked.live)
        PROVE  Meets([hold'[q.e] EXCEPT !.key = q.checked.key], q.checked.live)
    <3>1. hold[q.e] \in OpenedHold /\ hold'[q.e] \in OpenedHold
      BY <2>1, <2>2, <2>3, HoldThere DEF TypeOK, HoldRow, NoHold
    <3>2. hold'[q.e].sealed = hold[q.e].sealed
      BY <2>1, <2>3, <3>1, HoldSteps, SealedKept DEF HoldStays
    <3> DEFINE g == hold'[q.e]
               h == hold[q.e]
               k == q.checked.key
               r == q.checked.live
    <3>3. Meets([h EXCEPT !.key = k], r)
      BY <2>3
    <3> HIDE DEF g, h, k, r
    <3>4. [g EXCEPT !.key = k].sealed = h.sealed /\ [h EXCEPT !.key = k].sealed = h.sealed
      BY <3>1, <3>2, SealedKept DEF g, h
    <3>5. [g EXCEPT !.key = k].key = [h EXCEPT !.key = k].key
      BY <3>1, SealedKept DEF g, h
    <3>6. Meets([g EXCEPT !.key = k], r)
      BY <3>3, <3>4, <3>5 DEF Meets, Needed
    <3> QED
      BY <3>6 DEF g, k, r
  <2> QED
    BY <2>2, <2>3 DEF Knows
<1>2. CASE q.pc \notin {"looked", "peeking", "deciding", "verifying", "checking", "admitting"}
  BY <1>2 DEF Knows
<1> QED
  BY <1>1, <1>2

\* What a process moves to, when it moves.
LEMMA KnowsMoved ==
  ASSUME TypeOK, TypeOK', HasHold, Unasked, [Next]_vars, NEW p \in Proc, proc'[p] # proc[p]
  PROVE  Knows(p)'
<1> DEFINE q == proc[p]
           q1 == proc'[p]
           Unknowing == {"idle", "proposing", "ending", "rejecting", "inside", "acted", "leaving"}
<1>0. q1.pc \in Unknowing => Knows(p)'
  BY DEF Knows
<1>1. ASSUME NEW o \in Proc, NEW d, Goes(o, d) PROVE o = p /\ q1 = d
  BY <1>1, GoesTo
<1>2. ASSUME NEW o \in Proc, NEW e \in Effect, Look(o, e) PROVE Knows(p)'
  <2>1. q1 = Looked(e) /\ hold[e].state # "none" /\ hold' = hold
    BY <1>1, <1>2 DEF Look
  <2> QED
    BY <2>1 DEF Knows, Looked
<1>3. ASSUME NEW o \in Proc, NEW e \in Effect, NEW d \in Digest, Deliver(o, e, d) PROVE Knows(p)'
  <2>1. CASE risk < Cooling
    <3>1. q1 = Calls(e, d, risk, NoKey)
      BY <1>1, <1>3, <2>1 DEF Deliver
    <3> QED
      BY <2>1, <3>1 DEF Knows, Calls
  <2>2. CASE ~(risk < Cooling)
    <3>1. q1 = [pc |-> "proposing", e |-> e, digest |-> d, fence |-> risk]
      BY <1>1, <1>3, <2>2 DEF Deliver
    <3> QED
      BY <1>0, <3>1
  <2> QED
    BY <2>1, <2>2
<1>4. ASSUME NEW o \in Proc, Propose(o) PROVE Knows(p)'
  <2>1. CASE q1 = Idle
    BY <1>0, <2>1 DEF Idle
  <2>2. CASE q1 # Idle
    <3>1. o = p /\ q1 = Looked(q.e) /\ hold[q.e].state = "approved" /\ hold' = hold
      BY <1>1, <1>4, <2>2 DEF Propose
    <3> QED
      BY <3>1 DEF Knows, Looked
  <2> QED
    BY <2>1, <2>2
<1>5. ASSUME NEW o \in Proc, Derive(o) PROVE Knows(p)'
  <2>1. o = p /\ hold' = hold
    BY <1>1, <1>5 DEF Derive
  <2>2. hold[q.e].state # "none"
    BY <1>5, <2>1 DEF Derive, HasHold
  <2>3. \/ q1 = [pc |-> "ending", e |-> q.e]
        \/ q1 = Calls(q.e, hold[q.e].digest, risk, q.key)
        \/ \E k : q1 = [pc |-> "peeking", e |-> q.e, key |-> k, fence |-> risk]
    BY <1>1, <1>5, <2>1 DEF Derive
  <2>4. CASE q1 = [pc |-> "ending", e |-> q.e]
    BY <1>0, <2>4
  <2>5. CASE q1 = Calls(q.e, hold[q.e].digest, risk, q.key)
    <3>1. q1.pc = "checking" /\ q1.e = q.e
      BY <2>5 DEF Calls
    <3> QED
      BY <2>1, <2>2, <3>1 DEF Knows
  <2>6. CASE \E k : q1 = [pc |-> "peeking", e |-> q.e, key |-> k, fence |-> risk]
    <3>1. q1.pc = "peeking" /\ q1.e = q.e
      BY <2>6
    <3> QED
      BY <2>1, <2>2, <3>1 DEF Knows
  <2> QED
    BY <2>3, <2>4, <2>5, <2>6
<1>6. ASSUME NEW o \in Proc, Peek(o) PROVE Knows(p)'
  <2>1. o = p /\ hold' = hold /\ q \in Deciding
    BY <1>1, <1>6, ProcType DEF Peek
  <2>2. hold[q.e].state # "none"
    BY <1>6, <2>1 DEF Peek, HasHold
  <2>3. \/ q1 = [q EXCEPT !.pc = "deciding"]
        \/ q1 = [pc |-> "rejecting", e |-> q.e]
        \/ q1 = Idle
    BY <1>1, <1>6, <2>1 DEF Peek
  <2>4. [q EXCEPT !.pc = "deciding"].pc = "deciding" /\ [q EXCEPT !.pc = "deciding"].e = q.e
    BY <2>1 DEF Deciding
  <2>5. CASE q1 = [q EXCEPT !.pc = "deciding"]
    <3>1. q1.pc = "deciding" /\ q1.e = q.e
      BY <2>4, <2>5
    <3> QED
      BY <2>1, <2>2, <3>1 DEF Knows
  <2>6. CASE q1 = [pc |-> "rejecting", e |-> q.e] \/ q1 = Idle
    BY <1>0, <2>6 DEF Idle
  <2> QED
    BY <2>3, <2>5, <2>6
<1>7. ASSUME NEW o \in Proc, Approve(o) PROVE Knows(p)'
  <2>1. o = p
    BY <1>1, <1>7 DEF Approve
  <2>2. q.e \in Effect /\ hold[q.e].state # "none"
    BY <1>7, <2>1, ProcType DEF Approve, HasHold, Deciding
  <2>3. hold'[q.e].state # "none"
    BY <2>2, HoldSteps DEF HoldStays
  <2>4. \/ q1 = Calls(q.e, hold[q.e].digest, q.fence, q.key)
        \/ q1 = Looked(q.e)
        \/ q1 = Idle
    BY <1>1, <1>7, <2>1 DEF Approve
  <2> QED
    BY <1>0, <2>3, <2>4 DEF Knows, Calls, Looked, Idle
<1>8. ASSUME NEW o \in Proc, Check(o) PROVE Knows(p)'
  <2>1. o = p /\ hold' = hold /\ (q.fence < Cooling \/ hold[q.e].state # "none")
    BY <1>1, <1>8 DEF Check, Unasked
  <2>2. \/ /\ hold[q.e].state = "approved"
           /\ q1 = [pc |-> "verifying", e |-> q.e, digest |-> q.digest, fence |-> q.fence, expect |-> q.expect,
                    left |-> q.left, checked |-> [key |-> hold[q.e].key, live |-> risk], verdict |-> "none"]
        \/ q1 = [pc |-> "admitting", e |-> q.e, digest |-> q.digest, fence |-> q.fence, expect |-> q.expect,
                 left |-> q.left, checked |-> NoCheck, verdict |-> "none"]
    BY <1>1, <1>8, <2>1 DEF Check
  <2> QED
    BY <2>1, <2>2 DEF Knows
<1>9. ASSUME NEW o \in Proc, Verify(o) PROVE Knows(p)'
  <2>1. PICK v \in {Verdict(hold[proc[o].e], proc[o].checked.key, proc[o].checked.live), "unavailable"} :
          Goes(o, [proc[o] EXCEPT !.pc = "admitting", !.verdict = v])
    BY <1>9 DEF Verify
  <2>2. o = p /\ hold' = hold /\ q1 = [q EXCEPT !.pc = "admitting", !.verdict = v]
    BY <1>1, <1>9, <2>1 DEF Verify
  <2>3. q \in Admitting /\ hold[q.e].state # "none"
    BY <1>9, <2>2, ProcType DEF Verify, HasHold
  <2>4. q1.pc = "admitting" /\ q1.verdict = v /\ q1.e = q.e /\ q1.checked = q.checked /\ q1.fence = q.fence
    BY <2>2, <2>3 DEF Admitting
  <2>5. v = "ok" => Meets([hold[q.e] EXCEPT !.key = q.checked.key], q.checked.live)
    BY <2>1, <2>2 DEF Verdict
  <2> QED
    BY <2>2, <2>3, <2>4, <2>5 DEF Knows
<1>10. ASSUME NEW o \in Proc, Admit(o) PROVE Knows(p)'
  <2>1. o = p /\ q.pc = "admitting"
    BY <1>1, <1>10 DEF Admit
  <2>2. q1 = [pc |-> "inside", e |-> q.e] \/ q1 = Retried(q) \/ q1 = Idle
    BY <1>1, <1>10, <2>1 DEF Admit
  <2>3. CASE q1 = Retried(q) /\ q1 # Idle
    <3>1. q1.pc = "checking" /\ q1.e = q.e /\ q1.fence = q.fence
      BY <2>3 DEF Retried
    <3>2. q.e \in Effect
      BY <2>1, ProcType DEF Admitting
    <3>3. q.fence < Cooling \/ hold'[q.e].state # "none"
      BY <2>1, <3>2, HoldSteps DEF Unasked, HoldStays
    <3> QED
      BY <3>1, <3>3 DEF Knows
  <2> QED
    BY <1>0, <2>2, <2>3 DEF Idle
<1>11. ASSUME NEW o \in Proc, Reject(o) \/ EndUnstarted(o) \/ Leaves(o) \/ Dies(o) PROVE Knows(p)'
  <2>1. q1 = Idle
    BY <1>1, <1>11 DEF Reject, EndUnstarted, Leaves, Dies
  <2> QED
    BY <1>0, <2>1 DEF Idle
<1>12. ASSUME NEW o \in Proc, Acts(o) \/ Ended(o) PROVE Knows(p)'
  <2>1. proc[o] \in Entered
    BY <1>12, ProcType DEF Acts, Ended, Returns, Raises, NotStarted, Inside
  <2>2. /\ [proc[o] EXCEPT !.pc = "acted"].pc = "acted"
        /\ [proc[o] EXCEPT !.pc = "leaving"].pc = "leaving"
    BY <2>1 DEF Entered
  <2>3. q1.pc \in {"acted", "leaving"}
    BY <1>1, <1>12, <2>2 DEF Acts, Ended, Returns, Raises, NotStarted, Records
  <2> QED
    BY <1>0, <2>3
<1>13. CASE UNCHANGED vars \/ Fence \/ RiskMoves \/ Unenroll \/ \E x \in Run : Start(x) \/ Cancel(x)
  BY <1>13 DEF vars, Fence, RiskMoves, Unenroll, Start, Cancel
<1> QED
  BY <1>2, <1>3, <1>4, <1>5, <1>6, <1>7, <1>8, <1>9, <1>10, <1>11, <1>12, <1>13 DEF Next, Resolve, Fire, Ended

-----------------------------------------------------------------------------
(* The theorems.                                                           *)

Inv == TypeOK /\ HasHold /\ Unasked /\ Judged /\ Intends /\ OneLease /\ AtMostOnce /\ UndecidedNeverRan

LEMMA InitInv == Init => Inv
<1> SUFFICES ASSUME Init PROVE Inv
  OBVIOUS
<1>1. TypeOK
  BY RiskNat DEF Init, TypeOK, Unstarted, EffectRow, HoldRow, Doing
<1>2. \A p \in Proc : proc[p].pc = "idle"
  BY DEF Init, Idle
<1>3. \A e \in Effect : ran[e] = 0 /\ effect[e].state = "none" /\ hold[e].state = "none"
  BY DEF Init, NoEffect, NoHold
<1> QED
  BY <1>1, <1>2, <1>3
     DEF Inv, HasHold, Unasked, Judged, Intends, OneLease, AtMostOnce, UndecidedNeverRan, Inside

LEMMA StepInv == Inv /\ [Next]_vars => Inv'
<1> SUFFICES ASSUME Inv, [Next]_vars PROVE Inv'
  OBVIOUS
<1>1. TypeOK /\ HasHold /\ Unasked /\ Judged /\ Intends /\ OneLease /\ AtMostOnce /\ UndecidedNeverRan
  BY DEF Inv
<1>2. TypeOK'
  BY <1>1, StepTyped
<1>3. Intends' /\ OneLease' /\ AtMostOnce'
  BY <1>1, StepOnce
<1>4. UndecidedNeverRan'
  BY <1>1, <1>2, StepUndecided
<1>5. \A p \in Proc : Knows(p)'
  BY <1>1, <1>2, KnowsAll, KnowsKept, KnowsMoved
<1>6. HasHold' /\ Unasked' /\ Judged'
  BY <1>5 DEF HasHold, Unasked, Judged, Knows
<1> QED
  BY <1>2, <1>3, <1>4, <1>6 DEF Inv

\* The inductive invariant: what the processes of the gate know of the rows they act on.
THEOREM Invariance == Spec => []Inv
  BY InitInv, StepInv, PTL DEF Spec

\* Every variable of the journal keeps its type, for every number of processes, runs and effects:
\* no step of journal.py or gate.py reads a row that is not there.
THEOREM TypeCorrect == Spec => []TypeOK
<1>1. Inv => TypeOK
  BY DEF Inv
<1> QED
  BY <1>1, Invariance, PTL

\* An effect happens at most once, and the journal says of it what happened (RunJournal.effect).
THEOREM OnceOnly == Spec => []AtMostOnce
<1>1. Inv => AtMostOnce
  BY DEF Inv
<1> QED
  BY <1>1, Invariance, PTL

\* An effect whose decision is open or rejected has not happened (RunJournal.decide, _reopen_in).
THEOREM NoneUndecided == Spec => []UndecidedNeverRan
<1>1. Inv => UndecidedNeverRan
  BY DEF Inv
<1> QED
  BY <1>1, Invariance, PTL

\* An admitted effect is one whose run is live and whose decision meets the risk as it is, or that asks
\* for none while nobody owes one on the binding (RunJournal._admit_in).
LEMMA StepAuthorized ==
  ASSUME Inv, [Next]_vars, NEW e \in Effect, effect[e].state = "none", effect'[e].state = "intent"
  PROVE  /\ RunLive(RunOf(e))
         /\ IF hold[e].state = "approved"
            THEN Meets(hold[e], risk) /\ effect'[e].digest = hold[e].digest
            ELSE /\ hold[e].state = "none" /\ risk < Cooling
                 /\ \A o \in Effect : hold[o].state = "open" => ~RunLive(RunOf(o))
<1>1. TypeOK /\ Unasked /\ Judged /\ Intends
  BY DEF Inv
<1>2. PICK p \in Proc : Enter(p) /\ e = proc[p].e
  <2>1. ~Quiet
    BY DEF Quiet
  <2>2. PICK p \in Proc : Enter(p) \/ Acts(p) \/ Ended(p)
    BY <1>1, <2>1, Steps
  <2>3. ~Acts(p)
    BY DEF Acts
  <2>4. ~Ended(p)
    <3>1. ASSUME Ended(p) PROVE FALSE
      <4>1. effect[proc[p].e].state = "intent"
        BY <1>1, <3>1 DEF Ended, Returns, Raises, NotStarted, Intends
      <4>2. e # proc[p].e
        BY <4>1
      <4>3. effect'[e] = effect[e]
        BY <1>1, <3>1, <4>2 DEF Ended, Returns, Raises, NotStarted, Records, TypeOK
      <4> QED
        BY <4>3
    <3> QED
      BY <3>1
  <2>5. Enter(p)
    BY <2>2, <2>3, <2>4
  <2>6. e = proc[p].e
    BY <1>1, <2>5 DEF Enter, TypeOK
  <2> QED
    BY <2>5, <2>6
<1> DEFINE q == proc[p]
           h == hold[e]
<1>3. /\ RunLive(RunOf(e)) /\ q.fence = risk
      /\ \/ h.state = "none" /\ ~OpenBefore(e)
         \/ /\ h.state = "approved" /\ h.digest = q.digest
            /\ q.checked = [key |-> h.key, live |-> risk] /\ q.verdict = "ok"
  BY <1>1, <1>2, Admissible DEF Enter
<1>4. CASE h.state = "none"
  <2>1. risk < Cooling
    BY <1>1, <1>2, <1>3, <1>4 DEF Unasked, Enter
  <2> QED
    BY <1>3, <1>4, <2>1 DEF OpenBefore
<1>5. CASE h.state = "approved"
  <2>1. h \in OpenedHold
    BY <1>1, <1>5, HoldThere
  <2>2. Meets([h EXCEPT !.key = h.key], risk)
    BY <1>1, <1>2, <1>3, <1>5 DEF Judged, Enter
  <2>3. [h EXCEPT !.key = h.key] = h
    BY <2>1 DEF OpenedHold
  <2>4. effect'[e].digest = h.digest
    BY <1>1, <1>2, <1>3, <1>5 DEF Enter, TypeOK
  <2> QED
    BY <1>3, <1>5, <2>2, <2>3, <2>4
<1> QED
  BY <1>3, <1>4, <1>5

\* The same, of every behaviour.
THEOREM AuthorizedAtAdmission == Spec => AuthorizedNow
<1>1. Inv /\ [Next]_vars =>
        [\A e \in Effect :
           effect[e].state = "none" /\ effect'[e].state = "intent" =>
             /\ RunLive(RunOf(e))
             /\ IF hold[e].state = "approved"
                THEN Meets(hold[e], risk) /\ effect'[e].digest = hold[e].digest
                ELSE /\ hold[e].state = "none" /\ risk < Cooling
                     /\ \A o \in Effect : hold[o].state = "open" => ~RunLive(RunOf(o))]_effect
  BY StepAuthorized
<1> QED
  BY <1>1, Invariance, PTL DEF Spec, AuthorizedNow

=============================================================================
