------------------------- MODULE ConsentQueueSafety -------------------------
(***************************************************************************)
(* The safety properties of ConsentQueue, for every value of the constants,*)
(* from how a step may move a row (ConsentQueueProofs!RowMoves): deadlines,*)
(* takes, gaps and evidence; the order of the log; that the queue          *)
(* implements LateAllow.                                                   *)
(***************************************************************************)
EXTENDS ConsentQueueProofs

-----------------------------------------------------------------------------
(* What a row's state says of how it was decided.                          *)

\* A request is decided by an answer, a grant or a ruling, and by nothing else;
\* the requests with a gap are those that went undecided.
DecidedBy ==
  \A r \in Request :
    /\ row[r].state \in Decided <=> row[r].via # "none"
    /\ gap[r] # 0 <=> row[r].state = "undecided" \/ row[r].via = "ruling"

LEMMA DecidedByStep == TypeOK /\ DecidedBy /\ [Next]_vars => DecidedBy'
<1> SUFFICES ASSUME TypeOK, DecidedBy, [Next]_vars, NEW r \in Request
             PROVE  /\ row'[r].state \in Decided <=> row'[r].via # "none"
                    /\ gap'[r] # 0 <=> row'[r].state = "undecided" \/ row'[r].via = "ruling"
  BY DEF DecidedBy
<1>1. Moves(r)
  BY RowMoves
<1>2. /\ row[r].state \in Decided <=> row[r].via # "none"
      /\ gap[r] # 0 <=> row[r].state = "undecided" \/ row[r].via = "ruling"
  BY DEF DecidedBy
<1> QED
  BY <1>1, <1>2 DEF Moves, SameSession, Decided

LEMMA DecidedByHolds == Spec => []DecidedBy
<1>1. Init => DecidedBy
  BY DEF Init, DecidedBy, Unfiled, Decided
<1> QED
  BY <1>1, DecidedByStep, TypeCorrect, PTL DEF Spec

\* The rows a step leaves as they are.
LEMMA SettledStay ==
  ASSUME TypeOK, [Next]_vars, NEW r \in Request, row[r].state \in Terminal
  PROVE  row'[r] = row[r] /\ SameSession(r)
<1>1. Moves(r)
  BY RowMoves
<1> QED
  BY <1>1 DEF Moves, Terminal, Decided

-----------------------------------------------------------------------------
(* Decisions are final and in time.                                        *)

\* No step of any process changes a request that was decided, expired or
\* withdrawn, and only a ruling moves an undecided one (_transition, behind the
\* state checks of every operation).
THEOREM Finality == Spec => TerminalFinal
<1>1. TypeOK /\ [Next]_vars =>
        [\A r \in Request :
           /\ row[r].state \in Terminal => row'[r] = row[r]
           /\ row[r].state = "undecided" =>
                \/ row'[r] = row[r]
                \/ row'[r].state \in Decided /\ row'[r].via = "ruling"]_row
  <2> SUFFICES ASSUME TypeOK, [Next]_vars, NEW r \in Request
               PROVE  /\ row[r].state \in Terminal => row'[r] = row[r]
                      /\ row[r].state = "undecided" =>
                           \/ row'[r] = row[r]
                           \/ row'[r].state \in Decided /\ row'[r].via = "ruling"
    OBVIOUS
  <2>1. Moves(r)
    BY RowMoves
  <2> QED
    BY <2>1 DEF Moves, Terminal, Decided
<1> QED
  BY <1>1, TypeCorrect, PTL DEF Spec, TerminalFinal

\* answer() and answer_by_grant() decide nothing after the hold, however long
\* they waited between verifying and the write lock.
THEOREM AnswersInTime == Spec => []NoLateAnswer
<1>1. Init => NoLateAnswer
  BY DEF Init, NoLateAnswer, Unfiled
<1>2. TypeOK /\ NoLateAnswer /\ [Next]_vars => NoLateAnswer'
  <2> SUFFICES ASSUME TypeOK, NoLateAnswer, [Next]_vars, NEW r \in Request,
                      row'[r].via \in {"signature", "grant"}
               PROVE  row'[r].decidedAt < row'[r].expiresAt
    BY DEF NoLateAnswer
  <2>1. Moves(r)
    BY RowMoves
  <2> QED
    BY <2>1 DEF Moves, NoLateAnswer
<1> QED
  BY <1>1, <1>2, TypeCorrect, PTL DEF Spec

\* get(), sweep(), withdraw() and the writers' _settle() leave a request to its
\* hook until its grace has passed.
THEOREM GraceKept == Spec => []ExpiryAfterGrace
<1>1. Init => ExpiryAfterGrace
  BY DEF Init, ExpiryAfterGrace, Unfiled
<1>2. TypeOK /\ ExpiryAfterGrace /\ [Next]_vars => ExpiryAfterGrace'
  <2> SUFFICES ASSUME TypeOK, ExpiryAfterGrace, [Next]_vars, NEW r \in Request,
                      row'[r].state = "expired"
               PROVE  row'[r].decidedAt >= row'[r].expiresAt + Grace
    BY DEF ExpiryAfterGrace
  <2>1. Moves(r)
    BY RowMoves
  <2> QED
    BY <2>1 DEF Moves, ExpiryAfterGrace, Decided
<1> QED
  BY <1>1, <1>2, TypeCorrect, PTL DEF Spec

-----------------------------------------------------------------------------
(* Halts and delivery.                                                     *)

\* mark_undecided() and halt() halt a session on an undecided request only, and
\* answer_late() releases it with the ruling.
THEOREM NoOrphanHalt == Spec => []HaltsReleased
<1>1. Init => HaltsReleased
  BY DEF Init, HaltsReleased
<1>2. TypeOK /\ DecidedBy /\ HaltsReleased /\ [Next]_vars => HaltsReleased'
  <2> SUFFICES ASSUME TypeOK, DecidedBy, HaltsReleased, [Next]_vars
               PROVE  HaltsReleased'
    OBVIOUS
  <2>1. halts' \subseteq Request /\ releases' \subseteq Request
    BY TypeStep DEF TypeOK
  <2>2. ASSUME NEW r \in Request
        PROVE  /\ r \in halts' =>
                    row'[r].state = "undecided" \/ row'[r].via = "ruling"
               /\ r \in releases' <=> r \in halts' /\ row'[r].via = "ruling"
    <3>1. Moves(r)
      BY RowMoves
    <3>2. /\ r \in halts => row[r].state = "undecided" \/ row[r].via = "ruling"
          /\ r \in releases <=> r \in halts /\ row[r].via = "ruling"
          /\ row[r].state \in Decided <=> row[r].via # "none"
      BY DEF HaltsReleased, DecidedBy
    <3> QED
      BY <3>1, <3>2 DEF Moves, SameSession, Decided
  <2> QED
    BY <2>1, <2>2 DEF HaltsReleased
<1> QED
  BY <1>1, <1>2, DecidedByHolds, TypeCorrect, PTL DEF Spec

\* What a hook reads of a row stays so: the row was decided, and it is a decision
\* for the agent only when an answer or a grant decided it.
ReadSound ==
  \A h \in Hook : hook[h].pc \in {"read", "replayed", "decided"} =>
    LET got == hook[h].got
    IN  /\ got.seen = row[got.request]
        /\ got.seen.state \in Decided
        /\ hook[h].pc = "decided" => got.seen.via \in {"signature", "grant"}

\* h reads a row, replays the authority log for it, or verifies it.
Reads(h) ==
  LET got == hook'[h].got
  IN  /\ hook'[h].pc = "read"
      /\ got.request \in Request
      /\ got.seen = row[got.request]
      /\ got.seen.state \in Decided
      /\ got.stood = InForce(got.seen)
Replays(h) ==
  /\ hook[h].pc = "read"
  /\ hook'[h] = [pc |-> "replayed", got |-> hook[h].got, active |-> ActiveKeys,
                 link |-> grant]
Verifies(h) ==
  /\ hook[h].pc = "replayed"
  /\ LET got == hook[h].got
     IN  /\ hook'[h] = [pc |-> "decided", got |-> got]
         /\ Deliverable(got.seen, got.request, hook[h].active, hook[h].link)

\* A hook holds a reading because decision() made it, or since before the step.
LEMMA ReadingFrom ==
  ASSUME TypeOK, [Next]_vars, NEW h \in Hook,
         hook'[h].pc \in {"read", "replayed", "decided"}
  PROVE  \/ hook'[h] = hook[h]
         \/ /\ UNCHANGED <<row, authority>>
            /\ Reads(h) \/ Replays(h) \/ Verifies(h)
<1>0. hook \in [Hook -> HookState]
  BY DEF TypeOK
<1>1. CASE UNCHANGED vars
  BY <1>1 DEF vars
<1>2. CASE Clock \/ AuthorityLog
  BY <1>2 DEF Clock, AuthorityLog, Tick, StepBack, Enrol, Revoke, WriteGrant,
       RevokeGrant, Authority
<1>3. CASE Store
  <2>1. \A r \in Request, at \in Time : File(r, at) => hook' = hook
    BY DEF File
  <2> QED
    BY <1>3, <2>1 DEF Store, Get, Withdraw, Halt, RecordRan, MarkUndecided, Sweep, CloseUnrun
<1>4. CASE \E c \in Client : ClientStep(c)
  BY <1>4 DEF ClientStep, Sign, PostAnswer, ApplyAnswer, PostRuling, ApplyRuling,
       JudgeRefused, KeepRefused, ClientStops, NotClients
<1>5. ASSUME NEW g \in Hook, HookStep(g)
      PROVE  \/ hook'[h] = hook[h]
             \/ /\ UNCHANGED <<row, authority>>
                /\ Reads(h) \/ Replays(h) \/ Verifies(h)
  <2>1. ASSUME NEW state, Step(g, state), state.pc \notin {"read", "replayed", "decided"}
        PROVE  hook'[h] = hook[h]
    BY <1>0, <2>1 DEF Step
  <2>2. ASSUME NEW r \in Request, NEW gate \in BOOLEAN, ReadRow(g, r, gate)
        PROVE  \/ hook'[h] = hook[h]
               \/ UNCHANGED <<row, authority>> /\ Reads(h)
    BY <1>0, <2>2 DEF ReadRow, Step, NotHooks, Reads
  <2>3. ASSUME Replay(g)
        PROVE  \/ hook'[h] = hook[h]
               \/ UNCHANGED <<row, authority>> /\ Replays(h)
    BY <1>0, <2>3 DEF Replay, Step, NotHooks, Replays
  <2>4. ASSUME Verify(g)
        PROVE  \/ hook'[h] = hook[h]
               \/ UNCHANGED <<row, authority>> /\ Verifies(h)
    <3>1. CASE Step(g, Idle)
      BY <2>1, <3>1 DEF Idle
    <3>2. CASE ~Step(g, Idle)
      BY <1>0, <2>4, <3>2 DEF Verify, Step, NotHooks, Verifies
    <3> QED BY <3>1, <3>2
  <2>5. CASE Pick(g)
    <3>1. CASE Step(g, Idle)
      BY <2>1, <3>1 DEF Idle
    <3>2. CASE ~Step(g, Idle)
      BY <2>1, <2>5, <3>2 DEF Pick
    <3> QED BY <3>1, <3>2
  <2>6. CASE TakeRuled(g)
    BY <2>1, <2>6 DEF TakeRuled, Idle
  <2>7. GrantApply(g) \/ GateTake(g) \/ Deliver(g) \/ HookStops(g) => Step(g, Idle)
    BY DEF GrantApply, GateTake, Deliver, HookStops
  <2> QED
    BY <1>5, <2>1, <2>2, <2>3, <2>4, <2>5, <2>6, <2>7
    DEF HookStep, GrantRead, GateLook, BeginTake, Idle
<1> QED
  BY <1>1, <1>2, <1>3, <1>4, <1>5 DEF Next

LEMMA ReadSoundStep == TypeOK /\ ReadSound /\ [Next]_vars => ReadSound'
<1> SUFFICES ASSUME TypeOK, ReadSound, [Next]_vars, NEW h \in Hook,
                    hook'[h].pc \in {"read", "replayed", "decided"}
             PROVE  LET got == hook'[h].got
                    IN  /\ got.seen = row'[got.request]
                        /\ got.seen.state \in Decided
                        /\ hook'[h].pc = "decided" => got.seen.via \in {"signature", "grant"}
  BY DEF ReadSound
<1>1. CASE hook'[h] = hook[h]
  <2> DEFINE got == hook[h].got
  <2>1. /\ got.request \in Request
        /\ got.seen = row[got.request]
        /\ got.seen.state \in Decided
        /\ hook[h].pc = "decided" => got.seen.via \in {"signature", "grant"}
    BY <1>1, HookStates DEF ReadSound
  <2>2. row'[got.request] = row[got.request]
    BY <2>1, SettledStay DEF Terminal
  <2> QED
    BY <1>1, <2>1, <2>2
<1>2. CASE UNCHANGED row /\ Reads(h)
  BY <1>2 DEF Reads
<1>3. CASE UNCHANGED row /\ Replays(h)
  BY <1>3 DEF Replays, ReadSound
<1>4. CASE UNCHANGED row /\ Verifies(h)
  BY <1>4 DEF Verifies, ReadSound, Deliverable
<1> QED
  BY <1>1, <1>2, <1>3, <1>4, ReadingFrom

LEMMA ReadSoundHolds == Spec => []ReadSound
<1>1. Init => ReadSound
  BY DEF Init, ReadSound, Idle
<1> QED
  BY <1>1, ReadSoundStep, TypeCorrect, PTL DEF Spec

\* Only a hook that holds a decision adds to what was delivered.
LEMMA DeliveredOnly ==
  ASSUME [Next]_vars, NEW r \in delivered' \ delivered
  PROVE  \E h \in Hook : hook[h].pc = "decided" /\ r = hook[h].got.request
<1>1. CASE UNCHANGED vars
  BY <1>1 DEF vars
<1>2. CASE Clock \/ AuthorityLog
  BY <1>2 DEF Clock, AuthorityLog, Tick, StepBack, Enrol, Revoke, WriteGrant,
       RevokeGrant, Authority
<1>3. CASE Store
  BY <1>3 DEF Store, File, Get, Withdraw, Halt, RecordRan, MarkUndecided, Sweep, CloseUnrun
<1>4. CASE \E c \in Client : ClientStep(c)
  BY <1>4 DEF ClientStep, Sign, PostAnswer, ApplyAnswer, PostRuling, ApplyRuling,
       JudgeRefused, KeepRefused, ClientStops, NotClients
<1>5. CASE \E h \in Hook : HookStep(h)
  BY <1>5 DEF HookStep, GrantRead, GateLook, ReadRow, Replay, Verify, Deliver,
       BeginTake, GrantApply, Pick, TakeRuled, GateTake, HookStops
<1> QED
  BY <1>1, <1>2, <1>3, <1>4, <1>5 DEF Next

\* A delivered request was decided by an answer or a grant.
DeliveredAnswered ==
  \A r \in delivered : r \in Request /\ row[r].via \in {"signature", "grant"}

LEMMA DeliveredAnsweredStep ==
  TypeOK /\ DecidedBy /\ ReadSound /\ DeliveredAnswered /\ [Next]_vars
    => DeliveredAnswered'
<1> SUFFICES ASSUME TypeOK, DecidedBy, ReadSound, DeliveredAnswered, [Next]_vars,
                    NEW r \in delivered'
             PROVE  r \in Request /\ row'[r].via \in {"signature", "grant"}
  BY DEF DeliveredAnswered
<1>1. r \in Request /\ row[r].via \in {"signature", "grant"}
  <2>1. CASE r \in delivered
    BY <2>1 DEF DeliveredAnswered
  <2>2. ASSUME NEW h \in Hook, hook[h].pc = "decided", r = hook[h].got.request
        PROVE  r \in Request /\ row[r].via \in {"signature", "grant"}
    BY <2>2, HookStates DEF ReadSound
  <2> QED BY <2>1, <2>2, DeliveredOnly
<1>2. row[r].state \in Terminal
  BY <1>1 DEF DecidedBy, Terminal
<1> QED
  BY <1>1, <1>2, SettledStay

\* decision() and await_decision() never hand over a request that the hook has
\* reported undecided, not even once a ruling allowed it.
THEOREM UndecidedStaysUndelivered == Spec => []UndecidedNeverDelivered
<1>1. Init => DeliveredAnswered
  BY DEF Init, DeliveredAnswered
<1>2. DecidedBy /\ DeliveredAnswered => UndecidedNeverDelivered
  BY DEF DecidedBy, DeliveredAnswered, UndecidedNeverDelivered, Decided
<1> QED
  BY <1>1, <1>2, DeliveredAnsweredStep, DecidedByHolds, ReadSoundHolds, TypeCorrect, PTL
  DEF Spec

-----------------------------------------------------------------------------
(* Taking an allow.                                                        *)

\* take_ruled_allow() and take_gate_allow() add one row to ruled_takes, for a
\* request not taken yet; nothing else touches the table.
NewTake(h, r) ==
  /\ ~IsTaken(r)
  /\ takes' = takes \cup {[request |-> r, at |-> now, by |-> h]}
  /\ row[r].state = "allowed"
  /\ UNCHANGED row /\ UNCHANGED log
  /\ \/ /\ hook[h].pc = "picked"
        /\ r = hook[h].request
        /\ Newest(r)
        /\ ~Lapsed(r)
     \/ /\ row[r].via \in {"signature", "grant"}
        /\ now - row[r].decidedAt \in 0..(Reuse - 1)

LEMMA TakeSteps ==
  ASSUME TypeOK, [Next]_vars
  PROVE  takes' = takes \/ \E h \in Hook, r \in Request : NewTake(h, r)
<1>1. CASE UNCHANGED vars
  BY <1>1 DEF vars
<1>2. CASE Clock \/ AuthorityLog
  BY <1>2 DEF Clock, AuthorityLog, Tick, StepBack, Enrol, Revoke, WriteGrant,
       RevokeGrant, Authority
<1>3. CASE Store
  <2>1. \A r \in Request, at \in Time : File(r, at) => takes' = takes
    BY DEF File
  <2> QED
    BY <1>3, <2>1 DEF Store, Get, Withdraw, Halt, RecordRan, MarkUndecided, Sweep, CloseUnrun
<1>4. CASE \E c \in Client : ClientStep(c)
  BY <1>4 DEF ClientStep, Sign, PostAnswer, ApplyAnswer, PostRuling, ApplyRuling,
       JudgeRefused, KeepRefused, ClientStops, NotClients
<1>5. ASSUME NEW h \in Hook, HookStep(h)
      PROVE  takes' = takes \/ \E r \in Request : NewTake(h, r)
  <2>1. CASE TakeRuled(h)
    <3>1. hook[h].request \in Request
      BY <2>1, HookStates DEF TakeRuled
    <3> QED
      BY <2>1, <3>1 DEF TakeRuled, NewTake, StillPicked
  <2>2. CASE GateTake(h)
    <3>1. hook[h].got.request \in Request
      BY <2>2, HookStates DEF GateTake
    <3> QED
      BY <2>2, <3>1 DEF GateTake, NewTake, GateAllow
  <2>3. GrantApply(h) => takes' = takes
    BY DEF GrantApply
  <2> QED
    BY <1>5, <2>1, <2>2, <2>3 DEF HookStep, GrantRead, GateLook, ReadRow, Replay,
         Verify, Deliver, BeginTake, Pick, HookStops
<1> QED
  BY <1>1, <1>2, <1>3, <1>4, <1>5 DEF Next

\* However many hooks look at one allow at once, in either operation, one of
\* them takes it (ruled_takes' primary key, and the select that precedes the
\* insert under the same lock).
THEOREM OneTake == Spec => []TakenOnce
<1>1. Init => TakenOnce
  BY DEF Init, TakenOnce
<1>2. TypeOK /\ TakenOnce /\ [Next]_vars => TakenOnce'
  <2> SUFFICES ASSUME TypeOK, TakenOnce, [Next]_vars PROVE TakenOnce'
    OBVIOUS
  <2>1. CASE takes' = takes
    BY <2>1 DEF TakenOnce
  <2>2. ASSUME NEW h \in Hook, NEW r \in Request, NewTake(h, r) PROVE TakenOnce'
    BY <2>2 DEF TakenOnce, NewTake, IsTaken
  <2> QED
    BY <2>1, <2>2, TakeSteps
<1> QED
  BY <1>1, <1>2, TypeCorrect, PTL DEF Spec

\* What a hook holds between picking a ruled allow and taking it: the row is an
\* allow by a ruling, and it verified under the replay the hook made.
PickSound ==
  \A h \in Hook : hook[h].pc = "picked" =>
    LET r == hook[h].request
    IN  /\ r \in Request
        /\ row[r].via = "ruling"
        /\ row[r].state = "allowed"
        /\ row[r].answer.signer \in hook[h].active
        /\ <<row[r].answer.signer, r>> \in Covers

\* A hook is in "picked" because Pick put it there, or since before the step.
LEMMA PickedFrom ==
  ASSUME TypeOK, [Next]_vars, NEW h \in Hook, hook'[h].pc = "picked"
  PROVE  \/ hook'[h] = hook[h]
         \/ /\ UNCHANGED row
            /\ hook'[h].request \in Ruled(hook[h].call)
            /\ hook'[h].active = hook[h].active
            /\ Pickable(hook'[h].request, hook[h].active)
<1>0. hook \in [Hook -> HookState]
  BY DEF TypeOK
<1>1. CASE UNCHANGED vars
  BY <1>1 DEF vars
<1>2. CASE Clock \/ AuthorityLog
  BY <1>2 DEF Clock, AuthorityLog, Tick, StepBack, Enrol, Revoke, WriteGrant,
       RevokeGrant, Authority
<1>3. CASE Store
  <2>1. \A r \in Request, at \in Time : File(r, at) => hook' = hook
    BY DEF File
  <2> QED
    BY <1>3, <2>1 DEF Store, Get, Withdraw, Halt, RecordRan, MarkUndecided, Sweep, CloseUnrun
<1>4. CASE \E c \in Client : ClientStep(c)
  BY <1>4 DEF ClientStep, Sign, PostAnswer, ApplyAnswer, PostRuling, ApplyRuling,
       JudgeRefused, KeepRefused, ClientStops, NotClients
<1>5. ASSUME NEW g \in Hook, HookStep(g)
      PROVE  \/ hook'[h] = hook[h]
             \/ /\ UNCHANGED row
                /\ hook'[h].request \in Ruled(hook[h].call)
                /\ hook'[h].active = hook[h].active
                /\ Pickable(hook'[h].request, hook[h].active)
  <2>1. ASSUME NEW state, Step(g, state), state.pc # "picked" PROVE hook'[h] = hook[h]
    BY <1>0, <2>1 DEF Step
  <2>2. CASE Pick(g)
    <3>1. CASE Step(g, Idle)
      BY <2>1, <3>1 DEF Idle
    <3>2. ASSUME NEW r \in Ruled(hook[g].call), Pickable(r, hook[g].active),
                 Step(g, [pc |-> "picked", call |-> hook[g].call,
                          active |-> hook[g].active, tries |-> hook[g].tries,
                          request |-> r, seq |-> Seq(r)])
          PROVE  \/ hook'[h] = hook[h]
                 \/ /\ hook'[h].request \in Ruled(hook[h].call)
                    /\ hook'[h].active = hook[h].active
                    /\ Pickable(hook'[h].request, hook[h].active)
      BY <1>0, <3>2 DEF Step
    <3> QED BY <2>2, <3>1, <3>2 DEF Pick, log
  <2>3. CASE TakeRuled(g)
    BY <2>1, <2>3 DEF TakeRuled, Idle
  <2>4. GrantApply(g) => Step(g, Idle)
    BY DEF GrantApply
  <2>5. GateTake(g) => Step(g, Idle)
    BY DEF GateTake
  <2> QED
    BY <1>5, <2>1, <2>2, <2>3, <2>4, <2>5
    DEF HookStep, GrantRead, GateLook, ReadRow, Replay, Verify, Deliver, BeginTake,
         HookStops, Idle
<1> QED
  BY <1>1, <1>2, <1>3, <1>4, <1>5 DEF Next

LEMMA PickSoundStep == TypeOK /\ PickSound /\ [Next]_vars => PickSound'
<1> SUFFICES ASSUME TypeOK, PickSound, [Next]_vars, NEW h \in Hook, hook'[h].pc = "picked"
             PROVE  LET r == hook'[h].request
                    IN  /\ r \in Request
                        /\ row'[r].via = "ruling"
                        /\ row'[r].state = "allowed"
                        /\ row'[r].answer.signer \in hook'[h].active
                        /\ <<row'[r].answer.signer, r>> \in Covers
  BY DEF PickSound
<1>1. CASE hook'[h] = hook[h]
  <2> DEFINE r == hook[h].request
  <2>1. /\ r \in Request
        /\ row[r].via = "ruling" /\ row[r].state = "allowed"
        /\ row[r].answer.signer \in hook[h].active
        /\ <<row[r].answer.signer, r>> \in Covers
    BY <1>1 DEF PickSound
  <2>2. row'[r] = row[r]
    BY <2>1, SettledStay DEF Terminal, Decided
  <2> QED
    BY <1>1, <2>1, <2>2
<1>2. CASE /\ UNCHANGED row
           /\ hook'[h].request \in Ruled(hook[h].call)
           /\ hook'[h].active = hook[h].active
           /\ Pickable(hook'[h].request, hook[h].active)
  BY <1>2 DEF Ruled, Pickable, StoredVerifies, IsAuthority, StateOf, Decision
<1> QED
  BY <1>1, <1>2, PickedFrom

LEMMA PickSoundHolds == Spec => []PickSound
<1>1. Init => PickSound
  BY DEF Init, PickSound, Idle
<1> QED
  BY <1>1, PickSoundStep, TypeCorrect, PTL DEF Spec

\* A take is recorded only within the window of the allow it uses: RULED_ALLOW_LAPSE
\* by both clocks for a ruling, GATE_ALLOW_REUSE for a gate's answer or grant.
THEOREM NoStaleTake == Spec => []TakesFresh
<1>1. Init => TakesFresh
  BY DEF Init, TakesFresh
<1>2. TypeOK /\ PickSound /\ TakesFresh /\ [Next]_vars => TakesFresh'
  <2> DEFINE Fresh(t, x) ==
               /\ x.state = "allowed"
               /\ IF x.via = "ruling"
                    THEN /\ t.at < x.decidedAt + Lapse
                         /\ x.decidedAt < x.answer.signedAt + Lapse
                    ELSE t.at - x.decidedAt \in 0..(Reuse - 1)
  <2> SUFFICES ASSUME TypeOK, PickSound, TakesFresh, [Next]_vars, NEW t \in takes'
               PROVE  Fresh(t, row'[t.request])
    BY DEF TakesFresh
  <2>1. CASE t \in takes
    <3>1. t.request \in Request /\ Fresh(t, row[t.request])
      BY <2>1 DEF TakesFresh, TypeOK, Take
    <3>2. row'[t.request] = row[t.request]
      BY <3>1, SettledStay DEF Terminal, Decided
    <3> HIDE DEF Fresh
    <3> QED BY <3>1, <3>2
  <2>2. ASSUME NEW h \in Hook, NEW r \in Request, NewTake(h, r),
               t = [request |-> r, at |-> now, by |-> h]
        PROVE  Fresh(t, row'[t.request])
    <3>1. row' = row /\ row[r].state = "allowed" /\ row[r] \in Row /\ now \in Nat
      BY <2>2, BoundAssumption DEF NewTake, TypeOK, Time
    <3>2. CASE hook[h].pc = "picked" /\ r = hook[h].request /\ ~Lapsed(r)
      <4>1. row[r].via = "ruling"
        BY <3>2 DEF PickSound
      <4> QED
        BY <2>2, <3>1, <3>2, <4>1, BoundAssumption DEF Lapsed, Row, Answer
    <3>3. CASE /\ row[r].via \in {"signature", "grant"}
               /\ now - row[r].decidedAt \in 0..(Reuse - 1)
      BY <2>2, <3>1, <3>3
    <3> QED BY <2>2, <3>2, <3>3 DEF NewTake
  <2> QED
    BY <2>1, <2>2, TakeSteps DEF NewTake
<1> QED
  BY <1>1, <1>2, PickSoundHolds, TypeCorrect, PTL DEF Spec

\* take_ruled_allow() never uses a ruling whose signer the replay it made for
\* this call does not hold active, whatever was enrolled when it was signed.
THEOREM TakeVerified == Spec => TakesVerified
<1>1. TypeOK /\ PickSound /\ [Next]_vars =>
        [\A t \in takes' \ takes :
           row[t.request].via = "ruling" =>
             LET signer == row[t.request].answer.signer
             IN  /\ hook[t.by].pc = "picked"
                 /\ signer \in hook[t.by].active
                 /\ <<signer, t.request>> \in Covers]_takes
  <2> SUFFICES ASSUME TypeOK, PickSound, [Next]_vars, NEW t \in takes' \ takes,
                      row[t.request].via = "ruling"
               PROVE  /\ hook[t.by].pc = "picked"
                      /\ row[t.request].answer.signer \in hook[t.by].active
                      /\ <<row[t.request].answer.signer, t.request>> \in Covers
    OBVIOUS
  <2>1. PICK h \in Hook, r \in Request : NewTake(h, r)
    BY TakeSteps
  <2>2. t.request = r /\ t.by = h
    BY <2>1 DEF NewTake
  <2>3. hook[h].pc = "picked" /\ r = hook[h].request
    BY <2>1, <2>2 DEF NewTake
  <2> QED
    BY <2>2, <2>3 DEF PickSound
<1> QED
  BY <1>1, PickSoundHolds, TypeCorrect, PTL DEF Spec, TakesVerified

-----------------------------------------------------------------------------
(* Gaps.                                                                   *)

\* Only mark_undecided() gives a request a gap, the session's next one.
LEMMA GapSteps ==
  ASSUME [Next]_vars
  PROVE  \/ gap' = gap
         \/ \E r \in Request, g \in Nat :
              /\ row[r].state = "pending"
              /\ NextGap(r, g)
              /\ gap' = [gap EXCEPT ![r] = g]
<1>1. CASE UNCHANGED vars
  BY <1>1 DEF vars, sessions
<1>2. CASE Clock \/ AuthorityLog
  BY <1>2 DEF Clock, AuthorityLog, Tick, StepBack, Enrol, Revoke, WriteGrant,
       RevokeGrant, Authority, sessions
<1>3. CASE Store
  <2>1. \A r \in Request, at \in Time : File(r, at) => gap' = gap
    BY DEF File, sessions
  <2>2. ASSUME NEW r \in Request, NEW halt \in BOOLEAN, MarkUndecided(r, halt)
        PROVE  \/ gap' = gap
               \/ \E q \in Request, g \in Nat :
                    /\ row[q].state = "pending"
                    /\ NextGap(q, g)
                    /\ gap' = [gap EXCEPT ![q] = g]
    <3>1. 1..Cardinality(Request) \subseteq Nat
      BY BoundAssumption, FS_CardinalityType
    <3> QED
      BY <2>2, <3>1 DEF MarkUndecided
  <2> QED
    BY <1>3, <2>1, <2>2 DEF Store, Get, Withdraw, Halt, RecordRan, Sweep, CloseUnrun, sessions
<1>4. CASE \E c \in Client : ClientStep(c)
  BY <1>4 DEF ClientStep, Sign, PostAnswer, ApplyAnswer, PostRuling, ApplyRuling,
       JudgeRefused, KeepRefused, ClientStops, NotClients, sessions
<1>5. CASE \E h \in Hook : HookStep(h)
  <2>1. \A h \in Hook : GrantApply(h) => gap' = gap
    BY DEF GrantApply, NotHooks, sessions
  <2> QED
    BY <1>5, <2>1 DEF HookStep, GrantRead, GateLook, ReadRow, Replay, Verify,
         Deliver, BeginTake, Pick, TakeRuled, GateTake, HookStops, NotHooks,
         sessions
<1> QED
  BY <1>1, <1>2, <1>3, <1>4, <1>5 DEF Next

\* The gaps of a session are numbered without holes.
Gapped(s, f) == {r \in Request : SessionOf[r] = s /\ f[r] # 0}
Numbered(s, f) == {f[r] : r \in Gapped(s, f)} = 1..Cardinality(Gapped(s, f))

\* Adding the next number keeps them so.
LEMMA NextGapNumbered ==
  ASSUME TypeOK, NEW r \in Request, gap[r] = 0, NEW g \in Nat, NextGap(r, g),
         Numbered(SessionOf[r], gap)
  PROVE  Numbered(SessionOf[r], [gap EXCEPT ![r] = g])
<1> DEFINE s == SessionOf[r]
           G == Gapped(s, gap)
           n == Cardinality(G)
           f == [gap EXCEPT ![r] = g]
<1>0. gap \in [Request -> Nat]
  BY DEF TypeOK
<1>1. IsFiniteSet(G) /\ n \in Nat
  BY BoundAssumption, FS_Subset, FS_CardinalityType DEF Gapped
<1>2. /\ \A q \in Request : SessionOf[q] = s => gap[q] < g
      /\ g - 1 = 0 \/ \E q \in Request : SessionOf[q] = s /\ gap[q] = g - 1
  BY DEF NextGap
<1>3. {gap[q] : q \in G} = 1..n
  BY DEF Numbered
<1>4. g = n + 1
  <2>1. g > n
    <3>1. CASE n = 0
      BY <1>0, <1>2, <3>1
    <3>2. CASE n # 0
      <4>1. n \in 1..n
        BY <1>1, <3>2
      <4>2. PICK q \in G : gap[q] = n
        BY <1>3, <4>1
      <4> QED BY <1>2, <4>2 DEF Gapped
    <3> QED BY <3>1, <3>2
  <2>2. g - 1 <= n
    <3>1. CASE g - 1 = 0
      BY <1>1, <3>1
    <3>2. ASSUME NEW q \in Request, SessionOf[q] = s, gap[q] = g - 1, g - 1 # 0
          PROVE  g - 1 <= n
      <4>1. q \in G
        BY <3>2 DEF Gapped
      <4>2. g - 1 \in 1..n
        BY <1>3, <3>2, <4>1
      <4> QED BY <1>1, <4>2
    <3> QED BY <1>2, <3>1, <3>2
  <2> QED BY <1>1, <2>1, <2>2
<1>5. g # 0 /\ r \notin G
  BY <1>1, <1>4 DEF Gapped
<1>6. Gapped(s, f) = G \cup {r}
  BY <1>0, <1>5 DEF Gapped
<1>7. Cardinality(Gapped(s, f)) = n + 1
  BY <1>1, <1>5, <1>6, FS_AddElement
<1>8. {f[q] : q \in Gapped(s, f)} = {gap[q] : q \in G} \cup {g}
  <2>1. f[r] = g /\ \A q \in G : f[q] = gap[q]
    BY <1>0, <1>5 DEF Gapped
  <2>2. {f[q] : q \in G \cup {r}} = {gap[q] : q \in G} \cup {g}
    <3> HIDE DEF f, G
    <3> QED BY <2>1
  <2> QED BY <1>6, <2>2
<1>9. {f[q] : q \in Gapped(s, f)} = 1..(n + 1)
  <2>1. 1..(n + 1) = 1..n \cup {n + 1}
    <3> HIDE DEF n
    <3> QED BY <1>1
  <2> QED BY <1>3, <1>4, <1>8, <2>1, Zenon
<1> QED
  BY <1>7, <1>9 DEF Numbered

\* A session's gaps are 1, 2, 3, ... in the order they opened, each on a
\* request that went undecided (mark_undecided's MAX(gap) + 1 under the lock).
THEOREM GapsNumbered == Spec => []GapsDense
<1> DEFINE Dense == \A s \in Session : Numbered(s, gap)
<1>1. Init => Dense
  <2> SUFFICES ASSUME Init, NEW s \in Session PROVE Numbered(s, gap)
    OBVIOUS
  <2>1. Gapped(s, gap) = {}
    BY DEF Init, Gapped
  <2> QED
    BY <2>1, FS_EmptySet DEF Numbered
<1>2. TypeOK /\ DecidedBy /\ Dense /\ [Next]_vars => Dense'
  <2> SUFFICES ASSUME TypeOK, DecidedBy, Dense, [Next]_vars, NEW s \in Session
               PROVE  Numbered(s, gap')
    BY DEF Numbered, Gapped
  <2>1. CASE gap' = gap
    BY <2>1
  <2>2. ASSUME NEW r \in Request, NEW g \in Nat, row[r].state = "pending",
               NextGap(r, g), gap' = [gap EXCEPT ![r] = g]
        PROVE  Numbered(s, gap')
    <3>1. gap[r] = 0
      BY <2>2 DEF DecidedBy, Decided
    <3>2. CASE SessionOf[r] = s
      BY <2>2, <3>1, <3>2, NextGapNumbered
    <3>3. CASE SessionOf[r] # s
      <4>1. Gapped(s, gap') = Gapped(s, gap)
        BY <2>2, <3>3 DEF Gapped, TypeOK
      <4>2. \A q \in Gapped(s, gap) : gap'[q] = gap[q]
        BY <2>2, <3>3 DEF Gapped, TypeOK
      <4>3. Numbered(s, gap)
        OBVIOUS
      <4>4. {gap'[q] : q \in Gapped(s, gap)} = {gap[q] : q \in Gapped(s, gap)}
        BY <4>2
      <4> QED BY <4>1, <4>3, <4>4 DEF Numbered
    <3> QED BY <3>2, <3>3
  <2> QED
    BY <2>1, <2>2, GapSteps
<1>3. DecidedBy /\ Dense => GapsDense
  BY DEF DecidedBy, GapsDense, Numbered, Gapped
<1> QED
  BY <1>1, <1>2, <1>3, DecidedByHolds, TypeCorrect, PTL DEF Spec

-----------------------------------------------------------------------------
(* Evidence of refused answers.                                            *)

\* _record_refused() is the only writer of refused_answers; it adds one row,
\* under the cap and the primary key it finds under its lock.
NewEvidence(e) ==
  /\ refused' = refused \cup {e}
  /\ e \in Kept
  /\ ~Full(e.request, e.enrolled)
  /\ ~\E f \in refused : /\ f.request = e.request
                         /\ f.signer = e.signer
                         /\ f.decision = e.decision

LEMMA RefusedSteps ==
  ASSUME TypeOK, [Next]_vars
  PROVE  refused' = refused \/ \E e \in Kept : NewEvidence(e)
<1>1. CASE UNCHANGED vars
  BY <1>1 DEF vars
<1>2. CASE Clock \/ AuthorityLog
  BY <1>2 DEF Clock, AuthorityLog, Tick, StepBack, Enrol, Revoke, WriteGrant,
       RevokeGrant, Authority
<1>3. CASE Store
  <2>1. \A r \in Request, at \in Time : File(r, at) => refused' = refused
    BY DEF File
  <2> QED
    BY <1>3, <2>1 DEF Store, Get, Withdraw, Halt, RecordRan, MarkUndecided, Sweep, CloseUnrun
<1>4. ASSUME NEW c \in Client, ClientStep(c)
      PROVE  refused' = refused \/ \E e \in Kept : NewEvidence(e)
  <2>1. CASE KeepRefused(c)
    <3> DEFINE rec  == client[c].rec
               kept == [request |-> rec.request, decision |-> rec.decision,
                        signer |-> rec.signer, reason |-> client[c].reason,
                        enrolled |-> client[c].enrolled]
    <3>1. client[c] \in ClientState /\ client[c].pc = "refused"
      BY <2>1 DEF KeepRefused, TypeOK
    <3>2. kept \in Kept
      BY <3>1 DEF ClientState, Idle, Record, Kept
    <3> QED
      BY <2>1, <3>2 DEF KeepRefused, NewEvidence
  <2> QED
    BY <1>4, <2>1 DEF ClientStep, Sign, PostAnswer, ApplyAnswer, PostRuling, ApplyRuling,
         JudgeRefused, ClientStops
<1>5. CASE \E h \in Hook : HookStep(h)
  <2>1. \A h \in Hook : GrantApply(h) => refused' = refused
    BY DEF GrantApply, NotHooks
  <2> QED
    BY <1>5, <2>1 DEF HookStep, GrantRead, GateLook, ReadRow, Replay, Verify,
         Deliver, BeginTake, Pick, TakeRuled, GateTake, HookStops, NotHooks
<1> QED
  BY <1>1, <1>2, <1>3, <1>4, <1>5 DEF Next

\* The evidence of one request and class of key.
EvidenceOf(r, enrolled) == {e \in refused : e.request = r /\ e.enrolled = enrolled}
Cap(enrolled) == IF enrolled THEN KeptEnrolled ELSE KeptOthers

\* Signers of refused answers cannot fill the queue: the caps of refused_answers
\* hold however many refusals race to be kept, for keys that are enrolled and,
\* apart from them, for keys that are not.
THEOREM EvidenceCapped == Spec => []EvidenceBounded
<1> DEFINE Within == \A r \in Request, enrolled \in BOOLEAN :
                       /\ IsFiniteSet(EvidenceOf(r, enrolled))
                       /\ Cardinality(EvidenceOf(r, enrolled)) <= Cap(enrolled)
           Once   == \A e, f \in refused :
                       e.request = f.request /\ e.signer = f.signer /\ e.decision = f.decision
                         => e = f
<1>0. \A enrolled \in BOOLEAN : Cap(enrolled) \in Nat
  BY BoundAssumption DEF Cap
<1>1. Init => Within /\ Once
  <2> SUFFICES ASSUME Init PROVE Within /\ Once
    OBVIOUS
  <2>1. \A r \in Request, enrolled \in BOOLEAN : EvidenceOf(r, enrolled) = {}
    BY DEF Init, EvidenceOf
  <2>2. Within
    BY <1>0, <2>1, FS_EmptySet
  <2>3. Once
    BY DEF Init
  <2> QED BY <2>2, <2>3
<1>2. TypeOK /\ Within /\ Once /\ [Next]_vars => Within' /\ Once'
  <2> SUFFICES ASSUME TypeOK, Within, Once, [Next]_vars PROVE Within' /\ Once'
    OBVIOUS
  <2>1. CASE refused' = refused
    BY <2>1 DEF EvidenceOf
  <2>2. ASSUME NEW e \in Kept, NewEvidence(e) PROVE Within' /\ Once'
    <3>1. ASSUME NEW r \in Request, NEW enrolled \in BOOLEAN
          PROVE  /\ IsFiniteSet(EvidenceOf(r, enrolled)')
                 /\ Cardinality(EvidenceOf(r, enrolled)') <= Cap(enrolled)
      <4> DEFINE E == EvidenceOf(r, enrolled)
      <4>1. IsFiniteSet(E) /\ Cardinality(E) <= Cap(enrolled) /\ Cardinality(E) \in Nat
        BY FS_CardinalityType
      <4>2. CASE e.request = r /\ e.enrolled = enrolled
        <5>1. E' = E \cup {e}
          BY <2>2, <4>2 DEF NewEvidence, EvidenceOf
        <5>2. Cardinality(E) < Cap(enrolled)
          <6>1. ~(Cardinality(E) >= Cap(enrolled))
            BY <2>2, <4>2 DEF NewEvidence, Full, EvidenceOf, Cap
          <6> HIDE DEF E
          <6> QED BY <1>0, <4>1, <6>1
        <5>3. /\ IsFiniteSet(E \cup {e})
              /\ \/ Cardinality(E \cup {e}) = Cardinality(E)
                 \/ Cardinality(E \cup {e}) = Cardinality(E) + 1
          BY <4>1, FS_AddElement
        <5>4. Cardinality(E \cup {e}) <= Cap(enrolled)
          <6> HIDE DEF E
          <6> QED BY <1>0, <4>1, <5>2, <5>3
        <5> QED BY <5>1, <5>3, <5>4
      <4>3. CASE ~(e.request = r /\ e.enrolled = enrolled)
        <5>1. E' = E
          BY <2>2, <4>3 DEF NewEvidence, EvidenceOf
        <5> QED BY <4>1, <5>1
      <4> QED BY <4>2, <4>3
    <3>2. Once'
      BY <2>2 DEF NewEvidence
    <3> QED
      BY <3>1, <3>2 DEF Cap
  <2> QED
    BY <2>1, <2>2, RefusedSteps
<1>3. TypeOK /\ Within /\ Once => EvidenceBounded
  <2> SUFFICES ASSUME TypeOK, Within, NEW r \in Request
               PROVE  /\ Cardinality({e \in refused : e.request = r /\ e.enrolled}) <= KeptEnrolled
                      /\ Cardinality({e \in refused : e.request = r /\ ~e.enrolled}) <= KeptOthers
    BY DEF EvidenceBounded
  <2>1. \A e \in refused : e.enrolled \in BOOLEAN
    BY DEF TypeOK, Kept
  <2>2. /\ {e \in refused : e.request = r /\ e.enrolled} = EvidenceOf(r, TRUE)
        /\ {e \in refused : e.request = r /\ ~e.enrolled} = EvidenceOf(r, FALSE)
    BY <2>1 DEF EvidenceOf
  <2>3. /\ Cardinality(EvidenceOf(r, TRUE)) <= KeptEnrolled
        /\ Cardinality(EvidenceOf(r, FALSE)) <= KeptOthers
    BY DEF Cap
  <2> QED
    BY <2>2, <2>3
<1> QED
  BY <1>1, <1>2, <1>3, TypeCorrect, PTL DEF Spec

-----------------------------------------------------------------------------
(* The log of the moves.                                                   *)

\* A transition, with what its operation asked of the row.
LogMove(r, s, v, a) ==
  /\ Transition(r, s, v, a)
  /\ UNCHANGED takes
  /\ \/ /\ row[r].state = "pending" /\ v # "ruling"
        /\ v # "none" => ~HoldOver(r)
     \/ row[r].state = "undecided" /\ v = "ruling" /\ s \in Decided

AMove == \E r \in Request, s \in Moved, v \in {"none", "signature", "grant", "ruling"}, a \in Answer :
           LogMove(r, s, v, a)

\* Nothing is logged, and no row moves but for a request that is filed.
NoMove ==
  /\ UNCHANGED log
  /\ \A r \in Request :
       \/ row'[r] = row[r]
       \/ row[r].state = "unfiled" /\ row'[r].state = "pending" /\ row'[r].via = "none"

LEMMA ExpireMove ==
  ASSUME NEW r \in Request, Expires(r), Expire(r), UNCHANGED takes
  PROVE  AMove
<1>1. LogMove(r, "expired", "none", NoAnswer)
  BY DEF Expire, Expires, LogMove
<1> QED
  BY <1>1, NoAnswerType DEF AMove, Moved, Terminal

\* Every step moves a row by a transition, sweeps, or logs nothing.
LEMMA LogSteps ==
  ASSUME TypeOK, [Next]_vars
  PROVE  AMove \/ (Sweep /\ UNCHANGED takes) \/ NoMove
<1> DEFINE Goal == AMove \/ (Sweep /\ UNCHANGED takes) \/ NoMove
<1>0. /\ {"withdrawn", "undecided", "allowed", "denied"} \subseteq Moved
      /\ NoAnswer \in Answer
  BY NoAnswerType DEF Moved, Terminal, Decided
<1>1. ASSUME row' = row, UNCHANGED log PROVE Goal
  BY <1>1 DEF NoMove
<1>2. ASSUME NEW q \in Request, NEW at \in Time, File(q, at) PROVE Goal
  <2>1. NoMove
    BY <1>2 DEF File, NoMove, TypeOK, Unfiled
  <2> QED BY <2>1
<1>3. ASSUME NEW q \in Request, Get(q) PROVE Goal
  BY <1>3, ExpireMove DEF Get
<1>4. ASSUME NEW q \in Request, Withdraw(q) PROVE Goal
  <2>1. CASE ExpiryDue(q)
    BY <1>4, <2>1, ExpireMove DEF Withdraw, Expires
  <2>2. CASE ~ExpiryDue(q)
    <3>1. LogMove(q, "withdrawn", "none", NoAnswer)
      BY <1>4, <2>2 DEF Withdraw, LogMove
    <3> QED BY <1>0, <3>1 DEF AMove
  <2> QED BY <2>1, <2>2
<1>5. ASSUME NEW q \in Request, RecordRan(q) PROVE Goal
  <2>1. CASE row[q].state = "pending"
    <3>1. LogMove(q, "withdrawn", "none", NoAnswer)
      BY <1>5, <2>1 DEF RecordRan, LogMove
    <3> QED BY <1>0, <3>1 DEF AMove
  <2>2. CASE row[q].state # "pending"
    BY <1>1, <1>5, <2>2 DEF RecordRan
  <2> QED BY <2>1, <2>2
<1>6. ASSUME NEW q \in Request, NEW halt \in BOOLEAN, MarkUndecided(q, halt) PROVE Goal
  <2>1. CASE UNCHANGED <<row, log, gap>>
    BY <1>1, <2>1
  <2>2. CASE row[q].state = "pending" /\ Transition(q, "undecided", "none", NoAnswer)
    <3>1. LogMove(q, "undecided", "none", NoAnswer)
      BY <1>6, <2>2 DEF MarkUndecided, LogMove
    <3> QED BY <1>0, <3>1 DEF AMove
  <2> QED BY <1>6, <2>1, <2>2 DEF MarkUndecided
<1>7. CASE Sweep
  BY <1>7 DEF Sweep
<1>9. ASSUME NEW c \in Client, PostAnswer(c) PROVE Goal
  <2>1. client[c].rec.request \in Request
    BY <1>9, ClientRecord DEF PostAnswer, Record
  <2> QED
    BY <1>1, <1>9, <2>1, ExpireMove DEF PostAnswer, NotClients
<1>10. ASSUME NEW c \in Client, ApplyAnswer(c) PROVE Goal
  <2> DEFINE rec == client[c].rec
             a == [signer |-> rec.signer, signedAt |-> rec.signedAt, link |-> 0]
  <2>1. rec \in Record /\ rec.request \in Request
    BY <1>10, ClientRecord DEF ApplyAnswer, Record
  <2>2. CASE Answerable(rec.request)
    <3>1. Transition(rec.request, StateOf[rec.decision], "signature", a) /\ UNCHANGED takes
      BY <1>10, <2>2 DEF ApplyAnswer, NotClients
    <3>2. row[rec.request].state = "pending" /\ ~HoldOver(rec.request)
      BY <2>2 DEF Answerable
    <3>3. StateOf[rec.decision] \in Moved /\ a \in Answer
      BY <2>1, SignedType DEF Moved, Terminal
    <3> HIDE DEF rec, a
    <3>4. LogMove(rec.request, StateOf[rec.decision], "signature", a)
      BY <3>1, <3>2 DEF LogMove
    <3> QED BY <2>1, <3>3, <3>4 DEF AMove
  <2>3. CASE ~Answerable(rec.request)
    BY <1>1, <1>10, <2>1, <2>3, ExpireMove DEF ApplyAnswer, NotClients
  <2> QED BY <2>2, <2>3
<1>11. ASSUME NEW c \in Client, ApplyRuling(c) PROVE Goal
  <2> DEFINE rec == client[c].rec
             a == [signer |-> rec.signer, signedAt |-> rec.signedAt, link |-> 0]
  <2>1. rec \in Record /\ rec.request \in Request
    BY <1>11, ClientRecord DEF ApplyRuling, Record
  <2>2. CASE row[rec.request].state = "undecided" /\ rec.signedAt <= now + Skew
    <3>1. Transition(rec.request, StateOf[rec.decision], "ruling", a) /\ UNCHANGED takes
      BY <1>11, <2>2 DEF ApplyRuling
    <3>3. StateOf[rec.decision] \in Decided \cap Moved /\ a \in Answer
      BY <2>1, SignedType DEF Moved, Terminal
    <3> HIDE DEF rec, a
    <3>4. LogMove(rec.request, StateOf[rec.decision], "ruling", a)
      BY <2>2, <3>1, <3>3 DEF LogMove
    <3> QED BY <2>1, <3>3, <3>4 DEF AMove
  <2>3. CASE ~(row[rec.request].state = "undecided" /\ rec.signedAt <= now + Skew)
    BY <1>1, <1>11, <2>3 DEF ApplyRuling
  <2> QED BY <2>2, <2>3
<1>12. ASSUME NEW h \in Hook, GrantApply(h) PROVE Goal
  <2> DEFINE q == hook[h].request
             a == [NoAnswer EXCEPT !.link = hook[h].link]
  <2>1. q \in Request /\ a \in Answer
    BY <1>12 DEF GrantApply, HookState, Idle, NoAnswer, Answer, TypeOK
  <2>2. CASE Answerable(q) /\ q \in Grantable /\ now < GrantUntil
    <3>1. Transition(q, "allowed", "grant", a) /\ UNCHANGED takes
      BY <1>12, <2>2 DEF GrantApply
    <3>2. row[q].state = "pending" /\ ~HoldOver(q)
      BY <2>2 DEF Answerable
    <3> HIDE DEF q, a
    <3>3. LogMove(q, "allowed", "grant", a)
      BY <3>1, <3>2 DEF LogMove
    <3> QED BY <1>0, <2>1, <3>3 DEF AMove
  <2>3. CASE ~(Answerable(q) /\ q \in Grantable /\ now < GrantUntil)
    BY <1>1, <1>12, <2>1, <2>3, ExpireMove DEF GrantApply
  <2> QED BY <2>2, <2>3
<1>13. CASE UNCHANGED vars
  BY <1>1, <1>13 DEF vars
<1>14. CASE Clock \/ AuthorityLog
  BY <1>1, <1>14 DEF Clock, AuthorityLog, Tick, StepBack, Enrol, Revoke,
       WriteGrant, RevokeGrant, Authority
<1>15. CASE Store
  <2>1. ASSUME NEW r \in Request, Halt(r) PROVE Goal
    BY <1>1, <2>1 DEF Halt
  <2>2. ASSUME NEW s \in Reporting, CloseUnrun(s) PROVE Goal
    BY <1>1, <2>2 DEF CloseUnrun
  <2>3. CASE \E r \in Request, at \in Time : File(r, at)
    BY <1>2, <2>3
  <2>4. CASE \E r \in Request : Get(r) \/ Withdraw(r) \/ Halt(r) \/ RecordRan(r)
    BY <1>3, <1>4, <1>5, <2>1, <2>4
  <2>5. CASE \E r \in Request, halt \in BOOLEAN : MarkUndecided(r, halt)
    BY <1>6, <2>5
  <2> QED
    BY <1>7, <1>15, <2>2, <2>3, <2>4, <2>5 DEF Store
<1>16. ASSUME NEW c \in Client, ClientStep(c) PROVE Goal
  <2>1. CASE UNCHANGED <<row, log, refused>> \/ UNCHANGED <<row, log>>
    BY <1>1, <2>1
  <2> HIDE DEF Goal
  <2> QED
    BY <1>9, <1>10, <1>11, <1>16, <2>1 DEF ClientStep, Sign, PostRuling, JudgeRefused,
         KeepRefused, ClientStops
<1>17. ASSUME NEW h \in Hook, HookStep(h) PROVE Goal
  <2>1. CASE UNCHANGED row /\ UNCHANGED log
    BY <1>1, <2>1
  <2> HIDE DEF Goal
  <2> QED
    BY <1>12, <1>17, <2>1 DEF HookStep, GrantRead, GateLook, ReadRow, Replay,
         Verify, Deliver, BeginTake, Pick, TakeRuled, GateTake, HookStops
<1> QED
  BY <1>13, <1>14, <1>15, <1>16, <1>17 DEF Next

-----------------------------------------------------------------------------
\* A row's receipts: that of its state, and that of the mark a ruling followed.
Logged ==
  \A r \in Request :
    /\ row[r].state \in Moved => Seq(r) # 0
    /\ \A s \in Moved :
         receipts[r][s] # 0 =>
           \/ row[r].state = s
           \/ s = "undecided" /\ row[r].via = "ruling" /\ receipts[r][s] < Seq(r)

\* The receipts are numbered 1, 2, 3, ... and no two alike.
Numbering ==
  /\ \A r \in Request, s \in Moved : receipts[r][s] <= lastSeq
  /\ \A n \in 1..lastSeq : \E r \in Request, s \in Moved : receipts[r][s] = n
  /\ \A r, q \in Request, s, t \in Moved :
       receipts[r][s] = receipts[q][t] /\ receipts[r][s] # 0 => r = q /\ s = t

\* The next numbers, one for each request of D that moves to `to'.
Adds(D, to, num, n) ==
  /\ D \subseteq Request /\ to \in [D -> Moved] /\ n \in Nat /\ num \in [D -> 1..n]
  /\ \A i \in 1..n : \E r \in D : num[r] = i
  /\ \A p, q \in D : num[p] = num[q] => p = q
  /\ \A r \in D : receipts[r][to[r]] = 0
  /\ \A r \in Request, s \in Moved :
       receipts'[r][s] = IF r \in D /\ s = to[r] THEN lastSeq + num[r] ELSE receipts[r][s]
  /\ lastSeq' = lastSeq + n

LEMMA StillNumbered ==
  ASSUME TypeOK, Numbering, NEW D, NEW to, NEW num, NEW n, Adds(D, to, num, n)
  PROVE  Numbering'
<1>1. /\ lastSeq \in Nat /\ n \in Nat /\ lastSeq' = lastSeq + n
      /\ \A r \in Request, s \in Moved : receipts[r][s] \in Nat /\ receipts[r][s] <= lastSeq
      /\ \A r \in D : num[r] \in 1..n
  BY DEF TypeOK, Numbering, Adds
<1>2. \A r \in Request, s \in Moved :
        \/ r \in D /\ s = to[r] /\ receipts'[r][s] = lastSeq + num[r]
        \/ ~(r \in D /\ s = to[r]) /\ receipts'[r][s] = receipts[r][s]
  BY DEF Adds
<1>3. \A r \in Request, s \in Moved : receipts'[r][s] <= lastSeq'
  BY <1>1, <1>2
<1>4. ASSUME NEW i \in 1..lastSeq' PROVE \E r \in Request, s \in Moved : receipts'[r][s] = i
  <2>1. CASE i <= lastSeq
    <3>1. i \in 1..lastSeq
      BY <1>1, <2>1
    <3>2. PICK r \in Request, s \in Moved : receipts[r][s] = i
      BY <3>1 DEF Numbering
    <3>3. i # 0
      BY <3>1
    <3>4. ~(r \in D /\ s = to[r])
      BY <3>2, <3>3 DEF Adds
    <3> QED BY <1>2, <3>2, <3>4
  <2>2. CASE ~(i <= lastSeq)
    <3>1. i - lastSeq \in 1..n /\ lastSeq + (i - lastSeq) = i
      BY <1>1, <2>2
    <3>2. PICK r \in D : num[r] = i - lastSeq
      BY <3>1 DEF Adds
    <3>3. r \in Request /\ to[r] \in Moved /\ receipts'[r][to[r]] = lastSeq + num[r]
      BY <3>2 DEF Adds
    <3> QED BY <3>1, <3>2, <3>3
  <2> QED BY <2>1, <2>2
<1>5. ASSUME NEW r \in Request, NEW q \in Request, NEW s \in Moved, NEW t \in Moved,
             receipts'[r][s] = receipts'[q][t], receipts'[r][s] # 0
      PROVE  r = q /\ s = t
  <2>1. CASE r \in D /\ s = to[r] /\ q \in D /\ t = to[q]
    <3>1. PICK m \in Nat, i \in Nat, j \in Nat :
            m = lastSeq /\ i = num[r] /\ j = num[q] /\ m + i = m + j
      BY <1>1, <1>2, <1>5, <2>1
    <3>2. i = j
      <4>1. m + i = m + j
        BY <3>1
      <4> QED BY <3>1, <4>1
    <3> QED BY <2>1, <3>1, <3>2 DEF Adds
  <2>2. CASE r \in D /\ s = to[r] /\ ~(q \in D /\ t = to[q])
    <3>1. num[r] >= 1 /\ num[r] \in Nat /\ lastSeq + num[r] = receipts[q][t]
          /\ receipts[q][t] <= lastSeq /\ receipts[q][t] \in Nat
      BY <1>1, <1>2, <1>5, <2>2
    <3> QED BY <1>1, <3>1
  <2>3. CASE ~(r \in D /\ s = to[r]) /\ q \in D /\ t = to[q]
    <3>1. num[q] >= 1 /\ num[q] \in Nat /\ lastSeq + num[q] = receipts[r][s]
          /\ receipts[r][s] <= lastSeq /\ receipts[r][s] \in Nat
      BY <1>1, <1>2, <1>5, <2>3
    <3> QED BY <1>1, <3>1
  <2>4. CASE ~(r \in D /\ s = to[r]) /\ ~(q \in D /\ t = to[q])
    <3>1. receipts'[r][s] = receipts[r][s] /\ receipts'[q][t] = receipts[q][t]
      BY <1>2, <2>4
    <3>2. receipts[r][s] = receipts[q][t] /\ receipts[r][s] # 0
      BY <1>5, <3>1
    <3> QED BY <3>2 DEF Numbering
  <2> QED BY <2>1, <2>2, <2>3, <2>4
<1> QED
  BY <1>3, <1>4, <1>5 DEF Numbering

\* What a transition does to the log.
LEMMA MoveLogs ==
  ASSUME TypeOK, DecidedBy, Logged, NEW r \in Request, NEW s \in Moved,
         NEW v \in {"none", "signature", "grant", "ruling"}, NEW a \in Answer, LogMove(r, s, v, a)
  PROVE  /\ receipts[r][s] = 0
         /\ receipts'[r][s] = lastSeq + 1
         /\ \A q \in Request, t \in Moved : ~(q = r /\ t = s) => receipts'[q][t] = receipts[q][t]
         /\ lastSeq' = lastSeq + 1
<1>1. receipts[r][s] = 0
  <2>1. CASE row[r].state = "pending"
    <3>1. row[r].via = "none" /\ row[r].state \notin Moved
      BY <2>1 DEF DecidedBy, Decided, Moved, Terminal
    <3> QED BY <3>1 DEF Logged
  <2>2. CASE row[r].state = "undecided" /\ s \in Decided
    <3>1. row[r].via = "none" /\ s # "undecided"
      BY <2>2 DEF DecidedBy, Decided
    <3> QED BY <2>2, <3>1 DEF Logged
  <2> QED BY <2>1, <2>2 DEF LogMove
<1>2. receipts \in [Request -> [Moved -> Nat]]
  BY DEF TypeOK
<1> QED
  BY <1>1, <1>2 DEF LogMove, Transition

LEMMA MoveNumbers ==
  ASSUME TypeOK, DecidedBy, Logged, Numbering, AMove
  PROVE  Numbering'
<1>1. PICK r \in Request, s \in Moved, v \in {"none", "signature", "grant", "ruling"}, a \in Answer :
        LogMove(r, s, v, a)
  BY DEF AMove
<1>2. PICK to, num : to = [q \in {r} |-> s] /\ num = [q \in {r} |-> 1]
  OBVIOUS
<1>3. Adds({r}, to, num, 1)
  BY <1>1, <1>2, MoveLogs DEF Adds
<1> QED
  BY <1>3, StillNumbered

\* What a sweep does to it.
LEMMA SweepNumbers ==
  ASSUME TypeOK, DecidedBy, Logged, Numbering, Sweep
  PROVE  Numbering'
<1>0. PICK due, n : due = {r \in Request : Expires(r)} /\ n = Cardinality(due)
  OBVIOUS
<1>1. PICK nth \in [due -> 1..n] :
        /\ due \in SUBSET Request
        /\ \A p, q \in due : nth[p] = nth[q] => p = q
        /\ receipts' = [r \in Request |->
             IF r \in due THEN [receipts[r] EXCEPT !["expired"] = lastSeq + nth[r]]
                          ELSE receipts[r]]
        /\ lastSeq' = lastSeq + n
  <2> DEFINE D == {r \in Request : Expires(r)}
  <2>1. PICK nth \in [D -> 1..Cardinality(D)] :
          /\ \A p, q \in D : nth[p] = nth[q] => p = q
          /\ receipts' = [r \in Request |->
               IF r \in D THEN [receipts[r] EXCEPT !["expired"] = lastSeq + nth[r]]
                          ELSE receipts[r]]
    BY DEF Sweep
  <2>2. lastSeq' = lastSeq + Cardinality(D) /\ D \in SUBSET Request
    BY DEF Sweep
  <2> HIDE DEF D
  <2>3. due = D /\ n = Cardinality(D)
    BY <1>0 DEF D
  <2>4. /\ nth \in [due -> 1..n]
        /\ \A p, q \in due : nth[p] = nth[q] => p = q
        /\ due \in SUBSET Request /\ lastSeq' = lastSeq + n
    BY <2>1, <2>2, <2>3
  <2>5. receipts' = [r \in Request |->
          IF r \in due THEN [receipts[r] EXCEPT !["expired"] = lastSeq + nth[r]]
                        ELSE receipts[r]]
    BY <2>1, <2>3
  <2> QED
    BY <2>4, <2>5
<1>2. IsFiniteSet(due) /\ n \in Nat
  BY <1>0, <1>1, BoundAssumption, FS_Subset, FS_CardinalityType
<1>3. \A i \in 1..n : \E r \in due : nth[r] = i
  <2>1. IsFiniteSet(1..n) /\ Cardinality(1..n) = n
    BY <1>2, FS_Interval
  <2>2. nth \in Injection(due, 1..n)
    BY <1>1 DEF Injection, IsInjective
  <2>3. nth \in Surjection(due, 1..n)
    <3>1. Cardinality(due) = Cardinality(1..n)
      BY <1>0, <2>1
    <3> QED BY <2>1, <2>2, <3>1, FS_Injection
  <2> QED BY <2>3 DEF Surjection
<1>4. "expired" \in Moved
  BY DEF Moved, Terminal
<1>5. \A r \in due : receipts[r]["expired"] = 0
  <2> TAKE r \in due
  <2>1. r \in Request /\ row[r].state = "pending"
    BY <1>0 DEF Expires
  <2>2. row[r].via = "none" /\ row[r].state \notin Moved
    BY <2>1 DEF DecidedBy, Decided, Moved, Terminal
  <2> QED BY <1>4, <2>1, <2>2 DEF Logged
<1>6. PICK to : to = [r \in due |-> "expired"]
  OBVIOUS
<1>7. \A r \in Request, s \in Moved :
        receipts'[r][s] = IF r \in due /\ s = to[r] THEN lastSeq + nth[r] ELSE receipts[r][s]
  BY <1>1, <1>4, <1>6 DEF TypeOK
<1>8. Adds(due, to, nth, n)
  BY <1>1, <1>2, <1>3, <1>4, <1>5, <1>6, <1>7 DEF Adds
<1> QED
  BY <1>8, StillNumbered

LEMMA LoggedStep ==
  TypeOK /\ DecidedBy /\ Logged /\ Numbering /\ [Next]_vars => Logged' /\ Numbering'
<1> SUFFICES ASSUME TypeOK, DecidedBy, Logged, Numbering, [Next]_vars PROVE Logged' /\ Numbering'
  OBVIOUS
<1>0. /\ row \in [Request -> Row] /\ receipts \in [Request -> [Moved -> Nat]] /\ lastSeq \in Nat
      /\ \A q \in Request, t \in Moved : receipts[q][t] \in Nat
      /\ "pending" \notin Moved /\ "unfiled" \notin Moved
  BY DEF TypeOK, Moved, Terminal, Decided
<1>1. CASE AMove
  <2>1. PICK r \in Request, s \in Moved, v \in {"none", "signature", "grant", "ruling"}, a \in Answer :
          LogMove(r, s, v, a)
    BY <1>1 DEF AMove
  <2>2. /\ \A q \in Request \ {r} : row'[q] = row[q]
        /\ row'[r].state = s /\ row'[r].via = v
    BY <2>1, TransitionRow DEF LogMove
  <2>3. /\ receipts'[r][s] = lastSeq + 1
        /\ \A q \in Request, t \in Moved : ~(q = r /\ t = s) => receipts'[q][t] = receipts[q][t]
    BY <2>1, MoveLogs
  <2>4. ASSUME NEW q \in Request
        PROVE  /\ row'[q].state \in Moved => receipts'[q][row'[q].state] # 0
               /\ \A t \in Moved : receipts'[q][t] # 0 =>
                    \/ row'[q].state = t
                    \/ /\ t = "undecided" /\ row'[q].via = "ruling"
                       /\ receipts'[q][t] < receipts'[q][row'[q].state]
    <3>1. CASE q # r
      <4>1. row'[q] = row[q] /\ \A t \in Moved : receipts'[q][t] = receipts[q][t]
        BY <2>2, <2>3, <3>1
      <4>2. row[q].via = "ruling" => row[q].state \in Moved
        BY DEF DecidedBy, Moved, Terminal
      <4> QED BY <4>1, <4>2 DEF Logged, Seq
    <3>2. CASE q = r
      <4>1. row'[q].state \in Moved => receipts'[q][row'[q].state] # 0
        BY <1>0, <2>2, <2>3, <3>2
      <4>2. ASSUME NEW t \in Moved, receipts'[q][t] # 0, t # s
            PROVE  t = "undecided" /\ v = "ruling" /\ receipts'[q][t] < receipts'[q][s]
        <5>1. receipts'[r][t] = receipts[r][t] /\ receipts[r][t] # 0
          BY <2>3, <3>2, <4>2
        <5>2. row[r].via = "none" /\ row[r].state \in {"pending", "undecided"}
          BY <2>1 DEF LogMove, DecidedBy, Decided
        <5>3. row[r].state = t
          BY <5>1, <5>2 DEF Logged
        <5>4. t = "undecided" /\ v = "ruling"
          BY <1>0, <2>1, <5>3 DEF LogMove
        <5>5. receipts[r][t] <= lastSeq /\ receipts[r][t] \in Nat
          BY <1>0 DEF Numbering
        <5> QED BY <1>0, <2>3, <3>2, <5>1, <5>4, <5>5
      <4> QED BY <2>2, <3>2, <4>1, <4>2
    <3> QED BY <3>1, <3>2
  <2>5. Logged'
    BY <2>4 DEF Logged, Seq
  <2> QED BY <1>1, <2>5, MoveNumbers
<1>2. CASE Sweep
  <2>1. PICK nth \in [{r \in Request : Expires(r)} -> 1..Cardinality({r \in Request : Expires(r)})] :
          receipts' = [r \in Request |->
             IF r \in {q \in Request : Expires(q)}
               THEN [receipts[r] EXCEPT !["expired"] = lastSeq + nth[r]]
               ELSE receipts[r]]
    BY <1>2 DEF Sweep
  <2>2. "expired" \in Moved
    BY DEF Moved, Terminal
  <2>4. ASSUME NEW q \in Request
        PROVE  /\ row'[q].state \in Moved => receipts'[q][row'[q].state] # 0
               /\ \A t \in Moved : receipts'[q][t] # 0 =>
                    \/ row'[q].state = t
                    \/ /\ t = "undecided" /\ row'[q].via = "ruling"
                       /\ receipts'[q][t] < receipts'[q][row'[q].state]
    <3>1. CASE ~Expires(q)
      <4>1. row'[q] = row[q] /\ receipts'[q] = receipts[q]
        BY <1>2, <2>1, <3>1 DEF Sweep
      <4> QED BY <4>1 DEF Logged, Seq
    <3>2. CASE Expires(q)
      <4>1. row'[q].state = "expired"
        <5>1. row'[q] = [row[q] EXCEPT !.state = "expired", !.decidedAt = now,
                                       !.via = "none", !.answer = NoAnswer]
          BY <1>2, <3>2 DEF Sweep
        <5>2. row[q] \in Row
          BY <1>0
        <5> QED BY <5>1, <5>2 DEF Row
      <4>2. nth[q] \in Nat \ {0}
        <5>1. Cardinality({p \in Request : Expires(p)}) \in Nat
          BY BoundAssumption, FS_Subset, FS_CardinalityType
        <5> QED BY <2>1, <3>2, <5>1
      <4>3. receipts'[q] = [receipts[q] EXCEPT !["expired"] = lastSeq + nth[q]]
        BY <2>1, <3>2
      <4>4. /\ receipts'[q]["expired"] = lastSeq + nth[q]
            /\ \A t \in Moved : t # "expired" => receipts'[q][t] = receipts[q][t]
        BY <1>0, <2>2, <4>3
      <4>5. lastSeq + nth[q] # 0
        BY <1>0, <4>2
      <4>6. \A t \in Moved : receipts[q][t] = 0
        <5>1. row[q].via = "none" /\ row[q].state = "pending"
          BY <3>2 DEF Expires, DecidedBy, Decided
        <5> QED BY <1>0, <5>1 DEF Logged
      <4> QED BY <4>1, <4>4, <4>5, <4>6
    <3> QED BY <3>1, <3>2
  <2>5. Logged'
    BY <2>4 DEF Logged, Seq
  <2> QED BY <1>2, <2>5, SweepNumbers
<1>3. CASE NoMove
  <2>1. Numbering'
    BY <1>3 DEF NoMove, Numbering, log
  <2>2. ASSUME NEW r \in Request, row'[r].state = "pending", row[r].state = "unfiled"
        PROVE  \A s \in Moved : receipts[r][s] = 0
    <3>1. row[r].via = "none"
      BY <2>2 DEF DecidedBy, Decided
    <3> QED BY <1>0, <2>2, <3>1 DEF Logged
  <2>3. receipts' = receipts
    BY <1>3 DEF NoMove, log
  <2>4. ASSUME NEW q \in Request
        PROVE  /\ row'[q].state \in Moved => receipts[q][row'[q].state] # 0
               /\ \A t \in Moved : receipts[q][t] # 0 =>
                    \/ row'[q].state = t
                    \/ /\ t = "undecided" /\ row'[q].via = "ruling"
                       /\ receipts[q][t] < receipts[q][row'[q].state]
    <3>1. CASE row'[q] = row[q]
      BY <3>1 DEF Logged, Seq
    <3>2. CASE row[q].state = "unfiled" /\ row'[q].state = "pending"
      BY <1>0, <2>2, <3>2
    <3> QED BY <1>3, <3>1, <3>2 DEF NoMove
  <2> QED BY <2>1, <2>3, <2>4 DEF Logged, Seq
<1> QED
  BY <1>1, <1>2, <1>3, LogSteps

LEMMA LogHolds == Spec => [](Logged /\ Numbering)
<1>1. Init => Logged /\ Numbering
  <2> SUFFICES ASSUME Init PROVE Logged /\ Numbering
    OBVIOUS
  <2>1. /\ \A r \in Request : row[r].state \notin Moved
        /\ \A r \in Request, s \in Moved : receipts[r][s] = 0
        /\ lastSeq = 0
    BY DEF Init, Unfiled, Moved, Terminal, Decided
  <2>2. 1..lastSeq = {}
    BY <2>1
  <2> QED BY <2>1, <2>2 DEF Logged, Numbering
<1> QED
  BY <1>1, LoggedStep, DecidedByHolds, TypeCorrect, PTL DEF Spec

\* Every move of every operation is logged with it, under the next number of the
\* receipts' AUTOINCREMENT, a sweep's rows one after the other; a row that moved
\* has the receipt of its state as its latest, with one of its mark before it
\* when a ruling followed (_transition, sweep).
THEOREM LogInOrder == Spec => []LogOrder
<1>1. TypeOK /\ Logged /\ Numbering => LogOrder
  <2> SUFFICES ASSUME TypeOK, Logged, Numbering PROVE LogOrder
    OBVIOUS
  <2> DEFINE entries == {e \in Request \X Moved : receipts[e[1]][e[2]] # 0}
             num == [e \in entries |-> receipts[e[1]][e[2]]]
  <2>0. lastSeq \in Nat /\ \A r \in Request, s \in Moved : receipts[r][s] \in Nat
    BY DEF TypeOK
  <2>1. \A e \in entries : receipts[e[1]][e[2]] \in 1..lastSeq
    BY <2>0 DEF Numbering
  <2>2. ASSUME NEW i \in 1..lastSeq PROVE \E e \in entries : receipts[e[1]][e[2]] = i
    <3>1. PICK r \in Request, s \in Moved : receipts[r][s] = i
      BY DEF Numbering
    <3>2. <<r, s>> \in entries
      BY <3>1
    <3> QED BY <3>1, <3>2
  <2>3. ASSUME NEW e \in entries, NEW f \in entries, num[e] = num[f] PROVE e = f
    BY <2>3 DEF Numbering
  <2>4. num \in Bijection(entries, 1..lastSeq)
    <3>1. num \in [entries -> 1..lastSeq]
      BY <2>1
    <3>2. \A i \in 1..lastSeq : \E e \in entries : num[e] = i
      BY <2>2
    <3> HIDE DEF num
    <3> QED BY <2>3, <3>1, <3>2 DEF Bijection, Injection, IsInjective, Surjection
  <2>5. Cardinality(entries) = lastSeq
    <3>1. IsFiniteSet(1..lastSeq) /\ Cardinality(1..lastSeq) = lastSeq
      BY <2>0, FS_Interval
    <3>2. IsFiniteSet(entries) /\ Cardinality(entries) = Cardinality(1..lastSeq)
      <4> HIDE DEF entries, num
      <4>1. num \in Injection(entries, 1..lastSeq) /\ num \in Surjection(entries, 1..lastSeq)
        BY <2>4 DEF Bijection
      <4> QED BY <3>1, <4>1, FS_Injection
    <3> QED BY <3>1, <3>2
  <2>6. {receipts[e[1]][e[2]] : e \in entries} = 1..lastSeq
    <3> HIDE DEF entries
    <3> QED BY <2>1, <2>2
  <2>7. /\ \A r \in Request, s \in Moved :
             receipts[r][s] # 0 =>
               \/ row[r].state = s
               \/ /\ s = "undecided"
                  /\ row[r].via = "ruling"
                  /\ receipts[r][s] < Seq(r)
        /\ \A r \in Request : row[r].state \in Moved => Seq(r) # 0
    BY DEF Logged
  <2> QED BY <2>5, <2>6, <2>7 DEF LogOrder
<1> QED
  BY <1>1, LogHolds, TypeCorrect, PTL

-----------------------------------------------------------------------------
(* Rulings in the order of the log.                                        *)

\* A step leaves q as it was ruled, or not ruled.
SameRuled(q) ==
  /\ row'[q].via = "ruling" <=> row[q].via = "ruling"
  /\ row[q].via = "ruling" =>
       row'[q] = row[q] /\ receipts'[q][row[q].state] = receipts[q][row[q].state]

\* A step rules on r, under the log's next number.
RuledNow(r) ==
  /\ row[r].state = "undecided" /\ row[r].via # "ruling"
  /\ row'[r].state \in Decided /\ row'[r].via = "ruling"
  /\ receipts'[r][row'[r].state] = lastSeq + 1
  /\ UNCHANGED takes

LogInv == TypeOK /\ DecidedBy /\ Logged /\ Numbering

LEMMA Rulings ==
  ASSUME LogInv, [Next]_vars
  PROVE  \/ \A q \in Request : SameRuled(q)
         \/ \E r \in Request : RuledNow(r) /\ \A q \in Request \ {r} : SameRuled(q)
<1> USE DEF LogInv
<1>0. \A q \in Request : row[q].via = "ruling" =>
        row[q].state \in Decided /\ row[q].state \in Moved /\ row'[q] = row[q]
  BY SettledStay DEF DecidedBy, Moved, Terminal
<1>1. CASE AMove
  <2>1. PICK r \in Request, s \in Moved, v \in {"none", "signature", "grant", "ruling"}, a \in Answer :
          LogMove(r, s, v, a)
    BY <1>1 DEF AMove
  <2>2. /\ \A q \in Request \ {r} : row'[q] = row[q]
        /\ row'[r].state = s /\ row'[r].via = v
    BY <2>1, TransitionRow DEF LogMove
  <2>3. /\ receipts'[r][s] = lastSeq + 1
        /\ \A q \in Request, t \in Moved : ~(q = r /\ t = s) => receipts'[q][t] = receipts[q][t]
    BY <2>1, MoveLogs
  <2>4. row[r].state \in {"pending", "undecided"} /\ row[r].via # "ruling"
    BY <2>1 DEF LogMove, DecidedBy, Decided
  <2>5. \A q \in Request \ {r} : SameRuled(q)
    BY <1>0, <2>2, <2>3 DEF SameRuled
  <2>6. CASE v = "ruling"
    <3>1. RuledNow(r)
      BY <2>1, <2>2, <2>3, <2>4, <2>6 DEF LogMove, RuledNow
    <3> QED BY <2>5, <3>1
  <2>7. CASE v # "ruling"
    <3>1. SameRuled(r)
      BY <2>2, <2>4, <2>7 DEF SameRuled
    <3> QED BY <2>5, <3>1
  <2> QED BY <2>6, <2>7
<1>2. CASE Sweep
  <2> SUFFICES ASSUME NEW q \in Request PROVE SameRuled(q)
    OBVIOUS
  <2>1. CASE Expires(q)
    <3>1. row[q].via # "ruling"
      BY <2>1 DEF Expires, DecidedBy, Decided
    <3>2. row'[q] = [row[q] EXCEPT !.state = "expired", !.decidedAt = now,
                                   !.via = "none", !.answer = NoAnswer]
      BY <1>2, <2>1 DEF Sweep
    <3>3. row[q] \in Row
      BY DEF TypeOK
    <3> QED BY <3>1, <3>2, <3>3 DEF SameRuled, Row
  <2>2. CASE ~Expires(q)
    <3>1. row'[q] = row[q] /\ receipts'[q] = receipts[q]
      BY <1>2, <2>2 DEF Sweep
    <3> QED BY <3>1 DEF SameRuled
  <2> QED BY <2>1, <2>2
<1>3. CASE NoMove
  <2> SUFFICES ASSUME NEW q \in Request PROVE SameRuled(q)
    OBVIOUS
  <2>1. receipts' = receipts
    BY <1>3 DEF NoMove, log
  <2>2. CASE row'[q] = row[q]
    BY <2>1, <2>2 DEF SameRuled
  <2>3. CASE row[q].state = "unfiled" /\ row'[q].via = "none"
    BY <2>3 DEF SameRuled, DecidedBy, Decided
  <2> QED BY <1>3, <2>2, <2>3 DEF NoMove
<1> QED
  BY <1>1, <1>2, <1>3, LogSteps

\* A ruling's number is in the log, and no other row's.
LEMMA SeqFacts ==
  ASSUME LogInv, NEW r \in Request, row[r].via = "ruling"
  PROVE  /\ row[r].state \in Decided /\ row[r].state \in Moved
         /\ Seq(r) \in Nat \ {0} /\ Seq(r) <= lastSeq /\ lastSeq \in Nat
         /\ \A q \in Request : row[q].via = "ruling" /\ Seq(q) = Seq(r) => q = r
<1> USE DEF LogInv
<1>1. \A q \in Request : row[q].via = "ruling" => row[q].state \in Decided /\ row[q].state \in Moved
  BY DEF DecidedBy, Moved, Terminal
<1>2. Seq(r) \in Nat /\ Seq(r) # 0 /\ lastSeq \in Nat /\ Seq(r) <= lastSeq
  BY <1>1 DEF TypeOK, Logged, Numbering, Seq
<1>3. \A q \in Request : row[q].via = "ruling" /\ Seq(q) = Seq(r) => q = r
  BY <1>1, <1>2 DEF Numbering, Seq
<1> QED
  BY <1>1, <1>2, <1>3

\* No ruling applied before r was signed after it.
InOrder(r) ==
  \A q \in Ruled(CallOf[r]) : Seq(q) < Seq(r) => row[q].answer.signedAt <= row[r].answer.signedAt

\* It stays so: what is ruled later has a higher number.
LEMMA StillInOrder ==
  ASSUME LogInv, [Next]_vars, NEW r \in Request, row[r].via = "ruling", InOrder(r)
  PROVE  row'[r].via = "ruling" /\ InOrder(r)'
<1>1. SameRuled(r)
  BY Rulings DEF RuledNow
<1>2. row'[r] = row[r] /\ receipts'[r][row'[r].state] = receipts[r][row[r].state]
  BY <1>1 DEF SameRuled
<1>3. ASSUME NEW q \in Request, CallOf[q] = CallOf[r], row'[q].via = "ruling",
             receipts'[q][row'[q].state] < receipts'[r][row'[r].state]
      PROVE  row'[q].answer.signedAt <= row'[r].answer.signedAt
  <2>1. CASE SameRuled(q)
    <3>1. /\ row[q].via = "ruling" /\ row'[q] = row[q]
          /\ receipts'[q][row'[q].state] = receipts[q][row[q].state]
      BY <1>3, <2>1 DEF SameRuled
    <3> QED BY <1>2, <1>3, <3>1 DEF InOrder, Ruled, Seq
  <2>2. CASE RuledNow(q)
    <3>1. receipts'[q][row'[q].state] = lastSeq + 1
      BY <2>2 DEF RuledNow
    <3>2. Seq(r) <= lastSeq /\ Seq(r) \in Nat /\ lastSeq \in Nat
      BY SeqFacts
    <3> QED BY <1>2, <1>3, <3>1, <3>2 DEF Seq
  <2> QED BY <2>1, <2>2, Rulings
<1> QED
  BY <1>2, <1>3 DEF InOrder, Ruled, Seq

\* What a hook picked, and what was taken, by a ruling.
OrderInv ==
  /\ \A h \in Hook : hook[h].pc = "picked" => InOrder(hook[h].request)
  /\ \A t \in takes : row[t.request].via = "ruling" => InOrder(t.request)

LEMMA OrderStep ==
  LogInv /\ PickSound /\ TakesFresh /\ OrderInv /\ [Next]_vars => OrderInv'
<1> SUFFICES ASSUME LogInv, PickSound, TakesFresh, OrderInv, [Next]_vars PROVE OrderInv'
  OBVIOUS
<1>1. ASSUME NEW h \in Hook, hook'[h].pc = "picked" PROVE InOrder(hook[h].request)'
  <2>1. CASE hook'[h] = hook[h]
    <3>1. PICK r \in Request : r = hook[h].request /\ row[r].via = "ruling" /\ InOrder(r)
      BY <1>1, <2>1 DEF PickSound, OrderInv
    <3>2. InOrder(r)'
      BY <3>1, StillInOrder
    <3>3. hook'[h].request = r
      BY <2>1, <3>1
    <3> QED BY <3>2, <3>3 DEF InOrder
  <2>2. CASE /\ UNCHANGED row
             /\ hook'[h].request \in Ruled(hook[h].call)
             /\ Pickable(hook'[h].request, hook[h].active)
    <3>1. PICK r \in Request : /\ r = hook'[h].request /\ row[r].via = "ruling"
                               /\ SignedInOrder(r)
      BY <2>2 DEF Ruled, Pickable
    <3>2. InOrder(r)
      BY <3>1 DEF SignedInOrder, InOrder
    <3>3. InOrder(r)'
      BY <3>1, <3>2, StillInOrder
    <3> QED BY <3>1, <3>3 DEF InOrder
  <2> QED BY <1>1, <2>1, <2>2, PickedFrom DEF LogInv
<1>2. ASSUME NEW t \in takes', row'[t.request].via = "ruling" PROVE InOrder(t.request)'
  <2>1. CASE t \in takes
    <3>1. PICK r \in Request : r = t.request /\ row[r].state = "allowed"
      BY <2>1 DEF TakesFresh, LogInv, TypeOK, Take
    <3>2. row[r].via = "ruling"
      BY <1>2, <3>1, SettledStay DEF Terminal, Decided, LogInv
    <3>3. InOrder(r)
      BY <2>1, <3>1, <3>2 DEF OrderInv
    <3> QED BY <3>1, <3>2, <3>3, StillInOrder
  <2>2. ASSUME NEW h \in Hook, NEW r \in Request, NewTake(h, r), t.request = r
        PROVE  InOrder(t.request)'
    <3>1. row[r].via = "ruling" /\ hook[h].pc = "picked" /\ r = hook[h].request
      BY <1>2, <2>2 DEF NewTake
    <3>2. InOrder(r)
      BY <3>1 DEF OrderInv
    <3> QED BY <2>2, <3>1, <3>2, StillInOrder
  <2> QED BY <2>1, <2>2, TakeSteps DEF NewTake, LogInv
<1> QED
  BY <1>1, <1>2 DEF OrderInv

\* take_ruled_allow() never uses a ruling that was applied after another ruling
\* on the call and signed before it: the picked one was signed in order, and what
\* is applied between the pick and the lock has a later number.
THEOREM TakesInOrder == Spec => []TakesSignedInOrder
<1>1. Init => OrderInv
  BY DEF Init, OrderInv, Idle
<1>2. OrderInv => TakesSignedInOrder
  BY DEF OrderInv, TakesSignedInOrder, InOrder
<1> QED
  BY <1>1, <1>2, OrderStep, LogHolds, DecidedByHolds, PickSoundHolds, NoStaleTake,
     TypeCorrect, PTL DEF Spec, LogInv

-----------------------------------------------------------------------------
(* The queue implements LateAllow.                                         *)

\* The ruling that a call's ticket is for.
Standing(c, r) ==
  /\ r \in Ruled(c) /\ row[r].state = "allowed" /\ Newest(r) /\ ~IsTaken(r)

LEMMA TicketIs ==
  ASSUME LogInv, NEW c \in Call
  PROVE  /\ \A r : Standing(c, r) => Ticket(c) = r
         /\ (\A r : ~Standing(c, r)) => Ticket(c) = NoRequest
<1> DEFINE open == {r \in Ruled(c) : row[r].state = "allowed" /\ Newest(r) /\ ~IsTaken(r)}
<1>1. \A r : r \in open <=> Standing(c, r)
  BY DEF Standing
<1>2. \A p, q \in open : p = q
  <2> SUFFICES ASSUME NEW p \in open, NEW q \in open PROVE p = q
    OBVIOUS
  <2>1. /\ p \in Request /\ q \in Request /\ CallOf[p] = c /\ CallOf[q] = c
        /\ row[p].via = "ruling" /\ row[q].via = "ruling" /\ Newest(p) /\ Newest(q)
    BY DEF Ruled
  <2>2. Seq(p) <= Seq(q) /\ Seq(q) <= Seq(p)
    BY <2>1 DEF Newest, Ruled
  <2>3. Seq(p) \in Nat /\ Seq(q) \in Nat /\ (Seq(q) = Seq(p) => q = p)
    BY <2>1, SeqFacts
  <2> QED BY <2>2, <2>3
<1>3. Ticket(c) = IF open = {} THEN NoRequest ELSE CHOOSE r \in open : TRUE
  BY DEF Ticket
<1> HIDE DEF open
<1>4. ASSUME NEW r, Standing(c, r) PROVE Ticket(c) = r
  <2>1. r \in open
    BY <1>1, <1>4
  <2>2. (CHOOSE x \in open : TRUE) \in open
    BY <2>1
  <2> QED BY <1>2, <1>3, <2>1, <2>2
<1>5. ASSUME \A r : ~Standing(c, r) PROVE Ticket(c) = NoRequest
  BY <1>1, <1>3, <1>5
<1> QED
  BY <1>4, <1>5

TicketRight ==
  \A c \in Call :
    /\ \A r \in Request : Standing(c, r) => Ticket(c) = r
    /\ (\A r \in Request : ~Standing(c, r)) => Ticket(c) = NoRequest

LEMMA TicketNow == LogInv => TicketRight
<1> SUFFICES ASSUME LogInv, NEW c \in Call
             PROVE  /\ \A r \in Request : Standing(c, r) => Ticket(c) = r
                    /\ (\A r \in Request : ~Standing(c, r)) => Ticket(c) = NoRequest
  BY DEF TicketRight
<1>1. \A r : Standing(c, r) => r \in Request
  BY DEF Standing, Ruled
<1> QED
  BY <1>1, TicketIs

LEMMA TicketNext == LogInv' => TicketRight'
  BY TicketNow, PTL

\* The rulings that a step leaves as they are.
LEMMA SameSeq ==
  ASSUME NEW q \in Request, SameRuled(q), row[q].via = "ruling" \/ row'[q].via = "ruling"
  PROVE  /\ row[q].via = "ruling" /\ row'[q] = row[q] /\ Seq(q)' = Seq(q)
  BY DEF SameRuled, Seq

\* A ticket is as it was when nothing was ruled on the call, or taken of it.
LEMMA SameTicket ==
  ASSUME LogInv, LogInv', NEW c \in Call,
         \A q \in Request : CallOf[q] = c =>
           SameRuled(q) /\ (row[q].via = "ruling" => (IsTaken(q)' <=> IsTaken(q)))
  PROVE  Ticket(c)' = Ticket(c)
<1>1. \A q \in Request : CallOf[q] = c /\ (row[q].via = "ruling" \/ row'[q].via = "ruling") =>
        /\ row[q].via = "ruling" /\ row'[q] = row[q] /\ Seq(q)' = Seq(q)
        /\ IsTaken(q)' <=> IsTaken(q)
  BY SameSeq
<1>2. Ruled(c)' = Ruled(c)
  BY <1>1 DEF Ruled
<1>3. \A r : Standing(c, r)' <=> Standing(c, r)
  <2> TAKE r
  <2>1. CASE r \in Ruled(c)
    <3>1. r \in Request /\ CallOf[r] = c /\ row'[r] = row[r] /\ Seq(r)' = Seq(r)
          /\ (IsTaken(r)' <=> IsTaken(r))
      BY <1>1, <2>1 DEF Ruled
    <3>2. \A q \in Ruled(c) : Seq(q)' = Seq(q)
      BY <1>1 DEF Ruled
    <3>3. Newest(r)' <=> Newest(r)
      <4>1. Newest(r)' <=> \A q \in Ruled(c)' : Seq(q)' <= Seq(r)'
        BY <3>1 DEF Newest
      <4>2. Newest(r) <=> \A q \in Ruled(c) : Seq(q) <= Seq(r)
        BY <3>1 DEF Newest
      <4> QED BY <1>2, <3>1, <3>2, <4>1, <4>2
    <3> QED BY <1>2, <3>1, <3>3 DEF Standing
  <2>2. CASE r \notin Ruled(c)
    BY <1>2, <2>2 DEF Standing
  <2> QED BY <2>1, <2>2
<1>4. CASE \E r : Standing(c, r)
  <2>1. PICK r \in Request : Standing(c, r)
    BY <1>4 DEF Standing, Ruled
  <2>2. Ticket(c) = r
    BY <2>1, TicketIs
  <2>3. Standing(c, r)'
    BY <1>3, <2>1
  <2>4. Ticket(c)' = r
    <3>1. \A x \in Request : Standing(c, x)' => Ticket(c)' = x
      BY TicketNext DEF TicketRight
    <3> QED BY <2>3, <3>1
  <2> QED BY <2>2, <2>4
<1>5. CASE \A r : ~Standing(c, r)
  <2>1. Ticket(c) = NoRequest
    BY <1>5, TicketIs
  <2>2. \A r : ~Standing(c, r)'
    BY <1>3, <1>5
  <2>3. Ticket(c)' = NoRequest
    BY <2>2, TicketNext DEF TicketRight
  <2> QED BY <2>1, <2>3
<1> QED
  BY <1>4, <1>5

\* A take uses up the ticket of its call, or is a gate's.
LEMMA TakeRuns ==
  ASSUME LogInv, LogInv', PickSound, NEW h \in Hook, NEW r \in Request, NewTake(h, r)
  PROVE  [Tickets!Next]_(Tickets!vars)
<1> USE DEF LogInv
<1>a. row' = row /\ receipts' = receipts
  BY DEF NewTake, log
<1>b. \A q : IsTaken(q)' <=> IsTaken(q) \/ q = r
  <2> DEFINE new == [request |-> r, at |-> now, by |-> h]
  <2>1. takes' = takes \cup {new} /\ new.request = r
    BY DEF NewTake
  <2> HIDE DEF new
  <2> QED BY <2>1 DEF IsTaken
<1>0. /\ row' = row /\ receipts' = receipts
      /\ \A q : IsTaken(q)' <=> IsTaken(q) \/ q = r
      /\ CallOf \in [Request -> Call]
  BY <1>a, <1>b, CallAssumption
<1>1. \A q \in Request : SameRuled(q)
  BY <1>0 DEF SameRuled
<1>2. CASE row[r].via # "ruling"
  <2>1. \A c \in Call : Ticket(c)' = Ticket(c)
    <3> TAKE c \in Call
    <3>1. \A q \in Request : row[q].via = "ruling" => (IsTaken(q)' <=> IsTaken(q))
      BY <1>0, <1>2
    <3> QED BY <1>1, <3>1, SameTicket
  <2>2. UNCHANGED <<[c \in Call |-> Ticket(c)], {q \in Request : row[q].via = "ruling"},
                    {q \in Request : row[q].via = "ruling" /\ IsTaken(q)}>>
    BY <1>0, <1>2, <2>1
  <2> QED BY <2>2 DEF Tickets!vars
<1>3. CASE row[r].via = "ruling"
  <2>1. PICK c \in Call : c = CallOf[r]
    BY <1>0
  <2>2. Newest(r) /\ row[r].state = "allowed" /\ ~IsTaken(r)
    BY <1>3 DEF NewTake
  <2>3. Standing(c, r)
    BY <1>3, <2>1, <2>2 DEF Standing, Ruled
  <2>4. Ticket(c) = r
    BY <2>3, TicketIs
  <2>5. r # NoRequest
    BY NoRequestAssumption
  <2>6. Ticket(c)' = NoRequest
    <3>1. ASSUME NEW q, Standing(c, q)' PROVE FALSE
      <4>1. q \in Request /\ Standing(c, q)
        BY <1>0, <3>1 DEF Standing, Ruled, Newest, Seq
      <4>2. Ticket(c) = q
        BY <4>1, TicketIs
      <4>3. IsTaken(q)'
        BY <1>0, <2>4, <4>2
      <4> QED BY <3>1, <4>3 DEF Standing
    <3> QED BY <3>1, TicketNext DEF TicketRight
  <2>7. \A d \in Call \ {c} : Ticket(d)' = Ticket(d)
    <3> TAKE d \in Call \ {c}
    <3>1. \A q \in Request : CallOf[q] = d => (IsTaken(q)' <=> IsTaken(q))
      BY <1>0, <2>1
    <3> QED BY <1>1, <3>1, SameTicket
  <2>8. [e \in Call |-> Ticket(e)]' = [[e \in Call |-> Ticket(e)] EXCEPT ![c] = NoRequest]
    BY <2>6, <2>7
  <2>9. /\ {q \in Request : row'[q].via = "ruling" /\ IsTaken(q)'}
             = {q \in Request : row[q].via = "ruling" /\ IsTaken(q)} \cup {r}
        /\ {q \in Request : row'[q].via = "ruling"} = {q \in Request : row[q].via = "ruling"}
    BY <1>0, <1>3
  <2>10. Tickets!Run(c)
    BY <2>4, <2>5, <2>8, <2>9 DEF Tickets!Run
  <2> QED BY <2>10 DEF Tickets!Next
<1> QED BY <1>2, <1>3

\* A ruling replaces the ticket of its call.
LEMMA RulingRules ==
  ASSUME LogInv, LogInv', TakesFresh, NEW r \in Request, RuledNow(r),
         \A q \in Request \ {r} : SameRuled(q)
  PROVE  Tickets!Next
<1> USE DEF LogInv
<1>1. PICK c \in Call : c = CallOf[r]
  BY CallAssumption
<1>2. /\ \A q : IsTaken(q)' <=> IsTaken(q)
      /\ ~IsTaken(r)
  BY DEF RuledNow, IsTaken, TakesFresh
<1>3. Seq(r)' = lastSeq + 1 /\ row'[r].via = "ruling" /\ row'[r].state \in Decided
  BY DEF RuledNow, Seq
<1>4. \A q \in Request \ {r} : row'[q].via = "ruling" =>
        /\ row[q].via = "ruling" /\ row'[q] = row[q] /\ Seq(q)' = Seq(q)
        /\ Seq(q)' \in Nat /\ Seq(q)' <= lastSeq /\ lastSeq \in Nat
  BY SameSeq, SeqFacts
<1>5. lastSeq \in Nat
  BY DEF TypeOK
<1>6. Newest(r)'
  <2>1. \A q \in Request : row'[q].via = "ruling" => Seq(q)' <= Seq(r)'
    BY <1>3, <1>4, <1>5
  <2> QED BY <2>1 DEF Newest, Ruled
<1>7. \A q : Standing(c, q)' => q = r
  <2> SUFFICES ASSUME NEW q, Standing(c, q)', q # r PROVE FALSE
    OBVIOUS
  <2>1. q \in Request /\ row'[q].via = "ruling" /\ CallOf[q] = c /\ Newest(q)'
    BY DEF Standing, Ruled
  <2>2. Seq(r)' <= Seq(q)'
    BY <1>1, <1>3, <2>1 DEF Newest, Ruled
  <2> QED BY <1>3, <1>4, <1>5, <2>1, <2>2
<1>8. Ticket(c)' \in {r, NoRequest}
  <2>1. CASE Standing(c, r)'
    <3>1. \A x \in Request : Standing(c, x)' => Ticket(c)' = x
      BY TicketNext DEF TicketRight
    <3> QED BY <2>1, <3>1
  <2>2. CASE ~Standing(c, r)'
    <3>1. \A x : ~Standing(c, x)'
      BY <1>7, <2>2
    <3> QED BY <3>1, TicketNext DEF TicketRight
  <2> QED BY <2>1, <2>2
<1>9. \A d \in Call \ {c} : Ticket(d)' = Ticket(d)
  <2> TAKE d \in Call \ {c}
  <2>1. \A q \in Request : CallOf[q] = d => SameRuled(q) /\ (IsTaken(q)' <=> IsTaken(q))
    BY <1>1, <1>2
  <2> QED BY <2>1, SameTicket
<1>10. PICK t \in {r, NoRequest} :
         [e \in Call |-> Ticket(e)]' = [[e \in Call |-> Ticket(e)] EXCEPT ![c] = t]
  BY <1>8, <1>9
<1>11. /\ row[r].via # "ruling"
       /\ \A q \in Request \ {r} : row'[q].via = "ruling" <=> row[q].via = "ruling"
  BY DEF RuledNow, SameRuled
<1>12. /\ {q \in Request : row'[q].via = "ruling"}
             = {q \in Request : row[q].via = "ruling"} \cup {r}
       /\ {q \in Request : row'[q].via = "ruling" /\ IsTaken(q)'}
             = {q \in Request : row[q].via = "ruling" /\ IsTaken(q)}
  BY <1>2, <1>3, <1>11
<1>13. Tickets!Rule(r)
  BY <1>1, <1>10, <1>11, <1>12 DEF Tickets!Rule
<1> QED
  BY <1>13 DEF Tickets!Next

\* The queue implements LateAllow: an identical call has one ticket, for its latest
\* ruling when that is an allow; a run uses it up, and a later ruling takes back
\* what was not used, however hooks, signers and sweeps interleave
\* (take_ruled_allow, answer_late).
THEOREM LateAllowKept == Spec => OneRunPerAllow
<1>1. Init => Tickets!Init
  <2> SUFFICES ASSUME Init PROVE Tickets!Init
    OBVIOUS
  <2>1. \A r \in Request : row[r].via # "ruling"
    BY DEF Init, Unfiled
  <2>2. \A c \in Call : Ticket(c) = NoRequest
    BY <2>1 DEF Ticket, Ruled
  <2> QED BY <2>1, <2>2 DEF Tickets!Init
<1>2. LogInv /\ LogInv' /\ PickSound /\ TakesFresh /\ [Next]_vars
        => [Tickets!Next]_(Tickets!vars)
  <2> SUFFICES ASSUME LogInv, LogInv', PickSound, TakesFresh, [Next]_vars
               PROVE  [Tickets!Next]_(Tickets!vars)
    OBVIOUS
  <2>1. CASE takes' # takes
    <3>1. PICK h \in Hook, r \in Request : NewTake(h, r)
      BY <2>1, TakeSteps DEF LogInv
    <3> QED BY <3>1, TakeRuns
  <2>2. CASE takes' = takes /\ \A q \in Request : SameRuled(q)
    <3>1. \A q : IsTaken(q)' <=> IsTaken(q)
      BY <2>2 DEF IsTaken
    <3>2. \A c \in Call : Ticket(c)' = Ticket(c)
      BY <2>2, <3>1, SameTicket
    <3>3. UNCHANGED <<[c \in Call |-> Ticket(c)], {q \in Request : row[q].via = "ruling"},
                      {q \in Request : row[q].via = "ruling" /\ IsTaken(q)}>>
      BY <2>2, <3>1, <3>2 DEF SameRuled
    <3> QED BY <3>3 DEF Tickets!vars
  <2>3. ASSUME NEW r \in Request, RuledNow(r), \A q \in Request \ {r} : SameRuled(q)
        PROVE  [Tickets!Next]_(Tickets!vars)
    BY <2>3, RulingRules
  <2> QED BY <2>1, <2>2, <2>3, Rulings
<1> QED
  BY <1>1, <1>2, LogHolds, DecidedByHolds, PickSoundHolds, NoStaleTake, TypeCorrect, PTL
  DEF Spec, OneRunPerAllow, Tickets!Spec, LogInv

-----------------------------------------------------------------------------
(* Late evidence.                                                          *)

\* No answer and no grant can decide r any more.
Gone(r) ==
  \/ row[r].state \in {"expired", "undecided", "withdrawn"}
  \/ row[r].via = "ruling"
  \/ row[r].state = "pending" /\ HoldOver(r)

\* The clock does not step back.
LEMMA ClockRuns ==
  ASSUME TypeOK, MaxBack = 0, [Next]_vars
  PROVE  now \in Nat /\ now' \in Nat /\ now <= now'
<1>0. now \in Nat /\ now' \in Nat /\ ~(back < MaxBack)
  <2>1. now \in Nat /\ now' \in Nat
    BY TypeStep, BoundAssumption DEF TypeOK, Time
  <2>2. back \in 0..0
    BY DEF TypeOK
  <2> QED BY <2>1, <2>2
<1>1. CASE UNCHANGED vars
  BY <1>0, <1>1 DEF vars, clock
<1>2. CASE Clock
  BY <1>0, <1>2 DEF Clock, Tick, StepBack
<1>3. CASE AuthorityLog
  BY <1>0, <1>3 DEF AuthorityLog, Enrol, Revoke, WriteGrant, RevokeGrant, Authority, clock
<1>4. CASE Store
  <2>1. \A r \in Request, at \in Time : File(r, at) => now' = now
    BY DEF File, clock
  <2>2. \A r \in Request, halt \in BOOLEAN : MarkUndecided(r, halt) => now' = now
    BY DEF MarkUndecided, clock
  <2>3. now' = now
    BY <1>4, <2>1, <2>2 DEF Store, Get, Withdraw, Halt, RecordRan, Sweep, CloseUnrun, clock
  <2> QED BY <1>0, <2>3
<1>5. CASE \E c \in Client : ClientStep(c)
  <2>1. \A c \in Client : ApplyRuling(c) => now' = now
    BY DEF ApplyRuling, clock
  <2>2. now' = now
    BY <1>5, <2>1 DEF ClientStep, Sign, PostAnswer, ApplyAnswer, PostRuling,
         JudgeRefused, KeepRefused, ClientStops, NotClients, clock
  <2> QED BY <1>0, <2>2
<1>6. CASE \E h \in Hook : HookStep(h)
  <2>1. \A h \in Hook : GrantApply(h) => now' = now
    BY DEF GrantApply, NotHooks, clock
  <2>2. now' = now
    BY <1>6, <2>1 DEF HookStep, GrantRead, GateLook, ReadRow, Replay, Verify,
         Deliver, BeginTake, Pick, TakeRuled, GateTake, HookStops, NotHooks, clock
  <2> QED BY <1>0, <2>2
<1> QED
  BY <1>1, <1>2, <1>3, <1>4, <1>5, <1>6 DEF Next

\* What is past its hold stays so.
LEMMA GoneStays ==
  ASSUME TypeOK, DecidedBy, MaxBack = 0, [Next]_vars, NEW r \in Request, Gone(r)
  PROVE  Gone(r)'
<1>0. /\ now \in Nat /\ now' \in Nat /\ now <= now'
      /\ row[r] \in Row /\ row[r].expiresAt \in Nat
      /\ row'[r].via = "none" => row'[r].state \notin Decided
  BY ClockRuns, DecidedByStep DEF TypeOK, Row, DecidedBy
<1>1. CASE row'[r] = row[r]
  BY <1>0, <1>1 DEF Gone, HoldOver
<1>2. CASE AMove /\ row'[r] # row[r]
  <2>1. PICK q \in Request, s \in Moved, v \in {"none", "signature", "grant", "ruling"}, a \in Answer :
          LogMove(q, s, v, a)
    BY <1>2 DEF AMove
  <2>2. q = r /\ row'[r].state = s /\ row'[r].via = v
    BY <1>2, <2>1, TransitionRow DEF LogMove
  <2>3. CASE v = "ruling"
    BY <2>2, <2>3 DEF Gone
  <2>4. CASE v = "none"
    BY <1>0, <2>2, <2>4 DEF Gone, Moved, Terminal
  <2>5. CASE v \in {"signature", "grant"}
    <3>1. row[r].state = "pending" /\ ~HoldOver(r)
      BY <2>1, <2>2, <2>5 DEF LogMove
    <3>2. row[r].via = "none"
      BY <3>1 DEF DecidedBy, Decided
    <3> QED BY <3>1, <3>2 DEF Gone
  <2> QED BY <2>3, <2>4, <2>5
<1>3. CASE Sweep /\ row'[r] # row[r]
  <2>1. row'[r] = [row[r] EXCEPT !.state = "expired", !.decidedAt = now,
                                 !.via = "none", !.answer = NoAnswer]
    BY <1>3 DEF Sweep
  <2> QED BY <1>0, <2>1 DEF Gone, Row
<1>4. CASE NoMove /\ row'[r] # row[r]
  <2>1. row[r].state = "unfiled"
    BY <1>4 DEF NoMove
  <2> QED BY <2>1 DEF Gone, DecidedBy, Decided
<1> QED
  BY <1>1, <1>2, <1>3, <1>4, LogSteps

\* A refusal for lateness, kept or on its way, is of a request that is gone.
LateInv ==
  /\ \A c \in Client :
       /\ client[c].pc = "refused"
       /\ client[c].fresh \/ client[c].reason = "approval-window-elapsed"
       => Gone(client[c].rec.request)
  /\ \A e \in refused : e.reason = "approval-window-elapsed" => Gone(e.request)

LEMMA ExpiredRow ==
  ASSUME TypeOK, NEW r \in Request, Expire(r)
  PROVE  row'[r].state = "expired"
<1>1. Transition(r, "expired", "none", NoAnswer) /\ "expired" \in Moved
  BY DEF Expire, Moved, Terminal
<1> QED
  BY <1>1, TransitionRow, NoAnswerType

\* What a client that is refused for lateness was before the step.
LEMMA RefusedFrom ==
  ASSUME TypeOK, [Next]_vars, NEW c \in Client, client'[c].pc = "refused",
         client'[c].fresh \/ client'[c].reason = "approval-window-elapsed"
  PROVE  \/ client'[c] = client[c]
         \/ /\ client[c].pc = "refused" /\ client[c].fresh
            /\ client'[c].rec = client[c].rec
         \/ /\ client'[c].rec.request \in Request
            /\ Gone(client[c].rec.request)'
<1>0. client \in [Client -> ClientState]
  BY DEF TypeOK
<1>1. CASE client' = client
  BY <1>1
<1>2. ASSUME NEW d \in Client, ClientStep(d), d # c PROVE client'[c] = client[c]
  BY <1>0, <1>2 DEF ClientStep, Sign, PostAnswer, ApplyAnswer, PostRuling, ApplyRuling,
       JudgeRefused, KeepRefused, ClientStops, Local
<1>3. ASSUME NEW x, client' = [client EXCEPT ![c] = x]
      PROVE  client'[c] = x
  BY <1>0, <1>3
<1>4. \A rec : NotAuthority(rec).fresh = FALSE
               /\ NotAuthority(rec).reason = "approver-not-authorized"
  BY DEF NotAuthority, Refusal
<1>5. \A rec, b : LET x == Judge(rec, b)
                  IN  x.pc # "refused" \/ (x.fresh = FALSE /\ x.reason = "approver-not-authorized")
  BY <1>4 DEF Judge, Idle
<1>6. CASE ClientStep(c)
  <2>0. PICK rec, r : rec = client[c].rec /\ r = rec.request
    OBVIOUS
  <2>1. ASSUME PostAnswer(c) PROVE r \in Request /\ client'[c].rec = rec /\ Gone(r)'
    <3>1. rec \in Record /\ r \in Request
      BY <2>0, <2>1, ClientRecord DEF PostAnswer, Record
    <3>2. Late(r)
      <4>1. client'[c] = IF Late(r) THEN IF rec.signedAt >= row[r].receivedAt THEN Unjudged(rec) ELSE Idle
                         ELSE IF row[r].state = "pending" /\ rec.signedAt >= row[r].receivedAt
                           THEN Judge(rec, rec.signedAt < row[r].expiresAt)
                         ELSE Idle
        BY <1>0, <2>0, <2>1 DEF PostAnswer, Local
      <4> QED BY <1>5, <4>1 DEF Idle
    <3>3. client'[c].rec = rec
      <4>1. client'[c] = IF rec.signedAt >= row[r].receivedAt THEN Unjudged(rec) ELSE Idle
        BY <1>0, <2>0, <2>1, <3>2 DEF PostAnswer, Local
      <4> QED BY <4>1 DEF Idle, Unjudged, Refusal
    <3>4. now' = now /\ IF Expires(r) THEN Expire(r) ELSE UNCHANGED <<row, log>>
      BY <2>0, <2>1 DEF PostAnswer, NotClients, clock
    <3>5. Gone(r)'
      <4>1. CASE Expires(r)
        <5>1. row'[r].state = "expired"
          BY <3>1, <3>4, <4>1, ExpiredRow
        <5> QED BY <5>1 DEF Gone
      <4>2. CASE ~Expires(r)
        BY <3>2, <3>4, <4>2 DEF Late, Gone, HoldOver
      <4> QED BY <4>1, <4>2
    <3> QED BY <3>1, <3>3, <3>5
  <2>2. ASSUME ApplyAnswer(c) PROVE r \in Request /\ client'[c].rec = rec /\ Gone(r)'
    <3>1. rec \in Record /\ r \in Request
      BY <2>0, <2>2, ClientRecord DEF ApplyAnswer, Record
    <3>2. ~Answerable(r) /\ Late(r) /\ client'[c] = TooLate(rec)
      <4>1. client'[c] = IF Answerable(r) THEN Idle ELSE IF Late(r) THEN TooLate(rec) ELSE Idle
        BY <1>0, <2>0, <2>2 DEF ApplyAnswer, Local
      <4> QED BY <4>1 DEF Idle
    <3>3. client'[c].rec = rec
      BY <3>2 DEF TooLate, Refusal
    <3>4. now' = now /\ IF Expires(r) THEN Expire(r) ELSE UNCHANGED <<row, log>>
      BY <2>0, <2>2, <3>2 DEF ApplyAnswer, NotClients, clock
    <3>5. Gone(r)'
      <4>1. CASE Expires(r)
        <5>1. row'[r].state = "expired"
          BY <3>1, <3>4, <4>1, ExpiredRow
        <5> QED BY <5>1 DEF Gone
      <4>2. CASE ~Expires(r)
        BY <3>2, <3>4, <4>2 DEF Late, Gone, HoldOver
      <4> QED BY <4>1, <4>2
    <3> QED BY <3>1, <3>3, <3>5
  <2>3. ASSUME JudgeRefused(c)
        PROVE  client[c].pc = "refused" /\ client[c].fresh /\ client'[c].rec = rec
    <3>1. client'[c] = IF IsAuthority(rec.signer, rec.decision, rec.request, ActiveKeys)
                         THEN TooLate(rec) ELSE NotAuthority(rec)
      BY <1>0, <2>0, <2>3 DEF JudgeRefused, Local
    <3> QED BY <2>0, <2>3, <3>1 DEF JudgeRefused, TooLate, NotAuthority, Refusal
  <2>4. ~PostRuling(c)
    <3> SUFFICES ASSUME PostRuling(c) PROVE FALSE
      OBVIOUS
    <3>1. client'[c] = Judge(rec, TRUE) \/ client'[c] = Idle
      BY <1>0, <2>0 DEF PostRuling, Local
    <3>2. client'[c] # Idle
      BY DEF Idle
    <3>3. client'[c].fresh # FALSE \/ client'[c].reason # "approver-not-authorized"
      OBVIOUS
    <3> QED BY <1>5, <3>1, <3>2, <3>3
  <2>5. ~(ApplyRuling(c) \/ KeepRefused(c) \/ ClientStops(c))
    <3>1. ApplyRuling(c) \/ KeepRefused(c) \/ ClientStops(c) => client'[c] = Idle
      BY <1>0 DEF ApplyRuling, KeepRefused, ClientStops, Local
    <3> QED BY <3>1 DEF Idle
  <2>6. ~\E q \in Request, k \in Key, d \in Decision, at \in {now, now + Ahead} : Sign(c, q, k, d, at)
    <3>1. \A q \in Request, k \in Key, d \in Decision, at \in {now, now + Ahead} :
            Sign(c, q, k, d, at) => client'[c].pc = "signed"
      BY <1>0 DEF Sign, Local
    <3> QED BY <3>1
  <2> QED
    <3>1. CASE PostAnswer(c) \/ ApplyAnswer(c)
      <4>1. r \in Request /\ client'[c].rec = rec /\ Gone(r)'
        BY <2>1, <2>2, <3>1
      <4>2. client'[c].rec.request = r
        BY <2>0, <4>1
      <4> QED BY <4>1, <4>2 DEF Gone, HoldOver
    <3>2. CASE JudgeRefused(c)
      BY <2>0, <2>3, <3>2
    <3> QED
      BY <1>6, <2>4, <2>5, <2>6, <3>1, <3>2 DEF ClientStep
<1>7. CASE UNCHANGED vars
  BY <1>1, <1>7 DEF vars
<1>8. CASE Clock \/ AuthorityLog
  BY <1>1, <1>8 DEF Clock, AuthorityLog, Tick, StepBack, Enrol, Revoke, WriteGrant,
       RevokeGrant, Authority
<1>9. CASE Store
  <2>1. \A q \in Request, at \in Time : File(q, at) => client' = client
    BY DEF File
  <2> QED
    BY <1>1, <1>9, <2>1 DEF Store, Get, Withdraw, Halt, RecordRan, MarkUndecided, Sweep, CloseUnrun
<1>10. CASE \E h \in Hook : HookStep(h)
  <2>1. \A h \in Hook : GrantApply(h) => client' = client
    BY DEF GrantApply, NotHooks
  <2> QED
    BY <1>1, <1>10, <2>1 DEF HookStep, GrantRead, GateLook, ReadRow, Replay, Verify,
         Deliver, BeginTake, Pick, TakeRuled, GateTake, HookStops, NotHooks
<1>11. CASE \E d \in Client : ClientStep(d)
  BY <1>2, <1>6, <1>11
<1> QED
  BY <1>7, <1>8, <1>9, <1>10, <1>11 DEF Next

\* _record_refused() keeps what a client is refused for.
LEMMA KeptFrom ==
  ASSUME TypeOK, [Next]_vars, NEW e \in refused' \ refused,
         e.reason = "approval-window-elapsed"
  PROVE  \E c \in Client : /\ client[c].pc = "refused"
                          /\ client[c].reason = "approval-window-elapsed"
                          /\ client[c].rec.request = e.request
<1>1. CASE UNCHANGED vars
  BY <1>1 DEF vars
<1>2. CASE Clock \/ AuthorityLog
  BY <1>2 DEF Clock, AuthorityLog, Tick, StepBack, Enrol, Revoke, WriteGrant,
       RevokeGrant, Authority
<1>3. CASE Store
  <2>1. \A r \in Request, at \in Time : File(r, at) => refused' = refused
    BY DEF File
  <2> QED
    BY <1>3, <2>1 DEF Store, Get, Withdraw, Halt, RecordRan, MarkUndecided, Sweep, CloseUnrun
<1>4. ASSUME NEW c \in Client, ClientStep(c)
      PROVE  /\ client[c].pc = "refused"
             /\ client[c].reason = "approval-window-elapsed"
             /\ client[c].rec.request = e.request
  <2>1. CASE KeepRefused(c)
    <3>1. client[c].pc = "refused" /\ e.reason = client[c].reason
          /\ e.request = client[c].rec.request
      BY <2>1 DEF KeepRefused
    <3> QED BY <3>1
  <2> QED
    BY <1>4, <2>1 DEF ClientStep, Sign, PostAnswer, ApplyAnswer, PostRuling, ApplyRuling,
         JudgeRefused, ClientStops
<1>5. CASE \E h \in Hook : HookStep(h)
  <2>1. \A h \in Hook : GrantApply(h) => refused' = refused
    BY DEF GrantApply, NotHooks
  <2> QED
    BY <1>5, <2>1 DEF HookStep, GrantRead, GateLook, ReadRow, Replay, Verify,
         Deliver, BeginTake, Pick, TakeRuled, GateTake, HookStops, NotHooks
<1> QED
  BY <1>1, <1>2, <1>3, <1>4, <1>5 DEF Next

LEMMA LateStep ==
  ASSUME MaxBack = 0
  PROVE  TypeOK /\ DecidedBy /\ LateInv /\ [Next]_vars => LateInv'
<1> SUFFICES ASSUME TypeOK, DecidedBy, LateInv, [Next]_vars PROVE LateInv'
  OBVIOUS
<1>1. ASSUME NEW c \in Client, client[c].pc = "refused",
             client[c].fresh \/ client[c].reason = "approval-window-elapsed"
      PROVE  Gone(client[c].rec.request) /\ client[c].rec.request \in Request
  BY <1>1, ClientRecord DEF LateInv, Record
<1>2. \A r \in Request : Gone(r) => Gone(r)'
  BY GoneStays
<1>3. ASSUME NEW c \in Client, client'[c].pc = "refused",
             client'[c].fresh \/ client'[c].reason = "approval-window-elapsed"
      PROVE  Gone(client[c].rec.request)'
  <2>1. CASE /\ client[c].pc = "refused"
             /\ client[c].fresh \/ client[c].reason = "approval-window-elapsed"
             /\ client'[c].rec = client[c].rec
    <3>1. PICK r \in Request : r = client[c].rec.request /\ Gone(r)
      BY <1>1, <2>1
    <3>2. Gone(r)' /\ client'[c].rec.request = r
      BY <1>2, <2>1, <3>1
    <3> QED BY <3>2 DEF Gone, HoldOver
  <2>2. CASE Gone(client[c].rec.request)'
    BY <2>2
  <2> QED BY <1>3, <2>1, <2>2, RefusedFrom
<1>4. ASSUME NEW e \in refused', e.reason = "approval-window-elapsed"
      PROVE  Gone(e.request)'
  <2>1. CASE e \in refused
    <3>1. e.request \in Request /\ Gone(e.request)
      BY <1>4, <2>1 DEF LateInv, TypeOK, Kept
    <3> QED BY <1>2, <3>1
  <2>2. CASE e \notin refused
    <3>1. PICK c \in Client : /\ client[c].pc = "refused"
                             /\ client[c].reason = "approval-window-elapsed"
                             /\ client[c].rec.request = e.request
      BY <1>4, <2>2, KeptFrom
    <3>2. Gone(e.request) /\ e.request \in Request
      BY <1>1, <3>1
    <3> QED BY <1>2, <3>2
  <2> QED BY <2>1, <2>2
<1> QED
  BY <1>3, <1>4 DEF LateInv

\* While the clock does not step back, answer() files no authorised answer as late
\* on a request that an answer or a grant decides: what is past its hold when it
\* is looked at, under whatever lock, stays past it for every other process.
THEOREM LateStaysLate ==
  ASSUME MaxBack = 0
  PROVE  Spec => []LateNeverAnswered
<1>1. Init => LateInv
  BY DEF Init, LateInv, Idle
<1>2. TypeOK /\ DecidedBy /\ LateInv => LateNeverAnswered
  BY DEF DecidedBy, LateInv, LateNeverAnswered, Gone, Decided, TypeOK, Kept
<1>3. TypeOK /\ DecidedBy /\ LateInv /\ [Next]_vars => LateInv'
  BY LateStep
<1> QED
  BY <1>1, <1>2, <1>3, DecidedByHolds, TypeCorrect, PTL DEF Spec

-----------------------------------------------------------------------------
(* Answers that were taken back.                                           *)

\* What decided a row by an answer or a grant came out of the authority log: the
\* log knows the answer's signer, and the grant's link is one it has given.
AnswerSound ==
  /\ grant <= links
  /\ \A h \in Hook : hook[h].pc = "granting" => hook[h].link \in 1..links
  /\ \A c \in Client : client[c].pc = "checked" =>
                         keys[client[c].rec.signer] # "unknown"
  /\ \A r \in Request :
       /\ row[r].via = "signature" =>
            row[r].answer.signer \in Key /\ keys[row[r].answer.signer] # "unknown"
       /\ row[r].via = "grant" => row[r].answer.link \in 1..links

\* The row q was decided by a key that is revoked for good, or by a link of the
\* grant that will not stand again.
TakenBack(q) ==
  /\ q.via = "signature" => q.answer.signer \in Key /\ keys[q.answer.signer] = "revoked"
  /\ q.via = "grant" => q.answer.link \in 1..links /\ q.answer.link # grant

\* A replay that found these keys and this link does not hold what decided q.
NotHeld(q, active, link) ==
  /\ q.via = "signature" => q.answer.signer \notin active
  /\ q.via = "grant" => q.answer.link # link

\* An answer taken back before its row was read is found so by the replay.
Found(h) ==
  LET got == hook[h].got
  IN  /\ hook[h].pc = "read" => got.stood \/ TakenBack(got.seen)
      /\ hook[h].pc = "replayed" =>
           got.stood \/ NotHeld(got.seen, hook[h].active, hook[h].link)
      /\ hook[h].pc = "decided" => got.stood
LostSound == \A h \in Hook : Found(h)

\* The authority log only grows: a key it knows stays known, a revoked one stays
\* revoked, and a grant is written under a new link.
LEMMA LogGrows ==
  ASSUME TypeOK, [Next]_vars
  PROVE  /\ \A k \in Key : /\ keys[k] # "unknown" => keys'[k] # "unknown"
                           /\ keys[k] = "revoked" => keys'[k] = "revoked"
         /\ \/ links' = links /\ grant' \in {0, grant}
            \/ links' = links + 1 /\ grant' = links + 1
<1>0. keys \in [Key -> {"unknown", "active", "revoked"}]
  BY DEF TypeOK
<1>1. ASSUME UNCHANGED authority
      PROVE  /\ \A k \in Key : /\ keys[k] # "unknown" => keys'[k] # "unknown"
                               /\ keys[k] = "revoked" => keys'[k] = "revoked"
             /\ \/ links' = links /\ grant' \in {0, grant}
                \/ links' = links + 1 /\ grant' = links + 1
  BY <1>1 DEF authority
<1>2. CASE UNCHANGED vars
  BY <1>1, <1>2 DEF vars
<1>3. CASE Clock
  BY <1>1, <1>3 DEF Clock, Tick, StepBack
<1>4. CASE AuthorityLog
  <2>1. ASSUME NEW k \in Key, Enrol(k) \/ Revoke(k)
        PROVE  /\ \A j \in Key : /\ keys[j] # "unknown" => keys'[j] # "unknown"
                                 /\ keys[j] = "revoked" => keys'[j] = "revoked"
               /\ links' = links /\ grant' = grant
    BY <1>0, <2>1 DEF Enrol, Revoke
  <2>2. CASE WriteGrant \/ RevokeGrant
    BY <2>2 DEF WriteGrant, RevokeGrant
  <2> QED BY <1>4, <2>1, <2>2 DEF AuthorityLog
<1>5. CASE Store
  <2>1. \A r \in Request, at \in Time : File(r, at) => UNCHANGED authority
    BY DEF File
  <2> QED
    BY <1>1, <1>5, <2>1 DEF Store, Get, Withdraw, Halt, RecordRan, MarkUndecided, Sweep,
         CloseUnrun
<1>6. CASE \E c \in Client : ClientStep(c)
  <2>1. \A c \in Client : ApplyRuling(c) => UNCHANGED authority
    BY DEF ApplyRuling
  <2> QED
    BY <1>1, <1>6, <2>1 DEF ClientStep, Sign, PostAnswer, ApplyAnswer, PostRuling,
         JudgeRefused, KeepRefused, ClientStops, NotClients
<1>7. CASE \E h \in Hook : HookStep(h)
  <2>1. \A h \in Hook : GrantApply(h) => UNCHANGED authority
    BY DEF GrantApply, NotHooks
  <2> QED
    BY <1>1, <1>7, <2>1 DEF HookStep, GrantRead, GateLook, ReadRow, Replay, Verify,
         Deliver, BeginTake, Pick, TakeRuled, GateTake, HookStops, NotHooks
<1> QED
  BY <1>2, <1>3, <1>4, <1>5, <1>6, <1>7 DEF Next

\* A row is decided by the record a client has checked, or under the link a hook
\* has read.
Answered(r) ==
  \/ /\ row'[r].via = "signature"
     /\ \E c \in Client : /\ client[c].pc = "checked"
                          /\ row'[r].answer.signer = client[c].rec.signer
  \/ /\ row'[r].via = "grant"
     /\ \E h \in Hook : /\ hook[h].pc = "granting"
                        /\ row'[r].answer.link = hook[h].link

LEMMA AnsweredFrom ==
  ASSUME TypeOK, [Next]_vars, NEW r \in Request,
         row'[r].via \in {"signature", "grant"}
  PROVE  row'[r] = row[r] \/ Answered(r)
<1> DEFINE Goal == row'[r] = row[r] \/ Answered(r)
<1>0. /\ row \in [Request -> Row]
      /\ {"withdrawn", "undecided", "expired", "allowed", "denied"} \subseteq Moved
      /\ NoAnswer \in Answer
  BY NoAnswerType DEF TypeOK, Moved, Terminal, Decided
<1>1. ASSUME UNCHANGED row PROVE Goal
  BY <1>1
<1>2. ASSUME NEW q \in Request, Expire(q) PROVE Goal
  BY <1>0, <1>2, TransitionRow DEF Expire
<1>3. CASE UNCHANGED vars
  BY <1>1, <1>3 DEF vars
<1>4. CASE Clock \/ AuthorityLog
  BY <1>1, <1>4 DEF Clock, AuthorityLog, Tick, StepBack, Enrol, Revoke, WriteGrant,
       RevokeGrant, Authority
<1>5. ASSUME Store PROVE Goal
  <2>1. ASSUME NEW q \in Request, NEW at \in Time, File(q, at) PROVE Goal
    BY <1>0, <2>1 DEF File, Unfiled
  <2>2. ASSUME NEW q \in Request, Withdraw(q) PROVE Goal
    BY <1>0, <1>1, <1>2, <2>2, TransitionRow DEF Withdraw
  <2>3. ASSUME NEW q \in Request, NEW halt \in BOOLEAN, MarkUndecided(q, halt) PROVE Goal
    BY <1>0, <1>1, <2>3, TransitionRow DEF MarkUndecided
  <2>4. CASE Sweep
    <3>1. row'[r] = row[r] \/ row'[r] = [row[r] EXCEPT !.state = "expired",
                                    !.decidedAt = now, !.via = "none", !.answer = NoAnswer]
      BY <2>4 DEF Sweep
    <3>2. row[r] \in Row
      BY <1>0
    <3> QED BY <3>1, <3>2 DEF Row
  <2>5. ASSUME NEW q \in Request, RecordRan(q) PROVE Goal
    BY <1>0, <1>1, <1>2, <2>5, TransitionRow DEF RecordRan
  <2>6. ASSUME NEW q \in Request, Get(q) PROVE Goal
    BY <1>2, <2>6 DEF Get
  <2>7. ASSUME NEW q \in Request, Halt(q) PROVE Goal
    BY <1>1, <2>7 DEF Halt
  <2>8. ASSUME NEW s \in Reporting, CloseUnrun(s) PROVE Goal
    BY <1>1, <2>8 DEF CloseUnrun
  <2> HIDE DEF Goal
  <2> QED BY <1>5, <2>1, <2>2, <2>3, <2>4, <2>5, <2>6, <2>7, <2>8 DEF Store
<1>6. ASSUME NEW c \in Client, ClientStep(c) PROVE Goal
  <2> DEFINE rec == client[c].rec
  <2>1. ASSUME client[c].pc \in {"signed", "checked"}
        PROVE  rec \in Record /\ rec.request \in Request
    BY <2>1, ClientRecord DEF Record
  <2>2. CASE PostAnswer(c)
    BY <1>1, <1>2, <2>1, <2>2 DEF PostAnswer
  <2>3. CASE ApplyAnswer(c)
    <3>1. rec \in Record /\ rec.request \in Request /\ client[c].pc = "checked"
      BY <2>1, <2>3 DEF ApplyAnswer
    <3>2. CASE Answerable(rec.request)
      <4>1. /\ Transition(rec.request, StateOf[rec.decision], "signature",
                 [signer |-> rec.signer, signedAt |-> rec.signedAt, link |-> 0])
            /\ StateOf[rec.decision] \in Moved
            /\ [signer |-> rec.signer, signedAt |-> rec.signedAt, link |-> 0] \in Answer
        BY <2>3, <3>1, <3>2, SignedType DEF ApplyAnswer, Moved, Terminal
      <4> HIDE DEF rec
      <4>2. r # rec.request => row'[r] = row[r]
        BY <3>1, <4>1, TransitionRow
      <4>3. /\ row'[rec.request].via = "signature"
            /\ row'[rec.request].answer
                 = [signer |-> rec.signer, signedAt |-> rec.signedAt, link |-> 0]
        BY <3>1, <4>1, TransitionRow
      <4> QED BY <3>1, <4>2, <4>3 DEF Answered, rec
    <3>3. CASE ~Answerable(rec.request)
      BY <1>1, <1>2, <2>3, <3>1, <3>3 DEF ApplyAnswer
    <3> QED BY <3>2, <3>3
  <2>4. CASE ApplyRuling(c)
    <3>1. rec \in Record /\ rec.request \in Request
      BY <2>1, <2>4 DEF ApplyRuling
    <3>2. CASE row[rec.request].state = "undecided" /\ rec.signedAt <= now + Skew
      <4>1. /\ Transition(rec.request, StateOf[rec.decision], "ruling",
                 [signer |-> rec.signer, signedAt |-> rec.signedAt, link |-> 0])
            /\ StateOf[rec.decision] \in Moved
            /\ [signer |-> rec.signer, signedAt |-> rec.signedAt, link |-> 0] \in Answer
        BY <2>4, <3>1, <3>2, SignedType DEF ApplyRuling, Moved, Terminal
      <4> HIDE DEF rec
      <4> QED BY <3>1, <4>1, TransitionRow
    <3>3. CASE ~(row[rec.request].state = "undecided" /\ rec.signedAt <= now + Skew)
      BY <1>1, <2>4, <3>3 DEF ApplyRuling
    <3> QED BY <3>2, <3>3
  <2> HIDE DEF Goal
  <2> QED
    BY <1>1, <1>6, <2>2, <2>3, <2>4 DEF ClientStep, Sign, PostRuling, JudgeRefused,
         KeepRefused, ClientStops
<1>7. ASSUME NEW h \in Hook, HookStep(h) PROVE Goal
  <2>1. CASE GrantApply(h)
    <3> DEFINE q == hook[h].request
    <3>1. q \in Request /\ hook[h].link \in Nat /\ hook[h].pc = "granting"
      BY <2>1, HookStates DEF GrantApply
    <3>2. CASE Answerable(q) /\ q \in Grantable /\ now < GrantUntil
      <4>1. /\ Transition(q, "allowed", "grant", [NoAnswer EXCEPT !.link = hook[h].link])
            /\ [NoAnswer EXCEPT !.link = hook[h].link] \in Answer
        BY <2>1, <3>1, <3>2 DEF GrantApply, NoAnswer, Answer
      <4> HIDE DEF q
      <4>2. r # q => row'[r] = row[r]
        BY <1>0, <3>1, <4>1, TransitionRow
      <4>3. row'[q].via = "grant" /\ row'[q].answer = [NoAnswer EXCEPT !.link = hook[h].link]
        BY <1>0, <3>1, <4>1, TransitionRow
      <4>4. row'[q].answer.link = hook[h].link
        BY <4>3 DEF NoAnswer
      <4> QED BY <3>1, <4>2, <4>3, <4>4 DEF Answered
    <3>3. CASE ~(Answerable(q) /\ q \in Grantable /\ now < GrantUntil)
      BY <1>1, <1>2, <2>1, <3>1, <3>3 DEF GrantApply
    <3> QED BY <3>2, <3>3
  <2> HIDE DEF Goal
  <2> QED
    BY <1>1, <1>7, <2>1 DEF HookStep, GrantRead, GateLook, ReadRow, Replay, Verify,
         Deliver, BeginTake, Pick, TakeRuled, GateTake, HookStops
<1> QED
  BY <1>3, <1>4, <1>5, <1>6, <1>7 DEF Next

\* A hook grants under the link it read.
LEMMA GrantingFrom ==
  ASSUME TypeOK, [Next]_vars, NEW h \in Hook, hook'[h].pc = "granting"
  PROVE  \/ hook'[h] = hook[h]
         \/ UNCHANGED authority /\ grant # 0 /\ hook'[h].link = grant
<1>0. hook \in [Hook -> HookState]
  BY DEF TypeOK
<1>1. CASE hook' = hook
  BY <1>1
<1>2. CASE UNCHANGED vars
  BY <1>1, <1>2 DEF vars
<1>3. CASE Clock \/ AuthorityLog
  BY <1>1, <1>3 DEF Clock, AuthorityLog, Tick, StepBack, Enrol, Revoke, WriteGrant,
       RevokeGrant, Authority
<1>4. CASE Store
  <2>1. \A r \in Request, at \in Time : File(r, at) => hook' = hook
    BY DEF File
  <2> QED
    BY <1>1, <1>4, <2>1 DEF Store, Get, Withdraw, Halt, RecordRan, MarkUndecided, Sweep,
         CloseUnrun
<1>5. CASE \E c \in Client : ClientStep(c)
  BY <1>1, <1>5 DEF ClientStep, Sign, PostAnswer, ApplyAnswer, PostRuling, ApplyRuling,
       JudgeRefused, KeepRefused, ClientStops, NotClients
<1>6. ASSUME NEW g \in Hook, HookStep(g)
      PROVE  \/ hook'[h] = hook[h]
             \/ UNCHANGED authority /\ grant # 0 /\ hook'[h].link = grant
  <2>1. ASSUME NEW state, Step(g, state), state.pc # "granting" PROVE hook'[h] = hook[h]
    BY <1>0, <2>1 DEF Step
  <2>2. ASSUME NEW r \in Request, GrantRead(g, r)
        PROVE  \/ hook'[h] = hook[h]
               \/ UNCHANGED authority /\ grant # 0 /\ hook'[h].link = grant
    BY <1>0, <2>2 DEF GrantRead, Step, NotHooks
  <2>3. CASE Verify(g)
    <3>1. CASE Step(g, Idle)
      BY <2>1, <3>1 DEF Idle
    <3>2. CASE ~Step(g, Idle)
      BY <2>1, <2>3, <3>2 DEF Verify
    <3> QED BY <3>1, <3>2
  <2>4. CASE Pick(g)
    <3>1. CASE Step(g, Idle)
      BY <2>1, <3>1 DEF Idle
    <3>2. CASE ~Step(g, Idle)
      BY <2>1, <2>4, <3>2 DEF Pick
    <3> QED BY <3>1, <3>2
  <2>5. CASE TakeRuled(g)
    BY <2>1, <2>5 DEF TakeRuled, Idle
  <2>6. GrantApply(g) \/ GateTake(g) \/ Deliver(g) \/ HookStops(g) => Step(g, Idle)
    BY DEF GrantApply, GateTake, Deliver, HookStops
  <2> QED
    BY <1>6, <2>1, <2>2, <2>3, <2>4, <2>5, <2>6
    DEF HookStep, GateLook, ReadRow, Replay, BeginTake, Idle
<1> QED
  BY <1>2, <1>3, <1>4, <1>5, <1>6 DEF Next

\* A client checks a record under an active key.
LEMMA CheckedFrom ==
  ASSUME TypeOK, [Next]_vars, NEW c \in Client, client'[c].pc = "checked"
  PROVE  \/ client'[c] = client[c]
         \/ UNCHANGED authority /\ keys[client'[c].rec.signer] = "active"
<1> DEFINE Goal == \/ client'[c] = client[c]
                   \/ UNCHANGED authority /\ keys[client'[c].rec.signer] = "active"
<1>0. client \in [Client -> ClientState]
  BY DEF TypeOK
<1>1. ASSUME client' = client PROVE Goal
  BY <1>1
<1>2. CASE UNCHANGED vars
  BY <1>1, <1>2 DEF vars
<1>3. CASE Clock \/ AuthorityLog
  BY <1>1, <1>3 DEF Clock, AuthorityLog, Tick, StepBack, Enrol, Revoke, WriteGrant,
       RevokeGrant, Authority
<1>4. CASE Store
  <2>1. \A q \in Request, at \in Time : File(q, at) => client' = client
    BY DEF File
  <2> QED
    BY <1>1, <1>4, <2>1 DEF Store, Get, Withdraw, Halt, RecordRan, MarkUndecided, Sweep,
         CloseUnrun
<1>5. CASE \E h \in Hook : HookStep(h)
  <2>1. \A h \in Hook : GrantApply(h) => client' = client
    BY DEF GrantApply, NotHooks
  <2> QED
    BY <1>1, <1>5, <2>1 DEF HookStep, GrantRead, GateLook, ReadRow, Replay, Verify,
         Deliver, BeginTake, Pick, TakeRuled, GateTake, HookStops, NotHooks
<1>6. ASSUME NEW d \in Client, ClientStep(d) PROVE Goal
  <2>1. ASSUME NEW state, Local(d, state), state.pc # "checked" PROVE Goal
    BY <1>0, <2>1 DEF Local
  <2>2. ASSUME NEW rec \in Record, NEW inOrder \in BOOLEAN, Local(d, Judge(rec, inOrder)),
               UNCHANGED authority
        PROVE  Goal
    <3>1. CASE Judge(rec, inOrder).pc # "checked"
      BY <2>1, <2>2, <3>1
    <3>2. CASE Judge(rec, inOrder).pc = "checked"
      <4>1. /\ Judge(rec, inOrder) = [pc |-> "checked", rec |-> rec]
            /\ keys[rec.signer] = "active"
        BY <3>2 DEF Judge, NotAuthority, Refusal, Idle, IsAuthority, ActiveKeys
      <4> QED BY <1>0, <2>2, <4>1 DEF Local
    <3> QED BY <3>1, <3>2
  <2>3. ASSUME client[d].pc \in {"signed", "checked", "refused"}
        PROVE  client[d].rec \in Record
    BY <2>3, ClientRecord
  <2>4. \A rec : /\ Unjudged(rec).pc = "refused" /\ TooLate(rec).pc = "refused"
                 /\ NotAuthority(rec).pc = "refused" /\ Idle.pc = "idle"
    BY DEF Unjudged, TooLate, NotAuthority, Refusal, Idle
  <2>5. CASE PostAnswer(d)
    <3> DEFINE rec == client[d].rec
               inOrder == rec.signedAt < row[rec.request].expiresAt
    <3>1. rec \in Record /\ inOrder \in BOOLEAN /\ UNCHANGED authority
      BY <2>3, <2>5 DEF PostAnswer, NotClients
    <3>2. \/ Local(d, Unjudged(rec)) \/ Local(d, Idle)
          \/ Local(d, Judge(rec, inOrder))
      BY <2>5 DEF PostAnswer
    <3> HIDE DEF Goal, rec, inOrder
    <3> QED BY <2>1, <2>2, <2>4, <3>1, <3>2
  <2>6. CASE PostRuling(d)
    BY <2>1, <2>2, <2>3, <2>4, <2>6 DEF PostRuling, NotClients
  <2>7. CASE ApplyAnswer(d)
    BY <2>1, <2>4, <2>7 DEF ApplyAnswer
  <2>8. CASE ApplyRuling(d) \/ KeepRefused(d) \/ ClientStops(d)
    BY <2>1, <2>4, <2>8 DEF ApplyRuling, KeepRefused, ClientStops
  <2>9. CASE JudgeRefused(d)
    BY <2>1, <2>4, <2>9 DEF JudgeRefused
  <2>10. ASSUME NEW q \in Request, NEW k \in Key, NEW e \in Decision,
                NEW at \in {now, now + Ahead}, Sign(d, q, k, e, at)
         PROVE  Goal
    BY <2>1, <2>10 DEF Sign
  <2> HIDE DEF Goal
  <2> QED
    BY <1>6, <2>5, <2>6, <2>7, <2>8, <2>9, <2>10 DEF ClientStep
<1> QED
  BY <1>2, <1>3, <1>4, <1>5, <1>6 DEF Next

LEMMA AnswerSoundStep == TypeOK /\ AnswerSound /\ [Next]_vars => AnswerSound'
<1> SUFFICES ASSUME TypeOK, AnswerSound, [Next]_vars PROVE AnswerSound'
  OBVIOUS
<1>0. /\ grant \in Nat /\ links \in Nat /\ grant <= links
      /\ keys \in [Key -> {"unknown", "active", "revoked"}]
      /\ client \in [Client -> ClientState]
  BY BoundAssumption DEF TypeOK, AnswerSound
<1>1. links' \in Nat /\ links <= links' /\ grant' <= links'
  BY <1>0, LogGrows
<1>2. ASSUME NEW h \in Hook, hook'[h].pc = "granting"
      PROVE  hook'[h].link \in 1..links'
  <2>1. CASE hook'[h] = hook[h]
    BY <1>0, <1>1, <1>2, <2>1 DEF AnswerSound
  <2>2. CASE UNCHANGED authority /\ grant # 0 /\ hook'[h].link = grant
    BY <1>0, <2>2 DEF authority
  <2> QED BY <1>2, <2>1, <2>2, GrantingFrom
<1>3. ASSUME NEW c \in Client, client'[c].pc = "checked"
      PROVE  keys'[client'[c].rec.signer] # "unknown"
  <2>1. CASE client'[c] = client[c]
    <3>1. client[c].rec.signer \in Key
      BY <1>3, <2>1, ClientRecord DEF Record
    <3> QED BY <1>3, <2>1, <3>1, LogGrows DEF AnswerSound
  <2>2. CASE UNCHANGED authority /\ keys[client'[c].rec.signer] = "active"
    BY <2>2 DEF authority
  <2> QED BY <1>3, <2>1, <2>2, CheckedFrom
<1>4. ASSUME NEW r \in Request, row'[r].via \in {"signature", "grant"}
      PROVE  /\ row'[r].via = "signature" =>
                  /\ row'[r].answer.signer \in Key
                  /\ keys'[row'[r].answer.signer] # "unknown"
             /\ row'[r].via = "grant" => row'[r].answer.link \in 1..links'
  <2>1. CASE row'[r] = row[r]
    <3>1. /\ row[r].via = "signature" =>
                row[r].answer.signer \in Key /\ keys[row[r].answer.signer] # "unknown"
          /\ row[r].via = "grant" => row[r].answer.link \in 1..links
      BY DEF AnswerSound
    <3> QED BY <1>0, <1>1, <2>1, <3>1, LogGrows
  <2>2. ASSUME row'[r].via = "signature", NEW c \in Client, client[c].pc = "checked",
               row'[r].answer.signer = client[c].rec.signer
        PROVE  row'[r].answer.signer \in Key /\ keys'[row'[r].answer.signer] # "unknown"
    <3>1. client[c].rec.signer \in Key
      BY <2>2, ClientRecord DEF Record
    <3> QED BY <2>2, <3>1, LogGrows DEF AnswerSound
  <2>3. ASSUME row'[r].via = "grant", NEW h \in Hook, hook[h].pc = "granting",
               row'[r].answer.link = hook[h].link
        PROVE  row'[r].answer.link \in 1..links'
    BY <1>0, <1>1, <2>3 DEF AnswerSound
  <2> QED
    BY <1>4, <2>1, <2>2, <2>3, AnsweredFrom DEF Answered
<1> QED
  BY <1>1, <1>2, <1>3, <1>4 DEF AnswerSound

LEMMA LostSoundStep ==
  TypeOK /\ AnswerSound /\ ReadSound /\ LostSound /\ [Next]_vars => LostSound'
<1> SUFFICES ASSUME TypeOK, AnswerSound, ReadSound, LostSound, [Next]_vars, NEW h \in Hook
             PROVE  Found(h)'
  BY DEF LostSound
<1>0. /\ grant \in Nat /\ links \in Nat /\ grant <= links
      /\ keys \in [Key -> {"unknown", "active", "revoked"}]
      /\ Found(h)
  BY BoundAssumption DEF TypeOK, AnswerSound, LostSound
<1>1. CASE hook'[h] = hook[h]
  <2>1. ASSUME TakenBack(hook[h].got.seen) PROVE TakenBack(hook[h].got.seen)'
    BY <1>0, <1>1, <2>1, LogGrows DEF TakenBack
  <2> QED BY <1>0, <1>1, <2>1 DEF Found, NotHeld
<1>2. CASE UNCHANGED <<row, authority>> /\ Reads(h)
  <2> DEFINE q == hook'[h].got.seen
  <2>1. /\ hook'[h].pc = "read"
        /\ hook'[h].got.request \in Request
        /\ q = row[hook'[h].got.request]
        /\ hook'[h].got.stood = InForce(q)
        /\ keys' = keys /\ links' = links /\ grant' = grant
    BY <1>2 DEF Reads, authority
  <2>2. /\ q.via = "signature" =>
             q.answer.signer \in Key /\ keys[q.answer.signer] # "unknown"
        /\ q.via = "grant" => q.answer.link \in 1..links
    BY <2>1 DEF AnswerSound
  <2>3. q.state \in Decided
    BY <1>2 DEF Reads
  <2>4. InForce(q) \/ /\ q.via = "signature" =>
                           q.answer.signer \in Key /\ keys[q.answer.signer] = "revoked"
                      /\ q.via = "grant" =>
                           q.answer.link \in 1..links /\ q.answer.link # grant
    <3> HIDE DEF q
    <3> QED BY <1>0, <2>2 DEF InForce, ActiveKeys
  <2> QED BY <2>1, <2>4 DEF Found, TakenBack
<1>3. CASE UNCHANGED <<row, authority>> /\ Replays(h)
  <2>1. hook[h].got.stood \/ TakenBack(hook[h].got.seen)
    BY <1>0, <1>3 DEF Replays, Found
  <2>2. TakenBack(hook[h].got.seen) => NotHeld(hook[h].got.seen, ActiveKeys, grant)
    BY DEF TakenBack, NotHeld, ActiveKeys
  <2>3. /\ hook'[h].pc = "replayed" /\ hook'[h].got = hook[h].got
        /\ hook'[h].active = ActiveKeys /\ hook'[h].link = grant
    BY <1>3 DEF Replays
  <2> QED BY <2>1, <2>2, <2>3 DEF Found, NotHeld
<1>4. CASE UNCHANGED <<row, authority>> /\ Verifies(h)
  <2>1. /\ hook[h].got.stood \/ NotHeld(hook[h].got.seen, hook[h].active, hook[h].link)
        /\ Deliverable(hook[h].got.seen, hook[h].got.request, hook[h].active, hook[h].link)
    BY <1>0, <1>4 DEF Verifies, Found
  <2>2. ~NotHeld(hook[h].got.seen, hook[h].active, hook[h].link)
    BY <2>1 DEF NotHeld, Deliverable, StoredVerifies, GrantStands, IsAuthority
  <2>3. hook'[h].pc = "decided" /\ hook'[h].got = hook[h].got
    BY <1>4 DEF Verifies
  <2> QED BY <2>1, <2>2, <2>3 DEF Found
<1>5. CASE hook'[h].pc \notin {"read", "replayed", "decided"}
  BY <1>5 DEF Found
<1> QED
  BY <1>1, <1>2, <1>3, <1>4, <1>5, ReadingFrom

\* decision() and take_gate_allow() never hold a decision that was taken back
\* before they read its row: keys and links of the grant do not come back, so the
\* replay that follows the read finds the answer's key revoked or its link gone.
THEOREM TakenBackKept == Spec => []AnswersInForce
<1>1. Init => AnswerSound /\ LostSound
  BY KeyAssumption DEF Init, AnswerSound, LostSound, Found, Idle, Unfiled
<1>2. LostSound => AnswersInForce
  BY DEF LostSound, Found, AnswersInForce
<1> QED
  BY <1>1, <1>2, AnswerSoundStep, LostSoundStep, ReadSoundHolds, TypeCorrect, PTL DEF Spec
=============================================================================
