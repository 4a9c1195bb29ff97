------------------------- MODULE ConsentQueueProofs -------------------------
(***************************************************************************)
(* Theorems about ConsentQueue, for every number of requests, keys,        *)
(* clients and hooks and every length of a hold.                           *)
(***************************************************************************)
EXTENDS ConsentQueue, FiniteSetTheorems, TLAPS

-----------------------------------------------------------------------------
(* The state of the rows.                                                  *)

\* A move writes a well-formed row and its receipt.
LEMMA TransitionType ==
  ASSUME TypeOK, NEW r \in Request, NEW s \in Moved,
         NEW v \in {"none", "signature", "grant", "ruling"}, NEW a \in Answer,
         Transition(r, s, v, a)
  PROVE  /\ row' \in [Request -> Row]
         /\ receipts' \in [Request -> [Moved -> Nat]]
         /\ lastSeq' \in Nat
<1>1. now \in Nat
  BY BoundAssumption DEF TypeOK, Time
<1>2. row \in [Request -> Row] /\ receipts \in [Request -> [Moved -> Nat]] /\ lastSeq \in Nat
  BY DEF TypeOK
<1>3. [row[r] EXCEPT !.state = s, !.decidedAt = now, !.via = v, !.answer = a] \in Row
  BY <1>1, <1>2 DEF Row
<1>4. [receipts[r] EXCEPT ![s] = lastSeq + 1] \in [Moved -> Nat]
  BY <1>2
<1> QED
  BY <1>1, <1>2, <1>3, <1>4 DEF Transition

LEMMA NoAnswerType == NoAnswer \in Answer
  BY DEF NoAnswer, Answer

\* A signed record as a row stores it.
LEMMA SignedType ==
  ASSUME NEW rec \in Record
  PROVE  /\ [signer |-> rec.signer, signedAt |-> rec.signedAt, link |-> 0] \in Answer
         /\ StateOf[rec.decision] \in Decided
  BY DEF Record, Answer, StateOf, Decided, Decision

\* What a client that is not idle holds.
LEMMA ClientRecord ==
  ASSUME TypeOK, NEW c \in Client, client[c].pc \in {"signed", "checked", "refused"}
  PROVE  client[c].rec \in Record
  BY DEF TypeOK, ClientState, Idle

\* r's gap, halt and release stay as they are.
SameSession(r) == /\ gap'[r] = gap[r]
                  /\ r \in halts' <=> r \in halts
                  /\ r \in releases' <=> r \in releases

\* The ways a step may change what the tables hold of a request, each with the
\* condition it is made under.
Moves(r) ==
  \/ /\ row'[r] = row[r]
     /\ \/ SameSession(r)
        \/ /\ row[r].state = "undecided"
           /\ gap'[r] = gap[r]
           /\ r \in releases' <=> r \in releases
  \/ /\ row[r].state = "unfiled"
     /\ row'[r].state = "pending"
     /\ row'[r].via = "none"
     /\ SameSession(r)
  \/ /\ row[r].state = "pending"
     /\ row'[r].state \in {"expired", "withdrawn"}
     /\ row'[r].state = "expired" =>
          row'[r].decidedAt >= row'[r].expiresAt + Grace
     /\ row'[r].via = "none"
     /\ SameSession(r)
  \/ /\ row[r].state = "pending"
     /\ row'[r].state = "undecided"
     /\ row'[r].via = "none"
     /\ gap'[r] # 0
     /\ r \in releases' <=> r \in releases
  \/ /\ row[r].state = "pending"
     /\ row'[r].state \in Decided
     /\ row'[r].via \in {"signature", "grant"}
     /\ row'[r].decidedAt < row'[r].expiresAt
     /\ SameSession(r)
  \/ /\ row[r].state = "undecided"
     /\ row'[r].state \in Decided
     /\ row'[r].via = "ruling"
     /\ gap'[r] = gap[r]
     /\ r \in halts' <=> r \in halts
     /\ r \in releases' <=> r \in halts \cup releases

\* Transition moves one row and leaves the others alone.
LEMMA TransitionRow ==
  ASSUME TypeOK, NEW r \in Request, NEW s \in Moved,
         NEW v \in {"none", "signature", "grant", "ruling"}, NEW a \in Answer,
         Transition(r, s, v, a)
  PROVE  /\ \A q \in Request \ {r} : row'[q] = row[q]
         /\ row'[r].state = s
         /\ row'[r].via = v
         /\ row'[r].answer = a
         /\ row'[r].decidedAt = now
         /\ row'[r].expiresAt = row[r].expiresAt
<1>1. row \in [Request -> Row]
  BY DEF TypeOK
<1> QED
  BY <1>1 DEF Transition, Row

LEMMA ExpireMoves ==
  ASSUME TypeOK, NEW r \in Request, Expires(r), Expire(r), UNCHANGED sessions
  PROVE  \A q \in Request : Moves(q)
<1>1. Transition(r, "expired", "none", NoAnswer)
  BY DEF Expire
<1>2. "expired" \in Moved
  BY DEF Moved, Terminal, Decided
<1> QED
  BY <1>1, <1>2, TransitionRow, NoAnswerType
  DEF Moves, SameSession, sessions, Expires, ExpiryDue

\* Every step changes rows in these ways only, whatever process takes it.
LEMMA RowMoves ==
  ASSUME TypeOK, [Next]_vars
  PROVE  \A r \in Request : Moves(r)
<1> USE DEF TypeOK
<1>0. /\ row \in [Request -> Row]
      /\ {"withdrawn", "undecided", "allowed", "denied"} \subseteq Moved
      /\ NoAnswer \in Answer
  BY NoAnswerType DEF Moved, Terminal, Decided
<1>1. ASSUME row' = row, UNCHANGED sessions PROVE \A r \in Request : Moves(r)
  BY <1>1 DEF Moves, SameSession, sessions
<1>2. ASSUME NEW q \in Request, NEW at \in Time, File(q, at) PROVE \A r \in Request : Moves(r)
  BY <1>0, <1>2 DEF File, Moves, SameSession, sessions, Unfiled, Row
<1>3. ASSUME NEW q \in Request, Get(q) PROVE \A r \in Request : Moves(r)
  BY <1>3, ExpireMoves DEF Get
<1>4. ASSUME NEW q \in Request, Withdraw(q) PROVE \A r \in Request : Moves(r)
  <2>1. CASE ExpiryDue(q)
    BY <1>4, <2>1, ExpireMoves DEF Withdraw, Expires
  <2>2. CASE ~ExpiryDue(q)
    BY <1>0, <1>4, <2>2, TransitionRow DEF Withdraw, Moves, SameSession, sessions
  <2> QED BY <2>1, <2>2
<1>5. ASSUME NEW q \in Request, RecordRan(q) PROVE \A r \in Request : Moves(r)
  BY <1>0, <1>1, <1>5, TransitionRow DEF RecordRan, Moves, SameSession, sessions
<1>6. ASSUME NEW q \in Request, NEW halt \in BOOLEAN, MarkUndecided(q, halt)
      PROVE  \A r \in Request : Moves(r)
  <2>1. CASE row[q].state = "undecided"
    BY <1>6, <2>1 DEF MarkUndecided, Moves, SameSession
  <2>2. CASE row[q].state = "pending"
    <3>1. Transition(q, "undecided", "none", NoAnswer)
      BY <1>6, <2>2 DEF MarkUndecided
    <3>2. /\ \A r \in Request \ {q} : row'[r] = row[r]
          /\ row'[q].state = "undecided" /\ row'[q].via = "none"
      BY <1>0, <3>1, TransitionRow
    <3>3. PICK g \in 1..Cardinality(Request) : gap' = [gap EXCEPT ![q] = g]
      BY <1>6, <2>2 DEF MarkUndecided
    <3> QED
      BY <1>6, <2>2, <3>2, <3>3 DEF MarkUndecided, Moves, SameSession
  <2> QED BY <1>6, <2>1, <2>2 DEF MarkUndecided
<1>7. ASSUME Sweep PROVE \A r \in Request : Moves(r)
  <2> SUFFICES ASSUME NEW r \in Request PROVE Moves(r)
    OBVIOUS
  <2>1. CASE Expires(r)
    <3>1. row'[r] = [row[r] EXCEPT !.state = "expired", !.decidedAt = now,
                                   !.via = "none", !.answer = NoAnswer]
      BY <1>7, <2>1 DEF Sweep
    <3>2. row[r] \in Row
      BY <1>0
    <3>3. /\ row'[r].state = "expired" /\ row'[r].via = "none"
          /\ row'[r].decidedAt = now /\ row'[r].expiresAt = row[r].expiresAt
      BY <3>1, <3>2 DEF Row
    <3> QED
      BY <1>7, <2>1, <3>3 DEF Sweep, Moves, SameSession, sessions, Expires, ExpiryDue
  <2>2. CASE ~Expires(r)
    BY <1>7, <2>2 DEF Sweep, Moves, SameSession, sessions
  <2> QED BY <2>1, <2>2
<1>8. ASSUME NEW q \in Request, Halt(q) PROVE \A r \in Request : Moves(r)
  BY <1>8 DEF Halt, MayHalt, Moves, SameSession
<1>9. ASSUME NEW c \in Client, PostAnswer(c) PROVE \A r \in Request : Moves(r)
  <2>1. client[c].rec.request \in Request
    BY <1>9, ClientRecord DEF PostAnswer, Record
  <2> QED
    BY <1>1, <1>9, <2>1, ExpireMoves DEF PostAnswer, NotClients
<1>10. ASSUME NEW c \in Client, ApplyAnswer(c) PROVE \A r \in Request : Moves(r)
  <2> DEFINE rec == client[c].rec
  <2>1. rec \in Record /\ rec.request \in Request
    BY <1>10, ClientRecord DEF ApplyAnswer, Record
  <2>2. CASE Answerable(rec.request)
    <3>1. Transition(rec.request, StateOf[rec.decision], "signature",
            [signer |-> rec.signer, signedAt |-> rec.signedAt, link |-> 0])
      BY <1>10, <2>2 DEF ApplyAnswer
    <3>2. /\ row[rec.request].state = "pending"
          /\ now < row[rec.request].expiresAt
      BY <1>0, <2>1, <2>2, BoundAssumption DEF Answerable, HoldOver, Row, Time
    <3>3. /\ StateOf[rec.decision] \in Decided \cap Moved
          /\ [signer |-> rec.signer, signedAt |-> rec.signedAt, link |-> 0] \in Answer
      BY <2>1, SignedType DEF Moved, Terminal
    <3>4. UNCHANGED sessions
      BY <1>10 DEF ApplyAnswer, NotClients
    <3> HIDE DEF rec
    <3> QED
      BY <2>1, <3>1, <3>2, <3>3, <3>4, TransitionRow DEF Moves, SameSession, sessions
  <2>3. CASE ~Answerable(rec.request)
    BY <1>1, <1>10, <2>1, <2>3, ExpireMoves DEF ApplyAnswer, NotClients
  <2> QED BY <2>2, <2>3
<1>11. ASSUME NEW c \in Client, ApplyRuling(c) PROVE \A r \in Request : Moves(r)
  <2> DEFINE rec == client[c].rec
  <2>1. rec \in Record /\ rec.request \in Request
    BY <1>11, ClientRecord DEF ApplyRuling, Record
  <2>2. CASE row[rec.request].state = "undecided" /\ rec.signedAt <= now + Skew
    <3>1. Transition(rec.request, StateOf[rec.decision], "ruling",
            [signer |-> rec.signer, signedAt |-> rec.signedAt, link |-> 0])
      BY <1>11, <2>2 DEF ApplyRuling
    <3>2. /\ StateOf[rec.decision] \in Decided \cap Moved
          /\ [signer |-> rec.signer, signedAt |-> rec.signedAt, link |-> 0] \in Answer
      BY <2>1, SignedType DEF Moved, Terminal
    <3>3. /\ releases' = releases \cup ({rec.request} \cap halts)
          /\ UNCHANGED <<gap, halts>>
      BY <1>11, <2>2 DEF ApplyRuling
    <3> HIDE DEF rec
    <3> QED
      BY <2>1, <2>2, <3>1, <3>2, <3>3, TransitionRow DEF Moves, SameSession
  <2>3. CASE ~(row[rec.request].state = "undecided" /\ rec.signedAt <= now + Skew)
    BY <1>1, <1>11, <2>3 DEF ApplyRuling, sessions
  <2> QED BY <2>2, <2>3
<1>12. ASSUME NEW h \in Hook, GrantApply(h) PROVE \A r \in Request : Moves(r)
  <2> DEFINE q == hook[h].request
  <2>1. q \in Request /\ [NoAnswer EXCEPT !.link = hook[h].link] \in Answer
    BY <1>12 DEF GrantApply, HookState, Idle, NoAnswer, Answer
  <2>2. CASE Answerable(q) /\ q \in Grantable /\ now < GrantUntil
    <3>1. Transition(q, "allowed", "grant", [NoAnswer EXCEPT !.link = hook[h].link])
      BY <1>12, <2>2 DEF GrantApply
    <3>2. row[q].state = "pending" /\ now < row[q].expiresAt
      BY <1>0, <2>1, <2>2, BoundAssumption DEF Answerable, HoldOver, Row, Time
    <3>3. UNCHANGED sessions
      BY <1>12 DEF GrantApply, NotHooks
    <3> QED
      BY <1>0, <2>1, <3>1, <3>2, <3>3, TransitionRow
      DEF Moves, SameSession, sessions, Decided
  <2>3. CASE ~(Answerable(q) /\ q \in Grantable /\ now < GrantUntil)
    BY <1>1, <1>12, <2>1, <2>3, ExpireMoves DEF GrantApply, NotHooks
  <2> QED BY <2>2, <2>3
<1>13. CASE UNCHANGED vars
  BY <1>1, <1>13 DEF vars
<1>14. CASE Clock \/ AuthorityLog
  BY <1>1, <1>14 DEF Clock, AuthorityLog, Tick, StepBack, Enrol, Revoke,
       WriteGrant, RevokeGrant, Authority
<1>15. CASE Store
  BY <1>1, <1>2, <1>3, <1>4, <1>5, <1>6, <1>7, <1>8, <1>15 DEF Store, CloseUnrun
<1>16. ASSUME NEW c \in Client, ClientStep(c) PROVE \A r \in Request : Moves(r)
  BY <1>1, <1>9, <1>10, <1>11, <1>16 DEF ClientStep, Sign, PostRuling, JudgeRefused,
       KeepRefused, ClientStops, NotClients
<1>17. ASSUME NEW h \in Hook, HookStep(h) PROVE \A r \in Request : Moves(r)
  BY <1>1, <1>12, <1>17 DEF HookStep, GrantRead, GateLook, ReadRow, Replay, Verify,
       Deliver, BeginTake, Pick, TakeRuled, GateTake, HookStops, NotHooks
<1> QED
  BY <1>13, <1>14, <1>15, <1>16, <1>17 DEF Next

-----------------------------------------------------------------------------
(* Type correctness.                                                       *)

\* The states a client goes through.
LEMMA ClientStates ==
  ASSUME NEW rec \in Record, TypeOK
  PROVE  /\ Idle \in ClientState
         /\ [pc |-> "signed", rec |-> rec] \in ClientState
         /\ Unjudged(rec) \in ClientState
         /\ TooLate(rec) \in ClientState
         /\ NotAuthority(rec) \in ClientState
         /\ [pc |-> "checked", rec |-> rec] \in ClientState
<1>1. /\ Idle \in ClientState
      /\ [pc |-> "signed", rec |-> rec] \in ClientState
      /\ [pc |-> "checked", rec |-> rec] \in ClientState
  BY DEF ClientState
<1>2. ASSUME NEW fresh \in BOOLEAN, NEW enrolled \in BOOLEAN,
             NEW reason \in {"approver-not-authorized", "approval-window-elapsed"}
      PROVE  Refusal(rec, fresh, reason, enrolled) \in ClientState
  BY DEF Refusal, ClientState
<1>3. Unjudged(rec) \in ClientState /\ TooLate(rec) \in ClientState
  BY <1>2 DEF Unjudged, TooLate
<1>4. NotAuthority(rec) \in ClientState
  BY <1>2 DEF NotAuthority
<1> QED
  BY <1>1, <1>3, <1>4

\* The states a hook goes through.
LEMMA HookStates ==
  ASSUME TypeOK, NEW h \in Hook
  PROVE  /\ Idle \in HookState
         /\ \A r \in Request, link \in Nat :
              [pc |-> "granting", request |-> r, link |-> link] \in HookState
         /\ \A r \in Request : [pc |-> "looked", request |-> r] \in HookState
         /\ \A got \in Reading :
              /\ [pc |-> "read", got |-> got] \in HookState
              /\ [pc |-> "decided", got |-> got] \in HookState
              /\ \A active \in SUBSET Key, link \in Nat :
                   [pc |-> "replayed", got |-> got, active |-> active,
                    link |-> link] \in HookState
         /\ \A c \in Call, active \in SUBSET Key, tries \in 1..2 :
              /\ [pc |-> "picking", call |-> c, active |-> active,
                  tries |-> tries] \in HookState
              /\ \A r \in Request, seq \in Nat :
                   [pc |-> "picked", call |-> c, active |-> active, tries |-> tries,
                    request |-> r, seq |-> seq] \in HookState
         /\ hook[h].pc = "granting" =>
              hook[h].request \in Request /\ hook[h].link \in Nat
         /\ hook[h].pc = "looked" => hook[h].request \in Request
         /\ hook[h].pc \in {"read", "replayed", "decided"} =>
              hook[h].got \in Reading /\ hook[h].got.request \in Request
         /\ hook[h].pc \in {"picking", "picked"} =>
              /\ hook[h].call \in Call
              /\ hook[h].active \in SUBSET Key
              /\ hook[h].tries \in 1..2
         /\ hook[h].pc = "picked" =>
              hook[h].request \in Request /\ hook[h].seq \in Nat
<1>1. hook[h] \in HookState
  BY DEF TypeOK
<1> QED
  BY <1>1 DEF HookState, Idle, Reading

LEMMA ExpireType ==
  ASSUME TypeOK, NEW r \in Request, Expire(r)
  PROVE  /\ row' \in [Request -> Row]
         /\ receipts' \in [Request -> [Moved -> Nat]]
         /\ lastSeq' \in Nat
<1>1. Transition(r, "expired", "none", NoAnswer) /\ "expired" \in Moved
  BY DEF Expire, Moved, Terminal
<1> QED
  BY <1>1, TransitionType, NoAnswerType

\* Every client step keeps its local state, the rows and the log well-formed.
LEMMA ClientKeepsType ==
  ASSUME TypeOK, NEW c \in Client, ClientStep(c)
  PROVE  TypeOK'
<1> DEFINE rec == client[c].rec
           Store4 == /\ row' \in [Request -> Row]
                     /\ receipts' \in [Request -> [Moved -> Nat]]
                     /\ lastSeq' \in Nat
<1>1. ASSUME NEW r \in Request, NEW k \in Key, NEW d \in Decision,
             NEW at \in {now, now + Ahead}, Sign(c, r, k, d, at)
      PROVE  TypeOK'
  <2>1. \A kind \in {"answer", "ruling"} :
          [kind |-> kind, request |-> r, decision |-> d, signer |-> k,
           signedAt |-> at] \in Record
    BY <1>1, BoundAssumption DEF Record, TypeOK, Time
  <2>2. client' \in [Client -> ClientState]
    BY <1>1, <2>1, ClientStates DEF Sign, Local, TypeOK
  <2> QED
    BY <1>1, <2>2 DEF TypeOK, Sign, NotClients, clock, authority, log, sessions
<1>2. ASSUME client[c].pc \in {"signed", "checked", "refused"}
      PROVE  rec \in Record /\ rec.request \in Request
  BY <1>2, ClientRecord DEF Record
<1>3. CASE PostAnswer(c)
  <2>1. rec \in Record /\ rec.request \in Request
    BY <1>2, <1>3 DEF PostAnswer
  <2>2. Store4
    BY <1>3, <2>1, ExpireType DEF PostAnswer, TypeOK, log
  <2>3. client' \in [Client -> ClientState]
    BY <1>3, <2>1, ClientStates DEF PostAnswer, Judge, Local, TypeOK
  <2> QED
    BY <1>3, <2>2, <2>3 DEF TypeOK, PostAnswer, NotClients, clock, authority, sessions
<1>4. CASE ApplyAnswer(c)
  <2>1. rec \in Record /\ rec.request \in Request
    BY <1>2, <1>4 DEF ApplyAnswer
  <2>2. Store4
    <3>1. CASE Answerable(rec.request)
      <4>1. Transition(rec.request, StateOf[rec.decision], "signature",
              [signer |-> rec.signer, signedAt |-> rec.signedAt, link |-> 0])
        BY <1>4, <3>1 DEF ApplyAnswer
      <4>2. /\ StateOf[rec.decision] \in Moved
            /\ [signer |-> rec.signer, signedAt |-> rec.signedAt, link |-> 0] \in Answer
        BY <2>1, SignedType DEF Moved, Terminal
      <4> HIDE DEF rec
      <4> QED BY <2>1, <4>1, <4>2, TransitionType
    <3>2. CASE ~Answerable(rec.request)
      BY <1>4, <2>1, <3>2, ExpireType DEF ApplyAnswer, TypeOK, log
    <3> QED BY <3>1, <3>2
  <2>3. client' \in [Client -> ClientState]
    BY <1>4, <2>1, ClientStates DEF ApplyAnswer, Local, TypeOK
  <2> QED
    BY <1>4, <2>2, <2>3 DEF TypeOK, ApplyAnswer, NotClients, clock, authority, sessions
<1>5. CASE PostRuling(c)
  <2>1. rec \in Record /\ rec.request \in Request
    BY <1>2, <1>5 DEF PostRuling
  <2>2. client' \in [Client -> ClientState]
    BY <1>5, <2>1, ClientStates DEF PostRuling, Judge, Local, TypeOK
  <2> QED
    BY <1>5, <2>2 DEF TypeOK, PostRuling, NotClients, clock, authority, log, sessions
<1>6. CASE ApplyRuling(c)
  <2>1. rec \in Record /\ rec.request \in Request
    BY <1>2, <1>6 DEF ApplyRuling
  <2>2. Store4
    <3>1. CASE row[rec.request].state = "undecided" /\ rec.signedAt <= now + Skew
      <4>1. Transition(rec.request, StateOf[rec.decision], "ruling",
              [signer |-> rec.signer, signedAt |-> rec.signedAt, link |-> 0])
        BY <1>6, <3>1 DEF ApplyRuling
      <4>2. /\ StateOf[rec.decision] \in Moved
            /\ [signer |-> rec.signer, signedAt |-> rec.signedAt, link |-> 0] \in Answer
        BY <2>1, SignedType DEF Moved, Terminal
      <4> HIDE DEF rec
      <4> QED BY <2>1, <4>1, <4>2, TransitionType
    <3>2. CASE ~(row[rec.request].state = "undecided" /\ rec.signedAt <= now + Skew)
      BY <1>6, <3>2 DEF ApplyRuling, TypeOK, log
    <3> QED BY <3>1, <3>2
  <2>3. client' \in [Client -> ClientState] /\ releases' \subseteq Request
    BY <1>6, <2>1, ClientStates DEF ApplyRuling, Local, TypeOK
  <2> QED
    BY <1>6, <2>2, <2>3 DEF TypeOK, ApplyRuling, clock, authority
<1>7. CASE JudgeRefused(c)
  <2>1. rec \in Record
    BY <1>2, <1>7 DEF JudgeRefused
  <2>2. client' \in [Client -> ClientState]
    BY <1>7, <2>1, ClientStates DEF JudgeRefused, Local, TypeOK
  <2> QED
    BY <1>7, <2>2 DEF TypeOK, JudgeRefused, NotClients, clock, authority, log, sessions
<1>8. CASE KeepRefused(c)
  <2>1. rec \in Record
    BY <1>2, <1>8 DEF KeepRefused
  <2>2. /\ client[c].reason \in {"approver-not-authorized", "approval-window-elapsed"}
        /\ client[c].enrolled \in BOOLEAN
    BY <1>8 DEF KeepRefused, TypeOK, ClientState, Idle
  <2>3. [request |-> rec.request, decision |-> rec.decision, signer |-> rec.signer,
         reason |-> client[c].reason, enrolled |-> client[c].enrolled] \in Kept
    BY <2>1, <2>2 DEF Record, Kept
  <2>4. refused' \subseteq Kept
    BY <1>8, <2>3 DEF KeepRefused, TypeOK
  <2>5. client' \in [Client -> ClientState]
    BY <1>8, <2>1, ClientStates DEF KeepRefused, Local, TypeOK
  <2> QED
    BY <1>8, <2>4, <2>5 DEF TypeOK, KeepRefused, NotClients, clock, authority, log, sessions
<1>9. CASE ClientStops(c)
  <2>1. client' \in [Client -> ClientState]
    BY <1>9 DEF ClientStops, Local, TypeOK, ClientState
  <2> QED
    BY <1>9, <2>1 DEF TypeOK, ClientStops, NotClients, clock, authority, log, sessions
<1> QED
  BY <1>1, <1>3, <1>4, <1>5, <1>6, <1>7, <1>8, <1>9 DEF ClientStep

LEMMA HookKeepsType ==
  ASSUME TypeOK, NEW h \in Hook, HookStep(h)
  PROVE  TypeOK'
<1> USE HookStates
<1> DEFINE Kept4 == UNCHANGED <<row, log, takes, delivered>> /\ NotHooks
<1>1. ASSUME Kept4, hook' \in [Hook -> HookState] PROVE TypeOK'
  BY <1>1 DEF TypeOK, NotHooks, clock, authority, log, sessions
<1>2. ASSUME NEW r \in Request, GrantRead(h, r) PROVE TypeOK'
  BY <1>1, <1>2 DEF GrantRead, Step, TypeOK
<1>3. ASSUME NEW r \in Request, GateLook(h, r) PROVE TypeOK'
  BY <1>1, <1>3 DEF GateLook, Step, TypeOK
<1>4. ASSUME NEW c \in Call, BeginTake(h, c) PROVE TypeOK'
  <2>1. ActiveKeys \in SUBSET Key /\ 2 \in 1..2
    BY DEF ActiveKeys
  <2> QED
    BY <1>1, <1>4, <2>1 DEF BeginTake, Step, TypeOK
<1>5. CASE GrantApply(h)
  <2> DEFINE q == hook[h].request
  <2>1. q \in Request /\ hook[h].link \in Nat
    BY <1>5 DEF GrantApply
  <2>2. hook' \in [Hook -> HookState]
    BY <1>5 DEF GrantApply, Step, TypeOK
  <2>3. /\ row' \in [Request -> Row]
        /\ receipts' \in [Request -> [Moved -> Nat]]
        /\ lastSeq' \in Nat
    <3>1. CASE Answerable(q) /\ q \in Grantable /\ now < GrantUntil
      <4>1. Transition(q, "allowed", "grant", [NoAnswer EXCEPT !.link = hook[h].link])
        BY <1>5, <3>1 DEF GrantApply
      <4>2. /\ "allowed" \in Moved
            /\ [NoAnswer EXCEPT !.link = hook[h].link] \in Answer
        BY <2>1 DEF Moved, Terminal, Decided, NoAnswer, Answer
      <4> HIDE DEF q
      <4> QED BY <2>1, <4>1, <4>2, TransitionType
    <3>2. CASE ~(Answerable(q) /\ q \in Grantable /\ now < GrantUntil)
      BY <1>5, <2>1, <3>2, ExpireType DEF GrantApply, TypeOK, log
    <3> QED BY <3>1, <3>2
  <2> QED
    BY <1>5, <2>2, <2>3 DEF TypeOK, GrantApply, NotHooks, clock, authority, sessions
<1>6. CASE Pick(h)
  <2>1. \A r \in Request : Seq(r) \in Nat \/ row[r].state \notin Moved
    BY DEF Seq, TypeOK
  <2>2. ASSUME NEW r \in Ruled(hook[h].call), Pickable(r, hook[h].active)
        PROVE  r \in Request /\ Seq(r) \in Nat
    BY <2>1, <2>2 DEF Ruled, Pickable, Moved, Terminal, Decided
  <2>3. hook' \in [Hook -> HookState]
    <3>1. CASE \E r \in Ruled(hook[h].call) :
                 /\ Pickable(r, hook[h].active)
                 /\ Step(h, [pc |-> "picked", call |-> hook[h].call,
                             active |-> hook[h].active, tries |-> hook[h].tries,
                             request |-> r, seq |-> Seq(r)])
      <4>1. PICK r \in Ruled(hook[h].call) :
                 /\ Pickable(r, hook[h].active)
                 /\ Step(h, [pc |-> "picked", call |-> hook[h].call,
                             active |-> hook[h].active, tries |-> hook[h].tries,
                             request |-> r, seq |-> Seq(r)])
        BY <3>1
      <4>2. [pc |-> "picked", call |-> hook[h].call, active |-> hook[h].active,
             tries |-> hook[h].tries, request |-> r, seq |-> Seq(r)] \in HookState
        BY <1>6, <2>2, <4>1 DEF Pick
      <4> QED BY <4>1, <4>2 DEF Step, TypeOK
    <3>2. CASE Step(h, Idle)
      BY <3>2 DEF Step, TypeOK
    <3> QED BY <1>6, <3>1, <3>2 DEF Pick
  <2> QED BY <1>1, <1>6, <2>3 DEF Pick
<1>7. CASE TakeRuled(h)
  <2>1. hook[h].request \in Request
    BY <1>7 DEF TakeRuled
  <2>2. [request |-> hook[h].request, at |-> now, by |-> h] \in Take
    BY <2>1, BoundAssumption DEF Take, TypeOK, Time
  <2>3. takes' \subseteq Take
    BY <1>7, <2>2 DEF TakeRuled, TypeOK
  <2>4. hook' \in [Hook -> HookState]
    <3>1. [pc |-> "picking", call |-> hook[h].call, active |-> hook[h].active,
           tries |-> 1] \in HookState
      <4>1. 1 \in 1..2 /\ hook[h].call \in Call /\ hook[h].active \in SUBSET Key
        BY <1>7 DEF TakeRuled
      <4> QED BY <4>1
    <3> QED
      BY <1>7, <3>1 DEF TakeRuled, Step, TypeOK
  <2> QED
    BY <1>7, <2>3, <2>4 DEF TypeOK, TakeRuled, NotHooks, clock, authority, log, sessions
<1>8. CASE GateTake(h)
  <2>1. hook[h].got.request \in Request
    BY <1>8 DEF GateTake
  <2>2. [request |-> hook[h].got.request, at |-> now, by |-> h] \in Take
    BY <2>1, BoundAssumption DEF Take, TypeOK, Time
  <2>3. takes' \subseteq Take
    BY <1>8, <2>2 DEF GateTake, TypeOK
  <2>4. hook' \in [Hook -> HookState]
    BY <1>8 DEF GateTake, Step, TypeOK
  <2> QED
    BY <1>8, <2>3, <2>4 DEF TypeOK, GateTake, NotHooks, clock, authority, log, sessions
<1>9. CASE HookStops(h)
  BY <1>1, <1>9 DEF HookStops, Step, TypeOK
<1>10. ASSUME NEW r \in Request, NEW gate \in BOOLEAN, ReadRow(h, r, gate) PROVE TypeOK'
  <2>1. [request |-> r, gate |-> gate, seen |-> row[r], stood |-> InForce(row[r])]
          \in Reading
    BY DEF Reading, InForce, TypeOK
  <2> QED
    BY <1>1, <1>10, <2>1 DEF ReadRow, Step, TypeOK
<1>11. CASE Replay(h)
  <2>1. ActiveKeys \in SUBSET Key /\ grant \in Nat
    BY BoundAssumption DEF ActiveKeys, TypeOK
  <2> QED
    BY <1>1, <1>11, <2>1 DEF Replay, Step, TypeOK
<1>12. CASE Verify(h)
  BY <1>1, <1>12 DEF Verify, Step, TypeOK
<1>13. CASE Deliver(h)
  <2>1. hook' \in [Hook -> HookState] /\ delivered' \subseteq Request
    BY <1>13 DEF Deliver, Step, TypeOK
  <2> QED
    BY <1>13, <2>1 DEF Deliver, TypeOK, NotHooks, clock, authority, log, sessions
<1> QED
  BY <1>2, <1>3, <1>4, <1>5, <1>6, <1>7, <1>8, <1>9, <1>10, <1>11, <1>12, <1>13
  DEF HookStep

\* The store's own operations: filing, expiry, marks, halts and outcomes.
LEMMA StoreKeepsType ==
  ASSUME TypeOK, Store
  PROVE  TypeOK'
<1> DEFINE Rows == /\ row' \in [Request -> Row]
                   /\ receipts' \in [Request -> [Moved -> Nat]]
                   /\ lastSeq' \in Nat
<1>0. {"withdrawn", "undecided", "expired"} \subseteq Moved /\ NoAnswer \in Answer
  BY NoAnswerType DEF Moved, Terminal
<1>1. ASSUME NEW r \in Request, NEW at \in Time, File(r, at) PROVE TypeOK'
  <2>1. /\ at \in Nat /\ at + Hold \in Nat
        /\ 1 + Cardinality({q \in Request : row[q].state # "unfiled"}) \in Nat
    <3> DEFINE filed == {q \in Request : row[q].state # "unfiled"}
    <3>1. IsFiniteSet(filed)
      BY BoundAssumption, FS_Subset
    <3>2. Cardinality(filed) \in Nat
      BY <3>1, FS_CardinalityType
    <3>3. 1 + Cardinality(filed) \in Nat
      <4> HIDE DEF filed
      <4> QED BY <3>2
    <3>4. at \in Nat /\ at + Hold \in Nat
      BY BoundAssumption DEF Time
    <3> QED
      BY <3>3, <3>4
  <2>2. row' \in [Request -> Row]
    BY <1>0, <1>1, <2>1 DEF File, TypeOK, Row, Unfiled
  <2> QED
    BY <1>1, <2>2 DEF TypeOK, File, clock, authority, log, sessions
<1>2. ASSUME NEW r \in Request, Get(r) PROVE TypeOK'
  BY <1>2, ExpireType DEF Get, TypeOK, clock, authority, sessions
<1>3. ASSUME NEW r \in Request, Withdraw(r) PROVE TypeOK'
  <2>1. Rows
    BY <1>0, <1>3, ExpireType, TransitionType DEF Withdraw
  <2> QED
    BY <1>3, <2>1 DEF Withdraw, TypeOK, clock, authority, sessions
<1>4. ASSUME NEW r \in Request, Halt(r) PROVE TypeOK'
  BY <1>4 DEF Halt, TypeOK, clock, authority, log, sessions
<1>5. ASSUME NEW r \in Request, RecordRan(r) PROVE TypeOK'
  <2>1. Rows
    BY <1>0, <1>5, TransitionType DEF RecordRan, TypeOK, log
  <2> QED
    BY <1>5, <2>1 DEF RecordRan, TypeOK, clock, authority, sessions
<1>6. ASSUME NEW r \in Request, NEW halt \in BOOLEAN, MarkUndecided(r, halt)
      PROVE  TypeOK'
  <2>1. Rows
    BY <1>0, <1>6, TransitionType DEF MarkUndecided, TypeOK, log
  <2>2. gap' \in [Request -> Nat] /\ halts' \subseteq Request
    BY <1>6 DEF MarkUndecided, TypeOK
  <2> QED
    BY <1>6, <2>1, <2>2 DEF MarkUndecided, TypeOK, clock, authority
<1>7. CASE Sweep
  <2> DEFINE due == {r \in Request : Expires(r)}
  <2>1. IsFiniteSet(due) /\ Cardinality(due) \in Nat
    BY BoundAssumption, FS_Subset, FS_CardinalityType
  <2>2. now \in Nat
    BY BoundAssumption DEF TypeOK, Time
  <2>3. ASSUME NEW r \in Request
        PROVE  [row[r] EXCEPT !.state = "expired", !.decidedAt = now,
                              !.via = "none", !.answer = NoAnswer] \in Row
    BY <1>0, <2>2 DEF TypeOK, Row
  <2>4. row' \in [Request -> Row]
    BY <1>7, <2>3 DEF Sweep, TypeOK
  <2>5. receipts' \in [Request -> [Moved -> Nat]]
    <3>1. PICK nth \in [due -> 1..Cardinality(due)] :
            receipts' = [r \in Request |->
                IF r \in due
                  THEN [receipts[r] EXCEPT !["expired"] = lastSeq + nth[r]]
                  ELSE receipts[r]]
      BY <1>7 DEF Sweep
    <3>2. \A r \in due : lastSeq + nth[r] \in Nat
      BY <2>1 DEF TypeOK
    <3> QED
      BY <1>0, <3>1, <3>2 DEF TypeOK
  <2>6. lastSeq' \in Nat
    <3>1. lastSeq' = lastSeq + Cardinality(due)
      BY <1>7 DEF Sweep
    <3> HIDE DEF due
    <3> QED BY <2>1, <3>1 DEF TypeOK
  <2> QED
    BY <1>7, <2>4, <2>5, <2>6 DEF Sweep, TypeOK, clock, authority, sessions
<1>8. ASSUME NEW s \in Reporting, CloseUnrun(s) PROVE TypeOK'
  BY <1>8 DEF CloseUnrun, TypeOK, clock, authority, log, sessions
<1> QED
  BY <1>1, <1>2, <1>3, <1>4, <1>5, <1>6, <1>7, <1>8 DEF Store

LEMMA TypeInit == Init => TypeOK
  BY KeyAssumption, BoundAssumption, NoAnswerType
  DEF Init, TypeOK, Time, Unfiled, Row, ClientState, HookState

LEMMA TypeStep == TypeOK /\ [Next]_vars => TypeOK'
<1> SUFFICES ASSUME TypeOK, [Next]_vars PROVE TypeOK'
  OBVIOUS
<1>1. CASE UNCHANGED vars
  BY <1>1 DEF TypeOK, vars, clock, authority, log, sessions
<1>2. CASE Clock
  BY <1>2, BoundAssumption DEF Clock, Tick, StepBack, TypeOK, Time, authority, log, sessions
<1>3. CASE AuthorityLog
  BY <1>3, BoundAssumption DEF AuthorityLog, Enrol, Revoke, WriteGrant, RevokeGrant, Authority,
       TypeOK, clock, log, sessions
<1>4. CASE Store
  BY <1>4, StoreKeepsType
<1>5. CASE \E c \in Client : ClientStep(c)
  BY <1>5, ClientKeepsType
<1>6. CASE \E h \in Hook : HookStep(h)
  BY <1>6, HookKeepsType
<1> QED
  BY <1>1, <1>2, <1>3, <1>4, <1>5, <1>6 DEF Next

\* Every reachable state of the queue, its clients and its hooks is well-formed.
THEOREM TypeCorrect == Spec => []TypeOK
<1> QED
  BY TypeInit, TypeStep, PTL DEF Spec
=============================================================================
