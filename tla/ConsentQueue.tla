---------------------------- MODULE ConsentQueue ----------------------------
(***************************************************************************)
(* The consent queue of levain/consent/queue.py: requests an agent's hook  *)
(* files, the signed answers, grants and late rulings that decide them,    *)
(* their deadline, and the one-time taking of an allow.                    *)
(*                                                                         *)
(* Every write of the queue is one SQLite transaction (BEGIN IMMEDIATE),   *)
(* so a transaction is one step here.  What the code does OUTSIDE a        *)
(* transaction, reading the store or replaying the authority log before it *)
(* takes the write lock, is a step of its own, and what it read is kept in *)
(* the process's local state: `client' for the processes that sign and     *)
(* post answers, `hook' for the agent hooks.                               *)
(*                                                                         *)
(* Signatures are abstracted to the record they cover: a record names its  *)
(* signer, and it verifies under a set of active keys when the signer is   *)
(* one of them and its class covers the request.                           *)
(***************************************************************************)
EXTENDS Integers, FiniteSets

CONSTANTS
  Request,     \* requests that may be filed (each one has its own event id)
  Call,        \* identical calls: agent, session, tool and input digest
  Session,     \* an agent's session
  CallOf,      \* [Request -> Call]
  SessionOf,   \* [Request -> Session]
  Reporting,   \* sessions whose hooks report what the agent's dialog did
  Key,         \* signing keys
  Enrolled,    \* the keys the authority log holds at the start
  Covers,      \* <<key, request>>: the key's class covers the request's tier
  Grantable,   \* requests the standing grant's criteria hold for
  GrantUntil,  \* when the grant expires
  NoKey,       \* no signer
  NoRequest,   \* no ticket
  Client,      \* processes that sign and post answers
  Hook,        \* processes of the agent's hooks
  Hold,        \* how long a request is held (file's `hold')
  Grace,       \* UNDECIDED_GRACE
  Lapse,       \* RULED_ALLOW_LAPSE
  Skew,        \* RULING_SKEW
  Reuse,       \* GATE_ALLOW_REUSE, take_gate_allow's `within'
  Ahead,       \* how far a signer's clock may be ahead of the queue's
  Waits,       \* how long a filing may wait for the write lock
  Asked,       \* bound: requests whose decision a hook asks for
  KeptEnrolled,   \* REFUSED_PER_REQUEST
  KeptOthers,     \* REFUSED_UNENROLLED_PER_REQUEST
  MaxTime,     \* bound: the last instant of the clock
  MaxBack,     \* bound: how often the wall clock steps backwards
  MaxGrant     \* bound: how often the grant is created or renewed

ASSUME CallAssumption ==
  /\ CallOf \in [Request -> Call]
  /\ SessionOf \in [Request -> Session]
  /\ Reporting \subseteq Session
  /\ \A p, q \in Request : CallOf[p] = CallOf[q] => SessionOf[p] = SessionOf[q]

ASSUME NoRequestAssumption == NoRequest \notin Request

ASSUME KeyAssumption ==
  /\ NoKey \notin Key
  /\ Enrolled \subseteq Key
  /\ Covers \subseteq Key \X Request
  /\ Grantable \subseteq Request

ASSUME BoundAssumption ==
  /\ IsFiniteSet(Request)
  /\ Hold \in Nat \ {0}
  /\ {GrantUntil, Grace, Lapse, Skew, Reuse, Ahead, Waits} \subseteq Nat
  /\ {KeptEnrolled, KeptOthers, MaxTime, MaxBack, MaxGrant} \subseteq Nat

VARIABLES
  now,        \* the queue's clock
  back,       \* how often it has stepped backwards
  keys,       \* authority log: [Key -> {"unknown", "active", "revoked"}]
  grant,      \* authority log: the link of the standing grant, 0 when revoked
  links,      \* authority log: grant links written so far
  row,        \* table requests
  gap,        \* table gaps: [Request -> Nat], 0 for no row
  receipts,   \* table receipts: [Request -> [Moved -> Nat]], 0 for no row
  lastSeq,    \* the receipts' AUTOINCREMENT
  halts,      \* table halts
  releases,   \* table halt_releases
  takes,      \* table ruled_takes
  outcome,    \* table dialog_outcomes
  refused,    \* table refused_answers
  delivered,  \* requests whose decision a hook handed to the agent
  client,     \* local state of the clients
  hook        \* local state of the hooks

authority == <<keys, grant, links>>
log       == <<receipts, lastSeq>>
sessions  == <<gap, halts, releases>>
clock     == <<now, back>>
vars == <<clock, authority, row, log, sessions, takes, outcome, refused,
          delivered, client, hook>>

Time == 0..MaxTime

-----------------------------------------------------------------------------
(* Rows and records.                                                       *)

Decision == {"allow", "deny"}
StateOf  == [allow |-> "allowed", deny |-> "denied"]
Decided  == {"allowed", "denied"}
Terminal == Decided \cup {"expired", "withdrawn"}
Moved    == Terminal \cup {"undecided"}

\* The stored answer of a row: a signed record's signer and signed_at, or the
\* link of the grant that answered.
Answer   == [signer : Key \cup {NoKey}, signedAt : Nat, link : Nat]
NoAnswer == [signer |-> NoKey, signedAt |-> 0, link |-> 0]

Row == [state      : Moved \cup {"unfiled", "pending"},
        rowid      : Nat,
        receivedAt : Nat,
        expiresAt  : Nat,
        decidedAt  : Nat,
        via        : {"none", "signature", "grant", "ruling"},
        answer     : Answer]

Unfiled == [state |-> "unfiled", rowid |-> 0, receivedAt |-> 0,
            expiresAt |-> 0, decidedAt |-> 0, via |-> "none",
            answer |-> NoAnswer]

\* A signed record: an answer, or a late ruling (the two namespaces).
Record == [kind : {"answer", "ruling"}, request : Request,
           decision : Decision, signer : Key, signedAt : Nat]

\* A row of ruled_takes: taken_at, and the hook whose call took it.
Take == [request : Request, at : Nat, by : Hook]

\* A row of refused_answers.
Kept == [request : Request, decision : Decision, signer : Key,
         reason : {"approver-not-authorized", "approval-window-elapsed"},
         enrolled : BOOLEAN]

\* What decision() read of a row, for the agent or for take_gate_allow(); a
\* history field: whether what decided it was in force at that read.
Reading == [request : Request, gate : BOOLEAN, seen : Row, stood : BOOLEAN]

Idle == [pc |-> "idle"]

ClientState ==
       {Idle}
  \cup [pc : {"signed", "checked"}, rec : Record]
  \cup [pc : {"refused"}, rec : Record, fresh : BOOLEAN,
        reason : {"approver-not-authorized", "approval-window-elapsed"},
        enrolled : BOOLEAN]

HookState ==
       {Idle}
  \cup [pc : {"granting"}, request : Request, link : Nat]
  \cup [pc : {"picking"}, call : Call, active : SUBSET Key, tries : 1..2]
  \cup [pc : {"picked"}, call : Call, active : SUBSET Key, tries : 1..2,
        request : Request, seq : Nat]
  \cup [pc : {"looked"}, request : Request]
  \cup [pc : {"read", "decided"}, got : Reading]
  \cup [pc : {"replayed"}, got : Reading, active : SUBSET Key, link : Nat]

TypeOK ==
  /\ now \in Time
  /\ back \in 0..MaxBack
  /\ keys \in [Key -> {"unknown", "active", "revoked"}]
  /\ grant \in 0..MaxGrant
  /\ links \in 0..MaxGrant
  /\ row \in [Request -> Row]
  /\ gap \in [Request -> Nat]
  /\ receipts \in [Request -> [Moved -> Nat]]
  /\ lastSeq \in Nat
  /\ halts \subseteq Request
  /\ releases \subseteq Request
  /\ takes \subseteq Take
  /\ outcome \in [Request -> {"none", "ran", "did_not_run"}]
  /\ refused \subseteq Kept
  /\ delivered \subseteq Request
  /\ client \in [Client -> ClientState]
  /\ hook \in [Hook -> HookState]

Init ==
  /\ now = 0
  /\ back = 0
  /\ keys = [k \in Key |-> IF k \in Enrolled THEN "active" ELSE "unknown"]
  /\ grant = 0
  /\ links = 0
  /\ row = [r \in Request |-> Unfiled]
  /\ gap = [r \in Request |-> 0]
  /\ receipts = [r \in Request |-> [s \in Moved |-> 0]]
  /\ lastSeq = 0
  /\ halts = {}
  /\ releases = {}
  /\ takes = {}
  /\ outcome = [r \in Request |-> "none"]
  /\ refused = {}
  /\ delivered = {}
  /\ client = [c \in Client |-> Idle]
  /\ hook = [h \in Hook |-> Idle]

-----------------------------------------------------------------------------
(* Helpers.  A definition whose name ends in _<Word> is a faulty variant   *)
(* of the one that follows it, kept to show that the properties notice.    *)

ActiveKeys == {k \in Key : keys[k] = "active"}

\* The hold has ended: no answer or grant applies from here on.
HoldOver(r) == row[r].expiresAt <= now

\* _expiry_due: a pending request is expired only Grace after its hold ended.
ExpiryDue_NoGrace(r) == HoldOver(r)
ExpiryDue(r) == row[r].expiresAt + Grace <= now

Expires_Open(r) == row[r].state = "pending" /\ ExpiryDue(r) /\ outcome[r] = "none"
Expires(r) == row[r].state = "pending" /\ ExpiryDue(r)

\* Under the write lock: an answer or a grant still applies to r.
Answerable_Late(r)  == row[r].state = "pending"
Answerable_Stale(r) == row[r].state # "unfiled" /\ ~HoldOver(r)
Answerable(r) == row[r].state = "pending" /\ ~HoldOver(r)

\* An answer to r comes after its hold ended, by the clock or the state.
Late_Settled(r) == row[r].state # "pending" \/ HoldOver(r)
Late(r) == \/ row[r].state \in {"expired", "undecided"}
           \/ row[r].state = "pending" /\ HoldOver(r)

\* _key_refusal: the signer is active, and of a class covering an allow.
IsAuthority(k, d, r, active) ==
  /\ k \in active
  /\ d = "allow" => <<k, r>> \in Covers

\* The signed record of a decided row q of r, verified again.
StoredVerifies_Trusted(q, r, active) == q.state \in Decided
StoredVerifies(q, r, active) ==
  \E d \in Decision : /\ StateOf[d] = q.state
                      /\ IsAuthority(q.answer.signer, d, r, active)

\* _grant_decision: the replay holds the grant at the link that answered, and
\* it is unexpired now.
GrantStands_AnyLink(q, r, link) == link # 0 /\ now < GrantUntil /\ r \in Grantable
GrantStands(q, r, link) == /\ link # 0
                           /\ q.answer.link = link
                           /\ now < GrantUntil
                           /\ r \in Grantable

\* decision(): the row q that it read of r is a decision for the agent, under
\* the replay it made after.
Deliverable(q, r, active, link) ==
  \/ q.via = "signature" /\ StoredVerifies(q, r, active)
  \/ q.via = "grant" /\ GrantStands(q, r, link)

\* The authority log holds what decided the row q: the signer's key, or the
\* grant as it was.
InForce(q) == \/ q.via = "signature" /\ q.answer.signer \in ActiveKeys
              \/ q.via = "grant" /\ q.answer.link = grant

\* _transition: one move of a row, with its receipt, in the same transaction.
Transition_ByClock(r, s, v, a) ==
  /\ row' = [row EXCEPT ![r] = [@ EXCEPT !.state = s, !.decidedAt = now,
                                         !.via = v, !.answer = a]]
  /\ receipts' = [receipts EXCEPT ![r] = [@ EXCEPT ![s] = now + 1]]
  /\ lastSeq' = now + 1

Transition(r, s, v, a) ==
  /\ row' = [row EXCEPT ![r] = [@ EXCEPT !.state = s, !.decidedAt = now,
                                         !.via = v, !.answer = a]]
  /\ receipts' = [receipts EXCEPT ![r] = [@ EXCEPT ![s] = lastSeq + 1]]
  /\ lastSeq' = lastSeq + 1

Expire(r) == Transition(r, "expired", "none", NoAnswer)

\* The ruled requests of one identical call, and their application sequence
\* (_RULING_SEQ): the receipt of the state the ruling moved the row to.
Ruled(c)  == {r \in Request : CallOf[r] = c /\ row[r].via = "ruling"}
Seq(r)    == receipts[r][row[r].state]
Newest(r) == \A q \in Ruled(CallOf[r]) : Seq(q) <= Seq(r)

IsTaken(r) == \E t \in takes : t.request = r

\* Too old to take: by the queue's clock, or when it was applied.
Lapsed_WhenApplied(r) == row[r].decidedAt >= row[r].answer.signedAt + Lapse
Lapsed(r) == \/ now >= row[r].decidedAt + Lapse
             \/ row[r].decidedAt >= row[r].answer.signedAt + Lapse

\* No other ruling on the call was signed later.
SignedInOrder_Unchecked(r) == TRUE
SignedInOrder(r) == \A q \in Ruled(CallOf[r]) :
                      row[q].answer.signedAt <= row[r].answer.signedAt

\* _pick_ruled_allow: r is its call's latest ruling, an untaken allow that
\* verifies under `active', signed in order.
Pickable(r, active) ==
  /\ row[r].via = "ruling"
  /\ row[r].state = "allowed"
  /\ Newest(r)
  /\ ~IsTaken(r)
  /\ StoredVerifies(row[r], r, active)
  /\ SignedInOrder(r)

\* take_ruled_allow under its lock: the pick is unchanged and nothing newer
\* was applied.
StillPicked_RowOnly(r, seq) == row[r].state = "allowed" /\ Seq(r) = seq
StillPicked(r, seq) == row[r].state = "allowed" /\ Seq(r) = seq /\ Newest(r)

\* The newest filing of a call: received_at, then rowid.
NewestFiling(r) ==
  \A q \in Request :
    CallOf[q] = CallOf[r] /\ row[q].state # "unfiled" =>
      \/ row[q].receivedAt < row[r].receivedAt
      \/ row[q].receivedAt = row[r].receivedAt /\ row[q].rowid <= row[r].rowid

\* take_gate_allow: a just-delivered allow of a gate, not taken yet.
GateAllow_Reusable(r) == /\ row[r].state = "allowed"
                         /\ row[r].via \in {"signature", "grant"}
                         /\ NewestFiling(r)
                         /\ now - row[r].decidedAt \in 0..(Reuse - 1)
GateAllow(r) == /\ row[r].state = "allowed"
                /\ row[r].via \in {"signature", "grant"}
                /\ NewestFiling(r)
                /\ ~IsTaken(r)
                /\ now - row[r].decidedAt \in 0..(Reuse - 1)

\* g is the gap number MAX(gap) + 1 of r's session.
NextGap_Open(r, g) ==
  g = 1 + Cardinality({q \in Request : /\ SessionOf[q] = SessionOf[r]
                                       /\ row[q].state = "undecided"})
NextGap(r, g) ==
  LET given == {gap[q] : q \in {p \in Request : SessionOf[p] = SessionOf[r]}}
  IN  /\ \A x \in given : x < g
      /\ g - 1 \in given \cup {0}

\* halt(): never on a request that was ruled.
MayHalt_Gapped(r) == gap[r] # 0
MayHalt(r) == row[r].state = "undecided"

-----------------------------------------------------------------------------
(* The clock and the authority log.                                        *)

Tick == /\ now < MaxTime
        /\ now' = now + 1
        /\ UNCHANGED <<back, authority, row, log, sessions, takes, outcome,
                       refused, delivered, client, hook>>

\* The wall clock is set back: stamps tie and go backwards.
StepBack == /\ back < MaxBack
            /\ \E t \in 0..(now - 1) : now' = t
            /\ back' = back + 1
            /\ UNCHANGED <<authority, row, log, sessions, takes, outcome,
                           refused, delivered, client, hook>>

Authority == UNCHANGED <<clock, row, log, sessions, takes, outcome, refused,
                         delivered, client, hook>>

Enrol(k) == /\ keys[k] = "unknown"
            /\ keys' = [keys EXCEPT ![k] = "active"]
            /\ UNCHANGED <<grant, links>>
            /\ Authority

\* A revoked key stays revoked.
Revoke(k) == /\ keys[k] = "active"
             /\ keys' = [keys EXCEPT ![k] = "revoked"]
             /\ UNCHANGED <<grant, links>>
             /\ Authority

\* The grant is created, renewed, tightened or loosened: a new link.
WriteGrant == /\ links < MaxGrant
              /\ links' = links + 1
              /\ grant' = links + 1
              /\ UNCHANGED keys
              /\ Authority

RevokeGrant == /\ grant # 0
               /\ grant' = 0
               /\ UNCHANGED <<keys, links>>
               /\ Authority

-----------------------------------------------------------------------------
(* Filing and expiry.                                                      *)

\* file(): the clock is read, at `at', before the write lock is waited for.
\* Bound: a request is filed only when its hold and grace end before MaxTime.
File(r, at) ==
  /\ row[r].state = "unfiled"
  /\ at <= now
  /\ now <= at + Waits
  /\ at + Hold + Grace <= MaxTime
  /\ row' = [row EXCEPT ![r] =
       [Unfiled EXCEPT !.state = "pending",
                       !.rowid = 1 + Cardinality({q \in Request :
                                        row[q].state # "unfiled"}),
                       !.receivedAt = at,
                       !.expiresAt = at + Hold]]
  /\ UNCHANGED <<clock, authority, log, sessions, takes, outcome, refused,
                 delivered, client, hook>>

\* get(): a read that finds a due request expires it first.
Get(r) == /\ Expires(r)
          /\ Expire(r)
          /\ UNCHANGED <<clock, authority, sessions, takes, outcome, refused,
                         delivered, client, hook>>

\* sweep(): every due request in one transaction, its receipts in the order
\* the index yields them.
Sweep ==
  LET due == {r \in Request : Expires(r)}
  IN  /\ due # {}
      /\ row' = [r \in Request |->
                   IF r \in due
                     THEN [row[r] EXCEPT !.state = "expired", !.decidedAt = now,
                                         !.via = "none", !.answer = NoAnswer]
                     ELSE row[r]]
      /\ \E nth \in [due -> 1..Cardinality(due)] :
           /\ \A p, q \in due : nth[p] = nth[q] => p = q
           /\ receipts' = [r \in Request |->
                IF r \in due
                  THEN [receipts[r] EXCEPT !["expired"] = lastSeq + nth[r]]
                  ELSE receipts[r]]
      /\ lastSeq' = lastSeq + Cardinality(due)
      /\ UNCHANGED <<clock, authority, sessions, takes, outcome, refused,
                     delivered, client, hook>>

-----------------------------------------------------------------------------
(* The hook's own moves: withdrawing, the undecided mark, halts, and what  *)
(* the agent's dialog did.                                                 *)

\* withdraw(): settles first, so a due request expires instead.
Withdraw(r) ==
  /\ row[r].state = "pending"
  /\ IF ExpiryDue(r) THEN Expire(r)
                     ELSE Transition(r, "withdrawn", "none", NoAnswer)
  /\ UNCHANGED <<clock, authority, sessions, takes, outcome, refused,
                 delivered, client, hook>>

\* mark_undecided(): takes precedence over the expiry, which it never applies;
\* the gap and the halt are written with the move.  On a request that is
\* already undecided only the halt is added.
MarkUndecided(r, halt) ==
  /\ \/ /\ row[r].state = "pending"
        /\ Transition(r, "undecided", "none", NoAnswer)
        /\ \E g \in 1..Cardinality(Request) :
             NextGap(r, g) /\ gap' = [gap EXCEPT ![r] = g]
     \/ /\ row[r].state = "undecided"
        /\ halt
        /\ UNCHANGED <<row, log, gap>>
  /\ halts' = IF halt THEN halts \cup {r} ELSE halts
  /\ UNCHANGED <<clock, authority, releases, takes, outcome, refused,
                 delivered, client, hook>>

\* halt(), after the mark.
Halt(r) ==
  /\ MayHalt(r)
  /\ halts' = halts \cup {r}
  /\ UNCHANGED <<clock, authority, row, log, gap, releases, takes, outcome,
                 refused, delivered, client, hook>>

\* record_ran(): the tool ran in the agent's dialog; a pending request is
\* withdrawn with it.  (`ran' stands for ran and ran_unasked.)
RecordRan(r) ==
  /\ SessionOf[r] \in Reporting
  /\ row[r].state \in {"pending", "withdrawn", "expired"}
  /\ outcome[r] = "none"
  /\ outcome' = [outcome EXCEPT ![r] = "ran"]
  /\ IF row[r].state = "pending"
       THEN Transition(r, "withdrawn", "none", NoAnswer)
       ELSE UNCHANGED <<row, log>>
  /\ UNCHANGED <<clock, authority, sessions, takes, refused, delivered,
                 client, hook>>

\* close_unrun(): a turn of session s ended.
CloseUnrun(s) ==
  LET left == {r \in Request :
                 /\ SessionOf[r] = s
                 /\ outcome[r] = "none"
                 /\ \/ row[r].state \in {"withdrawn", "expired"}
                    \/ row[r].state = "pending" /\ HoldOver(r)}
  IN  /\ left # {}
      /\ outcome' = [r \in Request |->
                       IF r \in left THEN "did_not_run" ELSE outcome[r]]
      /\ UNCHANGED <<clock, authority, row, log, sessions, takes, refused,
                     delivered, client, hook>>

-----------------------------------------------------------------------------
(* Signed answers and late rulings: build and sign a record, verify it     *)
(* against a replay, apply it under the write lock.                        *)

Local(c, state) == client' = [client EXCEPT ![c] = state]

NotClients == UNCHANGED <<clock, authority, sessions, takes, outcome, delivered,
                          hook>>

\* answer_payload() and ruling_payload(), signed by k.  The signer's clock may
\* be ahead of the queue's.
Sign(c, r, k, d, at) ==
  /\ client[c] = Idle
  /\ \/ row[r].state = "pending" /\ ~HoldOver(r)
     \/ row[r].state = "undecided"
  /\ Local(c, [pc |-> "signed",
               rec |-> [kind |-> IF row[r].state = "pending" THEN "answer"
                                                             ELSE "ruling",
                        request |-> r, decision |-> d, signer |-> k,
                        signedAt |-> at]])
  /\ UNCHANGED <<row, log, refused>>
  /\ NotClients

\* A refusal on its way to refused_answers.  `fresh': the key has not been
\* looked at yet, so keeping it takes a replay of its own.
Refusal(rec, fresh, reason, enrolled) ==
  [pc |-> "refused", rec |-> rec, fresh |-> fresh, reason |-> reason,
   enrolled |-> enrolled]

Unjudged(rec) == Refusal(rec, TRUE, "approval-window-elapsed", TRUE)
TooLate(rec)  == Refusal(rec, FALSE, "approval-window-elapsed", TRUE)
NotAuthority(rec) ==
  Refusal(rec, FALSE, "approver-not-authorized", keys[rec.signer] # "unknown")

\* The key's part of verifying rec: it is checked when its other fields are in
\* order too, and kept as evidence when its key is not authority for it.
Judge_KeepsAny(rec, inOrder) ==
  IF IsAuthority(rec.signer, rec.decision, rec.request, ActiveKeys)
    THEN IF inOrder THEN [pc |-> "checked", rec |-> rec]
                    ELSE Refusal(rec, FALSE, "signed-after-hold", TRUE)
    ELSE NotAuthority(rec)

Judge(rec, inOrder) ==
  IF IsAuthority(rec.signer, rec.decision, rec.request, ActiveKeys)
    THEN IF inOrder THEN [pc |-> "checked", rec |-> rec] ELSE Idle
    ELSE NotAuthority(rec)

\* answer() up to its verification, outside the lock; get() first, which
\* expires a due request.
PostAnswer(c) ==
  /\ client[c].pc = "signed"
  /\ client[c].rec.kind = "answer"
  /\ LET rec  == client[c].rec
         r    == rec.request
         asOf == rec.signedAt >= row[r].receivedAt
     IN  /\ IF Expires(r) THEN Expire(r) ELSE UNCHANGED <<row, log>>
         /\ Local(c, IF Late(r)
                       THEN IF asOf THEN Unjudged(rec) ELSE Idle
                     ELSE IF row[r].state = "pending" /\ asOf
                       THEN Judge(rec, rec.signedAt < row[r].expiresAt)
                     ELSE Idle)
  /\ UNCHANGED refused
  /\ NotClients

\* answer() under its write lock: settle, then move the row if it still may.
ApplyAnswer(c) ==
  /\ client[c].pc = "checked"
  /\ client[c].rec.kind = "answer"
  /\ LET rec == client[c].rec
         r   == rec.request
     IN  IF Answerable(r)
           THEN /\ Transition(r, StateOf[rec.decision], "signature",
                              [signer |-> rec.signer, signedAt |-> rec.signedAt,
                               link |-> 0])
                /\ Local(c, Idle)
           ELSE /\ IF Expires(r) THEN Expire(r) ELSE UNCHANGED <<row, log>>
                /\ Local(c, IF Late(r) THEN TooLate(rec) ELSE Idle)
  /\ UNCHANGED refused
  /\ NotClients

\* answer_late() up to its verification: only an undecided request, and a
\* record signed once it was undecided.
PostRuling(c) ==
  /\ client[c].pc = "signed"
  /\ client[c].rec.kind = "ruling"
  /\ LET rec == client[c].rec
         r   == rec.request
     IN  Local(c, IF /\ row[r].state = "undecided"
                     /\ rec.signedAt >= row[r].decidedAt
                    THEN Judge(rec, TRUE)
                    ELSE Idle)
  /\ UNCHANGED <<row, log, refused>>
  /\ NotClients

\* answer_late() under its write lock: the move, its receipt and the release
\* of a halt on the request are one transaction.
ApplyRuling(c) ==
  /\ client[c].pc = "checked"
  /\ client[c].rec.kind = "ruling"
  /\ LET rec == client[c].rec
         r   == rec.request
     IN  IF row[r].state = "undecided" /\ rec.signedAt <= now + Skew
           THEN /\ Transition(r, StateOf[rec.decision], "ruling",
                              [signer |-> rec.signer, signedAt |-> rec.signedAt,
                               link |-> 0])
                /\ releases' = releases \cup ({r} \cap halts)
           ELSE UNCHANGED <<row, log, releases>>
  /\ Local(c, Idle)
  /\ UNCHANGED <<clock, authority, gap, halts, takes, outcome, refused,
                 delivered, hook>>

\* _refused_reason() under a replay taken for it.
JudgeRefused(c) ==
  /\ client[c].pc = "refused"
  /\ client[c].fresh
  /\ LET rec == client[c].rec
     IN  Local(c, IF IsAuthority(rec.signer, rec.decision, rec.request, ActiveKeys)
                    THEN TooLate(rec)
                    ELSE NotAuthority(rec))
  /\ UNCHANGED <<row, log, refused>>
  /\ NotClients

\* The evidence table is full for this request and class of key.
Full_Shared(r, enrolled) ==
  Cardinality({e \in refused : e.request = r /\ e.enrolled = enrolled})
    >= KeptEnrolled + KeptOthers
Full(r, enrolled) ==
  Cardinality({e \in refused : e.request = r /\ e.enrolled = enrolled})
    >= IF enrolled THEN KeptEnrolled ELSE KeptOthers

\* _record_refused() under its lock: the cap again, and one row for each
\* (request, signer, decision).
KeepRefused(c) ==
  /\ client[c].pc = "refused"
  /\ ~client[c].fresh
  /\ LET rec  == client[c].rec
         kept == [request |-> rec.request, decision |-> rec.decision,
                  signer |-> rec.signer, reason |-> client[c].reason,
                  enrolled |-> client[c].enrolled]
     IN  refused' =
           IF \/ Full(rec.request, client[c].enrolled)
              \/ \E e \in refused : /\ e.request = rec.request
                                    /\ e.signer = rec.signer
                                    /\ e.decision = rec.decision
             THEN refused
             ELSE refused \cup {kept}
  /\ Local(c, Idle)
  /\ UNCHANGED <<row, log>>
  /\ NotClients

\* The process stops, the authority log cannot be replayed, or the write waits
\* too long for the lock: nothing more is written.
ClientStops(c) ==
  /\ client[c] # Idle
  /\ Local(c, Idle)
  /\ UNCHANGED <<row, log, refused>>
  /\ NotClients

-----------------------------------------------------------------------------
(* The agent's hooks: standing grants, delivery, and taking an allow once. *)

Step(h, state) == hook' = [hook EXCEPT ![h] = state]

NotHooks == UNCHANGED <<clock, authority, sessions, outcome, refused, client>>

\* answer_by_grant(): the replay it takes before its lock.  (A hook calls it on
\* the request it just filed.)
GrantRead(h, r) ==
  /\ hook[h] = Idle
  /\ grant # 0
  /\ row[r].state = "pending"
  /\ Step(h, [pc |-> "granting", request |-> r, link |-> grant])
  /\ UNCHANGED <<row, log, takes, delivered>>
  /\ NotHooks

\* answer_by_grant() under its lock, with the grant and link it read.
GrantApply(h) ==
  /\ hook[h].pc = "granting"
  /\ LET r == hook[h].request
     IN  IF Answerable(r) /\ r \in Grantable /\ now < GrantUntil
           THEN Transition(r, "allowed", "grant",
                           [NoAnswer EXCEPT !.link = hook[h].link])
         ELSE IF Expires(r) THEN Expire(r)
         ELSE UNCHANGED <<row, log>>
  /\ Step(h, Idle)
  /\ UNCHANGED <<takes, delivered>>
  /\ NotHooks

(***************************************************************************)
(* decision(), which await_decision(), answer_by_grant(), mark_undecided() *)
(* and take_gate_allow() end in, or which a hook calls itself until it has *)
(* one.  No lock is held from the read of the row to the hand-over.        *)
(***************************************************************************)
ReadRow(h, r, gate) ==
  /\ hook[h] = IF gate THEN [pc |-> "looked", request |-> r] ELSE Idle
  /\ gate \/ r \in Asked \ delivered
  /\ row[r].state \in Decided
  /\ Step(h, [pc |-> "read",
              got |-> [request |-> r, gate |-> gate, seen |-> row[r],
                       stood |-> InForce(row[r])]])
  /\ UNCHANGED <<row, log, takes, delivered>>
  /\ NotHooks

\* _fresh_authority(), after the row was read.
Replay(h) ==
  /\ hook[h].pc = "read"
  /\ Step(h, [pc |-> "replayed", got |-> hook[h].got, active |-> ActiveKeys,
              link |-> grant])
  /\ UNCHANGED <<row, log, takes, delivered>>
  /\ NotHooks

\* The row is judged by what was read and replayed, and by the clock now.
Verify(h) ==
  /\ hook[h].pc = "replayed"
  /\ LET got == hook[h].got
     IN  Step(h, IF Deliverable(got.seen, got.request, hook[h].active, hook[h].link)
                   THEN [pc |-> "decided", got |-> got] ELSE Idle)
  /\ UNCHANGED <<row, log, takes, delivered>>
  /\ NotHooks

\* The hook hands the decision it holds to the agent.
Deliver(h) ==
  /\ hook[h].pc = "decided"
  /\ ~hook[h].got.gate
  /\ delivered' = delivered \cup {hook[h].got.request}
  /\ Step(h, Idle)
  /\ UNCHANGED <<row, log, takes>>
  /\ NotHooks

\* take_ruled_allow() for call c: a cheap look, then a replay.
BeginTake(h, c) ==
  /\ hook[h] = Idle
  /\ \E r \in Ruled(c) : row[r].state = "allowed" /\ ~IsTaken(r)
  /\ Step(h, [pc |-> "picking", call |-> c, active |-> ActiveKeys, tries |-> 2])
  /\ UNCHANGED <<row, log, takes, delivered>>
  /\ NotHooks

\* _pick_ruled_allow(), outside the lock.
Pick(h) ==
  /\ hook[h].pc = "picking"
  /\ \/ \E r \in Ruled(hook[h].call) :
          /\ Pickable(r, hook[h].active)
          /\ Step(h, [pc |-> "picked", call |-> hook[h].call,
                      active |-> hook[h].active, tries |-> hook[h].tries,
                      request |-> r, seq |-> Seq(r)])
     \/ /\ \A r \in Ruled(hook[h].call) : ~Pickable(r, hook[h].active)
        /\ Step(h, Idle)
  /\ UNCHANGED <<row, log, takes, delivered>>
  /\ NotHooks

\* The pick under the write lock.  It is selected once more when it moved.
TakeRuled(h) ==
  /\ hook[h].pc = "picked"
  /\ LET r == hook[h].request
     IN  IF ~StillPicked(r, hook[h].seq)
           THEN /\ Step(h, IF hook[h].tries = 1 THEN Idle
                             ELSE [pc |-> "picking", call |-> hook[h].call,
                                   active |-> hook[h].active, tries |-> 1])
                /\ UNCHANGED takes
           ELSE /\ Step(h, Idle)
                /\ takes' = IF IsTaken(r) \/ Lapsed(r) THEN takes
                              ELSE takes \cup {[request |-> r, at |-> now, by |-> h]}
  /\ UNCHANGED <<row, log, delivered>>
  /\ NotHooks

\* take_gate_allow() up to its call of decision().
GateLook(h, r) ==
  /\ hook[h] = Idle
  /\ GateAllow(r)
  /\ Step(h, [pc |-> "looked", request |-> r])
  /\ UNCHANGED <<row, log, takes, delivered>>
  /\ NotHooks

\* take_gate_allow() under its lock: everything but the decision again.
GateTake(h) ==
  /\ hook[h].pc = "decided"
  /\ hook[h].got.gate
  /\ LET r == hook[h].got.request
     IN  takes' = IF hook[h].got.seen.state = "allowed" /\ GateAllow(r)
                    THEN takes \cup {[request |-> r, at |-> now, by |-> h]}
                    ELSE takes
  /\ Step(h, Idle)
  /\ UNCHANGED <<row, log, delivered>>
  /\ NotHooks

\* The hook's process is killed between two of its steps.
HookStops(h) ==
  /\ hook[h] # Idle
  /\ Step(h, Idle)
  /\ UNCHANGED <<row, log, takes, delivered>>
  /\ NotHooks

-----------------------------------------------------------------------------

Clock == Tick \/ StepBack

AuthorityLog == \/ \E k \in Key : Enrol(k) \/ Revoke(k)
                \/ WriteGrant
                \/ RevokeGrant

Store == \/ \E r \in Request, at \in Time : File(r, at)
         \/ \E r \in Request : Get(r) \/ Withdraw(r) \/ Halt(r) \/ RecordRan(r)
         \/ \E r \in Request, halt \in BOOLEAN : MarkUndecided(r, halt)
         \/ Sweep
         \/ \E s \in Reporting : CloseUnrun(s)

ClientStep(c) ==
  \/ \E r \in Request, k \in Key, d \in Decision, at \in {now, now + Ahead} :
       Sign(c, r, k, d, at)
  \/ PostAnswer(c) \/ ApplyAnswer(c)
  \/ PostRuling(c) \/ ApplyRuling(c)
  \/ JudgeRefused(c) \/ KeepRefused(c)
  \/ ClientStops(c)

HookStep(h) ==
  \/ \E r \in Request : GrantRead(h, r) \/ GateLook(h, r)
  \/ \E r \in Request, gate \in BOOLEAN : ReadRow(h, r, gate)
  \/ Replay(h) \/ Verify(h) \/ Deliver(h)
  \/ \E c \in Call : BeginTake(h, c)
  \/ GrantApply(h) \/ Pick(h) \/ TakeRuled(h) \/ GateTake(h)
  \/ HookStops(h)

Next == \/ Clock
        \/ AuthorityLog
        \/ Store
        \/ \E c \in Client : ClientStep(c)
        \/ \E h \in Hook : HookStep(h)

Spec == Init /\ [][Next]_vars

\* Time passes, and someone keeps reading the pending requests: the phone page
\* polls pending(), which sweeps.
LiveSpec == Spec /\ WF_vars(Tick) /\ WF_vars(Sweep)

-----------------------------------------------------------------------------
(* Properties.                                                             *)

\* The receipts are the log of the moves, in one sequence without holes: every
\* row that moved has the receipt of its state, it is the row's latest, and
\* the only other receipt a row may have is `undecided', before its ruling.
\* (The application sequence of rulings is read off this log, never a clock.)
LogOrder ==
  LET entries == {e \in Request \X Moved : receipts[e[1]][e[2]] # 0}
  IN  /\ {receipts[e[1]][e[2]] : e \in entries} = 1..lastSeq
      /\ Cardinality(entries) = lastSeq
      /\ \A r \in Request, s \in Moved :
           receipts[r][s] # 0 =>
             \/ row[r].state = s
             \/ /\ s = "undecided"
                /\ row[r].via = "ruling"
                /\ receipts[r][s] < Seq(r)
      /\ \A r \in Request : row[r].state \in Moved => Seq(r) # 0

\* Whatever clients, hooks, sweeps and clock do between them, a request that
\* was decided, expired or withdrawn never changes again, and one marked
\* undecided is only ever moved by a late ruling.
TerminalFinal ==
  [][\A r \in Request :
       /\ row[r].state \in Terminal => row'[r] = row[r]
       /\ row[r].state = "undecided" =>
            \/ row'[r] = row[r]
            \/ row'[r].state \in Decided /\ row'[r].via = "ruling"]_row

\* No answer or standing grant is applied once the hold has ended, although
\* both are verified before the lock is taken.
NoLateAnswer ==
  \A r \in Request : row[r].via \in {"signature", "grant"} =>
                       row[r].decidedAt < row[r].expiresAt

\* No read or sweep expires a request before its grace ended: until then the
\* hook can still mark it undecided.
ExpiryAfterGrace ==
  \A r \in Request : row[r].state = "expired" =>
                       row[r].decidedAt >= row[r].expiresAt + Grace

\* A session's gaps are numbered 1, 2, 3, ... with no number given twice, and
\* exactly the requests that went undecided have one, ruled or not.
GapsDense ==
  /\ \A r \in Request :
       gap[r] # 0 <=> row[r].state = "undecided" \/ row[r].via = "ruling"
  /\ \A s \in Session :
       LET gapped == {r \in Request : SessionOf[r] = s /\ gap[r] # 0}
       IN  {gap[r] : r \in gapped} = 1..Cardinality(gapped)

\* A halt is on a request that went undecided, and the ruling on that request
\* releases it in its own transaction: a session is never left halted on a
\* request nobody can rule on any more.
HaltsReleased ==
  /\ \A r \in halts : row[r].state = "undecided" \/ row[r].via = "ruling"
  /\ releases = {r \in halts : row[r].via = "ruling"}

\* One allow runs one call: no two hooks take the same request, whichever of
\* the two take operations each of them is in.
TakenOnce == \A t, u \in takes : t.request = u.request => t = u

\* What was taken was an allow, and was still in its window when it was taken:
\* a ruling within its lapse, a gate's allow just delivered.
TakesFresh ==
  \A t \in takes :
    LET d == row[t.request].decidedAt
    IN  /\ row[t.request].state = "allowed"
        /\ IF row[t.request].via = "ruling"
             THEN /\ t.at < d + Lapse
                  /\ d < row[t.request].answer.signedAt + Lapse
             ELSE t.at - d \in 0..(Reuse - 1)

\* No ruling applied before a taken one was signed after it.
TakesSignedInOrder ==
  \A t \in takes : \A q \in Ruled(CallOf[t.request]) :
    row[t.request].via = "ruling" /\ Seq(q) < Seq(t.request) =>
      row[q].answer.signedAt <= row[t.request].answer.signedAt

\* A ruled allow is taken only when its signer was active, and covered the
\* request, in the replay the taking hook made for this very call.
TakesVerified ==
  [][\A t \in takes' \ takes :
       row[t.request].via = "ruling" =>
         LET signer == row[t.request].answer.signer
         IN  /\ hook[t.by].pc = "picked"
             /\ signer \in hook[t.by].active
             /\ <<signer, t.request>> \in Covers]_takes

\* An answer that was taken back, by revoking its key or by changing or revoking
\* its grant, before a hook asked for the decision is never held by that hook as
\* a decision, for the agent or for a gate's take, although the row is read first
\* and the authority log after it, and neither under a lock.  (One taken back
\* later may still be delivered.)
AnswersInForce ==
  \A h \in Hook : hook[h].pc = "decided" => hook[h].got.stood

\* A request the hook reported undecided is never delivered as a decision: a
\* ruled allow reaches the agent by being taken, and no other way.
UndecidedNeverDelivered == \A r \in delivered : gap[r] = 0

\* The evidence kept of refused answers stays within its caps, counted apart
\* for enrolled and other keys, each (request, signer, decision) once.
EvidenceBounded ==
  /\ \A r \in Request :
       /\ Cardinality({e \in refused : e.request = r /\ e.enrolled}) <= KeptEnrolled
       /\ Cardinality({e \in refused : e.request = r /\ ~e.enrolled}) <= KeptOthers
  /\ \A e, f \in refused :
       e.request = f.request /\ e.signer = f.signer /\ e.decision = f.decision
         => e = f

\* An authorised answer is kept as too late only for a request no answer or
\* grant decided: nobody finds an answer filed both as applied and as late.
\* (While the clock does not step back.)
LateNeverAnswered ==
  \A e \in refused : e.reason = "approval-window-elapsed" =>
                        row[e.request].via \notin {"signature", "grant"}

\* A request is not pending for ever while the queue is being read.
PendingEnds == \A r \in Request : row[r].state = "pending" ~> row[r].state # "pending"

\* The queue keeps the promise of LateAllow.  A call's ticket is its latest
\* ruling, by application sequence, when that is an allow not taken yet.
Ticket(c) ==
  LET open == {r \in Ruled(c) : row[r].state = "allowed" /\ Newest(r) /\ ~IsTaken(r)}
  IN  IF open = {} THEN NoRequest ELSE CHOOSE r \in open : TRUE

Tickets == INSTANCE LateAllow WITH
          None   <- NoRequest,
          ticket <- [c \in Call |-> Ticket(c)],
          ruled  <- {r \in Request : row[r].via = "ruling"},
          run    <- {r \in Request : row[r].via = "ruling" /\ IsTaken(r)}

\* Each late allow is used by at most one run of the call, and a later ruling
\* takes back what was not used yet, whatever the hooks and signers interleave.
OneRunPerAllow == Tickets!Spec

\* dialog_outcome(): None ("none yet, or levain decided it").
OutcomeNeverDecided ==
  \A r \in Request : row[r].state \in Decided => outcome[r] = "none"
=============================================================================
