-------------------------- MODULE GovernedActions --------------------------
(***************************************************************************)
(* The governed actions of levain/writes.py (apply_action) over the        *)
(* at-most-once ledger of levain/idempotency.py and the background jobs of *)
(* levain/jobs.py.                                                         *)
(*                                                                         *)
(* A request claims its idempotency key, fires its verb, inline or as a    *)
(* job in a worker thread, and settles the key: done with the response to  *)
(* replay, faulted, or released when nothing fired.  Every operation of    *)
(* the two stores is one locked read-modify-write of a file that several   *)
(* servers share; what a request or a worker does between two of them is a *)
(* step of its own.  A server may die at any step, and sweeps the jobs     *)
(* when it starts, whatever another server's workers do.                   *)
(*                                                                         *)
(* Requests are numbered as they arrive; a job has its request's number.   *)
(***************************************************************************)
EXTENDS Integers, Sequences, FiniteSets

CONSTANTS
  Server,       \* server processes on one ledger root
  Key,          \* idempotency keys
  Inline, Job,  \* contents of requests (verb and params) by how their verb runs
  Window,       \* IdempotencyStore.window_s
  Lease,        \* JOB_LEASE_S
  ResultTTL,    \* RESULT_TTL_S
  MaxConcurrent,\* worker slots of a server
  MaxRequest,   \* bound: requests
  MaxTime,      \* bound: the last instant of the clock
  MaxDeaths     \* bound: how often a server dies

ASSUME ActionsAssumption ==
  /\ Inline \cap Job = {}
  /\ {Window, Lease, ResultTTL} \subseteq Nat
  /\ ResultTTL >= Window      \* "matched to the idempotency dedup window"
  /\ MaxConcurrent \in Nat \ {0}
  /\ {MaxRequest, MaxTime, MaxDeaths} \subseteq Nat

VARIABLES
  now,     \* the clock
  deaths,  \* servers died so far
  running, \* the servers that are up
  slots,   \* each server's free worker slots
  request, \* the requests, in the order they arrived
  record,  \* the idempotency record of each key
  job,     \* the job record of each request
  worker,  \* the worker thread of each request's job
  fired,   \* the requests whose handler ran past its checks, in order
  shown    \* the final status that a poll showed of each job: done, failed, or failed because its
           \* lease ran out, which no write recorded (lapsed)

vars == <<now, deaths, running, slots, request, record, job, worker, fired, shown>>

Requests == 1..MaxRequest
Contents == Inline \cup Job
Arrived == DOMAIN request

NoRecord == [status |-> "absent"]
NoJob == [status |-> "unknown"]
NoWorker == [pc |-> "none"]

Init ==
  /\ now = 0 /\ deaths = 0
  /\ running = Server
  /\ slots = [s \in Server |-> MaxConcurrent]
  /\ request = <<>>
  /\ record = [k \in Key |-> NoRecord]
  /\ job = [r \in Requests |-> NoJob]
  /\ worker = [r \in Requests |-> NoWorker]
  /\ fired = <<>>
  /\ shown = [r \in Requests |-> "none"]

At(r, pc) == r \in Arrived /\ request[r].pc = pc
Goes(r, pc) == request' = [request EXCEPT ![r].pc = pc]

------------------------------------------------------------------------------
(***************************************************************************)
(* IdempotencyStore.                                                       *)
(***************************************************************************)

Expired(created, t) == t - created > Window

InFlight(r, t) ==
  [status |-> "in_flight", content |-> request[r].content, created |-> t, of |-> r]

\* Faulty: a reservation ages into a key that is free again.
Outcome_Aged(k, content, t) ==
  LET rec == record[k]
      live == rec.status \in {"in_flight", "done"} /\ ~Expired(rec.created, t)
  IN CASE rec.status = "absent" -> "fresh"
       [] rec.status = "faulted" -> "faulted"
       [] rec.status \in {"in_flight", "done"} /\ Expired(rec.created, t) -> "fresh"
       [] live /\ rec.content # content -> "collision"
       [] live /\ rec.content = content -> IF rec.status = "done" THEN "replay" ELSE "in_flight"

\* What claim_or_replay finds for a key.
Outcome(k, content, t) ==
  LET rec == record[k]
      live == rec.status \in {"in_flight", "done"} /\ ~Expired(rec.created, t)
  IN CASE rec.status = "absent" -> "fresh"
       [] rec.status = "faulted" -> "faulted"
       [] rec.status = "in_flight" /\ Expired(rec.created, t) -> "faulted"
       [] rec.status = "done" /\ Expired(rec.created, t) -> "fresh"
       [] live /\ rec.content # content -> "collision"
       [] live /\ rec.content = content -> IF rec.status = "done" THEN "replay" ELSE "in_flight"

\* The expired done records of other keys go with the write of a claim.
Pruned(t) ==
  [k \in Key |-> IF record[k].status = "done" /\ Expired(record[k].created, t) THEN NoRecord ELSE record[k]]

\* A reservation that nobody resolved in its window is poisoned by the next claim.
Poisoned(k) == IF record[k].status = "in_flight" THEN [record[k] EXCEPT !.status = "faulted"] ELSE record[k]

\* Faulty: a late settlement overwrites what others decided of the key.
Resolved_Late(k, status) == IF record[k].status = "absent" THEN record ELSE [record EXCEPT ![k].status = status]

\* finalize, mark_faulted and release touch a key only while it is in flight.
Resolved(k, status) ==
  IF record[k].status = "in_flight" THEN [record EXCEPT ![k].status = status] ELSE record
ReleasedKey(k) ==
  IF record[k].status = "in_flight" THEN [record EXCEPT ![k] = NoRecord] ELSE record

------------------------------------------------------------------------------
(***************************************************************************)
(* JobStore.                                                               *)
(***************************************************************************)

NonTerminal(j) == j.status \in {"pending", "running"}
LeaseExpired(j, t) == t - j.created > Lease
Failed(j, t) == [j EXCEPT !.status = "failed", !.finished = t]

\* Faulty: an orphan past its lease is dropped.
PrunedJob_Dropped(j, t) ==
  CASE NonTerminal(j) /\ LeaseExpired(j, t) -> NoJob
    [] j.status \in {"done", "failed"} /\ t - j.finished > ResultTTL -> NoJob
    [] OTHER -> j

\* _prune: old results go, an orphan past its lease fails and ages as a result from then on.
PrunedJob(j, t) ==
  CASE NonTerminal(j) /\ LeaseExpired(j, t) -> Failed(j, t)
    [] j.status \in {"done", "failed"} /\ t - j.finished > ResultTTL -> NoJob
    [] OTHER -> j

\* read_status: a job past its lease reads as failed.
Read(j, t) == IF NonTerminal(j) /\ LeaseExpired(j, t) THEN "failed" ELSE j.status

\* sweep: a process that starts takes every unfinished job for a crash's.
Swept(t) == [r \in Requests |-> IF NonTerminal(job[r]) THEN Failed(job[r], t) ELSE job[r]]

\* Faulty: a result is written over whatever the job's status became.
Finished_Late(r, status, t) ==
  IF job[r].status = "unknown" THEN job ELSE [job EXCEPT ![r] = [job[r] EXCEPT !.status = status, !.finished = t]]

\* finish: only a running job is finished.
Finished(r, status, t) ==
  IF job[r].status = "running"
  THEN [job EXCEPT ![r] = [job[r] EXCEPT !.status = status, !.finished = t]]
  ELSE job

------------------------------------------------------------------------------
(***************************************************************************)
(* apply_action.                                                           *)
(***************************************************************************)

\* A request arrives; the stamp it claims with is taken here.
Arrive ==
  /\ Len(request) < MaxRequest
  /\ \E s \in running, k \in Key, c \in Contents :
       request' = Append(request, [pc |-> "claiming", server |-> s, key |-> k, content |-> c, at |-> now,
                                 claimed |-> now, kept |-> FALSE])
  /\ UNCHANGED <<now, deaths, running, slots, record, job, worker, fired, shown>>

(***************************************************************************)
(* _idempotency_claim.  Only a fresh claim goes on; every other outcome is *)
(* the request's answer.                                                   *)
(***************************************************************************)
Claim(r) ==
  LET q == request[r]
      outcome == Outcome(q.key, q.content, q.at)
  IN /\ At(r, "claiming")
     /\ request' = [request EXCEPT ![r].pc = IF outcome = "fresh" THEN "claimed" ELSE outcome,
                                   ![r].claimed = now]
     /\ record' = IF outcome = "fresh" THEN [Pruned(q.at) EXCEPT ![q.key] = InFlight(r, q.at)]
                  ELSE IF outcome = "faulted" THEN [record EXCEPT ![q.key] = Poisoned(q.key)]
                  ELSE record
     /\ UNCHANGED <<now, deaths, running, slots, job, worker, fired, shown>>

\* The handler refuses before it does anything (EditError).
Refuses(r) ==
  /\ At(r, "claimed") /\ request[r].content \in Inline
  /\ Goes(r, "releasing")
  /\ UNCHANGED <<now, deaths, running, slots, record, job, worker, fired, shown>>

\* The handler does what the action is for; then it returns, or faults, nobody knows how far.
Fires(r) ==
  /\ At(r, "claimed") /\ request[r].content \in Inline
  /\ Goes(r, "fired")
  /\ fired' = Append(fired, r)
  /\ UNCHANGED <<now, deaths, running, slots, record, job, worker, shown>>

Returns(r) ==
  /\ At(r, "fired")
  /\ \/ Goes(r, "finalizing")
     \/ Goes(r, "faulting")
  /\ UNCHANGED <<now, deaths, running, slots, record, job, worker, fired, shown>>

\* The key is settled, best effort: the write may fail, and leaves it in flight.
Settles(r) ==
  LET k == request[r].key IN
  /\ \/ At(r, "finalizing") /\ record' \in {record, Resolved(k, "done")}
     \/ At(r, "faulting") /\ record' \in {record, Resolved(k, "faulted")}
     \/ At(r, "releasing") /\ record' \in {record, ReleasedKey(k)}
  /\ request' = [request EXCEPT ![r].pc = "over", ![r].kept = At(r, "finalizing") /\ record' # record]
  /\ UNCHANGED <<now, deaths, running, slots, job, worker, fired, shown>>

(***************************************************************************)
(* _dispatch_job and JobRuntime.submit: a slot, the record, the thread.    *)
(***************************************************************************)
Acquire(r) ==
  LET s == request[r].server IN
  /\ At(r, "claimed") /\ request[r].content \in Job
  /\ IF slots[s] = 0
     THEN Goes(r, "releasing") /\ slots' = slots
     ELSE Goes(r, "acquired") /\ slots' = [slots EXCEPT ![s] = @ - 1]
  /\ UNCHANGED <<now, deaths, running, record, job, worker, fired, shown>>

Create(r) ==
  LET t == request[r].at IN
  /\ At(r, "acquired")
  /\ Goes(r, "created")
  /\ job' = [[x \in Requests |-> PrunedJob(job[x], t)] EXCEPT
               ![r] = [status |-> "pending", created |-> t, finished |-> t]]
  /\ UNCHANGED <<now, deaths, running, slots, record, worker, fired, shown>>

Start(r) ==
  /\ At(r, "created")
  /\ worker' = [worker EXCEPT ![r] = [pc |-> "started"]]
  /\ Goes(r, "finalizing")
  /\ UNCHANGED <<now, deaths, running, slots, record, job, fired, shown>>

\* The store or the thread fails: the slot is given back, and the key.
SubmitFails(r) ==
  LET s == request[r].server IN
  /\ At(r, "acquired") \/ At(r, "created")
  /\ slots' = [slots EXCEPT ![s] = @ + 1]
  /\ Goes(r, "releasing")
  /\ UNCHANGED <<now, deaths, running, record, job, worker, fired, shown>>

------------------------------------------------------------------------------
(***************************************************************************)
(* JobRuntime._run, the worker thread.                                     *)
(***************************************************************************)

\* claim_running: only a pending job is run.
ClaimRunning(r) ==
  /\ worker[r].pc = "started"
  /\ IF job[r].status = "pending"
     THEN /\ job' = [job EXCEPT ![r].status = "running"]
          /\ worker' = [worker EXCEPT ![r].pc = "running"]
     ELSE /\ job' = job
          /\ worker' = [worker EXCEPT ![r].pc = "leaving"]
  /\ UNCHANGED <<now, deaths, running, slots, request, record, fired, shown>>

Works(r) ==
  /\ worker[r].pc = "running"
  /\ worker' = [worker EXCEPT ![r].pc = "worked"]
  /\ fired' = Append(fired, r)
  /\ UNCHANGED <<now, deaths, running, slots, request, record, job, shown>>

\* The result is written, best effort.
Finish(r) ==
  /\ worker[r].pc = "worked"
  /\ \E status \in {"done", "failed"} : job' \in {job, Finished(r, status, now)}
  /\ worker' = [worker EXCEPT ![r].pc = "leaving"]
  /\ UNCHANGED <<now, deaths, running, slots, request, record, fired, shown>>

Leaves(r) ==
  LET s == request[r].server IN
  /\ worker[r].pc = "leaving"
  /\ worker' = [worker EXCEPT ![r] = NoWorker]
  /\ slots' = [slots EXCEPT ![s] = @ + 1]
  /\ UNCHANGED <<now, deaths, running, request, record, job, fired, shown>>

------------------------------------------------------------------------------
\* A poll of a job whose number its caller was told.
Poll(r) ==
  /\ r \in Arrived /\ request[r].content \in Job
  /\ request[r].pc \in {"finalizing", "over"}
  /\ Read(job[r], now) \in {"done", "failed"}
  /\ shown' = [shown EXCEPT ![r] = IF NonTerminal(job[r]) THEN "lapsed" ELSE Read(job[r], now)]
  /\ UNCHANGED <<now, deaths, running, slots, request, record, job, worker, fired>>

\* A server dies with its requests and its workers.
Dies(s) ==
  LET its == {r \in Arrived : request[r].server = s} IN
  /\ s \in running /\ deaths < MaxDeaths
  /\ deaths' = deaths + 1
  /\ running' = running \ {s}
  /\ slots' = [slots EXCEPT ![s] = MaxConcurrent]
  /\ request' = [r \in Arrived |-> IF r \in its THEN [request[r] EXCEPT !.pc = "over"] ELSE request[r]]
  /\ worker' = [r \in Requests |-> IF r \in its THEN NoWorker ELSE worker[r]]
  /\ UNCHANGED <<now, record, job, fired, shown>>

Starts(s) ==
  /\ s \notin running
  /\ running' = running \cup {s}
  /\ job' = Swept(now)
  /\ UNCHANGED <<now, deaths, slots, request, record, worker, fired, shown>>

\* Time passes, whatever a request or a worker is in the middle of: a job may outlive its lease, a
\* wedged one its key's window too.
Tick ==
  /\ now < MaxTime
  /\ now' = now + 1
  /\ UNCHANGED <<deaths, running, slots, request, record, job, worker, fired, shown>>

Dispatch(r) == Claim(r) \/ Refuses(r) \/ Fires(r) \/ Returns(r) \/ Settles(r)
                 \/ Acquire(r) \/ Create(r) \/ Start(r) \/ SubmitFails(r)
Worker(r) == ClaimRunning(r) \/ Works(r) \/ Finish(r) \/ Leaves(r)

Next ==
  \/ Arrive \/ Tick
  \/ \E r \in Arrived : Dispatch(r) \/ Worker(r) \/ Poll(r)
  \/ \E s \in Server : Dies(s) \/ Starts(s)

Spec == Init /\ [][Next]_vars

------------------------------------------------------------------------------
(***************************************************************************)
(* Correctness.                                                            *)
(***************************************************************************)

\* The claim of request q was recorded as done, and its window had passed when r claimed.
Apart(q, r) == request[q].kept /\ Expired(request[q].at, request[r].claimed)

\* An action fires again under one key only for another claim, made when the first was recorded as done
\* and past its window: not after a fault, a crash or a write that failed.  The firings come in the
\* order of the claims, except that a job which outlives its key's window may fire after the next claim.
AtMostOnce ==
  \A i, j \in DOMAIN fired :
    LET q == fired[i]
        r == fired[j]
    IN i < j /\ request[q].key = request[r].key =>
         q # r /\ (Apart(q, r) \/ (request[r].content \in Job /\ Apart(r, q)))

\* A key that was poisoned, because nobody can tell whether its action happened, stays poisoned:
\* no late finalize or release of the request that claimed it makes it free or done.
FaultedForever ==
  [][\A k \in Key : record[k].status = "faulted" => record'[k] = record[k]]_record

\* A handle that a replay returns can be polled: the job outlives the key's window.
ReplayResolvable ==
  \A k \in Key :
    /\ record[k].status = "done"
    /\ record[k].content \in Job
    /\ ~Expired(record[k].created, now)
    => job[record[k].of].status # "unknown"

\* The worker of a job ended it well, after its lease ran out.
EndedLate(r) == job[r].status = "done" /\ LeaseExpired(job[r], job[r].finished)

\* A final status that a poll showed is not taken back by a late worker, another server's sweep or a
\* prune while the job's record is there.  The one exception is a failure that read_status inferred
\* from the lease and nobody wrote: finish may still write the result of the worker that outlived it.
StatusStays ==
  \A r \in Requests :
    LET read == Read(job[r], now) IN
    /\ shown[r] = "done" => read \in {"done", "unknown"}
    /\ shown[r] = "failed" => read \in {"failed", "unknown"}
    /\ shown[r] = "lapsed" => read \in {"failed", "unknown"} \/ EndedLate(r)
=============================================================================
