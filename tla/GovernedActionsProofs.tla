----------------------- MODULE GovernedActionsProofs -----------------------
(***************************************************************************)
(* Proofs about GovernedActions for every number of servers, keys and      *)
(* requests and every window, lease and bound.                             *)
(*                                                                         *)
(* AtMostOnce needs to know whose claim a key's record is: a request that  *)
(* has not settled its key owns it, and who has fired, or has a worker     *)
(* that may, left the key in flight, poisoned, or done and past its window.*)
(* So the claims of any two that fire under one key are apart, however     *)
(* long a worker takes.                                                    *)
(***************************************************************************)
EXTENDS GovernedActions, SequenceTheorems, TLAPS

Waiting == {"claiming", "claimed", "acquired", "created"}
Outcomes == {"fresh", "faulted", "collision", "in_flight", "replay"}
Claimed == {"claimed", "acquired", "created", "fired", "finalizing", "faulting", "releasing"}
Places == Waiting \cup Claimed \cup Outcomes \cup {"over"}

Req == [pc : Places, server : Server, key : Key, content : Contents, at : Int, claimed : Int, kept : BOOLEAN]
Rec == {NoRecord} \cup
       [status : {"in_flight", "done", "faulted"}, content : Contents, created : Int, of : Nat]
Thread == [pc : {"none", "started", "running", "worked", "leaving"}]

\* The variables that the invariant speaks of keep their types.
TypeOK ==
  /\ now \in Int
  /\ running \subseteq Server
  /\ request \in Seq(Req) /\ Len(request) <= MaxRequest
  /\ record \in [Key -> Rec]
  /\ worker \in [Requests -> Thread]
  /\ fired \in Seq(Nat)

------------------------------------------------------------------------------
(***************************************************************************)
(* The inductive invariant.                                                *)
(***************************************************************************)

HasFired(r) == \E i \in DOMAIN fired : fired[i] = r
Working(r) == worker[r].pc \in {"started", "running"}

\* The record of its key is the claim of request r.
Names(r) ==
  LET rec == record[request[r].key] IN
  rec.status # "absent" /\ rec.of = r /\ rec.created = request[r].at

\* Who has not settled its key owns the record.
Owners ==
  \A r \in Arrived :
    /\ request[r].pc \in Claimed => Names(r) /\ record[request[r].key].status # "done"
    /\ request[r].kept => request[r].pc = "over"

\* A record is done by the request that it names.
DoneByOwner ==
  \A k \in Key :
    record[k].status = "done" =>
      /\ record[k].of \in Arrived
      /\ LET q == request[record[k].of] IN q.key = k /\ q.kept /\ q.at = record[k].created

\* Who waits has no worker; whose worker is there has a job and has submitted it.
Threads ==
  \A r \in Requests :
    /\ worker[r] # NoWorker =>
         r \in Arrived /\ request[r].content \in Job /\ request[r].pc \in {"finalizing", "over"}
    /\ r \in Arrived /\ request[r].pc \in {"acquired", "created"} => request[r].content \in Job

\* Clocks: a request is not from the future.
Times == \A r \in Arrived : request[r].at <= now

MayFire(r) == request[r].pc \in Waiting \cup {"releasing"} \/ Working(r)

\* Who may fire has not.
Unfired == \A r \in Arrived : MayFire(r) => ~HasFired(r)

\* Who has fired or has a worker that may, and who may come to that.
Acted(r) == HasFired(r) \/ Working(r)
Engaged(r) == request[r].pc \in {"claimed", "acquired", "created"} \/ Acted(r)

\* Of two claims on one key that may both fire, one was recorded and past its window for the other.
Ages ==
  \A q, r \in Arrived :
    q # r /\ request[q].key = request[r].key /\ Engaged(q) /\ Engaged(r) => Apart(q, r) \/ Apart(r, q)

\* Who acts leaves its key poisoned, or its record, or it was recorded and is past its window.
Traces ==
  \A q \in Arrived :
    Acted(q) =>
      \/ record[request[q].key].status = "faulted"
      \/ Names(q)
      \/ request[q].kept /\ Expired(request[q].at, now)

FiredArrived == \A i \in DOMAIN fired : fired[i] \in Arrived

Inv ==
  /\ TypeOK /\ Owners /\ DoneByOwner /\ Threads /\ Times /\ Unfired /\ Ages /\ Traces /\ FiredArrived
  /\ AtMostOnce

------------------------------------------------------------------------------
(***************************************************************************)
(* Requests, records and firings.                                          *)
(***************************************************************************)

LEMMA Bounds ==
  Window \in Nat /\ Inline \cap Job = {}
  BY ActionsAssumption

LEMMA ArrivedType ==
  ASSUME TypeOK
  PROVE  /\ Len(request) \in Nat /\ Arrived = 1..Len(request) /\ Arrived \subseteq Requests
         /\ \A r \in Arrived : request[r] \in Req
  <1>1. Len(request) \in Nat /\ Arrived = 1..Len(request)
    BY LenProperties DEF TypeOK, Arrived
  <1>2. Arrived \subseteq Requests
    BY <1>1, ActionsAssumption DEF TypeOK, Requests
  <1>3. \A r \in Arrived : request[r] \in Req
    BY <1>1, ElementOfSeq DEF TypeOK
  <1> QED BY <1>1, <1>2, <1>3

LEMMA ReqType ==
  ASSUME NEW q \in Req
  PROVE  /\ q.pc \in Places /\ q.server \in Server /\ q.key \in Key /\ q.content \in Contents
         /\ q.at \in Int /\ q.claimed \in Int /\ q.kept \in BOOLEAN
  BY DEF Req

\* One request changes.
LEMMA OneRequest ==
  ASSUME TypeOK, NEW r \in Arrived, NEW q \in Req, request' = [request EXCEPT ![r] = q]
  PROVE  /\ request' \in Seq(Req) /\ Len(request') = Len(request) /\ Arrived' = Arrived
         /\ request'[r] = q
         /\ \A x \in Arrived : x # r => request'[x] = request[x]
  <1>1. Len(request) \in Nat /\ Arrived = 1..Len(request) /\ request \in Seq(Req)
    BY ArrivedType DEF TypeOK
  <1>2. /\ request' \in Seq(Req) /\ Len(request') = Len(request)
        /\ \A x \in 1..Len(request) : request'[x] = IF x = r THEN q ELSE request[x]
    BY <1>1, ExceptSeq
  <1>3. DOMAIN request' = 1..Len(request')
    BY <1>2, LenProperties
  <1> QED BY <1>1, <1>2, <1>3 DEF Arrived

\* A request that only moves.
LEMMA Moved ==
  ASSUME TypeOK, NEW r \in Arrived, NEW pc \in Places, Goes(r, pc)
  PROVE  /\ request' \in Seq(Req) /\ Len(request') = Len(request) /\ Arrived' = Arrived
         /\ request'[r] = [request[r] EXCEPT !.pc = pc]
         /\ \A x \in Arrived : x # r => request'[x] = request[x]
  <1>1. request[r] \in Req
    BY ArrivedType
  <1>2. [request[r] EXCEPT !.pc = pc] \in Req
    BY <1>1 DEF Req
  <1>3. request' = [request EXCEPT ![r] = [request[r] EXCEPT !.pc = pc]]
    BY DEF Goes
  <1> QED BY <1>2, <1>3, OneRequest

LEMMA RecordType ==
  ASSUME TypeOK, NEW k \in Key
  PROVE  /\ record[k] \in Rec
         /\ record[k].status \in {"absent", "in_flight", "done", "faulted"}
         /\ record[k].status # "absent" => record[k].of \in Nat /\ record[k].created \in Int
  BY DEF TypeOK, Rec, NoRecord

\* One record belongs to one request.
LEMMA OneOwner ==
  ASSUME NEW p, NEW q, Names(p), Names(q), request[p].key = request[q].key
  PROVE  p = q
  BY DEF Names

\* Claims stay apart while what is kept is kept.
LEMMA StillApart ==
  ASSUME NEW q, NEW r, request[q].kept => request'[q].kept, request'[q].at = request[q].at,
         request'[r].claimed = request[r].claimed
  PROVE  Apart(q, r) => Apart(q, r)'
  BY DEF Apart, Expired

\* How two firings under one key stand.
Ordered(q, r) == q # r /\ (Apart(q, r) \/ (request[r].content \in Job /\ Apart(r, q)))

LEMMA OrderedFirings ==
  ASSUME AtMostOnce, NEW i \in DOMAIN fired, NEW j \in DOMAIN fired, NEW p, NEW q,
         i < j, p = fired[i], q = fired[j], request[p].key = request[q].key
  PROVE  Ordered(p, q)
  BY DEF AtMostOnce, Ordered

LEMMA OrderedFiringsNext ==
  ASSUME \A i, j \in DOMAIN fired' : \A p, q :
           i < j /\ p = fired'[i] /\ q = fired'[j] /\ request'[p].key = request'[q].key => Ordered(p, q)'
  PROVE  AtMostOnce'
  BY DEF AtMostOnce, Ordered, Apart

\* A firing more.
LEMMA FiredMore ==
  ASSUME TypeOK, NEW r \in Arrived, fired' = Append(fired, r)
  PROVE  /\ fired' \in Seq(Nat) /\ Len(fired') = Len(fired) + 1 /\ Len(fired) \in Nat
         /\ DOMAIN fired = 1..Len(fired) /\ DOMAIN fired' = 1..Len(fired')
         /\ \A i \in DOMAIN fired : fired'[i] = fired[i]
         /\ fired'[Len(fired')] = r
         /\ \A x : HasFired(x)' <=> HasFired(x) \/ x = r
  <1>1. fired \in Seq(Nat) /\ r \in Nat
    BY ArrivedType DEF TypeOK
  <1>2. /\ fired' \in Seq(Nat) /\ Len(fired') = Len(fired) + 1 /\ Len(fired) \in Nat
        /\ DOMAIN fired = 1..Len(fired) /\ DOMAIN fired' = 1..Len(fired')
        /\ \A i \in 1..Len(fired) : fired'[i] = fired[i]
        /\ fired'[Len(fired) + 1] = r
    BY <1>1, AppendProperties, LenProperties
  <1>3. \A x : HasFired(x)' <=> HasFired(x) \/ x = r
    BY <1>2 DEF HasFired
  <1> QED BY <1>2, <1>3

------------------------------------------------------------------------------
(***************************************************************************)
(* Steps that neither claim, settle nor fire.                              *)
(***************************************************************************)

\* What such a step may do to a request and to its worker.
Quietly(r) ==
  /\ request'[r].key = request[r].key /\ request'[r].content = request[r].content
  /\ request'[r].at = request[r].at /\ request'[r].kept = request[r].kept
  /\ request'[r].claimed = request[r].claimed
  /\ request[r].kept => request'[r].pc = "over"
  /\ request'[r].pc \in Claimed => request[r].pc \in Claimed
  /\ request'[r].pc \in Waiting => request[r].pc \in Waiting
  /\ request'[r].pc \in Waiting \cup {"releasing"} => request[r].pc \in Waiting \cup {"releasing"}
  /\ request'[r].pc \in {"claimed", "acquired", "created"} => request[r].pc \in {"claimed", "acquired", "created"}
  /\ request'[r].pc \in {"acquired", "created"} => request[r].content \in Job
  /\ Working(r)' => Working(r) \/ request[r].pc = "created"
  /\ worker'[r] # NoWorker =>
       /\ request[r].content \in Job /\ request'[r].pc \in {"finalizing", "over"}
       /\ worker[r] # NoWorker \/ request[r].pc \in Waiting

LEMMA QuietStep ==
  ASSUME Inv, TypeOK', Arrived' = Arrived,
         UNCHANGED <<now, record, fired>>,
         \A r \in Arrived : Quietly(r),
         \A r \in Requests \ Arrived : worker'[r] = worker[r]
  PROVE  Inv'
  <1>1. ASSUME NEW r
        PROVE  HasFired(r)' <=> HasFired(r)
    BY DEF HasFired
  <1>2. ASSUME NEW r \in Arrived
        PROVE  Names(r)' <=> Names(r)
    BY <1>2 DEF Names, Quietly
  <1>3. Owners'
    BY <1>2 DEF Inv, Owners, Quietly, Claimed
  <1>4. DoneByOwner'
    BY DEF Inv, DoneByOwner, Quietly
  <1>5. Threads'
    <2> SUFFICES ASSUME NEW r \in Requests
                 PROVE  /\ worker'[r] # NoWorker =>
                             r \in Arrived /\ request'[r].content \in Job /\ request'[r].pc \in {"finalizing", "over"}
                        /\ r \in Arrived /\ request'[r].pc \in {"acquired", "created"} => request'[r].content \in Job
      BY DEF Threads
    <2>1. CASE r \in Arrived
      BY <2>1 DEF Quietly
    <2>2. CASE r \notin Arrived
      BY <2>2 DEF Inv, Threads
    <2> QED BY <2>1, <2>2
  <1>6. Times'
    BY DEF Inv, Times, Quietly
  <1>7. Unfired'
    <2> SUFFICES ASSUME NEW r \in Arrived, MayFire(r)'
                 PROVE  ~HasFired(r)'
      BY DEF Unfired
    <2>1. MayFire(r)
      BY DEF MayFire, Quietly, Waiting
    <2> QED BY <1>1, <2>1 DEF Inv, Unfired
  <1>8. ASSUME NEW r \in Arrived
        PROVE  Engaged(r)' => Engaged(r)
    BY <1>1 DEF Engaged, Acted, Quietly
  <1>9. ASSUME NEW q \in Arrived, NEW r \in Arrived
        PROVE  Apart(q, r) => Apart(q, r)'
    BY StillApart DEF Quietly
  <1>10. Ages'
    <2> SUFFICES ASSUME NEW q \in Arrived, NEW r \in Arrived, q # r,
                        request'[q].key = request'[r].key, Engaged(q)', Engaged(r)'
                 PROVE  Apart(q, r)' \/ Apart(r, q)'
      BY DEF Ages
    <2>1. request[q].key = request[r].key
      BY DEF Quietly
    <2> QED BY <1>8, <1>9, <2>1 DEF Inv, Ages
  <1>11. Traces'
    <2> SUFFICES ASSUME NEW q \in Arrived, Acted(q)'
                 PROVE  \/ record[request[q].key].status = "faulted"
                        \/ Names(q)
                        \/ request[q].kept /\ Expired(request[q].at, now)
      BY <1>2 DEF Traces, Quietly, Expired
    <2>1. Acted(q) \/ request[q].pc = "created"
      BY <1>1 DEF Acted, Quietly
    <2> QED BY <2>1 DEF Inv, Traces, Owners, Claimed
  <1>12. FiredArrived'
    BY DEF Inv, FiredArrived
  <1>13. AtMostOnce'
    <2> SUFFICES ASSUME NEW i \in DOMAIN fired, NEW j \in DOMAIN fired, NEW p, NEW q,
                        i < j, p = fired[i], q = fired[j], request'[p].key = request'[q].key
                 PROVE  Ordered(p, q)'
      BY OrderedFiringsNext
    <2>1. p \in Arrived /\ q \in Arrived
      BY DEF Inv, FiredArrived
    <2>2. request[p].key = request[q].key /\ request'[q].content = request[q].content
      BY <2>1 DEF Quietly
    <2>3. Ordered(p, q)
      BY <2>2, OrderedFirings DEF Inv
    <2> QED BY <1>9, <2>1, <2>2, <2>3 DEF Ordered
  <1> QED BY <1>3, <1>4, <1>5, <1>6, <1>7, <1>10, <1>11, <1>12, <1>13 DEF Inv

\* The same, where one request moves or one worker.
LEMMA StillQuiet ==
  ASSUME Inv, NEW r \in Arrived, request'[r] = request[r], worker'[r] = worker[r]
  PROVE  Quietly(r)
  BY ArrivedType DEF Inv, Quietly, Working, Threads, Owners, Waiting, Claimed

LEMMA Workers ==
  ASSUME TypeOK, NEW r \in Requests, NEW w \in Thread, worker' = [worker EXCEPT ![r] = w]
  PROVE  /\ worker' \in [Requests -> Thread] /\ worker'[r] = w
         /\ \A x \in Requests : x # r => worker'[x] = worker[x]
  BY DEF TypeOK

\* A request that moves while its worker is where it is.
LEMMA GoesQuietly ==
  ASSUME Inv, NEW r \in Arrived, NEW pc \in Places, Goes(r, pc), running' = running,
         UNCHANGED <<now, record, worker, fired>>,
         pc \in Claimed => request[r].pc \in Claimed,
         pc \in Waiting => request[r].pc \in {"claimed", "acquired"} /\ request[r].content \in Job,
         pc # "claiming", request[r].pc # "over",
         pc \in Waiting \cup {"releasing"} => request[r].pc \in Waiting \cup {"releasing"},
         worker[r] = NoWorker
  PROVE  Inv'
  <1>1. /\ request' \in Seq(Req) /\ Len(request') = Len(request) /\ Arrived' = Arrived
        /\ request'[r] = [request[r] EXCEPT !.pc = pc]
        /\ \A x \in Arrived : x # r => request'[x] = request[x]
    BY Moved DEF Inv
  <1>2. TypeOK'
    BY <1>1 DEF Inv, TypeOK
  <1>3. request[r] \in Req
    BY ArrivedType DEF Inv
  <1>4. /\ request'[r].pc = pc /\ request'[r].key = request[r].key /\ request'[r].content = request[r].content
        /\ request'[r].at = request[r].at /\ request'[r].kept = request[r].kept
        /\ request'[r].claimed = request[r].claimed
    BY <1>1, <1>3 DEF Req
  <1>5. ~Working(r)'
    BY DEF Working, NoWorker
  <1>6. Quietly(r)
    BY <1>4, <1>5 DEF Quietly, Waiting, Inv, Owners
  <1>7. \A x \in Arrived : Quietly(x)
    BY <1>1, <1>6, StillQuiet
  <1> QED BY <1>1, <1>2, <1>7, QuietStep

\* Who has not submitted its job, or is over before, has no worker.
LEMMA NoThread ==
  ASSUME Inv, NEW r \in Arrived, request[r].pc \notin {"finalizing", "over"}
  PROVE  worker[r] = NoWorker
  BY ArrivedType DEF Inv, Threads

LEMMA RefusesStep ==
  ASSUME Inv, NEW r \in Arrived, Refuses(r) \/ Returns(r)
  PROVE  Inv'
  <1>1. request[r].pc \in {"claimed", "fired"} /\ worker[r] = NoWorker
    BY NoThread DEF Refuses, Returns, At
  <1>2. CASE Refuses(r)
    <2>1. Goes(r, "releasing") /\ request[r].pc = "claimed"
      BY <1>2 DEF Refuses, At
    <2> QED BY <1>1, <1>2, <2>1, GoesQuietly DEF Refuses, Waiting, Claimed, Places
  <1>3. CASE Returns(r)
    <2>1. (Goes(r, "finalizing") \/ Goes(r, "faulting")) /\ request[r].pc = "fired"
      BY <1>3 DEF Returns, At
    <2> QED BY <1>1, <1>3, <2>1, GoesQuietly DEF Returns, Waiting, Claimed, Places
  <1> QED BY <1>2, <1>3

LEMMA SubmitStep ==
  ASSUME Inv, NEW r \in Arrived, Acquire(r) \/ Create(r) \/ SubmitFails(r)
  PROVE  Inv'
  <1>1. request[r].pc \in {"claimed", "acquired", "created"} /\ worker[r] = NoWorker
    BY NoThread DEF Acquire, Create, SubmitFails, At
  <1>2. CASE Acquire(r)
    <2>1. /\ Goes(r, "releasing") \/ Goes(r, "acquired")
          /\ request[r].pc = "claimed" /\ request[r].content \in Job
      BY <1>2 DEF Acquire, At
    <2> QED BY <1>1, <1>2, <2>1, GoesQuietly DEF Acquire, Waiting, Claimed, Places
  <1>3. CASE Create(r)
    <2>1. Goes(r, "created") /\ request[r].pc = "acquired" /\ request[r].content \in Job
      BY <1>3, ArrivedType DEF Create, At, Inv, Threads
    <2> QED BY <1>1, <1>3, <2>1, GoesQuietly DEF Create, Waiting, Claimed, Places
  <1>4. CASE SubmitFails(r)
    <2>1. Goes(r, "releasing")
      BY <1>4 DEF SubmitFails
    <2> QED BY <1>1, <1>4, <2>1, GoesQuietly DEF SubmitFails, Waiting, Claimed, Places
  <1> QED BY <1>2, <1>3, <1>4

LEMMA StartStep ==
  ASSUME Inv, NEW r \in Arrived, Start(r)
  PROVE  Inv'
  <1> DEFINE w == [pc |-> "started"]
  <1>1. /\ request[r].pc = "created" /\ Goes(r, "finalizing") /\ worker' = [worker EXCEPT ![r] = w]
        /\ UNCHANGED <<now, running, record, fired>>
    BY DEF Start, At
  <1>2. /\ request' \in Seq(Req) /\ Len(request') = Len(request) /\ Arrived' = Arrived
        /\ request'[r] = [request[r] EXCEPT !.pc = "finalizing"]
        /\ \A x \in Arrived : x # r => request'[x] = request[x]
    BY <1>1, Moved DEF Inv, Places, Claimed
  <1>3. r \in Requests /\ request[r] \in Req
    BY ArrivedType DEF Inv
  <1>4. w \in Thread
    BY DEF Thread
  <1>5. /\ worker' \in [Requests -> Thread] /\ worker'[r] = w
        /\ \A x \in Requests : x # r => worker'[x] = worker[x]
    BY <1>1, <1>3, <1>4, Workers DEF Inv
  <1>6. TypeOK'
    BY <1>1, <1>2, <1>5 DEF Inv, TypeOK
  <1>7. request[r].content \in Job /\ ~request[r].kept
    BY <1>1, <1>3 DEF Inv, Threads, Owners
  <1>8. Quietly(r)
    <2>1. /\ request'[r].pc = "finalizing" /\ request'[r].key = request[r].key
          /\ request'[r].content = request[r].content
          /\ request'[r].at = request[r].at /\ request'[r].kept = request[r].kept
          /\ request'[r].claimed = request[r].claimed
      BY <1>2, <1>3 DEF Req
    <2> QED BY <1>1, <1>7, <2>1 DEF Quietly, Waiting, Claimed
  <1>9. \A x \in Arrived : Quietly(x)
    BY <1>2, <1>5, <1>8, StillQuiet, ArrivedType DEF Inv
  <1>10. \A x \in Requests \ Arrived : worker'[x] = worker[x]
    BY <1>5
  <1> QED BY <1>1, <1>2, <1>6, <1>9, <1>10, QuietStep

\* A step of a worker that starts nothing and fires nothing.
LEMMA WorkerStep ==
  ASSUME Inv, NEW r \in Arrived, NEW w \in Thread, worker' = [worker EXCEPT ![r] = w],
         worker[r] # NoWorker, w.pc \in {"started", "running"} => Working(r),
         UNCHANGED <<now, running, request, record, fired>>
  PROVE  Inv'
  <1>1. r \in Requests
    BY ArrivedType DEF Inv
  <1>2. /\ worker' \in [Requests -> Thread] /\ worker'[r] = w
        /\ \A x \in Requests : x # r => worker'[x] = worker[x]
    BY <1>1, Workers DEF Inv
  <1>3. TypeOK' /\ Arrived' = Arrived
    BY <1>2 DEF Inv, TypeOK, Arrived
  <1>4. Quietly(r)
    <2>1. request[r].content \in Job /\ request[r].pc \in {"finalizing", "over"}
      BY <1>1 DEF Inv, Threads
    <2>2. Working(r)' => Working(r)
      BY <1>2 DEF Working
    <2> QED BY <2>1, <2>2 DEF Quietly, Waiting, Claimed, Inv, Owners
  <1>5. \A x \in Arrived : Quietly(x)
    BY <1>2, <1>4, StillQuiet, ArrivedType DEF Inv
  <1>6. \A x \in Requests \ Arrived : worker'[x] = worker[x]
    BY <1>2
  <1> QED BY <1>3, <1>5, <1>6, QuietStep

LEMMA ThreadMoves ==
  ASSUME Inv, NEW r \in Arrived, NEW pc \in {"running", "leaving"},
         worker[r] # NoWorker, worker' = [worker EXCEPT ![r].pc = pc]
  PROVE  \E w \in Thread : w.pc = pc /\ worker' = [worker EXCEPT ![r] = w]
  <1>1. worker[r] \in Thread
    BY ArrivedType DEF Inv, TypeOK
  <1>2. [worker[r] EXCEPT !.pc = pc] \in Thread
    BY <1>1 DEF Thread
  <1>3. [worker[r] EXCEPT !.pc = pc].pc = pc
    BY <1>1 DEF Thread
  <1> QED BY <1>2, <1>3

LEMMA RunningStep ==
  ASSUME Inv, NEW r \in Arrived, ClaimRunning(r) \/ Finish(r) \/ Leaves(r)
  PROVE  Inv'
  <1>1. /\ worker[r] # NoWorker
        /\ UNCHANGED <<now, running, request, record, fired>>
    BY DEF ClaimRunning, Finish, Leaves, NoWorker
  <1>2. CASE ClaimRunning(r)
    <2>1. Working(r)
      BY <1>2 DEF ClaimRunning, Working
    <2>2. \/ worker' = [worker EXCEPT ![r].pc = "running"]
          \/ worker' = [worker EXCEPT ![r].pc = "leaving"]
      BY <1>2 DEF ClaimRunning
    <2>3. PICK w \in Thread : worker' = [worker EXCEPT ![r] = w]
      BY <1>1, <2>2, ThreadMoves
    <2> QED BY <1>1, <2>1, <2>3, WorkerStep
  <1>3. CASE Finish(r)
    <2>1. worker' = [worker EXCEPT ![r].pc = "leaving"]
      BY <1>3 DEF Finish
    <2>2. PICK w \in Thread : w.pc = "leaving" /\ worker' = [worker EXCEPT ![r] = w]
      BY <1>1, <2>1, ThreadMoves
    <2> QED BY <1>1, <2>2, WorkerStep
  <1>4. CASE Leaves(r)
    <2>1. NoWorker \in Thread /\ NoWorker.pc = "none"
      BY DEF NoWorker, Thread
    <2>2. worker' = [worker EXCEPT ![r] = NoWorker]
      BY <1>4 DEF Leaves
    <2> QED BY <1>1, <2>1, <2>2, WorkerStep
  <1> QED BY <1>2, <1>3, <1>4

\* Steps of others: nothing that the invariant speaks of changes.
LEMMA IdleStep ==
  ASSUME Inv, running' \subseteq Server, UNCHANGED <<now, request, record, worker, fired>>
  PROVE  Inv'
  <1>1. TypeOK' /\ Arrived' = Arrived
    BY DEF Inv, TypeOK, Arrived
  <1>2. \A x \in Arrived : Quietly(x)
    BY StillQuiet
  <1> QED BY <1>1, <1>2, QuietStep

LEMMA DiesStep ==
  ASSUME Inv, NEW s \in Server, Dies(s)
  PROVE  Inv'
  <1> DEFINE its == {r \in Arrived : request[r].server = s}
             next(r) == IF r \in its THEN [request[r] EXCEPT !.pc = "over"] ELSE request[r]
  <1>1. /\ request' = [r \in Arrived |-> next(r)]
        /\ worker' = [r \in Requests |-> IF r \in its THEN NoWorker ELSE worker[r]]
        /\ running' = running \ {s} /\ UNCHANGED <<now, record, fired>>
    BY DEF Dies
  <1>2. /\ Len(request) \in Nat /\ Arrived = 1..Len(request) /\ Arrived \subseteq Requests
        /\ \A r \in Arrived : request[r] \in Req
    BY ArrivedType DEF Inv
  <1>3. \A r \in Arrived : next(r) \in Req
    BY <1>2 DEF Req, Places
  <1> HIDE DEF next, its
  <1>4. request' \in [1..Len(request) -> Req]
    BY <1>1, <1>2, <1>3
  <1>5. request' \in Seq(Req) /\ Len(request') = Len(request) /\ Arrived' = Arrived
    <2>1. request' \in Seq(Req)
      BY <1>2, <1>4
    <2>2. DOMAIN request' = 1..Len(request)
      BY <1>4
    <2>3. Len(request') = Len(request)
      BY <1>2, <2>1, <2>2, LenProperties
    <2> QED BY <1>2, <2>1, <2>2, <2>3 DEF Arrived
  <1>6. worker' \in [Requests -> Thread]
    BY <1>1 DEF Inv, TypeOK, NoWorker, Thread
  <1>7. TypeOK'
    BY <1>1, <1>5, <1>6 DEF Inv, TypeOK
  <1>8. ASSUME NEW r \in Arrived
        PROVE  Quietly(r)
    <2>1. CASE r \in its
      <3>1. request'[r] = [request[r] EXCEPT !.pc = "over"] /\ worker'[r] = NoWorker
        BY <1>1, <1>2, <2>1 DEF next
      <3>2. /\ request'[r].pc = "over" /\ request'[r].key = request[r].key
            /\ request'[r].content = request[r].content
            /\ request'[r].at = request[r].at /\ request'[r].kept = request[r].kept
            /\ request'[r].claimed = request[r].claimed
        BY <1>2, <3>1 DEF Req
      <3> QED BY <3>1, <3>2 DEF Quietly, Waiting, Claimed, Working, NoWorker
    <2>2. CASE r \notin its
      <3>1. request'[r] = request[r] /\ worker'[r] = worker[r]
        BY <1>1, <1>2, <2>2 DEF next
      <3> QED BY <3>1, StillQuiet
    <2> QED BY <2>1, <2>2
  <1>9. \A r \in Requests \ Arrived : worker'[r] = worker[r]
    BY <1>1 DEF its
  <1> QED BY <1>1, <1>5, <1>7, <1>8, <1>9, QuietStep

------------------------------------------------------------------------------
(***************************************************************************)
(* Arrivals and the clock.                                                 *)
(***************************************************************************)

LEMMA ArriveStep ==
  ASSUME Inv, Arrive
  PROVE  Inv'
  <1>1. PICK s \in running, k \in Key, c \in Contents :
          request' = Append(request, [pc |-> "claiming", server |-> s, key |-> k, content |-> c, at |-> now,
                                      claimed |-> now, kept |-> FALSE])
    BY DEF Arrive
  <1>2. Len(request) < MaxRequest /\ UNCHANGED <<now, running, record, worker, fired>>
    BY DEF Arrive
  <1> DEFINE q == [pc |-> "claiming", server |-> s, key |-> k, content |-> c, at |-> now,
                   claimed |-> now, kept |-> FALSE]
             n == Len(request) + 1
  <1>3. q \in Req /\ q.pc = "claiming" /\ q.at = now /\ ~q.kept
    BY DEF Inv, TypeOK, Req, Places, Waiting
  <1>4. request' = Append(request, q)
    BY <1>1
  <1> HIDE DEF q
  <1>5. Len(request) \in Nat /\ Arrived = 1..Len(request) /\ request \in Seq(Req)
    BY ArrivedType DEF Inv, TypeOK
  <1>6. /\ request' \in Seq(Req) /\ Len(request') = n
        /\ \A i \in 1..Len(request) : request'[i] = request[i]
        /\ request'[n] = q
    BY <1>3, <1>4, <1>5, AppendProperties
  <1>7. DOMAIN request' = 1..n
    BY <1>6, LenProperties
  <1>8. /\ Arrived' = Arrived \cup {n} /\ n \notin Arrived /\ n \in Requests
        /\ \A r \in Arrived : request'[r] = request[r]
    BY <1>2, <1>5, <1>6, <1>7, ActionsAssumption DEF Arrived, Requests
  <1> HIDE DEF n
  <1>9. TypeOK'
    BY <1>2, <1>5, <1>6, ActionsAssumption DEF Inv, TypeOK, n
  <1>10. worker[n] = NoWorker /\ ~Working(n)
    BY <1>8 DEF Inv, Threads, Working, NoWorker
  <1>11. ~HasFired(n)
    BY <1>8 DEF Inv, FiredArrived, HasFired
  <1>12. \A r : (HasFired(r)' <=> HasFired(r)) /\ (Working(r)' <=> Working(r))
    BY <1>2 DEF HasFired, Working
  <1>13. \A r \in Arrived : (Names(r)' <=> Names(r)) /\ (MayFire(r)' <=> MayFire(r)) /\ (Engaged(r)' <=> Engaged(r))
    BY <1>2, <1>8, <1>12 DEF Names, MayFire, Engaged, Acted
  <1>14. Owners'
    BY <1>3, <1>6, <1>8, <1>10, <1>12, <1>13, <1>2 DEF Inv, Owners, Claimed
  <1>15. DoneByOwner'
    BY <1>2, <1>8 DEF Inv, DoneByOwner
  <1>16. Threads'
    BY <1>2, <1>3, <1>6, <1>8, <1>10 DEF Inv, Threads
  <1>17. Times'
    <2> SUFFICES ASSUME NEW x \in Arrived'
                 PROVE  request'[x].at <= now
      BY <1>2 DEF Times
    <2>1. CASE x \in Arrived
      BY <1>8, <2>1 DEF Inv, Times
    <2>2. CASE x = n
      BY <1>3, <1>6, <2>2 DEF Inv, TypeOK, n
    <2> QED BY <1>8, <2>1, <2>2
  <1>18. Unfired'
    BY <1>8, <1>11, <1>12, <1>13 DEF Inv, Unfired
  <1>19. Ages'
    <2> SUFFICES ASSUME NEW x \in Arrived', NEW y \in Arrived', x # y,
                        request'[x].key = request'[y].key, Engaged(x)', Engaged(y)'
                 PROVE  Apart(x, y)' \/ Apart(y, x)'
      BY DEF Ages
    <2>1. \A z : z = n => ~Engaged(z)'
      BY <1>3, <1>6, <1>10, <1>11, <1>12 DEF Engaged, Acted
    <2>2. x \in Arrived /\ y \in Arrived
      BY <1>8, <2>1
    <2>3. Apart(x, y) \/ Apart(y, x)
      BY <1>8, <1>13, <2>2 DEF Inv, Ages
    <2> QED BY <1>8, <2>2, <2>3 DEF Apart, Expired
  <1>20. Traces'
    BY <1>2, <1>8, <1>10, <1>11, <1>12, <1>13 DEF Inv, Traces, Acted, Expired
  <1>21. FiredArrived'
    BY <1>2, <1>8 DEF Inv, FiredArrived
  <1>22. AtMostOnce'
    <2> SUFFICES ASSUME NEW i \in DOMAIN fired, NEW j \in DOMAIN fired, NEW x, NEW y,
                        i < j, x = fired[i], y = fired[j], request'[x].key = request'[y].key
                 PROVE  Ordered(x, y)'
      BY <1>2, OrderedFiringsNext
    <2>1. x \in Arrived /\ y \in Arrived
      BY DEF Inv, FiredArrived
    <2>2. Ordered(x, y)
      BY <1>8, <2>1, OrderedFirings DEF Inv
    <2> QED BY <1>8, <2>1, <2>2 DEF Ordered, Apart, Expired
  <1> QED BY <1>9, <1>14, <1>15, <1>16, <1>17, <1>18, <1>19, <1>20, <1>21, <1>22 DEF Inv

\* A claim that is past its window stays so.
LEMMA StillExpired ==
  ASSUME NEW created \in Int, NEW t \in Int, NEW u \in Int, t <= u, Expired(created, t)
  PROVE  Expired(created, u)
  BY Bounds DEF Expired

LEMMA TickStep ==
  ASSUME Inv, Tick
  PROVE  Inv'
  <1>1. /\ now' = now + 1
        /\ UNCHANGED <<running, request, record, worker, fired>>
    BY DEF Tick
  <1>2. now \in Int /\ \A r \in Arrived : request[r] \in Req
    BY ArrivedType DEF Inv, TypeOK
  <1>3. TypeOK' /\ Arrived' = Arrived
    BY <1>1, <1>2 DEF Inv, TypeOK, Arrived
  <1>4. /\ \A r : HasFired(r)' <=> HasFired(r)
        /\ \A r : Names(r)' <=> Names(r)
        /\ \A r : Working(r)' <=> Working(r)
        /\ \A r : MayFire(r)' <=> MayFire(r)
        /\ \A r : (Engaged(r)' <=> Engaged(r)) /\ (Acted(r)' <=> Acted(r))
        /\ \A q, r : Apart(q, r)' <=> Apart(q, r)
    BY <1>1 DEF HasFired, Names, Working, MayFire, Engaged, Acted, Apart, Expired
  <1>5. Owners' /\ DoneByOwner' /\ Threads' /\ FiredArrived' /\ AtMostOnce'
    BY <1>1, <1>3, <1>4 DEF Inv, Owners, DoneByOwner, Threads, FiredArrived, AtMostOnce
  <1>6. Unfired' /\ Ages'
    BY <1>1, <1>3, <1>4 DEF Inv, Unfired, Ages
  <1>7. Times'
    <2> SUFFICES ASSUME NEW r \in Arrived
                 PROVE  request[r].at <= now + 1
      BY <1>1, <1>3 DEF Times
    <2>1. request[r].at <= now /\ request[r].at \in Int
      BY <1>2 DEF Inv, Times, Req
    <2> QED BY <1>2, <2>1
  <1>8. Traces'
    <2> SUFFICES ASSUME NEW q \in Arrived, Acted(q)
                 PROVE  \/ record[request[q].key].status = "faulted"
                        \/ Names(q)
                        \/ request[q].kept /\ Expired(request[q].at, now + 1)
      BY <1>1, <1>3, <1>4 DEF Traces, Expired
    <2>1. request[q].at \in Int
      BY <1>2 DEF Req
    <2>2. Expired(request[q].at, now) => Expired(request[q].at, now + 1)
      BY <1>2, <2>1, StillExpired
    <2> QED BY <2>2 DEF Inv, Traces
  <1> QED BY <1>3, <1>5, <1>6, <1>7, <1>8 DEF Inv

------------------------------------------------------------------------------
(***************************************************************************)
(* Firing, settling and claiming.                                          *)
(***************************************************************************)

\* Who has not settled its key owns the record, and it is not done.
LEMMA OwnerNamed ==
  ASSUME Inv, NEW r \in Arrived, request[r].pc \in Claimed
  PROVE  Names(r) /\ request[r].key \in Key /\ record[request[r].key].status # "done"
  BY ArrivedType, ReqType DEF Inv, Owners

\* A request fires that may: its claim is apart from those of its key's earlier firings.
LEMMA FireStep ==
  ASSUME Inv, TypeOK', NEW r \in Arrived, request[r].pc = "claimed" \/ Working(r),
         fired' = Append(fired, r), UNCHANGED <<now, record>>, Arrived' = Arrived,
         \A x \in Arrived : Quietly(x),
         \A x \in Requests \ Arrived : worker'[x] = worker[x],
         ~MayFire(r)'
  PROVE  Inv'
  <1>1. /\ fired' \in Seq(Nat) /\ Len(fired') = Len(fired) + 1 /\ Len(fired) \in Nat
        /\ DOMAIN fired = 1..Len(fired) /\ DOMAIN fired' = 1..Len(fired')
        /\ \A i \in DOMAIN fired : fired'[i] = fired[i]
        /\ fired'[Len(fired')] = r
        /\ \A x : HasFired(x)' <=> HasFired(x) \/ x = r
    BY FiredMore DEF Inv
  <1>2. ASSUME NEW x \in Arrived
        PROVE  Names(x)' <=> Names(x)
    BY <1>2 DEF Names, Quietly
  <1>3. Owners'
    BY <1>2 DEF Inv, Owners, Quietly, Claimed
  <1>4. DoneByOwner'
    BY DEF Inv, DoneByOwner, Quietly
  <1>5. Threads'
    <2> SUFFICES ASSUME NEW x \in Requests
                 PROVE  /\ worker'[x] # NoWorker =>
                             x \in Arrived /\ request'[x].content \in Job /\ request'[x].pc \in {"finalizing", "over"}
                        /\ x \in Arrived /\ request'[x].pc \in {"acquired", "created"} => request'[x].content \in Job
      BY DEF Threads
    <2>1. CASE x \in Arrived
      BY <2>1 DEF Quietly
    <2>2. CASE x \notin Arrived
      BY <2>2 DEF Inv, Threads
    <2> QED BY <2>1, <2>2
  <1>6. Times'
    BY DEF Inv, Times, Quietly
  <1>7. Engaged(r) /\ ~HasFired(r)
    BY DEF Inv, Unfired, MayFire, Engaged, Acted, Waiting
  <1>8. Unfired'
    <2> SUFFICES ASSUME NEW x \in Arrived, MayFire(x)'
                 PROVE  ~HasFired(x)'
      BY DEF Unfired
    <2>1. MayFire(x) /\ x # r
      BY DEF MayFire, Quietly, Waiting
    <2> QED BY <1>1, <2>1 DEF Inv, Unfired
  <1>9. ASSUME NEW x \in Arrived
        PROVE  Engaged(x)' => Engaged(x)
    BY <1>1, <1>7 DEF Engaged, Acted, Quietly
  <1>10. ASSUME NEW q \in Arrived, NEW x \in Arrived
         PROVE  Apart(q, x) => Apart(q, x)'
    BY StillApart DEF Quietly
  <1>11. Ages'
    <2> SUFFICES ASSUME NEW q \in Arrived, NEW x \in Arrived, q # x,
                        request'[q].key = request'[x].key, Engaged(q)', Engaged(x)'
                 PROVE  Apart(q, x)' \/ Apart(x, q)'
      BY DEF Ages
    <2>1. request[q].key = request[x].key
      BY DEF Quietly
    <2> QED BY <1>9, <1>10, <2>1 DEF Inv, Ages
  <1>12. Traces'
    <2> SUFFICES ASSUME NEW q \in Arrived, Acted(q)'
                 PROVE  \/ record[request[q].key].status = "faulted"
                        \/ Names(q)
                        \/ request[q].kept /\ Expired(request[q].at, now)
      BY <1>2 DEF Traces, Quietly, Expired
    <2>1. Acted(q) \/ request[q].pc \in {"claimed", "created"}
      BY <1>1 DEF Acted, Quietly
    <2> QED BY <2>1 DEF Inv, Traces, Owners, Claimed
  <1>13. FiredArrived'
    BY <1>1 DEF Inv, FiredArrived
  <1>14. AtMostOnce'
    <2> SUFFICES ASSUME NEW i \in DOMAIN fired', NEW j \in DOMAIN fired', NEW p, NEW q,
                        i < j, p = fired'[i], q = fired'[j], request'[p].key = request'[q].key
                 PROVE  Ordered(p, q)'
      BY OrderedFiringsNext
    <2>1. i \in DOMAIN fired /\ p = fired[i] /\ p \in Arrived /\ HasFired(p)
      BY <1>1 DEF Inv, FiredArrived, HasFired
    <2>2. CASE j \in DOMAIN fired
      <3>1. q = fired[j] /\ q \in Arrived
        BY <1>1, <2>2 DEF Inv, FiredArrived
      <3>2. request[p].key = request[q].key /\ request'[q].content = request[q].content
        BY <2>1, <3>1 DEF Quietly
      <3>3. Ordered(p, q)
        BY <2>1, <2>2, <3>1, <3>2, OrderedFirings DEF Inv
      <3> QED BY <1>10, <2>1, <3>1, <3>2, <3>3 DEF Ordered
    <2>3. CASE j \notin DOMAIN fired
      <3>1. q = r
        BY <1>1, <2>3
      <3>2. request[p].key = request[r].key /\ p # r /\ request'[r].content = request[r].content
        BY <1>7, <2>1, <3>1 DEF Quietly
      <3>3. Apart(p, r) \/ Apart(r, p)
        BY <1>7, <2>1, <3>2 DEF Inv, Ages, Engaged, Acted
      <3>4. Apart(r, p) => request[r].content \in Job
        <4>1. Apart(r, p) => request[r].pc = "over"
          BY DEF Apart, Inv, Owners
        <4>2. Working(r) => request[r].content \in Job
          BY ArrivedType DEF Working, NoWorker, Inv, Threads
        <4> QED BY <4>1, <4>2
      <3> QED BY <1>10, <2>1, <3>1, <3>2, <3>3, <3>4 DEF Ordered
    <2> QED BY <2>2, <2>3
  <1> QED BY <1>3, <1>4, <1>5, <1>6, <1>8, <1>11, <1>12, <1>13, <1>14 DEF Inv

LEMMA FiresStep ==
  ASSUME Inv, NEW r \in Arrived, Fires(r)
  PROVE  Inv'
  <1>1. /\ request[r].pc = "claimed" /\ Goes(r, "fired") /\ fired' = Append(fired, r)
        /\ UNCHANGED <<now, running, record, worker>>
    BY DEF Fires, At
  <1>2. worker[r] = NoWorker
    BY <1>1, NoThread
  <1>3. /\ request' \in Seq(Req) /\ Len(request') = Len(request) /\ Arrived' = Arrived
        /\ request'[r] = [request[r] EXCEPT !.pc = "fired"]
        /\ \A x \in Arrived : x # r => request'[x] = request[x]
    BY <1>1, Moved DEF Inv, Places, Claimed
  <1>4. /\ fired' \in Seq(Nat)
    BY <1>1, FiredMore DEF Inv
  <1>5. TypeOK'
    BY <1>1, <1>3, <1>4 DEF Inv, TypeOK
  <1>6. request[r] \in Req /\ ~request[r].kept
    BY <1>1, ArrivedType DEF Inv, Owners
  <1>7. /\ request'[r].pc = "fired" /\ request'[r].key = request[r].key
        /\ request'[r].content = request[r].content
        /\ request'[r].at = request[r].at /\ request'[r].kept = request[r].kept
        /\ request'[r].claimed = request[r].claimed
    BY <1>3, <1>6 DEF Req
  <1>8. ~Working(r)' /\ ~MayFire(r)'
    BY <1>1, <1>2, <1>7 DEF Working, NoWorker, MayFire, Waiting
  <1>9. Quietly(r)
    BY <1>1, <1>2, <1>6, <1>7, <1>8 DEF Quietly, Waiting, Claimed
  <1>10. \A x \in Arrived : Quietly(x)
    BY <1>1, <1>3, <1>9, StillQuiet
  <1> QED BY <1>1, <1>3, <1>5, <1>8, <1>10, FireStep

LEMMA WorksStep ==
  ASSUME Inv, NEW r \in Arrived, Works(r)
  PROVE  Inv'
  <1> DEFINE w == [worker[r] EXCEPT !.pc = "worked"]
  <1>1. /\ worker[r].pc = "running" /\ worker' = [worker EXCEPT ![r] = w] /\ fired' = Append(fired, r)
        /\ UNCHANGED <<now, running, request, record>>
    BY DEF Works
  <1>2. r \in Requests /\ worker[r] \in Thread
    BY ArrivedType DEF Inv, TypeOK
  <1>3. w \in Thread /\ w.pc = "worked"
    BY <1>2 DEF Thread
  <1> HIDE DEF w
  <1>4. /\ worker' \in [Requests -> Thread] /\ worker'[r] = w
        /\ \A x \in Requests : x # r => worker'[x] = worker[x]
    BY <1>1, <1>2, <1>3, Workers DEF Inv
  <1>5. fired' \in Seq(Nat)
    BY <1>1, FiredMore DEF Inv
  <1>6. TypeOK' /\ Arrived' = Arrived
    BY <1>1, <1>4, <1>5 DEF Inv, TypeOK, Arrived
  <1>7. worker[r] # NoWorker /\ request[r].content \in Job /\ request[r].pc \in {"finalizing", "over"}
    BY <1>1, <1>2 DEF Inv, Threads, NoWorker
  <1>8. Working(r) /\ ~Working(r)' /\ ~MayFire(r)'
    BY <1>1, <1>3, <1>4, <1>7 DEF Working, MayFire, Waiting
  <1>9. Quietly(r)
    BY <1>1, <1>7, <1>8 DEF Quietly, Waiting, Claimed, Inv, Owners
  <1>10. \A x \in Arrived : Quietly(x)
    BY <1>1, <1>4, <1>9, StillQuiet, ArrivedType DEF Inv
  <1>11. \A x \in Requests \ Arrived : worker'[x] = worker[x]
    BY <1>4
  <1> QED BY <1>1, <1>6, <1>8, <1>10, <1>11, FireStep

\* What a step that fires nothing leaves of the others, and of what has fired.
Others(r) ==
  /\ Arrived' = Arrived
  /\ \A x \in Arrived : x # r => request'[x] = request[x]
  /\ request'[r].key = request[r].key /\ request'[r].content = request[r].content
  /\ request'[r].at = request[r].at

\* Firings stay ordered while nothing fires and what is kept is kept.
LEMMA NothingFired ==
  ASSUME Inv, NEW r \in Arrived, Others(r), UNCHANGED fired,
         request[r].kept => request'[r].kept,
         request'[r].claimed = request[r].claimed \/ ~HasFired(r)
  PROVE  FiredArrived' /\ AtMostOnce'
  <1>1. FiredArrived'
    BY DEF Inv, FiredArrived, Others
  <1>2. AtMostOnce'
    <2> SUFFICES ASSUME NEW i \in DOMAIN fired, NEW j \in DOMAIN fired, NEW p, NEW q,
                        i < j, p = fired[i], q = fired[j], request'[p].key = request'[q].key
                 PROVE  Ordered(p, q)'
      BY OrderedFiringsNext
    <2>1. p \in Arrived /\ q \in Arrived /\ HasFired(p) /\ HasFired(q)
      BY DEF Inv, FiredArrived, HasFired
    <2>2. request[p].key = request[q].key /\ request'[q].content = request[q].content
      BY <2>1 DEF Others
    <2>3. Ordered(p, q)
      BY <2>2, OrderedFirings DEF Inv
    <2>4. \A x \in {p, q} :
            /\ request[x].kept => request'[x].kept
            /\ request'[x].at = request[x].at /\ request'[x].claimed = request[x].claimed
      BY <2>1 DEF Others
    <2>5. (Apart(p, q) => Apart(p, q)') /\ (Apart(q, p) => Apart(q, p)')
      BY <2>4, StillApart
    <2> QED BY <2>2, <2>3, <2>5 DEF Ordered
  <1> QED BY <1>1, <1>2

\* A request settles the key that it owns, or fails to write.
LEMMA SettlesStep ==
  ASSUME Inv, NEW r \in Arrived, Settles(r)
  PROVE  Inv'
  <1> DEFINE k == request[r].key
             q == [request[r] EXCEPT !.pc = "over", !.kept = At(r, "finalizing") /\ record' # record]
  <1>1. UNCHANGED <<now, running, worker, fired>>
    BY DEF Settles
  <1>2. request[r] \in Req /\ k \in Key /\ r \in Requests /\ r \in Nat
    BY ArrivedType, ReqType DEF Inv
  <1>3. request[r].pc \in {"finalizing", "faulting", "releasing"}
    BY DEF Settles, At
  <1>4. Names(r) /\ record[k].status \in {"in_flight", "faulted"} /\ ~request[r].kept
    <2>1. Names(r) /\ record[k].status # "done" /\ ~request[r].kept
      BY <1>3 DEF Inv, Owners, Claimed
    <2> QED BY <1>2, <2>1, RecordType DEF Inv, Names
  <1>5. q \in Req /\ q.pc = "over" /\ q.key = k /\ q.content = request[r].content
        /\ q.at = request[r].at /\ q.claimed = request[r].claimed
        /\ q.kept = (At(r, "finalizing") /\ record' # record)
    BY <1>2 DEF Req, Places
  <1>6. request' = [request EXCEPT ![r] = q]
    BY DEF Settles
  <1> HIDE DEF q
  <1>7. /\ request' \in Seq(Req) /\ Len(request') = Len(request) /\ Arrived' = Arrived
        /\ request'[r] = q
        /\ \A x \in Arrived : x # r => request'[x] = request[x]
    BY <1>5, <1>6, OneRequest DEF Inv
  <1>8. Others(r)
    BY <1>5, <1>7 DEF Others
  \* The record stays, or it is resolved or given back.
  <1>9. \/ record' = record
        \/ /\ record[k].status = "in_flight"
           /\ \/ request[r].pc = "finalizing" /\ record' = [record EXCEPT ![k].status = "done"]
              \/ request[r].pc = "faulting" /\ record' = [record EXCEPT ![k].status = "faulted"]
              \/ request[r].pc = "releasing" /\ record' = [record EXCEPT ![k] = NoRecord]
    BY DEF Settles, Resolved, ReleasedKey, At
  <1>10. record \in [Key -> Rec] /\ record[k] \in Rec
    BY <1>2 DEF Inv, TypeOK
  <1>11. /\ record' \in [Key -> Rec]
         /\ \A x \in Key : x # k => record'[x] = record[x]
         /\ \/ record' = record
            \/ /\ request[r].pc = "finalizing" /\ record' # record
               /\ record'[k].status = "done" /\ record'[k].of = record[k].of /\ record'[k].created = record[k].created
            \/ /\ request[r].pc = "faulting"
               /\ record'[k].status = "faulted" /\ record'[k].of = record[k].of /\ record'[k].created = record[k].created
            \/ request[r].pc = "releasing" /\ record'[k] = NoRecord
    <2>1. CASE record' = record
      BY <1>10, <2>1
    <2>2. CASE record[k].status = "in_flight" /\ request[r].pc = "finalizing" /\ record' = [record EXCEPT ![k].status = "done"]
      <3> DEFINE rec == [record[k] EXCEPT !.status = "done"]
      <3>1. rec \in Rec /\ rec.status = "done" /\ rec.of = record[k].of /\ rec.created = record[k].created
        BY <1>10, <2>2 DEF Rec, NoRecord
      <3>2. record' = [record EXCEPT ![k] = rec]
        BY <2>2
      <3> HIDE DEF rec
      <3>3. record'[k] = rec /\ record' # record
        BY <1>2, <1>10, <2>2, <3>1, <3>2
      <3> QED BY <1>10, <2>2, <3>1, <3>2, <3>3
    <2>3. CASE record[k].status = "in_flight" /\ request[r].pc = "faulting" /\ record' = [record EXCEPT ![k].status = "faulted"]
      <3> DEFINE rec == [record[k] EXCEPT !.status = "faulted"]
      <3>1. rec \in Rec /\ rec.status = "faulted" /\ rec.of = record[k].of /\ rec.created = record[k].created
        BY <1>10, <2>3 DEF Rec, NoRecord
      <3>2. record' = [record EXCEPT ![k] = rec]
        BY <2>3
      <3> HIDE DEF rec
      <3> QED BY <1>2, <1>10, <2>3, <3>1, <3>2
    <2>4. CASE request[r].pc = "releasing" /\ record' = [record EXCEPT ![k] = NoRecord]
      <3>1. NoRecord \in Rec
        BY DEF Rec
      <3> QED BY <1>2, <1>10, <2>4, <3>1
    <2> QED BY <1>9, <2>1, <2>2, <2>3, <2>4
  <1>12. TypeOK'
    BY <1>1, <1>7, <1>11 DEF Inv, TypeOK
  <1>13. \A x : (HasFired(x)' <=> HasFired(x)) /\ (Working(x)' <=> Working(x))
    BY <1>1 DEF HasFired, Working
  \* Its claim is still the record, unless it is given back.
  <1>14. request[r].pc # "releasing" => Names(r)'
    BY <1>4, <1>5, <1>7, <1>11 DEF Names
  \* Nobody else's was.
  <1>15. ASSUME NEW x \in Arrived, x # r, Names(x)
         PROVE  request[x].key # k /\ Names(x)' /\ record'[request[x].key] = record[request[x].key]
    <2>1. request[x].key # k
      BY <1>4, <1>15, OneOwner
    <2>2. request[x].key \in Key
      BY ArrivedType, ReqType DEF Inv
    <2> QED BY <1>7, <1>11, <1>15, <2>1, <2>2 DEF Names
  <1>16. Owners'
    <2> SUFFICES ASSUME NEW x \in Arrived
                 PROVE  /\ request'[x].pc \in Claimed => Names(x)' /\ record'[request'[x].key].status # "done"
                        /\ request'[x].kept => request'[x].pc = "over"
      BY <1>7 DEF Owners
    <2>1. CASE x = r
      BY <1>5, <1>7, <2>1 DEF Claimed
    <2>2. CASE x # r
      BY <1>7, <1>15, <2>2 DEF Inv, Owners
    <2> QED BY <2>1, <2>2
  <1>17. DoneByOwner'
    <2> SUFFICES ASSUME NEW x \in Key, record'[x].status = "done"
                 PROVE  /\ record'[x].of \in Arrived
                        /\ request'[record'[x].of].key = x /\ request'[record'[x].of].kept
                        /\ request'[record'[x].of].at = record'[x].created
      BY <1>7 DEF DoneByOwner
    <2>1. CASE x = k
      <3>1. request[r].pc = "finalizing" /\ record' # record
            /\ record'[k].of = record[k].of /\ record'[k].created = record[k].created
        BY <1>4, <1>11, <2>1 DEF NoRecord
      <3>2. q.kept
        BY <1>5, <3>1 DEF At
      <3> QED BY <1>4, <1>5, <1>7, <2>1, <3>1, <3>2 DEF Names
    <2>2. CASE x # k
      <3>1. record'[x] = record[x]
        BY <1>11, <2>2
      <3>2. record[x].of # r
        BY <2>2, <3>1 DEF Inv, DoneByOwner
      <3> QED BY <1>7, <3>1, <3>2 DEF Inv, DoneByOwner
    <2> QED BY <2>1, <2>2
  <1>18. Threads'
    <2> SUFFICES ASSUME NEW x \in Requests
                 PROVE  /\ worker[x] # NoWorker =>
                             x \in Arrived /\ request'[x].content \in Job /\ request'[x].pc \in {"finalizing", "over"}
                        /\ x \in Arrived /\ request'[x].pc \in {"acquired", "created"} => request'[x].content \in Job
      BY <1>1, <1>7 DEF Threads
    <2>1. CASE x = r
      BY <1>2, <1>5, <1>7, <2>1 DEF Inv, Threads
    <2>2. CASE x # r
      BY <1>7, <2>2 DEF Inv, Threads
    <2> QED BY <2>1, <2>2
  <1>19. Times'
    BY <1>1, <1>7, <1>8 DEF Inv, Times, Others
  <1>20. Unfired' /\ Ages'
    <2>1. ASSUME NEW x \in Arrived
          PROVE  (MayFire(x)' => MayFire(x)) /\ (Engaged(x)' => Engaged(x))
      BY <1>5, <1>7, <1>13 DEF MayFire, Engaged, Acted, Waiting
    <2>2. Unfired'
      BY <1>7, <1>13, <2>1 DEF Inv, Unfired
    <2>3. Ages'
      <3> SUFFICES ASSUME NEW x \in Arrived, NEW y \in Arrived, x # y,
                          request'[x].key = request'[y].key, Engaged(x)', Engaged(y)'
                   PROVE  Apart(x, y)' \/ Apart(y, x)'
        BY <1>7 DEF Ages
      <3>1. \A z \in {x, y} :
              /\ request'[z].key = request[z].key /\ request'[z].at = request[z].at
              /\ request'[z].claimed = request[z].claimed /\ (request[z].kept => request'[z].kept)
        BY <1>4, <1>5, <1>7
      <3>2. Apart(x, y) \/ Apart(y, x)
        BY <2>1, <3>1 DEF Inv, Ages
      <3> QED BY <3>1, <3>2, StillApart
    <2> QED BY <2>2, <2>3
  <1>21. Traces'
    <2> SUFFICES ASSUME NEW y \in Arrived, Acted(y)
                 PROVE  \/ record'[request'[y].key].status = "faulted"
                        \/ Names(y)'
                        \/ request'[y].kept /\ Expired(request'[y].at, now)
      BY <1>1, <1>7, <1>13 DEF Traces, Acted, Expired
    <2>1. CASE y = r
      <3>1. HasFired(r) => request[r].pc # "releasing"
        BY DEF Inv, Unfired, MayFire
      <3>2. Working(r) => request[r].pc # "releasing"
        BY <1>2 DEF Inv, Threads, Working, NoWorker
      <3> QED BY <1>14, <2>1, <3>1, <3>2 DEF Acted
    <2>2. CASE y # r
      <3>1. \/ record[request[y].key].status = "faulted"
            \/ Names(y)
            \/ request[y].kept /\ Expired(request[y].at, now)
        BY DEF Inv, Traces
      <3>2. CASE record[request[y].key].status = "faulted"
        <4>1. request[y].key \in Key
          BY ArrivedType, ReqType DEF Inv
        <4>2. record'[request[y].key].status = "faulted"
          BY <1>9, <1>11, <3>2, <4>1
        <4> QED BY <1>7, <2>2, <4>2
      <3>3. CASE Names(y)
        BY <1>15, <2>2, <3>3
      <3>4. CASE request[y].kept /\ Expired(request[y].at, now)
        BY <1>7, <2>2, <3>4
      <3> QED BY <3>1, <3>2, <3>3, <3>4
    <2> QED BY <2>1, <2>2
  <1>22. FiredArrived' /\ AtMostOnce'
    BY <1>1, <1>4, <1>5, <1>7, <1>8, NothingFired
  <1> QED BY <1>12, <1>16, <1>17, <1>18, <1>19, <1>20, <1>21, <1>22 DEF Inv

\* What claim_or_replay finds: a key is fresh only if it has no record, or one done long ago.
LEMMA Found ==
  ASSUME TypeOK, NEW k \in Key, NEW content, NEW t
  PROVE  /\ Outcome(k, content, t) \in Outcomes
         /\ Outcome(k, content, t) = "fresh" =>
              record[k].status = "absent" \/ (record[k].status = "done" /\ Expired(record[k].created, t))
         /\ record[k].status = "faulted" => Outcome(k, content, t) = "faulted"
  <1> DEFINE rec == record[k]
             expired == Expired(rec.created, t)
             same == rec.content = content
  <1>1. rec.status \in {"absent", "in_flight", "done", "faulted"}
    BY RecordType
  <1>2. Outcome(k, content, t) =
          CASE rec.status = "absent" -> "fresh"
            [] rec.status = "faulted" -> "faulted"
            [] rec.status = "in_flight" /\ expired -> "faulted"
            [] rec.status = "done" /\ expired -> "fresh"
            [] rec.status \in {"in_flight", "done"} /\ ~expired /\ ~same -> "collision"
            [] rec.status \in {"in_flight", "done"} /\ ~expired /\ same ->
                 IF rec.status = "done" THEN "replay" ELSE "in_flight"
    BY DEF Outcome
  <1> HIDE DEF expired, same
  <1>3. /\ Outcome(k, content, t) \in Outcomes
        /\ Outcome(k, content, t) = "fresh" => rec.status = "absent" \/ (rec.status = "done" /\ expired)
        /\ rec.status = "faulted" => Outcome(k, content, t) = "faulted"
    BY <1>1, <1>2 DEF Outcomes
  <1> QED BY <1>3 DEF expired

\* The record that a claim writes over.
LEMMA ClaimsRequest ==
  ASSUME Inv, NEW r \in Arrived, Claim(r)
  PROVE  LET q == request[r]
             outcome == Outcome(q.key, q.content, q.at)
         IN /\ UNCHANGED <<now, running, worker, fired>>
            /\ q \in Req /\ q.pc = "claiming" /\ ~q.kept /\ worker[r] = NoWorker /\ ~HasFired(r)
            /\ q.at \in Int /\ now \in Int /\ q.at <= now
            /\ request' \in Seq(Req) /\ Len(request') = Len(request)
            /\ Others(r)
            /\ request'[r].pc = (IF outcome = "fresh" THEN "claimed" ELSE outcome)
            /\ request'[r].claimed = now /\ request'[r].kept = q.kept
  <1> DEFINE q == request[r]
             outcome == Outcome(q.key, q.content, q.at)
             pc == IF outcome = "fresh" THEN "claimed" ELSE outcome
             new == [q EXCEPT !.pc = pc, !.claimed = now]
  <1>1. /\ UNCHANGED <<now, running, worker, fired>> /\ q.pc = "claiming"
        /\ request' = [request EXCEPT ![r] = new]
    BY DEF Claim, At
  <1>2. q \in Req /\ q.key \in Key
    BY ArrivedType, ReqType DEF Inv
  <1>3. ~q.kept /\ worker[r] = NoWorker /\ ~HasFired(r)
    BY <1>1, NoThread DEF Inv, Owners, Unfired, MayFire, Waiting
  <1>4. q.at \in Int /\ now \in Int /\ q.at <= now
    BY <1>2, ReqType DEF Inv, TypeOK, Times
  <1>5. pc \in Places
    BY <1>2, Found DEF Inv, Places, Outcomes, Claimed
  <1> HIDE DEF pc
  <1>6. /\ new \in Req /\ new.pc = pc /\ new.key = q.key /\ new.content = q.content /\ new.at = q.at
        /\ new.claimed = now /\ new.kept = q.kept
    BY <1>2, <1>4, <1>5 DEF Req
  <1> HIDE DEF new
  <1>7. /\ request' \in Seq(Req) /\ Len(request') = Len(request) /\ Arrived' = Arrived
        /\ request'[r] = new
        /\ \A x \in Arrived : x # r => request'[x] = request[x]
    BY <1>1, <1>6, OneRequest DEF Inv
  <1>8. Others(r)
    BY <1>6, <1>7 DEF Others
  <1> QED BY <1>1, <1>2, <1>3, <1>4, <1>6, <1>7, <1>8 DEF pc

\* A claim on a key that is free: its record is the claim, and expired done records are gone.
LEMMA FreshStep ==
  ASSUME Inv, NEW r \in Arrived, Claim(r),
         Outcome(request[r].key, request[r].content, request[r].at) = "fresh"
  PROVE  Inv'
  <1> DEFINE k == request[r].key
             t == request[r].at
  <1>1. /\ UNCHANGED <<now, running, worker, fired>>
        /\ request[r] \in Req /\ request[r].pc = "claiming" /\ ~request[r].kept
        /\ worker[r] = NoWorker /\ ~HasFired(r)
        /\ t \in Int /\ now \in Int /\ t <= now
        /\ request' \in Seq(Req) /\ Len(request') = Len(request)
        /\ Others(r)
        /\ request'[r].pc = "claimed"
        /\ request'[r].claimed = now /\ ~request'[r].kept
    BY ClaimsRequest
  <1>2. k \in Key /\ request[r].content \in Contents /\ r \in Nat /\ r \in Requests
    BY ArrivedType, ReqType DEF Inv
  <1>3. record[k].status = "absent" \/ (record[k].status = "done" /\ Expired(record[k].created, t))
    BY <1>2, Found DEF Inv
  <1>4. record' = [Pruned(t) EXCEPT ![k] = InFlight(r, t)]
    BY DEF Claim
  <1>5. /\ InFlight(r, t) \in Rec /\ InFlight(r, t).status = "in_flight"
        /\ InFlight(r, t).created = t /\ InFlight(r, t).of = r
    BY <1>1, <1>2 DEF InFlight, Rec
  <1>6. record'[k] = InFlight(r, t)
    BY <1>2, <1>4 DEF Pruned
  <1>7. ASSUME NEW x \in Key, x # k
        PROVE  \/ record'[x] = record[x]
               \/ record'[x] = NoRecord /\ record[x].status = "done" /\ Expired(record[x].created, t)
    BY <1>4, <1>7 DEF Pruned
  <1>8. record' \in [Key -> Rec]
    <2>1. record \in [Key -> Rec] /\ NoRecord \in Rec
      BY DEF Inv, TypeOK, Rec
    <2>2. Pruned(t) \in [Key -> Rec]
      BY <2>1 DEF Pruned
    <2> QED BY <1>4, <1>5, <2>2
  <1>9. TypeOK'
    BY <1>1, <1>8 DEF Inv, TypeOK
  <1>10. Arrived' = Arrived /\ (\A x \in Arrived : x # r => request'[x] = request[x]) /\ request'[r].key = k
    BY <1>1 DEF Others
  <1>11. \A x : (HasFired(x)' <=> HasFired(x)) /\ (Working(x)' <=> Working(x))
    BY <1>1 DEF HasFired, Working
  <1>12. Names(r)'
    BY <1>1, <1>5, <1>6, <1>10 DEF Names, Others
  <1>13. ~Working(r)
    BY <1>1 DEF Working, NoWorker
  \* The owners of other records keep them.
  <1>14. ASSUME NEW p \in Arrived, p # r, request[p].pc \in Claimed
         PROVE  Names(p)' /\ record'[request[p].key] = record[request[p].key] /\ request[p].key # k
    <2>1. Names(p) /\ request[p].key \in Key /\ record[request[p].key].status # "done"
      BY <1>14, OwnerNamed
    <2>2. request[p].key # k
      BY <1>3, <2>1 DEF Names
    <2>3. record'[request[p].key] = record[request[p].key]
      BY <1>7, <2>1, <2>2
    <2> QED BY <1>10, <1>14, <2>1, <2>2, <2>3 DEF Names
  <1>15. Owners'
    <2> SUFFICES ASSUME NEW x \in Arrived
                 PROVE  /\ request'[x].pc \in Claimed => Names(x)' /\ record'[request'[x].key].status # "done"
                        /\ request'[x].kept => request'[x].pc = "over"
      BY <1>10 DEF Owners
    <2>1. CASE x = r
      BY <1>1, <1>5, <1>6, <1>10, <1>12, <2>1
    <2>2. CASE x # r
      <3>1. request'[x] = request[x]
        BY <1>10, <2>2
      <3>2. request[x].kept => request[x].pc = "over"
        BY DEF Inv, Owners
      <3>3. request[x].pc \in Claimed => Names(x)' /\ record'[request[x].key].status # "done"
        BY <1>14, <2>2 DEF Inv, Owners
      <3> QED BY <3>1, <3>2, <3>3
    <2> QED BY <2>1, <2>2
  <1>16. DoneByOwner'
    <2> SUFFICES ASSUME NEW x \in Key, record'[x].status = "done"
                 PROVE  /\ record'[x].of \in Arrived
                        /\ request'[record'[x].of].key = x /\ request'[record'[x].of].kept
                        /\ request'[record'[x].of].at = record'[x].created
      BY <1>10 DEF DoneByOwner
    <2>1. x # k
      BY <1>5, <1>6
    <2>2. record'[x] = record[x]
      BY <1>7, <2>1 DEF NoRecord
    <2>3. record[x].of # r
      BY <1>1, <2>2 DEF Inv, DoneByOwner
    <2> QED BY <1>10, <2>2, <2>3 DEF Inv, DoneByOwner
  <1>17. Threads'
    <2> SUFFICES ASSUME NEW x \in Requests
                 PROVE  /\ worker[x] # NoWorker =>
                             x \in Arrived /\ request'[x].content \in Job /\ request'[x].pc \in {"finalizing", "over"}
                        /\ x \in Arrived /\ request'[x].pc \in {"acquired", "created"} => request'[x].content \in Job
      BY <1>1, <1>10 DEF Threads
    <2>1. CASE x = r
      BY <1>1, <2>1
    <2>2. CASE x # r
      BY <1>10, <2>2 DEF Inv, Threads
    <2> QED BY <2>1, <2>2
  <1>18. Times'
    BY <1>1, <1>10 DEF Inv, Times, Others
  \* Whoever acted on the key before has been recorded, and its record is past its window.
  <1>19. ASSUME NEW y \in Arrived, Acted(y), request[y].key \in Key,
                request[y].key = k \/ record'[request[y].key] # record[request[y].key]
         PROVE  request[y].kept /\ Expired(request[y].at, now)
    <2> DEFINE rec == record[request[y].key]
    <2>1. rec.status = "absent" \/ (rec.status = "done" /\ Expired(rec.created, t))
      BY <1>3, <1>7, <1>19
    <2>2. \/ Names(y)
          \/ request[y].kept /\ Expired(request[y].at, now)
      BY <1>19, <2>1 DEF Inv, Traces
    <2>3. CASE Names(y)
      <3>1. rec.status = "done" /\ rec.of = y /\ rec.created = request[y].at /\ Expired(request[y].at, t)
        BY <2>1, <2>3 DEF Names
      <3>2. request[y].kept
        BY <1>19, <3>1 DEF Inv, DoneByOwner
      <3>3. request[y].at \in Int
        BY ArrivedType, ReqType DEF Inv
      <3> QED BY <1>1, <3>1, <3>2, <3>3, StillExpired
    <2> QED BY <2>2, <2>3
  <1>20. Unfired'
    <2>1. ASSUME NEW x \in Arrived, MayFire(x)', x # r
          PROVE  MayFire(x)
      BY <1>10, <1>11, <2>1 DEF MayFire
    <2> QED BY <1>1, <1>10, <1>11, <2>1 DEF Inv, Unfired
  <1>21. Ages'
    <2>1. ASSUME NEW x \in Arrived, x # r, Engaged(x)'
          PROVE  Engaged(x)
      BY <1>10, <1>11, <2>1 DEF Engaged, Acted
    <2>2. ASSUME NEW x \in Arrived, x # r, Engaged(x)', request'[x].key = k
          PROVE  Apart(x, r)'
      <3>1. request[x].key = k /\ request'[x] = request[x]
        BY <1>10, <2>2
      <3>2. request[x].pc \notin {"claimed", "acquired", "created"}
        BY <1>14, <2>2, <3>1 DEF Claimed
      <3>3. Acted(x)
        BY <2>1, <2>2, <3>2 DEF Engaged
      <3>4. request[x].kept /\ Expired(request[x].at, now)
        BY <1>2, <1>19, <3>1, <3>3
      <3> QED BY <1>1, <3>1, <3>4 DEF Apart, Expired
    <2> SUFFICES ASSUME NEW x \in Arrived, NEW y \in Arrived, x # y,
                        request'[x].key = request'[y].key, Engaged(x)', Engaged(y)'
                 PROVE  Apart(x, y)' \/ Apart(y, x)'
      BY <1>10 DEF Ages
    <2>3. CASE x = r \/ y = r
      BY <1>10, <2>2, <2>3
    <2>4. CASE x # r /\ y # r
      <3>1. request'[x] = request[x] /\ request'[y] = request[y]
        BY <1>10, <2>4
      <3>2. Apart(x, y) \/ Apart(y, x)
        BY <2>1, <2>4, <3>1 DEF Inv, Ages
      <3> QED BY <3>1, <3>2, StillApart
    <2> QED BY <2>3, <2>4
  <1>22. Traces'
    <2> SUFFICES ASSUME NEW y \in Arrived, Acted(y)
                 PROVE  \/ record'[request'[y].key].status = "faulted"
                        \/ Names(y)'
                        \/ request'[y].kept /\ Expired(request'[y].at, now)
      BY <1>1, <1>10, <1>11 DEF Traces, Acted, Expired
    <2>0. ~Acted(r)
      BY <1>1, <1>13 DEF Acted
    <2>1. y # r /\ request'[y] = request[y] /\ request[y].key \in Key
      BY <1>10, <2>0, ArrivedType, ReqType DEF Inv
    <2>2. CASE request[y].key = k \/ record'[request[y].key] # record[request[y].key]
      BY <1>19, <2>1, <2>2
    <2>3. CASE record'[request[y].key] = record[request[y].key]
      <3>1. Names(y) => Names(y)'
        BY <2>1, <2>3 DEF Names
      <3> QED BY <2>1, <2>3, <3>1 DEF Inv, Traces
    <2> QED BY <2>2, <2>3
  <1>23. FiredArrived' /\ AtMostOnce'
    BY <1>1, NothingFired
  <1> QED BY <1>9, <1>15, <1>16, <1>17, <1>18, <1>20, <1>21, <1>22, <1>23 DEF Inv

\* Any other claim: the request has its answer, and a reservation past its window is poisoned.
LEMMA AnsweredStep ==
  ASSUME Inv, NEW r \in Arrived, Claim(r),
         Outcome(request[r].key, request[r].content, request[r].at) # "fresh"
  PROVE  Inv'
  <1> DEFINE k == request[r].key
             t == request[r].at
             outcome == Outcome(k, request[r].content, t)
  <1>1. /\ UNCHANGED <<now, running, worker, fired>>
        /\ request[r] \in Req /\ request[r].pc = "claiming" /\ ~request[r].kept
        /\ worker[r] = NoWorker /\ ~HasFired(r)
        /\ request' \in Seq(Req) /\ Len(request') = Len(request)
        /\ Others(r)
        /\ request'[r].pc = outcome
        /\ request'[r].claimed = now /\ ~request'[r].kept
    BY ClaimsRequest
  <1>2. k \in Key /\ r \in Requests /\ record \in [Key -> Rec]
    BY ArrivedType, ReqType DEF Inv, TypeOK
  <1>3. outcome \in Outcomes \ {"fresh"}
    BY <1>2, Found DEF Inv
  <1>4. request'[r].pc \notin Claimed \cup Waiting \cup {"releasing", "over"}
    BY <1>1, <1>3 DEF Outcomes, Claimed, Waiting
  \* No record changes but one, from in_flight to faulted.
  <1>5. /\ record' \in [Key -> Rec]
        /\ \A x \in Key : \/ record'[x] = record[x]
                          \/ /\ record[x].status = "in_flight" /\ record'[x].status = "faulted"
                             /\ record'[x].of = record[x].of /\ record'[x].created = record[x].created
    <2>1. CASE outcome = "faulted" /\ record[k].status = "in_flight"
      <3> DEFINE rec == [record[k] EXCEPT !.status = "faulted"]
      <3>1. rec \in Rec /\ rec.status = "faulted" /\ rec.of = record[k].of /\ rec.created = record[k].created
        BY <1>2, <2>1 DEF Rec, NoRecord
      <3>2. record' = [record EXCEPT ![k] = rec]
        BY <2>1 DEF Claim, Poisoned
      <3> HIDE DEF rec
      <3> QED BY <1>2, <2>1, <3>1, <3>2
    <2>2. CASE ~(outcome = "faulted" /\ record[k].status = "in_flight")
      <3>1. record' = record
        BY <1>2, <2>2 DEF Claim, Poisoned
      <3> QED BY <1>2, <3>1
    <2> QED BY <2>1, <2>2
  <1>6. TypeOK'
    BY <1>1, <1>5 DEF Inv, TypeOK
  <1>7. Arrived' = Arrived /\ (\A x \in Arrived : x # r => request'[x] = request[x]) /\ request'[r].key = k
    BY <1>1 DEF Others
  <1>8. \A x : (HasFired(x)' <=> HasFired(x)) /\ (Working(x)' <=> Working(x))
    BY <1>1 DEF HasFired, Working
  <1>9. ~Working(r)
    BY <1>1 DEF Working, NoWorker
  <1>10. \A x \in Arrived : request[x].key \in Key /\ request'[x].key = request[x].key /\ request'[x].at = request[x].at
    BY <1>1, <1>7, ArrivedType, ReqType DEF Inv, Others
  <1>11. ASSUME NEW x \in Arrived, Names(x)
         PROVE  Names(x)'
    <2> QED BY <1>5, <1>10, <1>11 DEF Names
  <1>12. Owners'
    <2> SUFFICES ASSUME NEW x \in Arrived
                 PROVE  /\ request'[x].pc \in Claimed => Names(x)' /\ record'[request'[x].key].status # "done"
                        /\ request'[x].kept => request'[x].pc = "over"
      BY <1>7 DEF Owners
    <2>1. CASE x = r
      BY <1>1, <1>4, <2>1
    <2>2. CASE x # r
      <3>1. request'[x] = request[x] /\ request[x].key \in Key
        BY <1>7, <1>10, <2>2
      <3> QED BY <1>5, <1>11, <3>1 DEF Inv, Owners
    <2> QED BY <2>1, <2>2
  <1>13. DoneByOwner'
    <2> SUFFICES ASSUME NEW x \in Key, record'[x].status = "done"
                 PROVE  /\ record'[x].of \in Arrived
                        /\ request'[record'[x].of].key = x /\ request'[record'[x].of].kept
                        /\ request'[record'[x].of].at = record'[x].created
      BY <1>7 DEF DoneByOwner
    <2>1. record'[x] = record[x]
      BY <1>5
    <2>2. record[x].of # r
      BY <1>1, <2>1 DEF Inv, DoneByOwner
    <2> QED BY <1>7, <2>1, <2>2 DEF Inv, DoneByOwner
  <1>14. Threads'
    <2> SUFFICES ASSUME NEW x \in Requests
                 PROVE  /\ worker[x] # NoWorker =>
                             x \in Arrived /\ request'[x].content \in Job /\ request'[x].pc \in {"finalizing", "over"}
                        /\ x \in Arrived /\ request'[x].pc \in {"acquired", "created"} => request'[x].content \in Job
      BY <1>1, <1>7 DEF Threads
    <2>1. CASE x = r
      BY <1>1, <1>4, <2>1 DEF Waiting
    <2>2. CASE x # r
      BY <1>7, <2>2 DEF Inv, Threads
    <2> QED BY <2>1, <2>2
  <1>15. Times'
    BY <1>1, <1>7, <1>10 DEF Inv, Times
  <1>16. Unfired' /\ Ages'
    <2>1. ~MayFire(r)' /\ ~Engaged(r)'
      BY <1>1, <1>4, <1>8, <1>9 DEF MayFire, Engaged, Acted, Waiting
    <2>2. ASSUME NEW x \in Arrived, x # r
          PROVE  /\ request'[x] = request[x]
                 /\ (MayFire(x)' <=> MayFire(x)) /\ (Engaged(x)' <=> Engaged(x))
      BY <1>7, <1>8, <2>2 DEF MayFire, Engaged, Acted
    <2>3. Unfired'
      BY <1>7, <1>8, <2>1, <2>2 DEF Inv, Unfired
    <2>4. Ages'
      <3> SUFFICES ASSUME NEW x \in Arrived, NEW y \in Arrived, x # y,
                          request'[x].key = request'[y].key, Engaged(x)', Engaged(y)'
                   PROVE  Apart(x, y)' \/ Apart(y, x)'
        BY <1>7 DEF Ages
      <3>1. request'[x] = request[x] /\ request'[y] = request[y] /\ Engaged(x) /\ Engaged(y)
        BY <2>1, <2>2
      <3>2. Apart(x, y) \/ Apart(y, x)
        BY <3>1 DEF Inv, Ages
      <3> QED BY <3>1, <3>2, StillApart
    <2> QED BY <2>3, <2>4
  <1>17. Traces'
    <2> SUFFICES ASSUME NEW y \in Arrived, Acted(y)
                 PROVE  \/ record'[request'[y].key].status = "faulted"
                        \/ Names(y)'
                        \/ request'[y].kept /\ Expired(request'[y].at, now)
      BY <1>1, <1>7, <1>8 DEF Traces, Acted, Expired
    <2>1. y # r /\ request'[y] = request[y] /\ request[y].key \in Key
      BY <1>1, <1>7, <1>9, <1>10 DEF Acted
    <2>2. record[request[y].key].status = "faulted" => record'[request[y].key].status = "faulted"
      BY <1>5, <2>1
    <2> QED BY <1>11, <2>1, <2>2 DEF Inv, Traces
  <1>18. FiredArrived' /\ AtMostOnce'
    BY <1>1, NothingFired
  <1> QED BY <1>6, <1>12, <1>13, <1>14, <1>15, <1>16, <1>17, <1>18 DEF Inv

LEMMA ClaimStep ==
  ASSUME Inv, NEW r \in Arrived, Claim(r)
  PROVE  Inv'
  BY FreshStep, AnsweredStep

------------------------------------------------------------------------------
(***************************************************************************)
(* Theorems.                                                               *)
(***************************************************************************)

LEMMA Begins ==
  ASSUME Init
  PROVE  Inv
  <1>1. /\ now = 0 /\ running = Server /\ request = <<>> /\ fired = <<>>
        /\ record = [k \in Key |-> NoRecord] /\ worker = [r \in Requests |-> NoWorker]
    BY DEF Init
  <1>2. request \in Seq(Req) /\ Len(request) = 0 /\ DOMAIN request = {} /\ fired \in Seq(Nat) /\ DOMAIN fired = {}
    BY <1>1, EmptySeq
  <1>3. 0 <= MaxRequest
    BY ActionsAssumption
  <1>4. NoRecord \in Rec /\ NoWorker \in Thread
    BY DEF Rec, Thread, NoWorker
  <1>5. TypeOK
    BY <1>1, <1>2, <1>3, <1>4 DEF TypeOK
  <1>6. Arrived = {}
    BY <1>2 DEF Arrived
  <1>7. Owners /\ Times /\ Unfired /\ Ages /\ Traces
    BY <1>6 DEF Owners, Times, Unfired, Ages, Traces
  <1>8. DoneByOwner
    BY <1>1 DEF DoneByOwner, NoRecord
  <1>9. Threads
    BY <1>1, <1>6 DEF Threads
  <1>10. FiredArrived /\ AtMostOnce
    BY <1>2 DEF FiredArrived, AtMostOnce
  <1> QED BY <1>5, <1>7, <1>8, <1>9, <1>10 DEF Inv

LEMMA StepKeeps ==
  ASSUME Inv, [Next]_vars
  PROVE  Inv'
  <1>1. CASE Arrive
    BY <1>1, ArriveStep
  <1>2. CASE Tick
    BY <1>2, TickStep
  <1>3. ASSUME NEW r \in Arrived, Dispatch(r)
        PROVE  Inv'
    BY <1>3, ClaimStep, RefusesStep, FiresStep, SettlesStep, SubmitStep, StartStep DEF Dispatch
  <1>4. ASSUME NEW r \in Arrived, Worker(r)
        PROVE  Inv'
    BY <1>4, RunningStep, WorksStep DEF Worker
  <1>5. running \subseteq Server
    BY DEF Inv, TypeOK
  <1>6. ASSUME NEW r \in Arrived, Poll(r)
        PROVE  Inv'
    BY <1>5, <1>6, IdleStep DEF Poll
  <1>7. ASSUME NEW s \in Server, Dies(s)
        PROVE  Inv'
    BY <1>7, DiesStep
  <1>8. ASSUME NEW s \in Server, Starts(s)
        PROVE  Inv'
    <2>1. running' \subseteq Server
      BY <1>5, <1>8 DEF Starts
    <2> QED BY <1>8, <2>1, IdleStep DEF Starts
  <1>9. CASE UNCHANGED vars
    BY <1>5, <1>9, IdleStep DEF vars
  <1> QED BY <1>1, <1>2, <1>3, <1>4, <1>6, <1>7, <1>8, <1>9 DEF Next

\* The inductive invariant holds: who owns a key's record, what each firing left of it, and how far
\* apart the claims are that fire under one key.
THEOREM Invariance == Spec => []Inv
  <1>1. Init => Inv
    BY Begins
  <1>2. Inv /\ [Next]_vars => Inv'
    BY StepKeeps
  <1> QED BY <1>1, <1>2, PTL DEF Spec

\* An action (apply_action) fires again under a key only for a claim made when the first was recorded
\* as done and past its window, whatever faults, dies, expires or is claimed by whom, and however long
\* the workers of jobs take.
THEOREM FiredOnce == Spec => []AtMostOnce
  <1>1. Inv => AtMostOnce
    BY DEF Inv
  <1> QED BY <1>1, Invariance, PTL

LEMMA Stays ==
  ASSUME TypeOK, Next, NEW k \in Key, record[k].status = "faulted"
  PROVE  record'[k] = record[k]
  <1>1. CASE record' = record
    BY <1>1
  <1>2. record \in [Key -> Rec]
    BY DEF TypeOK
  <1>3. ASSUME NEW r \in Arrived, Claim(r)
        PROVE  record'[k] = record[k]
    <2> DEFINE q == request[r]
               outcome == Outcome(q.key, q.content, q.at)
    <2>1. q.key \in Key
      BY ArrivedType, ReqType
    <2>2. Pruned(q.at)[k] = record[k]
      BY DEF Pruned
    <2>3. CASE outcome = "fresh"
      <3>1. q.key # k
        BY <2>1, <2>3, Found
      <3>2. record' = [Pruned(q.at) EXCEPT ![q.key] = InFlight(r, q.at)]
        BY <1>3, <2>3 DEF Claim
      <3> QED BY <2>2, <3>1, <3>2 DEF Pruned
    <2>4. CASE outcome = "faulted"
      <3>1. record' = [record EXCEPT ![q.key] = Poisoned(q.key)]
        BY <1>3, <2>4 DEF Claim
      <3> QED BY <1>2, <2>1, <3>1 DEF Poisoned
    <2>5. CASE outcome \notin {"fresh", "faulted"}
      BY <1>3, <2>5 DEF Claim
    <2> QED BY <2>3, <2>4, <2>5
  <1>4. ASSUME NEW r \in Arrived, Settles(r)
        PROVE  record'[k] = record[k]
    BY <1>2, <1>4 DEF Settles, Resolved, ReleasedKey
  <1>5. record' = record \/ \E r \in Arrived : Claim(r) \/ Settles(r)
    BY DEF Next, Arrive, Tick, Dispatch, Refuses, Fires, Returns, Acquire, Create, Start, SubmitFails,
           Worker, ClaimRunning, Works, Finish, Leaves, Poll, Dies, Starts
  <1> QED BY <1>1, <1>3, <1>4, <1>5

\* A poisoned key stays poisoned (claim_or_replay, finalize, release), whoever settles it late.
THEOREM PoisonStays == Spec => FaultedForever
  <1>1. Inv /\ [Next]_vars =>
          [\A k \in Key : record[k].status = "faulted" => record'[k] = record[k]]_record
    <2>1. CASE Next
      BY <2>1, Stays DEF Inv
    <2>2. CASE UNCHANGED vars
      BY <2>2 DEF vars
    <2> QED BY <2>1, <2>2
  <1> QED BY <1>1, Invariance, PTL DEF Spec, FaultedForever

------------------------------------------------------------------------------
(***************************************************************************)
(* The jobs: what a poll shows and what a replayed handle names.           *)
(***************************************************************************)

JobRec ==
  {NoJob} \cup [status : {"pending", "running", "done", "failed"}, created : Int, finished : Int]

\* The job of a request carries its stamp, and is there while its key may be replayed.
JobKept(r) ==
  /\ job[r] \in JobRec
  /\ job[r] # NoJob =>
       r \in Arrived /\ job[r].created = request[r].at /\ request[r].at <= job[r].finished
  /\ r \in Arrived /\ request[r].content \in Job =>
       /\ request[r].pc # "fired"
       /\ request[r].pc \in {"created", "finalizing"} \/ request[r].kept =>
            job[r] # NoJob \/ Expired(request[r].at, now)

\* A poll was told the number of its job by then.
ShownLater(r) ==
  /\ shown[r] \in {"none", "done", "failed", "lapsed"}
  /\ shown[r] # "none" => r \in Arrived /\ request[r].pc \in {"finalizing", "over"}

\* What a poll showed still stands.
Stands(r) ==
  /\ shown[r] = "done" => job[r].status \in {"done", "unknown"}
  /\ shown[r] = "failed" => job[r].status \in {"failed", "unknown"}
  /\ shown[r] = "lapsed" =>
       \/ job[r].status \in {"failed", "unknown"}
       \/ NonTerminal(job[r]) /\ LeaseExpired(job[r], now)
       \/ EndedLate(r)

\* A record repeats the content of the request that it names.
Copies ==
  \A k \in Key :
    record[k].status # "absent" =>
      record[k].of \in Arrived /\ record[k].content = request[record[k].of].content

JobInv ==
  /\ job \in [Requests -> JobRec] /\ shown \in [Requests -> {"none", "done", "failed", "lapsed"}]
  /\ \A r \in Requests : JobKept(r) /\ ShownLater(r) /\ Stands(r)
  /\ Copies

\* What a step may do to a request that arrived before.
Onward(r) ==
  LET q == request[r]
      p == request'[r]
  IN /\ r \in Arrived'
     /\ p.at = q.at /\ p.content = q.content
     /\ q.pc \in {"finalizing", "over"} => p.pc \in {"finalizing", "over"}
     /\ p.pc = "fired" => q.pc = "fired" \/ (q.pc = "claimed" /\ q.content \in Inline)
     /\ p.pc = "created" => q.pc = "created" \/ Create(r)
     /\ p.pc = "finalizing" => q.pc \in {"finalizing", "created", "fired"}
     /\ p.kept => q.kept \/ q.pc = "finalizing"

LEMMA GoesOnward ==
  ASSUME Inv, NEW r \in Arrived, NEW pc \in Places, Goes(r, pc),
         request[r].pc \notin {"finalizing", "over"},
         pc = "fired" => request[r].pc = "claimed" /\ request[r].content \in Inline,
         pc = "created" => Create(r),
         pc = "finalizing" => request[r].pc \in {"created", "fired"}
  PROVE  \A x \in Arrived : Onward(x)
  <1>1. /\ Arrived' = Arrived
        /\ request'[r] = [request[r] EXCEPT !.pc = pc]
        /\ \A x \in Arrived : x # r => request'[x] = request[x]
    BY Moved DEF Inv
  <1>2. request[r] \in Req
    BY ArrivedType DEF Inv
  <1>3. /\ request'[r].pc = pc /\ request'[r].content = request[r].content
        /\ request'[r].at = request[r].at /\ request'[r].kept = request[r].kept
    BY <1>1, <1>2 DEF Req
  <1> QED BY <1>1, <1>3 DEF Onward

LEMMA SettlesOnward ==
  ASSUME Inv, NEW r \in Arrived, Settles(r) \/ Claim(r)
  PROVE  \A x \in Arrived : Onward(x)
  <1>1. request[r] \in Req
    BY ArrivedType DEF Inv
  <1>2. CASE Settles(r)
    <2> DEFINE kept == At(r, "finalizing") /\ record' # record
               q == [request[r] EXCEPT !.pc = "over", !.kept = kept]
    <2>1. kept \in BOOLEAN
      OBVIOUS
    <2>2. request' = [request EXCEPT ![r] = q]
      BY <1>2 DEF Settles
    <2>3. kept => request[r].pc = "finalizing"
      BY DEF At
    <2> HIDE DEF kept
    <2>4. /\ q \in Req /\ q.pc = "over" /\ q.content = request[r].content /\ q.at = request[r].at
          /\ q.kept = kept
      BY <1>1, <2>1 DEF Req, Places
    <2> HIDE DEF q
    <2>5. /\ Arrived' = Arrived /\ request'[r] = q
          /\ \A x \in Arrived : x # r => request'[x] = request[x]
      BY <2>2, <2>4, OneRequest DEF Inv
    <2> QED BY <2>3, <2>4, <2>5 DEF Onward
  <1>3. CASE Claim(r)
    <2> DEFINE outcome == Outcome(request[r].key, request[r].content, request[r].at)
    <2>1. /\ request[r].pc = "claiming" /\ ~request[r].kept /\ Others(r)
          /\ request'[r].pc = (IF outcome = "fresh" THEN "claimed" ELSE outcome)
          /\ request'[r].kept = request[r].kept
      BY <1>3, ClaimsRequest
    <2>2. outcome \in Outcomes
      BY <1>1, Found, ReqType DEF Inv
    <2>3. request'[r].pc \notin {"finalizing", "fired", "created"}
      BY <2>1, <2>2 DEF Outcomes
    <2> QED BY <2>1, <2>3 DEF Onward, Others
  <1> QED BY <1>2, <1>3

LEMMA AllOnward ==
  ASSUME Inv, [Next]_vars
  PROVE  \A x \in Arrived : Onward(x)
  <1>1. CASE UNCHANGED request
    BY <1>1 DEF Onward, Arrived
  <1>2. CASE Arrive
    <2>1. PICK s \in running, k \in Key, c \in Contents :
            request' = Append(request, [pc |-> "claiming", server |-> s, key |-> k, content |-> c, at |-> now,
                                        claimed |-> now, kept |-> FALSE])
      BY <1>2 DEF Arrive
    <2> DEFINE q == [pc |-> "claiming", server |-> s, key |-> k, content |-> c, at |-> now,
                     claimed |-> now, kept |-> FALSE]
    <2>2. q \in Req
      BY DEF Req, Places, Waiting, Inv, TypeOK
    <2> HIDE DEF q
    <2>3. /\ Len(request') = Len(request) + 1 /\ request' \in Seq(Req)
          /\ \A x \in 1..Len(request) : request'[x] = request[x]
      BY <2>1, <2>2, AppendProperties DEF Inv, TypeOK, q
    <2>4. DOMAIN request' = 1..Len(request') /\ Len(request) \in Nat /\ Arrived = 1..Len(request)
      BY <2>3, LenProperties, ArrivedType DEF Inv
    <2> QED BY <2>3, <2>4 DEF Onward, Arrived
  <1>3. ASSUME NEW r \in Arrived, Refuses(r) \/ Fires(r) \/ Returns(r) \/ Acquire(r)
        PROVE  \A x \in Arrived : Onward(x)
    <2>1. PICK pc \in {"releasing", "fired", "finalizing", "faulting", "acquired"} :
            /\ Goes(r, pc) /\ request[r].pc \in {"claimed", "fired"}
            /\ pc = "fired" => request[r].pc = "claimed" /\ request[r].content \in Inline
            /\ pc = "finalizing" => request[r].pc = "fired"
      BY <1>3 DEF Refuses, Fires, Returns, Acquire, At
    <2> QED BY <2>1, GoesOnward DEF Places, Claimed
  <1>4. ASSUME NEW r \in Arrived, Create(r) \/ Start(r) \/ SubmitFails(r)
        PROVE  \A x \in Arrived : Onward(x)
    <2>1. PICK pc \in {"releasing", "created", "finalizing"} :
            /\ Goes(r, pc) /\ request[r].pc \in {"acquired", "created"}
            /\ pc = "created" => Create(r)
            /\ pc = "finalizing" => request[r].pc = "created"
      BY <1>4 DEF Create, Start, SubmitFails, At
    <2> QED BY <2>1, GoesOnward DEF Places, Claimed
  <1>5. ASSUME NEW s \in Server, Dies(s)
        PROVE  \A x \in Arrived : Onward(x)
    <2> DEFINE its == {r \in Arrived : request[r].server = s}
    <2>1. request' = [r \in Arrived |-> IF r \in its THEN [request[r] EXCEPT !.pc = "over"] ELSE request[r]]
      BY <1>5 DEF Dies
    <2>2. Arrived' = Arrived
      BY <2>1 DEF Arrived
    <2>3. ASSUME NEW x \in Arrived
          PROVE  Onward(x)
      <3>1. request[x] \in Req
        BY ArrivedType DEF Inv
      <3>2. CASE x \in its
        <4>1. request'[x] = [request[x] EXCEPT !.pc = "over"]
          BY <2>1, <3>2
        <4>2. /\ request'[x].pc = "over" /\ request'[x].at = request[x].at
              /\ request'[x].content = request[x].content /\ request'[x].kept = request[x].kept
          BY <3>1, <4>1 DEF Req
        <4> QED BY <2>2, <4>2 DEF Onward
      <3>3. CASE x \notin its
        <4>1. request'[x] = request[x]
          BY <2>1, <3>3
        <4> QED BY <2>2, <4>1 DEF Onward
      <3> QED BY <3>2, <3>3
    <2> QED BY <2>3
  <1>6. \/ UNCHANGED request \/ Arrive
        \/ \E r \in Arrived : Claim(r) \/ Settles(r) \/ Refuses(r) \/ Fires(r) \/ Returns(r) \/ Acquire(r)
                                \/ Create(r) \/ Start(r) \/ SubmitFails(r)
        \/ \E s \in Server : Dies(s)
    BY DEF Next, vars, Tick, Dispatch, Worker, ClaimRunning, Works, Finish, Leaves, Poll, Starts
  <1> QED BY <1>1, <1>2, <1>3, <1>4, <1>5, <1>6, SettlesOnward

Ended(j, status, t) == [j EXCEPT !.status = status, !.finished = t]

\* A job that ends keeps its stamp.
LEMMA JobEnds ==
  ASSUME NEW j \in JobRec, j # NoJob, NEW status \in {"done", "failed"}, NEW t \in Int
  PROVE  /\ Ended(j, status, t) \in JobRec /\ Ended(j, status, t) # NoJob
         /\ Ended(j, status, t).status = status /\ Ended(j, status, t).finished = t
         /\ Ended(j, status, t).created = j.created /\ j.created \in Int
  <1>1. j \in [status : {"pending", "running", "done", "failed"}, created : Int, finished : Int]
    BY DEF JobRec
  <1> DEFINE p == [j EXCEPT !.status = status, !.finished = t]
  <1>2. /\ j.created \in Int /\ p.status = status /\ p.created = j.created /\ p.finished = t
        /\ p \in [status : {"pending", "running", "done", "failed"}, created : Int, finished : Int]
    BY <1>1
  <1> HIDE DEF p
  <1>3. p # NoJob
    BY <1>2 DEF NoJob
  <1> QED BY <1>2, <1>3 DEF JobRec, p, Ended

LEMMA FailedEnds ==
  ASSUME NEW j, NEW t
  PROVE  /\ Failed(j, t) = Ended(j, "failed", t)
         /\ j \in JobRec /\ j # NoJob /\ t \in Int => Failed(j, t).status = "failed"
  BY JobEnds DEF Failed, Ended

LEMMA JobEnded ==
  ASSUME NEW j \in JobRec, j # NoJob, NEW status \in {"done", "failed"}, NEW t \in Int, NEW e, e = Ended(j, status, t)
  PROVE  e \in JobRec /\ e # NoJob /\ e.status = status /\ e.finished = t /\ e.created = j.created
  <1>1. /\ Ended(j, status, t) \in JobRec /\ Ended(j, status, t) # NoJob
        /\ Ended(j, status, t).status = status /\ Ended(j, status, t).finished = t
        /\ Ended(j, status, t).created = j.created
    BY JobEnds, Z3
  <1> QED BY <1>1

\* A request that was not there before has only arrived.
LEMMA NewRequest ==
  ASSUME Inv, [Next]_vars, NEW r, r \notin Arrived, r \in Arrived'
  PROVE  request'[r].pc = "claiming" /\ ~request'[r].kept
  <1>1. Arrive
    <2>1. ASSUME NEW x \in Arrived, NEW pc, Goes(x, pc)
          PROVE  Arrived' = Arrived
      BY <2>1 DEF Goes, Arrived
    <2>2. ASSUME NEW x \in Arrived, Claim(x) \/ Settles(x)
          PROVE  Arrived' = Arrived
      BY <2>2 DEF Claim, Settles, Arrived
    <2>3. ASSUME NEW x \in Arrived, Refuses(x) \/ Fires(x) \/ Returns(x) \/ Acquire(x) \/ Create(x) \/ Start(x) \/ SubmitFails(x)
          PROVE  \E pc : Goes(x, pc)
      BY <2>3 DEF Refuses, Fires, Returns, Acquire, Create, Start, SubmitFails
    <2>4. ASSUME NEW s \in Server, Dies(s)
          PROVE  Arrived' = Arrived
      BY <2>4 DEF Dies, Arrived
    <2>5. UNCHANGED request => Arrived' = Arrived
      BY DEF Arrived
    <2>6. \/ UNCHANGED request \/ Arrive
          \/ \E x \in Arrived : Claim(x) \/ Settles(x) \/ Refuses(x) \/ Fires(x) \/ Returns(x) \/ Acquire(x)
                                  \/ Create(x) \/ Start(x) \/ SubmitFails(x)
          \/ \E s \in Server : Dies(s)
      BY DEF Next, vars, Tick, Dispatch, Worker, ClaimRunning, Works, Finish, Leaves, Poll, Starts
    <2> QED BY <2>1, <2>2, <2>3, <2>4, <2>5, <2>6
  <1>2. PICK s \in running, k \in Key, c \in Contents :
          request' = Append(request, [pc |-> "claiming", server |-> s, key |-> k, content |-> c, at |-> now,
                                      claimed |-> now, kept |-> FALSE])
    BY <1>1 DEF Arrive
  <1> DEFINE q == [pc |-> "claiming", server |-> s, key |-> k, content |-> c, at |-> now,
                   claimed |-> now, kept |-> FALSE]
  <1>3. q \in Req
    BY DEF Req, Places, Waiting, Inv, TypeOK
  <1> HIDE DEF q
  <1>4. /\ Len(request') = Len(request) + 1 /\ request' \in Seq(Req)
        /\ request'[Len(request) + 1] = q
    BY <1>2, <1>3, AppendProperties DEF Inv, TypeOK, q
  <1>5. DOMAIN request' = 1..Len(request') /\ Len(request) \in Nat /\ Arrived = 1..Len(request)
    BY <1>4, LenProperties, ArrivedType DEF Inv
  <1>6. r = Len(request) + 1
    BY <1>4, <1>5 DEF Arrived
  <1> QED BY <1>4, <1>6 DEF q

\* The clock does not go back.
LEMMA Later ==
  ASSUME Inv, [Next]_vars
  PROVE  now \in Int /\ now' \in Int /\ now <= now'
  <1>1. now \in Int /\ (now' = now \/ now' = now + 1)
    BY DEF Inv, TypeOK, Next, vars, Arrive, Tick, Dispatch, Claim, Refuses, Fires, Returns, Settles, Acquire,
           Create, Start, SubmitFails, Worker, ClaimRunning, Works, Finish, Leaves, Poll, Dies, Starts
  <1> QED BY <1>1

\* What a step may do to the job of a request.
JobMoves(r) ==
  \/ job'[r] = job[r]
  \/ \E t \in Int : t <= now /\ job'[r] = PrunedJob(job[r], t)
  \/ Create(r) /\ job'[r] = [status |-> "pending", created |-> request[r].at, finished |-> request[r].at]
  \/ job[r].status = "pending" /\ job'[r] = [job[r] EXCEPT !.status = "running"]
  \/ /\ job[r].status = "running" /\ r \in Arrived /\ worker[r] # NoWorker
     /\ job'[r] = Ended(job[r], "done", now) \/ job'[r] = Ended(job[r], "failed", now)
  \/ NonTerminal(job[r]) /\ job'[r] = Failed(job[r], now)

LEMMA AllJobsMove ==
  ASSUME Inv, JobInv, [Next]_vars, NEW r
  PROVE  (r \in Requests => JobMoves(r)) /\ job' \in [Requests -> JobRec]
  <1>1. CASE UNCHANGED job
    BY <1>1 DEF JobMoves, JobInv
  <1>2. ASSUME NEW x \in Arrived, Create(x)
        PROVE  (r \in Requests => JobMoves(r)) /\ job' \in [Requests -> JobRec]
    <2> DEFINE new == [status |-> "pending", created |-> request[x].at, finished |-> request[x].at]
               t == request[x].at
    <2>1. t \in Int /\ t <= now /\ x \in Requests
      BY ArrivedType, ReqType DEF Inv, Times
    <2>2. job' = [[y \in Requests |-> PrunedJob(job[y], t)] EXCEPT ![x] = new]
      BY <1>2 DEF Create
    <2>3. \A y \in Requests : PrunedJob(job[y], t) \in JobRec
      <3> SUFFICES ASSUME NEW y \in Requests
                   PROVE  PrunedJob(job[y], t) \in JobRec
        OBVIOUS
      <3>1. job[y] \in JobRec
        BY DEF JobInv
      <3>2. PrunedJob(job[y], t) \in {Failed(job[y], t), NoJob, job[y]}
        BY DEF PrunedJob, NonTerminal
      <3>3. NonTerminal(job[y]) => Failed(job[y], t) \in JobRec
        BY <2>1, <3>1, JobEnds, FailedEnds DEF NoJob, NonTerminal
      <3>4. PrunedJob(job[y], t) = Failed(job[y], t) => NonTerminal(job[y]) \/ PrunedJob(job[y], t) \in {job[y], NoJob}
        BY DEF PrunedJob, NonTerminal
      <3> QED BY <3>1, <3>2, <3>3, <3>4 DEF JobRec
    <2>4. new \in JobRec
      BY <2>1 DEF JobRec
    <2>5. job' \in [Requests -> JobRec]
      BY <2>2, <2>3, <2>4
    <2>6. r \in Requests => JobMoves(r)
      <3>1. CASE r = x
        BY <1>2, <2>1, <2>2, <3>1 DEF JobMoves
      <3>2. CASE r # x
        BY <2>1, <2>2, <3>2 DEF JobMoves
      <3> QED BY <3>1, <3>2
    <2> QED BY <2>5, <2>6
  <1>3. ASSUME NEW x \in Arrived, ClaimRunning(x), job[x].status = "pending"
        PROVE  (r \in Requests => JobMoves(r)) /\ job' \in [Requests -> JobRec]
    <2> DEFINE new == [job[x] EXCEPT !.status = "running"]
    <2>1. job' = [job EXCEPT ![x] = new]
      BY <1>3 DEF ClaimRunning
    <2>2. x \in Requests /\ job[x] \in JobRec
      BY ArrivedType DEF Inv, JobInv
    <2>3. new \in JobRec
      BY <1>3, <2>2 DEF JobRec, NoJob
    <2>4. job' \in [Requests -> JobRec] /\ job'[x] = new /\ (x # r => job'[r] = job[r])
      BY <2>1, <2>2, <2>3 DEF JobInv
    <2> QED BY <1>3, <2>4 DEF JobMoves
  <1>4. ASSUME NEW x \in Arrived, Finish(x), NEW status \in {"done", "failed"}, job' = Finished(x, status, now)
        PROVE  (r \in Requests => JobMoves(r)) /\ job' \in [Requests -> JobRec]
    <2> DEFINE new == Ended(job[x], status, now)
    <2>1. CASE job[x].status = "running"
      <3>1. job' = [job EXCEPT ![x] = new] /\ worker[x] # NoWorker
        BY <1>4, <2>1 DEF Finished, Finish, NoWorker, Ended
      <3>2. x \in Requests /\ job[x] \in JobRec /\ now \in Int
        BY ArrivedType DEF Inv, TypeOK, JobInv
      <3>3. new \in JobRec
        BY <2>1, <3>2, JobEnds DEF NoJob
      <3>4. job' \in [Requests -> JobRec] /\ job'[x] = new /\ (x # r => job'[r] = job[r])
        BY <3>1, <3>2, <3>3 DEF JobInv
      <3> QED BY <2>1, <3>1, <3>4 DEF JobMoves
    <2>2. CASE job[x].status # "running"
      BY <1>1, <1>4, <2>2 DEF Finished
    <2> QED BY <2>1, <2>2
  <1>5. ASSUME NEW s \in Server, Starts(s)
        PROVE  (r \in Requests => JobMoves(r)) /\ job' \in [Requests -> JobRec]
    <2>1. job' = [y \in Requests |-> IF NonTerminal(job[y]) THEN Failed(job[y], now) ELSE job[y]]
      BY <1>5 DEF Starts, Swept
    <2>2. ASSUME NEW y \in Requests
          PROVE  (IF NonTerminal(job[y]) THEN Failed(job[y], now) ELSE job[y]) \in JobRec
      <3>1. job[y] \in JobRec /\ now \in Int
        BY DEF Inv, TypeOK, JobInv
      <3> QED BY <3>1, JobEnds, FailedEnds DEF NoJob, NonTerminal
    <2> QED BY <2>1, <2>2 DEF JobMoves
  <1>6. \/ UNCHANGED job
        \/ \E x \in Arrived : Create(x)
        \/ \E x \in Arrived : ClaimRunning(x) /\ job[x].status = "pending"
        \/ \E x \in Arrived : Finish(x) /\ \E status \in {"done", "failed"} : job' = Finished(x, status, now)
        \/ \E s \in Server : Starts(s)
    BY DEF Next, vars, Arrive, Tick, Dispatch, Claim, Refuses, Fires, Returns, Settles, Acquire, Start, SubmitFails,
           Worker, ClaimRunning, Works, Finish, Leaves, Poll, Dies
  <1> QED BY <1>1, <1>2, <1>3, <1>4, <1>5, <1>6

LEMMA JobKeptStep ==
  ASSUME Inv, JobInv, [Next]_vars, NEW r \in Requests
  PROVE  JobKept(r)'
  <1>1. JobMoves(r) /\ job'[r] \in JobRec /\ JobKept(r) /\ job[r] \in JobRec
    BY AllJobsMove DEF JobInv
  <1>2. r \in Arrived => Onward(r)
    BY AllOnward
  <1>3. now \in Int /\ now' \in Int /\ now <= now'
    BY Later
  <1>4. r \in Arrived => request[r].at \in Int /\ request[r].at <= now
    BY ArrivedType, ReqType DEF Inv, Times
  \* The job goes only with an expired key; its stamps are the request's or later.
  <1>5. /\ job'[r] # NoJob => r \in Arrived /\ job'[r].created = request[r].at /\ request[r].at <= job'[r].finished
        /\ job[r] # NoJob => job'[r] # NoJob \/ Expired(request[r].at, now)
    <2>1. CASE job'[r] = job[r]
      BY <1>1, <2>1 DEF JobKept
    <2>2. ASSUME NEW t \in Int, t <= now, job'[r] = PrunedJob(job[r], t)
          PROVE  <1>5!1 /\ <1>5!2
      <3>1. CASE job[r] = NoJob
        BY <2>2, <3>1 DEF PrunedJob, NonTerminal, NoJob
      <3>2. CASE NonTerminal(job[r]) /\ LeaseExpired(job[r], t)
        <4>1. job'[r] = Ended(job[r], "failed", t)
          BY <2>2, <3>2, FailedEnds DEF PrunedJob, NonTerminal
        <4>2. job[r] # NoJob
          BY <3>2 DEF NoJob, NonTerminal
        <4>3. job'[r].created = job[r].created /\ job'[r].finished = t /\ job'[r] # NoJob /\ job[r].created \in Int
          <5>1. job[r] \in JobRec /\ t \in Int
            BY <1>1
          <5>2. /\ Ended(job[r], "failed", t).created = job[r].created /\ Ended(job[r], "failed", t).finished = t
                /\ Ended(job[r], "failed", t) # NoJob /\ job[r].created \in Int
            BY <4>2, <5>1, JobEnds
          <5> QED BY <4>1, <5>2
        <4>4. request[r].at <= t
          BY <1>1, <1>4, <2>2, <3>2, <4>2, <4>3, ActionsAssumption DEF LeaseExpired, JobKept
        <4> QED BY <1>1, <4>2, <4>3, <4>4 DEF JobKept
      <3>3. CASE job[r].status \in {"done", "failed"} /\ t - job[r].finished > ResultTTL
        <4>1. job[r] # NoJob /\ job'[r] = NoJob /\ job[r].finished \in Int
          BY <1>1, <2>2, <3>3 DEF PrunedJob, NonTerminal, NoJob, JobRec
        <4>2. request[r].at <= job[r].finished /\ request[r].at \in Int
          BY <1>1, <1>4, <4>1 DEF JobKept
        <4>3. Expired(request[r].at, now)
          BY <1>3, <2>2, <3>3, <4>1, <4>2, ActionsAssumption DEF Expired
        <4> QED BY <4>1, <4>3
      <3>4. CASE ~(NonTerminal(job[r]) /\ LeaseExpired(job[r], t)) /\ ~(job[r].status \in {"done", "failed"} /\ t - job[r].finished > ResultTTL)
        <4>1. job'[r] = job[r]
          BY <2>2, <3>4 DEF PrunedJob
        <4> QED BY <2>1, <4>1
      <3> QED BY <3>2, <3>3, <3>4
    <2>3. CASE Create(r) /\ job'[r] = [status |-> "pending", created |-> request[r].at, finished |-> request[r].at]
      BY <1>4, <2>3 DEF Create, At, NoJob
    <2>4. CASE job[r].status = "pending" /\ job'[r] = [job[r] EXCEPT !.status = "running"]
      <3>1. job[r] # NoJob /\ job'[r] # NoJob /\ job'[r].created = job[r].created /\ job'[r].finished = job[r].finished
        BY <1>1, <2>4 DEF JobRec, NoJob
      <3> QED BY <1>1, <3>1 DEF JobKept
    <2>5. CASE /\ job[r].status = "running"
               /\ job'[r] = Ended(job[r], "done", now) \/ job'[r] = Ended(job[r], "failed", now)
      <3>1. job[r] # NoJob
        BY <2>5 DEF NoJob
      <3>2. job'[r] # NoJob /\ job'[r].created = job[r].created /\ job'[r].finished = now
        <4>1. job[r] \in JobRec /\ now \in Int
          BY <1>1, <1>3
        <4>2. CASE job'[r] = Ended(job[r], "done", now)
          BY <3>1, <4>1, <4>2, JobEnded
        <4>3. CASE job'[r] = Ended(job[r], "failed", now)
          BY <3>1, <4>1, <4>3, JobEnded
        <4> QED BY <2>5, <4>2, <4>3
      <3> QED BY <1>1, <1>4, <3>1, <3>2 DEF JobKept
    <2>6. CASE NonTerminal(job[r]) /\ job'[r] = Failed(job[r], now)
      <3>1. job[r] # NoJob
        BY <2>6 DEF NoJob, NonTerminal
      <3>2. job'[r] # NoJob /\ job'[r].created = job[r].created /\ job'[r].finished = now
        <4>1. job[r] \in JobRec /\ now \in Int
          BY <1>1, <1>3
        <4>2. job'[r] = Ended(job[r], "failed", now)
          BY <2>6, FailedEnds
        <4> QED BY <3>1, <4>1, <4>2, JobEnded
      <3> QED BY <1>1, <1>4, <3>1, <3>2 DEF JobKept
    <2> QED BY <1>1, <2>1, <2>2, <2>3, <2>4, <2>5, <2>6 DEF JobMoves
  <1>6. CASE r \in Arrived
    <2> DEFINE q == request[r]
               p == request'[r]
    <2>1. Onward(r)
      BY <1>2, <1>6
    <2>2. job'[r] # NoJob => r \in Arrived' /\ job'[r].created = p.at /\ p.at <= job'[r].finished
      BY <1>5, <2>1 DEF Onward
    <2>3. Expired(q.at, now) => Expired(p.at, now')
      BY <1>3, <1>4, <1>6, <2>1, StillExpired DEF Onward
    <2>4. q.content \in Job /\ (q.pc \in {"created", "finalizing"} \/ q.kept) => job'[r] # NoJob \/ Expired(p.at, now')
      BY <1>1, <1>5, <1>6, <2>3 DEF JobKept
    <2>5. Create(r) => job'[r] # NoJob
      BY DEF Create, NoJob
    <2>6. q.content \in Job => q.pc # "fired" /\ q.content \notin Inline
      BY <1>1, <1>6, Bounds DEF JobKept
    <2>7. p.content \in Job =>
            /\ p.pc # "fired"
            /\ p.pc \in {"created", "finalizing"} \/ p.kept => job'[r] # NoJob \/ Expired(p.at, now')
      BY <2>1, <2>4, <2>5, <2>6 DEF Onward
    <2> QED BY <1>1, <2>2, <2>7 DEF JobKept, Expired
  <1>7. CASE r \notin Arrived
    <2>1. job'[r] = NoJob
      BY <1>5, <1>7
    <2>2. r \in Arrived' => request'[r].pc = "claiming" /\ ~request'[r].kept
      BY <1>7, NewRequest
    <2> QED BY <1>1, <2>1, <2>2 DEF JobKept
  <1> QED BY <1>6, <1>7

\* What was shown: only a poll changes it, to what it reads.
LEMMA ShownMoves ==
  ASSUME JobInv, [Next]_vars, NEW r
  PROVE  /\ shown' \in [Requests -> {"none", "done", "failed", "lapsed"}]
         /\ \/ r \in Requests => shown'[r] = shown[r]
            \/ /\ r \in Arrived /\ request[r].pc \in {"finalizing", "over"}
               /\ shown'[r] = (IF NonTerminal(job[r]) THEN "lapsed" ELSE Read(job[r], now))
               /\ Read(job[r], now) \in {"done", "failed"} /\ UNCHANGED <<now, job>>
  <1>1. CASE UNCHANGED shown
    BY <1>1 DEF JobInv
  <1>2. ASSUME NEW x \in Arrived, Poll(x)
        PROVE  /\ shown' \in [Requests -> {"none", "done", "failed", "lapsed"}]
               /\ \/ r \in Requests => shown'[r] = shown[r]
                  \/ /\ r \in Arrived /\ request[r].pc \in {"finalizing", "over"}
                     /\ shown'[r] = (IF NonTerminal(job[r]) THEN "lapsed" ELSE Read(job[r], now))
                     /\ Read(job[r], now) \in {"done", "failed"} /\ UNCHANGED <<now, job>>
    BY <1>2 DEF Poll, JobInv
  <1>3. UNCHANGED shown \/ \E x \in Arrived : Poll(x)
    BY DEF Next, vars, Arrive, Tick, Dispatch, Claim, Refuses, Fires, Returns, Settles, Acquire, Create, Start,
           SubmitFails, Worker, ClaimRunning, Works, Finish, Leaves, Dies, Starts
  <1> QED BY <1>1, <1>2, <1>3

LEMMA ShownLaterStep ==
  ASSUME Inv, JobInv, [Next]_vars, NEW r \in Requests
  PROVE  ShownLater(r)'
  <1>1. ShownLater(r) /\ (r \in Arrived => Onward(r))
    BY AllOnward DEF JobInv
  <1>2. shown'[r] \in {"none", "done", "failed", "lapsed"}
    BY ShownMoves
  <1>3. shown'[r] # "none" => r \in Arrived /\ request[r].pc \in {"finalizing", "over"}
    BY <1>1, ShownMoves DEF ShownLater
  <1> QED BY <1>1, <1>2, <1>3 DEF ShownLater, Onward

LEMMA StandsShown ==
  ASSUME NEW r, job[r] \in JobRec, Stands(r)
  PROVE  LET read == Read(job[r], now) IN
         /\ shown[r] = "done" => read \in {"done", "unknown"}
         /\ shown[r] = "failed" => read \in {"failed", "unknown"}
         /\ shown[r] = "lapsed" => read \in {"failed", "unknown"} \/ EndedLate(r)
  BY DEF Stands, Read, NonTerminal

LEMMA StatusStep ==
  ASSUME Inv, JobInv, [Next]_vars, NEW r \in Requests
  PROVE  Stands(r)'
  <1>1. /\ JobMoves(r) /\ job'[r] \in JobRec /\ job[r] \in JobRec /\ JobKept(r) /\ ShownLater(r) /\ Stands(r)
    BY AllJobsMove DEF JobInv
  <1>2. now \in Int /\ now' \in Int /\ now <= now'
    BY Later
  <1>3. ASSUME r \in Arrived, shown'[r] = (IF NonTerminal(job[r]) THEN "lapsed" ELSE Read(job[r], now)),
               Read(job[r], now) \in {"done", "failed"}, UNCHANGED <<now, job>>
        PROVE  Stands(r)'
    <2>1. Stands(r)' <=>
            /\ shown'[r] = "done" => job[r].status \in {"done", "unknown"}
            /\ shown'[r] = "failed" => job[r].status \in {"failed", "unknown"}
            /\ shown'[r] = "lapsed" =>
                 \/ job[r].status \in {"failed", "unknown"}
                 \/ NonTerminal(job[r]) /\ LeaseExpired(job[r], now)
                 \/ EndedLate(r)
      BY <1>3 DEF Stands, EndedLate, LeaseExpired
    <2> QED BY <1>3, <2>1 DEF Read, NonTerminal
  <1>4. ASSUME shown'[r] = shown[r]
        PROVE  Stands(r)'
    <2>1. CASE shown[r] = "none"
      BY <1>4, <2>1 DEF Stands
    <2>2. CASE shown[r] # "none"
      <3>1. r \in Arrived /\ request[r].pc \in {"finalizing", "over"}
        BY <1>1, <2>2 DEF ShownLater
      \* Who is not finished was shown lapsed, and stays so.
      <3>2. NonTerminal(job[r]) =>
              /\ shown[r] = "lapsed" /\ LeaseExpired(job[r], now) /\ LeaseExpired(job[r], now')
              /\ job[r] # NoJob /\ job[r].created \in Int
        <4>1. NonTerminal(job[r]) => shown[r] = "lapsed" /\ LeaseExpired(job[r], now)
          BY <1>1, <2>2 DEF Stands, NonTerminal, ShownLater, EndedLate
        <4>2. NonTerminal(job[r]) => job[r] # NoJob /\ job[r].created \in Int
          BY <1>1 DEF NonTerminal, NoJob, JobRec
        <4> QED BY <1>2, <4>1, <4>2, ActionsAssumption DEF LeaseExpired
      <3>3. CASE job'[r] = job[r]
        <4>1. EndedLate(r)' <=> EndedLate(r)
          BY <3>3 DEF EndedLate, LeaseExpired
        <4>2. NonTerminal(job[r]) => LeaseExpired(job'[r], now')
          BY <3>2, <3>3
        <4> QED BY <1>1, <1>4, <3>3, <4>1, <4>2 DEF Stands
      <3>4. ASSUME job'[r].status = "failed", NonTerminal(job[r])
            PROVE  Stands(r)'
        BY <1>4, <3>2, <3>4 DEF Stands
      <3>5. ASSUME NEW t \in Int, t <= now, job'[r] = PrunedJob(job[r], t)
            PROVE  Stands(r)'
        <4>1. CASE NonTerminal(job[r])
          <5>1. job'[r] = job[r] \/ job'[r] = Failed(job[r], t)
            BY <3>5, <4>1 DEF PrunedJob, NonTerminal
          <5>2. job'[r] = Failed(job[r], t) => job'[r].status = "failed"
            BY <1>1, <3>2, <3>5, <4>1, FailedEnds
          <5> QED BY <3>3, <3>4, <4>1, <5>1, <5>2
        <4>2. CASE ~NonTerminal(job[r])
          <5>1. job'[r] = job[r] \/ job'[r] = NoJob
            BY <3>5, <4>2 DEF PrunedJob
          <5>2. job'[r] = NoJob => Stands(r)'
            BY DEF Stands, NoJob
          <5> QED BY <3>3, <5>1, <5>2
        <4> QED BY <4>1, <4>2
      <3>6. ~Create(r)
        BY <3>1 DEF Create, At
      <3>7. CASE job[r].status = "pending" /\ job'[r] = [job[r] EXCEPT !.status = "running"]
        <4>1. NonTerminal(job[r])
          BY <3>7 DEF NonTerminal
        <4>2. NonTerminal(job'[r]) /\ job'[r].created = job[r].created
          BY <1>1, <3>2, <3>7, <4>1 DEF NonTerminal, JobRec
        <4>3. LeaseExpired(job'[r], now')
          BY <3>2, <4>1, <4>2 DEF LeaseExpired
        <4> QED BY <1>4, <3>2, <4>1, <4>2, <4>3 DEF Stands, NonTerminal
      \* A worker that outlived the lease writes its end.
      <3>8. CASE /\ job[r].status = "running"
                 /\ job'[r] = Ended(job[r], "done", now) \/ job'[r] = Ended(job[r], "failed", now)
        <4>1. NonTerminal(job[r])
          BY <3>8 DEF NonTerminal
        <4>2. CASE job'[r] = Ended(job[r], "failed", now)
          <5>1. job[r] \in JobRec /\ job[r] # NoJob /\ now \in Int
            BY <1>1, <1>2, <3>2, <4>1
          <5>2. job'[r].status = "failed"
            BY <4>2, <5>1, JobEnded
          <5> QED BY <3>4, <4>1, <5>2
        <4>3. CASE job'[r] = Ended(job[r], "done", now)
          <5>1. job[r] \in JobRec /\ job[r] # NoJob /\ now \in Int
            BY <1>1, <1>2, <3>2, <4>1
          <5>2. job'[r].status = "done" /\ job'[r].finished = now /\ job'[r].created = job[r].created
            BY <4>3, <5>1, JobEnded
          <5>3. EndedLate(r)'
            BY <3>2, <4>1, <5>2 DEF EndedLate, LeaseExpired
          <5> QED BY <1>4, <3>2, <4>1, <5>3 DEF Stands
        <4> QED BY <3>8, <4>2, <4>3
      <3>9. CASE NonTerminal(job[r]) /\ job'[r] = Failed(job[r], now)
        <4>1. job'[r].status = "failed"
          BY <1>1, <1>2, <3>2, <3>9, FailedEnds
        <4> QED BY <3>4, <3>9, <4>1
      <3> QED BY <1>1, <3>3, <3>5, <3>6, <3>7, <3>8, <3>9 DEF JobMoves
    <2> QED BY <2>1, <2>2
  <1> QED BY <1>3, <1>4, ShownMoves

\* A record names the request whose claim it is, and that stays.
LEMMA CopiesStep ==
  ASSUME Inv, JobInv, [Next]_vars
  PROVE  Copies'
  <1>1. /\ \A x \in Arrived : x \in Arrived' /\ request'[x].content = request[x].content
        /\ record \in [Key -> Rec] /\ Copies
    BY AllOnward DEF Onward, Inv, TypeOK, JobInv
  <1>2. CASE UNCHANGED record
    BY <1>1, <1>2 DEF Copies
  <1>3. ASSUME NEW r \in Arrived, NEW k \in Key,
               record'[k] = record[k] \/ record'[k] = NoRecord \/ record'[k] = [record[k] EXCEPT !.status = "done"]
                 \/ record'[k] = [record[k] EXCEPT !.status = "faulted"] \/ record'[k] = InFlight(r, request[r].at),
               record[k].status = "absent" => record'[k] = record[k] \/ record'[k] = InFlight(r, request[r].at),
               record'[k].status # "absent"
        PROVE  record'[k].of \in Arrived' /\ record'[k].content = request'[record'[k].of].content
    <2>1. CASE record'[k] = InFlight(r, request[r].at)
      BY <1>1, <2>1 DEF InFlight
    <2>2. CASE record'[k] # InFlight(r, request[r].at)
      <3>1. record[k] \in Rec /\ record[k].status # "absent"
        BY <1>1, <1>3, <2>2
      <3>2. record'[k] # NoRecord
        BY <1>3 DEF NoRecord
      <3>3. record'[k].of = record[k].of /\ record'[k].content = record[k].content
        BY <1>3, <2>2, <3>1, <3>2 DEF Rec, NoRecord
      <3> QED BY <1>1, <3>1, <3>3 DEF Copies
    <2> QED BY <2>1, <2>2
  <1>4. ASSUME NEW r \in Arrived, Claim(r) \/ Settles(r), NEW k \in Key
        PROVE  /\ record'[k] = record[k] \/ record'[k] = NoRecord \/ record'[k] = [record[k] EXCEPT !.status = "done"]
                    \/ record'[k] = [record[k] EXCEPT !.status = "faulted"] \/ record'[k] = InFlight(r, request[r].at)
               /\ record[k].status = "absent" => record'[k] = record[k] \/ record'[k] = InFlight(r, request[r].at)
    <2> DEFINE key == request[r].key
    <2>1. key \in Key
      BY ArrivedType, ReqType DEF Inv
    <2>2. CASE Claim(r)
      <3> DEFINE t == request[r].at
                 outcome == Outcome(key, request[r].content, t)
      <3>1. Pruned(t) \in [Key -> Rec \cup {NoRecord}] /\ Pruned(t)[k] \in {record[k], NoRecord}
            /\ (record[k].status = "absent" => Pruned(t)[k] = record[k])
        BY <1>1 DEF Pruned
      <3>2. CASE outcome = "fresh"
        <4>1. record' = [Pruned(t) EXCEPT ![key] = InFlight(r, t)]
          BY <2>2, <3>2 DEF Claim
        <4> QED BY <2>1, <3>1, <4>1
      <3>3. CASE outcome = "faulted"
        <4>1. record' = [record EXCEPT ![key] = Poisoned(key)]
          BY <2>2, <3>3 DEF Claim
        <4>2. record'[k] = record[k] \/ (k = key /\ record'[k] = Poisoned(key))
          BY <1>1, <2>1, <4>1
        <4> QED BY <4>2 DEF Poisoned
      <3>4. CASE outcome \notin {"fresh", "faulted"}
        BY <2>2, <3>4 DEF Claim
      <3> QED BY <3>2, <3>3, <3>4
    <2>3. CASE Settles(r)
      <3>1. record' \in {record, Resolved(key, "done"), Resolved(key, "faulted"), ReleasedKey(key)}
        BY <2>3 DEF Settles
      <3>2. \/ record' = record
            \/ /\ record[key].status = "in_flight"
               /\ \/ record' = [record EXCEPT ![key].status = "done"]
                  \/ record' = [record EXCEPT ![key].status = "faulted"]
                  \/ record' = [record EXCEPT ![key] = NoRecord]
        BY <3>1 DEF Resolved, ReleasedKey
      <3> QED BY <1>1, <2>1, <3>2
    <2> QED BY <1>4, <2>2, <2>3
  <1>5. UNCHANGED record \/ \E r \in Arrived : Claim(r) \/ Settles(r)
    BY DEF Next, vars, Arrive, Tick, Dispatch, Refuses, Fires, Returns, Acquire, Create, Start, SubmitFails,
           Worker, ClaimRunning, Works, Finish, Leaves, Poll, Dies, Starts
  <1>6. ASSUME NEW r \in Arrived, Claim(r) \/ Settles(r)
        PROVE  Copies'
    BY <1>3, <1>4, <1>6 DEF Copies
  <1> QED BY <1>2, <1>5, <1>6

LEMMA JobInvStep ==
  ASSUME Inv, JobInv, [Next]_vars
  PROVE  JobInv'
  <1>1. job' \in [Requests -> JobRec] /\ shown' \in [Requests -> {"none", "done", "failed", "lapsed"}]
    BY AllJobsMove, ShownMoves
  <1>2. \A r \in Requests : JobKept(r)' /\ ShownLater(r)' /\ Stands(r)'
    BY JobKeptStep, ShownLaterStep, StatusStep
  <1>3. Copies'
    BY CopiesStep
  <1> QED BY <1>1, <1>2, <1>3 DEF JobInv

LEMMA JobInvBegins ==
  ASSUME Init
  PROVE  JobInv
  <1>1. /\ job = [r \in Requests |-> NoJob] /\ shown = [r \in Requests |-> "none"]
        /\ request = <<>> /\ record = [k \in Key |-> NoRecord]
    BY DEF Init
  <1>2. Arrived = {}
    BY <1>1, EmptySeq DEF Arrived
  <1>3. Copies
    BY <1>1 DEF Copies, NoRecord
  <1>4. \A r \in Requests : JobKept(r) /\ ShownLater(r) /\ Stands(r)
    BY <1>1, <1>2 DEF JobKept, ShownLater, Stands, JobRec
  <1> QED BY <1>1, <1>3, <1>4 DEF JobInv, JobRec

LEMMA JobInvariance == Spec => []JobInv
  <1>1. Init => JobInv
    BY JobInvBegins
  <1>2. Inv /\ JobInv /\ [Next]_vars => JobInv'
    BY JobInvStep
  <1> QED BY <1>1, <1>2, Invariance, PTL DEF Spec

\* A final status that a poll showed (read_status) stays while the job's record is there, except that a
\* worker which outlived its lease may still write done over a failure that only the poll inferred
\* (finish): no sweep, pruning or late worker undoes an end that was written.
THEOREM ShownStays == Spec => []StatusStays
  <1>1. JobInv => StatusStays
    <2> SUFFICES ASSUME JobInv, NEW r \in Requests
                 PROVE  LET read == Read(job[r], now) IN
                        /\ shown[r] = "done" => read \in {"done", "unknown"}
                        /\ shown[r] = "failed" => read \in {"failed", "unknown"}
                        /\ shown[r] = "lapsed" => read \in {"failed", "unknown"} \/ EndedLate(r)
      BY DEF StatusStays
    <2> QED BY StandsShown DEF JobInv
  <1> QED BY <1>1, JobInvariance, PTL

\* The handle that a replay returns names a job that is still there: the result of a job is kept as long
\* as its key, and counts from its own end (_prune of both stores).
THEOREM ReplaysResolve == Spec => []ReplayResolvable
  <1>1. ASSUME Inv, JobInv, NEW k \in Key,
               record[k].status = "done", record[k].content \in Job, ~Expired(record[k].created, now)
        PROVE  job[record[k].of].status # "unknown"
    <2> DEFINE r == record[k].of
    <2>1. r \in Arrived /\ request[r].kept /\ request[r].at = record[k].created
      BY <1>1 DEF Inv, DoneByOwner
    <2>2. request[r].content \in Job
      BY <1>1 DEF JobInv, Copies
    <2>3. r \in Requests /\ job[r] \in JobRec /\ JobKept(r)
      BY <1>1, <2>1, ArrivedType DEF Inv, JobInv
    <2>4. job[r] # NoJob
      BY <1>1, <2>1, <2>2, <2>3 DEF JobKept
    <2> QED BY <2>3, <2>4 DEF JobRec
  <1>2. Inv /\ JobInv => ReplayResolvable
    BY <1>1 DEF ReplayResolvable
  <1> QED BY <1>2, Invariance, JobInvariance, PTL

=============================================================================
