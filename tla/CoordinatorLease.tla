-------------------------- MODULE CoordinatorLease --------------------------
(***************************************************************************)
(* The coordinator's lease and the launches of levain/coordinator/lease.py,*)
(* with the starter and the watcher of levain/coordinator/launch.py.       *)
(*                                                                         *)
(* A lease is claimed, beaten, released, lapsed or taken over; its token is*)
(* the claim's number.  A launch is asked for (`pending'), a process claims*)
(* its spawn, starts its session and activates it.  Every function of      *)
(* lease.py runs inside one write transaction of the store and is one step *)
(* here; what a starter or the watcher does between two transactions       *)
(* (running `claude', reading its listing) is a step of its own.           *)
(*                                                                         *)
(* Launches are numbered in the order they are asked for.  The order of    *)
(* their latest events (gseq) is the relation `after', so that no stamp    *)
(* orders anything: the clock may be set back.                             *)
(***************************************************************************)
EXTENDS Integers, FiniteSets

CONSTANTS
  Starter,       \* processes that start sessions
  Agents,        \* the coordinator settings you choose between
  Verbs,         \* what you do yourself: a subset of {"take", "release"}
  Asks,          \* the roles a lease holder asks launches for
  Holds,         \* how long you hold the lease with a take
  LeaseTTL,      \* LEASE_TTL
  LaunchTTL,     \* LAUNCH_TTL
  IdleGrace,     \* IDLE_GRACE
  Window,        \* SERVICE_BEAT_WINDOW
  Backoff,       \* BACKOFF, after one death, two deaths, ...
  MaxDeaths,     \* MAX_DEATHS
  MaxSpawnsLive, \* MAX_SPAWNS_LIVE
  MaxLaunch,     \* bound: launches asked for
  MaxToken,      \* bound: claims
  MaxTime,       \* bound: the last instant of the clock
  MaxBack        \* bound: how often the clock is set back

ASSUME LeaseAssumption ==
  /\ Agents \subseteq {"claude", "none"} /\ Agents # {}
  /\ Verbs \subseteq {"take", "release"}
  /\ Asks \subseteq {"coordinator", "worker"}
  /\ Holds \subseteq Nat \ {0}
  /\ {LeaseTTL, LaunchTTL} \subseteq Nat \ {0}
  /\ {IdleGrace, Window, MaxDeaths, MaxSpawnsLive} \subseteq Nat
  /\ {MaxLaunch, MaxToken, MaxTime, MaxBack} \subseteq Nat
  /\ MaxTime # 0
  /\ Backoff \in [1..(MaxDeaths - 1) -> Nat]

VARIABLES
  now,       \* the store's clock
  back,      \* how often it was set back
  setting,   \* coord_settings: the latest row's agent
  lease,     \* lease_events: the latest claim, its furthest until, and whether
             \* no release, lapse or takeover came after it
  launch,    \* launches, launch_events and launch_spawns
  after,     \* <<k, l>>: k's latest event came after l's
  asked,     \* launches asked for so far
  looked,    \* launches asked for before your latest take or release
  known,     \* the token each holder was told
  served,    \* the token of the latest coordinator write that was accepted
  session,   \* the session of each launch, as `claude agents' would list it
  starter    \* local state of the starters

clock == <<now, back>>
store == <<setting, lease, launch, after, asked, looked>>
vars  == <<clock, store, known, served, session, starter>>

Launch   == 1..MaxLaunch
Operator == 0
Holder   == Launch \cup {Operator}
Time     == 1..MaxTime
Over     == {"failed", "expired", "ended"}

\* Causes of an end.  "spawn refused" stands for "budget crossed" too, "start
\* failed" for every cause a starter writes.
Cause == {"none", "takeover", "operator release", "lease lost before active",
          "pending past until", "lost the lease", "spawn refused",
          "replaced while done", "worker done", "0 turns", "gone",
          "start failed"}

LaunchRow == [role    : {"coordinator", "worker"},
              state   : Over \cup {"none", "pending", "active"},
              token   : Nat,
              until   : Nat,
              cause   : Cause,
              spawned : BOOLEAN,  \* its row in launch_spawns
              wroteAt : Nat,      \* latest lease row of its own, by coordinator
              reach   : Nat,      \* activation, or the furthest until it held
              at      : Nat]      \* its latest event

NotAsked == [role |-> "worker", state |-> "none", token |-> 0, until |-> 0,
             cause |-> "none", spawned |-> FALSE, wroteAt |-> 0, reach |-> 0,
             at |-> 0]

Lease == [token : Nat, holder : Holder, until : Nat, standing : BOOLEAN]

StarterState ==
  {[pc |-> "idle"]}
    \cup [pc : {"checked", "claimed", "spawned", "failing", "stopping"},
          launch : Launch]

TypeOK ==
  /\ now \in Time
  /\ back \in 0..MaxBack
  /\ setting \in Agents
  /\ lease \in Lease
  /\ launch \in [Launch -> LaunchRow]
  /\ after \subseteq Launch \X Launch
  /\ asked \in 0..MaxLaunch
  /\ looked \in 0..MaxLaunch
  /\ known \in [Holder -> Nat]
  /\ served \in Nat
  /\ session \in [Launch -> {"none", "late", "running", "gone"}]
  /\ starter \in [Starter -> StarterState]

Init ==
  /\ now = 1
  /\ back = 0
  /\ setting \in Agents
  /\ lease = [token |-> 0, holder |-> Operator, until |-> 0, standing |-> FALSE]
  /\ launch = [l \in Launch |-> NotAsked]
  /\ after = {}
  /\ asked = 0
  /\ looked = 0
  /\ known = [h \in Holder |-> 0]
  /\ served = 0
  /\ session = [l \in Launch |-> "none"]
  /\ starter = [p \in Starter |-> [pc |-> "idle"]]

-----------------------------------------------------------------------------
(* Reading and writing the tables.  These operators take the launches f, the*)
(* event order r and the lease z a transaction has come to, since several  *)
(* functions of lease.py run in one transaction.  A definition whose name   *)
(* ends in _<Word> is a faulty variant of the one that follows it.         *)

Later(a, b) == IF a > b THEN a ELSE b

\* The launches S get an event each, in asking order.
Moved(r, S) == {p \in Launch \X Launch :
                  \/ p[1] \in S /\ (p[2] \notin S \/ p[2] < p[1])
                  \/ p[1] \notin S /\ p[2] \notin S /\ p \in r}

\* _launch_event with a final kind, on each launch of S.
Ended(f, S, kind, cause) ==
  [l \in Launch |-> IF l \in S THEN [f[l] EXCEPT !.state = kind,
                                                 !.cause = cause, !.at = now]
                               ELSE f[l]]

\* _in_state
InState(f, state) == {l \in Launch : f[l].state = state}
Coordinators(f, state) == {l \in InState(f, state) : f[l].role = "coordinator"}

\* _expire_pending: the launches it ends.
Due_Unclaimed(f) == {l \in InState(f, "pending") : now >= f[l].until /\ ~f[l].spawned}
Due(f) == {l \in InState(f, "pending") : now >= f[l].until}
Expired(f) == Ended(f, Due(f), "expired", "pending past until")

\* lease(): held, and live.
Live(z) == z.standing /\ now < z.until
Past(z) == z.standing /\ now >= z.until
Freed(z) == [z EXCEPT !.standing = FALSE]

\* _lapse_if_past
Lapsed(z) == IF Past(z) THEN Freed(z) ELSE z
LapsedLaunches(f, z) == IF Past(z) THEN Expired(f) ELSE f
LapsedOrder(r, f, z) == IF Past(z) THEN Moved(r, Due(f)) ELSE r

\* A holder whose launch ended gives up its claim with it.
FreedBy(z, l) == IF z.standing /\ z.holder = l THEN Freed(z) ELSE z

\* fence()
Fenced_Standing(t) == lease.standing /\ t # 0 /\ t <= lease.token
Fenced(t) ==
  /\ Live(lease)
  /\ lease.token = t
  /\ lease.holder # Operator => launch[lease.holder].state = "active"

\* A claim or a beat, to `until' at the furthest; never nearer.
Claimed(z, h, until) ==
  [token |-> z.token + 1, holder |-> h, until |-> until, standing |-> TRUE]
Beaten(z) == [z EXCEPT !.until = Later(@, now + LeaseTTL)]

\* A lease row reaching `until', of launch row w; by coordinator, in Spoke.
Reached(w, until) == [w EXCEPT !.reach = Later(@, until)]
Spoke(w, until)   == [Reached(w, until) EXCEPT !.wroteAt = Later(@, now)]

\* A lease row of holder h's own.
Wrote(f, h, until) ==
  IF h = Operator THEN f ELSE [f EXCEPT ![h] = Spoke(f[h], until)]

\* _pending: launch asked + 1.
Asked(f, role, token, reach) ==
  [f EXCEPT ![asked + 1] =
     [NotAsked EXCEPT !.role = role, !.state = "pending", !.token = token,
                      !.until = now + LaunchTTL, !.reach = reach, !.at = now]]

\* Bound: a launch is asked for while there is a number left, and time to
\* expire it.
MayAsk == asked < MaxLaunch /\ now + LaunchTTL <= MaxTime

-----------------------------------------------------------------------------
(* Deaths and wakes.                                                       *)

IdleUntil(f, l) == f[l].reach + IdleGrace

\* _idle: running coordinators still waited for, and the others.
Waited_Holders(f) == {l \in Coordinators(f, "active") : now < f[l].until}
Waited(f) == {l \in Coordinators(f, "active") : now < IdleUntil(f, l)}
Stale(f)  == {l \in Coordinators(f, "active") : now >= IdleUntil(f, l)}

\* launch_death, True or None: the launch ended without working.
Dead_Started(f, l) ==
  \/ /\ f[l].state \in {"failed", "expired"}
     /\ f[l].cause \notin {"lease lost before active", "spawn refused"}
  \/ f[l].state = "ended" /\ f[l].cause = "0 turns"
Dead(f, l) ==
  \/ /\ f[l].state \in {"failed", "expired"}
     /\ f[l].cause \notin {"lease lost before active", "spawn refused"}
  \/ f[l].state = "ended" /\ f[l].cause = "0 turns"
  \/ f[l].state = "ended" /\ f[l].cause = "lost the lease" /\ f[l].wroteAt = 0

\* None: it ended before any process claimed its spawn, and counts neither way.
Untried(f, l) == f[l].state \in {"failed", "expired"} /\ ~f[l].spawned

\* death_run: the coordinators that died in a row, since you last looked.
DeathRun(f, r) ==
  LET mine == {l \in Launch : /\ f[l].state # "none"
                              /\ f[l].role = "coordinator"
                              /\ l > looked}
  IN  {l \in mine : /\ Dead(f, l)
                    /\ ~Untried(f, l)
                    /\ \A k \in mine : <<k, l>> \in r => Dead(f, k)}

\* The time of a death: never when it was noticed.
DiedAt(f, l) == IF f[l].state = "expired" THEN f[l].until
                ELSE IF f[l].cause = "lost the lease" THEN IdleUntil(f, l)
                ELSE f[l].at

\* _deaths and the tail of wake_state: stopped, or in backoff.
Stopped(f, r) == Cardinality(DeathRun(f, r)) >= MaxDeaths
InBackoff(f, r) ==
  \E l \in DeathRun(f, r) :
    /\ \A k \in DeathRun(f, r) \ {l} : <<l, k>> \in r
    /\ now < DiedAt(f, l) + Backoff[Cardinality(DeathRun(f, r))]

\* wake_state is `wake'.
Wakes(f, r, z) ==
  /\ ~ /\ Live(z)
       /\ z.holder # Operator => f[z.holder].state \in {"pending", "active"}
  /\ Waited(f) = {}
  /\ \A l \in Coordinators(f, "pending") : now >= f[l].until
  /\ setting = "claude"
  /\ ~Stopped(f, r)
  /\ ~InBackoff(f, r)

\* wake(), from launches f, order r and lease z: lapse and expire, end the
\* coordinators waited for too long, then ask for a fresh one.
WakeFrom(f, r, z) ==
  LET z1 == Lapsed(z)
      f1 == Expired(f)
      r1 == Moved(r, Due(f))
      f2 == IF z1.standing THEN f1
              ELSE Ended(f1, Stale(f1), "ended", "lost the lease")
      r2 == IF z1.standing THEN r1 ELSE Moved(r1, Stale(f1))
  IN  IF Wakes(f2, r2, z1) /\ MayAsk /\ z1.token < MaxToken
        THEN /\ lease' = Claimed(z1, asked + 1, now + LaunchTTL)
             /\ launch' = Asked(f2, "coordinator", z1.token + 1, now + LaunchTTL)
             /\ after' = Moved(r2, {asked + 1})
             /\ asked' = asked + 1
        ELSE /\ lease' = z1
             /\ launch' = f2
             /\ after' = r2
             /\ UNCHANGED asked

-----------------------------------------------------------------------------
(* The clock, you, and the drops.                                          *)

Processes == UNCHANGED <<known, served, session, starter>>

Tick == /\ now < MaxTime
        /\ now' = now + 1
        /\ UNCHANGED <<back, store>>
        /\ Processes

StepBack == /\ back < MaxBack
            /\ \E t \in 1..(now - 1) : now' = t
            /\ back' = back + 1
            /\ UNCHANGED store
            /\ Processes

\* coord_set_agent
SetAgent(a) == /\ setting' = a
               /\ UNCHANGED <<clock, lease, launch, after, asked, looked>>
               /\ Processes

\* A drop's own transaction, or coord_wake.
Wake == /\ WakeFrom(launch, after, lease)
        /\ UNCHANGED <<clock, setting, looked>>
        /\ Processes

\* coord_status: lapse and expire.  The watcher's every pass does it.
Status == /\ lease' = Lapsed(lease)
          /\ launch' = Expired(launch)
          /\ after' = Moved(after, Due(launch))
          /\ UNCHANGED <<clock, setting, asked, looked>>
          /\ Processes

\* _end_coordinators: what your take and your release end beside the pending
\* launches.
Working_Holder(f) == {l \in Coordinators(f, "active") : Live(lease) /\ l = lease.holder}
Working(f) == Coordinators(f, "active")

\* _void_pending and _end_coordinators, from launches f and order r.
Look(f, r, cause) ==
  LET f1 == Ended(f, InState(f, "pending"), "failed", cause)
  IN  /\ launch' = Ended(f1, Working(f), "ended", cause)
      /\ after' = Moved(Moved(r, InState(f, "pending")), Working(f))
      /\ looked' = asked
      /\ UNCHANGED <<clock, setting, asked>>

\* take()
Take(hold) ==
  /\ "take" \in Verbs
  /\ lease.token < MaxToken
  /\ Look(launch, after, "takeover")
  /\ lease' = Claimed(lease, Operator, now + hold)
  /\ known' = [known EXCEPT ![Operator] = lease.token + 1]
  /\ UNCHANGED <<served, session, starter>>

\* release(by operator)
OperatorRelease ==
  /\ "release" \in Verbs
  /\ Look(LapsedLaunches(launch, lease), LapsedOrder(after, launch, lease),
          "operator release")
  /\ lease' = Freed(lease)
  /\ Processes

-----------------------------------------------------------------------------
(* The holder of the lease.  A session acts while it runs, with the token  *)
(* it was told; you act with yours.                                        *)

Acts(h) == h # Operator => session[h] = "running"

\* claim(): a beat when it already holds the lease; a holder that is not
\* running holds nothing.
Claim(l) ==
  /\ session[l] = "running"
  /\ launch[l].role = "coordinator"
  /\ launch[l].state = "active"
  /\ LET z == Lapsed(lease)
         f == LapsedLaunches(launch, lease)
         beats == z.standing /\ z.holder = l
     IN  /\ \/ beats
            \/ ~z.standing
            \/ z.holder # Operator /\ f[z.holder].state # "active"
         /\ ~beats => z.token < MaxToken
         /\ lease' = IF beats THEN Beaten(z) ELSE Claimed(z, l, now + LeaseTTL)
         /\ launch' = Wrote(f, l, now + LeaseTTL)
         /\ known' = [known EXCEPT ![l] = lease'.token]
         /\ served' = lease'.token
  /\ after' = LapsedOrder(after, launch, lease)
  /\ UNCHANGED <<clock, setting, asked, looked, session, starter>>

\* A fenced step of holder h.
UnderToken(h) ==
  /\ Acts(h)
  /\ Fenced(known[h])
  /\ served' = known[h]
  /\ UNCHANGED <<clock, setting, looked, known, session, starter>>

\* beat()
Beat(h) == /\ UnderToken(h)
           /\ lease' = Beaten(lease)
           /\ launch' = Wrote(launch, lease.holder, now + LeaseTTL)
           /\ UNCHANGED <<after, asked>>

\* Any write of the store by the coordinator: fence() and record_write().
Write(h) == /\ UnderToken(h)
            /\ launch' = Wrote(launch, lease.holder, 0)
            /\ UNCHANGED <<lease, after, asked>>

\* release() by its holder: its launch keeps running.
HolderRelease(h) == /\ UnderToken(h)
                    /\ lease' = Freed(lease)
                    /\ launch' = Wrote(launch, lease.holder, 0)
                    /\ UNCHANGED <<after, asked>>

\* The live spawned workers, against their cap.
SpawnsLive(f) == {l \in InState(f, "pending") \cup InState(f, "active") :
                    f[l].role = "worker"}

\* request_launch(): a worker, after _spawn_caps; a coordinator is a rotation.
RequestLaunch(h, role) ==
  /\ UnderToken(h)
  /\ MayAsk
  /\ LET due == IF role = "worker" THEN Due(launch) ELSE {}
         f   == Ended(launch, due, "expired", "pending past until")
     IN  /\ role = "worker" => Cardinality(SpawnsLive(f)) < MaxSpawnsLive
         /\ launch' = Asked(f, role, known[h], 0)
         /\ after' = Moved(Moved(after, due), {asked + 1})
  /\ asked' = asked + 1
  /\ UNCHANGED lease

-----------------------------------------------------------------------------
(* The starter: _launch_session().                                         *)

Pc(p, pc, l) == starter' = [starter EXCEPT ![p] = [pc |-> pc, launch |-> l]]
Done(p)      == starter' = [starter EXCEPT ![p] = [pc |-> "idle"]]

\* The checks before the spawn claim: the launch is pending, and no session of
\* a launch that is over is still listed (_handover_blocked).
Consider(p, l) ==
  /\ starter[p].pc = "idle"
  /\ launch[l].state = "pending"
  /\ \A k \in Launch : launch[k].state \in Over => session[k] # "running"
  /\ Pc(p, "checked", l)
  /\ UNCHANGED <<clock, store, known, served, session>>

\* refuse_unstarted_worker(): it can never start as asked.
RefuseWorker(l) ==
  /\ launch[l].state = "pending"
  /\ launch[l].role = "worker"
  /\ ~launch[l].spawned
  /\ launch' = Ended(launch, {l}, "failed", "spawn refused")
  /\ after' = Moved(after, {l})
  /\ UNCHANGED <<clock, setting, lease, asked, looked>>
  /\ Processes

\* Nobody claimed the spawn of l before.
Unclaimed_ByMe(l) == launch[l].state = "pending"
Unclaimed(l) == launch[l].state = "pending" /\ ~launch[l].spawned

\* The common part of claim_spawn() and activate() on a pending launch l: it
\* expires, it lost its lease, it is a worker refused (a crossed budget, a
\* thread that is over), or it goes on, with its row as `went'.
Proceeds(p, l, went, z, pc, refusedPc) ==
  LET f == LapsedLaunches(launch, lease)
      r == LapsedOrder(after, launch, lease)
  IN  \/ /\ now >= launch[l].until
         /\ launch' = Ended(launch, {l}, "expired", "pending past until")
         /\ after' = Moved(after, {l})
         /\ UNCHANGED lease
         /\ refusedPc
      \/ /\ now < launch[l].until
         /\ ~(Live(lease) /\ lease.token = launch[l].token)
         /\ launch' = Ended(f, {l}, "failed", "lease lost before active")
         /\ after' = Moved(r, {l})
         /\ lease' = Lapsed(lease)
         /\ refusedPc
      \/ /\ now < launch[l].until
         /\ Live(lease) /\ lease.token = launch[l].token
         /\ \/ /\ launch[l].role = "worker"
               /\ launch' = Ended(launch, {l}, "failed", "spawn refused")
               /\ after' = Moved(after, {l})
               /\ UNCHANGED lease
               /\ refusedPc
            \/ /\ launch' = [launch EXCEPT ![l] = went]
               /\ after' = IF went.state = "active" THEN Moved(after, {l}) ELSE after
               /\ lease' = z
               /\ pc

\* launch_claim_spawn(): the compare-and-set.
ClaimSpawn(p) ==
  /\ starter[p].pc = "checked"
  /\ LET l == starter[p].launch
     IN  IF Unclaimed(l)
           THEN Proceeds(p, l, [launch[l] EXCEPT !.spawned = TRUE], lease,
                         Pc(p, "claimed", l), Done(p))
           ELSE Done(p) /\ UNCHANGED <<lease, launch, after>>
  /\ UNCHANGED <<clock, setting, asked, looked, known, served, session>>

\* `claude --bg' returned, or did not in time: its session is listed, or may be
\* listed later, or there is none.
Spawn(p) ==
  /\ starter[p].pc = "claimed"
  /\ \E s \in {"none", "late", "running"} :
       session' = [session EXCEPT ![starter[p].launch] = s]
  /\ Pc(p, "spawned", starter[p].launch)
  /\ UNCHANGED <<clock, store, known, served>>

\* launch_activate(), with the session read back (it may be gone since).
Activate(p) ==
  /\ starter[p].pc = "spawned"
  /\ LET l == starter[p].launch
         holds == launch[l].role = "coordinator" /\ lease.holder = l
         until == IF holds THEN now + LeaseTTL ELSE 0
     IN  /\ session[l] \in {"running", "gone"}
         /\ IF launch[l].state = "pending"
              THEN Proceeds(p, l,
                     [launch[l] EXCEPT !.state = "active", !.at = now,
                                       !.reach = Later(@, Later(now, until))],
                     IF holds THEN Beaten(lease) ELSE lease,
                     Done(p), Pc(p, "stopping", l))
              ELSE Pc(p, "stopping", l) /\ UNCHANGED <<lease, launch, after>>
  /\ UNCHANGED <<clock, setting, asked, looked, known, served, session>>

\* Stopped by its name, when it is listed and the stop works.
StopNamed(l) == \/ UNCHANGED session
                \/ /\ session[l] = "running"
                   /\ session' = [session EXCEPT ![l] = "gone"]

\* The session was not read back as it should be: stop_ours(), before fail().
GiveUp(p) ==
  /\ starter[p].pc = "spawned"
  /\ StopNamed(starter[p].launch)
  /\ Pc(p, "failing", starter[p].launch)
  /\ UNCHANGED <<clock, store, known, served>>

Fail_Blind(p) ==
  /\ starter[p].pc \in {"claimed", "failing"}
  /\ LET l == starter[p].launch
     IN  /\ launch' = Ended(launch, {l}, "failed", "start failed")
         /\ after' = Moved(after, {l})
         /\ lease' = FreedBy(lease, l)
  /\ Done(p)
  /\ UNCHANGED <<clock, setting, asked, looked, known, served, session>>

\* fail(): launch_end() as failed, when the launch is still pending.
Fail(p) ==
  /\ starter[p].pc \in {"claimed", "failing"}
  /\ LET l == starter[p].launch
     IN  IF launch[l].state = "pending"
           THEN /\ launch' = Ended(launch, {l}, "failed", "start failed")
                /\ after' = Moved(after, {l})
                /\ lease' = FreedBy(lease, l)
           ELSE UNCHANGED <<launch, after, lease>>
  /\ Done(p)
  /\ UNCHANGED <<clock, setting, asked, looked, known, served, session>>

\* stop_ours(), after a refused activation.
StopOurs(p) ==
  /\ starter[p].pc = "stopping"
  /\ StopNamed(starter[p].launch)
  /\ Done(p)
  /\ UNCHANGED <<clock, store, known, served>>

\* The starter is killed between two of its steps.
Killed(p) ==
  /\ starter[p].pc # "idle"
  /\ Done(p)
  /\ UNCHANGED <<clock, store, known, served, session>>

-----------------------------------------------------------------------------
(* Sessions, and the watcher: _watch_pass().                               *)

Listing(l, s) == /\ session' = [session EXCEPT ![l] = s]
                 /\ UNCHANGED <<clock, store, known, served, starter>>

\* A session is listed at last; a session ends by itself.
Appears(l)  == session[l] = "late" /\ Listing(l, "running")
Vanishes(l) == session[l] \in {"late", "running"} /\ Listing(l, "gone")

\* (d): a listed session of a launch that is over is stopped.
StopOver(l) == /\ launch[l].state \in Over
               /\ session[l] = "running"
               /\ Listing(l, "gone")

\* _wrote_since(SERVICE_BEAT_WINDOW)
WroteLately_Active(l) == TRUE
WroteLately(l) == launch[l].wroteAt # 0 /\ launch[l].wroteAt >= now - Window

\* (c): service_beat(), for a holder the watcher saw listed and not done.
ServiceBeat ==
  /\ lease.holder # Operator
  /\ Fenced(lease.token)
  /\ WroteLately(lease.holder)
  /\ lease' = Beaten(lease)
  /\ launch' = [launch EXCEPT ![lease.holder] = Reached(@, now + LeaseTTL)]
  /\ UNCHANGED <<clock, setting, after, asked, looked>>
  /\ Processes

\* (b): end_unlisted(), when two listings lack the session.
EndUnlisted(l) ==
  /\ launch[l].state = "active"
  /\ session[l] = "gone"
  /\ launch' = Ended(launch, {l}, "ended",
                     IF launch[l].role = "coordinator" /\ launch[l].wroteAt = 0
                       THEN "0 turns" ELSE "gone")
  /\ after' = Moved(after, {l})
  /\ lease' = FreedBy(lease, l)
  /\ UNCHANGED <<clock, setting, asked, looked>>
  /\ Processes

\* (b2) and `levain coord wake': replace_done() and wake() in one transaction,
\* for a coordinator listed done.
ReplaceDone(l) ==
  /\ launch[l].role = "coordinator"
  /\ launch[l].state = "active"
  /\ WakeFrom(Ended(launch, {l}, "ended", "replaced while done"),
              Moved(after, {l}), FreedBy(lease, l))
  /\ UNCHANGED <<clock, setting, looked>>
  /\ Processes

\* (b3): end_done_worker(), for a worker listed done.
EndDoneWorker(l) ==
  /\ launch[l].role = "worker"
  /\ launch[l].state = "active"
  /\ launch' = Ended(launch, {l}, "ended", "worker done")
  /\ after' = Moved(after, {l})
  /\ UNCHANGED <<clock, setting, lease, asked, looked>>
  /\ Processes

-----------------------------------------------------------------------------

You == \/ \E a \in Agents \ {setting} : SetAgent(a)
       \/ \E hold \in Holds : Take(hold)
       \/ OperatorRelease

HolderStep == \/ \E l \in Launch : Claim(l)
              \/ \E h \in Holder : Beat(h) \/ Write(h) \/ HolderRelease(h)
              \/ \E h \in Holder, role \in Asks : RequestLaunch(h, role)

StarterStep(p) == \/ \E l \in Launch : Consider(p, l)
                  \/ ClaimSpawn(p) \/ Spawn(p) \/ Activate(p)
                  \/ GiveUp(p) \/ Fail(p) \/ StopOurs(p) \/ Killed(p)

Watcher == \/ Status
           \/ ServiceBeat
           \/ \E l \in Launch : \/ StopOver(l) \/ EndUnlisted(l) \/ ReplaceDone(l)
                                \/ EndDoneWorker(l) \/ RefuseWorker(l)

Next == \/ Tick \/ StepBack
        \/ Wake
        \/ You
        \/ HolderStep
        \/ \E p \in Starter : StarterStep(p)
        \/ \E l \in Launch : Appears(l) \/ Vanishes(l)
        \/ Watcher

Spec == Init /\ [][Next]_vars

\* Time passes, and `levain coord watch' makes one pass after another: each
\* reads the status, and stops the sessions of launches that are over.
LiveSpec == /\ Spec
            /\ WF_vars(Tick)
            /\ WF_vars(Status)
            /\ \A l \in Launch : WF_vars(StopOver(l))

-----------------------------------------------------------------------------
(* Properties.                                                             *)

\* Two coordinator sessions never both count: once a write was accepted under
\* a token, none is accepted under an older one, whoever held it, however the
\* clock was set meanwhile.
TokensInOrder == [][served' >= served]_served

\* Your take or release is final: no launch asked for before it starts after
\* it, and no coordinator asked for before it is running as one, or holds the
\* lease again.
LookVoids ==
  /\ \A l \in 1..looked : /\ launch[l].state # "pending"
                          /\ launch[l].role = "coordinator" =>
                               launch[l].state # "active"
  /\ lease.standing => lease.holder \notin 1..looked

\* A launch moves pending -> active -> ended, or ends failed or expired; what
\* is over takes no further event, cause or write of its session, however late
\* its starter, the watcher or the session itself comes.
Edge == {<<"none", "pending">>, <<"pending", "active">>,
         <<"pending", "failed">>, <<"pending", "expired">>,
         <<"active", "ended">>}
LaunchEdges ==
  [][\A l \in Launch :
       /\ launch'[l].state # launch[l].state =>
            <<launch[l].state, launch'[l].state>> \in Edge
       /\ launch[l].state \in Over => launch'[l] = launch[l]]_launch

\* The spawn claim lets one process start a launch's session, once: however
\* many starters consider it, and whoever of them is killed.
Starting == {"claimed", "spawned", "failing", "stopping"}
OneStarter ==
  /\ \A p, q \in Starter :
       /\ starter[p].pc \in Starting /\ starter[q].pc \in Starting
       /\ starter[p].launch = starter[q].launch
       => p = q
  /\ \A p \in Starter :
       starter[p].pc = "claimed" => session[starter[p].launch] = "none"

\* No drop starts a second coordinator beside one that is starting or running
\* (when no holder asks for a rotation).
OneCoordinator ==
  \A k, l \in Launch :
    /\ launch[k].role = "coordinator" /\ launch[k].state \in {"pending", "active"}
    /\ launch[l].role = "coordinator" /\ launch[l].state \in {"pending", "active"}
    => k = l

\* A coordinator that fell silent does not hold the drops up for ever: its
\* lease, and then its grace, run out a bounded time after it last wrote (or
\* started, when it never did), whatever the watcher beats.
Silent(l) ==
  LET spoke == IF launch[l].wroteAt = 0 THEN launch[l].at
                 ELSE Later(launch[l].at, launch[l].wroteAt + Window)
  IN  Later(launch[l].until, spoke + LeaseTTL)
SilenceBounded ==
  \A l \in Coordinators(launch, "active") :
    l \in Waited(launch) \/ (Live(lease) /\ lease.holder = l)
      => now < Silent(l) + IdleGrace

\* A coordinator that cannot work is not started for ever: while none started
\* since you looked wrote anything (or was replaced, or lost its lease before
\* it started), at most MaxDeaths of them are started.
DeathsBounded ==
  LET tried == {l \in Launch : /\ l > looked
                               /\ launch[l].role = "coordinator"
                               /\ launch[l].spawned}
  IN  \/ Cardinality(tried) <= MaxDeaths
      \/ \E l \in tried : \/ launch[l].wroteAt # 0
                          \/ launch[l].cause \in {"replaced while done",
                                                  "lease lost before active"}

\* A session whose starter failed or was killed does not stay: its launch goes
\* over and the watcher stops it, unless it was activated.
StrayStopped ==
  \A l \in Launch :
    session[l] = "running" /\ launch[l].state # "active"
      ~> session[l] = "gone" \/ launch[l].state = "active"
=============================================================================
