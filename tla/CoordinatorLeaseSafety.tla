----------------------- MODULE CoordinatorLeaseSafety -----------------------
(***************************************************************************)
(* The safety theorems about CoordinatorLease.  What a step may do to one  *)
(* launch, to the lease, to a session and to a starter is said once each   *)
(* (LaunchMoves, LeaseMoves, SessionMoves, StarterMoves); the invariants   *)
(* follow from these four.                                                 *)
(***************************************************************************)
EXTENDS CoordinatorLeaseProofs, FiniteSetTheorems

-----------------------------------------------------------------------------
(* Launches.                                                               *)

\* How, and from which cause, a launch of row w goes over: from pending it
\* fails or expires, from active it ends.
Goes(w, kind, cause) ==
  /\ \/ w.state = "pending" /\ kind \in {"failed", "expired"}
     \/ w.state = "active" /\ kind = "ended"
  /\ \/ looked' = asked
     \/ w.role = "worker"
     \/ w.state = "pending" /\ cause \in {"pending past until", "start failed"}
     \/ /\ w.state = "pending"
        /\ now < w.until
        /\ ~(Live(lease) /\ lease.token = w.token)
     \/ w.state = "active" /\ cause \in {"lost the lease", "replaced while done"}
     \/ w.state = "active" /\ cause = IF w.wroteAt = 0 THEN "0 turns" ELSE "gone"

\* l's row in g is the one in f, or l went over.
Aged(f, g, l) ==
  \/ g[l] = f[l]
  \/ /\ g[l].role = f[l].role
     /\ g[l].spawned = f[l].spawned
     /\ g[l].wroteAt = f[l].wroteAt
     /\ g[l].reach = f[l].reach
     /\ Goes(f[l], g[l].state, g[l].cause)

LEMMA AgedTwice ==
  ASSUME NEW f, NEW g, NEW h, NEW l, Aged(f, g, l), Aged(g, h, l)
  PROVE  Aged(f, h, l)
  BY DEF Aged, Goes

LEMMA EndedRow ==
  ASSUME NEW f \in Rows, NEW S, NEW kind, NEW cause, NEW l \in Launch
  PROVE  /\ l \notin S => Ended(f, S, kind, cause)[l] = f[l]
         /\ l \in S => /\ Ended(f, S, kind, cause)[l].state = kind
                       /\ Ended(f, S, kind, cause)[l].role = f[l].role
                       /\ Ended(f, S, kind, cause)[l].spawned = f[l].spawned
                       /\ Ended(f, S, kind, cause)[l].wroteAt = f[l].wroteAt
                       /\ Ended(f, S, kind, cause)[l].reach = f[l].reach
                       /\ Ended(f, S, kind, cause)[l].cause = cause
<1>1. f[l] \in LaunchRow
  BY DEF Rows
<1>2. Ended(f, S, kind, cause)[l] =
        IF l \in S THEN [f[l] EXCEPT !.state = kind, !.cause = cause, !.at = now]
                   ELSE f[l]
  BY DEF Ended
<1> QED
  BY <1>1, <1>2 DEF LaunchRow

LEMMA EndedAges ==
  ASSUME NEW f \in Rows, NEW S, NEW kind, NEW cause, NEW l \in Launch,
         l \in S => Goes(f[l], kind, cause)
  PROVE  Aged(f, Ended(f, S, kind, cause), l)
  BY EndedRow DEF Aged

LEMMA ExpiredAges ==
  ASSUME NEW f \in Rows, NEW l \in Launch
  PROVE  /\ Aged(f, Expired(f), l)
         /\ \A z : Aged(f, LapsedLaunches(f, z), l)
<1>1. Aged(f, f, l)
  BY DEF Aged
<1>2. Aged(f, Expired(f), l)
  BY EndedAges DEF Expired, Due, InState, Goes
<1> QED
  BY <1>1, <1>2 DEF LapsedLaunches

LEMMA NotDue ==
  ASSUME NEW f \in Rows, NEW z, NEW l \in Launch, l \notin Due(f)
  PROVE  LapsedLaunches(f, z)[l] = f[l]
<1>1. Expired(f)[l] = f[l]
  BY DEF Expired, Ended
<1> QED
  BY <1>1 DEF LapsedLaunches

\* How far a launch of row w reaches while it runs: Silent, of a row.
SilentOf(w) ==
  LET spoke == IF w.wroteAt = 0 THEN w.at ELSE Later(w.at, w.wroteAt + Window)
  IN  Later(w.until, spoke + LeaseTTL)

Reaches(w) ==
  /\ w.state = "pending" => w.reach <= w.until
  /\ w.state = "active" => w.reach <= SilentOf(w)

\* A row that its holder, or the watcher, wrote keeps its state, and the fact
\* that its holder wrote; it reaches no nearer, and not too far.
SameState(f, g, l) ==
  /\ g[l].role = f[l].role
  /\ g[l].spawned = f[l].spawned
  /\ g[l].state = f[l].state
  /\ f[l].wroteAt # 0 => g[l].wroteAt # 0
  /\ g[l].reach >= f[l].reach
  /\ Reaches(f[l]) => Reaches(g[l])

\* A row v that differs from w in its wroteAt and reach.
Written(w, v) ==
  /\ v.state = w.state
  /\ v.role = w.role
  /\ v.spawned = w.spawned
  /\ v.until = w.until
  /\ v.at = w.at

LEMMA ReachedRow ==
  ASSUME NEW w \in LaunchRow, NEW until
  PROVE  /\ Written(w, Reached(w, until))
         /\ Reached(w, until).wroteAt = w.wroteAt
         /\ Reached(w, until).reach = Later(w.reach, until)
         /\ Written(w, Spoke(w, until))
         /\ Spoke(w, until).wroteAt = Later(w.wroteAt, now)
         /\ Spoke(w, until).reach = Later(w.reach, until)
  BY DEF Reached, Spoke, LaunchRow, Written

\* A row whose holder wrote within the window reaches as far as a beat now.
LEMMA WrittenReaches ==
  ASSUME TypeOK, NEW w \in LaunchRow, NEW v \in LaunchRow, Written(w, v),
         w.state = "active",
         NEW until \in {0, now + LeaseTTL},
         v.reach = Later(w.reach, until),
         v.wroteAt >= w.wroteAt,
         v.wroteAt # 0,
         v.wroteAt >= now - Window
  PROVE  Reaches(w) => Reaches(v)
<1> DEFINE sw == IF w.wroteAt = 0 THEN w.at ELSE Later(w.at, w.wroteAt + Window)
           sv == Later(v.at, v.wroteAt + Window)
<1>1. /\ now \in Nat /\ LeaseTTL \in Nat /\ Window \in Nat
      /\ w.reach \in Nat /\ w.wroteAt \in Nat /\ w.at \in Nat /\ w.until \in Nat
      /\ v.wroteAt \in Nat /\ v.at = w.at /\ v.until = w.until
      /\ v.state = w.state
  BY NowType, ConstantsType DEF LaunchRow, Written
<1>2. sv \in Nat /\ sw \in Nat /\ sv >= sw /\ sv >= v.wroteAt + Window
  BY <1>1 DEF Later
<1>3. /\ SilentOf(w) = Later(w.until, sw + LeaseTTL)
      /\ SilentOf(v) = Later(v.until, sv + LeaseTTL)
  BY DEF SilentOf
<1> HIDE DEF sw, sv
<1>4. /\ SilentOf(w) <= SilentOf(v)
      /\ until <= SilentOf(v)
      /\ SilentOf(w) \in Nat
      /\ SilentOf(v) \in Nat
  BY <1>1, <1>2, <1>3 DEF Later
<1>5. v.reach = w.reach \/ v.reach = until
  BY DEF Later
<1>6. w.reach <= SilentOf(w) => v.reach <= SilentOf(v)
  BY <1>1, <1>4, <1>5
<1> QED
  BY <1>1, <1>6 DEF Reaches

\* A launch just activated, now or by its claim of the lease.
LEMMA ActiveReaches ==
  ASSUME TypeOK, NEW w \in LaunchRow, NEW v, w.state = "pending",
         NEW until \in {0, now + LeaseTTL},
         v.state = "active", v.at = now, v.until = w.until, v.wroteAt = w.wroteAt,
         v.reach = Later(w.reach, Later(now, until))
  PROVE  /\ v.reach >= w.reach
         /\ Reaches(w) => Reaches(v)
<1> DEFINE sv == IF v.wroteAt = 0 THEN v.at ELSE Later(v.at, v.wroteAt + Window)
           last == Later(now, until)
<1>1. /\ now \in Nat /\ LeaseTTL \in Nat /\ Window \in Nat
      /\ w.reach \in Nat /\ w.wroteAt \in Nat /\ w.until \in Nat
  BY NowType, ConstantsType DEF LaunchRow
<1>2. /\ sv \in Nat /\ sv >= now
      /\ last \in Nat /\ last <= now + LeaseTTL
  BY <1>1 DEF Later
<1>3. SilentOf(v) = Later(v.until, sv + LeaseTTL)
  BY DEF SilentOf
<1>4. v.reach = Later(w.reach, last)
  OBVIOUS
<1> HIDE DEF sv, last
<1>5. v.reach >= w.reach
  BY <1>1, <1>2, <1>4 DEF Later
<1>6. /\ SilentOf(v) \in Nat
      /\ w.until <= SilentOf(v)
      /\ last <= SilentOf(v)
  BY <1>1, <1>2, <1>3 DEF Later
<1>7. w.reach <= w.until => v.reach <= SilentOf(v)
  BY <1>1, <1>2, <1>4, <1>6 DEF Later
<1> QED
  BY <1>5, <1>7 DEF Reaches

LEMMA WroteRow ==
  ASSUME TypeOK, NEW f \in Rows, NEW h \in Holder, NEW until \in {0, now + LeaseTTL},
         NEW l \in Launch, l = h => f[l].state = "active"
  PROVE  /\ l # h => Wrote(f, h, until)[l] = f[l]
         /\ SameState(f, Wrote(f, h, until), l)
         /\ l = h => Wrote(f, h, until)[l].reach >= until
<1>1. f[l] \in LaunchRow
  BY DEF Rows
<1>2. \/ Wrote(f, h, until)[l] = f[l] /\ l # h
      \/ l = h /\ Wrote(f, h, until)[l] = Spoke(f[l], until)
  BY ConstantsType DEF Wrote, Rows, Operator, Launch
<1>3. CASE Wrote(f, h, until)[l] = f[l] /\ l # h
  <2>1. f[l].reach \in Nat
    BY <1>1 DEF LaunchRow
  <2> QED
    BY <1>3, <2>1 DEF SameState
<1>4. CASE l = h /\ Wrote(f, h, until)[l] = Spoke(f[l], until)
  <2> DEFINE w == f[l]
             v == Spoke(f[l], until)
  <2>1. until \in Nat /\ now \in Nat /\ now # 0 /\ Window \in Nat
    BY TableType, ConstantsType, NowType DEF TypeOK, Time
  <2>2. v \in LaunchRow /\ w \in LaunchRow
    BY <1>1, <2>1, SpokeType
  <2>3. /\ Written(w, v)
        /\ v.wroteAt = Later(w.wroteAt, now)
        /\ v.reach = Later(w.reach, until)
    BY <1>1, ReachedRow
  <2> HIDE DEF w, v
  <2>4. /\ v.wroteAt >= w.wroteAt
        /\ v.wroteAt # 0
        /\ v.wroteAt >= now - Window
        /\ v.reach >= w.reach
        /\ v.reach >= until
    BY <2>1, <2>2, <2>3 DEF Later, LaunchRow
  <2>6. w.state = "active"
    BY <1>4 DEF w
  <2>5. Reaches(w) => Reaches(v)
    BY <2>6, <2>2, <2>3, <2>4, WrittenReaches
  <2> QED
    BY <1>4, <2>3, <2>4, <2>5 DEF SameState, Written, w, v
<1> QED
  BY <1>2, <1>3, <1>4

LEMMA AskedRow ==
  ASSUME NEW f \in Rows, NEW role, NEW token, NEW reach, NEW l \in Launch,
         l = asked + 1
  PROVE  /\ Asked(f, role, token, reach)[l].state = "pending"
         /\ Asked(f, role, token, reach)[l].spawned = FALSE
  BY DEF Asked, Rows, NotAsked

LEMMA AskedFields ==
  ASSUME NEW f \in Rows, NEW role, NEW token, NEW reach, NEW l \in Launch,
         l = asked + 1
  PROVE  /\ Asked(f, role, token, reach)[l].role = role
         /\ Asked(f, role, token, reach)[l].wroteAt = 0
         /\ Asked(f, role, token, reach)[l].until = now + LaunchTTL
         /\ Asked(f, role, token, reach)[l].reach = reach
         /\ Asked(f, role, token, reach)[l].token = token
  BY DEF Asked, Rows, NotAsked

LEMMA AskedOther ==
  ASSUME NEW f \in Rows, NEW role, NEW token, NEW reach, NEW l \in Launch,
         l # asked + 1
  PROVE  Asked(f, role, token, reach)[l] = f[l]
  BY DEF Asked, Rows

\* The ways a step may change the row of launch l.
LaunchMoves(l) ==
  \/ Aged(launch, launch', l)
  \/ /\ l = asked + 1
     /\ asked' = asked + 1
     /\ launch'[l].state = "pending"
     /\ ~launch'[l].spawned
     /\ launch'[l].wroteAt = 0
     /\ launch'[l].reach <= launch'[l].until
  \/ /\ launch[l].state = "active"
     /\ SameState(launch, launch', l)
  \/ /\ launch[l].state = "pending"
     /\ launch'[l].state = "active"
     /\ launch'[l].role = launch[l].role
     /\ launch'[l].spawned = launch[l].spawned
     /\ launch'[l].wroteAt = launch[l].wroteAt
     /\ launch'[l].reach >= launch[l].reach
     /\ Reaches(launch[l]) => Reaches(launch'[l])
     /\ \E p \in Starter : starter[p].pc = "spawned" /\ starter[p].launch = l
  \/ /\ launch[l].state = "pending"
     /\ launch'[l].state = "pending"
     /\ launch'[l].role = launch[l].role
     /\ launch'[l].token = launch[l].token
     /\ launch'[l].until = launch[l].until
     /\ launch'[l].reach = launch[l].reach
     /\ launch'[l].wroteAt = launch[l].wroteAt
     /\ launch'[l].spawned

LEMMA WakeMoves ==
  ASSUME TypeOK, NEW f \in Rows, NEW r, NEW z, WakeFrom(f, r, z),
         NEW l \in Launch, Aged(launch, f, l)
  PROVE  LaunchMoves(l)
<1> DEFINE z1 == Lapsed(z)
           f1 == Expired(f)
           r1 == Moved(r, Due(f))
           f2 == IF z1.standing THEN f1
                   ELSE Ended(f1, Stale(f1), "ended", "lost the lease")
           r2 == IF z1.standing THEN r1 ELSE Moved(r1, Stale(f1))
<1>1. f1 \in Rows /\ f2 \in Rows
  <2>1. "ended" \in Over /\ "lost the lease" \in Cause
    BY DEF Over, Cause
  <2> QED
    BY <2>1, ExpiredType, EndedType
<1>2. Aged(f, f1, l)
  BY ExpiredAges
<1>3. Aged(f1, f2, l)
  <2>1. Aged(f1, f1, l)
    BY DEF Aged
  <2>2. l \in Stale(f1) => Goes(f1[l], "ended", "lost the lease")
    BY DEF Stale, Coordinators, InState, Goes
  <2> HIDE DEF f1
  <2>3. Aged(f1, Ended(f1, Stale(f1), "ended", "lost the lease"), l)
    BY <1>1, <2>2, EndedAges
  <2> QED
    BY <2>1, <2>3
<1>4. Aged(launch, f2, l)
  BY <1>2, <1>3, AgedTwice
<1>5. \/ /\ launch' = Asked(f2, "coordinator", z1.token + 1, now + LaunchTTL)
         /\ asked' = asked + 1
      \/ launch' = f2
  BY DEF WakeFrom
<1> HIDE DEF z1, f1, r1, f2, r2
<1>6. CASE launch' = f2
  BY <1>4, <1>6 DEF LaunchMoves
<1>7. CASE /\ launch' = Asked(f2, "coordinator", z1.token + 1, now + LaunchTTL)
           /\ asked' = asked + 1
  <2>1. l # asked + 1 => launch'[l] = f2[l]
    BY <1>1, <1>7, AskedOther
  <2>2. ASSUME l = asked + 1
        PROVE  /\ launch'[l].state = "pending"
               /\ ~launch'[l].spawned
               /\ launch'[l].wroteAt = 0
               /\ launch'[l].reach = launch'[l].until
               /\ launch'[l].until = now + LaunchTTL
    <3>1. launch'[l].state = "pending" /\ ~launch'[l].spawned
      BY <1>1, <1>7, <2>2, AskedRow
    <3>2. launch'[l].wroteAt = 0
      BY <1>1, <1>7, <2>2, AskedFields
    <3>3. launch'[l].until = now + LaunchTTL
      BY <1>1, <1>7, <2>2, AskedFields
    <3>4. launch'[l].reach = now + LaunchTTL
      BY <1>1, <1>7, <2>2, AskedFields
    <3> QED
      BY <3>1, <3>2, <3>3, <3>4
  <2>4. now + LaunchTTL \in Nat
    BY TableType
  <2> QED
    BY <1>4, <1>7, <2>1, <2>2, <2>4 DEF LaunchMoves, Aged
<1> QED
  BY <1>5, <1>6, <1>7

\* A look leaves no launch pending and no coordinator active.
LEMMA LookMoves ==
  ASSUME TypeOK, NEW f \in Rows, NEW r, NEW cause \in Cause, Look(f, r, cause),
         NEW l \in Launch, Aged(launch, f, l)
  PROVE  /\ Aged(launch, launch', l)
         /\ launch'[l].state # "pending"
         /\ launch'[l].role = "coordinator" => launch'[l].state # "active"
<1> DEFINE f1 == Ended(f, InState(f, "pending"), "failed", cause)
<1>1. f1 \in Rows
  BY EndedType DEF Over
<1>0. looked' = asked
  BY DEF Look
<1>2. Aged(f, f1, l)
  BY <1>0, EndedAges DEF InState, Goes
<1>3. launch' = Ended(f1, Working(f), "ended", cause)
  BY DEF Look
<1>4. /\ f[l].state = "pending" => f1[l].state = "failed"
      /\ f[l].state # "pending" => f1[l] = f[l]
  BY EndedRow DEF InState
<1>5. l \in Working(f) <=> f[l].role = "coordinator" /\ f[l].state = "active"
  BY DEF Working, Coordinators, InState
<1> HIDE DEF f1
<1>6. /\ l \in Working(f) => launch'[l].state = "ended"
      /\ l \notin Working(f) => launch'[l] = f1[l]
  BY <1>1, <1>3, EndedRow
<1>7. Aged(f1, launch', l)
  BY <1>0, <1>1, <1>3, <1>4, <1>5, EndedAges DEF Goes
<1>8. Aged(launch, launch', l)
  BY <1>2, <1>7, AgedTwice
<1> QED
  BY <1>4, <1>5, <1>6, <1>8

\* A spawn claim or an activation of a pending launch l changes, besides what
\* goes over, l only.
LEMMA ProceededMoves ==
  ASSUME TypeOK, NEW l \in Launch, launch[l].state = "pending", NEW went, NEW z,
         Proceeded(l, went, z), NEW k \in Launch
  PROVE  Aged(launch, launch', k) \/ (k = l /\ launch'[k] = went)
<1>1. launch \in Rows
  BY TableType
<1>2. ASSUME NEW kind, NEW cause, Goes(launch[l], kind, cause),
             launch' = Ended(launch, {l}, kind, cause)
      PROVE  Aged(launch, launch', k)
  BY <1>1, <1>2, EndedAges
<1>3. CASE /\ now < launch[l].until
           /\ ~(Live(lease) /\ lease.token = launch[l].token)
           /\ launch' = Ended(LapsedLaunches(launch, lease), {l}, "failed",
                              "lease lost before active")
  <2> DEFINE f == LapsedLaunches(launch, lease)
  <2>1. f \in Rows /\ Aged(launch, f, k)
    BY <1>1, LapsedType, ExpiredAges, TableType
  <2>2. f[l] = launch[l]
    <3>1. now \in Nat /\ launch[l].until \in Nat
      BY NowType, TableType DEF LaunchRow
    <3> DEFINE until == launch[l].until
    <3>2. now < until
      BY <1>3
    <3> HIDE DEF until
    <3>3. ~(now >= until)
      BY <3>1, <3>2 DEF until
    <3>4. l \notin Due(launch)
      BY <3>3 DEF Due, until
    <3> QED
      BY <1>1, <3>4, NotDue
  <2>3. Goes(f[l], "failed", "lease lost before active")
    BY <1>3, <2>2 DEF Goes
  <2>4. launch' = Ended(f, {l}, "failed", "lease lost before active")
    BY <1>3
  <2> HIDE DEF f
  <2>5. Aged(f, launch', k)
    BY <2>1, <2>3, <2>4, EndedAges
  <2> QED
    BY <2>1, <2>5, AgedTwice
<1>4. CASE launch' = [launch EXCEPT ![l] = went]
  BY <1>1, <1>4 DEF Rows, Aged
<1>5. /\ Goes(launch[l], "expired", "pending past until")
      /\ launch[l].role = "worker" => Goes(launch[l], "failed", "spawn refused")
  BY DEF Goes
<1> QED
  BY <1>2, <1>3, <1>4, <1>5 DEF Proceeded

LEMMA StepMovesLaunches ==
  ASSUME TypeOK, [Next]_vars, NEW l \in Launch
  PROVE  LaunchMoves(l)
<1>1. launch \in Rows /\ lease \in Lease /\ launch[l] \in LaunchRow
  BY TableType
<1>2. Aged(launch, launch, l)
  BY DEF Aged
<1>3. ASSUME UNCHANGED launch PROVE LaunchMoves(l)
  BY <1>2, <1>3 DEF LaunchMoves
<1>4. CASE Tick \/ StepBack \/ UNCHANGED vars
  BY <1>3, <1>4 DEF Tick, StepBack, store, vars
<1>5. CASE Wake
  BY <1>1, <1>2, <1>5, WakeMoves DEF Wake
<1>6. CASE You
  <2>1. ASSUME NEW a, SetAgent(a) PROVE LaunchMoves(l)
    BY <1>3, <2>1 DEF SetAgent
  <2>2. ASSUME NEW hold, Take(hold) PROVE LaunchMoves(l)
    <3>1. "takeover" \in Cause
      BY DEF Cause
    <3> QED
      BY <1>1, <1>2, <2>2, <3>1, LookMoves DEF Take, LaunchMoves
  <2>3. ASSUME OperatorRelease PROVE LaunchMoves(l)
    <3>1. "operator release" \in Cause
      BY DEF Cause
    <3>2. LapsedLaunches(launch, lease) \in Rows
      BY <1>1, LapsedType
    <3>3. Aged(launch, LapsedLaunches(launch, lease), l)
      BY <1>1, ExpiredAges
    <3> QED
      BY <2>3, <3>1, <3>2, <3>3, LookMoves DEF OperatorRelease, LaunchMoves
  <2> QED
    BY <1>6, <2>1, <2>2, <2>3 DEF You
<1>7. CASE HolderStep
  <2>1. ASSUME NEW k \in Launch, Claim(k) PROVE LaunchMoves(l)
    <3> DEFINE f == LapsedLaunches(launch, lease)
    <3>1. f \in Rows /\ Aged(launch, f, l)
      BY <1>1, LapsedType, ExpiredAges
    <3>2. launch[k].state = "active"
      BY <2>1 DEF Claim
    <3>3. launch' = Wrote(f, k, now + LeaseTTL)
      BY <2>1 DEF Claim
    <3>4. f[k] = launch[k]
      <4>1. k \notin Due(launch)
        BY <3>2 DEF Due, InState
      <4> QED
        BY <1>1, <4>1, NotDue
    <3>5. k \in Holder
      BY DEF Holder
    <3> HIDE DEF f
    <3>6. /\ l # k => launch'[l] = f[l]
          /\ SameState(f, launch', l)
      BY <3>1, <3>2, <3>3, <3>4, <3>5, WroteRow
    <3>7. CASE l = k
      BY <3>2, <3>4, <3>6, <3>7 DEF LaunchMoves, SameState
    <3>8. CASE l # k
      BY <3>1, <3>6, <3>8 DEF LaunchMoves, Aged
    <3> QED
      BY <3>7, <3>8
  <2>2. ASSUME NEW h \in Holder, NEW until, UnderToken(h),
               launch' = Wrote(launch, lease.holder, until),
               until \in {0, now + LeaseTTL}
        PROVE  LaunchMoves(l)
    <3>1. lease.holder \in Holder
      BY TableType
    <3>2. lease.holder # Operator => launch[lease.holder].state = "active"
      BY <2>2 DEF UnderToken, Fenced
    <3>4. l # Operator
      BY ConstantsType DEF Launch, Operator
    <3>3. /\ l # lease.holder => launch'[l] = launch[l]
          /\ SameState(launch, launch', l)
      BY <1>1, <2>2, <3>1, <3>2, <3>4, WroteRow
    <3> QED
      BY <1>2, <3>2, <3>3, <3>4 DEF LaunchMoves, Aged
  <2>3. ASSUME NEW h \in Holder, Beat(h) \/ Write(h) \/ HolderRelease(h)
        PROVE  LaunchMoves(l)
    BY <2>2, <2>3 DEF Beat, Write, HolderRelease
  <2>4. ASSUME NEW h \in Holder, NEW role \in Asks, RequestLaunch(h, role)
        PROVE  LaunchMoves(l)
    <3> DEFINE due == IF role = "worker" THEN Due(launch) ELSE {}
               f   == Ended(launch, due, "expired", "pending past until")
    <3>1. l \in due => Goes(launch[l], "expired", "pending past until")
      BY DEF Due, InState, Goes
    <3>2. "expired" \in Over /\ "pending past until" \in Cause
      BY DEF Over, Cause
    <3>3. f \in Rows
      BY <1>1, <3>2, EndedType
    <3>4. launch' = Asked(f, role, known[h], 0) /\ asked' = asked + 1
      BY <2>4 DEF RequestLaunch
    <3> HIDE DEF due
    <3>5. Aged(launch, f, l)
      BY <1>1, <3>1, EndedAges
    <3> HIDE DEF f
    <3>6. CASE l = asked + 1
      <4>1. launch'[l].state = "pending" /\ ~launch'[l].spawned
        BY <3>3, <3>4, <3>6, AskedRow
      <4>2. /\ launch'[l].wroteAt = 0
            /\ launch'[l].reach = 0
            /\ launch'[l].until = now + LaunchTTL
        BY <3>3, <3>4, <3>6, AskedFields
      <4>3. now + LaunchTTL \in Nat
        BY TableType
      <4> QED
        BY <3>4, <3>6, <4>1, <4>2, <4>3 DEF LaunchMoves
    <3>7. CASE l # asked + 1
      <4>1. launch'[l] = f[l]
        BY <3>3, <3>4, <3>7, AskedOther
      <4> QED
        BY <3>5, <4>1 DEF LaunchMoves, Aged
    <3> QED
      BY <3>6, <3>7
  <2> QED
    BY <1>7, <2>1, <2>3, <2>4 DEF HolderStep
<1>8. ASSUME NEW p \in Starter, StarterStep(p) PROVE LaunchMoves(l)
  <2>1. CASE \/ \E k \in Launch : Consider(p, k)
             \/ Spawn(p) \/ GiveUp(p) \/ StopOurs(p) \/ Killed(p)
    BY <1>3, <2>1 DEF Consider, Spawn, GiveUp, StopOurs, Killed, store
  <2>2. CASE ClaimSpawn(p)
    <3> DEFINE k == starter[p].launch
               went == [launch[k] EXCEPT !.spawned = TRUE]
    <3>1. k \in Launch
      BY <2>2, PcLaunch DEF ClaimSpawn
    <3>2. CASE UNCHANGED launch
      BY <1>3, <3>2
    <3>3. CASE launch[k].state = "pending" /\ Proceeded(k, went, lease)
      <4>1. /\ went.role = launch[k].role
            /\ went.state = launch[k].state
            /\ went.token = launch[k].token
            /\ went.until = launch[k].until
            /\ went.reach = launch[k].reach
            /\ went.wroteAt = launch[k].wroteAt
            /\ went.spawned
        BY <3>1, TableType DEF LaunchRow
      <4> HIDE DEF went, k
      <4>2. Aged(launch, launch', l) \/ (l = k /\ launch'[l] = went)
        BY <3>1, <3>3, ProceededMoves
      <4> QED
        BY <3>3, <4>1, <4>2 DEF LaunchMoves
    <3> QED
      BY <2>2, <3>2, <3>3, ProceedsTables DEF ClaimSpawn, Unclaimed
  <2>3. CASE Activate(p)
    <3> DEFINE k == starter[p].launch
               holds == launch[k].role = "coordinator" /\ lease.holder = k
               until == IF holds THEN now + LeaseTTL ELSE 0
               went == [launch[k] EXCEPT !.state = "active", !.at = now,
                                         !.reach = Later(@, Later(now, until))]
               z == IF holds THEN Beaten(lease) ELSE lease
    <3>1. k \in Launch
      BY <2>3, PcLaunch DEF Activate
    <3>2. CASE UNCHANGED launch
      BY <1>3, <3>2
    <3>3. CASE launch[k].state = "pending" /\ Proceeded(k, went, z)
      <4>1. /\ went.role = launch[k].role
            /\ went.state = "active"
            /\ went.spawned = launch[k].spawned
            /\ went.wroteAt = launch[k].wroteAt
            /\ went.until = launch[k].until
            /\ went.at = now
            /\ went.reach = Later(launch[k].reach, Later(now, until))
        BY <3>1, TableType DEF LaunchRow
      <4>3. until \in {0, now + LeaseTTL} /\ launch[k] \in LaunchRow
        BY <3>1, TableType
      <4> HIDE DEF went, z, until
      <4>4. /\ went.reach >= launch[k].reach
            /\ Reaches(launch[k]) => Reaches(went)
        BY <3>3, <4>1, <4>3, ActiveReaches
      <4>5. starter[p].pc = "spawned" /\ starter[p].launch = k
        BY <2>3 DEF Activate
      <4> HIDE DEF k
      <4>2. Aged(launch, launch', l) \/ (l = k /\ launch'[l] = went)
        BY <3>1, <3>3, ProceededMoves
      <4> QED
        BY <3>3, <4>1, <4>2, <4>4, <4>5 DEF LaunchMoves
    <3> QED
      BY <2>3, <3>2, <3>3, ProceedsTables DEF Activate
  <2>4. CASE Fail(p)
    <3> DEFINE k == starter[p].launch
    <3>1. \/ /\ launch[k].state = "pending"
             /\ launch' = Ended(launch, {k}, "failed", "start failed")
          \/ UNCHANGED launch
      BY <2>4 DEF Fail
    <3> HIDE DEF k
    <3>2. CASE /\ launch[k].state = "pending"
               /\ launch' = Ended(launch, {k}, "failed", "start failed")
      BY <1>1, <3>2, EndedAges DEF LaunchMoves, Goes
    <3> QED
      BY <1>3, <3>1, <3>2
  <2> QED
    BY <1>8, <2>1, <2>2, <2>3, <2>4 DEF StarterStep
<1>9. ASSUME NEW k \in Launch, Appears(k) \/ Vanishes(k) PROVE LaunchMoves(l)
  BY <1>3, <1>9 DEF Appears, Vanishes, Listing, store
<1>10. CASE Watcher
  <2>1. CASE Status
    BY <1>1, <2>1, ExpiredAges DEF Status, LaunchMoves
  <2>2. CASE ServiceBeat
    <3>1. launch[lease.holder].state = "active"
      BY <2>2 DEF ServiceBeat, Fenced
    <3>2. \/ launch'[l] = launch[l]
          \/ /\ l = lease.holder
             /\ launch'[l] = Reached(launch[l], now + LeaseTTL)
      BY <1>1, <2>2 DEF ServiceBeat, Rows
    <3>3. CASE l = lease.holder /\ launch'[l] = Reached(launch[l], now + LeaseTTL)
      <4> DEFINE w == launch[l]
                 v == Reached(launch[l], now + LeaseTTL)
      <4>1. /\ now \in Nat /\ now + LeaseTTL \in Nat /\ Window \in Nat
            /\ w.wroteAt \in Nat /\ w.reach \in Nat
        BY <1>1, NowType, TableType, ConstantsType DEF LaunchRow
      <4>2. v \in LaunchRow
        BY <1>1, <4>1, SpokeType
      <4>3. /\ Written(w, v)
            /\ v.wroteAt = w.wroteAt
            /\ v.reach = Later(w.reach, now + LeaseTTL)
        BY <1>1, ReachedRow
      <4>4. w.wroteAt # 0 /\ w.wroteAt >= now - Window
        BY <2>2, <3>3 DEF ServiceBeat, WroteLately
      <4>5. w.state = "active" /\ w \in LaunchRow
        BY <1>1, <3>1, <3>3
      <4>6. launch'[l] = v /\ launch[l] = w
        BY <3>3
      <4> HIDE DEF w, v
      <4>7. Reaches(w) => Reaches(v)
        BY <4>1, <4>2, <4>3, <4>4, <4>5, WrittenReaches
      <4>8. v.reach >= w.reach
        BY <4>1, <4>3, LaterType
      <4> QED
        BY <4>3, <4>5, <4>6, <4>7, <4>8 DEF SameState, Written, LaunchMoves
    <3> QED
      BY <1>2, <3>2, <3>3 DEF LaunchMoves, Aged
  <2>3. ASSUME NEW k \in Launch, StopOver(k) PROVE LaunchMoves(l)
    BY <1>3, <2>3 DEF StopOver, Listing, store
  <2>4. ASSUME NEW k \in Launch, EndUnlisted(k) \/ EndDoneWorker(k) \/ RefuseWorker(k)
        PROVE  LaunchMoves(l)
    <3>1. /\ EndUnlisted(k) =>
               Goes(launch[k], "ended",
                    IF launch[k].role = "coordinator" /\ launch[k].wroteAt = 0
                      THEN "0 turns" ELSE "gone")
          /\ EndDoneWorker(k) => Goes(launch[k], "ended", "worker done")
          /\ RefuseWorker(k) => Goes(launch[k], "failed", "spawn refused")
      BY TableType DEF EndUnlisted, EndDoneWorker, RefuseWorker, Goes, LaunchRow
    <3>2. ASSUME NEW kind, NEW cause, Goes(launch[k], kind, cause),
                 launch' = Ended(launch, {k}, kind, cause)
          PROVE  LaunchMoves(l)
      BY <1>1, <3>2, EndedAges DEF LaunchMoves
    <3> QED
      BY <2>4, <3>1, <3>2 DEF EndUnlisted, EndDoneWorker, RefuseWorker
  <2>5. ASSUME NEW k \in Launch, ReplaceDone(k) PROVE LaunchMoves(l)
    <3> DEFINE f == Ended(launch, {k}, "ended", "replaced while done")
    <3>1. "ended" \in Over /\ "replaced while done" \in Cause
      BY DEF Over, Cause
    <3>2. f \in Rows
      BY <1>1, <3>1, EndedType
    <3>3. Aged(launch, f, l)
      BY <1>1, <2>5, EndedAges DEF ReplaceDone, Goes
    <3>4. WakeFrom(f, Moved(after, {k}), FreedBy(lease, k))
      BY <2>5 DEF ReplaceDone
    <3> HIDE DEF f
    <3> QED
      BY <3>2, <3>3, <3>4, WakeMoves
  <2> QED
    BY <1>10, <2>1, <2>2, <2>3, <2>4, <2>5 DEF Watcher
<1> QED
  BY <1>4, <1>5, <1>6, <1>7, <1>8, <1>9, <1>10 DEF Next

-----------------------------------------------------------------------------
(* The lease.                                                              *)

\* z is the lease, or the lease given up.
Freer(z) == /\ z \in Lease
            /\ z.token = lease.token
            /\ z.holder = lease.holder
            /\ z.until = lease.until
            /\ z.standing => lease.standing

LEMMA FreerType ==
  ASSUME TypeOK, NEW z, Freer(z), NEW h
  PROVE  /\ Freer(lease)
         /\ Freer(Freed(z))
         /\ Freer(Lapsed(z))
         /\ Freer(FreedBy(z, h))
<1>1. Freer(lease)
  BY TableType DEF Freer
<1>2. Freer(Freed(z))
  BY DEF Freer, Freed, Lease
<1> QED
  BY <1>1, <1>2 DEF Lapsed, FreedBy

\* Who may hold a standing lease after a step.
MayHold(h) ==
  \/ lease.standing /\ h = lease.holder
  \/ h = Operator
  \/ h = asked + 1 /\ asked' = asked + 1
  \/ h \in Launch /\ launch[h].role = "coordinator" /\ launch[h].state = "active"

\* How far it may hold it: what its launch reaches, or what it held before.
Backed ==
  \/ lease'.holder = Operator
  \/ lease'.until <= launch'[lease'.holder].reach
  \/ /\ lease.standing
     /\ lease'.holder = lease.holder
     /\ lease'.until <= lease.until

LeaseMoves ==
  /\ lease'.token >= lease.token
  /\ lease'.standing => MayHold(lease'.holder) /\ Backed

\* What a look changes: nothing asked for before it is left standing.
Looks ==
  /\ looked' = asked
  /\ asked' = asked
  /\ lease'.standing => lease'.holder = Operator
  /\ \A l \in Launch : /\ launch'[l].state # "pending"
                       /\ launch'[l].role = "coordinator" =>
                            launch'[l].state # "active"

\* The lease is z, or z beaten with a row of its holder's to show for it.
HeldOn(z) ==
  \/ lease' = z
  \/ /\ lease' = Beaten(z)
     /\ z.holder = Operator \/ launch'[z.holder].reach >= now + LeaseTTL

LEMMA FreerMoves ==
  ASSUME TypeOK, NEW z, Freer(z), HeldOn(z)
  PROVE  LeaseMoves
<1>1. /\ z.token \in Nat /\ lease.token = z.token
      /\ z.until \in Nat /\ lease.until = z.until
      /\ z.standing => lease.standing
      /\ z.holder = lease.holder
      /\ z \in Lease
  BY DEF Freer, Lease
<1>2. CASE lease' = z
  <2>1. z.standing => MayHold(z.holder)
    BY <1>1 DEF MayHold
  <2> QED
    BY <1>1, <1>2, <2>1 DEF LeaseMoves, Backed
<1>3. CASE /\ lease' = Beaten(z)
           /\ z.holder = Operator \/ launch'[z.holder].reach >= now + LeaseTTL
  <2>1. /\ Beaten(z).token = z.token
        /\ Beaten(z).standing = z.standing
        /\ Beaten(z).holder = z.holder
        /\ Beaten(z).until = Later(z.until, now + LeaseTTL)
    BY <1>1 DEF Beaten, Lease
  <2>2. z.standing => MayHold(z.holder)
    BY <1>1 DEF MayHold
  <2>3. now + LeaseTTL \in Nat
    BY TableType
  <2>4. Beaten(z).until \in {z.until, now + LeaseTTL}
    BY <2>1 DEF Later
  <2>5. z.standing => Backed
    BY <1>1, <1>3, <2>1, <2>3, <2>4 DEF Backed
  <2> QED
    BY <1>1, <1>3, <2>1, <2>2, <2>5 DEF LeaseMoves
<1> QED
  BY <1>2, <1>3 DEF HeldOn

LEMMA ClaimedMoves ==
  ASSUME TypeOK, NEW z, Freer(z), NEW h, NEW until
  PROVE  /\ Claimed(z, h, until).token >= lease.token
         /\ Claimed(z, h, until).token = lease.token + 1
         /\ Claimed(z, h, until).holder = h
         /\ Claimed(z, h, until).until = until
<1>1. z.token \in Nat /\ lease.token = z.token
  BY DEF Freer, Lease
<1> QED
  BY <1>1 DEF Claimed

LEMMA WakeLease ==
  ASSUME TypeOK, NEW f \in Rows, NEW r, NEW z, Freer(z), WakeFrom(f, r, z)
  PROVE  LeaseMoves /\ asked' \in {asked, asked + 1}
<1> DEFINE f1 == Expired(f)
           f2 == IF Lapsed(z).standing THEN f1
                   ELSE Ended(f1, Stale(f1), "ended", "lost the lease")
<1>1. Freer(Lapsed(z))
  BY FreerType
<1>2. f2 \in Rows
  <2>1. "ended" \in Over /\ "lost the lease" \in Cause
    BY DEF Over, Cause
  <2> QED
    BY <2>1, ExpiredType, EndedType
<1>3. \/ /\ lease' = Claimed(Lapsed(z), asked + 1, now + LaunchTTL)
         /\ launch' = Asked(f2, "coordinator", Lapsed(z).token + 1, now + LaunchTTL)
         /\ asked' = asked + 1
         /\ MayAsk
      \/ lease' = Lapsed(z) /\ asked' = asked
  BY DEF WakeFrom
<1> HIDE DEF f2
<1>4. CASE /\ lease' = Claimed(Lapsed(z), asked + 1, now + LaunchTTL)
           /\ launch' = Asked(f2, "coordinator", Lapsed(z).token + 1, now + LaunchTTL)
           /\ asked' = asked + 1
           /\ MayAsk
  <2> DEFINE l == asked + 1
  <2>1. l \in Launch
    BY <1>4, NextLaunch
  <2>2. launch' = Asked(f2, "coordinator", Lapsed(z).token + 1, now + LaunchTTL)
    BY <1>4
  <2>3. l = asked + 1
    OBVIOUS
  <2> HIDE DEF l
  <2>4. launch'[l].reach = now + LaunchTTL
    BY <1>2, <2>1, <2>2, <2>3, AskedFields
  <2>5. /\ lease'.token >= lease.token
        /\ lease'.holder = l
        /\ lease'.until = now + LaunchTTL
    BY <1>1, <1>4, <2>3, ClaimedMoves
  <2>6. now + LaunchTTL \in Nat
    BY TableType
  <2> QED
    BY <1>4, <2>3, <2>4, <2>5, <2>6 DEF LeaseMoves, MayHold, Backed
<1> QED
  BY <1>1, <1>3, <1>4, FreerMoves DEF HeldOn

LEMMA StepMovesLease ==
  ASSUME TypeOK, [Next]_vars
  PROVE  /\ LeaseMoves
         /\ asked' \in {asked, asked + 1}
         /\ served' \in {served, lease'.token}
         /\ looked' = looked \/ Looks
<1> DEFINE Goal == /\ LeaseMoves
                   /\ asked' \in {asked, asked + 1}
                   /\ served' \in {served, lease'.token}
                   /\ looked' = looked \/ Looks
<1>1. Freer(lease)
  BY TableType DEF Freer
<1>2. ASSUME UNCHANGED <<lease, asked, served, looked>> PROVE Goal
  BY <1>1, <1>2, FreerMoves DEF HeldOn
<1>3. ASSUME UNCHANGED <<asked, served, looked>>, NEW z, Freer(z), HeldOn(z)
      PROVE  Goal
  BY <1>3, FreerMoves
<1>4. CASE Tick \/ StepBack \/ UNCHANGED vars
  BY <1>2, <1>4 DEF Tick, StepBack, Processes, store, vars
<1>5. CASE Wake
  BY <1>1, <1>5, WakeLease, TableType DEF Wake, Processes
<1>6. CASE You
  <2>1. ASSUME NEW a, SetAgent(a) PROVE Goal
    BY <1>2, <2>1 DEF SetAgent, Processes
  <2>2. ASSUME NEW hold, Take(hold) PROVE Goal
    <3>1. "takeover" \in Cause /\ launch \in Rows
      BY TableType DEF Cause
    <3>2. \A l \in Launch : Aged(launch, launch, l)
      BY DEF Aged
    <3>3. /\ Look(launch, after, "takeover")
          /\ lease' = Claimed(lease, Operator, now + hold)
          /\ served' = served
      BY <2>2 DEF Take
    <3>4. \A l \in Launch : /\ launch'[l].state # "pending"
                            /\ launch'[l].role = "coordinator" =>
                                 launch'[l].state # "active"
      BY <3>1, <3>2, <3>3, LookMoves
    <3>5. /\ lease'.token >= lease.token
          /\ lease'.holder = Operator
      BY <1>1, <3>3, ClaimedMoves
    <3>6. looked' = asked /\ asked' = asked
      BY <3>3 DEF Look
    <3> QED
      BY <3>3, <3>4, <3>5, <3>6 DEF LeaseMoves, MayHold, Backed, Looks
  <2>3. ASSUME OperatorRelease PROVE Goal
    <3> DEFINE f == LapsedLaunches(launch, lease)
    <3>1. "operator release" \in Cause /\ f \in Rows
      BY LapsedType, TableType DEF Cause
    <3>2. \A l \in Launch : Aged(launch, f, l)
      BY ExpiredAges, TableType
    <3>3. /\ Look(f, LapsedOrder(after, launch, lease), "operator release")
          /\ lease' = Freed(lease)
          /\ served' = served
      BY <2>3 DEF OperatorRelease, Processes
    <3> HIDE DEF f
    <3>4. \A l \in Launch : /\ launch'[l].state # "pending"
                            /\ launch'[l].role = "coordinator" =>
                                 launch'[l].state # "active"
      BY <3>1, <3>2, <3>3, LookMoves
    <3>5. ~lease'.standing /\ lease'.token >= lease.token
      <4>1. ~Freed(lease).standing
        BY TableType DEF Freed, Lease
      <4>2. LeaseMoves
        BY <1>1, <3>3, FreerType, FreerMoves DEF HeldOn
      <4> QED
        BY <3>3, <4>1, <4>2 DEF LeaseMoves
    <3>6. looked' = asked /\ asked' = asked
      BY <3>3 DEF Look
    <3> QED
      BY <3>3, <3>4, <3>5, <3>6 DEF LeaseMoves, Looks
  <2> QED
    BY <1>6, <2>1, <2>2, <2>3 DEF You
<1>7. CASE HolderStep
  <2>1. ASSUME NEW k \in Launch, Claim(k) PROVE Goal
    <3> DEFINE z == Lapsed(lease)
               f == LapsedLaunches(launch, lease)
    <3>1. Freer(z)
      BY <1>1, FreerType
    <3>2. /\ launch[k].role = "coordinator"
          /\ launch[k].state = "active"
          /\ \/ lease' = Beaten(z) /\ z.holder = k
             \/ lease' = Claimed(z, k, now + LeaseTTL)
          /\ launch' = Wrote(f, k, now + LeaseTTL)
          /\ served' = lease'.token
          /\ UNCHANGED <<asked, looked>>
      BY <2>1 DEF Claim
    <3>3. k \notin Due(launch)
      BY <3>2 DEF Due, InState
    <3>4. f \in Rows /\ f[k].state = "active" /\ k \in Holder
      BY <3>2, <3>3, NotDue, LapsedType, TableType DEF Holder
    <3> HIDE DEF z, f
    <3>5. launch'[k].reach >= now + LeaseTTL
      BY <3>2, <3>4, WroteRow
    <3>6. CASE lease' = Beaten(z) /\ z.holder = k
      <4>1. launch'[z.holder].reach >= now + LeaseTTL
        BY <3>5, <3>6
      <4>2. HeldOn(z)
        BY <3>6, <4>1 DEF HeldOn
      <4> QED
        BY <3>1, <3>2, <4>2, FreerMoves
    <3>7. CASE lease' = Claimed(z, k, now + LeaseTTL)
      <4>1. /\ launch'[k].reach \in Nat
            /\ now + LeaseTTL \in Nat
        <5>1. TypeOK'
          BY <2>1, HolderType DEF HolderStep
        <5>2. launch'[k] \in LaunchRow
          BY <5>1 DEF TypeOK
        <5> QED
          BY <5>2, TableType DEF LaunchRow
      <4>2. /\ lease'.token >= lease.token
            /\ lease'.holder = k
            /\ lease'.until <= launch'[k].reach
        BY <3>1, <3>5, <3>7, <4>1, ClaimedMoves
      <4> QED
        BY <3>2, <4>2 DEF LeaseMoves, MayHold, Backed
    <3> QED
      BY <3>2, <3>6, <3>7
  <2>2. ASSUME NEW h \in Holder, UnderToken(h), NEW z, Freer(z), HeldOn(z),
               asked' \in {asked, asked + 1}
        PROVE  Goal
    <3>1. served' = lease.token /\ looked' = looked
      BY <2>2 DEF UnderToken, Fenced
    <3>2. z.token = lease.token /\ Beaten(z).token = lease.token
      BY <2>2 DEF Freer, Beaten, Lease
    <3>3. LeaseMoves
      BY <2>2, FreerMoves
    <3> QED
      BY <2>2, <3>1, <3>2, <3>3 DEF HeldOn
  <2>3. ASSUME NEW h \in Holder, Beat(h)
        PROVE  Goal
    <3> DEFINE k == lease.holder
    <3>1. k \in Holder /\ k # Operator => k \in Launch
      BY TableType DEF Holder
    <3>2. k # Operator => launch[k].state = "active"
      BY <2>3 DEF Beat, UnderToken, Fenced
    <3>3. launch' = Wrote(launch, k, now + LeaseTTL)
      BY <2>3 DEF Beat
    <3>4. k # Operator => launch'[k].reach >= now + LeaseTTL
      BY <3>1, <3>2, <3>3, WroteRow, TableType
    <3>5. lease' = Beaten(lease) /\ asked' = asked /\ UnderToken(h)
      BY <2>3 DEF Beat
    <3> QED
      BY <1>1, <2>2, <3>4, <3>5 DEF HeldOn
  <2>5. ASSUME NEW h \in Holder, Write(h) \/ HolderRelease(h)
        PROVE  Goal
    BY <1>1, <2>2, <2>5, FreerType DEF Write, HolderRelease, HeldOn
  <2>4. ASSUME NEW h \in Holder, NEW role \in Asks, RequestLaunch(h, role)
        PROVE  Goal
    BY <1>1, <2>2, <2>4 DEF RequestLaunch, HeldOn
  <2> QED
    BY <1>7, <2>1, <2>3, <2>4, <2>5 DEF HolderStep
<1>8. ASSUME NEW p \in Starter, StarterStep(p) PROVE Goal
  <2>1. CASE \/ \E k \in Launch : Consider(p, k)
             \/ Spawn(p) \/ GiveUp(p) \/ StopOurs(p) \/ Killed(p)
    BY <1>2, <2>1 DEF Consider, Spawn, GiveUp, StopOurs, Killed, store
  <2>2. CASE ClaimSpawn(p)
    <3>1. \/ UNCHANGED lease
          \/ lease' = Lapsed(lease)
      BY <2>2, ProceedsTables DEF ClaimSpawn, Proceeded
    <3>2. UNCHANGED <<asked, served, looked>>
      BY <2>2 DEF ClaimSpawn
    <3> QED
      BY <1>1, <1>3, <3>1, <3>2, FreerType DEF HeldOn
  <2>3. CASE Activate(p)
    <3> DEFINE k == starter[p].launch
               holds == launch[k].role = "coordinator" /\ lease.holder = k
               until == IF holds THEN now + LeaseTTL ELSE 0
               went == [launch[k] EXCEPT !.state = "active", !.at = now,
                          !.reach = Later(@, Later(now, until))]
               z == IF holds THEN Beaten(lease) ELSE lease
    <3>1. k \in Launch
      BY <2>3, PcLaunch DEF Activate
    <3>2. \/ UNCHANGED lease
          \/ lease' = Lapsed(lease)
          \/ lease' = z /\ launch' = [launch EXCEPT ![k] = went]
      <4>1. Proceeded(k, went, z) \/ UNCHANGED lease
        BY <2>3, ProceedsTables DEF Activate
      <4> HIDE DEF k, went, z
      <4> QED
        BY <4>1 DEF Proceeded
    <3>3. holds => went.reach >= now + LeaseTTL
      <4>1. /\ now \in Nat /\ now + LeaseTTL \in Nat /\ launch[k].reach \in Nat
            /\ went.reach = Later(launch[k].reach, Later(now, until))
        BY <3>1, NowType, TableType DEF LaunchRow
      <4> HIDE DEF went
      <4> QED
        BY <4>1 DEF Later
    <3>4. \/ z = lease
          \/ z = Beaten(lease) /\ lease.holder = k /\ holds
      OBVIOUS
    <3>5. [launch EXCEPT ![k] = went][k] = went
      BY <3>1, TableType DEF Rows
    <3>6. UNCHANGED <<asked, served, looked>>
      BY <2>3 DEF Activate
    <3> HIDE DEF k, holds, went, z
    <3>7. \/ HeldOn(lease)
          \/ HeldOn(Lapsed(lease))
      BY <3>2, <3>3, <3>4, <3>5 DEF HeldOn
    <3> QED
      BY <1>1, <1>3, <3>6, <3>7, FreerType
  <2>4. CASE Fail(p)
    <3>1. \/ UNCHANGED lease
          \/ lease' = FreedBy(lease, starter[p].launch)
      BY <2>4 DEF Fail
    <3>2. UNCHANGED <<asked, served, looked>>
      BY <2>4 DEF Fail
    <3> QED
      BY <1>1, <1>3, <3>1, <3>2, FreerType DEF HeldOn
  <2> QED
    BY <1>8, <2>1, <2>2, <2>3, <2>4 DEF StarterStep
<1>9. ASSUME NEW k \in Launch, Appears(k) \/ Vanishes(k) PROVE Goal
  BY <1>2, <1>9 DEF Appears, Vanishes, Listing, store
<1>10. CASE Watcher
  <2>1. CASE Status
    BY <1>1, <1>3, <2>1, FreerType DEF Status, Processes, HeldOn
  <2>2. CASE ServiceBeat
    <3> DEFINE k == lease.holder
    <3>1. k \in Launch
      BY <2>2, TableType DEF ServiceBeat, Holder
    <3>2. launch' = [launch EXCEPT ![k] = Reached(launch[k], now + LeaseTTL)]
      BY <2>2 DEF ServiceBeat
    <3>3. launch'[k].reach >= now + LeaseTTL
      <4>1. launch'[k] = Reached(launch[k], now + LeaseTTL)
        BY <3>1, <3>2, TableType DEF Rows
      <4>2. launch[k].reach \in Nat /\ now + LeaseTTL \in Nat
        BY <3>1, TableType DEF LaunchRow
      <4>3. launch'[k].reach = Later(launch[k].reach, now + LeaseTTL)
        BY <3>1, <4>1, ReachedRow, TableType
      <4> QED
        BY <4>2, <4>3, LaterType
    <3> QED
      BY <1>1, <1>3, <2>2, <3>3 DEF ServiceBeat, Processes, HeldOn
  <2>3. ASSUME NEW k \in Launch, StopOver(k) PROVE Goal
    BY <1>2, <2>3 DEF StopOver, Listing, store
  <2>4. ASSUME NEW k \in Launch, EndUnlisted(k) \/ EndDoneWorker(k) \/ RefuseWorker(k)
        PROVE  Goal
    BY <1>1, <1>3, <2>4, FreerType
       DEF EndUnlisted, EndDoneWorker, RefuseWorker, Processes, HeldOn
  <2>5. ASSUME NEW k \in Launch, ReplaceDone(k) PROVE Goal
    <3>1. "ended" \in Over /\ "replaced while done" \in Cause
      BY DEF Over, Cause
    <3>2. Ended(launch, {k}, "ended", "replaced while done") \in Rows
      BY <3>1, EndedType, TableType
    <3> QED
      BY <1>1, <2>5, <3>2, FreerType, WakeLease DEF ReplaceDone, Processes
  <2> QED
    BY <1>10, <2>1, <2>2, <2>3, <2>4, <2>5 DEF Watcher
<1> QED
  BY <1>4, <1>5, <1>6, <1>7, <1>8, <1>9, <1>10 DEF Next

-----------------------------------------------------------------------------
(* What was not asked for yet is not there, and your look is behind.       *)

AskedInv ==
  /\ looked <= asked
  /\ lease.standing => lease.holder <= asked
  /\ \A l \in Launch : l > asked =>
       launch[l].state = "none" /\ ~launch[l].spawned

LEMMA AskedInit == Init => AskedInv
  BY LeaseAssumption DEF Init, AskedInv, NotAsked

LEMMA AskedStep == TypeOK /\ AskedInv /\ [Next]_vars => AskedInv'
<1> SUFFICES ASSUME TypeOK, AskedInv, [Next]_vars PROVE AskedInv'
  OBVIOUS
<1>1. /\ asked \in Nat
      /\ looked \in Nat
      /\ asked' \in {asked, asked + 1}
  BY StepMovesLease, ConstantsType DEF TypeOK
<1>2. looked' <= asked'
  BY <1>1, StepMovesLease DEF AskedInv, Looks
<1>4. ASSUME lease'.standing PROVE lease'.holder <= asked'
  <2>1. MayHold(lease'.holder)
    BY <1>4, StepMovesLease DEF LeaseMoves
  <2>2. CASE lease.standing /\ lease'.holder = lease.holder
    <3>1. lease.holder \in Nat /\ lease.holder <= asked
      BY <2>2, TableType, ConstantsType DEF AskedInv, Holder, Launch, Operator
    <3> QED
      BY <1>1, <2>2, <3>1
  <2>3. CASE lease'.holder = Operator
    BY <1>1, <2>3 DEF Operator
  <2>4. CASE lease'.holder = asked + 1 /\ asked' = asked + 1
    BY <1>1, <2>4
  <2>5. CASE /\ lease'.holder \in Launch
             /\ launch[lease'.holder].state = "active"
    <3>1. lease'.holder \in Nat /\ ~(lease'.holder > asked)
      BY <2>5, ConstantsType DEF AskedInv, Launch
    <3> QED
      BY <1>1, <3>1
  <2> QED
    BY <2>1, <2>2, <2>3, <2>4, <2>5 DEF MayHold
<1>3. ASSUME NEW l \in Launch, l > asked'
      PROVE  launch'[l].state = "none" /\ ~launch'[l].spawned
  <2>1. l \in Nat
    BY ConstantsType DEF Launch
  <2>2. l > asked
    BY <1>1, <1>3, <2>1
  <2>3. launch[l].state = "none" /\ ~launch[l].spawned
    BY <2>2 DEF AskedInv
  <2>4. ~(l = asked + 1 /\ asked' = asked + 1)
    BY <1>1, <1>3, <2>1
  <2>5. LaunchMoves(l)
    BY StepMovesLaunches
  <2> QED
    BY <2>3, <2>4, <2>5 DEF LaunchMoves, Aged, Goes
<1> QED
  BY <1>2, <1>3, <1>4 DEF AskedInv

LEMMA AskedAlways == Spec => [](TypeOK /\ AskedInv)
<1>1. Init => TypeOK /\ AskedInv
  BY TypeInit, AskedInit
<1>2. (TypeOK /\ AskedInv) /\ [Next]_vars => (TypeOK /\ AskedInv)'
  BY TypeStep, AskedStep
<1> QED
  BY <1>1, <1>2, PTL DEF Spec

-----------------------------------------------------------------------------
(* The theorems.                                                           *)

\* Every launch moves pending -> active -> ended, or ends failed or expired, and
\* what is over keeps its row for good: the edges that the launch_events_edges
\* trigger of lease.py enforces are never tried by the code above it.
THEOREM EdgesKept == Spec => LaunchEdges
<1> DEFINE Keeps ==
      \A l \in Launch :
        /\ launch'[l].state # launch[l].state =>
             <<launch[l].state, launch'[l].state>> \in Edge
        /\ launch[l].state \in Over => launch'[l] = launch[l]
<1>1. TypeOK /\ AskedInv /\ [Next]_vars => Keeps
  <2> SUFFICES ASSUME TypeOK, AskedInv, [Next]_vars, NEW l \in Launch
               PROVE  /\ launch'[l].state # launch[l].state =>
                           <<launch[l].state, launch'[l].state>> \in Edge
                      /\ launch[l].state \in Over => launch'[l] = launch[l]
    OBVIOUS
  <2>1. LaunchMoves(l)
    BY StepMovesLaunches
  <2>2. l = asked + 1 => launch[l].state = "none"
    <3>1. asked \in Nat
      BY ConstantsType DEF TypeOK
    <3> QED
      BY <3>1 DEF AskedInv
  <2> QED
    BY <2>1, <2>2 DEF LaunchMoves, Aged, Goes, SameState, Edge, Over
<1>2. TypeOK /\ AskedInv /\ [Next]_vars => [Keeps]_launch
  BY <1>1
<1> QED
  BY <1>2, AskedAlways, PTL DEF Spec, LaunchEdges

\* No write is accepted under an older token than one accepted before, whatever
\* the clock does: a token is the number of its claim, and fence() accepts the
\* latest claim's only.
TokenInv == served <= lease.token

LEMMA TokenStep ==
  TypeOK /\ TokenInv /\ [Next]_vars => TokenInv' /\ served' >= served
<1> SUFFICES ASSUME TypeOK, TokenInv, [Next]_vars
             PROVE  TokenInv' /\ served' >= served
  OBVIOUS
<1>1. /\ served \in Nat
      /\ lease.token \in Nat
      /\ lease'.token \in Nat
  BY TypeStep, TableType DEF TypeOK, Lease
<1>2. served' \in {served, lease'.token} /\ lease'.token >= lease.token
  BY StepMovesLease DEF LeaseMoves
<1> QED
  BY <1>1, <1>2 DEF TokenInv

THEOREM TokensKept == Spec => TokensInOrder
<1>1. Init => TypeOK /\ TokenInv
  BY TypeInit DEF Init, TokenInv
<1>2. (TypeOK /\ TokenInv) /\ [Next]_vars => (TypeOK /\ TokenInv)'
  BY TypeStep, TokenStep
<1>3. TypeOK /\ TokenInv /\ [Next]_vars => [served' >= served]_served
  BY TokenStep
<1> QED
  BY <1>1, <1>2, <1>3, PTL DEF Spec, TokensInOrder

\* Your take or release is final: no launch asked for before it is pending, runs
\* as coordinator or holds the lease afterwards.
LEMMA LookStep ==
  TypeOK /\ AskedInv /\ LookVoids /\ [Next]_vars => LookVoids'
<1> SUFFICES ASSUME TypeOK, AskedInv, LookVoids, [Next]_vars PROVE LookVoids'
  OBVIOUS
<1>1. /\ asked \in Nat
      /\ looked \in Nat
      /\ MaxLaunch \in Nat
      /\ asked <= MaxLaunch
      /\ looked <= asked
  BY ConstantsType DEF TypeOK, AskedInv
<1>2. LeaseMoves
  BY StepMovesLease
<1>3. CASE Looks
  <2>1. 1..looked' \subseteq Launch
    BY <1>1, <1>3 DEF Looks, Launch
  <2>2. Operator \notin 1..looked'
    BY <1>1, <1>3 DEF Looks, Operator
  <2> QED
    BY <1>3, <2>1, <2>2 DEF Looks, LookVoids
<1>4. CASE looked' = looked
  <2>1. ASSUME NEW l \in 1..looked
        PROVE  /\ launch'[l].state # "pending"
               /\ launch'[l].role = "coordinator" => launch'[l].state # "active"
    <3>1. l \in Launch /\ l # asked + 1
      BY <1>1 DEF Launch
    <3>2. /\ launch[l].state # "pending"
          /\ launch[l].role = "coordinator" => launch[l].state # "active"
      BY DEF LookVoids
    <3>3. LaunchMoves(l)
      BY <3>1, StepMovesLaunches
    <3> QED
      BY <3>1, <3>2, <3>3 DEF LaunchMoves, Aged, Goes, SameState
  <2>2. ASSUME lease'.standing, lease'.holder \in 1..looked PROVE FALSE
    <3>1. MayHold(lease'.holder)
      BY <1>2, <2>2 DEF LeaseMoves
    <3>2. lease'.holder # Operator /\ lease'.holder # asked + 1
      BY <1>1, <2>2 DEF Operator
    <3> QED
      BY <2>2, <3>1, <3>2 DEF MayHold, LookVoids
  <2> QED
    BY <1>4, <2>1, <2>2 DEF LookVoids
<1> QED
  BY <1>3, <1>4, StepMovesLease

THEOREM LookIsFinal == Spec => []LookVoids
<1>1. Init => LookVoids
  BY DEF Init, LookVoids
<1> QED
  BY <1>1, LookStep, AskedAlways, PTL DEF Spec

-----------------------------------------------------------------------------
(* One starter per launch.                                                 *)

\* The ways a step may change starter p.
StarterMoves(p) ==
  \/ starter'[p] = starter[p]
  \/ starter'[p].pc \in {"idle", "checked"}
  \/ /\ starter[p].pc \in Starting
     /\ starter'[p].pc \in Starting \ {"claimed"}
     /\ starter'[p].launch = starter[p].launch
  \/ /\ starter[p].pc = "checked"
     /\ starter'[p].pc = "claimed"
     /\ starter'[p].launch = starter[p].launch
     /\ ~launch[starter[p].launch].spawned
     /\ launch'[starter[p].launch].spawned
     /\ session' = session

\* A launch that had no session gets one from the process that claimed it.
SessionMoves(l) ==
  \/ session'[l] = session[l]
  \/ session[l] # "none"
  \/ \E p \in Starter : /\ starter[p].pc = "claimed"
                        /\ starter[p].launch = l
                        /\ starter'[p].pc = "spawned"

LEMMA OwnStep ==
  ASSUME TypeOK, NEW p \in Starter, StarterStep(p)
  PROVE  /\ StarterMoves(p)
         /\ \A l \in Launch : SessionMoves(l)
         /\ \A q \in Starter \ {p} : starter'[q] = starter[q]
<1> DEFINE Goal == /\ StarterMoves(p)
                   /\ \A l \in Launch : SessionMoves(l)
                   /\ \A q \in Starter \ {p} : starter'[q] = starter[q]
<1>1. ASSUME NEW pc, NEW l, Pc(p, pc, l)
      PROVE  /\ starter'[p] = [pc |-> pc, launch |-> l]
             /\ \A q \in Starter \ {p} : starter'[q] = starter[q]
  BY <1>1 DEF Pc, TypeOK
<1>2. ASSUME Done(p)
      PROVE  /\ starter'[p] = [pc |-> "idle"]
             /\ \A q \in Starter \ {p} : starter'[q] = starter[q]
  BY <1>2 DEF Done, TypeOK
<1>3. ASSUME UNCHANGED session PROVE \A l \in Launch : SessionMoves(l)
  BY <1>3 DEF SessionMoves
<1>4. ASSUME NEW k \in Launch, StopNamed(k)
      PROVE  \A l \in Launch : SessionMoves(l)
  BY <1>4 DEF StopNamed, SessionMoves, TypeOK
<1>5. ASSUME NEW l \in Launch, Consider(p, l) PROVE Goal
  <2>1. Pc(p, "checked", l) /\ UNCHANGED session
    BY <1>5 DEF Consider
  <2>2. /\ starter'[p] = [pc |-> "checked", launch |-> l]
        /\ \A q \in Starter \ {p} : starter'[q] = starter[q]
    BY <1>1, <2>1
  <2>3. StarterMoves(p)
    BY <2>2 DEF StarterMoves
  <2> QED
    BY <1>3, <2>1, <2>2, <2>3
<1>6. CASE ClaimSpawn(p)
  <2> DEFINE l == starter[p].launch
             went == [launch[l] EXCEPT !.spawned = TRUE]
  <2>1. l \in Launch
    BY <1>6, PcLaunch DEF ClaimSpawn
  <2>2. UNCHANGED session /\ starter[p].pc = "checked"
    BY <1>6 DEF ClaimSpawn
  <2>3. \/ Done(p)
        \/ /\ ~launch[l].spawned
           /\ Pc(p, "claimed", l)
           /\ launch' = [launch EXCEPT ![l] = went]
    BY <1>6, ProceedsTables DEF ClaimSpawn, Unclaimed
  <2>4. went.spawned /\ [launch EXCEPT ![l] = went][l] = went
    BY <2>1, TableType DEF Rows, LaunchRow
  <2> HIDE DEF went
  <2>5. CASE Done(p)
    BY <1>2, <1>3, <2>2, <2>5 DEF StarterMoves
  <2>6. CASE /\ ~launch[l].spawned
             /\ Pc(p, "claimed", l)
             /\ launch' = [launch EXCEPT ![l] = went]
    <3>1. /\ starter'[p] = [pc |-> "claimed", launch |-> l]
          /\ \A q \in Starter \ {p} : starter'[q] = starter[q]
      BY <1>1, <2>6
    <3>2. launch'[l].spawned
      BY <2>4, <2>6
    <3>3. StarterMoves(p)
      BY <2>2, <2>6, <3>1, <3>2 DEF StarterMoves
    <3> QED
      BY <1>3, <2>2, <3>1, <3>3
  <2> QED
    BY <2>3, <2>5, <2>6
<1>7. CASE Spawn(p)
  <2>1. /\ starter[p].pc = "claimed"
        /\ starter[p].launch \in Launch
        /\ Pc(p, "spawned", starter[p].launch)
    BY <1>7, PcLaunch DEF Spawn
  <2>2. /\ starter'[p] = [pc |-> "spawned", launch |-> starter[p].launch]
        /\ \A q \in Starter \ {p} : starter'[q] = starter[q]
    BY <1>1, <2>1
  <2>3. \A l \in Launch : l = starter[p].launch \/ session'[l] = session[l]
    BY <1>7 DEF Spawn, TypeOK
  <2> QED
    BY <2>1, <2>2, <2>3 DEF StarterMoves, SessionMoves, Starting
<1>8. CASE Activate(p) \/ Fail(p)
  <2>1. /\ starter[p].pc \in Starting
        /\ UNCHANGED session
        /\ Done(p) \/ Pc(p, "stopping", starter[p].launch)
    BY <1>8, ProceedsTables DEF Activate, Fail, Starting
  <2>2. CASE Done(p)
    BY <1>2, <1>3, <2>1, <2>2 DEF StarterMoves
  <2>3. CASE Pc(p, "stopping", starter[p].launch)
    <3>1. /\ starter'[p] = [pc |-> "stopping", launch |-> starter[p].launch]
          /\ \A q \in Starter \ {p} : starter'[q] = starter[q]
      BY <1>1, <2>3
    <3>2. StarterMoves(p)
      BY <2>1, <3>1 DEF StarterMoves, Starting
    <3> QED
      BY <1>3, <2>1, <3>1, <3>2
  <2> QED
    BY <2>1, <2>2, <2>3
<1>9. CASE GiveUp(p)
  <2>1. /\ starter[p].pc = "spawned"
        /\ starter[p].launch \in Launch
        /\ StopNamed(starter[p].launch)
        /\ Pc(p, "failing", starter[p].launch)
    BY <1>9, PcLaunch DEF GiveUp
  <2>2. /\ starter'[p] = [pc |-> "failing", launch |-> starter[p].launch]
        /\ \A q \in Starter \ {p} : starter'[q] = starter[q]
    BY <1>1, <2>1
  <2>3. StarterMoves(p)
    BY <2>1, <2>2 DEF StarterMoves, Starting
  <2> QED
    BY <1>4, <2>1, <2>2, <2>3
<1>10. CASE StopOurs(p)
  <2>1. /\ starter[p].launch \in Launch
        /\ StopNamed(starter[p].launch)
        /\ Done(p)
    BY <1>10, PcLaunch DEF StopOurs
  <2> QED
    BY <1>2, <1>4, <2>1 DEF StarterMoves
<1>11. CASE Killed(p)
  BY <1>2, <1>3, <1>11 DEF Killed, StarterMoves
<1> QED
  BY <1>5, <1>6, <1>7, <1>8, <1>9, <1>10, <1>11 DEF StarterStep

LEMMA StepMovesStarters ==
  ASSUME TypeOK, [Next]_vars
  PROVE  /\ \A p \in Starter : StarterMoves(p)
         /\ \A l \in Launch : SessionMoves(l)
         /\ \A p, q \in Starter :
              p # q => starter'[p] = starter[p] \/ starter'[q] = starter[q]
<1>1. CASE \E p \in Starter : StarterStep(p)
  <2>1. PICK p \in Starter : StarterStep(p)
    BY <1>1
  <2> QED
    BY <2>1, OwnStep DEF StarterMoves
<1>2. CASE UNCHANGED starter /\ \A l \in Launch : SessionMoves(l)
  BY <1>2 DEF StarterMoves
<1>3. CASE UNCHANGED <<session, starter>>
  BY <1>2, <1>3 DEF SessionMoves
<1>4. ASSUME NEW k \in Launch, NEW s, Listing(k, s), session[k] # "none"
      PROVE  UNCHANGED starter /\ \A l \in Launch : SessionMoves(l)
  BY <1>4 DEF Listing, SessionMoves, TypeOK
<1>5. CASE \E k \in Launch : Appears(k) \/ Vanishes(k) \/ StopOver(k)
  BY <1>2, <1>4, <1>5 DEF Appears, Vanishes, StopOver
<1>6. CASE Tick \/ StepBack \/ Wake \/ UNCHANGED vars
  BY <1>3, <1>6 DEF Tick, StepBack, Wake, Processes, vars
<1>7. CASE You
  BY <1>3, <1>7 DEF You, SetAgent, Take, OperatorRelease, Processes
<1>8. CASE HolderStep
  BY <1>3, <1>8
     DEF HolderStep, Claim, Beat, Write, HolderRelease, RequestLaunch, UnderToken
<1>9. CASE Watcher
  BY <1>3, <1>5, <1>9
     DEF Watcher, Status, ServiceBeat, EndUnlisted, ReplaceDone, EndDoneWorker,
         RefuseWorker, Processes
<1> QED
  BY <1>1, <1>5, <1>6, <1>7, <1>8, <1>9 DEF Next

\* The inductive invariant: a starter past its claim has the spawn row, and
\* without that row there is no session.
SpawnInv ==
  /\ OneStarter
  /\ \A p \in Starter : starter[p].pc \in Starting =>
       starter[p].launch \in Launch /\ launch[starter[p].launch].spawned
  /\ \A l \in Launch : ~launch[l].spawned => session[l] = "none"

LEMMA SpawnStep ==
  TypeOK /\ AskedInv /\ SpawnInv /\ [Next]_vars => SpawnInv'
<1> SUFFICES ASSUME TypeOK, AskedInv, SpawnInv, [Next]_vars PROVE SpawnInv'
  OBVIOUS
<1>1. ASSUME NEW l \in Launch, launch[l].spawned PROVE launch'[l].spawned
  <2>1. l # asked + 1
    <3>1. asked \in Nat
      BY ConstantsType DEF TypeOK
    <3> QED
      BY <1>1, <3>1 DEF AskedInv
  <2>2. LaunchMoves(l)
    BY StepMovesLaunches
  <2> QED
    BY <1>1, <2>1, <2>2 DEF LaunchMoves, Aged, Goes, SameState
<1>2. ASSUME NEW p \in Starter, starter'[p].pc \in Starting
      PROVE  /\ starter'[p].launch \in Launch
             /\ launch'[starter'[p].launch].spawned
  <2>1. starter[p].pc # "idle" => starter[p].launch \in Launch
    BY PcLaunch
  <2>2. StarterMoves(p)
    BY StepMovesStarters
  <2> QED
    BY <1>1, <1>2, <2>1, <2>2 DEF SpawnInv, StarterMoves, Starting
<1>3. ASSUME NEW p \in Starter, NEW q \in Starter,
             starter'[p].pc \in Starting, starter'[q].pc \in Starting,
             starter'[p].launch = starter'[q].launch, p # q,
             starter'[q] = starter[q]
      PROVE  FALSE
  <2>1. launch[starter[q].launch].spawned
    BY <1>3 DEF SpawnInv
  <2>2. StarterMoves(p)
    BY StepMovesStarters
  <2>3. starter[p].pc \in Starting /\ starter[p].launch = starter[q].launch
    BY <1>3, <2>1, <2>2 DEF StarterMoves, Starting
  <2> QED
    BY <1>3, <2>3 DEF SpawnInv, OneStarter
<1>4. ASSUME NEW l \in Launch, ~launch'[l].spawned PROVE session'[l] = "none"
  <2>1. ~launch[l].spawned /\ session[l] = "none"
    BY <1>1, <1>4 DEF SpawnInv
  <2>2. SessionMoves(l)
    BY StepMovesStarters
  <2> QED
    BY <2>1, <2>2 DEF SessionMoves, SpawnInv, Starting
<1>5. ASSUME NEW p \in Starter, starter'[p].pc = "claimed"
      PROVE  session'[starter'[p].launch] = "none"
  <2>1. StarterMoves(p)
    BY StepMovesStarters
  <2>2. CASE starter'[p] = starter[p]
    <3> DEFINE l == starter[p].launch
    <3>1. l \in Launch /\ session[l] = "none"
      BY <1>5, <2>2 DEF SpawnInv, OneStarter, Starting
    <3>2. SessionMoves(l)
      BY <3>1, StepMovesStarters
    <3>3. ASSUME NEW q \in Starter, starter[q].pc = "claimed",
                 starter[q].launch = l, starter'[q].pc = "spawned"
          PROVE  FALSE
      BY <1>5, <2>2, <3>3 DEF SpawnInv, OneStarter, Starting
    <3> QED
      BY <2>2, <3>1, <3>2, <3>3 DEF SessionMoves
  <2>3. CASE /\ starter[p].pc = "checked"
             /\ starter'[p].launch = starter[p].launch
             /\ ~launch[starter[p].launch].spawned
             /\ session' = session
    BY <2>3, PcLaunch DEF SpawnInv
  <2> QED
    BY <1>5, <2>1, <2>2, <2>3 DEF StarterMoves, Starting
<1>6. OneStarter'
  BY <1>3, <1>5, StepMovesStarters DEF OneStarter
<1> QED
  BY <1>2, <1>4, <1>6 DEF SpawnInv

\* One process at a time, and once, starts the session of a launch: however many
\* watchers and command lines consider it, and whoever of them is killed.
THEOREM OneStarterEach == Spec => []OneStarter
<1>1. Init => SpawnInv
  BY DEF Init, SpawnInv, OneStarter, Starting
<1>2. SpawnInv => OneStarter
  BY DEF SpawnInv
<1> QED
  BY <1>1, <1>2, SpawnStep, AskedAlways, PTL DEF Spec

-----------------------------------------------------------------------------
(* A coordinator that fell silent.                                         *)

\* The inductive invariant: what a launch reaches is bounded by when its session
\* last spoke, and what its lease reaches by what the launch does.
ReachInv ==
  /\ \A l \in Launch : Reaches(launch[l])
  /\ lease.standing /\ lease.holder \in Launch =>
       lease.until <= launch[lease.holder].reach

LEMMA ReachStep == TypeOK /\ AskedInv /\ ReachInv /\ [Next]_vars => ReachInv'
<1> SUFFICES ASSUME TypeOK, AskedInv, ReachInv, [Next]_vars PROVE ReachInv'
  OBVIOUS
<1>1. ASSUME NEW l \in Launch
      PROVE  /\ Reaches(launch'[l])
             /\ l # asked + 1 => launch'[l].reach >= launch[l].reach
  <2>1. LaunchMoves(l)
    BY StepMovesLaunches
  <2>2. Reaches(launch[l]) /\ launch[l].reach \in Nat
    BY TableType DEF ReachInv, LaunchRow
  <2>3. CASE Aged(launch, launch', l)
    <3>1. launch'[l].reach = launch[l].reach
      BY <2>3 DEF Aged
    <3>2. \/ launch'[l] = launch[l]
          \/ launch'[l].state \in {"failed", "expired", "ended"}
      BY <2>3 DEF Aged, Goes
    <3>3. Reaches(launch'[l])
      BY <2>2, <3>2 DEF Reaches
    <3> QED
      BY <2>2, <3>1, <3>3
  <2>4. CASE l = asked + 1 /\ launch'[l].state = "pending"
             /\ launch'[l].reach <= launch'[l].until
    BY <2>4 DEF Reaches
  <2>5. CASE SameState(launch, launch', l)
    BY <2>2, <2>5 DEF SameState
  <2>6. CASE /\ launch'[l].reach >= launch[l].reach
             /\ Reaches(launch[l]) => Reaches(launch'[l])
    BY <2>2, <2>6
  <2>7. CASE /\ launch[l].state = "pending"
             /\ launch'[l].state = "pending"
             /\ launch'[l].until = launch[l].until
             /\ launch'[l].reach = launch[l].reach
    BY <2>2, <2>7 DEF Reaches
  <2> QED
    BY <2>1, <2>3, <2>4, <2>5, <2>6, <2>7 DEF LaunchMoves
<1>2. ASSUME lease'.standing, lease'.holder \in Launch
      PROVE  lease'.until <= launch'[lease'.holder].reach
  <2> DEFINE h == lease'.holder
  <2>1. h \in Launch /\ h # Operator
    BY <1>2, ConstantsType DEF Launch, Operator
  <2>2. Backed
    BY <1>2, StepMovesLease DEF LeaseMoves
  <2>3. CASE lease.standing /\ h = lease.holder /\ lease'.until <= lease.until
    <3>1. /\ lease.until <= launch[h].reach
          /\ h <= asked
      BY <1>2, <2>3 DEF ReachInv, AskedInv
    <3>2. asked \in Nat /\ h \in Nat
      BY <2>1, ConstantsType DEF TypeOK, Launch
    <3>3. launch'[h].reach >= launch[h].reach
      BY <1>1, <2>1, <3>1, <3>2
    <3>4. TypeOK'
      BY TypeStep
    <3>5. /\ lease'.until \in Nat /\ lease.until \in Nat
          /\ launch[h].reach \in Nat /\ launch'[h].reach \in Nat
      BY <2>1, <3>4 DEF TypeOK, Lease, LaunchRow
    <3> QED
      BY <2>3, <3>1, <3>3, <3>5
  <2> QED
    BY <2>1, <2>2, <2>3 DEF Backed
<1> QED
  BY <1>1, <1>2 DEF ReachInv

LEMMA SilenceFollows ==
  ASSUME TypeOK, ReachInv
  PROVE  SilenceBounded
<1> SUFFICES ASSUME NEW l \in Coordinators(launch, "active"),
                    l \in Waited(launch) \/ (Live(lease) /\ lease.holder = l)
             PROVE  now < Silent(l) + IdleGrace
  BY DEF SilenceBounded
<1>1. l \in Launch /\ launch[l].state = "active"
  BY DEF Coordinators, InState
<1>2. /\ now \in Nat /\ IdleGrace \in Nat /\ LeaseTTL \in Nat /\ Window \in Nat
      /\ launch[l].reach \in Nat /\ launch[l].until \in Nat
      /\ launch[l].wroteAt \in Nat /\ launch[l].at \in Nat
      /\ lease.until \in Nat
  BY <1>1, NowType, ConstantsType, TableType DEF LaunchRow, Lease
<1>3. Silent(l) = SilentOf(launch[l]) /\ Silent(l) \in Nat
  BY <1>2 DEF Silent, SilentOf, Later
<1>4. launch[l].reach <= Silent(l)
  BY <1>1, <1>3 DEF ReachInv, Reaches
<1>5. CASE l \in Waited(launch)
  <2>1. now < launch[l].reach + IdleGrace
    BY <1>5 DEF Waited, IdleUntil
  <2> QED
    BY <1>2, <1>3, <1>4, <2>1
<1>6. CASE Live(lease) /\ lease.holder = l
  <2>1. now < lease.until /\ lease.until <= launch[l].reach
    BY <1>1, <1>6 DEF Live, ReachInv
  <2> QED
    BY <1>2, <1>3, <1>4, <2>1
<1> QED
  BY <1>5, <1>6

\* A coordinator that fell silent holds the drops up for a bounded time only:
\* however often the watcher beats its lease, and however the clock is set
\* meanwhile, neither the lease nor the grace of _idle() reaches further than
\* one lease after the last beat that a write of its own allowed.
THEOREM SilenceEnds == Spec => []SilenceBounded
<1>1. Init => ReachInv
  BY DEF Init, ReachInv, Reaches, NotAsked
<1> QED
  BY <1>1, ReachStep, SilenceFollows, AskedAlways, PTL DEF Spec

-----------------------------------------------------------------------------
(* One coordinator at a time.                                              *)

\* l is a coordinator that is starting or running, in the rows f.
Runs(f, l) == f[l].role = "coordinator" /\ f[l].state \in {"pending", "active"}

\* At most one runs, and the lease is its or yours.
Sole(f, z) ==
  /\ \A k, l \in Launch : Runs(f, k) /\ Runs(f, l) => k = l
  /\ \A l \in Launch :
       Runs(f, l) /\ z.standing /\ z.holder # Operator => z.holder = l

LEMMA AgedRuns ==
  ASSUME NEW f, NEW g, NEW l, Aged(f, g, l)
  PROVE  /\ Runs(g, l) => g[l] = f[l]
         /\ Runs(g, l) => Runs(f, l)
  BY DEF Aged, Goes, Runs

LEMMA SoleAged ==
  ASSUME NEW f, NEW g, NEW z, NEW y, Sole(f, z),
         \A l \in Launch : Aged(f, g, l),
         y.standing => z.standing, y.holder = z.holder
  PROVE  Sole(g, y)
<1>1. \A l \in Launch : Runs(g, l) => Runs(f, l)
  BY AgedRuns
<1> QED
  BY <1>1 DEF Sole

\* A wake that asks for a coordinator leaves no other one, and was not stopped
\* by the deaths before it.
NewCoordinator ==
  LET n == asked + 1
  IN  /\ asked' = n
      /\ launch'[n].role = "coordinator"
      /\ lease'.standing
      /\ lease'.holder = n
      /\ lease'.token = launch'[n].token
      /\ lease'.until = launch'[n].until
      /\ \A l \in Launch : l # n => ~Runs(launch', l)
      /\ \E f \in Rows : \E r :
           /\ ~Stopped(f, r)
           /\ \A l \in Launch : /\ Aged(launch, f, l)
                                /\ l # n => launch'[l] = f[l]

LEMMA WakeSole ==
  ASSUME TypeOK, NEW f \in Rows, NEW r, NEW z \in Lease, WakeFrom(f, r, z),
         Sole(f, z), \A l \in Launch : Aged(launch, f, l)
  PROVE  asked' = asked \/ NewCoordinator
<1> DEFINE z1 == Lapsed(z)
           f1 == Expired(f)
           r1 == Moved(r, Due(f))
           f2 == IF z1.standing THEN f1
                   ELSE Ended(f1, Stale(f1), "ended", "lost the lease")
           r2 == IF z1.standing THEN r1 ELSE Moved(r1, Stale(f1))
           n  == asked + 1
<1>1. SUFFICES ASSUME asked' # asked PROVE NewCoordinator
  OBVIOUS
<1>2. /\ Wakes(f2, r2, z1)
      /\ MayAsk
      /\ lease' = Claimed(z1, n, now + LaunchTTL)
      /\ launch' = Asked(f2, "coordinator", z1.token + 1, now + LaunchTTL)
      /\ asked' = n
  BY <1>1 DEF WakeFrom
<1>3. f1 \in Rows /\ f2 \in Rows /\ z1 \in Lease
  <2>1. "ended" \in Over /\ "lost the lease" \in Cause
    BY DEF Over, Cause
  <2> QED
    BY <2>1, ExpiredType, EndedType, LapsedType
<1>4. ASSUME NEW l \in Launch
      PROVE  /\ Aged(f, f1, l)
             /\ l \in Due(f) => f1[l].state = "expired"
             /\ l \notin Due(f) => f1[l] = f[l]
  <2>1. Aged(f, f1, l)
    BY ExpiredAges
  <2> DEFINE kind  == "expired"
             cause == "pending past until"
  <2>2. f1 = Ended(f, Due(f), kind, cause) /\ kind = "expired"
    BY DEF Expired
  <2> HIDE DEF f1, kind, cause
  <2>3. /\ l \in Due(f) => f1[l].state = kind
        /\ l \notin Due(f) => f1[l] = f[l]
    BY <2>2, EndedRow
  <2> QED
    BY <2>1, <2>2, <2>3
<1>5. ASSUME NEW l \in Launch
      PROVE  /\ Aged(f1, f2, l)
             /\ l \in Stale(f1) /\ ~z1.standing => f2[l].state = "ended"
             /\ l \notin Stale(f1) \/ z1.standing => f2[l] = f1[l]
  <2>1. l \in Stale(f1) => Goes(f1[l], "ended", "lost the lease")
    BY DEF Stale, Coordinators, InState, Goes
  <2>2. Aged(f1, f1, l)
    BY DEF Aged
  <2> HIDE DEF f1
  <2>3. Aged(f1, Ended(f1, Stale(f1), "ended", "lost the lease"), l)
    BY <1>3, <2>1, EndedAges
  <2> DEFINE kind  == "ended"
             cause == "lost the lease"
             g     == Ended(f1, Stale(f1), kind, cause)
  <2>4. /\ f2 = IF z1.standing THEN f1 ELSE g
        /\ g = Ended(f1, Stale(f1), kind, cause)
        /\ kind = "ended"
    OBVIOUS
  <2>5. Aged(f1, g, l)
    BY <2>3
  <2> HIDE DEF f2, g, kind, cause
  <2>6. /\ l \in Stale(f1) => g[l].state = kind
        /\ l \notin Stale(f1) => g[l] = f1[l]
    BY <1>3, <2>4, EndedRow
  <2> QED
    BY <2>2, <2>4, <2>5, <2>6
<1>6. z1.standing => /\ z.standing
                     /\ z1.holder = z.holder
                     /\ Live(z1)
  <2>1. now \in Nat /\ z.until \in Nat
    BY NowType DEF Lease
  <2>2. ~Freed(z).standing
    BY DEF Freed, Lease
  <2>3. z1.standing => z1 = z /\ ~Past(z)
    BY <2>2 DEF Lapsed
  <2>4. z.standing /\ ~Past(z) => Live(z)
    BY <2>1 DEF Past, Live
  <2> QED
    BY <2>3, <2>4
<1> HIDE DEF z1, f1, r1, f2, r2
<1>7. ASSUME NEW l \in Launch PROVE ~Runs(f2, l)
  <2>1. SUFFICES ASSUME Runs(f2, l) PROVE FALSE
    OBVIOUS
  <2>2. /\ f2[l] = f1[l]
        /\ Runs(f1, l)
    BY <1>5, <2>1, AgedRuns
  <2>3. f1[l] = f[l] /\ Runs(f, l)
    BY <1>4, <2>2, AgedRuns
  <2>4. CASE f2[l].state = "pending"
    <3>1. l \in Coordinators(f2, "pending")
      BY <2>1, <2>4 DEF Coordinators, InState, Runs
    <3>2. now >= f2[l].until
      BY <1>2, <3>1 DEF Wakes
    <3>3. l \in Due(f)
      BY <2>2, <2>3, <2>4, <3>2 DEF Due, InState
    <3> QED
      BY <1>4, <2>2, <2>4, <3>3
  <2>5. CASE f2[l].state = "active" /\ ~z1.standing
    <3>1. l \in Coordinators(f2, "active")
      BY <2>1, <2>5 DEF Coordinators, InState, Runs
    <3>2. ~(now < IdleUntil(f2, l))
      BY <1>2, <3>1 DEF Wakes, Waited
    <3>3. IdleUntil(f2, l) = IdleUntil(f1, l) /\ IdleUntil(f1, l) \in Nat
      BY <1>3, <2>2, ConstantsType DEF IdleUntil, Rows, LaunchRow
    <3>4. now >= IdleUntil(f1, l)
      BY <3>2, <3>3, NowType
    <3>5. l \in Stale(f1)
      BY <2>2, <3>1, <3>4 DEF Stale, Coordinators, InState
    <3> QED
      BY <1>5, <2>5, <3>5
  <2>6. CASE f2[l].state = "active" /\ z1.standing
    <3>1. /\ z1.holder # Operator
          /\ f2[z1.holder].state \notin {"pending", "active"}
      BY <1>2, <1>6, <2>6 DEF Wakes
    <3>2. z1.holder = l
      BY <1>6, <2>3, <2>6, <3>1 DEF Sole
    <3> QED
      BY <2>6, <3>1, <3>2
  <2> QED
    BY <2>1, <2>4, <2>5, <2>6 DEF Runs
<1>8. n \in Launch
  BY <1>2, NextLaunch
<1>9. n = asked + 1
  OBVIOUS
<1> HIDE DEF n
<1>10. ASSUME NEW l \in Launch, l # n PROVE launch'[l] = f2[l]
  BY <1>2, <1>3, <1>9, <1>10, AskedOther
<1>11. ASSUME NEW l \in Launch PROVE Aged(launch, f2, l)
  BY <1>4, <1>5, AgedTwice
<1>12. launch'[n].role = "coordinator"
  BY <1>2, <1>3, <1>8, <1>9, AskedFields
<1>13. launch'[n].token = z1.token + 1
  BY <1>2, <1>3, <1>8, <1>9, AskedFields
<1>14. launch'[n].until = now + LaunchTTL
  BY <1>2, <1>3, <1>8, <1>9, AskedFields
<1>15. /\ lease'.standing
       /\ lease'.holder = n
       /\ lease'.token = z1.token + 1
       /\ lease'.until = now + LaunchTTL
  BY <1>2 DEF Claimed
<1>16. \A l \in Launch : l # n => ~Runs(launch', l)
  BY <1>7, <1>10 DEF Runs
<1>17. ~Stopped(f2, r2)
  BY <1>2 DEF Wakes
<1> QED
  BY <1>2, <1>3, <1>9, <1>10, <1>11, <1>12, <1>13, <1>14, <1>15, <1>16, <1>17
     DEF NewCoordinator

NewWorker == /\ asked' = asked + 1
             /\ launch'[asked + 1].role = "worker"
             /\ UNCHANGED lease

LEMMA NewLaunch ==
  ASSUME TypeOK, Sole(launch, lease), [Next]_vars, "coordinator" \notin Asks
  PROVE  asked' = asked \/ NewCoordinator \/ NewWorker
<1> DEFINE Goal == asked' = asked \/ NewCoordinator \/ NewWorker
<1>1. /\ launch \in Rows /\ lease \in Lease
      /\ \A l \in Launch : Aged(launch, launch, l)
  BY TableType DEF Aged
<1>2. CASE Wake
  BY <1>1, <1>2, WakeSole DEF Wake
<1>3. ASSUME NEW k \in Launch, ReplaceDone(k) PROVE Goal
  <2> DEFINE f == Ended(launch, {k}, "ended", "replaced while done")
             z == FreedBy(lease, k)
  <2>1. "ended" \in Over /\ "replaced while done" \in Cause
    BY DEF Over, Cause
  <2>2. f \in Rows /\ z \in Lease
    BY <1>1, <2>1, EndedType, LapsedType
  <2>3. Goes(launch[k], "ended", "replaced while done")
    BY <1>3 DEF ReplaceDone, Goes
  <2>4. \A l \in Launch : Aged(launch, f, l)
    BY <1>1, <2>3, EndedAges
  <2>5. Freer(z)
    BY <1>1, FreerType DEF Freer
  <2>6. WakeFrom(f, Moved(after, {k}), z)
    BY <1>3 DEF ReplaceDone
  <2> HIDE DEF f, z
  <2>7. Sole(f, z)
    BY <2>4, <2>5, SoleAged DEF Freer
  <2> QED
    BY <2>2, <2>4, <2>6, <2>7, WakeSole
<1>4. ASSUME NEW h \in Holder, NEW role \in Asks, RequestLaunch(h, role)
      PROVE  Goal
  <2> DEFINE f == Ended(launch, Due(launch), "expired", "pending past until")
             l == asked + 1
  <2>1. role = "worker"
    BY <1>4, LeaseAssumption
  <2>2. "expired" \in Over /\ "pending past until" \in Cause
    BY DEF Over, Cause
  <2>3. f \in Rows /\ l \in Launch /\ l = asked + 1
    BY <1>1, <1>4, <2>2, EndedType, NextLaunch DEF RequestLaunch
  <2>4. /\ launch' = Asked(f, role, known[h], 0)
        /\ asked' = l
        /\ UNCHANGED lease
    BY <1>4, <2>1 DEF RequestLaunch
  <2> HIDE DEF f, l
  <2>5. launch'[l].role = role
    BY <2>3, <2>4, AskedFields
  <2> QED
    BY <2>1, <2>3, <2>4, <2>5 DEF NewWorker
<1>5. CASE Tick \/ StepBack \/ You \/ UNCHANGED vars
  BY <1>5 DEF Tick, StepBack, You, SetAgent, Take, OperatorRelease, Look, store, vars
<1>6. ASSUME NEW k \in Launch, NEW h \in Holder,
             Claim(k) \/ Beat(h) \/ Write(h) \/ HolderRelease(h)
      PROVE  Goal
  BY <1>6 DEF Claim, Beat, Write, HolderRelease
<1>7. ASSUME NEW p \in Starter, StarterStep(p) PROVE Goal
  BY <1>7 DEF StarterStep, Consider, ClaimSpawn, Spawn, Activate, GiveUp, Fail,
              StopOurs, Killed, store
<1>8. ASSUME NEW l \in Launch,
             \/ Appears(l) \/ Vanishes(l) \/ Status \/ ServiceBeat \/ StopOver(l)
             \/ EndUnlisted(l) \/ EndDoneWorker(l) \/ RefuseWorker(l)
      PROVE  Goal
  BY <1>8 DEF Appears, Vanishes, Status, ServiceBeat, StopOver, EndUnlisted,
              EndDoneWorker, RefuseWorker, Listing, store
<1>9. CASE HolderStep
  <2>1. ASSUME NEW h \in Holder, Beat(h) \/ Write(h) \/ HolderRelease(h)
        PROVE  Goal
    BY <2>1 DEF Beat, Write, HolderRelease
  <2> QED
    BY <1>4, <1>6, <1>9, <2>1 DEF HolderStep, Holder
<1>10. CASE Watcher
  <2>1. CASE Status \/ ServiceBeat
    BY <2>1 DEF Status, ServiceBeat
  <2> QED
    BY <1>3, <1>8, <1>10, <2>1 DEF Watcher
<1> QED
  BY <1>2, <1>5, <1>7, <1>8, <1>9, <1>10 DEF Next

LEMMA SoleStep ==
  ASSUME TypeOK, AskedInv, Sole(launch, lease), [Next]_vars,
         "coordinator" \notin Asks
  PROVE  Sole(launch', lease')
<1>1. asked \in Nat
  BY ConstantsType DEF TypeOK
<1>2. ASSUME NEW l \in Launch, Runs(launch', l)
      PROVE  Runs(launch, l) \/ (l = asked + 1 /\ asked' = asked + 1)
  <2>1. LaunchMoves(l)
    BY StepMovesLaunches
  <2> QED
    BY <1>2, <2>1 DEF LaunchMoves, Aged, Goes, SameState, Runs
<1>3. CASE NewCoordinator
  BY <1>3 DEF NewCoordinator, Sole
<1>4. CASE \A l \in Launch : Runs(launch', l) => Runs(launch, l)
  <2>1. ASSUME NEW l \in Launch, Runs(launch', l),
               lease'.standing, lease'.holder # Operator,
               lease'.holder # asked + 1 \/ asked' # asked + 1
        PROVE  lease'.holder = l
    <3>1. MayHold(lease'.holder)
      BY <2>1, StepMovesLease DEF LeaseMoves
    <3>2. Runs(launch, l)
      BY <1>4, <2>1
    <3> QED
      BY <2>1, <3>1, <3>2 DEF MayHold, Sole, Runs
  <2>2. CASE asked' = asked
    BY <1>1, <1>4, <2>1, <2>2 DEF Sole
  <2>3. CASE UNCHANGED lease
    BY <1>4, <2>3 DEF Sole
  <2> QED
    BY <1>3, <2>2, <2>3, NewLaunch DEF NewWorker
<1>5. CASE asked' = asked
  BY <1>1, <1>2, <1>4, <1>5
<1>6. CASE NewWorker
  <2>1. ~Runs(launch', asked + 1)
    BY <1>6 DEF NewWorker, Runs
  <2> QED
    BY <1>2, <1>4, <2>1
<1> QED
  BY <1>3, <1>5, <1>6, NewLaunch

\* No drop, and no watcher that replaces a coordinator listed done, starts a
\* second one beside one that is starting or running, while no holder asks for a
\* rotation.
THEOREM OneAtATime ==
  ASSUME "coordinator" \notin Asks
  PROVE  Spec => []OneCoordinator
<1> DEFINE Inv == TypeOK /\ AskedInv /\ Sole(launch, lease)
<1>1. Init => Inv
  BY TypeInit, AskedInit DEF Init, Sole, Runs, NotAsked
<1>2. Inv /\ [Next]_vars => Inv'
  BY TypeStep, AskedStep, SoleStep
<1>3. Inv => OneCoordinator
  BY DEF Sole, Runs, OneCoordinator
<1> QED
  BY <1>1, <1>2, <1>3, PTL DEF Spec

-----------------------------------------------------------------------------
(* The deaths of coordinators.                                             *)

\* A coordinator not started yet holds the lease it was asked for with, as far
\* as it is waited for.
PendingHolds ==
  \A l \in Launch :
    launch[l].role = "coordinator" /\ launch[l].state = "pending" =>
      /\ lease.standing
      /\ lease.holder = l
      /\ lease.token = launch[l].token
      /\ lease.until = launch[l].until

LEMMA LeaseKept ==
  ASSUME TypeOK, AskedInv, Sole(launch, lease), PendingHolds, [Next]_vars,
         NEW l \in Launch, launch[l].role = "coordinator",
         launch[l].state = "pending", launch'[l].state = "pending"
  PROVE  lease' = lease
<1>1. /\ lease.standing
      /\ lease.holder = l
      /\ lease.until = launch[l].until
      /\ l # Operator
  BY ConstantsType DEF PendingHolds, Launch, Operator
<1>2. /\ launch \in Rows /\ lease \in Lease
      /\ now \in Nat
      /\ launch[l].until \in Nat
  BY TableType, NowType DEF LaunchRow
<1>3. \A k \in Launch : Runs(launch, k) => k = l
  BY DEF Sole, Runs
<1>4. ~Fenced(lease.token)
  BY <1>1 DEF Fenced
<1>5. ~Past(lease) => Lapsed(lease) = lease
  BY DEF Lapsed
<1>6. ASSUME NEW g, Aged(Expired(launch), g, l), g[l].state = "pending"
      PROVE  ~Past(lease)
  <2>1. SUFFICES ASSUME l \in Due(launch) PROVE FALSE
    BY <1>1, <1>2 DEF Past, Due, InState
  <2> DEFINE kind  == "expired"
             cause == "pending past until"
             f     == Ended(launch, Due(launch), kind, cause)
  <2>2. Aged(f, g, l) /\ kind = "expired" /\ f = Ended(launch, Due(launch), kind, cause)
    BY <1>6 DEF Expired
  <2> HIDE DEF f, kind, cause
  <2>3. f[l].state = kind
    BY <1>2, <2>1, <2>2, EndedRow
  <2> QED
    BY <1>6, <2>2, <2>3 DEF Aged, Goes
<1>7. CASE Wake
  <2> DEFINE z1 == Lapsed(lease)
             f1 == Expired(launch)
             r1 == Moved(after, Due(launch))
             f2 == IF z1.standing THEN f1
                     ELSE Ended(f1, Stale(f1), "ended", "lost the lease")
             r2 == IF z1.standing THEN r1 ELSE Moved(r1, Stale(f1))
  <2>1. WakeFrom(launch, after, lease)
    BY <1>7 DEF Wake
  <2>2. f1 \in Rows /\ f2 \in Rows
    <3>1. "ended" \in Over /\ "lost the lease" \in Cause
      BY DEF Over, Cause
    <3> QED
      BY <1>2, <3>1, ExpiredType, EndedType
  <2>3. Aged(f1, f2, l) /\ Aged(launch, f1, l)
    <3>1. l \in Stale(f1) => Goes(f1[l], "ended", "lost the lease")
      BY DEF Stale, Coordinators, InState, Goes
    <3>2. Aged(f1, f1, l) /\ Aged(launch, f1, l)
      BY <1>2, ExpiredAges DEF Aged
    <3> HIDE DEF f1
    <3>3. Aged(f1, Ended(f1, Stale(f1), "ended", "lost the lease"), l)
      BY <2>2, <3>1, EndedAges
    <3> QED
      BY <3>2, <3>3
  <2>4. launch'[l] = f2[l]
    <3>1. l # asked + 1
      BY ConstantsType DEF AskedInv, TypeOK
    <3>2. \/ launch' = f2
          \/ launch' = Asked(f2, "coordinator", z1.token + 1, now + LaunchTTL)
      BY <2>1 DEF WakeFrom
    <3> HIDE DEF f2, z1
    <3> QED
      BY <2>2, <3>1, <3>2, AskedOther
  <2>5. ~Past(lease)
    BY <1>6, <2>3, <2>4
  <2>6. z1 = lease /\ Live(z1)
    BY <1>1, <1>2, <1>5, <2>5 DEF Past, Live
  <2>7. ~Wakes(f2, r2, z1)
    BY <1>1, <2>4, <2>6 DEF Wakes
  <2> QED
    BY <2>1, <2>6, <2>7 DEF WakeFrom
<1>8. CASE You
  <2>1. ASSUME NEW a, SetAgent(a) PROVE lease' = lease
    BY <2>1 DEF SetAgent
  <2>2. ASSUME NEW hold, Take(hold) PROVE FALSE
    <3>1. "takeover" \in Cause /\ Aged(launch, launch, l)
      BY DEF Cause, Aged
    <3>2. Look(launch, after, "takeover")
      BY <2>2 DEF Take
    <3> QED
      BY <1>2, <3>1, <3>2, LookMoves
  <2>3. ASSUME OperatorRelease PROVE FALSE
    <3> DEFINE f == LapsedLaunches(launch, lease)
    <3>1. "operator release" \in Cause /\ f \in Rows /\ Aged(launch, f, l)
      BY <1>2, LapsedType, ExpiredAges DEF Cause
    <3>2. Look(f, LapsedOrder(after, launch, lease), "operator release")
      BY <2>3 DEF OperatorRelease
    <3> HIDE DEF f
    <3> QED
      BY <3>1, <3>2, LookMoves
  <2> QED
    BY <1>8, <2>1, <2>2, <2>3 DEF You
<1>9. CASE HolderStep
  <2>1. ASSUME NEW k \in Launch, Claim(k) PROVE FALSE
    BY <1>3, <2>1 DEF Claim, Runs
  <2>2. ASSUME NEW h \in Holder, UnderToken(h) PROVE FALSE
    BY <1>1, <2>2 DEF UnderToken, Fenced
  <2> QED
    BY <1>9, <2>1, <2>2 DEF HolderStep, Beat, Write, HolderRelease, RequestLaunch
<1>10. ASSUME NEW p \in Starter, StarterStep(p) PROVE lease' = lease
  <2>1. CASE \/ \E k \in Launch : Consider(p, k)
             \/ Spawn(p) \/ GiveUp(p) \/ StopOurs(p) \/ Killed(p)
    BY <2>1 DEF Consider, Spawn, GiveUp, StopOurs, Killed, store
  <2>2. ASSUME NEW k \in Launch, NEW went, NEW z, Proceeded(k, went, z),
               launch[k].state = "pending"
        PROVE  \/ lease' = lease
               \/ lease' = z /\ launch' = [launch EXCEPT ![k] = went]
    <3>1. CASE /\ launch' = Ended(LapsedLaunches(launch, lease), {k}, "failed",
                                  "lease lost before active")
               /\ lease' = Lapsed(lease)
               /\ now < launch[k].until
               /\ ~(Live(lease) /\ lease.token = launch[k].token)
      <4>1. CASE ~Past(lease)
        BY <1>5, <3>1, <4>1
      <4>2. CASE Past(lease)
        <5> DEFINE f == Expired(launch)
        <5>1. launch' = Ended(f, {k}, "failed", "lease lost before active")
          BY <3>1, <4>2 DEF LapsedLaunches
        <5>2. f \in Rows
          BY <1>2, ExpiredType
        <5>3. Aged(f, launch', l)
          <6>1. k \notin Due(launch)
            <7>1. launch[k].until \in Nat
              BY TableType DEF LaunchRow
            <7> DEFINE until == launch[k].until
            <7>2. now < until /\ until \in Nat
              BY <3>1, <7>1
            <7> HIDE DEF until
            <7>3. ~(now >= until)
              BY <1>2, <7>2
            <7> QED
              BY <7>3 DEF Due, until
          <6>2. f[k] = launch[k]
            BY <1>2, <6>1 DEF Expired, Ended
          <6>3. Goes(f[k], "failed", "lease lost before active")
            BY <2>2, <3>1, <6>2 DEF Goes
          <6> HIDE DEF f
          <6> QED
            BY <5>1, <5>2, <6>3, EndedAges
        <5> QED
          BY <1>6, <4>2, <5>3
      <4> QED
        BY <4>1, <4>2
    <3> QED
      BY <2>2, <3>1 DEF Proceeded
  <2>3. CASE ClaimSpawn(p)
    <3> DEFINE k == starter[p].launch
               went == [launch[k] EXCEPT !.spawned = TRUE]
    <3>1. k \in Launch
      BY <2>3, PcLaunch DEF ClaimSpawn
    <3>2. \/ UNCHANGED lease
          \/ launch[k].state = "pending" /\ Proceeded(k, went, lease)
      BY <2>3, ProceedsTables DEF ClaimSpawn, Unclaimed
    <3> HIDE DEF k, went
    <3> QED
      BY <2>2, <3>1, <3>2
  <2>4. CASE Activate(p)
    <3> DEFINE k == starter[p].launch
               holds == launch[k].role = "coordinator" /\ lease.holder = k
               until == IF holds THEN now + LeaseTTL ELSE 0
               went == [launch[k] EXCEPT !.state = "active", !.at = now,
                          !.reach = Later(@, Later(now, until))]
               z == IF holds THEN Beaten(lease) ELSE lease
    <3>1. k \in Launch
      BY <2>4, PcLaunch DEF Activate
    <3>2. \/ UNCHANGED lease
          \/ launch[k].state = "pending" /\ Proceeded(k, went, z)
      BY <2>4, ProceedsTables DEF Activate
    <3>3. holds \/ z = lease
      OBVIOUS
    <3>4. went.state = "active" /\ [launch EXCEPT ![k] = went][k] = went
      BY <3>1, TableType DEF Rows, LaunchRow
    <3>5. holds => k = l
      BY <1>1
    <3> HIDE DEF k, holds, went, z
    <3> QED
      BY <2>2, <3>1, <3>2, <3>3, <3>4, <3>5
  <2>5. CASE Fail(p)
    <3> DEFINE k == starter[p].launch
               kind == "failed"
               cause == "start failed"
    <3>1. k \in Launch
      BY <2>5, PcLaunch DEF Fail
    <3>2. \/ UNCHANGED lease
          \/ launch' = Ended(launch, {k}, kind, cause) /\ lease' = FreedBy(lease, k)
      BY <2>5 DEF Fail
    <3>3. kind # "pending"
      OBVIOUS
    <3> HIDE DEF k, kind, cause
    <3>4. launch' = Ended(launch, {k}, kind, cause) => k # l
      BY <1>2, <3>3, EndedRow
    <3> QED
      BY <1>1, <3>2, <3>4 DEF FreedBy
  <2> QED
    BY <1>10, <2>1, <2>3, <2>4, <2>5 DEF StarterStep
<1>11. CASE Watcher
  <2>1. CASE Status
    <3>1. launch' = Expired(launch) /\ lease' = Lapsed(lease)
      BY <2>1 DEF Status
    <3>2. Aged(Expired(launch), launch', l)
      BY <3>1 DEF Aged
    <3> QED
      BY <1>5, <1>6, <3>1, <3>2
  <2>2. CASE ServiceBeat
    BY <1>4, <2>2 DEF ServiceBeat
  <2>3. ASSUME NEW k \in Launch,
               StopOver(k) \/ EndDoneWorker(k) \/ RefuseWorker(k)
        PROVE  lease' = lease
    BY <2>3 DEF StopOver, EndDoneWorker, RefuseWorker, Listing, store
  <2>4. ASSUME NEW k \in Launch, EndUnlisted(k) PROVE lease' = lease
    BY <1>1, <2>4 DEF EndUnlisted, FreedBy
  <2>5. ASSUME NEW k \in Launch, ReplaceDone(k) PROVE FALSE
    BY <1>3, <2>5 DEF ReplaceDone, Runs
  <2> QED
    BY <1>11, <2>1, <2>2, <2>3, <2>4, <2>5 DEF Watcher
<1>12. CASE \/ Tick \/ StepBack \/ UNCHANGED vars
            \/ \E k \in Launch : Appears(k) \/ Vanishes(k)
  BY <1>12 DEF Tick, StepBack, Appears, Vanishes, Listing, store, vars
<1> QED
  BY <1>7, <1>8, <1>9, <1>10, <1>11, <1>12 DEF Next

LEMMA PendingStep ==
  ASSUME TypeOK, AskedInv, Sole(launch, lease), PendingHolds, [Next]_vars,
         "coordinator" \notin Asks
  PROVE  PendingHolds'
<1> SUFFICES ASSUME NEW l \in Launch, launch'[l].role = "coordinator",
                    launch'[l].state = "pending"
             PROVE  /\ lease'.standing
                    /\ lease'.holder = l
                    /\ lease'.token = launch'[l].token
                    /\ lease'.until = launch'[l].until
  BY DEF PendingHolds
<1>1. LaunchMoves(l)
  BY StepMovesLaunches
<1>2. CASE l = asked + 1 /\ asked' = asked + 1
  <2>1. asked \in Nat
    BY ConstantsType DEF TypeOK
  <2> QED
    BY <1>2, <2>1, NewLaunch DEF NewCoordinator, NewWorker
<1>3. CASE /\ launch[l].state = "pending"
           /\ launch[l].role = "coordinator"
           /\ launch'[l].token = launch[l].token
           /\ launch'[l].until = launch[l].until
  BY <1>3, LeaseKept DEF PendingHolds
<1>4. CASE Aged(launch, launch', l)
  BY <1>3, <1>4 DEF Aged, Goes
<1> QED
  BY <1>1, <1>2, <1>3, <1>4 DEF LaunchMoves, SameState

\* What worked was spawned, and what was spawned was asked for.
WorkedInv ==
  \A l \in Launch :
    /\ launch[l].state \in {"active", "ended"} \/ launch[l].wroteAt # 0 =>
         launch[l].spawned
    /\ launch[l].spawned => launch[l].state # "none"

LEMMA WorkedStep ==
  TypeOK /\ AskedInv /\ SpawnInv /\ WorkedInv /\ [Next]_vars => WorkedInv'
<1> SUFFICES ASSUME TypeOK, AskedInv, SpawnInv, WorkedInv, [Next]_vars,
                    NEW l \in Launch
             PROVE  /\ launch'[l].state \in {"active", "ended"}
                         \/ launch'[l].wroteAt # 0 => launch'[l].spawned
                    /\ launch'[l].spawned => launch'[l].state # "none"
  BY DEF WorkedInv
<1>1. LaunchMoves(l)
  BY StepMovesLaunches
<1>2. /\ launch[l].state \in {"active", "ended"} \/ launch[l].wroteAt # 0 =>
           launch[l].spawned
      /\ launch[l].spawned => launch[l].state # "none"
  BY DEF WorkedInv
<1>3. ASSUME NEW p \in Starter, starter[p].pc = "spawned", starter[p].launch = l
      PROVE  launch[l].spawned
  BY <1>3 DEF SpawnInv, Starting
<1>4. CASE Aged(launch, launch', l)
  BY <1>2, <1>4 DEF Aged, Goes
<1>5. CASE SameState(launch, launch', l) /\ launch[l].state = "active"
  BY <1>2, <1>5 DEF SameState
<1> QED
  BY <1>1, <1>2, <1>3, <1>4, <1>5 DEF LaunchMoves

\* The coordinators started since you looked, and one of them that worked.
Tried(f) == {l \in Launch : /\ l > looked
                            /\ f[l].role = "coordinator"
                            /\ f[l].spawned}
Worked(w) == \/ w.wroteAt # 0
             \/ w.state = "ended" /\ w.cause = "replaced while done"
Excused(f) == \E l \in Tried(f) : Worked(f[l])

\* A coordinator still to be started was asked for with a death to spare.
ToStart(f) == {l \in Launch : /\ l > looked
                              /\ f[l].role = "coordinator"
                              /\ f[l].state = "pending"
                              /\ ~f[l].spawned}

\* The inductive invariant: what is over is a death or worked, and there are no
\* more starts than deaths allow.
DeathInv ==
  /\ \A l \in Launch :
       /\ l > looked
       /\ launch[l].role = "coordinator"
       /\ launch[l].state \in Over
       => Dead(launch, l) \/ Worked(launch[l])
  /\ Excused(launch) \/ Cardinality(Tried(launch)) <= MaxDeaths
  /\ ToStart(launch) # {} =>
       Excused(launch) \/ Cardinality(Tried(launch)) < MaxDeaths

LEMMA DeathsFollow == DeathInv => DeathsBounded
  BY DEF DeathInv, DeathsBounded, Excused, Tried, Worked

LEMMA TriedFinite ==
  ASSUME NEW f
  PROVE  /\ IsFiniteSet(Tried(f))
         /\ Cardinality(Tried(f)) \in Nat
         /\ \A T \in SUBSET Tried(f) : /\ IsFiniteSet(T)
                                       /\ Cardinality(T) \in Nat
                                       /\ Cardinality(T) <= Cardinality(Tried(f))
<1>1. IsFiniteSet(Launch)
  BY ConstantsType, FS_Interval DEF Launch
<1>2. IsFiniteSet(Tried(f))
  BY <1>1, FS_Subset DEF Tried
<1>3. ASSUME NEW T \in SUBSET Tried(f)
      PROVE  /\ IsFiniteSet(T)
             /\ Cardinality(T) \in Nat
             /\ Cardinality(T) <= Cardinality(Tried(f))
  BY <1>2, <1>3, FS_Subset, FS_CardinalityType
<1> QED
  BY <1>2, <1>3, FS_CardinalityType

\* What a step makes of a coordinator that is over after it.
LEMMA OverStep ==
  ASSUME TypeOK, AskedInv, PendingHolds, DeathInv, [Next]_vars,
         looked' = looked, NEW l \in Launch, l > looked,
         launch'[l].role = "coordinator", launch'[l].state \in Over
  PROVE  Dead(launch', l) \/ Worked(launch'[l])
<1>1. LaunchMoves(l)
  BY StepMovesLaunches
<1>2. CASE launch'[l] = launch[l]
  BY <1>2 DEF DeathInv, Dead
<1>3. CASE /\ launch'[l].role = launch[l].role
           /\ launch'[l].wroteAt = launch[l].wroteAt
           /\ Goes(launch[l], launch'[l].state, launch'[l].cause)
  <2> DEFINE w == launch[l]
             v == launch'[l]
  <2>1. w.state \in {"pending", "active"}
    BY <1>3 DEF Goes
  <2>2. looked' # asked
    <3>1. l <= asked
      <4>1. l \in Nat /\ asked \in Nat
        BY ConstantsType DEF TypeOK, Launch
      <4> QED
        BY <2>1, <4>1 DEF AskedInv
    <3>2. l \in Nat /\ asked \in Nat /\ looked \in Nat
      BY ConstantsType DEF TypeOK, Launch
    <3> QED
      BY <3>1, <3>2
  <2>3. ~(/\ w.state = "pending"
          /\ now < w.until
          /\ ~(Live(lease) /\ lease.token = w.token))
    BY <1>3 DEF PendingHolds, Live
  <2>4. w.role = "coordinator"
    BY <1>3
  <2>5. \/ w.state = "pending" /\ v.state \in {"failed", "expired"}
           /\ v.cause \in {"pending past until", "start failed"}
        \/ w.state = "active" /\ v.state = "ended"
           /\ v.cause \in {"lost the lease", "replaced while done"}
        \/ w.state = "active" /\ v.state = "ended"
           /\ v.cause = IF w.wroteAt = 0 THEN "0 turns" ELSE "gone"
    BY <1>3, <2>2, <2>3, <2>4 DEF Goes
  <2> QED
    BY <1>3, <2>5 DEF Dead, Worked
<1> QED
  BY <1>1, <1>2, <1>3 DEF LaunchMoves, Aged, SameState, Over

\* What worked stays an excuse.
LEMMA ExcuseStays ==
  ASSUME TypeOK, AskedInv, WorkedInv, [Next]_vars, looked' = looked,
         Excused(launch)
  PROVE  Excused(launch')
<1>1. PICK l \in Tried(launch) : Worked(launch[l])
  BY DEF Excused
<1>2. l \in Launch /\ l > looked /\ launch[l].role = "coordinator"
      /\ launch[l].spawned
  BY <1>1 DEF Tried
<1>3. LaunchMoves(l)
  BY <1>2, StepMovesLaunches
<1>4. l # asked + 1
  BY <1>2, ConstantsType DEF AskedInv, TypeOK
<1>5. launch'[l].role = "coordinator" /\ launch'[l].spawned
  BY <1>2, <1>3, <1>4 DEF LaunchMoves, Aged, SameState
<1>6. Worked(launch'[l])
  BY <1>1, <1>3, <1>4 DEF LaunchMoves, Aged, Goes, SameState, Worked
<1>7. l \in Tried(launch')
  BY <1>2, <1>5 DEF Tried
<1> QED
  BY <1>6, <1>7 DEF Excused

\* A look starts the count again.
LEMMA DeathsForgotten ==
  ASSUME TypeOK, AskedInv, AskedInv', Looks
  PROVE  DeathInv'
<1>1. asked \in Nat /\ looked' = asked /\ asked' = asked
  BY ConstantsType DEF TypeOK, Looks
<1>2. ASSUME NEW l \in Launch, l > looked'
      PROVE  launch'[l].state = "none" /\ ~launch'[l].spawned
  BY <1>1, <1>2 DEF AskedInv
<1>3. {l \in Launch : /\ l > looked'
                      /\ launch'[l].role = "coordinator"
                      /\ launch'[l].spawned} = {}
  BY <1>2
<1>4. Cardinality({}) = 0 /\ MaxDeaths \in Nat
  BY FS_EmptySet, LeaseAssumption
<1>5. (Cardinality(Tried(launch)) <= MaxDeaths)'
  BY <1>3, <1>4 DEF Tried
<1>6. (ToStart(launch) = {})'
  BY <1>2 DEF ToStart
<1>7. ASSUME NEW l \in Launch, l > looked', launch'[l].state \in Over PROVE FALSE
  BY <1>2, <1>7 DEF Over
<1> QED
  BY <1>5, <1>6, <1>7 DEF DeathInv

\* A wake that was not stopped leaves a death to spare.
LEMMA WakeSpares ==
  ASSUME TypeOK, AskedInv, WorkedInv', [Next]_vars, NewCoordinator,
         looked' = looked,
         \A l \in Launch : /\ l > looked
                           /\ launch'[l].role = "coordinator"
                           /\ launch'[l].state \in Over
                           => Dead(launch', l) \/ Worked(launch'[l])
  PROVE  Excused(launch') \/ Cardinality(Tried(launch')) < MaxDeaths
<1> DEFINE n == asked + 1
<1>1. SUFFICES ASSUME ~Excused(launch')
               PROVE  Cardinality(Tried(launch')) < MaxDeaths
  OBVIOUS
<1>0. PICK f \in Rows :
        \E r : /\ ~Stopped(f, r)
               /\ \A l \in Launch : /\ Aged(launch, f, l)
                                    /\ l # n => launch'[l] = f[l]
  BY DEF NewCoordinator
<1>2. PICK r :
        /\ ~Stopped(f, r)
        /\ \A l \in Launch : /\ Aged(launch, f, l)
                             /\ l # n => launch'[l] = f[l]
  BY <1>0
<1>3. \A l \in Launch : l # n => ~Runs(launch', l)
  BY DEF NewCoordinator
<1>4. ASSUME n \in Launch
      PROVE  /\ f[n].state = "none"
             /\ launch[n].state = "none"
             /\ ~launch[n].spawned
  <2>1. n > asked
    BY ConstantsType DEF TypeOK
  <2>2. launch[n].state = "none" /\ ~launch[n].spawned
    BY <1>4, <2>1 DEF AskedInv
  <2>3. Aged(launch, f, n)
    BY <1>2, <1>4
  <2> HIDE DEF n
  <2> QED
    BY <2>2, <2>3 DEF Aged, Goes
<1> HIDE DEF n
<1>5. ASSUME NEW l \in Launch, l > looked, f[l].role = "coordinator",
             f[l].state # "none"
      PROVE  Dead(f, l)
  <2>1. l # n /\ launch'[l] = f[l]
    BY <1>2, <1>4, <1>5
  <2>2. f[l].state \in Over
    <3>1. ~Runs(launch', l) /\ f[l] \in LaunchRow
      BY <1>3, <2>1 DEF Rows
    <3> QED
      BY <1>5, <2>1, <3>1 DEF Runs, LaunchRow
  <2>3. Dead(launch', l) \/ Worked(launch'[l])
    BY <1>5, <2>1, <2>2
  <2>4. Worked(launch'[l]) => launch'[l].spawned
    BY DEF WorkedInv, Worked
  <2>5. ~Worked(launch'[l])
    BY <1>1, <1>5, <2>1, <2>4 DEF Excused, Tried
  <2> QED
    BY <2>1, <2>3, <2>5 DEF Dead
<1>6. Tried(launch') \subseteq DeathRun(f, r)
  <2>1. SUFFICES ASSUME NEW l \in Tried(launch') PROVE l \in DeathRun(f, r)
    OBVIOUS
  <2>2. /\ l \in Launch
        /\ l > looked
        /\ launch'[l].role = "coordinator"
        /\ launch'[l].spawned
    BY <2>1 DEF Tried
  <2>3. l # n
    <3>1. SUFFICES ASSUME l = n PROVE FALSE
      OBVIOUS
    <3>2. LaunchMoves(l)
      BY <2>2, StepMovesLaunches
    <3>3. launch[l].state = "none" /\ ~launch[l].spawned
      BY <1>4, <2>2, <3>1
    <3> QED
      BY <2>2, <3>2, <3>3 DEF LaunchMoves, Aged, Goes
  <2>4. launch'[l] = f[l] /\ launch'[l].state # "none"
    BY <1>2, <2>2, <2>3 DEF WorkedInv
  <2>5. Dead(f, l) /\ ~Untried(f, l)
    BY <1>5, <2>2, <2>4 DEF Untried
  <2> QED
    BY <1>5, <2>2, <2>4, <2>5 DEF DeathRun
<1>7. Cardinality(Tried(launch')) <= Cardinality(DeathRun(f, r))
      /\ Cardinality(Tried(launch')) \in Nat
      /\ Cardinality(DeathRun(f, r)) \in Nat
  <2>1. IsFiniteSet(Launch)
    BY ConstantsType, FS_Interval DEF Launch
  <2>2. IsFiniteSet(DeathRun(f, r))
    BY <2>1, FS_Subset DEF DeathRun
  <2> QED
    BY <1>6, <2>2, FS_Subset, FS_CardinalityType
<1>8. ~(Cardinality(DeathRun(f, r)) >= MaxDeaths) /\ MaxDeaths \in Nat
  BY <1>2, LeaseAssumption DEF Stopped
<1> QED
  BY <1>7, <1>8

\* One more element is at most one more to count.
LEMMA OneMore ==
  ASSUME NEW S, NEW x, IsFiniteSet(S)
  PROVE  /\ IsFiniteSet(S \cup {x})
         /\ Cardinality(S \cup {x}) <= Cardinality(S) + 1
         /\ Cardinality(S \cup {x}) \in Nat
<1> DEFINE c == Cardinality(S)
           d == Cardinality(S \cup {x})
<1>1. IsFiniteSet(S \cup {x})
  BY FS_AddElement
<1>2. d = IF x \in S THEN c ELSE c + 1
  BY FS_AddElement
<1>3. c \in Nat /\ d \in Nat
  BY <1>1, FS_CardinalityType
<1> HIDE DEF c, d
<1>4. d <= c + 1
  BY <1>2, <1>3
<1> QED
  BY <1>1, <1>3, <1>4 DEF c, d

LEMMA DeathStep ==
  ASSUME TypeOK, AskedInv, SpawnInv, WorkedInv, Sole(launch, lease),
         PendingHolds, DeathInv, [Next]_vars, "coordinator" \notin Asks
  PROVE  DeathInv'
<1>1. AskedInv' /\ WorkedInv'
  BY AskedStep, WorkedStep
<1>2. CASE Looks
  BY <1>1, <1>2, DeathsForgotten
<1>3. CASE looked' = looked
  <2>1. ASSUME NEW l \in Launch, l > looked, launch'[l].role = "coordinator",
               launch'[l].state \in Over
        PROVE  Dead(launch', l) \/ Worked(launch'[l])
    BY <1>3, <2>1, OverStep
  <2>2. /\ (Excused(launch))' <=> Excused(launch')
        /\ (Tried(launch))' = Tried(launch')
        /\ (ToStart(launch))' = ToStart(launch')
    BY <1>3 DEF Excused, Tried, ToStart
  <2>3. MaxDeaths \in Nat
    BY LeaseAssumption
  <2>4. SUFFICES /\ Excused(launch') \/ Cardinality(Tried(launch')) <= MaxDeaths
                 /\ ToStart(launch') # {} =>
                      Excused(launch') \/ Cardinality(Tried(launch')) < MaxDeaths
    BY <1>3, <2>1, <2>2 DEF DeathInv, Dead
  <2>5. CASE Excused(launch)
    BY <1>3, <2>5, ExcuseStays
  <2>6. CASE NewCoordinator
    <3>1. Excused(launch') \/ Cardinality(Tried(launch')) < MaxDeaths
      BY <1>1, <1>3, <2>1, <2>6, WakeSpares
    <3> QED
      BY <2>3, <3>1, TriedFinite
  <2>7. CASE ~Excused(launch) /\ ~NewCoordinator
    <3>1. ASSUME NEW l \in Tried(launch')
          PROVE  l \in Tried(launch) \/ l \in ToStart(launch)
      <4>1. l \in Launch /\ l > looked /\ launch'[l].role = "coordinator"
            /\ launch'[l].spawned
        BY <3>1 DEF Tried
      <4>2. LaunchMoves(l)
        BY <4>1, StepMovesLaunches
      <4> QED
        BY <4>1, <4>2 DEF LaunchMoves, Aged, SameState, Tried, ToStart
    <3>2. ASSUME NEW l \in ToStart(launch') PROVE l \in ToStart(launch)
      <4>1. l \in Launch /\ l > looked /\ launch'[l].role = "coordinator"
            /\ launch'[l].state = "pending" /\ ~launch'[l].spawned
        BY <3>2 DEF ToStart
      <4>2. LaunchMoves(l)
        BY <4>1, StepMovesLaunches
      <4>3. ~(l = asked + 1 /\ asked' = asked + 1)
        <5>1. asked \in Nat
          BY ConstantsType DEF TypeOK
        <5> QED
          BY <2>7, <4>1, <5>1, NewLaunch DEF NewWorker
      <4> QED
        BY <4>1, <4>2, <4>3 DEF LaunchMoves, Aged, Goes, SameState, ToStart
    <3>3. \A k, l \in ToStart(launch) : k = l
      BY DEF ToStart, Sole, Runs
    <3>4. /\ Cardinality(Tried(launch)) <= MaxDeaths
          /\ ToStart(launch) # {} => Cardinality(Tried(launch)) < MaxDeaths
      BY <2>7 DEF DeathInv
    <3>5. CASE Tried(launch') \subseteq Tried(launch)
      <4>1. Cardinality(Tried(launch')) <= Cardinality(Tried(launch))
        BY <3>5, TriedFinite
      <4>2. ToStart(launch') # {} => ToStart(launch) # {}
        BY <3>2
      <4>3. /\ Cardinality(Tried(launch')) \in Nat
            /\ Cardinality(Tried(launch)) \in Nat
        BY TriedFinite
      <4> QED
        BY <2>3, <3>4, <4>1, <4>2, <4>3
    <3>6. CASE ~(Tried(launch') \subseteq Tried(launch))
      <4>1. PICK l \in Tried(launch') : l \notin Tried(launch)
        BY <3>6
      <4>2. l \in ToStart(launch) /\ launch'[l].spawned
        BY <3>1, <4>1 DEF Tried
      <4>3. Tried(launch') \subseteq Tried(launch) \cup {l}
        BY <3>1, <3>3, <4>2
      <4>4. ToStart(launch') = {}
        BY <3>2, <3>3, <4>2 DEF ToStart
      <4>5. Cardinality(Tried(launch)) < MaxDeaths
        BY <3>4, <4>2
      <4> DEFINE S == Tried(launch)
                 T == Tried(launch')
      <4>6. IsFiniteSet(S) /\ Cardinality(S) \in Nat /\ Cardinality(T) \in Nat
        BY TriedFinite
      <4> HIDE DEF S, T
      <4>7. /\ IsFiniteSet(S \cup {l})
            /\ Cardinality(S \cup {l}) <= Cardinality(S) + 1
            /\ Cardinality(S \cup {l}) \in Nat
        BY <4>6, OneMore
      <4>8. Cardinality(T) <= Cardinality(S \cup {l})
        BY <4>3, <4>7, FS_Subset DEF S, T
      <4>9. Cardinality(T) <= MaxDeaths
        BY <2>3, <4>5, <4>6, <4>7, <4>8 DEF S
      <4> QED
        BY <4>4, <4>9 DEF T
    <3> QED
      BY <3>5, <3>6
  <2> QED
    BY <2>5, <2>6, <2>7
<1> QED
  BY <1>2, <1>3, StepMovesLease

\* A coordinator that cannot work is not started for ever: while none started
\* since you looked wrote anything, or was replaced, wake() asks for at most
\* MaxDeaths of them (while no holder asks for a rotation), however late the
\* deaths are noticed and however the clock is set.
THEOREM DeathsEnd ==
  ASSUME "coordinator" \notin Asks
  PROVE  Spec => []DeathsBounded
<1> DEFINE Base == TypeOK /\ AskedInv /\ SpawnInv /\ WorkedInv
           Seat == Sole(launch, lease) /\ PendingHolds
           Inv  == Base /\ Seat /\ DeathInv
<1>1. Init => Base
  BY TypeInit, AskedInit
     DEF Init, SpawnInv, OneStarter, Starting, WorkedInv, NotAsked
<1>2. Init => Seat
  BY DEF Init, Sole, Runs, PendingHolds, NotAsked
<1>3. Init => DeathInv
  <2>1. SUFFICES ASSUME Init PROVE DeathInv
    OBVIOUS
  <2>2. Tried(launch) = {} /\ ToStart(launch) = {}
    BY <2>1 DEF Init, Tried, ToStart, NotAsked
  <2>3. Cardinality({}) <= MaxDeaths
    BY FS_EmptySet, LeaseAssumption
  <2>4. \A l \in Launch : launch[l].state \notin Over
    BY <2>1 DEF Init, NotAsked, Over
  <2> QED
    BY <2>2, <2>3, <2>4 DEF DeathInv
<1>4. Inv /\ [Next]_vars => Inv'
  <2> SUFFICES ASSUME Inv, [Next]_vars PROVE Inv'
    OBVIOUS
  <2>1. Base'
    BY TypeStep, AskedStep, SpawnStep, WorkedStep
  <2>2. Seat'
    BY SoleStep, PendingStep
  <2>3. DeathInv'
    BY DeathStep
  <2> QED
    BY <2>1, <2>2, <2>3
<1>5. Inv => DeathsBounded
  BY DeathsFollow
<1> QED
  BY <1>1, <1>2, <1>3, <1>4, <1>5, PTL DEF Spec

=============================================================================
