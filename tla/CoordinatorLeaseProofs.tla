----------------------- MODULE CoordinatorLeaseProofs -----------------------
(***************************************************************************)
(* Theorems about CoordinatorLease, for every number of launches, starters *)
(* and tokens and every length of a lease, a launch, a grace and a backoff.*)
(***************************************************************************)
EXTENDS CoordinatorLease, TLAPS

-----------------------------------------------------------------------------
(* What the operators on the tables return.                                *)

Rows == [Launch -> LaunchRow]

LEMMA ConstantsType ==
  /\ LeaseTTL \in Nat
  /\ LaunchTTL \in Nat
  /\ Window \in Nat
  /\ IdleGrace \in Nat
  /\ MaxLaunch \in Nat
  /\ MaxTime \in Nat
  BY LeaseAssumption

LEMMA NowType == ASSUME TypeOK PROVE now \in Nat
  BY LeaseAssumption DEF TypeOK, Time

LEMMA MovedType ==
  ASSUME NEW r, NEW S
  PROVE  Moved(r, S) \subseteq Launch \X Launch
  BY DEF Moved

LEMMA LaterType ==
  ASSUME NEW a \in Nat, NEW b \in Nat
  PROVE  /\ Later(a, b) \in Nat
         /\ Later(a, b) >= a
         /\ Later(a, b) >= b
  BY DEF Later

LEMMA EndedType ==
  ASSUME TypeOK, NEW f \in Rows, NEW S, NEW kind \in Over, NEW cause \in Cause
  PROVE  Ended(f, S, kind, cause) \in Rows
<1>1. now \in Nat
  BY NowType
<1> SUFFICES ASSUME NEW l \in Launch
             PROVE  [f[l] EXCEPT !.state = kind, !.cause = cause, !.at = now]
                      \in LaunchRow
  BY DEF Rows, Ended
<1>2. f[l] \in LaunchRow
  BY DEF Rows
<1> QED
  BY <1>1, <1>2 DEF LaunchRow

LEMMA ExpiredType ==
  ASSUME TypeOK, NEW f \in Rows
  PROVE  Expired(f) \in Rows
<1>1. "expired" \in Over /\ "pending past until" \in Cause
  BY DEF Over, Cause
<1> QED
  BY <1>1, EndedType DEF Expired

LEMMA LapsedType ==
  ASSUME TypeOK, NEW f \in Rows, NEW z \in Lease
  PROVE  /\ Lapsed(z) \in Lease
         /\ Freed(z) \in Lease
         /\ LapsedLaunches(f, z) \in Rows
         /\ \A l \in Launch : FreedBy(z, l) \in Lease
<1>1. Freed(z) \in Lease
  BY DEF Freed, Lease
<1> QED
  BY <1>1, ExpiredType DEF Lapsed, LapsedLaunches, FreedBy

LEMMA LeaseRowType ==
  ASSUME TypeOK, NEW z \in Lease, NEW h \in Holder, NEW until \in Nat
  PROVE  /\ Claimed(z, h, until) \in Lease
         /\ Beaten(z) \in Lease
<1>1. Claimed(z, h, until) \in Lease
  BY DEF Claimed, Lease
<1>2. Later(z.until, now + LeaseTTL) \in Nat
  <2>1. z.until \in Nat
    BY DEF Lease
  <2>2. now + LeaseTTL \in Nat
    BY NowType, ConstantsType
  <2> QED
    BY <2>1, <2>2, LaterType
<1>3. Beaten(z) \in Lease
  BY <1>2 DEF Beaten, Lease
<1> QED
  BY <1>1, <1>3

LEMMA UpdatedType ==
  ASSUME NEW f \in Rows, NEW l \in Launch, NEW w \in LaunchRow
  PROVE  [f EXCEPT ![l] = w] \in Rows
  BY DEF Rows

LEMMA SpokeType ==
  ASSUME TypeOK, NEW w \in LaunchRow, NEW until \in Nat
  PROVE  /\ Reached(w, until) \in LaunchRow
         /\ Spoke(w, until) \in LaunchRow
<1>1. Later(w.wroteAt, now) \in Nat /\ Later(w.reach, until) \in Nat
  BY NowType, LaterType DEF LaunchRow
<1>2. Reached(w, until) \in LaunchRow
  BY <1>1 DEF Reached, LaunchRow
<1>3. Reached(w, until).wroteAt = w.wroteAt
  BY DEF Reached, LaunchRow
<1>4. Spoke(w, until) \in LaunchRow
  BY <1>1, <1>2, <1>3 DEF Spoke, LaunchRow
<1> QED
  BY <1>2, <1>4

LEMMA WroteType ==
  ASSUME TypeOK, NEW f \in Rows, NEW h \in Holder, NEW until \in Nat
  PROVE  Wrote(f, h, until) \in Rows
<1>1. CASE h = Operator
  BY <1>1 DEF Wrote
<1>2. CASE h # Operator
  <2>1. h \in Launch
    BY <1>2 DEF Holder
  <2>2. f[h] \in LaunchRow
    BY <2>1 DEF Rows
  <2> QED
    BY <1>2, <2>1, <2>2, SpokeType, UpdatedType DEF Wrote
<1> QED
  BY <1>1, <1>2

LEMMA AskedType ==
  ASSUME TypeOK, NEW f \in Rows, NEW role \in {"coordinator", "worker"},
         NEW token \in Nat, NEW reach \in Nat
  PROVE  Asked(f, role, token, reach) \in Rows
<1>1. now \in Nat /\ now + LaunchTTL \in Nat
  BY NowType, LeaseAssumption
<1>2. NotAsked \in LaunchRow
  BY DEF NotAsked, LaunchRow, Cause
<1>3. [NotAsked EXCEPT !.role = role, !.state = "pending", !.token = token,
                       !.until = now + LaunchTTL, !.reach = reach, !.at = now]
        \in LaunchRow
  BY <1>1, <1>2 DEF LaunchRow
<1> QED
  BY <1>3 DEF Asked, Rows

\* The launch asked for next.
LEMMA NextLaunch ==
  ASSUME TypeOK, MayAsk
  PROVE  /\ asked + 1 \in Launch
         /\ asked + 1 \in 0..MaxLaunch
         /\ asked + 1 \in Holder
  BY LeaseAssumption DEF TypeOK, MayAsk, Launch, Holder

-----------------------------------------------------------------------------
(* Type correctness.                                                       *)

\* What the parts of TypeOK about the tables say, as facts to cite.
LEMMA TableType ==
  ASSUME TypeOK
  PROVE  /\ launch \in Rows
         /\ lease \in Lease
         /\ lease.holder \in Holder
         /\ \A l \in Launch : launch[l] \in LaunchRow
         /\ now + LeaseTTL \in Nat
         /\ now + LaunchTTL \in Nat
<1>1. launch \in Rows /\ lease \in Lease
  BY DEF TypeOK, Rows
<1>2. lease.holder \in Holder
  BY <1>1 DEF Lease
<1>3. \A l \in Launch : launch[l] \in LaunchRow
  BY <1>1 DEF Rows
<1> QED
  BY <1>1, <1>2, <1>3, NowType, ConstantsType

\* The tables' part of TypeOK, after a step.
TablesOK == /\ lease' \in Lease
            /\ launch' \in Rows
            /\ after' \subseteq Launch \X Launch
            /\ asked' \in 0..MaxLaunch

LEMMA WakeType ==
  ASSUME TypeOK, NEW f \in Rows, NEW r \in SUBSET (Launch \X Launch),
         NEW z \in Lease, WakeFrom(f, r, z)
  PROVE  TablesOK
<1> DEFINE z1 == Lapsed(z)
           f1 == Expired(f)
           r1 == Moved(r, Due(f))
           f2 == IF z1.standing THEN f1
                   ELSE Ended(f1, Stale(f1), "ended", "lost the lease")
           r2 == IF z1.standing THEN r1 ELSE Moved(r1, Stale(f1))
<1>1. z1 \in Lease
  BY LapsedType
<1>2. f2 \in Rows
  <2>1. f1 \in Rows
    BY ExpiredType
  <2>2. "ended" \in Over /\ "lost the lease" \in Cause
    BY DEF Over, Cause
  <2>3. Ended(f1, Stale(f1), "ended", "lost the lease") \in Rows
    BY <2>1, <2>2, EndedType
  <2> QED
    BY <2>1, <2>3
<1>3. r2 \subseteq Launch \X Launch
  BY MovedType
<1>4. CASE Wakes(f2, r2, z1) /\ MayAsk /\ z1.token < MaxToken
  <2>1. /\ lease' = Claimed(z1, asked + 1, now + LaunchTTL)
        /\ launch' = Asked(f2, "coordinator", z1.token + 1, now + LaunchTTL)
        /\ after' = Moved(r2, {asked + 1})
        /\ asked' = asked + 1
    BY <1>4 DEF WakeFrom
  <2>2. z1.token + 1 \in Nat
    BY <1>1 DEF Lease
  <2>3. now + LaunchTTL \in Nat
    BY TableType
  <2>4. asked + 1 \in Holder /\ asked + 1 \in 0..MaxLaunch
    BY <1>4, NextLaunch
  <2>5. lease' \in Lease
    BY <1>1, <2>1, <2>3, <2>4, LeaseRowType
  <2>6. launch' \in Rows
    BY <1>2, <2>1, <2>2, <2>3, AskedType
  <2> QED
    BY <2>1, <2>4, <2>5, <2>6, MovedType DEF TablesOK
<1>5. CASE ~(Wakes(f2, r2, z1) /\ MayAsk /\ z1.token < MaxToken)
  <2>1. /\ lease' = z1
        /\ launch' = f2
        /\ after' = r2
        /\ asked' = asked
    BY <1>5 DEF WakeFrom
  <2> QED
    BY <1>1, <1>2, <1>3, <2>1 DEF TypeOK, TablesOK
<1> HIDE DEF z1, f1, r1, f2, r2
<1> QED
  BY <1>4, <1>5

LEMMA LookType ==
  ASSUME TypeOK, NEW f \in Rows, NEW r, NEW cause \in Cause, Look(f, r, cause)
  PROVE  /\ launch' \in Rows
         /\ after' \subseteq Launch \X Launch
         /\ asked' \in 0..MaxLaunch
         /\ looked' \in 0..MaxLaunch
<1>1. "failed" \in Over /\ "ended" \in Over
  BY DEF Over
<1>2. Ended(f, InState(f, "pending"), "failed", cause) \in Rows
  BY <1>1, EndedType
<1>3. launch' \in Rows
  BY <1>1, <1>2, EndedType DEF Look
<1> QED
  BY <1>3, MovedType DEF Look, TypeOK

\* What a spawn claim or an activation of l may do to the tables.
Proceeded(l, went, z) ==
  \/ /\ launch' = Ended(launch, {l}, "expired", "pending past until")
     /\ after' = Moved(after, {l})
     /\ UNCHANGED lease
  \/ /\ now < launch[l].until
     /\ ~(Live(lease) /\ lease.token = launch[l].token)
     /\ launch' = Ended(LapsedLaunches(launch, lease), {l}, "failed",
                        "lease lost before active")
     /\ after' = Moved(LapsedOrder(after, launch, lease), {l})
     /\ lease' = Lapsed(lease)
  \/ /\ launch[l].role = "worker"
     /\ launch' = Ended(launch, {l}, "failed", "spawn refused")
     /\ after' = Moved(after, {l})
     /\ UNCHANGED lease
  \/ /\ Live(lease) /\ lease.token = launch[l].token
     /\ launch' = [launch EXCEPT ![l] = went]
     /\ after' = IF went.state = "active" THEN Moved(after, {l}) ELSE after
     /\ lease' = z

LEMMA ProceedsTables ==
  ASSUME NEW p, NEW l, NEW went, NEW z
  PROVE  /\ Proceeds(p, l, went, z, Pc(p, "claimed", l), Done(p)) =>
              /\ Proceeded(l, went, z)
              /\ \/ Pc(p, "claimed", l) /\ launch' = [launch EXCEPT ![l] = went]
                 \/ Done(p)
         /\ Proceeds(p, l, went, z, Done(p), Pc(p, "stopping", l)) =>
              Proceeded(l, went, z) /\ (Done(p) \/ Pc(p, "stopping", l))
  BY DEF Proceeds, Proceeded

LEMMA ProceededType ==
  ASSUME TypeOK, NEW l \in Launch, NEW went \in LaunchRow,
         NEW z \in Lease, Proceeded(l, went, z)
  PROVE  /\ lease' \in Lease
         /\ launch' \in Rows
         /\ after' \subseteq Launch \X Launch
<1>1. {"failed", "expired", "ended"} \subseteq Over
      /\ {"pending past until", "lease lost before active", "spawn refused"}
           \subseteq Cause
  BY DEF Over, Cause
<1>2. launch \in Rows /\ lease \in Lease
  BY TableType
<1>3. LapsedLaunches(launch, lease) \in Rows /\ Lapsed(lease) \in Lease
  BY <1>2, LapsedType
<1>4. /\ Ended(launch, {l}, "expired", "pending past until") \in Rows
      /\ Ended(LapsedLaunches(launch, lease), {l}, "failed",
               "lease lost before active") \in Rows
      /\ Ended(launch, {l}, "failed", "spawn refused") \in Rows
  BY <1>1, <1>2, <1>3, EndedType
<1>5. [launch EXCEPT ![l] = went] \in Rows
  BY <1>2, UpdatedType
<1>6. after \subseteq Launch \X Launch
  BY DEF TypeOK
<1> QED
  BY <1>2, <1>3, <1>4, <1>5, <1>6, MovedType DEF Proceeded

\* A starter's next state.
LEMMA PcType ==
  ASSUME TypeOK, NEW p \in Starter, NEW l \in Launch,
         NEW pc \in {"checked", "claimed", "spawned", "failing", "stopping"},
         Pc(p, pc, l) \/ Done(p)
  PROVE  starter' \in [Starter -> StarterState]
  BY DEF TypeOK, Pc, Done, StarterState

LEMMA PcLaunch ==
  ASSUME TypeOK, NEW p \in Starter, starter[p].pc # "idle"
  PROVE  starter[p].launch \in Launch
  BY DEF TypeOK, StarterState

\* One session's next state.
LEMMA SessionType ==
  ASSUME TypeOK, NEW l \in Launch, NEW s \in {"none", "late", "running", "gone"},
         session' = [session EXCEPT ![l] = s]
  PROVE  session' \in [Launch -> {"none", "late", "running", "gone"}]
  BY DEF TypeOK

LEMMA StopType ==
  ASSUME TypeOK, NEW l \in Launch, StopNamed(l)
  PROVE  session' \in [Launch -> {"none", "late", "running", "gone"}]
  BY DEF TypeOK, StopNamed

LEMMA YouType == ASSUME TypeOK, You PROVE TypeOK'
<1>1. ASSUME NEW a \in Agents \ {setting}, SetAgent(a) PROVE TypeOK'
  BY <1>1 DEF TypeOK, SetAgent, Processes, clock
<1>2. ASSUME NEW hold \in Holds, Take(hold) PROVE TypeOK'
  <2>1. "takeover" \in Cause
    BY DEF Cause
  <2>2. /\ launch' \in Rows
        /\ after' \subseteq Launch \X Launch
        /\ asked' \in 0..MaxLaunch
        /\ looked' \in 0..MaxLaunch
    BY <1>2, <2>1, LookType, TableType DEF Take
  <2>3. now + hold \in Nat /\ Operator \in Holder
    BY NowType, LeaseAssumption DEF Holder
  <2>4. lease' \in Lease
    BY <1>2, <2>3, LeaseRowType, TableType DEF Take
  <2>5. known' \in [Holder -> Nat]
    <3>1. lease.token + 1 \in Nat
      BY TableType DEF Lease
    <3> QED
      BY <1>2, <3>1 DEF Take, TypeOK
  <2> QED
    BY <1>2, <2>2, <2>4, <2>5 DEF Take, Look, TypeOK, clock, Rows
<1>3. ASSUME OperatorRelease PROVE TypeOK'
  <2>1. "operator release" \in Cause
    BY DEF Cause
  <2>2. LapsedLaunches(launch, lease) \in Rows /\ Freed(lease) \in Lease
    BY LapsedType, TableType
  <2>3. /\ launch' \in Rows
        /\ after' \subseteq Launch \X Launch
        /\ asked' \in 0..MaxLaunch
        /\ looked' \in 0..MaxLaunch
    BY <1>3, <2>1, <2>2, LookType DEF OperatorRelease
  <2> QED
    BY <1>3, <2>2, <2>3
       DEF OperatorRelease, Look, Processes, TypeOK, clock, Rows
<1> QED
  BY <1>1, <1>2, <1>3 DEF You

LEMMA HolderType == ASSUME TypeOK, HolderStep PROVE TypeOK'
<1>1. ASSUME NEW l \in Launch, Claim(l) PROVE TypeOK'
  <2> DEFINE z == Lapsed(lease)
             f == LapsedLaunches(launch, lease)
  <2>1. z \in Lease /\ f \in Rows
    BY LapsedType, TableType
  <2>2. l \in Holder
    BY DEF Holder
  <2>3. Beaten(z) \in Lease /\ Claimed(z, l, now + LeaseTTL) \in Lease
    BY <2>1, <2>2, LeaseRowType, TableType
  <2>4. lease' = Beaten(z) \/ lease' = Claimed(z, l, now + LeaseTTL)
    BY <1>1 DEF Claim
  <2>5. lease' \in Lease
    BY <2>3, <2>4
  <2>6. Wrote(f, l, now + LeaseTTL) \in Rows
    BY <2>1, <2>2, WroteType, TableType
  <2>7. launch' \in Rows
    BY <1>1, <2>6 DEF Claim
  <2>8. lease'.token \in Nat
    BY <2>5 DEF Lease
  <2>9. after' \subseteq Launch \X Launch
    BY <1>1, MovedType DEF Claim, LapsedOrder, TypeOK
  <2> QED
    BY <1>1, <2>2, <2>5, <2>7, <2>8, <2>9 DEF Claim, TypeOK, clock, Rows
<1>2. ASSUME NEW h \in Holder, UnderToken(h),
             lease' \in Lease, launch' \in Rows,
             after' \subseteq Launch \X Launch, asked' \in 0..MaxLaunch
      PROVE  TypeOK'
  BY <1>2 DEF UnderToken, TypeOK, clock, Rows
<1>3. Freed(lease) \in Lease /\ Beaten(lease) \in Lease
  BY LapsedType, LeaseRowType, TableType
<1>4. \A until \in Nat : Wrote(launch, lease.holder, until) \in Rows
  BY WroteType, TableType
<1>5. ASSUME NEW h \in Holder, Beat(h) \/ Write(h) \/ HolderRelease(h)
      PROVE  TypeOK'
  <2>1. lease' \in Lease /\ launch' \in Rows
    BY <1>3, <1>4, <1>5, TableType DEF Beat, Write, HolderRelease
  <2> QED
    BY <1>2, <1>5, <2>1 DEF Beat, Write, HolderRelease, TypeOK
<1>6. ASSUME NEW h \in Holder, NEW role \in Asks, RequestLaunch(h, role)
      PROVE  TypeOK'
  <2> DEFINE due == IF role = "worker" THEN Due(launch) ELSE {}
             f   == Ended(launch, due, "expired", "pending past until")
  <2>1. role \in {"coordinator", "worker"}
    BY LeaseAssumption
  <2>2. known[h] \in Nat
    BY DEF TypeOK
  <2>3. f \in Rows
    <3>1. "expired" \in Over /\ "pending past until" \in Cause
      BY DEF Over, Cause
    <3> QED
      BY <3>1, EndedType, TableType
  <2>4. launch' \in Rows
    <3>1. launch' = Asked(f, role, known[h], 0)
      BY <1>6 DEF RequestLaunch
    <3> HIDE DEF f
    <3> QED
      BY <2>1, <2>2, <2>3, <3>1, AskedType
  <2>5. after' \subseteq Launch \X Launch
    BY <1>6, MovedType DEF RequestLaunch
  <2>6. asked' \in 0..MaxLaunch
    BY <1>6, NextLaunch DEF RequestLaunch
  <2>7. lease' \in Lease
    BY <1>6, TableType DEF RequestLaunch
  <2> QED
    BY <1>2, <1>6, <2>4, <2>5, <2>6, <2>7 DEF RequestLaunch
<1> QED
  BY <1>1, <1>5, <1>6 DEF HolderStep

LEMMA StarterType ==
  ASSUME TypeOK, NEW p \in Starter, StarterStep(p)
  PROVE  TypeOK'
<1>1. ASSUME NEW l \in Launch, Consider(p, l) PROVE TypeOK'
  <2>1. starter' \in [Starter -> StarterState]
    BY <1>1, PcType DEF Consider
  <2> QED
    BY <1>1, <2>1 DEF Consider, TypeOK, clock, store
<1>2. ASSUME ClaimSpawn(p) PROVE TypeOK'
  <2> DEFINE l == starter[p].launch
             went == [launch[l] EXCEPT !.spawned = TRUE]
  <2>1. l \in Launch
    BY <1>2, PcLaunch DEF ClaimSpawn
  <2>2. went \in LaunchRow
    BY <2>1, TableType DEF LaunchRow
  <2>3. Done(p) \/ Pc(p, "claimed", l)
    BY <1>2, ProceedsTables DEF ClaimSpawn
  <2>4. \/ Proceeded(l, went, lease)
        \/ UNCHANGED <<lease, launch, after>>
    BY <1>2, ProceedsTables DEF ClaimSpawn
  <2>5. starter' \in [Starter -> StarterState]
    BY <2>1, <2>3, PcType
  <2> HIDE DEF went, l
  <2>6. lease' \in Lease /\ launch' \in Rows /\ after' \subseteq Launch \X Launch
    BY <2>1, <2>2, <2>4, ProceededType, TableType DEF TypeOK
  <2> QED
    BY <1>2, <2>5, <2>6 DEF ClaimSpawn, TypeOK, clock, Rows
<1>3. ASSUME Spawn(p) PROVE TypeOK'
  <2>1. starter[p].launch \in Launch
    BY <1>3, PcLaunch DEF Spawn
  <2>2. starter' \in [Starter -> StarterState]
    BY <1>3, <2>1, PcType DEF Spawn
  <2>3. session' \in [Launch -> {"none", "late", "running", "gone"}]
    BY <1>3, <2>1, SessionType DEF Spawn
  <2> QED
    BY <1>3, <2>2, <2>3 DEF Spawn, TypeOK, clock, store
<1>4. ASSUME Activate(p) PROVE TypeOK'
  <2> DEFINE l == starter[p].launch
             holds == launch[l].role = "coordinator" /\ lease.holder = l
             until == IF holds THEN now + LeaseTTL ELSE 0
             went == [launch[l] EXCEPT !.state = "active", !.at = now,
                                       !.reach = Later(@, Later(now, until))]
             z == IF holds THEN Beaten(lease) ELSE lease
  <2>1. l \in Launch
    BY <1>4, PcLaunch DEF Activate
  <2>2. went \in LaunchRow
    <3>1. until \in Nat
      BY TableType
    <3>2. launch[l] \in LaunchRow /\ launch[l].reach \in Nat
      BY <2>1, TableType DEF LaunchRow
    <3> HIDE DEF until, l
    <3>3. Later(launch[l].reach, Later(now, until)) \in Nat
      BY <3>1, <3>2, NowType, LaterType
    <3> QED
      BY <3>2, <3>3, NowType DEF LaunchRow
  <2>3. z \in Lease
    BY LeaseRowType, TableType
  <2>4. \/ Proceeded(l, went, z)
        \/ UNCHANGED <<lease, launch, after>>
    BY <1>4, ProceedsTables DEF Activate
  <2>5. Done(p) \/ Pc(p, "stopping", l)
    BY <1>4, ProceedsTables DEF Activate
  <2>6. starter' \in [Starter -> StarterState]
    BY <2>1, <2>5, PcType
  <2>7. UNCHANGED <<clock, setting, asked, looked, known, served, session>>
    BY <1>4 DEF Activate
  <2> HIDE DEF l, went, z
  <2>8. lease' \in Lease /\ launch' \in Rows /\ after' \subseteq Launch \X Launch
    BY <2>1, <2>2, <2>3, <2>4, ProceededType, TableType DEF TypeOK
  <2> QED
    BY <2>6, <2>7, <2>8 DEF TypeOK, clock, Rows
<1>5. ASSUME GiveUp(p) PROVE TypeOK'
  <2>1. starter[p].launch \in Launch
    BY <1>5, PcLaunch DEF GiveUp
  <2>2. starter' \in [Starter -> StarterState]
    BY <1>5, <2>1, PcType DEF GiveUp
  <2>3. session' \in [Launch -> {"none", "late", "running", "gone"}]
    BY <1>5, <2>1, StopType DEF GiveUp
  <2> QED
    BY <1>5, <2>2, <2>3 DEF GiveUp, TypeOK, clock, store
<1>6. ASSUME Fail(p) PROVE TypeOK'
  <2> DEFINE l == starter[p].launch
  <2>1. l \in Launch
    BY <1>6, PcLaunch DEF Fail
  <2>2. "failed" \in Over /\ "start failed" \in Cause
    BY DEF Over, Cause
  <2>3. Ended(launch, {l}, "failed", "start failed") \in Rows
    BY <2>2, EndedType, TableType
  <2>4. FreedBy(lease, l) \in Lease
    BY <2>1, LapsedType, TableType
  <2>5. starter' \in [Starter -> StarterState]
    BY <1>6, <2>1, PcType DEF Fail
  <2>6. lease' \in Lease /\ launch' \in Rows /\ after' \subseteq Launch \X Launch
    <3>1. \/ /\ launch' = Ended(launch, {l}, "failed", "start failed")
             /\ after' = Moved(after, {l})
             /\ lease' = FreedBy(lease, l)
          \/ UNCHANGED <<launch, after, lease>>
      BY <1>6 DEF Fail
    <3>2. after \subseteq Launch \X Launch
      BY DEF TypeOK
    <3> HIDE DEF l
    <3> QED
      BY <2>3, <2>4, <3>1, <3>2, MovedType, TableType
  <2> QED
    BY <1>6, <2>5, <2>6 DEF Fail, TypeOK, clock, Rows
<1>7. ASSUME StopOurs(p) PROVE TypeOK'
  <2>1. starter[p].launch \in Launch
    BY <1>7, PcLaunch DEF StopOurs
  <2>2. starter' \in [Starter -> StarterState]
    BY <1>7, <2>1, PcType DEF StopOurs
  <2>3. session' \in [Launch -> {"none", "late", "running", "gone"}]
    BY <1>7, <2>1, StopType DEF StopOurs
  <2> QED
    BY <1>7, <2>2, <2>3 DEF StopOurs, TypeOK, clock, store
<1>8. ASSUME Killed(p) PROVE TypeOK'
  <2>1. starter' \in [Starter -> StarterState]
    BY <1>8, PcLaunch, PcType DEF Killed
  <2> QED
    BY <1>8, <2>1 DEF Killed, TypeOK, clock, store
<1> QED
  BY <1>1, <1>2, <1>3, <1>4, <1>5, <1>6, <1>7, <1>8 DEF StarterStep

LEMMA WatcherType == ASSUME TypeOK, Watcher PROVE TypeOK'
<1>1. {"failed", "expired", "ended"} \subseteq Over
      /\ {"0 turns", "gone", "replaced while done", "worker done",
          "spawn refused"} \subseteq Cause
  BY DEF Over, Cause
<1>2. ASSUME NEW S, NEW kind \in Over, NEW cause \in Cause
      PROVE  Ended(launch, S, kind, cause) \in Rows
  BY EndedType, TableType
<1>3. ASSUME Status PROVE TypeOK'
  <2>1. Lapsed(lease) \in Lease /\ Expired(launch) \in Rows
    BY LapsedType, ExpiredType, TableType
  <2> QED
    BY <1>3, <2>1, MovedType DEF Status, Processes, TypeOK, clock, Rows
<1>4. ASSUME ServiceBeat PROVE TypeOK'
  <2>1. lease.holder \in Launch
    BY <1>4, TableType DEF ServiceBeat, Holder
  <2>2. Beaten(lease) \in Lease
    BY LeaseRowType, TableType
  <2>3. Reached(launch[lease.holder], now + LeaseTTL) \in LaunchRow
    BY <2>1, SpokeType, TableType
  <2>4. launch' \in Rows
    BY <1>4, <2>1, <2>3, UpdatedType, TableType DEF ServiceBeat
  <2> QED
    BY <1>4, <2>2, <2>4 DEF ServiceBeat, Processes, TypeOK, clock, Rows
<1>5. ASSUME NEW l \in Launch, StopOver(l) PROVE TypeOK'
  BY <1>5 DEF StopOver, Listing, TypeOK, clock, store
<1>6. ASSUME NEW l \in Launch, EndUnlisted(l) PROVE TypeOK'
  <2>1. launch' \in Rows
    BY <1>1, <1>2, <1>6 DEF EndUnlisted
  <2>2. lease' \in Lease
    BY <1>6, LapsedType, TableType DEF EndUnlisted
  <2> QED
    BY <1>6, <2>1, <2>2, MovedType DEF EndUnlisted, Processes, TypeOK, clock, Rows
<1>7. ASSUME NEW l \in Launch, ReplaceDone(l) PROVE TypeOK'
  <2> DEFINE f == Ended(launch, {l}, "ended", "replaced while done")
             r == Moved(after, {l})
             z == FreedBy(lease, l)
  <2>1. f \in Rows
    BY <1>1, <1>2
  <2>2. r \in SUBSET (Launch \X Launch) /\ z \in Lease
    BY MovedType, LapsedType, TableType
  <2>3. WakeFrom(f, r, z)
    BY <1>7 DEF ReplaceDone
  <2> HIDE DEF f, r, z
  <2>4. TablesOK
    BY <2>1, <2>2, <2>3, WakeType
  <2> QED
    BY <1>7, <2>4 DEF ReplaceDone, TablesOK, Processes, TypeOK, clock, Rows
<1>8. ASSUME NEW l \in Launch, EndDoneWorker(l) \/ RefuseWorker(l)
      PROVE  TypeOK'
  <2>1. launch' \in Rows
    BY <1>1, <1>2, <1>8 DEF EndDoneWorker, RefuseWorker
  <2> QED
    BY <1>8, <2>1, MovedType
       DEF EndDoneWorker, RefuseWorker, Processes, TypeOK, clock, Rows
<1> QED
  BY <1>3, <1>4, <1>5, <1>6, <1>7, <1>8 DEF Watcher

LEMMA TypeStep == TypeOK /\ [Next]_vars => TypeOK'
<1> SUFFICES ASSUME TypeOK, [Next]_vars PROVE TypeOK'
  OBVIOUS
<1>1. CASE Tick
  BY <1>1, LeaseAssumption DEF Tick, Processes, TypeOK, store, Time
<1>2. CASE StepBack
  <2>1. now' \in Time
    BY <1>2, LeaseAssumption DEF StepBack, TypeOK, Time
  <2>2. back' \in 0..MaxBack
    BY <1>2, LeaseAssumption DEF StepBack, TypeOK
  <2> QED
    BY <1>2, <2>1, <2>2 DEF StepBack, Processes, TypeOK, store
<1>3. CASE Wake
  <2>1. TablesOK
    BY <1>3, WakeType, TableType DEF Wake, TypeOK
  <2> QED
    BY <1>3, <2>1 DEF Wake, TablesOK, Processes, TypeOK, clock, Rows
<1>4. CASE You
  BY <1>4, YouType
<1>5. CASE HolderStep
  BY <1>5, HolderType
<1>6. ASSUME NEW p \in Starter, StarterStep(p) PROVE TypeOK'
  BY <1>6, StarterType
<1>7. ASSUME NEW l \in Launch, Appears(l) \/ Vanishes(l) PROVE TypeOK'
  BY <1>7 DEF Appears, Vanishes, Listing, TypeOK, clock, store
<1>8. CASE Watcher
  BY <1>8, WatcherType
<1>9. CASE UNCHANGED vars
  BY <1>9 DEF vars, clock, store, TypeOK
<1> QED
  BY <1>1, <1>2, <1>3, <1>4, <1>5, <1>6, <1>7, <1>8, <1>9 DEF Next

LEMMA TypeInit == Init => TypeOK
<1> SUFFICES ASSUME Init PROVE TypeOK
  OBVIOUS
<1>1. NotAsked \in LaunchRow
  BY DEF NotAsked, LaunchRow, Cause
<1>2. 1 \in Time /\ 0 \in 0..MaxBack /\ 0 \in 0..MaxLaunch
  BY LeaseAssumption DEF Time
<1>3. lease \in Lease
  BY DEF Init, Lease, Holder
<1> QED
  BY <1>1, <1>2, <1>3 DEF Init, TypeOK, StarterState

\* Every variable keeps its type: the rows of launches, the lease, what holders
\* were told, the sessions listed and the starters' local state.
THEOREM TypeCorrect == Spec => []TypeOK
  BY TypeInit, TypeStep, PTL DEF Spec
=============================================================================
