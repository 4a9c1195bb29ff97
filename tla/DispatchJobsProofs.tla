------------------------- MODULE DispatchJobsProofs -------------------------
(***************************************************************************)
(* Proofs about DispatchJobs for every set of jobs, lands, branches, runs, *)
(* write lists and lifetimes.                                              *)
(*                                                                         *)
(* OneWriter needs that a process writes only for a running job.  Landed   *)
(* needs what lands know between their transactions: that an intent is     *)
(* written on a branch that holds the job's base, that branches only grow, *)
(* so that a branch once past the base is never back at it, and that a     *)
(* land which is to fail an authorised job saw the branch past the base    *)
(* and without the job's commit.                                           *)
(***************************************************************************)
EXTENDS DispatchJobs, TLAPS

States == TerminalStates \cup BeforeAuthorised \cup {"authorised"}
Commits == (Job \X Run) \cup Other
Intents == [run : Run, onto : Branch]

Row == [state : States, writes : WriteSets, expires : Int, unsigned : Int, base : SUBSET Commits,
        bound : BOOLEAN, passed : SUBSET Run, intent : {NoIntent} \cup Intents, moved : BOOLEAN]

Acting == {"finishing", "swapping", "adopting", "failing"}

LandState ==
  [pc : {"judging"}, job : Job, expect : Judgeable, who : {"A", "C"}, run : Run, onto : Branch]
  \cup [pc : {"authorising"}, job : Job, who : {"A", "C"}, run : Run, onto : Branch]
  \cup [pc : {"lost"}, job : Job]
  \cup [pc : Acting, job : Job, expect : Judgeable \cup {"authorised"}]

TypeOK ==
  /\ now \in Int
  /\ job \in [Job -> {Unfiled} \cup Row]
  /\ process \subseteq Job
  /\ ended \in BOOLEAN
  /\ branch \in [Branch -> SUBSET Commits]
  /\ swapped \subseteq Branch \X (Job \X Run)
  /\ offered \subseteq Job
  /\ land \in [Land -> {Idle} \cup LandState]

------------------------------------------------------------------------------
(***************************************************************************)
(* The inductive invariant.                                                *)
(***************************************************************************)

Running == \A j \in process : job[j] # Unfiled /\ job[j].state = "running"

\* What a row says of its job, the branches and the swaps.
RowOK(j, r, br, sw) ==
  /\ r.state \in BeforeAuthorised => r.intent = NoIntent /\ ~r.moved
  /\ r.state \in {"authorised", "adopted"} => r.intent # NoIntent
  /\ r.state = "adopted" => <<j, r.intent.run>> \in br[r.intent.onto]
  /\ r.intent # NoIntent => r.base \subseteq br[r.intent.onto]
  /\ r.moved => /\ \A x \in sw : x[2][1] # j
                /\ r.intent # NoIntent => br[r.intent.onto] # r.base

\* What a swap says of the row of its job.
SwapOK(x, r, br) ==
  /\ r # Unfiled
  /\ r.intent = [run |-> x[2][2], onto |-> x[1]]
  /\ x[2] \in br[x[1]]

\* What a land knows of the row of its job.
LandOK(d, r, br, sw) ==
  /\ r # Unfiled
  /\ d.pc = "authorising" => r.base \subseteq br[d.onto]
  /\ d.pc \in {"finishing", "swapping", "adopting"} => d.expect = "authorised" /\ r.intent # NoIntent
  /\ d.pc = "adopting" => <<d.job, r.intent.run>> \in br[r.intent.onto]
  /\ d.pc = "failing" /\ d.expect = "authorised" =>
       /\ r.intent # NoIntent
       /\ br[r.intent.onto] # r.base
       /\ \A x \in sw : x[2][1] # d.job

Rows == \A j \in Job : job[j] # Unfiled => RowOK(j, job[j], branch, swapped)
Swaps == \A x \in swapped : SwapOK(x, job[x[2][1]], branch)
Offers == \A j \in offered : job[j] # Unfiled /\ job[j].intent # NoIntent
Lands == \A l \in Land : land[l] # Idle => LandOK(land[l], job[land[l].job], branch, swapped)

Inv == TypeOK /\ Running /\ OneWriter /\ Rows /\ Swaps /\ Offers /\ Lands

------------------------------------------------------------------------------
(***************************************************************************)
(* Rows that a step keeps, and branches that grow.                         *)
(***************************************************************************)

\* A row after a step that neither files, authorises, adopts nor fails it for a moved base.
Kept(r, s) ==
  \/ s = r
  \/ /\ r \in Row /\ s \in Row
     /\ s.writes = r.writes /\ s.base = r.base /\ s.intent = r.intent /\ s.moved = r.moved
     /\ s.state \notin {"authorised", "adopted"}
     /\ s.state \in BeforeAuthorised => r.state \in BeforeAuthorised

Grown(br, cr) == \A b \in Branch : br[b] \subseteq cr[b]

LEMMA UnfiledIsNoRow == Unfiled \notin Row /\ NoIntent \notin Intents /\ Idle \notin LandState
  BY DEF Unfiled, Row, NoIntent, Intents, Idle, LandState, States, TerminalStates, BeforeAuthorised, Acting

\* The sweep keeps every row, and leaves running, authorised and ended ones as they are.
LEMMA SweptRows ==
  ASSUME TypeOK, NEW j \in Job
  PROVE  /\ Swept[j] \in {Unfiled} \cup Row
         /\ Kept(job[j], Swept[j])
         /\ Swept[j] = Unfiled <=> job[j] = Unfiled
         /\ job[j] # Unfiled =>
              /\ Swept[j].state \in {job[j].state, "failed"}
              /\ job[j].state = "running" => Swept[j] = job[j]
              /\ Swept[j].state # "failed" => Swept[j] = job[j]
  <1>1. job[j] \in {Unfiled} \cup Row
    BY DEF TypeOK
  <1>2. CASE ~Lapsed(job[j])
    <2>1. Swept[j] = job[j]
      BY <1>2 DEF Swept
    <2> QED BY <2>1, <1>1 DEF Kept
  <1>3. CASE Lapsed(job[j])
    <2>1. Swept[j] = [job[j] EXCEPT !.state = "failed"]
      BY <1>3 DEF Swept
    <2>2. job[j].state \in BeforeAuthorised \ {"running"}
      BY <1>3 DEF Lapsed, BeforeAuthorised
    <2>3. job[j] # Unfiled /\ job[j] \in Row
      BY <1>1, <2>2 DEF Unfiled, BeforeAuthorised
    <2>4. /\ Swept[j] \in Row
          /\ Swept[j].state = "failed" /\ Swept[j].writes = job[j].writes /\ Swept[j].base = job[j].base
          /\ Swept[j].intent = job[j].intent /\ Swept[j].moved = job[j].moved
      BY <2>1, <2>3 DEF Row, States, TerminalStates
    <2> QED BY <2>2, <2>3, <2>4, UnfiledIsNoRow DEF Kept, BeforeAuthorised
  <1> QED BY <1>2, <1>3

LEMMA KeptTwice ==
  ASSUME NEW r, NEW s, NEW t, Kept(r, s), Kept(s, t)
  PROVE  Kept(r, t)
  BY DEF Kept

\* A kept row stays well with branches that grow.
LEMMA RowKept ==
  ASSUME NEW j, NEW r \in Row, NEW s, NEW br, NEW cr, NEW sw,
         Kept(r, s), Grown(br, cr), RowOK(j, r, br, sw)
  PROVE  s \in Row /\ RowOK(j, s, cr, sw)
  <1>1. s \in Row /\ s.intent = r.intent /\ s.base = r.base /\ s.moved = r.moved
    BY DEF Kept
  <1>2. /\ s.state \in BeforeAuthorised => r.state \in BeforeAuthorised
        /\ s.state \in {"authorised", "adopted"} => s.state = r.state
    BY DEF Kept
  <1>3. r.intent # NoIntent => r.intent.onto \in Branch
    BY DEF Row, Intents
  <1>4. r.intent # NoIntent => r.base \subseteq cr[r.intent.onto]
    BY <1>3 DEF RowOK, Grown
  <1>5. s.state = "adopted" => <<j, r.intent.run>> \in cr[r.intent.onto]
    BY <1>2, <1>3 DEF RowOK, Grown
  <1>6. r.moved /\ r.intent # NoIntent => cr[r.intent.onto] # r.base
    <2> SUFFICES ASSUME r.moved, r.intent # NoIntent
                 PROVE  cr[r.intent.onto] # r.base
      OBVIOUS
    <2>1. r.base \subseteq br[r.intent.onto] /\ br[r.intent.onto] # r.base
      BY DEF RowOK
    <2>2. br[r.intent.onto] \subseteq cr[r.intent.onto]
      BY <1>3 DEF Grown
    <2> QED BY <2>1, <2>2
  <1> QED BY <1>1, <1>2, <1>4, <1>5, <1>6 DEF RowOK

LEMMA SwapKept ==
  ASSUME NEW x, x[1] \in Branch, NEW r, NEW s, NEW br, NEW cr,
         Kept(r, s), Grown(br, cr), SwapOK(x, r, br)
  PROVE  SwapOK(x, s, cr)
  <1>1. s # Unfiled /\ s.intent = r.intent
    BY UnfiledIsNoRow DEF Kept, SwapOK
  <1> QED BY <1>1 DEF SwapOK, Grown

LEMMA LandKept ==
  ASSUME NEW d \in LandState, NEW r \in Row, NEW s, NEW br, NEW cr, NEW sw, NEW j,
         Kept(r, s), Grown(br, cr), RowOK(j, r, br, sw), LandOK(d, r, br, sw)
  PROVE  LandOK(d, s, cr, sw)
  <1>1. s # Unfiled /\ s.intent = r.intent /\ s.base = r.base
    BY UnfiledIsNoRow DEF Kept
  <1>2. r.intent # NoIntent => br[r.intent.onto] \subseteq cr[r.intent.onto]
    BY DEF Row, Intents, Grown
  <1>3. d.pc = "authorising" => r.base \subseteq cr[d.onto]
    BY DEF LandOK, LandState, Grown, Acting
  <1>4. d.pc = "adopting" => <<d.job, r.intent.run>> \in cr[r.intent.onto]
    BY <1>2 DEF LandOK
  <1>5. d.pc = "failing" /\ d.expect = "authorised" => cr[r.intent.onto] # r.base
    <2> SUFFICES ASSUME d.pc = "failing", d.expect = "authorised"
                 PROVE  cr[r.intent.onto] # r.base
      OBVIOUS
    <2>1. r.intent # NoIntent /\ br[r.intent.onto] # r.base
      BY DEF LandOK
    <2>2. r.base \subseteq br[r.intent.onto]
      BY <2>1 DEF RowOK
    <2> QED BY <2>1, <2>2, <1>2
  <1> QED BY <1>1, <1>3, <1>4, <1>5 DEF LandOK

------------------------------------------------------------------------------
(***************************************************************************)
(* Steps that keep every row.                                              *)
(***************************************************************************)

\* Whoever holds files after a step that keeps the rows held them before.
LEMMA WritersKept ==
  ASSUME Inv, job' \in [Job -> {Unfiled} \cup Row],
         \A k \in Job : Kept(job[k], job'[k]),
         \A k \in process' : k \in process \/ Live(job[k])
  PROVE  OneWriter'
  <1> SUFFICES ASSUME NEW j \in Job, NEW k \in Job, j # k, Holds(j)', Holds(k)'
               PROVE  job'[j].writes \cap job'[k].writes = {}
    BY DEF OneWriter
  <1>1. \A i \in Job : Live(job'[i]) => Live(job[i])
    <2> SUFFICES ASSUME NEW i \in Job, Live(job'[i])
                 PROVE  Live(job[i])
      OBVIOUS
    <2>1. CASE job'[i] = job[i]
      BY <2>1
    <2>2. CASE job'[i] # job[i]
      <3>1. job'[i] \in Row /\ job'[i].state \notin {"authorised", "adopted"}
        BY <2>2 DEF Kept
      <3>2. job'[i].state \in BeforeAuthorised
        BY <3>1 DEF Row, States, TerminalStates, Live
      <3>3. job[i].state \in BeforeAuthorised
        BY <2>2, <3>2 DEF Kept
      <3> QED BY <3>3 DEF Live, BeforeAuthorised, TerminalStates
    <2> QED BY <2>1, <2>2
  <1>2. \A i \in Job : job'[i].writes = job[i].writes
    BY DEF Kept
  <1>3. Holds(j) /\ Holds(k)
    BY <1>1 DEF Holds
  <1> QED BY <1>2, <1>3 DEF Inv, OneWriter

\* What the invariant says of one job whose row is kept, while branches grow.
LEMMA OneKept ==
  ASSUME Inv, NEW k \in Job, Kept(job[k], job'[k]), Grown(branch, branch')
  PROVE  /\ job[k] = Unfiled <=> job'[k] = Unfiled
         /\ job[k] # Unfiled => job'[k].intent = job[k].intent
         /\ job'[k] # Unfiled => RowOK(k, job'[k], branch', swapped)
         /\ \A x \in swapped : x[2][1] = k => SwapOK(x, job'[k], branch')
         /\ \A l \in Land : land[l] # Idle /\ land[l].job = k => LandOK(land[l], job'[k], branch', swapped)
  <1>1. job[k] = Unfiled <=> job'[k] = Unfiled
    BY UnfiledIsNoRow DEF Kept
  <1>2. job[k] # Unfiled => job[k] \in Row /\ RowOK(k, job[k], branch, swapped)
    BY DEF Inv, TypeOK, Rows
  <1>3. job'[k] # Unfiled => RowOK(k, job'[k], branch', swapped)
    BY <1>1, <1>2, RowKept
  <1>4. ASSUME NEW x \in swapped, x[2][1] = k
        PROVE  SwapOK(x, job'[k], branch')
    <2>1. x[1] \in Branch
      BY DEF Inv, TypeOK
    <2>2. SwapOK(x, job[k], branch)
      BY <1>4 DEF Inv, Swaps
    <2> QED BY <2>1, <2>2, SwapKept
  <1>5. ASSUME NEW l \in Land, land[l] # Idle, land[l].job = k
        PROVE  LandOK(land[l], job'[k], branch', swapped)
    <2>1. land[l] \in LandState
      BY <1>5 DEF Inv, TypeOK
    <2>2. LandOK(land[l], job[k], branch, swapped)
      BY <1>5 DEF Inv, Lands
    <2>3. job[k] \in Row /\ RowOK(k, job[k], branch, swapped)
      BY <1>2, <2>2 DEF LandOK
    <2> QED BY <2>1, <2>2, <2>3, LandKept
  <1>6. job[k] # Unfiled => job'[k].intent = job[k].intent
    BY DEF Kept
  <1> QED BY <1>1, <1>3, <1>4, <1>5, <1>6

LEMMA RowsKept ==
  ASSUME Inv, job' \in [Job -> {Unfiled} \cup Row],
         \A k \in Job : Kept(job[k], job'[k]),
         Grown(branch, branch'), swapped' = swapped
  PROVE  /\ Rows' /\ Swaps'
         /\ \A k \in Job : job[k] # Unfiled => job'[k] # Unfiled /\ job'[k].intent = job[k].intent
         /\ \A l \in Land : land[l] # Idle => LandOK(land[l], job'[land[l].job], branch', swapped')
  <1>1. \A k \in Job :
          /\ job[k] = Unfiled <=> job'[k] = Unfiled
          /\ job[k] # Unfiled => job'[k].intent = job[k].intent
          /\ job'[k] # Unfiled => RowOK(k, job'[k], branch', swapped)
          /\ \A x \in swapped : x[2][1] = k => SwapOK(x, job'[k], branch')
          /\ \A l \in Land : land[l] # Idle /\ land[l].job = k => LandOK(land[l], job'[k], branch', swapped)
    BY OneKept
  <1>2. \A x \in swapped : x[2][1] \in Job
    BY DEF Inv, TypeOK
  <1>3. \A l \in Land : land[l] # Idle => land[l].job \in Job
    BY DEF Inv, TypeOK, LandState
  <1> QED BY <1>1, <1>2, <1>3 DEF Rows, Swaps

\* A step that keeps the rows, lets branches grow and moves lands to what they may know.
LEMMA KeptStep ==
  ASSUME Inv, job' \in [Job -> {Unfiled} \cup Row],
         \A k \in Job : Kept(job[k], job'[k]),
         \A k \in process : k \in process' => job'[k] = job[k],
         process' \subseteq process,
         now' \in Int, ended' \in BOOLEAN,
         branch' \in [Branch -> SUBSET Commits], Grown(branch, branch'), swapped' = swapped,
         offered' \subseteq Job,
         \A k \in offered' : k \in offered \/ (job[k] # Unfiled /\ job[k].intent # NoIntent),
         land' \in [Land -> {Idle} \cup LandState],
         \A l \in Land : \/ land'[l] = land[l]
                         \/ land'[l] = Idle
                         \/ LandOK(land'[l], job'[land'[l].job], branch', swapped')
  PROVE  Inv'
  <1>1. TypeOK'
    BY DEF Inv, TypeOK
  <1>2. Running'
    BY DEF Inv, Running
  <1>3. OneWriter'
    BY WritersKept
  <1>4. /\ Rows' /\ Swaps'
        /\ \A k \in Job : job[k] # Unfiled => job'[k] # Unfiled /\ job'[k].intent = job[k].intent
        /\ \A l \in Land : land[l] # Idle => LandOK(land[l], job'[land[l].job], branch', swapped')
    BY RowsKept
  <1>5. Offers'
    BY <1>4 DEF Inv, Offers, TypeOK
  <1>6. Lands'
    BY <1>4 DEF Lands
  <1> QED BY <1>1, <1>2, <1>3, <1>4, <1>5, <1>6 DEF Inv

\* The same, where only rows change.
LEMMA JobStep ==
  ASSUME Inv, job' \in [Job -> {Unfiled} \cup Row],
         \A k \in Job : Kept(job[k], job'[k]),
         \A k \in process : job'[k] = job[k],
         UNCHANGED <<now, process, ended, branch, swapped, offered, land>>
  PROVE  Inv'
  <1>1. Grown(branch, branch')
    BY DEF Grown
  <1>2. /\ now \in Int /\ ended \in BOOLEAN /\ branch \in [Branch -> SUBSET Commits]
        /\ offered \subseteq Job /\ land \in [Land -> {Idle} \cup LandState]
    BY DEF Inv, TypeOK
  <1> QED BY <1>1, <1>2, KeptStep

\* A sweep keeps the rows, and those of running processes as they are.
LEMMA SweptStep ==
  ASSUME Inv, job' = Swept
  PROVE  /\ job' \in [Job -> {Unfiled} \cup Row]
         /\ \A k \in Job : Kept(job[k], job'[k])
         /\ \A k \in process : job'[k] = job[k]
  <1>1. \A k \in Job : Swept[k] \in {Unfiled} \cup Row /\ Kept(job[k], Swept[k])
    BY SweptRows DEF Inv
  <1>2. Swept \in [Job -> {Unfiled} \cup Row]
    <2>1. Swept = [k \in Job |-> Swept[k]]
      BY DEF Swept
    <2> QED BY <1>1, <2>1
  <1>3. \A k \in process : Swept[k] = job[k]
    BY SweptRows DEF Inv, Running, TypeOK
  <1> QED BY <1>1, <1>2, <1>3

\* A sweep and a transition of one job whose process is gone.
LEMMA MovesStep ==
  ASSUME Inv, NEW j \in Job, NEW row \in Row, job' = [Swept EXCEPT ![j] = row],
         Swept[j] # Unfiled, Kept(Swept[j], row), j \notin process
  PROVE  /\ job' \in [Job -> {Unfiled} \cup Row]
         /\ \A k \in Job : Kept(job[k], job'[k])
         /\ \A k \in process : job'[k] = job[k]
  <1>1. \A k \in Job : Swept[k] \in {Unfiled} \cup Row /\ Kept(job[k], Swept[k])
    BY SweptRows DEF Inv
  <1>2. Swept \in [Job -> {Unfiled} \cup Row] /\ DOMAIN Swept = Job
    <2>1. Swept = [k \in Job |-> Swept[k]] /\ DOMAIN Swept = Job
      BY DEF Swept
    <2> QED BY <1>1, <2>1
  <1>3. \A k \in process : Swept[k] = job[k] /\ k \in Job
    BY SweptRows DEF Inv, Running, TypeOK
  <1>4. job'[j] = row /\ \A k \in Job : k # j => job'[k] = Swept[k]
    BY <1>2
  <1>5. Kept(job[j], row)
    BY <1>1, KeptTwice
  <1> QED BY <1>1, <1>2, <1>3, <1>4, <1>5

------------------------------------------------------------------------------
(***************************************************************************)
(* The steps of the store.                                                 *)
(***************************************************************************)

Apart == UNCHANGED <<now, process, ended, branch, swapped, offered, land>>

LEMMA ProcessRuns ==
  ASSUME Inv, NEW j \in process
  PROVE  Swept[j] = job[j] /\ Swept[j].state = "running"
  BY SweptRows DEF Inv, Running, TypeOK

\* Any transition but the two that a land makes after its authorisation and the authorisation itself.
LEMMA TransitionStep ==
  ASSUME Inv, NEW j \in Job, NEW state \in States, Moves(j, state),
         Swept[j].state # "none", j \notin process,
         state \notin {"authorised", "adopted"},
         state \in BeforeAuthorised => Swept[j].state \in BeforeAuthorised,
         Apart
  PROVE  Inv'
  <1> DEFINE row == [Swept[j] EXCEPT !.state = state]
  <1>1. Swept[j] # Unfiled /\ Swept[j] \in Row
    BY SweptRows DEF Inv, Unfiled
  <1>2. /\ row \in Row /\ row.state = state
        /\ row.writes = Swept[j].writes /\ row.base = Swept[j].base
        /\ row.intent = Swept[j].intent /\ row.moved = Swept[j].moved
    BY <1>1 DEF Row
  <1>3. Kept(Swept[j], row)
    BY <1>1, <1>2 DEF Kept
  <1>4. job' = [Swept EXCEPT ![j] = row]
    BY DEF Moves
  <1> HIDE DEF row
  <1>5. /\ job' \in [Job -> {Unfiled} \cup Row]
        /\ \A k \in Job : Kept(job[k], job'[k])
        /\ \A k \in process : job'[k] = job[k]
    BY <1>1, <1>2, <1>3, <1>4, MovesStep
  <1> QED BY <1>5, JobStep DEF Apart

LEMMA SignStep ==
  ASSUME Inv, NEW j \in Job, Sign(j) \/ SlotWait(j) \/ Recommend(j)
  PROVE  Inv'
  <1>1. j \notin process
    BY ProcessRuns DEF Sign, SlotWait, Recommend, In
  <1>2. CASE Sign(j)
    <2>1. Moves(j, "signed") /\ Swept[j].state = "filed" /\ Apart
      BY <1>2 DEF Sign, In, Apart
    <2> QED BY <1>1, <2>1, TransitionStep DEF States, BeforeAuthorised
  <1>3. CASE SlotWait(j)
    <2>1. Moves(j, "queued") /\ Swept[j].state = "signed" /\ Apart
      BY <1>3 DEF SlotWait, In, Apart
    <2> QED BY <1>1, <2>1, TransitionStep DEF States, BeforeAuthorised
  <1>4. CASE Recommend(j)
    <2>1. Moves(j, "recommended") /\ Swept[j].state = "verified" /\ Apart
      BY <1>4 DEF Recommend, In, Apart
    <2> QED BY <1>1, <2>1, TransitionStep DEF States, BeforeAuthorised
  <1> QED BY <1>2, <1>3, <1>4

LEMMA StopStep ==
  ASSUME Inv, NEW j \in Job, RunsExited(j) \/ StopRecorded(j)
  PROVE  Inv'
  <1>1. CASE RunsExited(j)
    <2>1. Moves(j, "verifying") /\ Swept[j].state = "running" /\ j \notin process /\ Apart
      BY <1>1 DEF RunsExited, In, Apart
    <2> QED BY <2>1, TransitionStep DEF States, BeforeAuthorised
  <1>2. CASE StopRecorded(j)
    <2>1. /\ Moves(j, "cancelled") \/ Moves(j, "failed")
          /\ Swept[j].state = "running" /\ j \notin process /\ Apart
      BY <1>2 DEF StopRecorded, In, Apart
    <2> QED BY <2>1, TransitionStep DEF States, BeforeAuthorised, TerminalStates
  <1> QED BY <1>1, <1>2

LEMMA CancelStep ==
  ASSUME Inv, NEW j \in Job, CancelByPlanner(j) \/ CancelByHuman(j)
  PROVE  Inv'
  <1>1. /\ Moves(j, "cancelled") /\ Apart
        /\ Swept[j].state \in (BeforeAuthorised \ {"running"}) \cup {"authorised"}
    BY DEF CancelByPlanner, CancelByHuman, In, Apart
  <1>2. j \notin process /\ Swept[j].state # "none"
    BY <1>1, ProcessRuns DEF BeforeAuthorised
  <1> QED BY <1>1, <1>2, TransitionStep DEF States, BeforeAuthorised, TerminalStates

LEMMA VerificationStep ==
  ASSUME Inv, NEW j \in Job, RecordVerification(j)
  PROVE  Inv'
  <1>1. Swept[j].state = "verifying" /\ Apart
    BY DEF RecordVerification, In, Apart
  <1>2. j \notin process
    BY <1>1, ProcessRuns
  <1>3. CASE Moves(j, "failed")
    BY <1>1, <1>2, <1>3, TransitionStep DEF States, BeforeAuthorised, TerminalStates
  <1>4. CASE ~Moves(j, "failed")
    <2>1. PICK r \in Run :
            job' = [Swept EXCEPT ![j].passed = job[j].passed \cup {r},
                                 ![j].state = IF job[j].passed \cup {r} = Run THEN "verified" ELSE "verifying"]
      BY <1>4 DEF RecordVerification
    <2> DEFINE passed == job[j].passed \cup {r}
               state == IF passed = Run THEN "verified" ELSE "verifying"
               row == [Swept[j] EXCEPT !.passed = passed, !.state = state]
    <2>2. Swept[j] # Unfiled /\ Swept[j] \in Row /\ Swept[j] = job[j]
      BY <1>1, SweptRows DEF Inv, Unfiled
    <2>3. passed \subseteq Run
      BY <2>2 DEF Row
    <2>4. state \in States /\ state \notin {"authorised", "adopted"}
      BY DEF States, BeforeAuthorised
    <2> HIDE DEF passed, state
    <2>5. /\ row \in Row /\ row.state = state
          /\ row.writes = Swept[j].writes /\ row.base = Swept[j].base
          /\ row.intent = Swept[j].intent /\ row.moved = Swept[j].moved
      BY <2>2, <2>3, <2>4 DEF Row
    <2>6. Kept(Swept[j], row)
      BY <1>1, <2>2, <2>4, <2>5 DEF Kept, BeforeAuthorised
    <2>7. job' = [Swept EXCEPT ![j] = row]
      BY <2>1 DEF passed, state
    <2> HIDE DEF row
    <2>8. /\ job' \in [Job -> {Unfiled} \cup Row]
          /\ \A k \in Job : Kept(job[k], job'[k])
          /\ \A k \in process : job'[k] = job[k]
      BY <1>2, <2>2, <2>5, <2>6, <2>7, MovesStep
    <2> QED BY <1>1, <2>8, JobStep DEF Apart
  <1> QED BY <1>3, <1>4

LEMMA EndStep ==
  ASSUME Inv, EndEnvelope
  PROVE  Inv'
  <1>1. ASSUME NEW k \in Job
        PROVE  /\ job'[k] \in {Unfiled} \cup Row /\ Kept(job[k], job'[k])
               /\ k \in process => job'[k] = job[k]
    <2>1. Swept[k] \in {Unfiled} \cup Row /\ Kept(job[k], Swept[k])
      BY SweptRows DEF Inv
    <2>2. CASE In(k, BeforeAuthorised \ {"running"}) /\ job[k].bound
      <3>1. job'[k] = [Swept[k] EXCEPT !.state = "failed"]
        BY <2>2 DEF EndEnvelope
      <3>2. Swept[k].state \in BeforeAuthorised /\ Swept[k].state # "running"
        BY <2>2 DEF In
      <3>3. Swept[k] \in Row
        BY <2>1, <3>2 DEF Unfiled, BeforeAuthorised
      <3>4. /\ job'[k] \in Row /\ job'[k].state = "failed"
            /\ job'[k].writes = Swept[k].writes /\ job'[k].base = Swept[k].base
            /\ job'[k].intent = Swept[k].intent /\ job'[k].moved = Swept[k].moved
        BY <3>1, <3>3 DEF Row, States, TerminalStates
      <3>5. Kept(Swept[k], job'[k])
        BY <3>3, <3>4 DEF Kept, BeforeAuthorised
      <3>6. k \notin process
        BY <3>2, ProcessRuns
      <3> QED BY <2>1, <3>4, <3>5, <3>6, KeptTwice
    <2>3. CASE ~(In(k, BeforeAuthorised \ {"running"}) /\ job[k].bound)
      <3>1. job'[k] = Swept[k]
        BY <2>3 DEF EndEnvelope
      <3> QED BY <2>1, <3>1, ProcessRuns
    <2> QED BY <2>2, <2>3
  <1>2. job' = [k \in Job |-> job'[k]]
    BY DEF EndEnvelope
  <1>3. job' \in [Job -> {Unfiled} \cup Row] /\ \A k \in process : job'[k] = job[k]
    BY <1>1, <1>2 DEF Inv, TypeOK
  <1> QED BY <1>1, <1>3, JobStep DEF EndEnvelope

\* A row that holds its files after being kept held them before.
LEMMA HeldBefore ==
  ASSUME NEW r, NEW s, Kept(r, s), Live(s)
  PROVE  Live(r) /\ s.writes = r.writes
  <1>1. CASE s = r
    BY <1>1
  <1>2. CASE s # r
    <2>1. s \in Row /\ s.state \notin {"authorised", "adopted"} /\ s.writes = r.writes
      BY <1>2 DEF Kept
    <2>2. s.state \in BeforeAuthorised
      BY <2>1 DEF Row, States, TerminalStates, Live
    <2>3. r.state \in BeforeAuthorised
      BY <1>2, <2>2 DEF Kept
    <2> QED BY <2>1, <2>3 DEF Live, BeforeAuthorised, TerminalStates
  <1> QED BY <1>1, <1>2

LEMMA FileStep ==
  ASSUME Inv, NEW j \in Job, File(j)
  PROVE  Inv'
  <1>1. PICK w \in WriteSets, life \in Lifetimes, b \in Branch, bound \in BOOLEAN :
          /\ job[j] = Unfiled /\ ~Clashes(w)
          /\ job' = [Swept EXCEPT ![j] = Filed(w, life, branch[b], bound)]
    BY DEF File
  <1>2. UNCHANGED <<now, process, ended, branch, swapped, offered, land>>
    BY DEF File
  <1> DEFINE row == Filed(w, life, branch[b], bound)
  <1>3. row \in Row
    <2>1. now \in Int /\ life \in Int /\ UnsignedLease \in Int /\ branch[b] \in SUBSET Commits
      BY DispatchAssumption DEF Inv, TypeOK
    <2> QED BY <2>1 DEF Filed, Row, States, BeforeAuthorised
  <1>4. /\ row.writes = w /\ row.intent = NoIntent /\ row.moved = FALSE
        /\ row.state \in {"filed", "signed"}
    BY DEF Filed
  <1> HIDE DEF row
  <1>5. \A k \in Job : Swept[k] \in {Unfiled} \cup Row /\ Kept(job[k], Swept[k])
    BY SweptRows DEF Inv
  <1>6. Swept \in [Job -> {Unfiled} \cup Row] /\ DOMAIN Swept = Job
    <2>1. Swept = [k \in Job |-> Swept[k]] /\ DOMAIN Swept = Job
      BY DEF Swept
    <2> QED BY <1>5, <2>1
  <1>7. job'[j] = row /\ \A k \in Job : k # j => job'[k] = Swept[k]
    BY <1>1, <1>6 DEF row
  <1>8. job' \in [Job -> {Unfiled} \cup Row]
    BY <1>1, <1>3, <1>6 DEF row
  <1>9. TypeOK'
    BY <1>2, <1>8 DEF Inv, TypeOK
  <1>10. j \notin process
    BY <1>1 DEF Inv, Running
  <1>11. Running'
    BY <1>2, <1>7, <1>10, ProcessRuns DEF Inv, Running, TypeOK
  <1>12. OneWriter'
    <2>1. ASSUME NEW k \in Job, k # j, Holds(k)'
          PROVE  Holds(k) /\ Live(Swept[k]) /\ job'[k].writes = job[k].writes /\ job'[k].writes \cap w = {}
      <3>1. job'[k] = Swept[k] /\ (Live(Swept[k]) \/ k \in process)
        BY <1>2, <1>7, <2>1 DEF Holds
      <3>2. Live(Swept[k])
        BY <3>1, ProcessRuns DEF Live, TerminalStates
      <3>3. Holds(k) /\ job'[k].writes = job[k].writes
        BY <1>5, <3>1, <3>2, HeldBefore DEF Holds
      <3>4. job'[k].writes \cap w = {}
        BY <1>1, <3>1, <3>2 DEF Clashes
      <3> QED BY <3>2, <3>3, <3>4
    <2>2. SUFFICES ASSUME NEW i \in Job, NEW k \in Job, i # k, Holds(i)', Holds(k)'
                   PROVE  job'[i].writes \cap job'[k].writes = {}
      BY DEF OneWriter
    <2>3. CASE i = j
      BY <1>4, <1>7, <2>1, <2>2, <2>3
    <2>4. CASE k = j
      BY <1>4, <1>7, <2>1, <2>2, <2>4
    <2>5. CASE i # j /\ k # j
      BY <2>1, <2>2, <2>5 DEF Inv, OneWriter
    <2> QED BY <2>3, <2>4, <2>5
  <1>13. Grown(branch, branch')
    BY <1>2 DEF Grown
  <1>14. \A k \in Job : k # j =>
           /\ job[k] = Unfiled <=> job'[k] = Unfiled
           /\ job[k] # Unfiled => job'[k].intent = job[k].intent
           /\ job'[k] # Unfiled => RowOK(k, job'[k], branch', swapped)
           /\ \A x \in swapped : x[2][1] = k => SwapOK(x, job'[k], branch')
           /\ \A l \in Land : land[l] # Idle /\ land[l].job = k => LandOK(land[l], job'[k], branch', swapped)
    BY <1>5, <1>7, <1>13, OneKept
  <1>15. /\ \A x \in swapped : x[2][1] \in Job /\ x[2][1] # j
         /\ \A l \in Land : land[l] # Idle => land[l].job \in Job /\ land[l].job # j
         /\ \A k \in offered : k \in Job /\ k # j
    BY <1>1 DEF Inv, TypeOK, LandState, Swaps, SwapOK, Lands, LandOK, Offers
  <1>16. RowOK(j, row, branch, swapped)
    BY <1>4 DEF RowOK, BeforeAuthorised
  <1>17. Rows'
    BY <1>2, <1>7, <1>14, <1>16 DEF Rows
  <1>18. Swaps' /\ Offers' /\ Lands'
    BY <1>2, <1>14, <1>15 DEF Swaps, Offers, Lands, Inv
  <1> QED BY <1>9, <1>11, <1>12, <1>17, <1>18 DEF Inv

LEMMA TakeStep ==
  ASSUME Inv, NEW j \in Job, TakeSlot(j)
  PROVE  Inv'
  <1>1. /\ Swept[j].state \in {"signed", "queued"} /\ Moves(j, "running")
        /\ process' = process \cup {j}
        /\ UNCHANGED <<now, ended, branch, swapped, offered, land>>
    BY DEF TakeSlot, In
  <1> DEFINE row == [Swept[j] EXCEPT !.state = "running"]
  <1>2. Swept[j] # Unfiled /\ Swept[j] \in Row /\ Swept[j] = job[j]
    BY <1>1, SweptRows DEF Inv, Unfiled
  <1>3. /\ row \in Row /\ row.state = "running"
        /\ row.writes = Swept[j].writes /\ row.base = Swept[j].base
        /\ row.intent = Swept[j].intent /\ row.moved = Swept[j].moved
    BY <1>2 DEF Row, States, BeforeAuthorised
  <1>4. Kept(Swept[j], row)
    BY <1>1, <1>2, <1>3 DEF Kept, BeforeAuthorised
  <1>5. job' = [Swept EXCEPT ![j] = row]
    BY <1>1 DEF Moves
  <1> HIDE DEF row
  <1>6. j \notin process
    BY <1>1, ProcessRuns
  <1>7. /\ job' \in [Job -> {Unfiled} \cup Row]
        /\ \A k \in Job : Kept(job[k], job'[k])
        /\ \A k \in process : job'[k] = job[k]
    BY <1>2, <1>3, <1>4, <1>5, <1>6, MovesStep
  <1>8. TypeOK'
    BY <1>1, <1>7 DEF Inv, TypeOK
  <1>9. job'[j] = row
    BY <1>5 DEF Swept
  <1>10. Running'
    BY <1>1, <1>3, <1>7, <1>9, UnfiledIsNoRow DEF Inv, Running
  <1>11. Live(job[j])
    BY <1>1, <1>2 DEF Live, TerminalStates
  <1>12. OneWriter'
    BY <1>1, <1>7, <1>11, WritersKept
  <1>13. Grown(branch, branch')
    BY <1>1 DEF Grown
  <1>14. /\ Rows' /\ Swaps'
         /\ \A k \in Job : job[k] # Unfiled => job'[k] # Unfiled /\ job'[k].intent = job[k].intent
         /\ \A l \in Land : land[l] # Idle => LandOK(land[l], job'[land[l].job], branch', swapped')
    BY <1>1, <1>7, <1>13, RowsKept
  <1>15. Offers' /\ Lands'
    BY <1>1, <1>14 DEF Inv, Offers, TypeOK, Lands
  <1> QED BY <1>8, <1>10, <1>12, <1>14, <1>15 DEF Inv

------------------------------------------------------------------------------
(***************************************************************************)
(* The clock, the envelope, the processes and the repository.              *)
(***************************************************************************)

LEMMA SweepStep ==
  ASSUME Inv, Sweep
  PROVE  Inv'
  BY SweptStep, JobStep DEF Sweep

LEMMA SameRows ==
  ASSUME Inv, job' = job
  PROVE  /\ job' \in [Job -> {Unfiled} \cup Row]
         /\ \A k \in Job : Kept(job[k], job'[k])
  BY DEF Inv, TypeOK, Kept

LEMMA QuietStep ==
  ASSUME Inv, job' = job, process' \subseteq process, now' \in Int, ended' \in BOOLEAN,
         UNCHANGED <<branch, swapped, offered, land>>
  PROVE  Inv'
  <1>1. Grown(branch, branch')
    BY DEF Grown
  <1>2. /\ branch \in [Branch -> SUBSET Commits] /\ offered \subseteq Job
        /\ land \in [Land -> {Idle} \cup LandState]
    BY DEF Inv, TypeOK
  <1> QED BY <1>1, <1>2, SameRows, KeptStep

\* A branch that grows, whoever moves it.
LEMMA GrowStep ==
  ASSUME Inv, NEW b \in Branch, NEW new \in SUBSET Commits, branch[b] \subseteq new,
         branch' = [branch EXCEPT ![b] = new],
         UNCHANGED <<now, job, process, ended, swapped, offered, land>>
  PROVE  Inv'
  <1>1. /\ branch \in [Branch -> SUBSET Commits] /\ offered \subseteq Job
        /\ land \in [Land -> {Idle} \cup LandState] /\ now \in Int /\ ended \in BOOLEAN
    BY DEF Inv, TypeOK
  <1>2. branch' \in [Branch -> SUBSET Commits] /\ Grown(branch, branch')
    BY <1>1 DEF Grown
  <1> QED BY <1>1, <1>2, SameRows, KeptStep

LEMMA CommitsStep ==
  ASSUME Inv, NEW b \in Branch, PersonCommits(b) \/ PersonForwards(b)
  PROVE  Inv'
  <1>1. branch \in [Branch -> SUBSET Commits]
    BY DEF Inv, TypeOK
  <1>2. CASE PersonCommits(b)
    <2>1. PICK c \in Other, d \in Branch :
            branch' = [branch EXCEPT ![b] = branch[b] \cup branch[d] \cup {c}]
      BY <1>2 DEF PersonCommits
    <2>2. branch[b] \cup branch[d] \cup {c} \in SUBSET Commits
      BY <1>1 DEF Commits
    <2> QED BY <1>2, <2>1, <2>2, GrowStep DEF PersonCommits
  <1>3. CASE PersonForwards(b)
    <2>1. PICK d \in Branch : branch[b] \subseteq branch[d] /\ branch' = [branch EXCEPT ![b] = branch[d]]
      BY <1>3 DEF PersonForwards
    <2> QED BY <1>1, <1>3, <2>1, GrowStep DEF PersonForwards
  <1> QED BY <1>2, <1>3

LEMMA CommitIsOne ==
  ASSUME Inv, NEW j \in Job, job[j] # Unfiled, job[j].intent # NoIntent
  PROVE  /\ job[j] \in Row /\ job[j].intent \in Intents
         /\ Commit(j) \in Job \X Run /\ Commit(j) \in Commits
         /\ Commit(j)[1] = j /\ Commit(j)[2] = job[j].intent.run
  <1>1. job[j] \in Row
    BY DEF Inv, TypeOK
  <1>2. job[j].intent \in Intents
    BY <1>1 DEF Row
  <1>3. job[j].intent.run \in Run
    BY <1>2 DEF Intents
  <1> QED BY <1>1, <1>2, <1>3 DEF Commit, Commits

LEMMA MergeStep ==
  ASSUME Inv, NEW j \in Job, NEW b \in Branch, OperatorMerges(j, b)
  PROVE  Inv'
  <1>1. job[j] \in Row /\ Commit(j) \in Commits
    BY CommitIsOne DEF OperatorMerges, Inv, Offers
  <1>2. job[j].base \subseteq Commits
    BY <1>1 DEF Row
  <1> DEFINE new == job[j].base \cup {Commit(j)}
  <1>3. new \in SUBSET Commits
    BY <1>1, <1>2
  <1>4. branch[b] \subseteq new /\ branch' = [branch EXCEPT ![b] = new]
    BY DEF OperatorMerges
  <1>5. UNCHANGED <<now, job, process, ended, swapped, offered, land>>
    BY DEF OperatorMerges
  <1> HIDE DEF new
  <1> QED BY <1>3, <1>4, <1>5, GrowStep

------------------------------------------------------------------------------
(***************************************************************************)
(* The steps of a land.                                                    *)
(***************************************************************************)

\* A land moves to what it may know, with a sweep or without.
LEMMA LandStep ==
  ASSUME Inv, NEW l \in Land, NEW d \in {Idle} \cup LandState,
         land' = [land EXCEPT ![l] = d], job' = job \/ job' = Swept,
         d # Idle => LandOK(d, job'[d.job], branch, swapped),
         offered' \subseteq Job,
         \A k \in offered' : k \in offered \/ (job[k] # Unfiled /\ job[k].intent # NoIntent),
         UNCHANGED <<now, process, ended, branch, swapped>>
  PROVE  Inv'
  <1>1. /\ branch \in [Branch -> SUBSET Commits] /\ now \in Int /\ ended \in BOOLEAN
        /\ land \in [Land -> {Idle} \cup LandState]
    BY DEF Inv, TypeOK
  <1>2. Grown(branch, branch')
    BY DEF Grown
  <1>3. /\ job' \in [Job -> {Unfiled} \cup Row]
        /\ \A k \in Job : Kept(job[k], job'[k])
        /\ \A k \in process : job'[k] = job[k]
    BY SameRows, SweptStep
  <1>4. land' \in [Land -> {Idle} \cup LandState]
    BY <1>1
  <1>5. ASSUME NEW m \in Land
        PROVE  land'[m] = land[m] \/ land'[m] = Idle \/ LandOK(land'[m], job'[land'[m].job], branch', swapped')
    BY <1>1
  <1> QED BY <1>1, <1>2, <1>3, <1>4, <1>5, KeptStep

\* The same, for lands that offer nothing.
LEMMA LandMoves ==
  ASSUME Inv, NEW l \in Land, NEW d \in {Idle} \cup LandState,
         land' = [land EXCEPT ![l] = d], job' = job \/ job' = Swept,
         d # Idle => LandOK(d, job'[d.job], branch, swapped),
         UNCHANGED <<now, process, ended, branch, swapped, offered>>
  PROVE  Inv'
  <1>1. offered \subseteq Job
    BY DEF Inv, TypeOK
  <1> QED BY <1>1, LandStep

LEMMA StopsStep ==
  ASSUME Inv, NEW l \in Land, Stops(l), job' = job \/ job' = Swept,
         UNCHANGED <<now, process, ended, branch, swapped, offered>>
  PROVE  Inv'
  BY LandMoves DEF Stops

\* What a land at work is.
LEMMA Working ==
  ASSUME Inv, NEW l \in Land, land[l].pc # "idle"
  PROVE  /\ land[l] # Idle /\ land[l] \in LandState /\ land[l].job \in Job
         /\ job[land[l].job] # Unfiled /\ job[land[l].job] \in Row
         /\ LandOK(land[l], job[land[l].job], branch, swapped)
         /\ RowOK(land[l].job, job[land[l].job], branch, swapped)
         /\ Swept[land[l].job] # Unfiled
  <1>1. land[l] # Idle /\ land[l] \in LandState
    BY DEF Inv, TypeOK, Idle
  <1>2. land[l].job \in Job
    BY <1>1 DEF LandState
  <1>3. LandOK(land[l], job[land[l].job], branch, swapped)
    BY <1>1 DEF Inv, Lands
  <1>4. job[land[l].job] # Unfiled /\ job[land[l].job] \in Row
    BY <1>2, <1>3 DEF LandOK, Inv, TypeOK
  <1>5. RowOK(land[l].job, job[land[l].job], branch, swapped)
    BY <1>2, <1>4 DEF Inv, Rows
  <1>6. Swept[land[l].job] # Unfiled
    BY <1>2, <1>4, SweptRows DEF Inv
  <1> QED BY <1>1, <1>2, <1>3, <1>4, <1>5, <1>6

LEMMA ReadAuthorised ==
  ASSUME Inv, NEW j \in Job, In(j, {"authorised"})
  PROVE  Finishing(j) \in LandState /\ LandOK(Finishing(j), Swept[j], branch, swapped)
  <1>1. Swept[j].state = "authorised" /\ job[j] # Unfiled /\ Swept[j] = job[j]
    BY SweptRows DEF In, Inv, Unfiled
  <1>2. job[j].intent # NoIntent
    BY <1>1 DEF Inv, Rows, RowOK
  <1>3. Finishing(j) \in LandState /\ Finishing(j).pc = "finishing" /\ Finishing(j).expect = "authorised"
    BY DEF Finishing, Going, LandState, Acting
  <1> QED BY <1>1, <1>2, <1>3 DEF LandOK

LEMMA BeginStep ==
  ASSUME Inv, NEW l \in Land, NEW j \in Job, Begin(l, j)
  PROVE  Inv'
  <1>1. job' = Swept /\ UNCHANGED <<now, process, ended, branch, swapped, offered>>
    BY DEF Begin
  <1>2. CASE In(j, {"authorised"})
    <2>1. land' = [land EXCEPT ![l] = Finishing(j)]
      BY <1>2 DEF Begin, In, Judgeable
    <2>2. Finishing(j).job = j
      BY DEF Finishing, Going
    <2> QED BY <1>1, <1>2, <2>1, <2>2, ReadAuthorised, LandMoves
  <1>3. CASE ~In(j, {"authorised"})
    <2>1. PICK who \in {"A", "C"}, r \in Run, b \in Branch :
            /\ In(j, Judgeable)
            /\ land' = [land EXCEPT ![l] = [pc |-> "judging", job |-> j, expect |-> Swept[j].state,
                                            who |-> who, run |-> r, onto |-> b]]
      BY <1>3 DEF Begin
    <2> DEFINE d == [pc |-> "judging", job |-> j, expect |-> Swept[j].state,
                     who |-> who, run |-> r, onto |-> b]
    <2>2. d \in LandState /\ d.pc = "judging" /\ d.job = j
      BY <2>1 DEF In, LandState
    <2>3. Swept[j] # Unfiled
      BY <2>1 DEF In, Unfiled, Judgeable
    <2>4. land' = [land EXCEPT ![l] = d]
      BY <2>1
    <2> HIDE DEF d
    <2>5. LandOK(d, Swept[j], branch, swapped)
      BY <2>2, <2>3 DEF LandOK
    <2> QED BY <1>1, <2>2, <2>4, <2>5, LandMoves
  <1> QED BY <1>2, <1>3

LEMMA JudgeStep ==
  ASSUME Inv, NEW l \in Land, Judge(l)
  PROVE  Inv'
  <1> DEFINE d == land[l]
             row == job[d.job]
  <1>1. d.pc = "judging" /\ UNCHANGED <<now, job, process, ended, branch, swapped, offered>>
    BY DEF Judge
  <1>2. d \in LandState /\ d.job \in Job /\ row # Unfiled /\ row \in Row
    BY <1>1, Working
  <1>3. d.expect \in Judgeable /\ d.who \in {"A", "C"} /\ d.run \in Run /\ d.onto \in Branch
    BY <1>1, <1>2 DEF LandState, Acting
  <1>4. CASE Stops(l)
    BY <1>1, <1>4, StopsStep
  <1>5. CASE Goes(l, "failing")
    <2> DEFINE e == Going("failing", d.job, d.expect)
    <2>1. land' = [land EXCEPT ![l] = e]
      BY <1>5 DEF Goes
    <2>2. e \in LandState /\ e.pc = "failing" /\ e.job = d.job /\ e.expect # "authorised"
      BY <1>2, <1>3 DEF Going, LandState, Acting, Judgeable
    <2> HIDE DEF e
    <2>3. LandOK(e, row, branch, swapped)
      BY <1>2, <2>2 DEF LandOK
    <2> QED BY <1>1, <2>1, <2>2, <2>3, LandMoves
  <1>6. CASE branch[d.onto] = row.base /\
             land' = [land EXCEPT ![l] = [pc |-> "authorising", job |-> d.job,
                                          who |-> d.who, run |-> d.run, onto |-> d.onto]]
    <2> DEFINE e == [pc |-> "authorising", job |-> d.job, who |-> d.who, run |-> d.run, onto |-> d.onto]
    <2>1. land' = [land EXCEPT ![l] = e]
      BY <1>6
    <2>2. e \in LandState /\ e.pc = "authorising" /\ e.job = d.job /\ e.onto = d.onto
      BY <1>2, <1>3 DEF LandState
    <2> HIDE DEF e
    <2>3. LandOK(e, row, branch, swapped)
      BY <1>2, <1>6, <2>2 DEF LandOK
    <2> QED BY <1>1, <2>1, <2>2, <2>3, LandMoves
  <1> QED BY <1>4, <1>5, <1>6 DEF Judge

LEMMA DiesStep ==
  ASSUME Inv, NEW l \in Land, Dies(l)
  PROVE  Inv'
  BY StopsStep DEF Dies

LEMMA RereadStep ==
  ASSUME Inv, NEW l \in Land, Reread(l)
  PROVE  Inv'
  <1> DEFINE j == land[l].job
  <1>1. land[l].pc = "lost" /\ job' = Swept /\ UNCHANGED <<now, process, ended, branch, swapped, offered>>
    BY DEF Reread
  <1>2. j \in Job
    BY <1>1, Working
  <1>3. CASE In(j, {"authorised"})
    <2>1. land' = [land EXCEPT ![l] = Finishing(j)]
      BY <1>3 DEF Reread
    <2>2. Finishing(j).job = j
      BY DEF Finishing, Going
    <2> HIDE DEF j
    <2> QED BY <1>1, <1>2, <1>3, <2>1, <2>2, ReadAuthorised, LandMoves
  <1>4. CASE ~In(j, {"authorised"})
    <2>1. Stops(l)
      BY <1>4 DEF Reread
    <2> QED BY <1>1, <2>1, StopsStep
  <1> QED BY <1>3, <1>4

\* A base moved for good: what a land that is to fail an authorised job has seen.
LEMMA MovedBase ==
  ASSUME Inv, NEW j \in Job, job[j] # Unfiled, job[j].intent # NoIntent,
         Commit(j) \notin branch[job[j].intent.onto]
  PROVE  \A x \in swapped : x[2][1] # j
  <1> SUFFICES ASSUME NEW x \in swapped, x[2][1] = j
               PROVE  FALSE
    OBVIOUS
  <1>1. SwapOK(x, job[j], branch)
    BY DEF Inv, Swaps
  <1>2. x[2] \in Job \X Run
    BY DEF Inv, TypeOK
  <1>3. x[2] = <<j, x[2][2]>>
    BY <1>2
  <1>4. job[j].intent.run = x[2][2] /\ job[j].intent.onto = x[1] /\ x[2] \in branch[x[1]]
    BY <1>1 DEF SwapOK
  <1> QED BY <1>3, <1>4 DEF Commit

LEMMA FinishStep ==
  ASSUME Inv, NEW l \in Land, Finish(l)
  PROVE  Inv'
  <1> DEFINE d == land[l]
             j == d.job
             onto == job[j].intent.onto
             next == Decision(j, branch[onto])
  <1>1. d.pc = "finishing" /\ UNCHANGED <<now, job, process, ended, branch, swapped>>
    BY DEF Finish
  <1>2. /\ d \in LandState /\ j \in Job /\ job[j] # Unfiled /\ job[j] \in Row
        /\ LandOK(d, job[j], branch, swapped)
    BY <1>1, Working
  <1>3. d.expect = "authorised" /\ job[j].intent # NoIntent
    BY <1>1, <1>2 DEF LandOK
  <1>4. /\ next \in {"adopting", "failing", "swapping"}
        /\ next = "adopting" => Commit(j) \in branch[onto]
        /\ next = "failing" => Commit(j) \notin branch[onto] /\ branch[onto] # job[j].base
    BY DEF Decision
  <1>5. next = "failing" => \A x \in swapped : x[2][1] # j
    BY <1>2, <1>3, <1>4, MovedBase
  <1>6. CASE Goes(l, next) /\ UNCHANGED offered
    <2> DEFINE e == Going(next, j, d.expect)
    <2> HIDE DEF next
    <2>1. land' = [land EXCEPT ![l] = e]
      BY <1>6 DEF Goes
    <2>2. e \in LandState /\ e.pc = next /\ e.job = j /\ e.expect = "authorised"
      BY <1>2, <1>3, <1>4 DEF Going, LandState, Acting
    <2> HIDE DEF e
    <2>3. LandOK(e, job[j], branch, swapped)
      BY <1>2, <1>3, <1>4, <1>5, <2>2 DEF LandOK, Commit
    <2> QED BY <1>1, <1>6, <2>1, <2>2, <2>3, LandMoves
  <1>7. CASE Stops(l) /\ offered' = offered \cup {j}
    <2>1. offered' \subseteq Job
      BY <1>2, <1>7 DEF Inv, TypeOK
    <2>2. \A k \in offered' : k \in offered \/ (job[k] # Unfiled /\ job[k].intent # NoIntent)
      BY <1>2, <1>3, <1>7
    <2> QED BY <1>1, <1>7, <2>1, <2>2, LandStep DEF Stops
  <1> QED BY <1>6, <1>7 DEF Finish

\* A sweep, and a row of a job without a process that changes as the invariant allows.
LEMMA RowStep ==
  ASSUME Inv, NEW j \in Job, NEW row \in Row, job' = [Swept EXCEPT ![j] = row], j \notin process,
         row.writes = job[j].writes, Live(row) => Live(job[j]),
         j \in offered => row.intent # NoIntent,
         RowOK(j, row, branch, swapped),
         \A x \in swapped : x[2][1] = j => SwapOK(x, row, branch),
         \A m \in Land : land[m] # Idle /\ land[m].job = j => LandOK(land[m], row, branch, swapped),
         NEW l \in Land, NEW d \in {Idle} \cup LandState, land' = [land EXCEPT ![l] = d],
         d # Idle => d.job = j /\ LandOK(d, row, branch, swapped),
         UNCHANGED <<now, process, ended, branch, swapped, offered>>
  PROVE  Inv'
  <1>1. \A k \in Job : Swept[k] \in {Unfiled} \cup Row /\ Kept(job[k], Swept[k])
    BY SweptRows DEF Inv
  <1>2. Swept \in [Job -> {Unfiled} \cup Row] /\ DOMAIN Swept = Job
    <2>1. Swept = [k \in Job |-> Swept[k]] /\ DOMAIN Swept = Job
      BY DEF Swept
    <2> QED BY <1>1, <2>1
  <1>3. job'[j] = row /\ \A k \in Job : k # j => job'[k] = Swept[k]
    BY <1>2
  <1>4. TypeOK'
    <2>1. job' \in [Job -> {Unfiled} \cup Row]
      BY <1>2
    <2>2. land' \in [Land -> {Idle} \cup LandState]
      BY DEF Inv, TypeOK
    <2> QED BY <2>1, <2>2 DEF Inv, TypeOK
  <1>5. Running'
    BY <1>3, ProcessRuns DEF Inv, Running, TypeOK
  <1>6. OneWriter'
    <2>1. \A k \in Job : Holds(k)' => Holds(k) /\ job'[k].writes = job[k].writes
      <3> SUFFICES ASSUME NEW k \in Job, Holds(k)'
                   PROVE  Holds(k) /\ job'[k].writes = job[k].writes
        OBVIOUS
      <3>1. CASE k = j
        BY <1>3, <3>1 DEF Holds
      <3>2. CASE k # j /\ k \in process
        BY <1>3, <3>2, ProcessRuns DEF Holds
      <3>3. CASE k # j /\ k \notin process
        BY <1>1, <1>3, <3>3, HeldBefore DEF Holds
      <3> QED BY <3>1, <3>2, <3>3
    <2> QED BY <2>1 DEF Inv, OneWriter
  <1>7. Grown(branch, branch')
    BY DEF Grown
  <1>8. \A k \in Job : k # j =>
           /\ job[k] = Unfiled <=> job'[k] = Unfiled
           /\ job[k] # Unfiled => job'[k].intent = job[k].intent
           /\ job'[k] # Unfiled => RowOK(k, job'[k], branch', swapped)
           /\ \A x \in swapped : x[2][1] = k => SwapOK(x, job'[k], branch')
           /\ \A m \in Land : land[m] # Idle /\ land[m].job = k => LandOK(land[m], job'[k], branch', swapped)
    BY <1>1, <1>3, <1>7, OneKept
  <1>9. /\ \A x \in swapped : x[2][1] \in Job
        /\ \A m \in Land : land[m] # Idle => land[m].job \in Job
        /\ offered \subseteq Job
    BY DEF Inv, TypeOK, LandState
  <1>10. Rows'
    BY <1>3, <1>8 DEF Rows
  <1>11. Swaps'
    BY <1>3, <1>8, <1>9 DEF Swaps
  <1>12. Offers'
    BY <1>3, <1>8, <1>9, UnfiledIsNoRow DEF Offers, Inv
  <1>13. Lands'
    <2> SUFFICES ASSUME NEW m \in Land, land'[m] # Idle
                 PROVE  LandOK(land'[m], job'[land'[m].job], branch', swapped')
      BY DEF Lands
    <2>1. CASE m = l
      <3>1. land'[m] = d
        BY <2>1 DEF Inv, TypeOK
      <3> QED BY <1>3, <3>1
    <2>2. CASE m # l
      <3>1. land'[m] = land[m]
        BY <2>2
      <3>2. CASE land[m].job = j
        BY <1>3, <3>1, <3>2
      <3>3. CASE land[m].job # j
        BY <1>8, <1>9, <3>1, <3>3
      <3> QED BY <3>2, <3>3
    <2> QED BY <2>1, <2>2
  <1> QED BY <1>4, <1>5, <1>6, <1>10, <1>11, <1>12, <1>13 DEF Inv

\* A job that is not authorised yet was not moved by any land, and none is finishing it.
LEMMA BeforeIntent ==
  ASSUME Inv, NEW j \in Job, In(j, Judgeable)
  PROVE  /\ Swept[j] = job[j] /\ job[j] \in Row /\ j \notin process /\ Live(job[j]) /\ j \notin offered
         /\ job[j].intent = NoIntent /\ ~job[j].moved
         /\ \A x \in swapped : x[2][1] # j
  <1>1. Swept[j] = job[j] /\ job[j] # Unfiled /\ job[j].state \in Judgeable
    BY SweptRows DEF In, Inv, Unfiled, Judgeable
  <1>2. job[j] \in Row
    BY <1>1 DEF Inv, TypeOK
  <1>3. job[j].intent = NoIntent /\ ~job[j].moved
    BY <1>1 DEF Inv, Rows, RowOK, Judgeable, BeforeAuthorised
  <1>4. \A x \in swapped : x[2][1] # j
    <2> SUFFICES ASSUME NEW x \in swapped, x[2][1] = j
                 PROVE  FALSE
      OBVIOUS
    <2>1. NoIntent = [run |-> x[2][2], onto |-> x[1]]
      BY <1>3 DEF Inv, Swaps, SwapOK
    <2> QED BY <2>1 DEF NoIntent
  <1>5. j \notin process
    BY <1>1, ProcessRuns DEF Judgeable
  <1>6. Live(job[j])
    BY <1>1 DEF Live, Judgeable, TerminalStates
  <1>7. j \notin offered
    BY <1>3 DEF Inv, Offers
  <1> QED BY <1>1, <1>2, <1>3, <1>4, <1>5, <1>6, <1>7

LEMMA AuthoriseStep ==
  ASSUME Inv, NEW l \in Land, Authorise(l)
  PROVE  Inv'
  <1> DEFINE d == land[l]
             j == d.job
  <1>1. d.pc = "authorising" /\ UNCHANGED <<now, process, ended, branch, swapped, offered>>
    BY DEF Authorise
  <1>2. /\ d \in LandState /\ j \in Job /\ job[j] # Unfiled /\ job[j] \in Row
        /\ LandOK(d, job[j], branch, swapped)
    BY <1>1, Working
  <1>3. d.run \in Run /\ d.onto \in Branch
    BY <1>1, <1>2 DEF LandState, Acting
  <1>4. job[j].base \subseteq branch[d.onto]
    BY <1>1, <1>2 DEF LandOK
  <1>5. CASE job' = Swept /\ Stops(l)
    BY <1>1, <1>5, StopsStep
  <1>6. CASE job' = Swept /\ land' = [land EXCEPT ![l] = [pc |-> "lost", job |-> j]]
    <2> DEFINE e == [pc |-> "lost", job |-> j]
    <2>1. e \in LandState /\ e.pc = "lost" /\ e.job = j
      BY <1>2 DEF LandState
    <2>2. Swept[j] # Unfiled
      BY <1>1, Working
    <2>3. land' = [land EXCEPT ![l] = e]
      BY <1>6
    <2> HIDE DEF e
    <2>4. LandOK(e, Swept[j], branch, swapped)
      BY <2>1, <2>2 DEF LandOK
    <2> QED BY <1>1, <1>6, <2>1, <2>3, <2>4, LandMoves
  <1>7. CASE /\ In(j, Judgeable)
             /\ job' = [Swept EXCEPT ![j].state = "authorised",
                                     ![j].intent = [run |-> d.run, onto |-> d.onto]]
             /\ land' = [land EXCEPT ![l] = Finishing(j)]
    <2> DEFINE intent == [run |-> d.run, onto |-> d.onto]
               row == [Swept[j] EXCEPT !.state = "authorised", !.intent = intent]
               e == Finishing(j)
    <2>1. job' = [Swept EXCEPT ![j] = row]
      BY <1>7
    <2>2. intent \in Intents /\ intent # NoIntent /\ intent.onto = d.onto
      BY <1>3 DEF Intents, NoIntent
    <2> HIDE DEF d, intent
    <2>3. /\ Swept[j] = job[j] /\ job[j] \in Row /\ j \notin process /\ Live(job[j]) /\ j \notin offered
          /\ job[j].intent = NoIntent /\ ~job[j].moved
          /\ \A x \in swapped : x[2][1] # j
      BY <1>2, <1>7, BeforeIntent
    <2>4. /\ row \in Row /\ row.state = "authorised" /\ row.intent = intent
          /\ row.writes = job[j].writes /\ row.base = job[j].base /\ row.moved = job[j].moved
      BY <2>2, <2>3 DEF Row, States
    <2>5. e \in LandState /\ e.job = j /\ e.pc = "finishing" /\ e.expect = "authorised"
      BY <1>2 DEF Finishing, Going, LandState, Acting
    <2>6. land' = [land EXCEPT ![l] = e]
      BY <1>7
    <2> HIDE DEF row, e, j
    <2>7. RowOK(j, row, branch, swapped)
      BY <1>4, <2>2, <2>3, <2>4 DEF RowOK, BeforeAuthorised
    <2>8. ASSUME NEW m \in Land, land[m] # Idle, land[m].job = j
          PROVE  LandOK(land[m], row, branch, swapped)
      <3>1. LandOK(land[m], job[j], branch, swapped)
        BY <2>8 DEF Inv, Lands
      <3> QED BY <2>3, <2>4, <3>1, UnfiledIsNoRow DEF LandOK
    <2>9. LandOK(e, row, branch, swapped)
      BY <2>2, <2>4, <2>5, UnfiledIsNoRow DEF LandOK
    <2> QED BY <1>1, <1>2, <2>1, <2>3, <2>4, <2>5, <2>6, <2>7, <2>8, <2>9, RowStep
  <1> QED BY <1>5, <1>6, <1>7 DEF Authorise

\* What lands know of a job depends on its base and its intent only.
LEMMA SameIntent ==
  ASSUME Inv, NEW j \in Job, job[j] # Unfiled, NEW row \in Row,
         row.intent = job[j].intent, row.base = job[j].base
  PROVE  /\ \A x \in swapped : x[2][1] = j => SwapOK(x, row, branch)
         /\ \A m \in Land : land[m] # Idle /\ land[m].job = j => LandOK(land[m], row, branch, swapped)
         /\ j \in offered => row.intent # NoIntent
  <1>1. ASSUME NEW x \in swapped, x[2][1] = j
        PROVE  SwapOK(x, row, branch)
    <2>1. SwapOK(x, job[j], branch)
      BY <1>1 DEF Inv, Swaps
    <2> QED BY <2>1, UnfiledIsNoRow DEF SwapOK
  <1>2. ASSUME NEW m \in Land, land[m] # Idle, land[m].job = j
        PROVE  LandOK(land[m], row, branch, swapped)
    <2>1. LandOK(land[m], job[j], branch, swapped)
      BY <1>2 DEF Inv, Lands
    <2> QED BY <2>1, UnfiledIsNoRow DEF LandOK
  <1>3. j \in offered => row.intent # NoIntent
    BY DEF Inv, Offers
  <1> QED BY <1>1, <1>2, <1>3

LEMMA AdoptStep ==
  ASSUME Inv, NEW l \in Land, Adopt(l)
  PROVE  Inv'
  <1> DEFINE j == land[l].job
  <1>1. land[l].pc = "adopting" /\ Stops(l) /\ UNCHANGED <<now, process, ended, branch, swapped, offered>>
    BY DEF Adopt
  <1>2. /\ j \in Job /\ job[j] # Unfiled /\ job[j] \in Row
        /\ LandOK(land[l], job[j], branch, swapped) /\ RowOK(j, job[j], branch, swapped)
    BY <1>1, Working
  <1>3. land[l].expect = "authorised" /\ job[j].intent # NoIntent
        /\ <<j, job[j].intent.run>> \in branch[job[j].intent.onto]
    BY <1>1, <1>2 DEF LandOK
  <1>4. CASE Unmoved(l)
    <2> DEFINE row == [Swept[j] EXCEPT !.state = "adopted"]
    <2>1. Swept[j] = job[j] /\ job[j].state = "authorised"
      BY <1>2, <1>3, <1>4, SweptRows DEF Unmoved, In, Inv
    <2>2. job' = [Swept EXCEPT ![j] = row]
      BY <1>4 DEF Adopt, Moves
    <2>3. /\ row \in Row /\ row.state = "adopted" /\ row.intent = job[j].intent /\ row.moved = job[j].moved
          /\ row.writes = job[j].writes /\ row.base = job[j].base
      BY <1>2, <2>1 DEF Row, States, TerminalStates
    <2> HIDE DEF row
    <2>4. RowOK(j, row, branch, swapped)
      BY <1>2, <1>3, <2>3 DEF RowOK, BeforeAuthorised
    <2>5. j \notin process /\ ~Live(row)
      BY <2>1, <2>3, ProcessRuns DEF Live, TerminalStates
    <2>6. /\ \A x \in swapped : x[2][1] = j => SwapOK(x, row, branch)
          /\ \A m \in Land : land[m] # Idle /\ land[m].job = j => LandOK(land[m], row, branch, swapped)
          /\ j \in offered => row.intent # NoIntent
      BY <1>2, <2>3, SameIntent
    <2>7. land' = [land EXCEPT ![l] = Idle]
      BY <1>1 DEF Stops
    <2> HIDE DEF j
    <2> QED BY <1>1, <1>2, <2>2, <2>3, <2>4, <2>5, <2>6, <2>7, RowStep
  <1>5. CASE ~Unmoved(l)
    <2>1. job' = Swept
      BY <1>5 DEF Adopt
    <2> QED BY <1>1, <2>1, StopsStep
  <1> QED BY <1>4, <1>5

LEMMA FailMovedStep ==
  ASSUME Inv, NEW l \in Land, FailMoved(l)
  PROVE  Inv'
  <1> DEFINE d == land[l]
             j == d.job
  <1>1. d.pc = "failing" /\ Stops(l) /\ UNCHANGED <<now, process, ended, branch, swapped, offered>>
    BY DEF FailMoved
  <1>2. /\ d \in LandState /\ j \in Job /\ job[j] # Unfiled /\ job[j] \in Row /\ Swept[j] # Unfiled
        /\ LandOK(d, job[j], branch, swapped) /\ RowOK(j, job[j], branch, swapped)
    BY <1>1, Working
  <1>3. d.expect \in Judgeable \cup {"authorised"}
    BY <1>1, <1>2 DEF LandState
  <1>4. CASE Unmoved(l)
    <2> DEFINE row == [Swept[j] EXCEPT !.state = "failed", !.moved = TRUE]
    <2>1. Swept[j] = job[j] /\ job[j].state = d.expect /\ Swept[j].state = d.expect
      <3>1. Swept[j].state = d.expect /\ d.expect # "failed"
        BY <1>3, <1>4 DEF Unmoved, In, Judgeable
      <3> QED BY <1>2, <3>1, SweptRows DEF Inv
    <2>2. /\ \A x \in swapped : x[2][1] # j
          /\ job[j].intent # NoIntent => branch[job[j].intent.onto] # job[j].base
      <3>1. CASE d.expect = "authorised"
        BY <1>1, <1>2, <3>1 DEF LandOK
      <3>2. CASE d.expect \in Judgeable
        <4>1. In(j, Judgeable)
          BY <2>1, <3>2 DEF In
        <4> QED BY <1>2, <4>1, BeforeIntent
      <3> QED BY <1>3, <3>1, <3>2
    <2>3. job' = [Swept EXCEPT ![j] = row]
      BY <1>4 DEF FailMoved
    <2>4. /\ row \in Row /\ row.state = "failed" /\ row.intent = job[j].intent
          /\ row.writes = job[j].writes /\ row.base = job[j].base
      BY <1>2, <2>1 DEF Row, States, TerminalStates
    <2> HIDE DEF row
    <2>5. RowOK(j, row, branch, swapped)
      BY <1>2, <2>2, <2>4 DEF RowOK, BeforeAuthorised
    <2>6. j \notin process /\ ~Live(row)
      BY <1>3, <2>1, <2>4, ProcessRuns DEF Live, TerminalStates, Judgeable
    <2>7. /\ \A x \in swapped : x[2][1] = j => SwapOK(x, row, branch)
          /\ \A m \in Land : land[m] # Idle /\ land[m].job = j => LandOK(land[m], row, branch, swapped)
          /\ j \in offered => row.intent # NoIntent
      BY <1>2, <2>4, SameIntent
    <2>8. land' = [land EXCEPT ![l] = Idle]
      BY <1>1 DEF Stops
    <2> HIDE DEF d, j
    <2> QED BY <1>1, <1>2, <2>3, <2>4, <2>5, <2>6, <2>7, <2>8, RowStep
  <1>5. CASE ~Unmoved(l)
    <2>1. job' = Swept
      BY <1>5 DEF FailMoved
    <2> QED BY <1>1, <2>1, StopsStep
  <1> QED BY <1>4, <1>5

\* The one step that moves a branch for a job: its base was still the branch's tip, so nobody has
\* failed the job for a moved base, and nobody is about to.
LEMMA SwapStep ==
  ASSUME Inv, NEW l \in Land, Swap(l)
  PROVE  Inv'
  <1> DEFINE d == land[l]
             j == d.job
             b == job[j].intent.onto
  <1>1. d.pc = "swapping" /\ UNCHANGED <<now, job, process, ended, offered>>
    BY DEF Swap
  <1>2. /\ d \in LandState /\ j \in Job /\ job[j] # Unfiled /\ job[j] \in Row
        /\ LandOK(d, job[j], branch, swapped) /\ RowOK(j, job[j], branch, swapped)
    BY <1>1, Working
  <1>3. d.expect = "authorised" /\ job[j].intent # NoIntent
    BY <1>1, <1>2 DEF LandOK
  <1>4. CASE branch[b] # job[j].base
    <2>1. Stops(l) /\ UNCHANGED <<branch, swapped>>
      BY <1>4 DEF Swap
    <2> QED BY <1>1, <2>1, StopsStep
  <1>5. CASE branch[b] = job[j].base
    <2>1. /\ branch' = [branch EXCEPT ![b] = branch[b] \cup {Commit(j)}]
          /\ swapped' = swapped \cup {<<b, Commit(j)>>}
          /\ land' = [land EXCEPT ![l] = Going("adopting", j, d.expect)]
      BY <1>5 DEF Swap, Goes
    <2>2. /\ job[j].intent \in Intents /\ Commit(j) \in Job \X Run /\ Commit(j) \in Commits
          /\ Commit(j)[1] = j /\ Commit(j)[2] = job[j].intent.run
      BY <1>2, <1>3, CommitIsOne
    <2>3. b \in Branch /\ job[j].intent = [run |-> job[j].intent.run, onto |-> b]
      BY <2>2 DEF Intents
    <2>4. /\ branch' \in [Branch -> SUBSET Commits] /\ Grown(branch, branch') /\ Commit(j) \in branch'[b]
          /\ swapped' \subseteq Branch \X (Job \X Run)
      <3> DEFINE c == Commit(j)
      <3> HIDE DEF j, b, c
      <3>1. branch \in [Branch -> SUBSET Commits] /\ swapped \subseteq Branch \X (Job \X Run)
        BY DEF Inv, TypeOK
      <3>2. branch' = [branch EXCEPT ![b] = branch[b] \cup {c}] /\ swapped' = swapped \cup {<<b, c>>}
        BY <2>1 DEF c
      <3>3. c \in Job \X Run /\ c \in Commits
        BY <2>2 DEF c
      <3>4. branch' \in [Branch -> SUBSET Commits] /\ Grown(branch, branch') /\ c \in branch'[b]
        BY <2>3, <3>1, <3>2, <3>3 DEF Grown
      <3>5. swapped' \subseteq Branch \X (Job \X Run)
        BY <2>3, <3>1, <3>2, <3>3
      <3> QED BY <3>4, <3>5 DEF c
    <2> DEFINE e == Going("adopting", j, d.expect)
    <2>5. e \in LandState /\ e.pc = "adopting" /\ e.job = j /\ e.expect = "authorised"
      BY <1>2, <1>3 DEF Going, LandState, Acting
    <2>6. land' = [land EXCEPT ![l] = e]
      BY <2>1
    <2> HIDE DEF e
    <2>7. TypeOK'
      BY <1>1, <2>4, <2>5, <2>6 DEF Inv, TypeOK
    <2>8. Running' /\ OneWriter' /\ Offers'
      BY <1>1 DEF Inv, Running, OneWriter, Holds, Offers
    <2>9. ~job[j].moved
      BY <1>2, <1>3, <1>5 DEF RowOK
    <2>10. \A k \in Job : Kept(job[k], job'[k])
      BY <1>1 DEF Kept
    <2>11. \A k \in Job :
             /\ job'[k] # Unfiled => RowOK(k, job'[k], branch', swapped)
             /\ \A x \in swapped : x[2][1] = k => SwapOK(x, job'[k], branch')
             /\ \A m \in Land : land[m] # Idle /\ land[m].job = k => LandOK(land[m], job'[k], branch', swapped)
      BY <2>4, <2>10, OneKept
    <2>12. \A x \in swapped' : x \in swapped \/ (x[1] = b /\ x[2] = Commit(j))
      BY <2>1
    <2>13. Rows'
      <3> SUFFICES ASSUME NEW k \in Job, job'[k] # Unfiled
                   PROVE  RowOK(k, job'[k], branch', swapped')
        BY DEF Rows
      <3>1. RowOK(k, job'[k], branch', swapped)
        BY <2>11
      <3>2. job'[k].moved => k # j
        BY <1>1, <2>9
      <3>3. job'[k].moved => \A x \in swapped' : x[2][1] # k
        BY <2>2, <2>12, <3>1, <3>2 DEF RowOK
      <3> QED BY <3>1, <3>3 DEF RowOK
    <2>14. Swaps'
      <3> SUFFICES ASSUME NEW x \in swapped'
                   PROVE  SwapOK(x, job'[x[2][1]], branch')
        BY DEF Swaps
      <3>1. CASE x \in swapped
        <4>1. x[2][1] \in Job
          BY <3>1 DEF Inv, TypeOK
        <4> QED BY <2>11, <3>1, <4>1
      <3>2. CASE x[1] = b /\ x[2] = Commit(j)
        BY <1>1, <1>2, <2>2, <2>3, <2>4, <3>2 DEF SwapOK
      <3> QED BY <2>12, <3>1, <3>2
    <2>15. Lands'
      <3> SUFFICES ASSUME NEW m \in Land, land'[m] # Idle
                   PROVE  LandOK(land'[m], job'[land'[m].job], branch', swapped')
        BY DEF Lands
      <3>1. CASE m = l
        <4>1. land'[m] = e
          BY <2>6, <3>1 DEF Inv, TypeOK
        <4>2. LandOK(e, job'[j], branch', swapped')
          BY <1>1, <1>2, <1>3, <2>3, <2>4, <2>5 DEF LandOK, Commit
        <4> QED BY <2>5, <4>1, <4>2
      <3>2. CASE m # l
        <4>1. land'[m] = land[m]
          BY <2>6, <3>2
        <4>2. land[m] \in LandState /\ land[m].job \in Job
          BY <4>1 DEF Inv, TypeOK, LandState
        <4>3. LandOK(land[m], job'[land[m].job], branch', swapped)
          BY <2>11, <4>1, <4>2
        <4>4. ASSUME land[m].pc = "failing", land[m].expect = "authorised"
              PROVE  land[m].job # j
          <5>1. LandOK(land[m], job[land[m].job], branch, swapped)
            BY <4>1 DEF Inv, Lands
          <5> QED BY <1>5, <4>4, <5>1 DEF LandOK
        <4>5. land[m].pc = "failing" /\ land[m].expect = "authorised" =>
                \A x \in swapped' : x[2][1] # land[m].job
          BY <2>2, <2>12, <4>3, <4>4 DEF LandOK
        <4> QED BY <4>1, <4>3, <4>5 DEF LandOK
      <3> QED BY <3>1, <3>2
    <2> QED BY <2>7, <2>8, <2>13, <2>14, <2>15 DEF Inv
  <1> QED BY <1>4, <1>5

------------------------------------------------------------------------------
(***************************************************************************)
(* The theorems.                                                           *)
(***************************************************************************)

LEMMA Begins ==
  ASSUME Init
  PROVE  Inv
  <1>1. TypeOK
    <2>1. now \in Int /\ process \subseteq Job /\ offered \subseteq Job
      BY DEF Init
    <2>2. ended \in BOOLEAN
      BY DEF Init
    <2>3. job \in [Job -> {Unfiled} \cup Row] /\ land \in [Land -> {Idle} \cup LandState]
      BY DEF Init
    <2>4. branch \in [Branch -> SUBSET Commits]
      BY DEF Init
    <2>5. swapped \subseteq Branch \X (Job \X Run)
      BY DEF Init
    <2> QED BY <2>1, <2>2, <2>3, <2>4, <2>5 DEF TypeOK
  <1>2. \A j \in Job : job[j] = Unfiled
    BY DEF Init
  <1>3. Running /\ OneWriter
    BY <1>2 DEF Init, Running, OneWriter, Holds, Live, Unfiled
  <1>4. Rows /\ Swaps /\ Offers /\ Lands
    BY <1>2 DEF Init, Rows, Swaps, Offers, Lands
  <1> QED BY <1>1, <1>3, <1>4 DEF Inv

LEMMA OneOfJob ==
  ASSUME Inv, NEW j \in Job,
         \/ File(j) \/ Sign(j) \/ SlotWait(j) \/ TakeSlot(j) \/ ProcessEnds(j) \/ RunsExited(j)
         \/ StopRecorded(j) \/ RecordVerification(j) \/ Recommend(j)
         \/ CancelByPlanner(j) \/ CancelByHuman(j)
         \/ \E b \in Branch : OperatorMerges(j, b)
  PROVE  Inv'
  <1>1. CASE ProcessEnds(j)
    <2>1. now \in Int /\ ended \in BOOLEAN
      BY DEF Inv, TypeOK
    <2> QED BY <1>1, <2>1, QuietStep DEF ProcessEnds
  <1> QED BY <1>1, FileStep, SignStep, TakeStep, StopStep, VerificationStep, CancelStep, MergeStep

LEMMA OneOfLand ==
  ASSUME Inv, NEW l \in Land,
         \/ \E j \in Landable : Begin(l, j)
         \/ Judge(l) \/ Authorise(l) \/ Reread(l) \/ Finish(l) \/ Swap(l)
         \/ Adopt(l) \/ FailMoved(l) \/ Dies(l)
  PROVE  Inv'
  <1>1. CASE \E j \in Landable : Begin(l, j)
    BY <1>1, BeginStep, DispatchAssumption
  <1> QED BY <1>1, JudgeStep, AuthoriseStep, RereadStep, FinishStep, SwapStep, AdoptStep, FailMovedStep, DiesStep

\* Every step keeps the inductive invariant.
THEOREM Invariance == Spec => []Inv
  <1>1. Init => Inv
    BY Begins
  <1>2. Inv /\ [Next]_vars => Inv'
    <2> SUFFICES ASSUME Inv, [Next]_vars
                 PROVE  Inv'
      OBVIOUS
    <2>1. now \in Int /\ ended \in BOOLEAN
      BY DEF Inv, TypeOK
    <2>2. CASE Tick
      <3>1. now' \in Int
        BY <2>1, <2>2 DEF Tick
      <3> QED BY <2>1, <2>2, <3>1, QuietStep DEF Tick
    <2>3. CASE Sweep
      BY <2>3, SweepStep
    <2>4. CASE EnvelopeEnds
      BY <2>1, <2>4, QuietStep DEF EnvelopeEnds
    <2>5. CASE EndEnvelope
      BY <2>5, EndStep
    <2>6. CASE \E j \in Job :
                 \/ File(j) \/ Sign(j) \/ SlotWait(j) \/ TakeSlot(j) \/ ProcessEnds(j) \/ RunsExited(j)
                 \/ StopRecorded(j) \/ RecordVerification(j) \/ Recommend(j)
                 \/ CancelByPlanner(j) \/ CancelByHuman(j)
                 \/ \E b \in Branch : OperatorMerges(j, b)
      BY <2>6, OneOfJob
    <2>7. CASE \E b \in Branch : PersonCommits(b) \/ PersonForwards(b)
      BY <2>7, CommitsStep
    <2>8. CASE \E l \in Land :
                 \/ \E j \in Landable : Begin(l, j)
                 \/ Judge(l) \/ Authorise(l) \/ Reread(l) \/ Finish(l) \/ Swap(l)
                 \/ Adopt(l) \/ FailMoved(l) \/ Dies(l)
      BY <2>8, OneOfLand
    <2>9. CASE UNCHANGED vars
      BY <2>1, <2>9, QuietStep DEF vars
    <2> QED BY <2>2, <2>3, <2>4, <2>5, <2>6, <2>7, <2>8, <2>9 DEF Next
  <1> QED BY <1>1, <1>2, PTL DEF Spec

\* Every variable keeps its shape.
THEOREM TypeCorrect == Spec => []TypeOK
  <1>1. Inv => TypeOK
    BY DEF Inv
  <1> QED BY <1>1, Invariance, PTL

\* Two contracts that write the same place are never live, or with a process, at once: the sweep and
\* the transitions of jobs.py give files up only when no process can write them.
THEOREM WriterAlone == Spec => []OneWriter
  <1>1. Inv => OneWriter
    BY DEF Inv
  <1> QED BY <1>1, Invariance, PTL

\* Branches and jobs agree whatever lands race, die or are overtaken: the order of adopt.py's
\* authorisation, compare-and-swap and record, and what each re-reads.
THEOREM LandsAgree == Spec => []Landed
  <1>1. Inv => Landed
    <2> SUFFICES ASSUME Inv
                 PROVE  Landed
      OBVIOUS
    <2>1. \A x \in swapped : job[x[2][1]].intent = [run |-> x[2][2], onto |-> x[1]]
      BY DEF Inv, Swaps, SwapOK
    <2>2. ASSUME NEW j \in Job, job[j].state = "adopted"
          PROVE  Commit(j) \in branch[job[j].intent.onto]
      <3>1. job[j] # Unfiled
        BY <2>2 DEF Unfiled
      <3>2. RowOK(j, job[j], branch, swapped)
        BY <3>1 DEF Inv, Rows
      <3> QED BY <2>2, <3>2 DEF RowOK, Commit
    <2>3. ASSUME NEW j \in Job, job[j] # Unfiled, job[j].moved
          PROVE  \A x \in swapped : x[2][1] # j
      <3>1. RowOK(j, job[j], branch, swapped)
        BY <2>3 DEF Inv, Rows
      <3> QED BY <2>3, <3>1 DEF RowOK
    <2> QED BY <2>1, <2>2, <2>3 DEF Landed
  <1> QED BY <1>1, Invariance, PTL

=============================================================================
