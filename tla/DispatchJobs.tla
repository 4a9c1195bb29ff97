---------------------------- MODULE DispatchJobs ----------------------------
(***************************************************************************)
(* The dispatch store of levain/dispatch/jobs.py and the land of           *)
(* levain/dispatch/adopt.py, for the jobs of one repository.               *)
(*                                                                         *)
(* A job holds its write files from its filing until it ends.  It is       *)
(* signed, run, verified, authorised and landed; leases lapse it, the      *)
(* planner or the operator cancels it, the end of its envelope fails it.   *)
(* A land reads the job, judges it against its branch, writes its          *)
(* authorisation (the intent), moves the branch by compare-and-swap and    *)
(* records the adoption: five steps of which two are transactions, beside  *)
(* other lands, people who commit, and deaths.                             *)
(*                                                                         *)
(* Every transaction of the store is one step and sweeps first.  A commit  *)
(* of a job is the pair of the job and its run.  Branches only grow, so    *)
(* the set of its commits says which commit a branch is at.                *)
(***************************************************************************)
EXTENDS Integers

CONSTANTS
  Job,           \* jobs that may be filed in the repository
  Landable,      \* bound: the jobs that lands are run for and that may be filed inside the envelope
  WriteSets,     \* the write lists of contracts, as sets of the places they name
  Run,           \* the runs 0 .. k - 1 of a template
  Branch,        \* branches a job may land on
  Land,          \* processes that run `land'
  Other,         \* commits that people make
  UnsignedLease, \* UNSIGNED_LEASE
  Lifetimes,     \* how long after its filing a contract may expire
  MaxTime        \* bound: the last instant

ASSUME DispatchAssumption ==
  /\ Landable \subseteq Job
  /\ Other \cap (Job \X Run) = {}
  /\ Run \subseteq Nat /\ 0 \in Run
  /\ UnsignedLease \in Nat \ {0} /\ Lifetimes \subseteq Nat \ {0} /\ MaxTime \in Nat

VARIABLES
  now,     \* the store's clock
  job,     \* each job's row and its latest transition
  process, \* the jobs whose executor process may still write
  ended,   \* whether the envelope that jobs are bound to has ended
  branch,  \* the commits of each branch
  swapped, \* what lands moved: pairs of a branch and a commit
  offered, \* the jobs whose merge command was printed
  land     \* what each land knows

vars == <<now, job, process, ended, branch, swapped, offered, land>>

Unfiled == [state |-> "none"]
NoIntent == [onto |-> "none"]
Idle == [pc |-> "idle"]

TerminalStates == {"adopted", "failed", "cancelled"}
BeforeAuthorised == {"filed", "signed", "queued", "running", "verifying", "verified", "recommended"}
Judgeable == {"verified", "recommended"}

Init ==
  /\ now = 0
  /\ job = [j \in Job |-> Unfiled]
  /\ process = {} /\ ended = FALSE
  /\ branch = [b \in Branch |-> {}] /\ swapped = {} /\ offered = {}
  /\ land = [l \in Land |-> Idle]

------------------------------------------------------------------------------
(***************************************************************************)
(* What the store says.                                                    *)
(***************************************************************************)

Live(r) == r.state \notin TerminalStates \cup {"none"}

\* Faulty: the sweep fails running jobs too.
Lapsed_Running(r) ==
  \/ r.state = "filed" /\ r.unsigned <= now
  \/ r.state \in BeforeAuthorised \ {"filed"} /\ r.expires <= now

\* _sweep: past its lease, not authorised and not running.
Lapsed(r) ==
  \/ r.state = "filed" /\ r.unsigned <= now
  \/ r.state \in BeforeAuthorised \ {"filed", "running"} /\ r.expires <= now

Swept == [j \in Job |-> IF Lapsed(job[j]) THEN [job[j] EXCEPT !.state = "failed"] ELSE job[j]]

\* A transition of a swept job, and the sweep with it.
Moves(j, state) == job' = [Swept EXCEPT ![j].state = state]
In(j, states) == Swept[j].state \in states

\* _write_clash with every live job.
Clashes(w) == \E k \in Job : Live(Swept[k]) /\ Swept[k].writes \cap w # {}

Filed(w, life, base, bound) ==
  [state |-> IF bound THEN "signed" ELSE "filed", writes |-> w, expires |-> now + life,
   unsigned |-> now + IF UnsignedLease < life THEN UnsignedLease ELSE life,
   base |-> base, bound |-> bound, passed |-> {}, intent |-> NoIntent, moved |-> FALSE]

------------------------------------------------------------------------------
(***************************************************************************)
(* The store's operations before a land.                                   *)
(***************************************************************************)

\* file, and file_in_envelope, which signs in the same transaction.
File(j) ==
  \E w \in WriteSets, life \in Lifetimes, b \in Branch, bound \in BOOLEAN :
    /\ job[j] = Unfiled /\ ~Clashes(w)
    /\ bound => j \in Landable /\ ~ended
    /\ job' = [Swept EXCEPT ![j] = Filed(w, life, branch[b], bound)]
    /\ UNCHANGED <<now, process, ended, branch, swapped, offered, land>>

Sign(j) ==
  /\ In(j, {"filed"}) /\ Moves(j, "signed")
  /\ UNCHANGED <<now, process, ended, branch, swapped, offered, land>>

SlotWait(j) ==
  /\ In(j, {"signed"}) /\ Moves(j, "queued")
  /\ UNCHANGED <<now, process, ended, branch, swapped, offered, land>>

\* The supervisor takes the slot and starts the executor.
TakeSlot(j) ==
  /\ In(j, {"signed", "queued"})
  /\ job[j].bound => ~ended
  /\ Moves(j, "running") /\ process' = process \cup {j}
  /\ UNCHANGED <<now, ended, branch, swapped, offered, land>>

\* The executor ends by itself or is stopped and reaped.
ProcessEnds(j) ==
  /\ j \in process /\ process' = process \ {j}
  /\ UNCHANGED <<now, job, ended, branch, swapped, offered, land>>

RunsExited(j) ==
  /\ In(j, {"running"}) /\ j \notin process /\ Moves(j, "verifying")
  /\ UNCHANGED <<now, process, ended, branch, swapped, offered, land>>

\* stop_recorded, after the supervisor reaped the process.
StopRecorded(j) ==
  /\ In(j, {"running"}) /\ j \notin process
  /\ \/ Moves(j, "cancelled")
     \/ Moves(j, "failed") \* budget_cap and floor_refused; lease_lapsed and envelope_ended do no other
  /\ UNCHANGED <<now, process, ended, branch, swapped, offered, land>>

RecordVerification(j) ==
  /\ In(j, {"verifying"})
  /\ \/ \E r \in Run \ job[j].passed :
          LET passed == job[j].passed \cup {r} IN
          job' = [Swept EXCEPT ![j].passed = passed,
                               ![j].state = IF passed = Run THEN "verified" ELSE "verifying"]
     \/ Moves(j, "failed") \* verifier_fail, verifier_refused
  /\ UNCHANGED <<now, process, ended, branch, swapped, offered, land>>

Recommend(j) ==
  /\ In(j, {"verified"}) /\ Moves(j, "recommended")
  /\ UNCHANGED <<now, process, ended, branch, swapped, offered, land>>

CancelByPlanner(j) ==
  /\ In(j, BeforeAuthorised \ {"running"}) /\ Moves(j, "cancelled")
  /\ UNCHANGED <<now, process, ended, branch, swapped, offered, land>>

CancelByHuman(j) ==
  /\ In(j, (BeforeAuthorised \ {"running"}) \cup {"authorised"}) /\ Moves(j, "cancelled")
  /\ UNCHANGED <<now, process, ended, branch, swapped, offered, land>>

\* The coordinator's envelope ends; end_envelope hears of it afterwards.
EnvelopeEnds ==
  /\ ~ended /\ ended' = TRUE
  /\ UNCHANGED <<now, job, process, branch, swapped, offered, land>>

EndEnvelope ==
  /\ ended
  /\ job' = [j \in Job |->
               IF In(j, BeforeAuthorised \ {"running"}) /\ job[j].bound
               THEN [Swept[j] EXCEPT !.state = "failed"] ELSE Swept[j]]
  /\ UNCHANGED <<now, process, ended, branch, swapped, offered, land>>

Sweep ==
  /\ job' = Swept
  /\ UNCHANGED <<now, process, ended, branch, swapped, offered, land>>

Tick ==
  /\ now < MaxTime /\ now' = now + 1
  /\ UNCHANGED <<job, process, ended, branch, swapped, offered, land>>

------------------------------------------------------------------------------
(***************************************************************************)
(* The repository and its people.                                          *)
(***************************************************************************)

\* A new commit on a branch, alone or as the merge of another branch.
PersonCommits(b) ==
  /\ \E c \in Other, d \in Branch :
       /\ \A e \in Branch : c \notin branch[e]
       /\ branch' = [branch EXCEPT ![b] = @ \cup branch[d] \cup {c}]
  /\ UNCHANGED <<now, job, process, ended, swapped, offered, land>>

PersonForwards(b) ==
  /\ \E d \in Branch :
       branch[b] \subseteq branch[d] /\ branch' = [branch EXCEPT ![b] = branch[d]]
  /\ UNCHANGED <<now, job, process, ended, swapped, offered, land>>

Commit(j) == <<j, job[j].intent.run>>

\* The printed `git merge --ff-only', on the branch that its worktree is on by then.
OperatorMerges(j, b) ==
  /\ j \in offered /\ branch[b] \subseteq job[j].base
  /\ branch' = [branch EXCEPT ![b] = job[j].base \cup {Commit(j)}]
  /\ UNCHANGED <<now, job, process, ended, swapped, offered, land>>

------------------------------------------------------------------------------
(***************************************************************************)
(* A land.                                                                 *)
(***************************************************************************)

\* A land that goes by the intent, or by the state it read, forgets what it was asked.
Going(pc, j, expect) == [pc |-> pc, job |-> j, expect |-> expect]
Goes(l, pc) == land' = [land EXCEPT ![l] = Going(pc, @.job, @.expect)]
Stops(l) == land' = [land EXCEPT ![l] = Idle]

\* A job read as authorised is finished from its intent; no other authority counts any more.
Finishing(j) == Going("finishing", j, "authorised")

\* The job as the last read before the floor saw it, under a person's item (A) for one of its runs or
\* an envelope (C), which lands run 0.  A land by rule (B) is one of A that dies where A would fail the job.
Begin(l, j) ==
  \E who \in {"A", "C"}, r \in Run, b \in Branch :
    /\ land[l] = Idle
    /\ who = "C" => r = 0
    /\ \/ In(j, Judgeable)
          /\ land' = [land EXCEPT ![l] = [pc |-> "judging", job |-> j, expect |-> Swept[j].state,
                                          who |-> who, run |-> r, onto |-> b]]
       \/ In(j, {"authorised"}) /\ land' = [land EXCEPT ![l] = Finishing(j)]
    /\ job' = Swept
    /\ UNCHANGED <<now, process, ended, branch, swapped, offered>>

\* floor's target and envelope; a refusal on anything else is Dies.
Judge(l) ==
  LET d == land[l]
      row == job[d.job]
      tip == branch[d.onto] IN
  /\ d.pc = "judging"
  /\ \/ (\E r \in Run : <<d.job, r>> \in tip) /\ Stops(l)
     \/ /\ \A r \in Run : <<d.job, r>> \notin tip
        /\ tip # row.base
        /\ IF d.who = "A" \/ row.bound THEN Goes(l, "failing") ELSE Stops(l)
     \/ /\ tip = row.base
        /\ IF d.who = "C" /\ (ended \/ ~row.bound) THEN Stops(l)
           ELSE land' = [land EXCEPT ![l] = [pc |-> "authorising", job |-> d.job,
                                               who |-> d.who, run |-> d.run, onto |-> d.onto]]
  /\ UNCHANGED <<now, job, process, ended, branch, swapped, offered>>

\* JobStore.authorise, from the land's read on.
Authorise(l) ==
  LET d == land[l]
      j == d.job IN
  /\ d.pc = "authorising"
  /\ \/ /\ In(j, Judgeable) /\ (d.who = "C" => ~ended)
        /\ job' = [Swept EXCEPT ![j].state = "authorised",
                                ![j].intent = [run |-> d.run, onto |-> d.onto]]
        /\ land' = [land EXCEPT ![l] = Finishing(j)]
     \/ /\ In(j, Judgeable) /\ d.who = "C" /\ ended
        /\ job' = Swept /\ Stops(l)
     \/ /\ ~In(j, Judgeable)
        /\ job' = Swept /\ land' = [land EXCEPT ![l] = [pc |-> "lost", job |-> j]]
  /\ UNCHANGED <<now, process, ended, branch, swapped, offered>>

\* Another writer was first: its authorisation is the authority.
Reread(l) ==
  /\ land[l].pc = "lost" /\ job' = Swept
  /\ IF In(land[l].job, {"authorised"})
     THEN land' = [land EXCEPT ![l] = Finishing(land[l].job)] ELSE Stops(l)
  /\ UNCHANGED <<now, process, ended, branch, swapped, offered>>

\* Faulty: the base is compared before the branch is searched for the commit.
Decision_Base(j, tip) ==
  IF tip # job[j].base THEN "failing" ELSE IF Commit(j) \in tip THEN "adopting" ELSE "swapping"

\* What _finish does, of the tip alone.
Decision(j, tip) ==
  IF Commit(j) \in tip THEN "adopting" ELSE IF tip # job[j].base THEN "failing" ELSE "swapping"

Finish(l) ==
  LET j == land[l].job
      next == Decision(j, branch[job[j].intent.onto]) IN
  /\ land[l].pc = "finishing"
  /\ \/ Goes(l, next) /\ UNCHANGED offered
     \/ next = "swapping" /\ Stops(l) /\ offered' = offered \cup {j} \* the branch is checked out
  /\ UNCHANGED <<now, job, process, ended, branch, swapped>>

\* git update-ref, which compares.
Swap(l) ==
  LET j == land[l].job
      b == job[j].intent.onto IN
  /\ land[l].pc = "swapping"
  /\ IF branch[b] = job[j].base
     THEN /\ branch' = [branch EXCEPT ![b] = @ \cup {Commit(j)}]
          /\ swapped' = swapped \cup {<<b, Commit(j)>>}
          /\ Goes(l, "adopting")
     ELSE Stops(l) /\ UNCHANGED <<branch, swapped>>
  /\ UNCHANGED <<now, job, process, ended, offered>>

\* Faulty: the edge alone is asked for, not the state that was read.
Unmoved_Edge(l) == In(land[l].job, {"verified", "recommended", "authorised"})

\* _move: only from the state that the land read.
Unmoved(l) == In(land[l].job, {land[l].expect})

Adopt(l) ==
  /\ land[l].pc = "adopting"
  /\ IF Unmoved(l) THEN Moves(land[l].job, "adopted") ELSE job' = Swept
  /\ Stops(l) /\ UNCHANGED <<now, process, ended, branch, swapped, offered>>

FailMoved(l) ==
  /\ land[l].pc = "failing"
  /\ IF Unmoved(l)
     THEN job' = [Swept EXCEPT ![land[l].job].state = "failed", ![land[l].job].moved = TRUE]
     ELSE job' = Swept
  /\ Stops(l) /\ UNCHANGED <<now, process, ended, branch, swapped, offered>>

\* The process dies, git fails, or the land is refused.
Dies(l) ==
  /\ land[l] # Idle /\ Stops(l)
  /\ UNCHANGED <<now, job, process, ended, branch, swapped, offered>>

------------------------------------------------------------------------------
Next ==
  \/ Tick \/ Sweep \/ EnvelopeEnds \/ EndEnvelope
  \/ \E j \in Job :
       \/ File(j) \/ Sign(j) \/ SlotWait(j) \/ TakeSlot(j) \/ ProcessEnds(j) \/ RunsExited(j)
       \/ StopRecorded(j) \/ RecordVerification(j) \/ Recommend(j)
       \/ CancelByPlanner(j) \/ CancelByHuman(j)
       \/ \E b \in Branch : OperatorMerges(j, b)
  \/ \E b \in Branch : PersonCommits(b) \/ PersonForwards(b)
  \/ \E l \in Land :
       \/ \E j \in Landable : Begin(l, j)
       \/ Judge(l) \/ Authorise(l) \/ Reread(l) \/ Finish(l) \/ Swap(l)
       \/ Adopt(l) \/ FailMoved(l) \/ Dies(l)

Spec == Init /\ [][Next]_vars

------------------------------------------------------------------------------
(***************************************************************************)
(* Properties.                                                             *)
(***************************************************************************)

Holds(j) == Live(job[j]) \/ j \in process

\* A place that two contracts write is held by one of them: a job that lapsed, was cancelled or lost
\* its envelope gives its files up only when its process can no longer write them, so that a job
\* filed afterwards never writes beside it.
OneWriter ==
  \A j, k \in Job :
    j # k /\ Holds(j) /\ Holds(k) => job[j].writes \cap job[k].writes = {}

\* Whatever lands race, die or are cancelled, branches and jobs agree: a land moves only the branch
\* that the job's one authorisation names, and only to the run it names; an adopted job is in that
\* branch; for a job that failed on a moved base no land ever moved a branch.
Landed ==
  /\ \A x \in swapped : job[x[2][1]].intent = [run |-> x[2][2], onto |-> x[1]]
  /\ \A j \in Job :
       /\ job[j].state = "adopted" => Commit(j) \in branch[job[j].intent.onto]
       /\ job[j] # Unfiled /\ job[j].moved => \A x \in swapped : x[2][1] # j
=============================================================================
