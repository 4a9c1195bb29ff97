# TLA+ specifications of levain

levain runs coding agents for one operator: it decides what an agent may do (consent, grants, an
authority log), starts and supervises agent sessions (coordinator, seats, slots, dispatch), and
keeps an account of what they did and spent (journals, ledgers, receipts). Nearly all of its state
is in SQLite stores and append-only files that hooks, command lines, a web server and watchers
write at the same time. This directory models the parts whose correctness depends on the order of
those writes, checks them with TLC, and proves the main results with TLAPS.

Every definition follows the code under `levain/`; `PROJECT.json` gives its lines under `map`.

    tlc -workers 2 -config Deadline.cfg MCConsentQueue.tla
    tlapm ConsentQueueSafety.tla

## 1. The system

### 1.1 Components

| Component | State it keeps | Operations | Hard behaviour | What makes it correct | Here |
|---|---|---|---|---|---|
| Consent queue (`consent/queue.py`) | requests, receipts, gaps, halts, takes, refused evidence, outcomes | file, answer, answer by grant, answer late, mark undecided, halt, release, expire, withdraw, take, gate take | hooks and surfaces judge outside the write lock and write under it; the clock may step back; processes stop anywhere | a decision is final, in time and delivered once; one run per late allow; gaps are dense | ConsentQueue |
| Authority log (`consent/ledger.py`, `authority.py`) | hash-linked rows: keys, classes, grants | enrol, revoke, write and revoke grant, replay | readers hold an older replay; the anchor trails the log | a replay is a function of a prefix; a link names one row | the part the queue reads |
| Agent hooks of consent | none of their own | hold, poll, gate, report an outcome | a hook may die or be answered by the native dialog | they call the queue in the order it expects | the calls, in ConsentQueue |
| Grants and policy | none (pure) | match a grant's criteria | boundary cases of paths and tiers | a refusal is never an allow | abstracted |
| Records and receipt log, contracts | Merkle log, checkpoints | append, prove, verify | heads of other sizes | consistency of heads | planned |
| Consent surfaces | phone, notices | list, answer, ping | late answers, repeated pings | they only carry records | planned (delivery, repings) |
| Idempotency ledger, background jobs, actions (`idempotency.py`, `jobs.py`, `writes.py`) | keyed records; job rows; worker threads | claim or replay, fire, finalize, fault, release; submit, run, finish, poll, sweep | servers that share the files and die between claim and finish; keys and jobs that expire | at most one firing per key and window; a result shown stays | GovernedActions |
| Coordinator leases and launches (`coordinator/lease.py`, `launch.py`) | lease events, launches, launch events, spawn claims, setting | take, release, claim, beat, wake, request, claim spawn, activate, end | several starters, two sessions that think they coordinate, clock set back, starters killed | one writer at a time, one starter per launch, no endless restarts | CoordinatorLease |
| Coordinator store, envelopes, missions, rooms | drops, threads, envelopes | drop, split, bind, deliver | order of drops against spawns | every drop is seen by one coordinator | later |
| Model broker (`broker/ledger.py`, `keys.py`) | spend holds, ledger file, lineage outbox | admit, send, settle, strand, acknowledge, close, replay | stalled writer, failing lines, crash with a line half way | spending is covered within the cap; the file always replays | BrokerLedger |
| Dispatch (`dispatch/jobs.py`, `adopt.py`) | jobs, their write files, intents, branches | file, sign, take slot, verify, cancel, end envelope; land | sweeps racing steps; lands racing lands, people and deaths | one job writes a place; branch and store agree | DispatchJobs |
| Autonomic journal and gate (`autonomic/journal.py`, `gate.py`) | runs, effects, holds, leases of effects | propose, resolve, fire, fence, cancel | crash between intent and outcome, stale authorization | an effect fires at most once, as authorized then | RunJournal |
| Agents, slots, seats, query broker, cockpit, kill switch | leases, fences, prepared effects | launch, revoke, fire | revocation between two steps | nothing runs on a revoked lease | planned |
| Chat egress, firing, dream, web push, team ledger | per-component stores | see `PROJECT.json` | mostly driven by the operating system or network | | not modelled |
| Front ends, installer, doctor, voice, panels | none or host files | presentation, set-up | | | not modelled |

`PROJECT.json` lists the 32 components with their sources, their status and the reason when one is
left out.

### 1.2 How they interact

* A **hook** files a request in the consent queue and polls it; the **surfaces** (command line, web,
  phone) read pending requests and post signed records; both use a **replay of the authority log**
  that may be older than the log when their transaction begins. The queue is shared state: nobody
  calls anybody, all of them read and write one SQLite store.
* The **coordinator store** calls `lease.py` inside its own write transactions: a drop asks `wake`,
  every write of a coordinator goes through `fence`. The **watcher** (`levain coord watch`) and the
  command line run `_launch_session` between such transactions, so two of them may work on one
  launch; the sessions they start are seen again only in the harness's listing.
* **`writes.py`** claims a key of the idempotency ledger, fires a handler or submits it as a job, and
  settles the key; servers share both stores and nothing else, each sweeps the jobs when it starts.
* The **broker's loop** owns the spend ledger; one writer thread makes its lines durable and posts
  back to the loop; exchanges (`keys.py`) ask it before they send and after they end, and the lineage
  sender empties the outbox towards CONTROL.
* The **autonomic gate** reads the journal, has a decision verified outside any transaction, and
  writes an effect's intent in one that re-checks what it read; the executor is called after it.
* **Dispatch** keeps jobs in a store that every command sweeps first; a land (`adopt.py`) goes back and
  forth between that store and git, where people and other lands move the branches. Slots and seats
  start processes under leases; they are not modelled yet.

### 1.3 Hazards

`PROJECT.json` lists the hazards at their lines: those the properties below aim at, and, with a
note, those of components to be modelled later.

## 2. The modules

| Module | What it is |
|---|---|
| `ConsentQueue` | the queue, with the signing clients, the hooks, the authority log as they read it, and the clock |
| `LateAllow` | the abstract promise about late rulings: one ticket per identical call |
| `MCConsentQueue` | instances of ConsentQueue for TLC |
| `ConsentQueueProofs` | what a step may do to a row; type correctness |
| `ConsentQueueSafety` | the safety theorems about the queue |
| `CoordinatorLease` | lease, launches, starters and watcher |
| `MCCoordinatorLease` | instances of CoordinatorLease for TLC |
| `CoordinatorLeaseProofs` | types of what the operators return; type correctness |
| `CoordinatorLeaseSafety` | what a step may do to a launch, the lease, a session, a starter; the safety theorems |
| `BrokerLedger` | the spend ledger, its writer, file, outbox and sender, with crash and replay |
| `BrokerLedgerProofs` | the inductive invariants of BrokerLedger (lines, rows owed, money) and the theorems |
| `GovernedActions` | keyed requests over the idempotency ledger and the job store of several servers |
| `GovernedActionsProofs` | the inductive invariant of GovernedActions and the theorems |
| `RunJournal` | effects, decisions and the processes that propose, resolve and fire them |
| `RunJournalProofs` | the inductive invariant of RunJournal and the theorems |
| `DispatchJobs` | the job store with lands, branches and the people who move them |
| `DispatchJobsProofs` | the inductive invariant of DispatchJobs and the theorems |
| `MCBrokerLedger`, `MCGovernedActions`, `MCRunJournal`, `MCDispatchJobs` | instances for TLC |

A definition whose name ends in `_<Word>` (for example `Full_Shared`, `Fail_Blind`) is a faulty
variant of the definition after it: a bug such code could have. `PROJECT.json` pairs each property
with the variant that must violate it; no behaviour of a specification uses one.

### 2.1 ConsentQueue

| State | In the code |
|---|---|
| `now`, `back` | the clock each transaction reads; it may be set back |
| `row`, `receipts`, `lastSeq` | `requests` with its state, decision and times; the receipt of each move, in append order |
| `gap`, `halts`, `releases` | gap numbers of undecided requests; halted sessions and their releases |
| `keys`, `grant`, `links` | what a replay of the authority log returns: keys, the standing grant and the link that wrote it |
| `takes`, `refused`, `outcome`, `delivered` | `ruled_takes`, `refused_answers`, `dialog_outcomes`, and the requests whose decision a hook delivered |
| `client`, `hook` | what a process holds between two transactions |

A client's answer is three steps, as in the code: it signs, `PostAnswer` judges the record under the
authority and row it read, and `ApplyAnswer` writes after the checks that the code repeats under the
write lock; late rulings go the same way. `GrantRead` and `GrantApply` split `answer_by_grant` in the
same place, `BeginTake`, `Pick` and `TakeRuled` split `take_ruled_allow`. `decision()` holds no lock and
is three steps: `ReadRow` reads the row, `Replay` the authority log, `Verify` judges the row by both and
by the clock of that moment. Then either `Deliver` hands the decision to the agent, or `GateTake`, under
its lock, takes the gate's allow that `GateLook` saw before. Keys, the grant, the clock and the row may
move between any two of these. What a hook read is a `Reading`; its field `stood` is history: whether the
log still held what decided the row when the row was read. A client or a hook may stop at any point. `Sweep`
is the expiry that each
reader of pending requests performs. Everything else is one transaction and one action.

Abstractions. The check that a record's log head is a prefix of the receipts is left out: receipts
only grow, so an honest head stays a prefix. `GrantRead` considers pending requests only (others
are refused at once). `RecordRan` may pick any eligible request where the code picks the newest, so
the model allows more. `ran` also stands for `ran_unasked`. Matching of paths and inputs is the
constant `Grantable`. There is one standing grant, where the code takes the first that matches. A step back
of the clock while a filing waits for its lock is not combined
with that filing.

### 2.2 CoordinatorLease

| State | In the code |
|---|---|
| `lease` | `lease_events`: the last claim, its furthest `until`, whether it stands |
| `launch`, `after`, `asked` | `launches` with their events, `launch_spawns`; the order of their last events (`gseq`) |
| `setting`, `looked` | the latest row of `coord_settings`; the launches there were at your last take or release |
| `known`, `served` | the tokens told to holders; the token of the last accepted write (a history variable) |
| `session` | what the harness lists for a launch, at once, late or no longer |
| `starter` | where each `_launch_session` is between its transactions |

Each function of `lease.py` runs in one write transaction and is one action; functions that the
code runs in one transaction (a lapse before a claim, `replace_done` with `wake`) are composed in
one action through operators on the tables. The starter is a process of its own: it considers a
pending launch, claims the spawn, runs the harness, reads its session back, activates, and stops
the session when it was refused; it may be killed between any two of these. The watcher's pass is
several actions in any order, since what it read may be stale when it writes.

Abstractions. Launches are numbered in asking order and `0` is the operator. A refused worker (a
crossed budget, a thread that is over) is a choice. `ReplaceDone` may happen whether or not a drop
waits, which covers `levain coord wake`. Two listings without a session are taken as the truth.
Rooms, launches of the removed harness, spawn records, agent slots, the order of drops against
spawns, and the rollback of a failing wake to its savepoint are not modelled.

### 2.3 BrokerLedger

| State | In the code |
|---|---|
| `file`, `opens` | the complete lines of the ledger file; the epochs begun |
| `hold`, `acc` | this process's holds; `_acc`, what is settled, overrun, uncertain, outstanding per scope |
| `queue`, `inFlight`, `posts`, `writer` | `_q`, `_lines`, what the writer posts to the loop, the thread itself |
| `pending`, `outbox`, `known`, `acking`, `ackDue`, `sender` | the lineage rows on their way and their acknowledgements |
| `sink`, `spent`, `rows`, `unowed` | history: what CONTROL appended, what exchanges cost, what was admitted, what was forgotten |

A line is in `queue`, then in the writer's batch, then in the file, then published on the loop; the
process may die between any two, and a line in the writer's hands is then in the file or not.
`Survivors` are the files that a crash of this very moment may leave, and the properties speak of
each of them, replayed. A hold that a failing owner step strands alone leaves `_live`, so
`outbox_committed` no longer counts the row it will owe: hence `+ unowed` in `OutboxBounded`.
Left out: the identity of ledger and epoch beyond a number, the stop of a session after an overrun,
quarantined rows, line formats, and the exceptions of a single line's durable step.

### 2.4 GovernedActions

| State | In the code |
|---|---|
| `record`, `job` | the files of `IdempotencyStore` and `JobStore` |
| `request`, `worker` | where each `apply_action` and each worker thread is, with what it read |
| `slots`, `running`, `deaths` | the free worker slots of each server; servers up; deaths so far |
| `fired`, `shown` | history: handlers run, in order; the final status that a poll returned, and whether the poll only inferred it |

Every operation of the two stores is one step, as it is one locked read-modify-write of a file; the
time it uses was read before the lock, so a clock step may lie between. The windows, leases and
TTLs keep the relations that the code's comments state (`ActionsAssumption`). Nothing bounds how long a
handler or a worker takes: the clock moves under it, so a job may outlive its lease, for which `jobs.py:72`
has the lease, and even its key's window. A poll of a job that is past its lease and not ended shows it failed
without writing that, and `shown` is then `"lapsed"`. Left out: stores that cannot be read, the handlers'
own edits, audit lines.

### 2.5 RunJournal

| State | In the code |
|---|---|
| `fence`, `gen`, `cancelled` | the binding's generation, the generation a run was admitted under, `cancels` |
| `effect`, `hold` | the rows of `effects` and `holds`; a lease is held while its process is in the call |
| `risk`, `enrolled` | the inputs that the gate reads: the rung they ask for, the person's key |
| `proc` | what each process read and what it does next |
| `ran` | history: how often each effect happened |

The rung that the risk asks for is also the fence digest that a decision is checked against. A
retry by a resolver is another call. Silence may approve at any time (the code's expiry is a time).
Left out: the `/3` store, the registry's bars, chains, kills and screens, confinement, clamps.

### 2.6 DispatchJobs

| State | In the code |
|---|---|
| `job` | the row of a job with its latest transition, its base, runs that passed, intent |
| `process` | the jobs whose executor may still write (outside the store) |
| `branch`, `swapped` | what the branches contain; history: what a land's `update-ref` moved |
| `offered`, `land` | the jobs whose merge command was printed; where each `land` is |
| `ended`, `now` | the coordinator's envelope is over; the store's clock |

Each transaction of the store sweeps first, in the same step. A land is `Begin`, `Judge` (the floor),
`Authorise`, `Reread` when another land was first, `Finish`, `Swap` and `Adopt`, or `FailMoved`, and it may
die between any two. Authority B (a rule) behaves as A except that it dies where A would fail the job,
so it is not a case of its own. Refusals of a contract, tier, rule or artifact are `Dies` too.

Assumptions about what is outside: branches only grow (commits, merges and fast-forwards; a forced
reset could bring a job's base back and is excluded), and the run supervisor, which no module of this
commit calls yet, records a stop or an exit only after it has stopped and reaped the process, as the
module requires of it (`jobs.py:34`). Left out: staged refs, handoffs, published records, replayed and
repeated reports, the event cursor, takes of artifacts. A commit of a cancelled job may still be
swapped by a land in flight; the code accepts that and `_settled` reports it, so no property denies it.

## 3. What is checked

All runs have `CHECK_DEADLOCK FALSE`: the clock, the tokens, the launches, the calls, the opens and the
rows are bounded, and when a bound is reached and every request, launch, hold, effect or job is over
nothing is left to do.

### 3.1 Runs

| Run | Asks | Properties |
|---|---|---|
| Deadline | what deadlines, grace, halts and withdrawals leave in rows and receipts when the clock steps back once and a key is revoked | LogOrder, NoLateAnswer, ExpiryAfterGrace, GapsDense, HaltsReleased, TerminalFinal |
| Takes | two hooks race for two rulings on one call, with a signer whose clock is ahead | TypeOK, TakesFresh, TakesSignedInOrder, TakesVerified, OneRunPerAllow |
| Answers | what is kept of refused answers, what a hook holds as a decision and hands over while keys and the grant move, and that a request does not stay pending | EvidenceBounded, LateNeverAnswered, UndecidedNeverDelivered, AnswersInForce, PendingEnds |
| Gate | two gate hooks that look, read, replay and judge outside the lock, a grant created, renewed and revoked | TakenOnce |
| Dialog | a documented claim that does not hold (3.4) | OutcomeNeverDecided |
| Seat | takes and releases of yours against sessions and drops, a silent session, one step back of the clock | LookVoids, SilenceBounded, TokensInOrder |
| Starters | two starters over two launches, workers and a rotation | OneStarter, LaunchEdges, StrayStopped |
| Deaths | three launches that die in every way, and the wakes between them | DeathsBounded, OneCoordinator |
| Ledger | two holds and windows against a writer that batches, stalls and fails, and a process that dies | NeverCorrupt, SpendingCovered, WithinCap, OutboxBounded, RowsKept, HoldsEnd |
| Actions | two requests over two servers, one of which dies, while window, lease and TTL run out, also under a worker that is still running | AtMostOnce, ReplayResolvable, StatusStays, FaultedForever |
| Journal | two processes on two runs of a binding while risk, fence, key and cancels move | AtMostOnce, UndecidedNeverRan, AuthorizedNow |
| Dispatch | two jobs of one file, two lands of one of them on two branches, people, lapses, cancels | OneWriter, Landed |

`OneRunPerAllow` is a refinement: under the mapping of `Tickets` every behaviour of the queue is a
behaviour of `LateAllow`. A call's ticket is its latest ruling, in application order, when that is an
allow nobody took.

Some properties have a condition, which the comments on them name. `LateNeverAnswered` holds while
the clock does not step back (its run has `MaxBack = 0`): a record judged too late may be in time
again afterwards. `OneCoordinator` is about drops: a holder's own rotation asks for a second launch
on purpose, so its run has no `Asks`. `SilenceBounded` says that however often the watcher beats for
a session that does not write, its lease and then its grace run out at `Silent(l) + IdleGrace`.
`AnswersInForce` is about what was taken back before the hook asked: the code promises no more, since a
revocation between the replay and the hand-over is not seen (`queue.py:2702` to 2710), and the model has
those deliveries. `AtMostOnce` (Actions) leaves the order of two firings of a key open when a job is one of
them: a job that outlives its key's window may fire after the next claim of that key. `StatusStays` has the
exception of 3.4.

### 3.2 Bounds

Each bound is a constant named in the module that guards with it.

* ConsentQueue: `MaxTime`, `MaxBack`, `MaxGrant`, and the sets. Two requests of one call or session
  are the fewest where order matters (a later ruling voids an earlier, gaps 1 and 2, two takes); two
  hooks are the fewest that race. `MaxTime = 2` or `3` with `Hold = 1` or `2`, `Grace = 1` and
  `Lapse = 1` or `2` reaches before, at and after each deadline. Deadline has a step back to 0 from
  every instant. Caps on evidence are 0 or 1, so a second record meets them. `MaxGrant = 2` lets a grant be
  written again under a reader. `Asked` is the requests whose decision a hook reads for the agent: all in
  Answers, which asks about delivery, none in the other runs, where gates still read for their takes.
* CoordinatorLease: `MaxTime`, `MaxBack`, `MaxLaunch`, `MaxToken`. Two launches give a predecessor
  and a successor; three are needed for a third wake after two deaths, and `MaxTime = 6` for two
  backoffs and the graces between them. `LeaseTTL` is 2 in Seat, so that one beat may follow another
  under the same lease, and 1 elsewhere. Two claims (Seat) are the fewest in which a token gets old.
  A launch is asked for only if the clock can still pass its `until` (`MayAsk`), so no liveness is
  lost to the bound.
* BrokerLedger: `MaxRows = 2` with `Cap = 3` and `Estimates = {2}`: the second hold only fits when the first is
  released or settled below its estimate, and a cost of 3 overruns. `MaxOpens = 2` is one crash and the replay
  of what it left. `OutboxMax = 1` is met by the first row.
* GovernedActions: two requests are the fewest that share a key; `MaxTime = 2` passes `Window = ResultTTL = 1`
  and `Lease = 0` at and beyond their edges, with a worker that is still running; one death leaves a server
  that sweeps another's job.
* RunJournal: `MaxCalls = 3` is a call that asks, a call that resolves and a call that fires; two processes may
  be in two of them at once. `Risk` has a value below `Cooling`, one between and one at `Confirm`. One move of
  the risk and one fence are enough to make whatever was read stale. Two moves, and four calls, were run too.
* DispatchJobs: two jobs of one place, and two lands and two branches for one of them (`Landable`): a land
  may find the other's intent, swap, adoption or failure at each of its steps. One person's commit moves a
  branch past the base. `MaxTime = 1` is before and at the end of each lease; a run with two instants, two
  runs of the template, three write lists and one land held too. The proofs have no such bounds.
* Symmetry: requests (and hooks, in Takes and Gate) are interchangeable there, and the properties, the
  refinement included, do not single one out; so are servers and keys (Actions), processes and runs
(Journal), lands and branches (Dispatch). Runs with liveness use no symmetry.

### 3.3 Fairness

* `ConsentQueue!LiveSpec`: time passes (`Tick`), and someone reads the pending requests (`Sweep`).
  Reading sweeps in the code, and it is done by the command line's listing (`cli.py`) and by the
  phone page's poll (`web_server.py`). Without a reader a request does stay `pending` past its grace.
  Nothing is assumed of signers or hooks.
* `CoordinatorLease!LiveSpec`: time passes; each pass of `levain coord watch` reads the status and
  stops the listed sessions of launches that are over (`_watch_pass`). Nothing is assumed of
  starters, which may be killed anywhere, or of sessions. A watcher that is not running gives no such
  promise: `StrayStopped` is about an installation where it runs.

* `BrokerLedger!Fairness`: the writer's write and flush return and the loop runs what is posted; every
  exchange ends, since its waits are bounded by timeouts; a process whose close of the ledger timed out
  (a healthy ledger with the writer stopped) exits, as the close is the last thing it does. Nothing is
  assumed of CONTROL or of the sender.

### 3.4 Where the code and its documentation differ

`dialog_outcome()` (`consent/queue.py:1456`) documents that a request levain decided has no dialog
outcome. `close_unrun` also closes a request that is still pending after its deadline; within the
grace the hook may mark that request undecided, and a late ruling then decides it. The run Dialog
shows a request denied by a ruling with the outcome "did not run". The record is not used as
authority, so the consequence is in what is displayed.

A smaller one is stated by `StatusStays` and is not a run of its own. `jobs.py` says of a job past its lease
that it "reads as `failed` at poll and is pruned on the next write" (`jobs.py:40-42`, `72-76`). The poll
(`read_status`) writes nothing, and `claim_running` and `finish` write without pruning: `finish` only asks that
the job is `running`. So a worker that outlived its lease may still write `done`, and a poll that showed the
job failed is followed by one that shows its result. A failure that a prune or a sweep has written stays.

## 4. What is proved

For every value of the constants that satisfies the named assumptions of the modules
(`CallAssumption`, `NoRequestAssumption`, `KeyAssumption`, `BoundAssumption`, `LeaseAssumption`,
`LedgerAssumption`, `JournalAssumption`, `DispatchAssumption`, `ActionsAssumption`), thus for any number of
requests, hooks, starters, launches, effects, jobs, lands, keys, servers, scopes and rows, any cap, and any
length of a hold, lease or window.

| Theorem | States | Argument |
|---|---|---|
| `ConsentQueueProofs!TypeCorrect` | TypeOK | one lemma per process |
| `Finality` | TerminalFinal | `RowMoves`: the eight ways a step may change a request |
| `AnswersInTime`, `GraceKept` | NoLateAnswer, ExpiryAfterGrace | `RowMoves`; the checks under the lock, not the earlier ones, carry them |
| `NoOrphanHalt` | HaltsReleased | `DecidedBy`: how a row was decided is in its state |
| `UndecidedStaysUndelivered` | UndecidedNeverDelivered | `DeliveredAnswered`: what was delivered was answered by a signature or a grant |
| `OneTake`, `NoStaleTake`, `TakeVerified` | TakenOnce, TakesFresh, TakesVerified | `PickSound`: what a hook may rely on of its pick when it gets the lock |
| `GapsNumbered` | GapsDense | cardinality of a session's gaps (`NextGapNumbered`) |
| `EvidenceCapped` | EvidenceBounded | cardinality of the evidence under each cap |
| `LogInOrder` | LogOrder | `Numbering`, `Logged`: a step that logs takes the next numbers (`Adds`) |
| `TakesInOrder` | TakesSignedInOrder | `OrderInv`: what is ruled later has a higher number; the take looks again under the lock |
| `LateAllowKept` | OneRunPerAllow | the refinement, step by step: `Rulings`, `NewTake`, else a stutter |
| `LateStaysLate` (if `MaxBack = 0`) | LateNeverAnswered | `LateInv`: what is past its hold stays past it |
| `TakenBackKept` | AnswersInForce | `ReadSound`, `AnswerSound`, `LostSound`: what a reading and a replay hold, against a log that moves on |
| `CoordinatorLeaseProofs!TypeCorrect` | TypeOK | types of the operators on tables, then one step per action |
| `TokensKept` | TokensInOrder | `TokenInv`: no accepted token exceeds the latest claim's |
| `LookIsFinal` | LookVoids | inductive with `AskedInv` (what is not asked for has no row) |
| `OneStarterEach` | OneStarter | `SpawnInv`: a starter past its claim has the spawn row; no row, no session |
| `EdgesKept` | LaunchEdges | `LaunchMoves`: the five ways a step may change a launch |
| `SilenceEnds` | SilenceBounded | `ReachInv`: what a launch reaches, and what a lease reaches by its holder |
| `OneAtATime` (if no rotation is asked) | OneCoordinator | `Sole`: a coordinator under way is the only one, and a standing lease is its or yours |
| `DeathsEnd` (if no rotation is asked) | DeathsBounded | `DeathInv`: who is over since your look died or worked; who starts has a death to spare |
| `AlwaysReplays`, `RowsAreKept`, `SpendingIsCovered` | NeverCorrupt, RowsKept, SpendingCovered | `IInv`: file, batch and queue fit line by line |
| `OutboxIsBounded` | OutboxBounded | `OutInv`: what is owed to the lineage is counted before it is written |
| `CapIsKept` | WithinCap | `MoneyInv`: a scope's account is the sum of its book, and the book is within the cap |
| `FiredOnce` | AtMostOnce | `Owners`: a claim owns its key's record until it is settled; `Ages`, `Traces`: what each claim that acts left of it |
| `PoisonStays` | FaultedForever | `Found`: a poisoned key is never claimed afresh, pruned or settled |
| `ShownStays` | StatusStays | `Stands`: what may become of a job's record in one step; only a running one is ever ended |
| `ReplaysResolve` | ReplayResolvable | `JobInv`: a job is kept at least as long as the key that points to it |
| `RunJournalProofs!TypeCorrect` | TypeOK | part of the invariant below |
| `OnceOnly`, `NoneUndecided` | AtMostOnce, UndecidedNeverRan | `Invariance`: leases, intents and decisions together |
| `AuthorizedAtAdmission` | AuthorizedNow | `Judged`: a verdict is for the decision and risk it was given for |
| `DispatchJobsProofs!TypeCorrect` | TypeOK | part of the invariant below |
| `WriterAlone` | OneWriter | `Running`: a process writes only for a running job; no sweep touches one |
| `LandsAgree` | Landed | `Rows`, `Swaps`, `Lands`: what rows, swaps and lands say of each other |

The properties alone are not inductive. NoStaleTake needs to know what a hook holds between its pick
and its write; LookIsFinal needs that launches are numbered as they are asked for, or a new launch
could be one your look had ended; OneStarter needs that the spawn row outlives the starter that
wrote it, which is why a killed starter blocks a second start rather than allowing one.

For the governed actions, `AtMostOnce` speaks of two firings that are long apart, so the invariant keeps
what the first one left: its key is poisoned, or the record still names it, or it was recorded as done and
is past its window (`Traces`). An inline request that may still fire owns its key's record (`Owners`): in
flight it would be poisoned by the next claim and never be free. A job's key is settled before its worker runs,
so a job may lose its record to a new claim while it waits or works; but then its own claim was done and past its
window when the other was made, and of any two claims of a key that act, one is so apart from the other
(`Ages`). That is what `AtMostOnce` says, in the order of the firings where no job fires late.

For the journal the invariant adds that a process in its call has the intent on record and holds the
only lease (`Intends`, `OneLease`), and that who calls without a decision does so at a rung that asks for
none (`Unasked`). For dispatch, `Landed` needs what a land knows between two transactions: an intent is
written on a branch that contains the job's base; branches only grow, so a tip once past the base never
equals it again; and a land that is to fail an authorised job saw a tip past the base without the job's
commit, so that no swap for that job took place, and by the compare-and-swap none can follow. Most steps
keep every row in the sense of `Kept`, and one lemma (`KeptStep`) covers them; filing, authorising, adopting,
failing for a moved base and the swap have their own.

The late rulings. Rulings are ordered by their receipts, not by a clock: every step that logs takes the
next numbers, so numbers are distinct and what is ruled later has a higher one (`LogInOrder`). That makes
the standing ruling of a call unique, which is what the mapping to `LateAllow` rests on: a ruling is the
abstract `Rule`, a take of a ruled allow is `Run` of the ticket that is out, and every other step keeps
every ticket (`LateAllowKept`). A hook picks outside the lock; that nothing newer was ruled is looked at
again inside it, and a ruling that does arrive between the two has a higher number than the picked one,
so what was signed in order stays in order (`TakesInOrder`). `LateStaysLate` is stated for a clock that does
not step back, as the property is: after a step back, what was past its hold is in time again.

What a hook holds as a decision. `AnswersInForce` relates a log read late to a row read early. A reading whose
answer was in force is fine. For one that was not, its key is revoked, and a revoked key is never active again; or
the grant has moved on from the link that answered, and links are numbered in the order they are written, so it
never comes back: what a later replay returns cannot vouch for it, and `Verify` drops it.

Coordinators. `OneAtATime` and `DeathsEnd` are stated for a system in which no holder asks for its own
rotation (`"coordinator" \notin Asks`); a rotation asks for a second launch while the first runs, on purpose.
Without one, a coordinator is asked for only when the lease is down and nobody is under way, and while
one is under way a standing lease is its or yours (`Sole`); so the code's case of a lease lost before its
launch became active never arises (`PendingHolds`). For the deaths, the watcher's count is compared with the
table: every coordinator that is over since your look is a death or has worked, and one that is asked
for and not spawned yet was asked for with a death to spare (`DeathInv`).

The broker's ledger. Its theorems are in `BrokerLedgerProofs`. The file always replays because the
writer's batch and the loop's queue continue it: each line fits what stands before it, in the file, the
batch or the queue, and it does so while the process still writes (`FileInv`). A line that resolves a hold is the
only one for it, and its hold is on the file before it (`HoldInv`); what was spent on a hold that is sent
is covered by whatever line books it (`SpentInv`). The outbox: the rows on the file or on their way that are not
acknowledged for good never exceed `OutboxMax` by more than the strandings nobody could refuse; as long as the
loop admits holds, each such row is known, pending, or owed by a hold, so the code's `outbox_committed`,
which adds these up, counts it (`OwedInv`). The cap: what a scope owes is a sum over its own holds and those of
earlier processes, whose lines the replay read (`Book`). An account is the net of that sum, and each step that
changes a hold changes the account by the same amount; a hold costs at most its amount until it is resolved and its
lines cost what the memory says; what survives a crash is a part of the book, and each hold in it costs no
more by its lines than it did in memory, so no replay charges more than the cap. Sums over a set that is not fixed
need induction over data, so `BrokerLedger` counts them: the `Total` of amounts is the number of units <<hold,
i>> with i up to the amount, and the library's theorems on cardinality do the rest.

The jobs. A replay of a key answers with the job that the key's record names. It can, because a job carries
the stamp of the request that filed it, does not end before it, and is kept for as long as the record is
(`JobInv`). What a poll showed of a record that was ended stays, because `finish` only touches a running job and
nothing makes an ended one run again (`Stands`). A poll that inferred a failure wrote none, so from then on the
record is past its lease: it is failed by a prune or a sweep, or ended by its worker, which is then late
(`EndedLate`), or gone.

Model-checked only: `PendingEnds`, `StrayStopped` and `HoldsEnd`. They are liveness properties under
fairness, which is beyond the prover. (Which actions are fair, and why, is section 3.3.)

## 5. Not modelled

Signatures, hashing and the matching of grant criteria (a record names its signer and verifies or
not); formatting, command lines, notices and web pages; the operating-system side of slots, seats,
chat egress and firing, which is most of the repository's lines; of the queue: terminal-carrier
rulings, contained-shell grants, snoozes and repings, away marks, deliveries of rulings and resume
steps, the Merkle log behind the receipts; of the other modelled components: what sections 2.2 to 2.6
leave out. The seat lease (`seat_lease.py`) mints roots and starts one process under a
signed lease; a revoke refuses later launches only, so little of it depends on an order of steps. Components
of the plan below are not modelled yet.

## 6. Plan

Done: `ConsentQueue` with `LateAllow`, `CoordinatorLease`, `BrokerLedger`, `GovernedActions`, `RunJournal` and
`DispatchJobs`, and the proofs of section 4: every invariant and action property that a passing run checks, and the
refinement, is a theorem. Next, in this order:

1. Proofs: `OneCoordinator` with rotations, restated for the pair of a holder and its successor.
2. `RulingDelivery`: claims of rulings, deliveries and resume steps, snoozes and repings, away marks;
   composed with `ConsentQueue`'s rows. Properties: a ruling is told at least once and resumed at
   most once; one sweeper per due ping; a leave never covers a later mark.
3. The order of drops and splits against spawn claims, as part of `CoordinatorLease`.
4. `QueryFence`, `AuthorityLog` with its anchor, the kill conditions as an operator module checked
   against a table, and the Merkle operators of `contracts/merkle.py` against a reference definition
   on small trees.

For each: an MC module, one run per question, sets of two or three and a clock of three or four
instants; then type correctness and its main invariant as theorems.
