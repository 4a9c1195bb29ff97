---------------------------- MODULE BrokerLedger ----------------------------
(***************************************************************************)
(* The reservation ledger of levain/broker/ledger.py, with the steps that  *)
(* an exchange, a refusal window and the lineage sender of                 *)
(* levain/broker/keys.py take on it.                                       *)
(*                                                                         *)
(* A hold is admitted on the loop and its `reserved' line queued for the   *)
(* one writer thread, which writes what is queued, flushes once and posts  *)
(* back to the loop.  Only a durable reservation may be sent and only a    *)
(* durable resolution takes a hold out of what is charged.  A ticketed     *)
(* hold's resolution and a `refused' line carry a lineage row, which stays *)
(* in the outbox until an acknowledgement of CONTROL's is durable too.     *)
(*                                                                         *)
(* The process may die between any two steps, a line in the writer's hands *)
(* then being in the file or not; the next open replays the file.          *)
(***************************************************************************)
EXTENDS Integers, Sequences, FiniteSets, SequencesExt, FiniteSetsExt

CONSTANTS
  Scopes,      \* budget scopes: a run, or a session and a route
  Cap,         \* what may be charged to a scope
  Estimates,   \* what an exchange may reserve
  Costs,       \* what an exchange may turn out to cost
  Tickets,     \* whether holds have a lineage base: a subset of BOOLEAN
  OutboxMax,   \* lineage_outbox_max
  EnvelopeMax, \* LINEAGE_ENVELOPE_RECORDS
  MaxRows,     \* bound: holds admitted and refusal windows closed
  MaxOpens     \* bound: times the file is opened

ASSUME LedgerAssumption ==
  /\ IsFiniteSet(Scopes)
  /\ Cap \in Nat
  /\ Estimates \subseteq Nat \ {0}
  /\ Costs \subseteq Nat
  /\ Tickets \subseteq BOOLEAN
  /\ {OutboxMax, EnvelopeMax} \subseteq Nat \ {0}
  /\ {MaxRows, MaxOpens} \subseteq Nat

VARIABLES
  file,      \* the complete lines of the file
  opens,     \* epochs begun
  up,        \* a process has the ledger open and attached
  healthy, closing, stop,
  nextSeq,   \* _next_seq
  hold,      \* the holds of this process, by the seq of their reserved line
  acc,       \* _acc: per scope, what is settled, overrun, uncertain, outstanding
  queue,     \* _q: lines for the writer, and Close
  inFlight,  \* _lines: the lines whose durability was not published yet
  pending,   \* _pending_outbox: those of them whose row enters the outbox
  outbox,    \* _outbox: triples <<epoch, seq>> with no durable ack
  known,     \* _known: triples with a durable row
  acking,    \* _ack_pending
  ackDue,    \* done-callbacks of ack lines' futures that have not run
  posts,     \* what the writer posted to the loop, in order
  writer,    \* the writer thread: its batch, or idle, dead or ended
  sender,    \* the lineage sender: the envelope it sent and how far it is
  sink,      \* the triples CONTROL appended
  spent,     \* what each hold that was sent cost, Unknown while nobody can tell
  rows,      \* holds admitted and refusal windows closed
  unowed     \* ticketed holds stranded alone: outbox_committed counts them no more

ledgerVars == <<healthy, closing, stop, nextSeq, hold, acc, queue, inFlight, pending, outbox,
                known, acking, ackDue, posts>>
loopVars == <<up, opens, ledgerVars>>
history == <<spent, rows, unowed>>
vars == <<file, loopVars, writer, sender, sink, history>>

------------------------------------------------------------------------------
(***************************************************************************)
(* Lines.  A triple names a row: the epoch and the seq of the hold it      *)
(* resolves, or its own (the ledger's id never changes).                   *)
(***************************************************************************)

Resolutions == {"released", "settled", "uncertain"}

Opened(n, e) == [kind |-> "opened", seq |-> n, epoch |-> e]
Reserved(n, e, scope, amount, base) ==
  [kind |-> "reserved", seq |-> n, epoch |-> e, scope |-> scope, amount |-> amount, base |-> base]
Resolution(n, s, outcome, restart, row) ==
  [kind |-> outcome.kind, seq |-> n, ref |-> s, settled |-> outcome.settled,
   overrun |-> outcome.overrun, restart |-> restart, row |-> row]
Refused(n, e) == [kind |-> "refused", seq |-> n, epoch |-> e]
Acked(n, refs) == [kind |-> "lineage-acked", seq |-> n, refs |-> refs]
Close == [kind |-> "close"]

Resolves(line) == line.kind \in Resolutions
HasRow(line) == line.kind = "refused" \/ (Resolves(line) /\ line.row)

\* Outcomes of a hold.
Unresolved == [kind |-> "none", settled |-> 0, overrun |-> 0]
Released == [kind |-> "released", settled |-> 0, overrun |-> 0]
Uncertain == [kind |-> "uncertain", settled |-> 0, overrun |-> 0]
Settled(cost, amount) ==
  [kind |-> "settled", settled |-> Min({cost, amount}), overrun |-> Max({0, cost - amount})]

------------------------------------------------------------------------------
(***************************************************************************)
(* The replay of a file.                                                   *)
(***************************************************************************)

Of(f, kinds) == {line \in Range(f) : line.kind \in kinds}
Held(f) == Of(f, {"reserved"})
Refs(f) == {line.ref : line \in Of(f, Resolutions)}
OpenHolds(f) == {line \in Held(f) : line.seq \notin Refs(f)}
LastSeq(f) == IF f = <<>> THEN 0 ELSE Last(f).seq

HeldAs(f, ref) == CHOOSE r \in Held(f) : r.seq = ref

\* A resolution's triple has the epoch of the hold that it is about.
RowOf(f, line) ==
  IF line.kind = "refused" THEN <<line.epoch, line.seq>> ELSE <<HeldAs(f, line.ref).epoch, line.ref>>
Known(f) == {RowOf(f, line) : line \in {x \in Range(f) : HasRow(x)}}
Outbox(f) == Known(f) \ UNION {line.refs : line \in Of(f, {"lineage-acked"})}

LastEpoch(f) == Max({0} \cup {line.epoch : line \in Of(f, {"opened"})})

\* Every rule of the replay that its own writer could break.
Corrupt(f) ==
  \/ \E i, j \in DOMAIN f : i < j /\ f[i].seq >= f[j].seq
  \/ \E i \in DOMAIN f : LET before == SubSeq(f, 1, i - 1) IN
       \/ /\ f[i].kind \in {"reserved", "refused"}
          /\ f[i].epoch # LastEpoch(before)
       \/ /\ f[i].kind = "opened"
          /\ \E line \in Of(before, {"opened"}) : line.epoch = f[i].epoch
       \/ /\ Resolves(f[i])
          /\ \/ f[i].ref \notin {line.seq : line \in Held(before)}
             \/ f[i].ref \in Refs(before)
             \/ f[i].settled > HeldAs(before, f[i].ref).amount
       \/ f[i].kind = "lineage-acked" /\ ~(f[i].refs \subseteq Known(before))

\* A sum, as the number of the units in it.
Total(part) == Cardinality(UNION {{x} \X (1..part[x]) : x \in DOMAIN part})

EndOf(f, r) == CHOOSE line \in Of(f, Resolutions) : line.ref = r.seq

\* What a scope is charged by a file, open holds at their full amount.
ReplayedAcc(f, scope) ==
  LET mine == {r \in Held(f) : r.scope = scope}
      open == mine \cap OpenHolds(f)
      ended == mine \ open
      Lost(restart) == {r \in ended : EndOf(f, r).kind = "uncertain" /\ EndOf(f, r).restart = restart}
  IN [settled |-> Total([r \in ended |-> EndOf(f, r).settled]),
      overrun |-> Total([r \in ended |-> EndOf(f, r).overrun]),
      restart |-> Total([r \in Lost(TRUE) |-> r.amount]) + Total([r \in open |-> r.amount]),
      other |-> Total([r \in Lost(FALSE) |-> r.amount]),
      outstanding |-> 0]

Charge(a) == a.settled + a.overrun + a.restart + a.other + a.outstanding

\* What a crash may leave: the file, and any part of what the writer was writing.
Survivors == {file \o SubSeq(writer.batch, 1, k) : k \in 0..Len(writer.batch)}

------------------------------------------------------------------------------
Unknown == -1
NoAcc == [settled |-> 0, overrun |-> 0, restart |-> 0, other |-> 0, outstanding |-> 0]
Idle == [pc |-> "idle", batch |-> <<>>, closing |-> FALSE, dead |-> FALSE]
NoEnvelope == [pc |-> "idle", triples |-> {}]

Init ==
  /\ file = <<>> /\ opens = 0 /\ up = FALSE
  /\ healthy = TRUE /\ closing = FALSE /\ stop = FALSE
  /\ nextSeq = 1 /\ hold = <<>> /\ acc = [c \in Scopes |-> NoAcc]
  /\ queue = <<>> /\ inFlight = {} /\ pending = {}
  /\ outbox = {} /\ known = {} /\ acking = {} /\ ackDue = {} /\ posts = <<>>
  /\ writer = Idle /\ sender = NoEnvelope /\ sink = {}
  /\ spent = <<>> /\ rows = 0 /\ unowed = 0

\* The numbers of a set, in order.
InOrder(S) == [i \in 1..Cardinality(S) |-> CHOOSE s \in S : Cardinality({t \in S : t < s}) = i - 1]

\* Faulty: a restart books a ticketed hold without its row.
RestartLines_NoRow(f, n) ==
  LET open == InOrder({r.seq : r \in OpenHolds(f)})
  IN [i \in DOMAIN open |-> Resolution(n + i, open[i], Uncertain, TRUE, FALSE)]

\* Every hold that the next open finds unresolved, booked uncertain.
RestartLines(f, n) ==
  LET open == InOrder({r.seq : r \in OpenHolds(f)})
  IN [i \in DOMAIN open |->
        Resolution(n + i, open[i], Uncertain, TRUE, HeldAs(f, open[i]).base)]
OpenBatch(f, e) == <<Opened(LastSeq(f) + 1, e)>> \o RestartLines(f, LastSeq(f) + 1)

(***************************************************************************)
(* Ledger.open and attach.  A corrupt file is refused; the process may die *)
(* with part of the batch written.                                         *)
(***************************************************************************)
Open ==
  LET f == file \o OpenBatch(file, opens + 1) IN
  /\ ~up /\ opens < MaxOpens /\ ~Corrupt(file)
  /\ opens' = opens + 1
  /\ file' = f /\ up' = TRUE
  /\ healthy' = TRUE /\ closing' = FALSE /\ stop' = FALSE
  /\ nextSeq' = LastSeq(f) + 1 /\ hold' = <<>>
  /\ acc' = [c \in Scopes |-> ReplayedAcc(f, c)]
  /\ outbox' = Outbox(f) /\ known' = Known(f)
  /\ UNCHANGED <<queue, inFlight, pending, acking, ackDue, posts, writer, sender, sink, history>>

OpenDies ==
  /\ ~up /\ opens < MaxOpens /\ ~Corrupt(file)
  /\ opens' = opens + 1
  /\ \E k \in 0..Len(OpenBatch(file, opens + 1)) :
       file' = file \o SubSeq(OpenBatch(file, opens + 1), 1, k)
  /\ UNCHANGED <<up, ledgerVars, writer, sender, sink, history>>

\* The process ends, at any step: what it had in memory is gone.
Dies ==
  /\ up
  /\ up' = FALSE
  /\ file' \in Survivors
  /\ healthy' = TRUE /\ closing' = FALSE /\ stop' = FALSE /\ nextSeq' = 1
  /\ hold' = <<>> /\ acc' = [c \in Scopes |-> NoAcc]
  /\ queue' = <<>> /\ inFlight' = {} /\ pending' = {}
  /\ outbox' = {} /\ known' = {} /\ acking' = {} /\ ackDue' = {} /\ posts' = <<>>
  /\ writer' = Idle /\ sender' = NoEnvelope
  /\ UNCHANGED <<opens, sink, history>>

------------------------------------------------------------------------------
(***************************************************************************)
(* The loop's side.                                                        *)
(***************************************************************************)

Live == {s \in DOMAIN hold : hold[s].state \in {"pending", "reserved", "sent", "resolving"}}
\* Faulty: a hold that was resolved may be resolved again.
Unended_Live == Live

Unended == {s \in DOMAIN hold : hold[s].state \in {"pending", "reserved", "sent"}}
TripleOf(line) == IF line.kind = "refused" THEN <<opens, line.seq>> ELSE <<opens, line.ref>>

\* Faulty: rows that live holds will still write are not counted.
Committed_Queued == Cardinality(outbox) + Cardinality({line \in pending : HasRow(line)})

\* outbox_committed: the rows there are, those queued, and those owed.
Committed ==
  Cardinality(outbox) + Cardinality({line \in pending : HasRow(line)})
    + Cardinality({s \in Unended : hold[s].base})

Open4Work == up /\ healthy /\ ~closing

\* _submit, of several lines at once: one more is taken with each seq.
Submit(lines) ==
  /\ nextSeq' = nextSeq + Len(lines)
  /\ queue' = queue \o lines
  /\ inFlight' = inFlight \cup Range(lines)
  /\ pending' = pending \cup {line \in Range(lines) : HasRow(line) \/ line.kind = "lineage-acked"}

(***************************************************************************)
(* Keys._admit_hold and Ledger.admit: one section, no await in it.         *)
(***************************************************************************)
Room(scope) == Cap - Charge(acc[scope])

Admit ==
  /\ Open4Work /\ rows < MaxRows
  /\ \E scope \in Scopes, amount \in Estimates, base \in Tickets :
       /\ base => Committed < OutboxMax
       /\ Room(scope) >= 1 /\ amount <= Room(scope)
       /\ acc' = [acc EXCEPT ![scope].outstanding = @ + amount]
       /\ hold' = [s \in DOMAIN hold \cup {nextSeq} |->
                     IF s = nextSeq
                     THEN [state |-> "pending", scope |-> scope, amount |-> amount,
                           base |-> base, outcome |-> Unresolved]
                     ELSE hold[s]]
       /\ Submit(<<Reserved(nextSeq, opens, scope, amount, base)>>)
  /\ rows' = rows + 1
  /\ UNCHANGED <<file, up, opens, healthy, closing, stop, outbox, known, acking, ackDue, posts,
                 writer, sender, sink, spent, unowed>>

\* A hold that is sent was spent on; one that is not sent costs nothing.
EndOutcome(state) == IF state = "sent" THEN Uncertain ELSE Released

Resolving(row, outcome) == [row EXCEPT !.state = "resolving", !.outcome = outcome]

\* _resolve: the line is queued, the money stays outstanding until it is durable.
Resolve(s, outcome) ==
  /\ hold' = [hold EXCEPT ![s] = Resolving(hold[s], outcome)]
  /\ Submit(<<Resolution(nextSeq, s, outcome, FALSE, hold[s].base)>>)
  /\ UNCHANGED <<file, up, opens, healthy, closing, stop, acc, outbox, known, acking, ackDue, posts,
                 writer, sender, sink, rows, unowed>>

(***************************************************************************)
(* The exchange ends, or its task does, however: Hold.end of _serve_q and  *)
(* the ledger's own _owner_ended.  What an ended exchange cost upstream is *)
(* never known.                                                            *)
(***************************************************************************)
Ends(s) ==
  /\ s \in Unended
  /\ Resolve(s, EndOutcome(hold[s].state))
  /\ UNCHANGED spent

\* send_head of an exchange: the ledger's gate, the write and mark_sent, no await between them.
\* Faulty: the head does not wait for the flush.
Sendable_Queued(s) == hold[s].state \in {"pending", "reserved"} /\ healthy /\ ~closing

Sendable(s) == hold[s].state = "reserved" /\ healthy /\ ~closing

SendHead(s) ==
  /\ s \in Live /\ Sendable(s)
  /\ hold' = [hold EXCEPT ![s].state = "sent"]
  /\ spent' = [x \in DOMAIN spent \cup {s} |-> IF x = s THEN Unknown ELSE spent[x]]
  /\ UNCHANGED <<file, up, opens, healthy, closing, stop, nextSeq, acc, queue, inFlight, pending, outbox,
                 known, acking, ackDue, posts, writer, sender, sink, rows, unowed>>

\* _settle of a completed relay, with the usage that the response told.
Settle(s) ==
  /\ s \in Unended /\ hold[s].state = "sent"
  /\ \E cost \in Costs :
       /\ spent' = [spent EXCEPT ![s] = cost]
       /\ Resolve(s, Settled(cost, hold[s].amount))

Stranded(s) == [hold[s] EXCEPT !.state = "stranded"]

\* Faulty: only holds that wait for their reservation are stranded.
Fault_Waiting ==
  /\ healthy' = FALSE /\ stop' = TRUE
  /\ hold' = [s \in DOMAIN hold |-> IF hold[s].state = "pending" THEN Stranded(s) ELSE hold[s]]
  /\ ackDue' = ackDue \cup {[refs |-> line.refs, ok |-> FALSE] : line \in {x \in pending : x.kind = "lineage-acked"}}
  /\ inFlight' = {} /\ pending' = {}

\* _fault and _fail_line_futs: nothing is sent or admitted any more, what is held stays charged.
Fault ==
  /\ healthy' = FALSE /\ stop' = TRUE
  /\ hold' = [s \in DOMAIN hold |-> IF s \in Live THEN Stranded(s) ELSE hold[s]]
  /\ ackDue' = ackDue \cup {[refs |-> line.refs, ok |-> FALSE] : line \in {x \in pending : x.kind = "lineage-acked"}}
  /\ inFlight' = {} /\ pending' = {}

(***************************************************************************)
(* _hold_durable's wait runs out.  The stall rule makes the ledger         *)
(* unhealthy if no flush returned meanwhile; else this hold only ends.     *)
(***************************************************************************)
WaitStalls(s) ==
  /\ s \in Live /\ hold[s].state = "pending" /\ healthy
  /\ inFlight # {}
  /\ Fault
  /\ UNCHANGED <<file, up, opens, closing, nextSeq, acc, queue, outbox, known, acking, posts,
                 writer, sender, sink, history>>

\* _owner_ended's own step fails: that hold alone is stranded.
OwnerFails(s) ==
  /\ s \in Unended
  /\ hold' = [hold EXCEPT ![s] = Stranded(s)]
  /\ unowed' = unowed + IF hold[s].base THEN 1 ELSE 0
  /\ UNCHANGED <<file, up, opens, healthy, closing, stop, nextSeq, acc, queue, inFlight, pending, outbox,
                 known, acking, ackDue, posts, writer, sender, sink, spent, rows>>

\* _refused_close: a refusal window's line, if the outbox may still grow.
RefusedCloses ==
  /\ Open4Work /\ rows < MaxRows
  /\ Committed < OutboxMax
  /\ rows' = rows + 1
  /\ Submit(<<Refused(nextSeq, opens)>>)
  /\ UNCHANGED <<file, up, opens, healthy, closing, stop, hold, acc, outbox, known, acking, ackDue, posts,
                 writer, sender, sink, spent, unowed>>

(***************************************************************************)
(* _durable: what the writer posted after a flush.                         *)
(***************************************************************************)
ReservedBy(lines) ==
  {line.seq : line \in {x \in lines : x.kind = "reserved" /\ hold[x.seq].state = "pending"}}
ResolvedBy(lines) ==
  {line.ref : line \in {x \in lines : Resolves(x) /\ hold[x.ref].state = "resolving"}}

\* Faulty: an uncertain hold is credited.
Credited_Uncertain(a, done) ==
  [a EXCEPT !.outstanding = @ - Total([s \in done |-> hold[s].amount]),
            !.settled = @ + Total([s \in done |-> hold[s].outcome.settled]),
            !.overrun = @ + Total([s \in done |-> hold[s].outcome.overrun])]

Credited(a, done) ==
  LET lost == {s \in done : hold[s].outcome.kind = "uncertain"}
  IN [a EXCEPT !.outstanding = @ - Total([s \in done |-> hold[s].amount]),
               !.settled = @ + Total([s \in done |-> hold[s].outcome.settled]),
               !.overrun = @ + Total([s \in done |-> hold[s].outcome.overrun]),
               !.other = @ + Total([s \in lost |-> hold[s].amount])]

Durable(lines) ==
  LET mine == lines \cap inFlight
      done == ResolvedBy(mine)
      fresh == {TripleOf(line) : line \in {x \in mine \cap pending : HasRow(x)}}
  IN /\ hold' = [s \in DOMAIN hold |->
                   IF s \in done THEN [hold[s] EXCEPT !.state = "resolved"]
                   ELSE IF s \in ReservedBy(mine) THEN [hold[s] EXCEPT !.state = "reserved"]
                   ELSE hold[s]]
     /\ acc' = [c \in Scopes |-> Credited(acc[c], {s \in done : hold[s].scope = c})]
     /\ inFlight' = inFlight \ mine
     /\ pending' = pending \ mine
     /\ known' = known \cup fresh
     /\ outbox' = outbox \cup fresh
     /\ ackDue' = ackDue \cup {[refs |-> line.refs, ok |-> TRUE] :
                                 line \in {x \in mine \cap pending : x.kind = "lineage-acked"}}
     /\ UNCHANGED <<healthy, stop>>

PostedDurable ==
  /\ posts # <<>> /\ Head(posts).what = "durable"
  /\ Durable(Range(Head(posts).lines))
  /\ posts' = Tail(posts)
  /\ UNCHANGED <<file, up, opens, closing, nextSeq, queue, acking, writer, sender, sink, history>>

PostedFault ==
  /\ posts # <<>> /\ Head(posts).what = "fault"
  /\ posts' = Tail(posts)
  /\ IF healthy THEN Fault ELSE UNCHANGED <<healthy, stop, hold, ackDue, inFlight, pending>>
  /\ UNCHANGED <<file, up, opens, closing, nextSeq, acc, queue, outbox, known, acking, writer, sender, sink, history>>

------------------------------------------------------------------------------
(***************************************************************************)
(* The writer thread.                                                      *)
(***************************************************************************)

\* What is queued before Close.
Lines(q) ==
  IF Close \in Range(q) THEN SubSeq(q, 1, (CHOOSE i \in DOMAIN q : q[i] = Close) - 1) ELSE q

\* It drains the queue; what comes after a fault or a stop is dropped.
WriterTakes ==
  /\ up /\ writer.pc = "idle" /\ queue # <<>>
  /\ queue' = <<>>
  /\ LET closes == Close \in Range(queue)
         writes == Lines(queue) # <<>> /\ ~writer.dead /\ ~stop
     IN writer' = [writer EXCEPT !.pc = IF writes THEN "busy" ELSE IF closes THEN "ended" ELSE "idle",
                                 !.batch = IF writes THEN Lines(queue) ELSE <<>>,
                                 !.closing = closes]
  /\ UNCHANGED <<file, up, opens, healthy, closing, stop, nextSeq, hold, acc, inFlight, pending, outbox, known,
                 acking, ackDue, posts, sender, sink, history>>

Written(dead) ==
  [writer EXCEPT !.pc = IF writer.closing THEN "ended" ELSE "idle", !.batch = <<>>, !.dead = dead]

WriterFlushes ==
  /\ writer.pc = "busy"
  /\ file' = file \o writer.batch
  /\ posts' = Append(posts, [what |-> "durable", lines |-> writer.batch])
  /\ writer' = Written(FALSE)
  /\ UNCHANGED <<up, opens, healthy, closing, stop, nextSeq, hold, acc, queue, inFlight, pending, outbox, known,
                 acking, ackDue, sender, sink, history>>

\* An error of the write or the flush: some of the lines may be in the file for all that.
WriterFails ==
  /\ writer.pc = "busy"
  /\ file' \in Survivors
  /\ posts' = Append(posts, [what |-> "fault", lines |-> <<>>])
  /\ writer' = Written(TRUE)
  /\ UNCHANGED <<up, opens, healthy, closing, stop, nextSeq, hold, acc, queue, inFlight, pending, outbox, known,
                 acking, ackDue, sender, sink, history>>

------------------------------------------------------------------------------
(***************************************************************************)
(* aclose, at keys' shutdown: every live hold ends, then the writer does.  *)
(***************************************************************************)
CloseLines ==
  LET ends == InOrder(Unended)
  IN [i \in DOMAIN ends |->
        Resolution(nextSeq + i - 1, ends[i], EndOutcome(hold[ends[i]].state), FALSE, hold[ends[i]].base)]

Closes ==
  /\ up /\ ~closing
  /\ closing' = TRUE
  /\ hold' = [s \in DOMAIN hold |->
                IF s \in Unended THEN Resolving(hold[s], EndOutcome(hold[s].state)) ELSE hold[s]]
  /\ nextSeq' = nextSeq + Len(CloseLines)
  /\ queue' = queue \o Append(CloseLines, Close)
  /\ inFlight' = inFlight \cup Range(CloseLines)
  /\ pending' = pending \cup {line \in Range(CloseLines) : HasRow(line)}
  /\ UNCHANGED <<file, up, opens, healthy, stop, acc, outbox, known, acking, ackDue, posts,
                 writer, sender, sink, history>>

CloseTimesOut ==
  /\ up /\ closing /\ ~stop /\ writer.pc # "ended"
  /\ stop' = TRUE
  /\ ackDue' = ackDue \cup {[refs |-> line.refs, ok |-> FALSE] : line \in {x \in pending : x.kind = "lineage-acked"}}
  /\ pending' = {}
  /\ UNCHANGED <<file, up, opens, healthy, closing, nextSeq, hold, acc, queue, inFlight, outbox, known, acking,
                 posts, writer, sender, sink, history>>

------------------------------------------------------------------------------
(***************************************************************************)
(* The lineage sender of keys.py and CONTROL.                              *)
(***************************************************************************)

\* lineage_envelope: rows of the first one's epoch, in ref order.
Envelope ==
  LET first == CHOOSE t \in outbox : \A u \in outbox : t[2] <= u[2]
      same == {t \in outbox : t[1] = first[1]}
  IN {t \in same : Cardinality({u \in same : u[2] < t[2]}) < EnvelopeMax}

loopUnchanged == UNCHANGED <<file, loopVars, writer, history>>

SenderSends ==
  /\ up /\ sender.pc = "idle" /\ outbox # {}
  /\ sender' = [pc |-> "sent", triples |-> Envelope]
  /\ loopUnchanged /\ UNCHANGED sink

\* No answer (CONTROL may have appended all the same), or the attachment ended: sent again later.
SenderDrops ==
  /\ sender.pc # "idle"
  /\ \/ sink' = sink
     \/ sender.pc = "sent" /\ sink' = sink \cup sender.triples
  /\ sender' = NoEnvelope
  /\ loopUnchanged

(***************************************************************************)
(* CONTROL appended some of them and its answer says which: Ledger.ack     *)
(* queues one line for what is not acknowledged yet.                       *)
(***************************************************************************)
NewAcks(triples) == (triples \cap outbox) \ acking

SenderAcks ==
  /\ sender.pc = "sent"
  /\ \E some \in SUBSET sender.triples \ {{}} :
       /\ sink' = sink \cup some
       /\ IF NewAcks(some) # {} /\ healthy /\ ~closing
          THEN /\ acking' = acking \cup NewAcks(some)
               /\ Submit(<<Acked(nextSeq, NewAcks(some))>>)
               /\ sender' = [pc |-> "acking", triples |-> some]
          ELSE /\ sender' = NoEnvelope
               /\ UNCHANGED <<acking, nextSeq, queue, inFlight, pending>>
  /\ UNCHANGED <<file, up, opens, healthy, closing, stop, hold, acc, outbox, known, ackDue, posts,
                 writer, history>>

\* _ack_done: the one place an acknowledgement is counted.
AckDone ==
  \E a \in ackDue :
    /\ ackDue' = ackDue \ {a}
    /\ acking' = acking \ a.refs
    /\ outbox' = IF a.ok THEN outbox \ a.refs ELSE outbox
    /\ sender' = IF sender.pc = "acking" THEN NoEnvelope ELSE sender
    /\ UNCHANGED <<file, up, opens, healthy, closing, stop, nextSeq, hold, acc, queue, inFlight, pending, known,
                   posts, writer, sink, history>>

------------------------------------------------------------------------------
Exchange(s) == Ends(s) \/ SendHead(s) \/ Settle(s) \/ WaitStalls(s) \/ OwnerFails(s)
Writer == WriterTakes \/ WriterFlushes \/ WriterFails
Posted == PostedDurable \/ PostedFault
Sender == SenderSends \/ SenderDrops \/ SenderAcks \/ AckDone

Next ==
  \/ Open \/ OpenDies \/ Dies
  \/ Admit \/ RefusedCloses \/ \E s \in DOMAIN hold : Exchange(s)
  \/ Posted \/ Writer \/ Sender
  \/ Closes \/ CloseTimesOut

(***************************************************************************)
(* The loop runs what is posted, the writer's write and flush return, and  *)
(* every exchange ends (its waits are bounded); a process whose writer was *)
(* stopped exits.                                                          *)
(***************************************************************************)
Fairness ==
  /\ WF_vars(Writer) /\ WF_vars(Posted)
  /\ WF_vars(\E s \in DOMAIN hold : Ends(s))
  /\ WF_vars(stop /\ healthy /\ Dies)

Spec == Init /\ [][Next]_vars /\ Fairness

------------------------------------------------------------------------------
HoldRow == [state : {"pending", "reserved", "sent", "resolving", "resolved", "stranded"},
            scope : Scopes, amount : Nat \ {0}, base : BOOLEAN,
            outcome : [kind : Resolutions \cup {"none"}, settled : Nat, overrun : Nat]]

\* The file replays whatever a crash leaves of it: no line is orphaned, doubled or out of order.
NeverCorrupt == \A f \in Survivors : ~Corrupt(f)

\* What was spent upstream is charged after a crash, up to what was reserved for it.
ReplayedCharge(f, r) ==
  LET ends == {line \in Of(f, Resolutions) : line.ref = r.seq}
      line == CHOOSE x \in ends : TRUE
  IN IF ends = {} \/ line.kind = "uncertain" THEN r.amount ELSE line.settled + line.overrun

SpendingCovered ==
  \A f \in Survivors, s \in DOMAIN spent :
    \E r \in Held(f) :
      /\ r.seq = s
      /\ ReplayedCharge(f, r) >= IF spent[s] = Unknown THEN r.amount ELSE Min({spent[s], r.amount})

\* No scope is charged more than its cap, overruns apart, and the money that is held is not
\* credited before a crash would credit it too.
WithinCap ==
  \A c \in Scopes :
    /\ Charge(acc[c]) - acc[c].overrun <= Cap
    /\ \A f \in Survivors :
         LET a == ReplayedAcc(f, c)
         IN Charge(a) - a.overrun <= IF up THEN Charge(acc[c]) - acc[c].overrun ELSE Cap

\* The outbox never passes its bound, in the process or after a crash, but for the rows of holds
\* that a failing owner step stranded, which the ledger forgets that it owes.
OutboxBounded ==
  /\ Cardinality(outbox) <= OutboxMax + unowed
  /\ \A f \in Survivors :
       Cardinality(Outbox(f)) + Cardinality({r \in OpenHolds(f) : r.base}) <= OutboxMax + unowed

\* Every ticketed hold that is resolved has its row, and a row leaves the outbox, of the
\* process or of a file, only when CONTROL appended it.
RowsKept ==
  /\ \A f \in Survivors :
       /\ \A r \in Held(f) : r.base /\ r.seq \in Refs(f) => <<r.epoch, r.seq>> \in Known(f)
       /\ Known(f) \ Outbox(f) \subseteq sink
  /\ known \ outbox \subseteq sink

\* Every admitted hold ends, resolved or stranded, or its process does: once no more are admitted,
\* none is left live.
HoldsEnd == (Live # {}) ~> (Live = {})
=============================================================================
