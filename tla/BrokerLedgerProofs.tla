------------------------- MODULE BrokerLedgerProofs -------------------------
(***************************************************************************)
(* Theorems about BrokerLedger, for every number of holds, openings and    *)
(* scopes: what the file, the writer's batch and the queue say of a hold   *)
(* or of a row, one after the other, is what the loop's memory says of it. *)
(***************************************************************************)
EXTENDS BrokerLedger, FiniteSetTheorems, SequenceTheorems, TLAPS

-----------------------------------------------------------------------------
(* Types.                                                                  *)

Triple == Nat \X Nat

OpenedLine == [kind : {"opened"}, seq : Nat, epoch : Nat]
ReservedLine == [kind : {"reserved"}, seq : Nat, epoch : Nat, scope : Scopes,
                 amount : Nat \ {0}, base : BOOLEAN]
ResolutionLine == [kind : Resolutions, seq : Nat, ref : Nat, settled : Nat,
                   overrun : Nat, restart : BOOLEAN, row : BOOLEAN]
RefusedLine == [kind : {"refused"}, seq : Nat, epoch : Nat]
AckedLine == [kind : {"lineage-acked"}, seq : Nat, refs : SUBSET Triple]

Line == OpenedLine \cup ReservedLine \cup ResolutionLine \cup RefusedLine \cup AckedLine

Post == [what : {"durable", "fault"}, lines : Seq(Line)]

\* acc is left out: MoneyInv, which bounds its sums, says what its rows hold.
TypeOK ==
  /\ file \in Seq(Line)
  /\ opens \in Nat /\ nextSeq \in Nat
  /\ {up, healthy, closing, stop} \subseteq BOOLEAN
  /\ DOMAIN hold \subseteq Nat
  /\ \A s \in DOMAIN hold : hold[s] \in HoldRow
  /\ queue \in Seq(Line \cup {Close})
  /\ Lines(queue) \in Seq(Line)
  /\ inFlight \subseteq Line /\ pending \subseteq Line
  /\ outbox \subseteq Triple /\ known \subseteq Triple
  /\ ackDue \subseteq [refs : SUBSET Triple, ok : BOOLEAN]
  /\ posts \in Seq(Post)
  /\ writer \in [pc : {"idle", "busy", "ended"}, batch : Seq(Line),
                 closing : BOOLEAN, dead : BOOLEAN]
  /\ sender.triples \subseteq Triple
  /\ DOMAIN spent \subseteq Nat
  /\ \A s \in DOMAIN spent : spent[s] \in Costs \cup {Unknown}

-----------------------------------------------------------------------------
(* The lines before one decide whether the replay takes it.                *)

Before(f, i) == {f[j] : j \in 1..(i - 1)}

\* A line of the set F has a row that t names.
Named(F, t) ==
  \E x \in F :
    \/ x.kind = "refused" /\ t = <<x.epoch, x.seq>>
    \/ /\ Resolves(x) /\ x.row
       /\ \E r \in F : r.kind = "reserved" /\ r.seq = x.ref /\ t = <<r.epoch, r.seq>>

Fits(F, x) ==
  /\ \A y \in F : y.seq < x.seq
  /\ x.kind \in {"reserved", "refused"} =>
       /\ \E y \in F : y.kind = "opened" /\ y.epoch = x.epoch
       /\ \A y \in F : y.kind = "opened" => y.epoch <= x.epoch
  /\ x.kind = "opened" => \A y \in F : y.kind = "opened" => y.epoch < x.epoch
  /\ Resolves(x) =>
       /\ \E r \in F : /\ r.kind = "reserved" /\ r.seq = x.ref
                       /\ x.settled <= r.amount /\ x.row = r.base
       /\ \A y \in F : Resolves(y) => y.ref # x.ref
  /\ x.kind = "lineage-acked" => \A t \in x.refs : Named(F, t)

Good(f) == \A i \in 1..Len(f) : Fits(Before(f, i), f[i])

-----------------------------------------------------------------------------
(* The invariant.                                                          *)

\* What the process wrote or will, and what of it may still reach the file.
OnDisk == Range(file)
OnTheWay == Range(writer.batch) \cup Range(Lines(queue))
Writes == up /\ ~stop /\ ~writer.dead

HeldLine(s) == Reserved(s, opens, hold[s].scope, hold[s].amount, hold[s].base)

\* A line of this process is about its own holds, its epoch, and what CONTROL appended.
Own(x) ==
  /\ x.seq < nextSeq
  /\ x.kind # "opened"
  /\ x.kind = "reserved" => x.seq \in DOMAIN hold
  /\ Resolves(x) => x.ref \in DOMAIN hold
  /\ x.kind = "refused" => x.epoch = opens
  /\ x.kind = "lineage-acked" => x.refs \subseteq sink

Down ==
  ~up => /\ queue = <<>> /\ posts = <<>> /\ writer = Idle
         /\ hold = <<>> /\ inFlight = {} /\ pending = {}
         /\ known = {} /\ outbox = {} /\ ackDue = {} /\ ~closing /\ ~stop

OwnInv ==
  /\ \A x \in OnTheWay \cup inFlight \cup pending : Own(x)
  /\ \A i \in 1..Len(posts) : \A x \in Range(posts[i].lines) : Own(x) /\ x \in OnDisk

FileInv ==
  /\ Good(file \o writer.batch)
  /\ Writes => Good((file \o writer.batch) \o Lines(queue))
  /\ writer.pc # "busy" => writer.batch = <<>>
  /\ writer.pc = "busy" => ~writer.dead
  /\ \A x \in OnDisk : /\ x.kind = "opened" => x.epoch <= opens
                       /\ x.kind = "lineage-acked" => x.refs \subseteq sink
  /\ up => /\ \E x \in OnDisk : x.kind = "opened" /\ x.epoch = opens
           /\ \A x \in OnDisk : x.seq < nextSeq

HoldInv ==
  /\ \A s \in DOMAIN hold : s < nextSeq
  /\ \A x \in OnDisk \cup OnTheWay :
       /\ x.kind = "reserved" /\ x.seq \in DOMAIN hold => x = HeldLine(x.seq)
       /\ Resolves(x) => x.ref \notin Unended
  /\ \A s \in DOMAIN hold :
       /\ hold[s].state \in {"reserved", "sent"} => HeldLine(s) \in OnDisk
       /\ Writes => HeldLine(s) \in OnDisk \cup OnTheWay
  /\ closing => Unended = {}
  /\ Close \in Range(queue) => closing

RowsInv ==
  /\ \A t \in known : Named(OnDisk, t)
  /\ outbox \subseteq known
  /\ known \ outbox \subseteq sink
  /\ \A a \in ackDue : a.refs \subseteq sink

\* A line that books the hold s covers what was spent on it.
Covers(x, s) ==
  \/ x.kind = "uncertain"
  \/ x.kind = "settled" /\ spent[s] # Unknown /\ x.settled + x.overrun >= spent[s]

SpentInv ==
  \A s \in DOMAIN spent :
    /\ \E r \in OnDisk : r.kind = "reserved" /\ r.seq = s
    /\ \A x \in OnDisk \cup OnTheWay : Resolves(x) /\ x.ref = s => Covers(x, s)
    /\ s \in DOMAIN hold => hold[s].state \notin {"pending", "reserved"}

IInv == TypeOK /\ Down /\ OwnInv /\ FileInv /\ HoldInv /\ RowsInv /\ SpentInv

-----------------------------------------------------------------------------
(* Lines and their sets.                                                   *)

LEMMA Kinds ==
  /\ "reserved" \notin Resolutions /\ "opened" \notin Resolutions
  /\ "refused" \notin Resolutions /\ "lineage-acked" \notin Resolutions
  /\ "close" \notin Resolutions
  /\ {"released", "settled", "uncertain"} = Resolutions
  BY DEF Resolutions

LEMMA LineFacts ==
  ASSUME NEW x \in Line
  PROVE  /\ x.seq \in Nat
         /\ x.kind # "close"
         /\ x.kind \in {"opened", "reserved", "refused"} => x.epoch \in Nat
         /\ x.kind = "reserved" =>
              /\ x.scope \in Scopes /\ x.amount \in Nat \ {0} /\ x.base \in BOOLEAN
              /\ x = Reserved(x.seq, x.epoch, x.scope, x.amount, x.base)
         /\ Resolves(x) => /\ x.ref \in Nat /\ x.settled \in Nat /\ x.overrun \in Nat
                           /\ x.row \in BOOLEAN
         /\ x.kind = "lineage-acked" => x.refs \subseteq Triple
         /\ HasRow(x) <=> x.kind = "refused" \/ (Resolves(x) /\ x.row)
<1>1. x \in OpenedLine \/ x \in ReservedLine \/ x \in ResolutionLine
        \/ x \in RefusedLine \/ x \in AckedLine
  BY DEF Line
<1>2. CASE x \in OpenedLine
  BY <1>2, Kinds DEF OpenedLine, Resolves, HasRow
<1>3. CASE x \in ReservedLine
  BY <1>3, Kinds DEF ReservedLine, Resolves, HasRow, Reserved
<1>4. CASE x \in ResolutionLine
  BY <1>4, Kinds DEF ResolutionLine, Resolves, HasRow
<1>5. CASE x \in RefusedLine
  BY <1>5, Kinds DEF RefusedLine, Resolves, HasRow
<1>6. CASE x \in AckedLine
  BY <1>6, Kinds DEF AckedLine, Resolves, HasRow
<1> QED
  BY <1>1, <1>2, <1>3, <1>4, <1>5, <1>6

LEMMA RangeIs ==
  ASSUME NEW S, NEW f \in Seq(S)
  PROVE  /\ Range(f) = {f[i] : i \in 1..Len(f)}
         /\ Range(f) \subseteq S
         /\ Len(f) \in Nat
         /\ DOMAIN f = 1..Len(f)
         /\ \A i \in 1..Len(f) : f[i] \in Range(f)
  BY RangeEquality, LenProperties

LEMMA BeforeIs ==
  ASSUME NEW f \in Seq(Line), NEW i \in 1..Len(f)
  PROVE  /\ Before(f, i) \subseteq Range(f)
         /\ Before(f, i) \subseteq Line
         /\ Range(SubSeq(f, 1, i - 1)) = Before(f, i)
<1>1. /\ Len(f) \in Nat
      /\ \A j \in 1..Len(f) : f[j] \in Line /\ f[j] \in Range(f)
  BY RangeIs
<1> DEFINE g == SubSeq(f, 1, i - 1)
<1>2. /\ g \in Seq(Line)
      /\ Len(g) = i - 1
      /\ \A j \in 1..(i - 1) : g[j] = f[j]
  <2>1. \A j \in 1..(i - 1) : f[j] \in Line
    BY <1>1
  <2>2. /\ g \in Seq(Line)
        /\ Len(g) = IF 1 <= i - 1 THEN (i - 1) - 1 + 1 ELSE 0
        /\ \A j \in 1..((i - 1) - 1 + 1) : g[j] = f[1 + j - 1]
    BY <2>1, SubSeqProperties
  <2> HIDE DEF g
  <2> QED
    BY <2>2, <1>1
<1> HIDE DEF g
<1>3. Range(g) = {g[j] : j \in 1..(i - 1)}
  BY <1>2, RangeIs
<1>4. Range(g) = Before(f, i)
  BY <1>2, <1>3 DEF Before
<1> QED
  BY <1>1, <1>4 DEF Before, g

LEMMA BeforeConcat ==
  ASSUME NEW f \in Seq(Line), NEW g \in Seq(Line)
  PROVE  /\ f \o g \in Seq(Line)
         /\ Len(f \o g) = Len(f) + Len(g)
         /\ Range(f \o g) = Range(f) \cup Range(g)
         /\ \A i \in 1..Len(f) : (f \o g)[i] = f[i] /\ Before(f \o g, i) = Before(f, i)
         /\ \A i \in 1..Len(g) :
              /\ (f \o g)[Len(f) + i] = g[i]
              /\ Before(f \o g, Len(f) + i) = Range(f) \cup Before(g, i)
<1> DEFINE h == f \o g
           m == Len(f)
           n == Len(g)
<1>1. /\ h \in Seq(Line)
      /\ Len(h) = m + n
      /\ \A i \in 1..(m + n) : h[i] = IF i <= m THEN f[i] ELSE g[i - m]
  BY ConcatProperties
<1>2. m \in Nat /\ n \in Nat
  BY RangeIs
<1>3. Range(h) = Range(f) \cup Range(g)
  BY RangeConcatenation
<1>4. Range(f) = {f[j] : j \in 1..m}
  BY RangeIs
<1> HIDE DEF h, m, n
<1>5. \A i \in 1..m : h[i] = f[i]
  BY <1>1, <1>2
<1>6. \A i \in 1..n : h[m + i] = g[i]
  BY <1>1, <1>2
<1>7. ASSUME NEW i \in 1..m PROVE Before(h, i) = Before(f, i)
  <2>1. \A j \in 1..(i - 1) : h[j] = f[j]
    BY <1>5, <1>2
  <2> QED
    BY <2>1 DEF Before
<1>8. ASSUME NEW i \in 1..n PROVE Before(h, m + i) = Range(f) \cup Before(g, i)
  <2> DEFINE k == m + i
             B == Before(h, k)
  <2>0. B = {h[j] : j \in 1..(k - 1)}
    BY DEF Before
  <2>4. k = m + i /\ k \in Nat
    BY <1>2
  <2> HIDE DEF k, B
  <2>1. ASSUME NEW x \in B PROVE x \in Range(f) \cup Before(g, i)
    <3>1. PICK j \in 1..(k - 1) : x = h[j]
      BY <2>0, <2>1
    <3>2. CASE j <= m
      BY <3>1, <3>2, <1>2, <1>4, <1>5, <2>4
    <3>3. CASE ~(j <= m)
      <4>1. j - m \in 1..(i - 1) /\ j - m \in 1..n /\ j = m + (j - m)
        BY <3>3, <1>2, <2>4
      <4>2. x = g[j - m]
        BY <3>1, <3>3, <1>1, <1>2, <2>4
      <4> QED
        BY <4>1, <4>2 DEF Before
    <3> QED
      BY <3>2, <3>3
  <2>2. Range(f) \subseteq B
    <3>1. \A j \in 1..m : j \in 1..(k - 1) /\ h[j] = f[j]
      BY <1>2, <1>5, <2>4
    <3> QED
      BY <3>1, <1>4, <2>0
  <2>3. Before(g, i) \subseteq B
    <3>1. \A j \in 1..(i - 1) : m + j \in 1..(k - 1) /\ h[m + j] = g[j]
      BY <1>2, <1>6, <2>4
    <3> QED
      BY <3>1, <2>0 DEF Before
  <2> QED
    BY <2>1, <2>2, <2>3 DEF k, B
<1> QED
  BY <1>1, <1>3, <1>5, <1>6, <1>7, <1>8 DEF h, m, n

\* What may follow a file that replays.
LEMMA GoodConcat ==
  ASSUME NEW f \in Seq(Line), NEW g \in Seq(Line)
  PROVE  Good(f \o g) <=>
           /\ Good(f)
           /\ \A i \in 1..Len(g) : Fits(Range(f) \cup Before(g, i), g[i])
<1> DEFINE h == f \o g
           m == Len(f)
           n == Len(g)
<1>1. /\ Len(h) = m + n
      /\ \A i \in 1..m : h[i] = f[i] /\ Before(h, i) = Before(f, i)
      /\ \A i \in 1..n : /\ h[m + i] = g[i]
                         /\ Before(h, m + i) = Range(f) \cup Before(g, i)
  BY BeforeConcat
<1>2. m \in Nat /\ n \in Nat
  BY RangeIs
<1> HIDE DEF h, m, n
<1>3. ASSUME Good(h) PROVE \A i \in 1..m : Fits(Before(f, i), f[i])
  BY <1>1, <1>2, <1>3 DEF Good
<1>4. ASSUME Good(h), NEW i \in 1..n PROVE Fits(Range(f) \cup Before(g, i), g[i])
  <2>1. m + i \in 1..Len(h)
    BY <1>1, <1>2
  <2> QED
    BY <2>1, <1>1, <1>4 DEF Good
<1>5. ASSUME \A i \in 1..m : Fits(Before(f, i), f[i]),
             \A i \in 1..n : Fits(Range(f) \cup Before(g, i), g[i]),
             NEW k \in 1..Len(h)
      PROVE  Fits(Before(h, k), h[k])
  <2>1. CASE k <= m
    BY <1>1, <1>2, <1>5, <2>1
  <2>2. CASE ~(k <= m)
    <3>1. k - m \in 1..n /\ k = m + (k - m)
      BY <1>1, <1>2, <2>2
    <3> QED
      BY <3>1, <1>1, <1>5
  <2> QED
    BY <2>1, <2>2
<1> QED
  BY <1>3, <1>4, <1>5 DEF Good, h, m, n

-----------------------------------------------------------------------------
(* What the replay makes of a file whose lines all fit.                    *)

LEMMA Split ==
  ASSUME NEW f \in Seq(Line), NEW k \in 0..Len(f)
  PROVE  \E g, h \in Seq(Line) : g = SubSeq(f, 1, k) /\ f = g \o h
<1> DEFINE n == Len(f)
           a == k + 1
           g == SubSeq(f, 1, k)
           h == SubSeq(f, a, n)
<1>1. n \in Nat /\ \A i \in 1..n : f[i] \in Line
  BY RangeIs
<1>2. g \in Seq(Line)
  <2>1. \A i \in 1..k : f[i] \in Line
    BY <1>1
  <2> QED
    BY <2>1, <1>1, SubSeqProperties
<1>3. h \in Seq(Line)
  <2>1. a \in Int /\ n \in Int /\ \A i \in a..n : f[i] \in Line
    BY <1>1
  <2> HIDE DEF a, n
  <2> QED
    BY <2>1, SubSeqProperties
<1>4. g \o h = SubSeq(f, 1, n)
  <2>1. /\ 1 \in 1..(Len(f) + 1)
        /\ k \in (1 - 1)..Len(f)
        /\ Len(f) \in k..Len(f)
    BY <1>1
  <2> QED
    BY <2>1, ConcatAdjacentSubSeq
<1>5. f = g \o h
  BY <1>4, SubSeqFull
<1> QED
  BY <1>2, <1>3, <1>5

LEMMA GoodPrefix ==
  ASSUME NEW f \in Seq(Line), Good(f), NEW k \in 0..Len(f)
  PROVE  /\ SubSeq(f, 1, k) \in Seq(Line)
         /\ Good(SubSeq(f, 1, k))
         /\ Range(SubSeq(f, 1, k)) \subseteq Range(f)
<1>1. PICK g \in Seq(Line), h \in Seq(Line) : g = SubSeq(f, 1, k) /\ f = g \o h
  BY Split
<1>2. Good(g)
  BY <1>1, GoodConcat
<1>3. Range(g) \subseteq Range(f)
  <2>1. Range(g \o h) = Range(g) \cup Range(h)
    BY BeforeConcat
  <2> QED
    BY <2>1, <1>1
<1> QED
  BY <1>1, <1>2, <1>3

LEMMA FitsAt ==
  ASSUME NEW f \in Seq(Line), Good(f), NEW x \in Range(f)
  PROVE  \E F \in SUBSET Range(f) : Fits(F, x)
<1>1. PICK i \in 1..Len(f) : x = f[i]
  BY RangeIs
<1>2. Fits(Before(f, i), x)
  BY <1>1 DEF Good
<1>3. Before(f, i) \subseteq Range(f)
  BY BeforeIs
<1> QED
  BY <1>2, <1>3

LEMMA SeqOrder ==
  ASSUME NEW f \in Seq(Line), Good(f), NEW i \in 1..Len(f), NEW j \in 1..Len(f), i < j
  PROVE  /\ f[i].seq < f[j].seq
         /\ f[i] \in Before(f, j)
<1>1. Fits(Before(f, j), f[j])
  BY DEF Good
<1>2. i \in 1..(j - 1)
  BY RangeIs
<1>3. f[i] \in Before(f, j)
  BY <1>2 DEF Before
<1> QED
  BY <1>1, <1>3 DEF Fits

LEMMA SeqUnique ==
  ASSUME NEW f \in Seq(Line), Good(f), NEW x \in Range(f), NEW y \in Range(f),
         x.seq = y.seq
  PROVE  x = y
<1>1. PICK i \in 1..Len(f) : x = f[i]
  BY RangeIs
<1>2. PICK j \in 1..Len(f) : y = f[j]
  BY RangeIs
<1>3. x.seq \in Nat /\ y.seq \in Nat /\ Len(f) \in Nat
  BY LineFacts, RangeIs
<1>4. ~(i < j) /\ ~(j < i)
  BY <1>1, <1>2, <1>3, SeqOrder
<1>5. i = j
  BY <1>3, <1>4
<1> QED
  BY <1>1, <1>2, <1>5

LEMMA ResolvesOnce ==
  ASSUME NEW f \in Seq(Line), Good(f), NEW x \in Range(f), Resolves(x)
  PROVE  /\ \E r \in Range(f) : /\ r.kind = "reserved" /\ r.seq = x.ref
                                /\ x.settled <= r.amount /\ x.row = r.base
         /\ \A y \in Range(f) : Resolves(y) /\ y.ref = x.ref => y = x
<1>1. \E r \in Range(f) : /\ r.kind = "reserved" /\ r.seq = x.ref
                          /\ x.settled <= r.amount /\ x.row = r.base
  BY FitsAt DEF Fits
<1>2. ASSUME NEW y \in Range(f), Resolves(y), y.ref = x.ref PROVE y = x
  <2>1. PICK i \in 1..Len(f) : x = f[i]
    BY RangeIs
  <2>2. PICK j \in 1..Len(f) : y = f[j]
    BY RangeIs
  <2>3. Fits(Before(f, i), x) /\ Fits(Before(f, j), y)
    BY <2>1, <2>2 DEF Good
  <2>4. ~(i < j) /\ ~(j < i)
    BY <1>2, <2>1, <2>2, <2>3, SeqOrder DEF Fits
  <2>5. i = j
    BY <2>4, RangeIs
  <2> QED
    BY <2>1, <2>2, <2>5
<1> QED
  BY <1>1, <1>2

LEMMA HeldIs ==
  ASSUME NEW f \in Seq(Line), Good(f), NEW r \in Range(f), r.kind = "reserved"
  PROVE  r \in Held(f) /\ HeldAs(f, r.seq) = r
<1>1. r \in Held(f)
  BY DEF Held, Of
<1>2. \A y \in Held(f) : y.seq = r.seq => y = r
  BY SeqUnique DEF Held, Of
<1> QED
  BY <1>1, <1>2 DEF HeldAs

LEMMA KnownIs ==
  ASSUME NEW f \in Seq(Line), Good(f), NEW t
  PROVE  t \in Known(f) <=> Named(Range(f), t)
<1> DEFINE R == Range(f)
<1>1. Known(f) = {RowOf(f, x) : x \in {y \in R : HasRow(y)}}
  BY DEF Known
<1>2. R \subseteq Line
  BY RangeIs
<1> HIDE DEF R
<1>3. ASSUME t \in Known(f) PROVE Named(R, t)
  <2>1. PICK x \in R : HasRow(x) /\ t = RowOf(f, x)
    BY <1>1, <1>3
  <2>2. CASE x.kind = "refused"
    BY <2>1, <2>2 DEF RowOf, Named
  <2>3. CASE x.kind # "refused"
    <3>1. Resolves(x) /\ x.row
      BY <2>1, <2>3 DEF HasRow
    <3>2. PICK r \in R : r.kind = "reserved" /\ r.seq = x.ref
      BY <3>1, ResolvesOnce DEF R
    <3>3. HeldAs(f, x.ref) = r
      BY <3>2, HeldIs DEF R
    <3>4. t = <<r.epoch, r.seq>>
      BY <2>1, <2>3, <3>2, <3>3 DEF RowOf
    <3> QED
      BY <3>1, <3>2, <3>4 DEF Named
  <2> QED
    BY <2>2, <2>3
<1>4. ASSUME Named(R, t) PROVE t \in Known(f)
  <2>1. CASE \E x \in R : x.kind = "refused" /\ t = <<x.epoch, x.seq>>
    <3>1. PICK x \in R : x.kind = "refused" /\ t = <<x.epoch, x.seq>>
      BY <2>1
    <3>2. HasRow(x) /\ t = RowOf(f, x)
      BY <3>1 DEF HasRow, RowOf
    <3> QED
      BY <1>1, <3>2
  <2>2. CASE \E x \in R : /\ Resolves(x) /\ x.row
                          /\ \E r \in R : /\ r.kind = "reserved" /\ r.seq = x.ref
                                          /\ t = <<r.epoch, r.seq>>
    <3>1. PICK x \in R : /\ Resolves(x) /\ x.row
                         /\ \E r \in R : /\ r.kind = "reserved" /\ r.seq = x.ref
                                         /\ t = <<r.epoch, r.seq>>
      BY <2>2
    <3>2. PICK r \in R : /\ r.kind = "reserved" /\ r.seq = x.ref
                         /\ t = <<r.epoch, r.seq>>
      BY <3>1
    <3>3. HeldAs(f, x.ref) = r
      BY <3>2, HeldIs DEF R
    <3>4. x.kind # "refused"
      BY <3>1, Kinds DEF Resolves
    <3>5. HasRow(x) /\ t = RowOf(f, x)
      BY <3>1, <3>2, <3>3, <3>4 DEF HasRow, RowOf
    <3> QED
      BY <1>1, <3>5
  <2> QED
    BY <1>4, <2>1, <2>2 DEF Named
<1> QED
  BY <1>3, <1>4 DEF R

LEMMA LastEpochIs ==
  ASSUME NEW f \in Seq(Line), NEW e \in Nat,
         \E y \in Range(f) : y.kind = "opened" /\ y.epoch = e,
         \A y \in Range(f) : y.kind = "opened" => y.epoch <= e
  PROVE  LastEpoch(f) = e
<1> DEFINE E == {0} \cup {line.epoch : line \in Of(f, {"opened"})}
<1>1. e \in E /\ \A y \in E : e >= y
  BY DEF Of
<1>2. E \subseteq Nat
  BY LineFacts, RangeIs DEF Of
<1> HIDE DEF E
<1> DEFINE m == Max(E)
<1>3. m \in E /\ \A y \in E : m >= y
  BY <1>1 DEF Max
<1> HIDE DEF m
<1>4. m = e
  <2>1. m \in Nat /\ m >= e /\ e >= m
    BY <1>1, <1>2, <1>3
  <2> QED
    BY <2>1
<1> QED
  BY <1>4 DEF E, m, LastEpoch

LEMMA GoodReplays ==
  ASSUME NEW f \in Seq(Line), Good(f)
  PROVE  ~Corrupt(f)
<1>1. Len(f) \in Nat /\ DOMAIN f = 1..Len(f) /\ Range(f) \subseteq Line
       /\ \A i \in 1..Len(f) : f[i] \in Range(f)
  BY RangeIs
<1>2. ASSUME NEW i \in 1..Len(f), NEW j \in 1..Len(f), i < j
      PROVE  ~(f[i].seq >= f[j].seq)
  BY <1>1, <1>2, SeqOrder, LineFacts
<1>3. ASSUME NEW i \in 1..Len(f)
      PROVE  LET before == SubSeq(f, 1, i - 1) IN
        /\ f[i].kind \in {"reserved", "refused"} => f[i].epoch = LastEpoch(before)
        /\ f[i].kind = "opened" =>
             ~\E line \in Of(before, {"opened"}) : line.epoch = f[i].epoch
        /\ Resolves(f[i]) =>
             /\ f[i].ref \in {line.seq : line \in Held(before)}
             /\ f[i].ref \notin Refs(before)
             /\ ~(f[i].settled > HeldAs(before, f[i].ref).amount)
        /\ f[i].kind = "lineage-acked" => f[i].refs \subseteq Known(before)
  <2> DEFINE b == SubSeq(f, 1, i - 1)
             x == f[i]
             B == Range(b)
  <2>1. b \in Seq(Line) /\ Good(b)
    BY <1>1, GoodPrefix
  <2>2. Fits(B, x)
    BY BeforeIs DEF Good
  <2>3. x \in Line /\ B \subseteq Line
    BY <1>1, <2>1, RangeIs
  <2> HIDE DEF b, x, B
  <2>4. x.kind \in {"reserved", "refused"} => x.epoch = LastEpoch(b)
    <3>1. SUFFICES ASSUME x.kind \in {"reserved", "refused"} PROVE x.epoch = LastEpoch(b)
      OBVIOUS
    <3>2. x.epoch \in Nat
      BY <2>3, <3>1, LineFacts
    <3>3. /\ \E y \in Range(b) : y.kind = "opened" /\ y.epoch = x.epoch
          /\ \A y \in Range(b) : y.kind = "opened" => y.epoch <= x.epoch
      BY <2>2, <3>1 DEF Fits, B
    <3> QED
      BY <2>1, <3>2, <3>3, LastEpochIs
  <2>5. x.kind = "opened" => ~\E y \in Of(b, {"opened"}) : y.epoch = x.epoch
    <3>1. \A y \in B : y.kind = "opened" => y.epoch \in Nat
      BY <2>3, LineFacts
    <3>2. x.kind = "opened" => x.epoch \in Nat
      BY <2>3, LineFacts
    <3>3. x.kind = "opened" => \A y \in B : y.kind = "opened" => y.epoch # x.epoch
      BY <2>2, <3>1, <3>2 DEF Fits
    <3> QED
      BY <3>3 DEF Of, B
  <2>6. Resolves(x) => /\ x.ref \in {y.seq : y \in Held(b)}
                       /\ x.ref \notin Refs(b)
                       /\ ~(x.settled > HeldAs(b, x.ref).amount)
    <3>1. SUFFICES ASSUME Resolves(x)
                   PROVE  /\ x.ref \in {y.seq : y \in Held(b)}
                          /\ x.ref \notin Refs(b)
                          /\ ~(x.settled > HeldAs(b, x.ref).amount)
      OBVIOUS
    <3>2. PICK r \in B : r.kind = "reserved" /\ r.seq = x.ref /\ x.settled <= r.amount
      BY <2>2, <3>1 DEF Fits
    <3>3. r \in Held(b) /\ HeldAs(b, x.ref) = r
      BY <2>1, <3>2, HeldIs DEF B
    <3>4. r.amount \in Nat /\ x.settled \in Nat
      BY <2>3, <3>1, <3>2, LineFacts
    <3>5. x.ref \notin Refs(b)
      BY <2>2, <3>1 DEF Fits, Refs, Of, Resolves, B
    <3> QED
      BY <3>2, <3>3, <3>4, <3>5
  <2>7. x.kind = "lineage-acked" => x.refs \subseteq Known(b)
    BY <2>1, <2>2, KnownIs DEF Fits, B
  <2> QED
    BY <2>4, <2>5, <2>6, <2>7 DEF b, x
<1> QED
  BY <1>1, <1>2, <1>3 DEF Corrupt

-----------------------------------------------------------------------------
(* A set of numbers, in order.                                             *)

LEMMA InOrderIs ==
  ASSUME NEW S \in SUBSET Nat, IsFiniteSet(S)
  PROVE  /\ Cardinality(S) \in Nat
         /\ DOMAIN InOrder(S) = 1..Cardinality(S)
         /\ \A i \in 1..Cardinality(S) : InOrder(S)[i] \in S
         /\ \A i, j \in 1..Cardinality(S) : InOrder(S)[i] = InOrder(S)[j] => i = j
<1> DEFINE n == Cardinality(S)
           Under(s) == {t \in S : t < s}
           rank == [s \in S |-> Cardinality(Under(s)) + 1]
<1>1. n \in Nat
  BY FS_CardinalityType
<1>2. ASSUME NEW s \in S
      PROVE  IsFiniteSet(Under(s)) /\ Cardinality(Under(s)) \in Nat
  <2>1. Under(s) \subseteq S
    OBVIOUS
  <2>2. IsFiniteSet(Under(s))
    BY <2>1, FS_Subset
  <2> QED
    BY <2>2, FS_CardinalityType
<1>3. ASSUME NEW s \in S, NEW T, Under(s) \cup {s} \subseteq T, IsFiniteSet(T)
      PROVE  Cardinality(Under(s)) + 1 <= Cardinality(T)
  <2>1. s \notin Under(s)
    OBVIOUS
  <2> HIDE DEF Under
  <2>2. /\ IsFiniteSet(Under(s) \cup {s})
        /\ Cardinality(Under(s) \cup {s}) = Cardinality(Under(s)) + 1
    BY <1>2, <2>1, FS_AddElement
  <2>3. Cardinality(Under(s) \cup {s}) <= Cardinality(T)
    BY <1>3, FS_Subset
  <2> QED
    BY <2>2, <2>3
<1>4. \A s \in S : rank[s] \in 1..n
  <2> TAKE s \in S
  <2>1. Under(s) \cup {s} \subseteq S
    OBVIOUS
  <2>2. Cardinality(Under(s)) + 1 <= n
    BY <1>3, <2>1
  <2> QED
    BY <1>1, <1>2, <2>2
<1>5. ASSUME NEW s \in S, NEW u \in S, s < u
      PROVE  rank[s] # rank[u]
  <2>0. \A t \in S : t \in Nat
    OBVIOUS
  <2>1. Under(s) \cup {s} \subseteq Under(u)
    <3>1. s \in Under(u)
      BY <1>5
    <3>2. ASSUME NEW t \in Under(s) PROVE t \in Under(u)
      <4>1. t \in Nat /\ s \in Nat /\ u \in Nat /\ t < s /\ t \in S
        BY <2>0
      <4>2. t < u
        BY <1>5, <4>1
      <4> QED
        BY <4>1, <4>2
    <3> QED
      BY <3>1, <3>2
  <2>2. Cardinality(Under(s)) + 1 <= Cardinality(Under(u))
    BY <1>2, <1>3, <2>1
  <2> DEFINE a == Cardinality(Under(s))
             b == Cardinality(Under(u))
  <2>3. a \in Nat /\ b \in Nat /\ rank[s] = a + 1 /\ rank[u] = b + 1 /\ a + 1 <= b
    BY <1>2, <2>2
  <2> HIDE DEF a, b, rank
  <2> QED
    BY <2>3
<1>6. rank \in Injection(S, 1..n)
  <2>1. rank \in [S -> 1..n]
    BY <1>4
  <2>2. \A s, u \in S : rank[s] = rank[u] => s = u
    <3> SUFFICES ASSUME NEW s \in S, NEW u \in S, s # u PROVE rank[s] # rank[u]
      OBVIOUS
    <3>1. s < u \/ u < s
      OBVIOUS
    <3> QED
      BY <1>5, <3>1
  <2> HIDE DEF rank
  <2> QED
    BY <2>1, <2>2 DEF Injection, IsInjective
<1>7. IsFiniteSet(1..n) /\ Cardinality(1..n) = n
  BY <1>1, FS_Interval
<1>8. rank \in Surjection(S, 1..n)
  <2> HIDE DEF rank
  <2> QED
    BY <1>6, <1>7, FS_Injection
<1>9. ASSUME NEW i \in 1..n PROVE \E s \in S : Cardinality(Under(s)) = i - 1
  <2>1. PICK s \in S : rank[s] = i
    <3> HIDE DEF rank
    <3> QED
      BY <1>8 DEF Surjection
  <2> DEFINE a == Cardinality(Under(s))
  <2>2. a \in Nat /\ a + 1 = i
    BY <1>2, <2>1
  <2> HIDE DEF a
  <2>3. a = i - 1
    BY <1>1, <2>2
  <2> QED
    BY <2>3 DEF a
<1> DEFINE q == InOrder(S)
<1>10. /\ DOMAIN q = 1..n
       /\ \A i \in 1..n : q[i] = CHOOSE s \in S : Cardinality(Under(s)) = i - 1
  BY DEF InOrder
<1> HIDE DEF q, n
<1>11. \A i \in 1..n : q[i] \in S /\ Cardinality(Under(q[i])) = i - 1
  BY <1>9, <1>10
<1>12. ASSUME NEW i \in 1..n, NEW j \in 1..n, q[i] = q[j] PROVE i = j
  <2>1. i - 1 = j - 1
    BY <1>11, <1>12
  <2> QED
    BY <1>1, <2>1
<1> QED
  BY <1>1, <1>10, <1>11, <1>12 DEF n, q

LEMMA InOrderAll ==
  ASSUME NEW S \in SUBSET Nat, IsFiniteSet(S), NEW s \in S
  PROVE  \E i \in 1..Cardinality(S) : InOrder(S)[i] = s
<1> DEFINE n == Cardinality(S)
           q == InOrder(S)
<1>1. /\ n \in Nat /\ DOMAIN q = 1..n
      /\ \A i \in 1..n : q[i] \in S
      /\ \A i, j \in 1..n : q[i] = q[j] => i = j
  BY InOrderIs
<1>2. q \in [1..n -> S]
  <2>1. q = [i \in 1..n |-> CHOOSE s_1 \in S : Cardinality({t \in S : t < s_1}) = i - 1]
    BY DEF InOrder
  <2> HIDE DEF q, n
  <2> QED
    BY <1>1, <2>1
<1> HIDE DEF q
<1>3. q \in Injection(1..n, S)
  BY <1>1, <1>2 DEF Injection, IsInjective
<1>4. Cardinality(1..n) = n
  BY <1>1, FS_Interval
<1>5. q \in Surjection(1..n, S)
  BY <1>3, <1>4, FS_Injection
<1> QED
  BY <1>5 DEF Surjection, q

-----------------------------------------------------------------------------
(* What the invariant says of whatever a crash leaves.                     *)

LEMMA Parts ==
  ASSUME TypeOK
  PROVE  /\ file \in Seq(Line) /\ writer.batch \in Seq(Line) /\ Lines(queue) \in Seq(Line)
         /\ file \o writer.batch \in Seq(Line)
         /\ OnDisk \subseteq Line /\ OnTheWay \subseteq Line
         /\ Range(file \o writer.batch) = OnDisk \cup Range(writer.batch)
<1>1. file \in Seq(Line) /\ writer.batch \in Seq(Line) /\ Lines(queue) \in Seq(Line)
  BY DEF TypeOK
<1>2. /\ file \o writer.batch \in Seq(Line)
      /\ Range(file \o writer.batch) = Range(file) \cup Range(writer.batch)
  BY <1>1, BeforeConcat
<1>3. Range(file) \subseteq Line /\ Range(writer.batch) \subseteq Line
      /\ Range(Lines(queue)) \subseteq Line
  BY <1>1, RangeIs
<1> QED
  BY <1>1, <1>2, <1>3 DEF OnDisk, OnTheWay

LEMMA LineConcat == \A s, t, u \in Seq(Line) : (s \o t) \o u = s \o (t \o u)
  BY ConcatAssociative

LEMMA SurvivorIs ==
  ASSUME TypeOK, FileInv, NEW f \in Survivors
  PROVE  /\ f \in Seq(Line)
         /\ Good(f)
         /\ OnDisk \subseteq Range(f)
         /\ Range(f) \subseteq OnDisk \cup Range(writer.batch)
         /\ Range(f) \subseteq Line
<1> DEFINE b == writer.batch
<1>1. file \in Seq(Line) /\ b \in Seq(Line) /\ Good(file \o b)
  BY Parts DEF FileInv
<1> HIDE DEF b
<1>2. PICK k \in 0..Len(b) : f = file \o SubSeq(b, 1, k)
  BY DEF Survivors, b
<1>3. PICK g \in Seq(Line), h \in Seq(Line) : g = SubSeq(b, 1, k) /\ b = g \o h
  BY <1>1, Split
<1>4. f = file \o g
  BY <1>2, <1>3
<1>5. f \in Seq(Line) /\ Range(f) = Range(file) \cup Range(g)
  <2>1. file \o g \in Seq(Line) /\ Range(file \o g) = Range(file) \cup Range(g)
    BY <1>1, <1>3, BeforeConcat
  <2> QED
    BY <1>4, <2>1
<1>6. file \o b = f \o h
  <2>1. (file \o g) \o h = file \o (g \o h)
    <3>1. file \in Seq(Line) /\ g \in Seq(Line) /\ h \in Seq(Line)
      BY <1>1, <1>3
    <3> QED
      BY <3>1, LineConcat
  <2> QED
    BY <1>3, <1>4, <2>1
<1>7. Good(f)
  BY <1>1, <1>5, <1>6, GoodConcat
<1>8. Range(b) = Range(g) \cup Range(h)
  <2>1. Range(g \o h) = Range(g) \cup Range(h)
    BY BeforeConcat
  <2> QED
    BY <1>3, <2>1
<1>9. Range(f) \subseteq Line
  BY <1>5, RangeIs
<1> QED
  BY <1>5, <1>7, <1>8, <1>9 DEF b, OnDisk

LEMMA NeverCorruptFollows ==
  ASSUME TypeOK, FileInv
  PROVE  NeverCorrupt
  BY SurvivorIs, GoodReplays DEF NeverCorrupt

LEMMA RowsFollow ==
  ASSUME TypeOK, OwnInv, FileInv, RowsInv
  PROVE  RowsKept
<1>1. ASSUME NEW f \in Survivors, NEW r \in Held(f), r.base, r.seq \in Refs(f)
      PROVE  <<r.epoch, r.seq>> \in Known(f)
  <2> DEFINE R == Range(f)
             t == <<r.epoch, r.seq>>
  <2>1. f \in Seq(Line) /\ Good(f)
    BY SurvivorIs
  <2>2. r \in R /\ r.kind = "reserved"
    BY DEF Held, Of
  <2>3. PICK x \in R : Resolves(x) /\ x.ref = r.seq
    BY <1>1 DEF Refs, Of, Resolves
  <2> HIDE DEF R, t
  <2>4. PICK q \in R : q.kind = "reserved" /\ q.seq = x.ref /\ x.row = q.base
    BY <2>1, <2>3, ResolvesOnce DEF R
  <2>5. q = r
    BY <2>1, <2>2, <2>3, <2>4, SeqUnique DEF R
  <2>6. x.row
    BY <1>1, <2>4, <2>5
  <2>7. Named(R, t)
    BY <2>2, <2>3, <2>6 DEF Named, t
  <2> QED
    BY <2>1, <2>7, KnownIs DEF R, t
<1>2. ASSUME NEW f \in Survivors PROVE Known(f) \ Outbox(f) \subseteq sink
  <2>1. \A x \in Range(f) : x.kind = "lineage-acked" => x.refs \subseteq sink
    BY SurvivorIs DEF FileInv, OwnInv, Own, OnTheWay
  <2>2. \A x \in Of(f, {"lineage-acked"}) : x.refs \subseteq sink
    BY <2>1 DEF Of
  <2> QED
    BY <2>2 DEF Outbox
<1>3. known \ outbox \subseteq sink
  BY DEF RowsInv
<1> QED
  BY <1>1, <1>2, <1>3 DEF RowsKept

LEMMA MinOfTwo ==
  ASSUME NEW a \in Int, NEW b \in Int
  PROVE  Min({a, b}) = IF a <= b THEN a ELSE b
<1> DEFINE m == Min({a, b})
<1>1. \E x \in {a, b} : \A y \in {a, b} : x =< y
  OBVIOUS
<1>2. m \in {a, b} /\ \A y \in {a, b} : m =< y
  BY <1>1 DEF Min
<1> HIDE DEF m
<1>3. m = IF a <= b THEN a ELSE b
  BY <1>2
<1> QED
  BY <1>3 DEF m

LEMMA MaxOfTwo ==
  ASSUME NEW a \in Int, NEW b \in Int
  PROVE  Max({a, b}) = IF a >= b THEN a ELSE b
<1> DEFINE m == Max({a, b})
<1>1. \E x \in {a, b} : \A y \in {a, b} : x >= y
  OBVIOUS
<1>2. m \in {a, b} /\ \A y \in {a, b} : m >= y
  BY <1>1 DEF Max
<1> HIDE DEF m
<1>3. m = IF a >= b THEN a ELSE b
  BY <1>2
<1> QED
  BY <1>3 DEF m

LEMMA SpendingFollows ==
  ASSUME TypeOK, FileInv, SpentInv
  PROVE  SpendingCovered
<1> SUFFICES ASSUME NEW f \in Survivors, NEW s \in DOMAIN spent
             PROVE  \E r \in Held(f) :
                      /\ r.seq = s
                      /\ ReplayedCharge(f, r) >=
                           IF spent[s] = Unknown THEN r.amount ELSE Min({spent[s], r.amount})
  BY DEF SpendingCovered
<1>1. /\ f \in Seq(Line) /\ Good(f) /\ OnDisk \subseteq Range(f)
      /\ Range(f) \subseteq OnDisk \cup OnTheWay /\ Range(f) \subseteq Line
  BY SurvivorIs DEF OnTheWay
<1>2. PICK r \in Range(f) : r.kind = "reserved" /\ r.seq = s
  BY <1>1 DEF SpentInv
<1>3. r \in Held(f)
  BY <1>2 DEF Held, Of
<1>4. r.amount \in Nat
  BY <1>1, <1>2, LineFacts
<1> DEFINE least == IF spent[s] = Unknown THEN r.amount ELSE Min({spent[s], r.amount})
           ends == {line \in Of(f, Resolutions) : line.ref = r.seq}
           x == CHOOSE y \in ends : TRUE
           c == ReplayedCharge(f, r)
<1>5. spent[s] \in Nat \/ spent[s] = Unknown
  BY LedgerAssumption DEF TypeOK
<1>6. Unknown \notin Nat
  BY DEF Unknown
<1>7. /\ spent[s] = Unknown => least = r.amount
      /\ spent[s] # Unknown => least <= spent[s]
      /\ least <= r.amount
      /\ least \in Nat
  <2>1. CASE spent[s] = Unknown
    BY <2>1, <1>4
  <2>2. CASE spent[s] # Unknown
    <3>1. spent[s] \in Nat
      BY <1>5, <2>2
    <3> DEFINE a == spent[s]
               b == r.amount
    <3>2. least = Min({a, b}) /\ a \in Nat /\ b \in Nat
      BY <2>2, <3>1, <1>4
    <3> HIDE DEF a, b, least
    <3>3. least = IF a <= b THEN a ELSE b
      BY <3>2, MinOfTwo
    <3>4. least <= a /\ least <= b /\ least \in Nat
      BY <3>2, <3>3
    <3> QED
      BY <2>2, <3>4 DEF a, b
  <2> QED
    BY <2>1, <2>2
<1>8. c = IF ends = {} \/ x.kind = "uncertain" THEN r.amount ELSE x.settled + x.overrun
  BY DEF ReplayedCharge
<1> HIDE DEF c, x, least, ends
<1>9. CASE ends = {}
  BY <1>3, <1>2, <1>4, <1>7, <1>8, <1>9 DEF c, least
<1>10. CASE ends # {}
  <2>1. x \in ends
    BY <1>10 DEF x
  <2>2. x \in Range(f) /\ Resolves(x) /\ x.ref = s
    BY <2>1, <1>2 DEF ends, Of, Resolves
  <2>3. Covers(x, s)
    BY <2>2, <1>1 DEF SpentInv
  <2>4. CASE x.kind = "uncertain"
    BY <2>4, <1>2, <1>3, <1>4, <1>7, <1>8 DEF c, least
  <2>5. CASE x.kind # "uncertain"
    <3>1. spent[s] # Unknown /\ x.settled + x.overrun >= spent[s]
      BY <2>3, <2>5 DEF Covers
    <3>2. x.settled \in Nat /\ x.overrun \in Nat
      BY <2>2, <1>1, LineFacts
    <3>3. c = x.settled + x.overrun
      BY <1>8, <1>10, <2>5
    <3>4. spent[s] \in Nat
      BY <3>1, <1>5
    <3>5. c >= least
      BY <3>1, <3>2, <3>3, <3>4, <1>7
    <3> QED
      BY <3>5, <1>2, <1>3 DEF c, least
  <2> QED
    BY <2>4, <2>5
<1> QED
  BY <1>9, <1>10

-----------------------------------------------------------------------------
(* What a step of a process that stays up leaves as it was.                *)

Goes ==
  /\ up' = up /\ opens' = opens /\ nextSeq <= nextSeq'
  /\ DOMAIN hold \subseteq DOMAIN hold'
  /\ \A s \in DOMAIN hold :
       /\ hold'[s].scope = hold[s].scope
       /\ hold'[s].amount = hold[s].amount
       /\ hold'[s].base = hold[s].base
       /\ hold'[s].state \in {"pending", "reserved"} => hold[s].state \in {"pending", "reserved"}
       /\ s \in Unended' => s \in Unended
  /\ OnDisk \subseteq OnDisk'
  /\ sink \subseteq sink'

LEMMA HeldLineKept ==
  ASSUME Goes, NEW s \in DOMAIN hold
  PROVE  HeldLine(s)' = HeldLine(s)
  BY DEF Goes, HeldLine

LEMMA OwnKept ==
  ASSUME TypeOK, TypeOK', Goes, NEW x \in Line, Own(x)
  PROVE  Own(x)'
<1>1. x.seq \in Nat /\ nextSeq \in Nat /\ nextSeq' \in Nat
  BY LineFacts DEF TypeOK
<1>2. x.seq < nextSeq /\ nextSeq <= nextSeq'
  BY DEF Own, Goes
<1>3. x.seq < nextSeq'
  BY <1>1, <1>2
<1> QED
  BY <1>3 DEF Own, Goes

LEMMA OwnMoves ==
  ASSUME TypeOK, TypeOK', OwnInv, Goes,
         \A x \in OnTheWay' \cup inFlight' \cup pending' :
           x \in OnTheWay \cup inFlight \cup pending \/ Own(x)',
         \A i \in 1..Len(posts') :
           \/ \E j \in 1..Len(posts) : posts'[i] = posts[j]
           \/ Range(posts'[i].lines) \subseteq OnTheWay \cap OnDisk'
  PROVE  OwnInv'
<1>1. OnTheWay \cup inFlight \cup pending \subseteq Line
  BY Parts DEF TypeOK
<1>2. \A x \in OnTheWay \cup inFlight \cup pending : Own(x)'
  BY <1>1, OwnKept DEF OwnInv
<1>3. ASSUME NEW i \in 1..Len(posts'), NEW x \in Range(posts'[i].lines)
      PROVE  Own(x)' /\ x \in OnDisk'
  <2>1. CASE \E j \in 1..Len(posts) : posts'[i] = posts[j]
    <3>1. PICK j \in 1..Len(posts) : posts'[i] = posts[j]
      BY <2>1
    <3>2. x \in Range(posts[j].lines)
      BY <1>3, <3>1
    <3>3. Own(x) /\ x \in OnDisk
      BY <3>2 DEF OwnInv
    <3>4. x \in Line
      BY <3>3, Parts
    <3> QED
      BY <3>3, <3>4, OwnKept DEF Goes
  <2>2. CASE Range(posts'[i].lines) \subseteq OnTheWay \cap OnDisk'
    BY <1>2, <1>3, <2>2
  <2> QED
    BY <2>1, <2>2
<1> QED
  BY <1>2, <1>3 DEF OwnInv

\* No line is about a hold that is not admitted yet.
LEMMA NothingAhead ==
  ASSUME TypeOK, OwnInv, FileInv, HoldInv, up, NEW x \in OnDisk \cup OnTheWay
  PROVE  /\ x.seq < nextSeq
         /\ Resolves(x) => x.ref < nextSeq
<1>1. x \in Line
  BY Parts
<1>2. CASE x \in OnDisk
  <2>1. x.seq < nextSeq
    BY <1>2 DEF FileInv
  <2>2. Good(file)
    <3>1. file \in Seq(Line) /\ writer.batch \in Seq(Line) /\ Good(file \o writer.batch)
      BY Parts DEF FileInv
    <3> QED
      BY <3>1, GoodConcat
  <2>3. ASSUME Resolves(x) PROVE x.ref < nextSeq
    <3>1. file \in Seq(Line)
      BY Parts
    <3>2. PICK r \in OnDisk : r.kind = "reserved" /\ r.seq = x.ref
      BY <1>2, <2>2, <2>3, <3>1, ResolvesOnce DEF OnDisk
    <3> QED
      BY <3>2 DEF FileInv
  <2> QED
    BY <2>1, <2>3
<1>3. CASE x \in OnTheWay
  <2>1. Own(x)
    BY <1>3 DEF OwnInv
  <2> QED
    BY <2>1 DEF Own, HoldInv
<1> QED
  BY <1>2, <1>3

LEMMA HoldMoves ==
  ASSUME TypeOK, TypeOK', OwnInv, FileInv, HoldInv, Goes,
         \A x \in OnDisk' \cup OnTheWay' :
           \/ x \in OnDisk \cup OnTheWay
           \/ /\ x.kind = "reserved" /\ x.seq \in DOMAIN hold' => x = HeldLine(x.seq)'
              /\ Resolves(x) => x.ref \notin Unended',
         \A s \in DOMAIN hold' \ DOMAIN hold :
           /\ up /\ nextSeq <= s /\ s < nextSeq'
           /\ hold'[s].state = "pending"
           /\ Writes' => HeldLine(s)' \in OnDisk' \cup OnTheWay',
         \A s \in DOMAIN hold :
           hold'[s].state \in {"reserved", "sent"} =>
             hold[s].state \in {"reserved", "sent"} \/ HeldLine(s) \in OnDisk',
         Writes' => Writes /\ OnDisk \cup OnTheWay \subseteq OnDisk' \cup OnTheWay',
         closing' => Unended' = {},
         Close \in Range(queue') => closing'
  PROVE  HoldInv'
<1>1. \A s \in DOMAIN hold' : s < nextSeq'
  <2> TAKE s \in DOMAIN hold'
  <2>1. s \in Nat /\ nextSeq \in Nat /\ nextSeq' \in Nat
    BY DEF TypeOK
  <2>2. CASE s \in DOMAIN hold
    <3>1. s < nextSeq /\ nextSeq <= nextSeq'
      BY <2>2 DEF HoldInv, Goes
    <3> QED
      BY <2>1, <3>1
  <2> QED
    BY <2>2
<1>2. ASSUME NEW x \in OnDisk' \cup OnTheWay'
      PROVE  /\ x.kind = "reserved" /\ x.seq \in DOMAIN hold' => x = HeldLine(x.seq)'
             /\ Resolves(x) => x.ref \notin Unended'
  <2>1. CASE x \in OnDisk \cup OnTheWay
    <3>1. x \in Line
      BY <2>1, Parts
    <3>2. ASSUME x.kind = "reserved", x.seq \in DOMAIN hold'
          PROVE  x = HeldLine(x.seq)'
      <4>1. x.seq \in DOMAIN hold
        <5>1. ASSUME x.seq \notin DOMAIN hold PROVE FALSE
          <6>1. up /\ nextSeq <= x.seq
            BY <3>2, <5>1
          <6>2. x.seq < nextSeq
            BY <2>1, <6>1, NothingAhead
          <6>3. x.seq \in Nat /\ nextSeq \in Nat
            BY <3>1, LineFacts DEF TypeOK
          <6> QED
            BY <6>1, <6>2, <6>3
        <5> QED
          BY <5>1
      <4>2. x = HeldLine(x.seq)
        BY <2>1, <3>2, <4>1 DEF HoldInv
      <4> QED
        BY <4>1, <4>2, HeldLineKept
    <3>3. ASSUME Resolves(x) PROVE x.ref \notin Unended'
      <4> SUFFICES ASSUME x.ref \in Unended' PROVE FALSE
        OBVIOUS
      <4>1. x.ref \notin Unended
        BY <2>1, <3>3 DEF HoldInv
      <4>2. x.ref \in DOMAIN hold'
        BY DEF Unended
      <4>3. x.ref \notin DOMAIN hold
        BY <4>1 DEF Goes
      <4>4. up /\ nextSeq <= x.ref
        BY <4>2, <4>3
      <4>5. x.ref < nextSeq
        BY <2>1, <3>3, <4>4, NothingAhead
      <4> QED
        BY <4>4, <4>5, <3>1, <3>3, LineFacts DEF TypeOK
    <3> QED
      BY <3>2, <3>3
  <2> QED
    BY <1>2, <2>1
<1>3. ASSUME NEW s \in DOMAIN hold'
      PROVE  /\ hold'[s].state \in {"reserved", "sent"} => HeldLine(s)' \in OnDisk'
             /\ Writes' => HeldLine(s)' \in OnDisk' \cup OnTheWay'
  <2>1. CASE s \in DOMAIN hold
    <3>1. HeldLine(s)' = HeldLine(s)
      BY <2>1, HeldLineKept
    <3>2. hold[s].state \in {"reserved", "sent"} => HeldLine(s) \in OnDisk'
      BY <2>1 DEF HoldInv, Goes
    <3>3. Writes' => HeldLine(s) \in OnDisk' \cup OnTheWay'
      BY <2>1 DEF HoldInv
    <3> QED
      BY <2>1, <3>1, <3>2, <3>3
  <2>2. CASE s \notin DOMAIN hold
    BY <1>3, <2>2
  <2> QED
    BY <2>1, <2>2
<1> QED
  BY <1>1, <1>2, <1>3 DEF HoldInv

LEMMA NamedMore ==
  ASSUME NEW F, NEW G, F \subseteq G, NEW t, Named(F, t)
  PROVE  Named(G, t)
  BY DEF Named

LEMMA RowsMoves ==
  ASSUME RowsInv, OnDisk \subseteq OnDisk', sink \subseteq sink',
         known' = known, outbox' = outbox,
         \A a \in ackDue' : a \in ackDue \/ a.refs \subseteq sink'
  PROVE  RowsInv'
<1>1. \A t \in known' : Named(OnDisk', t)
  BY NamedMore DEF RowsInv
<1> QED
  BY <1>1 DEF RowsInv

LEMMA SpentMoves ==
  ASSUME TypeOK, TypeOK', SpentInv, OwnInv, FileInv, HoldInv, Goes,
         spent' = spent,
         \A x \in OnDisk' \cup OnTheWay' :
           \/ x \in OnDisk \cup OnTheWay
           \/ Resolves(x) /\ x.ref \in DOMAIN spent => Covers(x, x.ref),
         \A s \in DOMAIN hold' \ DOMAIN hold : up /\ nextSeq <= s
  PROVE  SpentInv'
<1> SUFFICES ASSUME NEW s \in DOMAIN spent
             PROVE  /\ \E r \in OnDisk' : r.kind = "reserved" /\ r.seq = s
                    /\ \A x \in OnDisk' \cup OnTheWay' :
                         Resolves(x) /\ x.ref = s => Covers(x, s)'
                    /\ s \in DOMAIN hold' => hold'[s].state \notin {"pending", "reserved"}
  BY DEF SpentInv
<1>1. PICK r \in OnDisk : r.kind = "reserved" /\ r.seq = s
  BY DEF SpentInv
<1>2. r \in OnDisk'
  BY DEF Goes
<1>3. ASSUME NEW x \in OnDisk' \cup OnTheWay', Resolves(x), x.ref = s
      PROVE  Covers(x, s)'
  <2>1. Covers(x, s)
    BY <1>3 DEF SpentInv
  <2> QED
    BY <2>1 DEF Covers
<1>4. ASSUME s \in DOMAIN hold' PROVE hold'[s].state \notin {"pending", "reserved"}
  <2>1. s \in DOMAIN hold
    <3>1. ASSUME s \notin DOMAIN hold PROVE FALSE
      <4>1. up /\ nextSeq <= s
        BY <1>4, <3>1
      <4>2. s < nextSeq
        BY <1>1, <4>1, NothingAhead
      <4> QED
        BY <4>1, <4>2 DEF TypeOK
    <3> QED
      BY <3>1
  <2> QED
    BY <2>1 DEF SpentInv, Goes
<1> QED
  BY <1>1, <1>2, <1>3, <1>4

-----------------------------------------------------------------------------
(* The queue, and a line that is put on it.                                *)

LEMMA LinesOpen ==
  ASSUME NEW q \in Seq(Line)
  PROVE  Close \notin Range(q) /\ Lines(q) = q
<1>1. \A x \in Range(q) : x.kind # "close"
  BY RangeIs, LineFacts
<1>2. Close.kind = "close"
  BY DEF Close
<1>3. Close \notin Range(q)
  BY <1>1, <1>2
<1> QED
  BY <1>3 DEF Lines

LEMMA LinesClosed ==
  ASSUME NEW q \in Seq(Line)
  PROVE  /\ Append(q, Close) \in Seq(Line \cup {Close})
         /\ Lines(Append(q, Close)) = q
         /\ Close \in Range(Append(q, Close))
<1> DEFINE L == Line \cup {Close}
           c == Append(q, Close)
           n == Len(q)
<1>1. q \in Seq(L) /\ Close \in L
  <2>1. Line \subseteq L
    OBVIOUS
  <2> QED
    BY <2>1, SeqMonotonic
<1>2. /\ c \in Seq(L)
      /\ Len(c) = n + 1
      /\ \A i \in 1..n : c[i] = q[i]
      /\ c[n + 1] = Close
  <2> HIDE DEF L
  <2> QED
    BY <1>1, AppendProperties
<1>3. n \in Nat /\ \A i \in 1..n : q[i] \in Range(q)
  BY RangeIs
<1>4. \A i \in 1..n : q[i] # Close
  BY <1>3, LinesOpen
<1>5. DOMAIN c = 1..(n + 1)
  BY <1>2, LenProperties
<1> HIDE DEF c
<1>6. Close \in Range(c)
  <2>1. n + 1 \in DOMAIN c
    BY <1>3, <1>5
  <2> QED
    BY <2>1, <1>2 DEF Range
<1> DEFINE k == CHOOSE i \in DOMAIN c : c[i] = Close
<1>7. k = n + 1
  <2> DEFINE m == n + 1
  <2>1. m \in DOMAIN c /\ c[m] = Close /\ \A i \in DOMAIN c : c[i] = Close => i = m
    BY <1>2, <1>3, <1>4, <1>5
  <2> HIDE DEF m
  <2>2. k = m
    BY <2>1
  <2> QED
    BY <2>2 DEF m
<1>8. Lines(c) = SubSeq(c, 1, n)
  <2>1. Lines(c) = SubSeq(c, 1, k - 1)
    BY <1>6 DEF Lines
  <2> HIDE DEF k, n
  <2>2. k - 1 = n
    BY <1>7, <1>3
  <2> QED
    BY <2>1, <2>2
<1>9. SubSeq(c, 1, n) = q
  <2> HIDE DEF n
  <2>1. \A i \in 1..n : c[i] \in Line
    BY <1>2, <1>3, RangeIs
  <2> DEFINE p == SubSeq(c, 1, n)
  <2>2. /\ p \in Seq(Line)
        /\ Len(p) = IF 1 <= n THEN n - 1 + 1 ELSE 0
        /\ \A i \in 1..(n - 1 + 1) : p[i] = c[1 + i - 1]
    BY <2>1, <1>3, SubSeqProperties
  <2> HIDE DEF p
  <2>3. Len(p) = n
    BY <2>2, <1>3
  <2>4. \A i \in 1..n : p[i] = q[i]
    BY <2>2, <1>2, <1>3
  <2>5. p = q
    BY <2>2, <2>3, <2>4, SeqEqual DEF n
  <2> QED
    BY <2>5 DEF p
<1> QED
  BY <1>2, <1>6, <1>8, <1>9 DEF c

LEMMA OneLine ==
  ASSUME NEW x \in Line
  PROVE  /\ <<x>> \in Seq(Line) /\ Len(<<x>>) = 1 /\ Range(<<x>>) = {x}
         /\ <<x>>[1] = x /\ Before(<<x>>, 1) = {}
<1>1. <<x>> \in Seq(Line) /\ Len(<<x>>) = 1 /\ <<x>>[1] = x
  OBVIOUS
<1>2. DOMAIN <<x>> = 1..1
  BY <1>1, LenProperties
<1>3. Range(<<x>>) = {x}
  BY <1>1, <1>2 DEF Range
<1>4. Before(<<x>>, 1) = {}
  BY DEF Before
<1> QED
  BY <1>1, <1>3, <1>4

LEMMA NotClosed ==
  ASSUME TypeOK, HoldInv, ~closing
  PROVE  queue \in Seq(Line) /\ Lines(queue) = queue
<1>1. Close \notin Range(queue)
  BY DEF HoldInv
<1>2. Lines(queue) = queue
  BY <1>1 DEF Lines
<1> QED
  BY <1>2, Parts

LEMMA QueuedIs ==
  ASSUME TypeOK, HoldInv, ~closing, NEW x \in Line, Submit(<<x>>)
  PROVE  /\ nextSeq' = nextSeq + 1
         /\ queue' \in Seq(Line \cup {Close})
         /\ Lines(queue') \in Seq(Line)
         /\ Lines(queue') = Lines(queue) \o <<x>>
         /\ Range(Lines(queue')) = Range(Lines(queue)) \cup {x}
         /\ Close \notin Range(queue')
         /\ inFlight' = inFlight \cup {x}
         /\ pending' \subseteq pending \cup {x}
<1>1. queue \in Seq(Line) /\ Lines(queue) = queue
  BY NotClosed
<1>2. <<x>> \in Seq(Line) /\ Len(<<x>>) = 1 /\ Range(<<x>>) = {x}
  BY OneLine
<1>3. queue' = queue \o <<x>>
  BY DEF Submit
<1>4. queue' \in Seq(Line) /\ Range(queue') = Range(queue) \cup {x}
  <2> DEFINE g == <<x>>
  <2>1. g \in Seq(Line) /\ Range(g) = {x}
    BY <1>2
  <2> HIDE DEF g
  <2>2. queue \o g \in Seq(Line) /\ Range(queue \o g) = Range(queue) \cup Range(g)
    BY <1>1, <2>1, BeforeConcat
  <2>3. queue' = queue \o g
    BY <1>3 DEF g
  <2> QED
    BY <2>1, <2>2, <2>3
<1>5. Lines(queue') = queue' /\ Close \notin Range(queue')
  BY <1>4, LinesOpen
<1>6. queue' \in Seq(Line \cup {Close})
  <2>1. Line \subseteq Line \cup {Close}
    OBVIOUS
  <2> QED
    BY <1>4, <2>1, SeqMonotonic
<1>7. /\ nextSeq' = nextSeq + 1 /\ inFlight' = inFlight \cup {x}
      /\ pending' \subseteq pending \cup {x}
  BY <1>2 DEF Submit
<1> QED
  BY <1>1, <1>3, <1>4, <1>5, <1>6, <1>7

LEMMA FitsNext ==
  ASSUME TypeOK, OwnInv, FileInv, HoldInv, RowsInv, Writes,
         NEW x \in Line, nextSeq <= x.seq, x.kind # "opened",
         x.kind \in {"reserved", "refused"} => x.epoch = opens,
         Resolves(x) => /\ x.ref \in Unended
                        /\ x.settled <= hold[x.ref].amount /\ x.row = hold[x.ref].base,
         x.kind = "lineage-acked" => x.refs \subseteq known
  PROVE  Fits(OnDisk \cup OnTheWay, x)
<1> DEFINE F == OnDisk \cup OnTheWay
<1>1. \A y \in F : y.seq < x.seq
  <2> SUFFICES ASSUME NEW y \in F PROVE y.seq < x.seq
    OBVIOUS
  <2>1. y.seq < nextSeq
    BY NothingAhead DEF Writes
  <2>2. y \in Line
    BY Parts
  <2>3. y.seq \in Nat /\ x.seq \in Nat /\ nextSeq \in Nat
    BY <2>2, LineFacts DEF TypeOK
  <2> QED
    BY <2>1, <2>3
<1>2. \A y \in F : y.kind = "opened" => y.epoch <= opens
  BY DEF OwnInv, Own, FileInv
<1>3. \E y \in F : y.kind = "opened" /\ y.epoch = opens
  BY DEF FileInv, Writes
<1>4. ASSUME Resolves(x)
      PROVE  /\ \E r \in F : /\ r.kind = "reserved" /\ r.seq = x.ref
                             /\ x.settled <= r.amount /\ x.row = r.base
             /\ \A y \in F : Resolves(y) => y.ref # x.ref
  <2>1. x.ref \in Unended /\ x.ref \in DOMAIN hold
    BY <1>4 DEF Unended
  <2> DEFINE r == HeldLine(x.ref)
  <2>2. r \in F
    BY <2>1 DEF HoldInv
  <2>3. /\ r.kind = "reserved" /\ r.seq = x.ref
        /\ r.amount = hold[x.ref].amount /\ r.base = hold[x.ref].base
    BY DEF HeldLine, Reserved
  <2>4. \A y \in F : Resolves(y) => y.ref # x.ref
    BY <2>1 DEF HoldInv
  <2> HIDE DEF r, F
  <2> QED
    BY <1>4, <2>2, <2>3, <2>4
<1>5. ASSUME x.kind = "lineage-acked", NEW t \in x.refs PROVE Named(F, t)
  <2>1. Named(OnDisk, t)
    BY <1>5 DEF RowsInv
  <2> QED
    BY <2>1, NamedMore
<1> HIDE DEF F
<1>6. Fits(F, x)
  BY <1>1, <1>2, <1>3, <1>4, <1>5 DEF Fits
<1> QED
  BY <1>6 DEF F

LEMMA FitsMore ==
  ASSUME NEW F, NEW B, NEW x, Fits(F, x), Resolves(x),
         \A y \in B : y.seq < x.seq /\ Resolves(y) /\ y.ref # x.ref
  PROVE  Fits(F \cup B, x)
<1>1. x.kind \notin {"reserved", "refused", "opened", "lineage-acked"}
  BY Kinds DEF Resolves
<1> QED
  BY <1>1 DEF Fits

LEMMA FileSame ==
  ASSUME TypeOK, TypeOK', FileInv, Goes, file' = file, writer' = writer,
         Writes' => Good((file \o writer.batch) \o Lines(queue))'
  PROVE  FileInv'
<1>1. OnDisk' = OnDisk
  BY DEF OnDisk
<1>2. Good(file' \o writer'.batch)
  BY DEF FileInv
<1>3. up' => \A x \in OnDisk' : x.seq < nextSeq'
  <2> SUFFICES ASSUME up, NEW x \in OnDisk PROVE x.seq < nextSeq'
    BY <1>1 DEF Goes
  <2>1. x.seq < nextSeq /\ nextSeq <= nextSeq'
    BY DEF FileInv, Goes
  <2>2. x.seq \in Nat /\ nextSeq \in Nat /\ nextSeq' \in Nat
    BY Parts, LineFacts DEF TypeOK
  <2> QED
    BY <2>1, <2>2
<1> QED
  BY <1>1, <1>2, <1>3 DEF FileInv, Goes

LEMMA FileQueued ==
  ASSUME TypeOK, TypeOK', OwnInv, FileInv, HoldInv, Goes,
         file' = file, writer' = writer, stop' = stop, ~closing,
         NEW x \in Line, Submit(<<x>>),
         Writes => Fits(OnDisk \cup OnTheWay, x)
  PROVE  FileInv'
<1> DEFINE f == (file \o writer.batch) \o Lines(queue)
<1>1. ASSUME Writes PROVE Good(f \o <<x>>)
  <2>1. f \in Seq(Line) /\ Range(f) = OnDisk \cup OnTheWay
    <3>1. /\ file \o writer.batch \in Seq(Line)
          /\ Lines(queue) \in Seq(Line)
          /\ Range(file \o writer.batch) = OnDisk \cup Range(writer.batch)
      BY Parts
    <3>2. /\ f \in Seq(Line)
          /\ Range(f) = Range(file \o writer.batch) \cup Range(Lines(queue))
      BY <3>1, BeforeConcat
    <3> QED
      BY <3>1, <3>2 DEF OnTheWay
  <2>2. Good(f)
    BY <1>1 DEF FileInv
  <2> HIDE DEF f
  <2>3. Fits(Range(f) \cup {}, x)
    BY <1>1, <2>1
  <2> DEFINE g == <<x>>
  <2>4. g \in Seq(Line) /\ Len(g) = 1 /\ g[1] = x /\ Before(g, 1) = {}
    BY OneLine
  <2> HIDE DEF g
  <2>5. \A i \in 1..Len(g) : Fits(Range(f) \cup Before(g, i), g[i])
    <3>1. \A i \in 1..Len(g) : i = 1
      BY <2>4
    <3>2. Fits(Range(f) \cup Before(g, 1), g[1])
      BY <2>3, <2>4
    <3> QED
      BY <3>1, <3>2
  <2>6. Good(f \o g)
    BY <2>1, <2>2, <2>4, <2>5, GoodConcat
  <2> QED
    BY <2>6 DEF g
<1>2. Lines(queue') = Lines(queue) \o <<x>>
  BY QueuedIs
<1>3. f \o <<x>> = (file \o writer.batch) \o (Lines(queue) \o <<x>>)
  <2> DEFINE a == file \o writer.batch
             b == Lines(queue)
             g == <<x>>
  <2>1. a \in Seq(Line) /\ b \in Seq(Line) /\ g \in Seq(Line)
    BY Parts, OneLine
  <2> HIDE DEF a, b, g
  <2>2. (a \o b) \o g = a \o (b \o g)
    BY <2>1, ConcatAssociative
  <2> QED
    BY <2>2 DEF a, b, g
<1>4. Writes' => Writes
  BY DEF Writes, Goes
<1>5. Writes' => Good((file \o writer.batch) \o Lines(queue))'
  BY <1>1, <1>2, <1>3, <1>4
<1> QED
  BY <1>5, FileSame

-----------------------------------------------------------------------------
(* The steps of the loop that queue a line.                                *)

LEMMA UpIs ==
  ASSUME Down, NEW s \in DOMAIN hold
  PROVE  up
<1>1. ASSUME ~up PROVE FALSE
  <2>1. hold = <<>>
    BY <1>1 DEF Down
  <2>2. DOMAIN hold = {}
    BY <2>1
  <2> QED
    BY <2>2
<1> QED
  BY <1>1

LEMMA AdmitStep ==
  ASSUME IInv, Admit
  PROVE  IInv'
<1> USE DEF IInv
<1>1. PICK scope \in Scopes, amount \in Estimates, base \in Tickets :
        /\ hold' = [s \in DOMAIN hold \cup {nextSeq} |->
                      IF s = nextSeq
                      THEN [state |-> "pending", scope |-> scope, amount |-> amount,
                            base |-> base, outcome |-> Unresolved]
                      ELSE hold[s]]
        /\ Submit(<<Reserved(nextSeq, opens, scope, amount, base)>>)
  BY DEF Admit
<1>0. PICK n \in Nat : n = nextSeq
  BY DEF TypeOK
<1>00. PICK x : x = Reserved(n, opens, scope, amount, base)
  OBVIOUS
<1> DEFINE row == [state |-> "pending", scope |-> scope, amount |-> amount,
                   base |-> base, outcome |-> Unresolved]
<1>2. /\ up /\ healthy /\ ~closing
      /\ UNCHANGED <<file, up, opens, healthy, closing, stop, outbox, known, ackDue,
                     posts, writer, sender, sink, spent>>
  BY DEF Admit, Open4Work
<1>3. /\ amount \in Nat \ {0} /\ base \in BOOLEAN /\ nextSeq \in Nat /\ opens \in Nat
  BY LedgerAssumption DEF TypeOK
<1>4. /\ x.kind = "reserved" /\ x.seq = nextSeq /\ x.epoch = opens /\ x.scope = scope
      /\ x.amount = amount /\ x.base = base
  BY <1>0, <1>00 DEF Reserved
<1>5. x \in Line
  BY <1>3, <1>00 DEF Line, ReservedLine, Reserved
<1>6. row \in HoldRow
  BY <1>3 DEF HoldRow, Unresolved
<1>7. nextSeq \notin DOMAIN hold
  BY <1>3 DEF HoldInv
<1>8. /\ DOMAIN hold' = DOMAIN hold \cup {nextSeq}
      /\ \A s \in DOMAIN hold : hold'[s] = hold[s]
      /\ hold'[nextSeq] = row
  BY <1>1, <1>7
<1>9. /\ row.state = "pending" /\ row.scope = scope /\ row.amount = amount /\ row.base = base
  OBVIOUS
<1>10. Submit(<<x>>)
  BY <1>1, <1>0, <1>00
<1>11. HeldLine(n)' = x
  BY <1>0, <1>00, <1>2, <1>8, <1>9 DEF HeldLine
<1> HIDE DEF row
<1>12. /\ nextSeq' = nextSeq + 1
       /\ queue' \in Seq(Line \cup {Close})
       /\ Lines(queue') \in Seq(Line)
       /\ Range(Lines(queue')) = Range(Lines(queue)) \cup {x}
       /\ Close \notin Range(queue')
       /\ inFlight' = inFlight \cup {x}
       /\ pending' \subseteq pending \cup {x}
  BY <1>2, <1>5, <1>10, QueuedIs
<1>13. TypeOK'
  <2>1. DOMAIN hold' \subseteq Nat /\ \A s \in DOMAIN hold' : hold'[s] \in HoldRow
    BY <1>3, <1>6, <1>8 DEF TypeOK
  <2>2. inFlight' \subseteq Line /\ pending' \subseteq Line
    BY <1>5, <1>12 DEF TypeOK
  <2> QED
    BY <1>2, <1>3, <1>12, <2>1, <2>2 DEF TypeOK
<1>14. Goes
  <2>1. nextSeq <= nextSeq'
    BY <1>3, <1>12
  <2>2. \A s \in DOMAIN hold : s \in Unended' => s \in Unended
    BY <1>8 DEF Unended
  <2> QED
    BY <1>2, <1>8, <2>1, <2>2 DEF Goes, OnDisk
<1>15. OnDisk' = OnDisk /\ OnTheWay' = OnTheWay \cup {x}
  BY <1>2, <1>12 DEF OnDisk, OnTheWay
<1>16. Own(x)'
  BY <1>2, <1>3, <1>4, <1>8, <1>12, Kinds DEF Own, Resolves
<1>17. Down'
  BY <1>2 DEF Down
<1>18. OwnInv'
  <2>1. \A y \in OnTheWay' \cup inFlight' \cup pending' :
          y \in OnTheWay \cup inFlight \cup pending \/ Own(y)'
    BY <1>12, <1>15, <1>16
  <2>2. \A i \in 1..Len(posts') : \E j \in 1..Len(posts) : posts'[i] = posts[j]
    BY <1>2
  <2> QED
    BY <1>13, <1>14, <2>1, <2>2, OwnMoves
<1>19. FileInv'
  <2>1. ASSUME Writes PROVE Fits(OnDisk \cup OnTheWay, x)
    <3>1. ~Resolves(x) /\ x.kind # "lineage-acked" /\ x.kind # "opened" /\ nextSeq <= x.seq
      BY <1>3, <1>4, Kinds DEF Resolves
    <3> QED
      BY <1>4, <1>5, <2>1, <3>1, FitsNext
  <2> QED
    BY <1>2, <1>5, <1>10, <1>13, <1>14, <2>1, FileQueued
<1>20. HoldInv'
  <2>1. \A y \in OnDisk' \cup OnTheWay' :
          \/ y \in OnDisk \cup OnTheWay
          \/ /\ y.kind = "reserved" /\ y.seq \in DOMAIN hold' => y = HeldLine(y.seq)'
             /\ Resolves(y) => y.ref \notin Unended'
    <3>1. ~Resolves(x)
      BY <1>4, Kinds DEF Resolves
    <3>2. x.seq = n
      BY <1>0, <1>4
    <3> QED
      BY <1>11, <1>15, <3>1, <3>2
  <2>2. \A s \in DOMAIN hold' \ DOMAIN hold :
          /\ up /\ nextSeq <= s /\ s < nextSeq'
          /\ hold'[s].state = "pending"
          /\ Writes' => HeldLine(s)' \in OnDisk' \cup OnTheWay'
    <3>1. DOMAIN hold' \ DOMAIN hold \subseteq {n}
      BY <1>0, <1>8
    <3>2. up /\ nextSeq <= n /\ n < nextSeq' /\ hold'[n].state = "pending"
      BY <1>0, <1>2, <1>3, <1>8, <1>9, <1>12
    <3>3. HeldLine(n)' \in OnDisk' \cup OnTheWay'
      BY <1>11, <1>15
    <3> QED
      BY <3>1, <3>2, <3>3
  <2>3. \A s \in DOMAIN hold :
          hold'[s].state \in {"reserved", "sent"} => hold[s].state \in {"reserved", "sent"}
    BY <1>8
  <2>4. Writes' => Writes /\ OnDisk \cup OnTheWay \subseteq OnDisk' \cup OnTheWay'
    BY <1>2, <1>15 DEF Writes
  <2> QED
    BY <1>2, <1>12, <1>13, <1>14, <2>1, <2>2, <2>3, <2>4, HoldMoves
<1>21. RowsInv'
  BY <1>2, <1>15, RowsMoves
<1>22. SpentInv'
  <2>1. ~Resolves(x)
    BY <1>4, Kinds DEF Resolves
  <2>2. \A s \in DOMAIN hold' \ DOMAIN hold : up /\ nextSeq <= s
    BY <1>2, <1>3, <1>8
  <2> QED
    BY <1>2, <1>13, <1>14, <1>15, <2>1, <2>2, SpentMoves
<1> QED
  BY <1>13, <1>17, <1>18, <1>19, <1>20, <1>21, <1>22

LEMMA SettledIs ==
  ASSUME NEW cost \in Nat, NEW amount \in Nat
  PROVE  /\ Settled(cost, amount).kind = "settled"
         /\ Settled(cost, amount).settled \in Nat
         /\ Settled(cost, amount).overrun \in Nat
         /\ Settled(cost, amount).settled <= amount
         /\ Settled(cost, amount).settled + Settled(cost, amount).overrun = cost
<1> DEFINE a == Min({cost, amount})
           d == cost - amount
           b == Max({0, d})
<1>1. Settled(cost, amount).settled = a /\ Settled(cost, amount).overrun = b
      /\ Settled(cost, amount).kind = "settled"
  BY DEF Settled
<1>2. a = IF cost <= amount THEN cost ELSE amount
  BY MinOfTwo
<1>3. b = IF 0 >= d THEN 0 ELSE d
  <2>1. 0 \in Int /\ d \in Int
    OBVIOUS
  <2> HIDE DEF d
  <2> QED
    BY <2>1, MaxOfTwo
<1> HIDE DEF a, b
<1>4. a \in Nat /\ b \in Nat /\ a <= amount /\ a + b = cost
  BY <1>2, <1>3
<1> QED
  BY <1>1, <1>4

Outcome == [kind : Resolutions, settled : Nat, overrun : Nat]

\* All of a resolution but what was spent.
LEMMA ResolveStep ==
  ASSUME IInv, NEW s \in Unended, NEW outcome \in Outcome, outcome.settled <= hold[s].amount,
         Resolve(s, outcome),
         DOMAIN spent' = DOMAIN spent,
         \A t \in DOMAIN spent : spent'[t] \in Costs \cup {Unknown}
  PROVE  /\ TypeOK' /\ Down' /\ OwnInv' /\ FileInv' /\ HoldInv' /\ RowsInv' /\ Goes
         /\ OnDisk' = OnDisk
         /\ \A x \in OnTheWay' :
              \/ x \in OnTheWay
              \/ /\ Resolves(x) /\ x.ref = s /\ x.kind = outcome.kind
                 /\ x.settled = outcome.settled /\ x.overrun = outcome.overrun
         /\ DOMAIN hold' = DOMAIN hold
         /\ hold'[s].state = "resolving"
<1> USE DEF IInv
<1>0. PICK x : x = Resolution(nextSeq, s, outcome, FALSE, hold[s].base)
  OBVIOUS
<1> DEFINE row == Resolving(hold[s], outcome)
<1>1. s \in DOMAIN hold /\ hold[s] \in HoldRow
  BY DEF Unended, TypeOK
<1>2. /\ up /\ ~closing
      /\ UNCHANGED <<file, up, opens, healthy, closing, stop, outbox, known, ackDue,
                     posts, writer, sender, sink>>
  <2>1. ~closing
    BY DEF HoldInv
  <2> QED
    BY <1>1, <2>1, UpIs DEF Resolve
<1>3. hold[s].base \in BOOLEAN /\ nextSeq \in Nat /\ s \in Nat
  BY <1>1 DEF HoldRow, TypeOK
<1>4. /\ x.kind = outcome.kind /\ x.seq = nextSeq /\ x.ref = s
      /\ x.settled = outcome.settled /\ x.overrun = outcome.overrun
      /\ x.row = hold[s].base
  BY <1>0 DEF Resolution
<1>5. x \in ResolutionLine
  BY <1>0, <1>3 DEF ResolutionLine, Resolution, Outcome
<1>6. x \in Line /\ Resolves(x)
  BY <1>4, <1>5 DEF Line, Resolves, Outcome
<1>7. /\ row.state = "resolving" /\ row.scope = hold[s].scope /\ row.amount = hold[s].amount
      /\ row.base = hold[s].base
      /\ row \in HoldRow
  BY <1>1 DEF Resolving, HoldRow, Outcome
<1>8. Submit(<<x>>)
  BY <1>0 DEF Resolve
<1>9. hold' = [hold EXCEPT ![s] = row]
  BY DEF Resolve
<1> HIDE DEF row
<1>10. /\ DOMAIN hold' = DOMAIN hold
       /\ hold'[s] = row
       /\ \A t \in DOMAIN hold : t # s => hold'[t] = hold[t]
  BY <1>1, <1>9
<1>11. Unended' = Unended \ {s}
  BY <1>7, <1>10 DEF Unended
<1>12. /\ nextSeq' = nextSeq + 1
       /\ queue' \in Seq(Line \cup {Close})
       /\ Lines(queue') \in Seq(Line)
       /\ Range(Lines(queue')) = Range(Lines(queue)) \cup {x}
       /\ Close \notin Range(queue')
       /\ inFlight' = inFlight \cup {x}
       /\ pending' \subseteq pending \cup {x}
  BY <1>2, <1>6, <1>8, QueuedIs
<1>13. TypeOK'
  <2>1. DOMAIN hold' \subseteq Nat /\ \A t \in DOMAIN hold' : hold'[t] \in HoldRow
    BY <1>7, <1>10 DEF TypeOK
  <2>2. inFlight' \subseteq Line /\ pending' \subseteq Line
    BY <1>6, <1>12 DEF TypeOK
  <2> QED
    BY <1>2, <1>3, <1>12, <2>1, <2>2 DEF TypeOK
<1>14. Goes
  <2>1. nextSeq <= nextSeq'
    BY <1>3, <1>12
  <2>2. \A t \in DOMAIN hold :
          /\ hold'[t].scope = hold[t].scope
          /\ hold'[t].amount = hold[t].amount
          /\ hold'[t].base = hold[t].base
          /\ hold'[t].state \in {"pending", "reserved"} => hold[t].state \in {"pending", "reserved"}
    BY <1>7, <1>10
  <2> QED
    BY <1>2, <1>10, <1>11, <2>1, <2>2 DEF Goes, OnDisk
<1>15. OnDisk' = OnDisk /\ OnTheWay' = OnTheWay \cup {x}
  BY <1>2, <1>12 DEF OnDisk, OnTheWay
<1>16. Own(x)'
  <2>1. x.kind \notin {"opened", "reserved", "refused", "lineage-acked"}
    BY <1>6, Kinds DEF Resolves
  <2>2. x.seq < nextSeq'
    BY <1>3, <1>4, <1>12
  <2> QED
    BY <1>1, <1>4, <1>10, <2>1, <2>2 DEF Own
<1>17. Down'
  BY <1>2 DEF Down
<1>18. OwnInv'
  <2>1. \A y \in OnTheWay' \cup inFlight' \cup pending' :
          y \in OnTheWay \cup inFlight \cup pending \/ Own(y)'
    BY <1>12, <1>15, <1>16
  <2>2. \A i \in 1..Len(posts') : \E j \in 1..Len(posts) : posts'[i] = posts[j]
    BY <1>2
  <2> QED
    BY <1>13, <1>14, <2>1, <2>2, OwnMoves
<1>19. FileInv'
  <2>1. ASSUME Writes PROVE Fits(OnDisk \cup OnTheWay, x)
    <3>1. x.kind \notin {"opened", "reserved", "refused", "lineage-acked"}
      BY <1>6, Kinds DEF Resolves
    <3>2. nextSeq <= x.seq
      BY <1>3, <1>4
    <3>3. /\ x.ref \in Unended
          /\ x.settled <= hold[x.ref].amount /\ x.row = hold[x.ref].base
      BY <1>4
    <3> QED
      BY <1>6, <2>1, <3>1, <3>2, <3>3, FitsNext
  <2> QED
    BY <1>2, <1>6, <1>8, <1>13, <1>14, <2>1, FileQueued
<1>20. HoldInv'
  <2>1. \A y \in OnDisk' \cup OnTheWay' :
          \/ y \in OnDisk \cup OnTheWay
          \/ /\ y.kind = "reserved" /\ y.seq \in DOMAIN hold' => y = HeldLine(y.seq)'
             /\ Resolves(y) => y.ref \notin Unended'
    <3>1. x.kind # "reserved"
      BY <1>6, Kinds DEF Resolves
    <3> QED
      BY <1>4, <1>11, <1>15, <3>1
  <2>2. \A t \in DOMAIN hold :
          hold'[t].state \in {"reserved", "sent"} => hold[t].state \in {"reserved", "sent"}
    BY <1>7, <1>10
  <2>3. Writes' => Writes /\ OnDisk \cup OnTheWay \subseteq OnDisk' \cup OnTheWay'
    BY <1>2, <1>15 DEF Writes
  <2> QED
    BY <1>2, <1>10, <1>12, <1>13, <1>14, <2>1, <2>2, <2>3, HoldMoves
<1>21. RowsInv'
  BY <1>2, <1>15, RowsMoves
<1> QED
  BY <1>4, <1>6, <1>7, <1>10, <1>13, <1>14, <1>15, <1>17, <1>18, <1>19, <1>20, <1>21

LEMMA EndsStep ==
  ASSUME IInv, NEW s, Ends(s)
  PROVE  IInv'
<1> USE DEF IInv
<1> DEFINE outcome == EndOutcome(hold[s].state)
<1>1. s \in Unended /\ Resolve(s, outcome) /\ spent' = spent
  BY DEF Ends
<1>2. s \in DOMAIN hold /\ hold[s].amount \in Nat
  BY <1>1 DEF Unended, TypeOK, HoldRow
<1>3. outcome \in Outcome /\ outcome.settled <= hold[s].amount
  BY <1>2 DEF EndOutcome, Outcome, Uncertain, Released, Resolutions
<1>4. hold[s].state = "sent" => outcome.kind = "uncertain"
  BY DEF EndOutcome, Uncertain
<1> HIDE DEF outcome
<1>5. /\ TypeOK' /\ Down' /\ OwnInv' /\ FileInv' /\ HoldInv' /\ RowsInv' /\ Goes
      /\ OnDisk' = OnDisk
      /\ \A x \in OnTheWay' :
           \/ x \in OnTheWay
           \/ /\ Resolves(x) /\ x.ref = s /\ x.kind = outcome.kind
              /\ x.settled = outcome.settled /\ x.overrun = outcome.overrun
      /\ DOMAIN hold' = DOMAIN hold
  <2>1. DOMAIN spent' = DOMAIN spent /\ \A t \in DOMAIN spent : spent'[t] \in Costs \cup {Unknown}
    BY <1>1 DEF TypeOK
  <2> QED
    BY <1>1, <1>3, <2>1, ResolveStep
<1>6. SpentInv'
  <2>1. s \in DOMAIN spent => hold[s].state = "sent"
    BY <1>1, <1>2 DEF SpentInv, Unended
  <2>2. \A x \in OnDisk' \cup OnTheWay' :
          \/ x \in OnDisk \cup OnTheWay
          \/ Resolves(x) /\ x.ref \in DOMAIN spent => Covers(x, x.ref)
    BY <1>4, <1>5, <2>1 DEF Covers
  <2> QED
    BY <1>1, <1>5, <2>2, SpentMoves
<1> QED
  BY <1>5, <1>6

LEMMA SettleStep ==
  ASSUME IInv, NEW s, Settle(s)
  PROVE  IInv'
<1> USE DEF IInv
<1>1. PICK cost \in Costs : /\ spent' = [spent EXCEPT ![s] = cost]
                            /\ Resolve(s, Settled(cost, hold[s].amount))
  BY DEF Settle
<1> DEFINE outcome == Settled(cost, hold[s].amount)
<1>2. s \in Unended /\ s \in DOMAIN hold /\ hold[s].amount \in Nat
  BY DEF Settle, Unended, TypeOK, HoldRow
<1>3. cost \in Nat /\ cost # Unknown
  BY LedgerAssumption DEF Unknown
<1>4. /\ outcome.kind = "settled" /\ outcome.settled \in Nat /\ outcome.overrun \in Nat
      /\ outcome.settled <= hold[s].amount
      /\ outcome.settled + outcome.overrun = cost
  BY <1>2, <1>3, SettledIs
<1>5. outcome \in Outcome
  BY <1>4 DEF Outcome, Settled, Resolutions
<1>6. Resolve(s, outcome)
  BY <1>1
<1> HIDE DEF outcome
<1>7. /\ TypeOK' /\ Down' /\ OwnInv' /\ FileInv' /\ HoldInv' /\ RowsInv' /\ Goes
      /\ OnDisk' = OnDisk
      /\ \A x \in OnTheWay' :
           \/ x \in OnTheWay
           \/ /\ Resolves(x) /\ x.ref = s /\ x.kind = outcome.kind
              /\ x.settled = outcome.settled /\ x.overrun = outcome.overrun
      /\ DOMAIN hold' = DOMAIN hold
  <2>1. DOMAIN spent' = DOMAIN spent /\ \A t \in DOMAIN spent : spent'[t] \in Costs \cup {Unknown}
    BY <1>1 DEF TypeOK
  <2> QED
    BY <1>2, <1>4, <1>5, <1>6, <2>1, ResolveStep
<1>8. SpentInv'
  <2>0. DOMAIN spent' = DOMAIN spent
    BY <1>1
  <2> SUFFICES ASSUME NEW t \in DOMAIN spent
               PROVE  /\ \E r \in OnDisk' : r.kind = "reserved" /\ r.seq = t
                      /\ \A x \in OnDisk' \cup OnTheWay' :
                           Resolves(x) /\ x.ref = t => Covers(x, t)'
                      /\ t \in DOMAIN hold' => hold'[t].state \notin {"pending", "reserved"}
    BY <2>0 DEF SpentInv
  <2>1. \E r \in OnDisk' : r.kind = "reserved" /\ r.seq = t
    BY <1>7 DEF SpentInv
  <2>2. ASSUME NEW x \in OnDisk' \cup OnTheWay', Resolves(x), x.ref = t
        PROVE  Covers(x, t)'
    <3>1. CASE x \in OnDisk \cup OnTheWay
      <4>1. t # s
        BY <1>2, <2>2, <3>1 DEF HoldInv
      <4>2. spent'[t] = spent[t]
        BY <1>1, <4>1
      <4>3. Covers(x, t)
        BY <2>2, <3>1 DEF SpentInv
      <4> QED
        BY <4>2, <4>3 DEF Covers
    <3>2. CASE x \notin OnDisk \cup OnTheWay
      <4>1. t = s /\ x.kind = "settled" /\ x.settled + x.overrun = cost
        BY <1>4, <1>7, <2>2, <3>2
      <4>2. spent'[t] = cost
        BY <1>1, <4>1
      <4> QED
        BY <1>3, <4>1, <4>2 DEF Covers
    <3> QED
      BY <3>1, <3>2
  <2>3. t \in DOMAIN hold' => hold'[t].state \notin {"pending", "reserved"}
    BY <1>7 DEF SpentInv, Goes
  <2> QED
    BY <2>1, <2>2, <2>3
<1> QED
  BY <1>7, <1>8

LEMMA RefusedClosesStep ==
  ASSUME IInv, RefusedCloses
  PROVE  IInv'
<1> USE DEF IInv
<1>0. PICK x : x = Refused(nextSeq, opens)
  OBVIOUS
<1>1. /\ up /\ ~closing /\ Submit(<<x>>)
      /\ UNCHANGED <<file, up, opens, healthy, closing, stop, hold, outbox, known, ackDue,
                     posts, writer, sender, sink, spent>>
  BY <1>0 DEF RefusedCloses, Open4Work
<1>2. nextSeq \in Nat /\ opens \in Nat
  BY DEF TypeOK
<1>3. x.kind = "refused" /\ x.seq = nextSeq /\ x.epoch = opens
  BY <1>0 DEF Refused
<1>4. x \in Line /\ ~Resolves(x)
  <2>1. x \in Line
    BY <1>0, <1>2 DEF Line, RefusedLine, Refused
  <2> QED
    BY <1>3, <2>1, Kinds DEF Resolves
<1>5. /\ nextSeq' = nextSeq + 1
      /\ queue' \in Seq(Line \cup {Close})
      /\ Lines(queue') \in Seq(Line)
      /\ Range(Lines(queue')) = Range(Lines(queue)) \cup {x}
      /\ Close \notin Range(queue')
      /\ inFlight' = inFlight \cup {x}
      /\ pending' \subseteq pending \cup {x}
  BY <1>1, <1>4, QueuedIs
<1>6. TypeOK'
  <2>1. inFlight' \subseteq Line /\ pending' \subseteq Line
    BY <1>4, <1>5 DEF TypeOK
  <2> QED
    BY <1>1, <1>2, <1>5, <2>1 DEF TypeOK
<1>7. Unended' = Unended
  BY <1>1 DEF Unended
<1>8. Goes
  BY <1>1, <1>2, <1>5, <1>7 DEF Goes, OnDisk
<1>9. OnDisk' = OnDisk /\ OnTheWay' = OnTheWay \cup {x}
  BY <1>1, <1>5 DEF OnDisk, OnTheWay
<1>10. Own(x)'
  BY <1>1, <1>2, <1>3, <1>4, <1>5 DEF Own
<1>11. Down'
  BY <1>1 DEF Down
<1>12. OwnInv'
  <2>1. \A y \in OnTheWay' \cup inFlight' \cup pending' :
          y \in OnTheWay \cup inFlight \cup pending \/ Own(y)'
    BY <1>5, <1>9, <1>10
  <2>2. \A i \in 1..Len(posts') : \E j \in 1..Len(posts) : posts'[i] = posts[j]
    BY <1>1
  <2> QED
    BY <1>6, <1>8, <2>1, <2>2, OwnMoves
<1>13. FileInv'
  <2>1. ASSUME Writes PROVE Fits(OnDisk \cup OnTheWay, x)
    <3>1. nextSeq <= x.seq
      BY <1>2, <1>3
    <3> QED
      BY <1>3, <1>4, <2>1, <3>1, FitsNext
  <2> QED
    BY <1>1, <1>4, <1>6, <1>8, <2>1, FileQueued
<1>14. HoldInv'
  <2>1. \A y \in OnDisk' \cup OnTheWay' :
          \/ y \in OnDisk \cup OnTheWay
          \/ /\ y.kind = "reserved" /\ y.seq \in DOMAIN hold' => y = HeldLine(y.seq)'
             /\ Resolves(y) => y.ref \notin Unended'
    BY <1>3, <1>4, <1>9
  <2>2. Writes' => Writes /\ OnDisk \cup OnTheWay \subseteq OnDisk' \cup OnTheWay'
    BY <1>1, <1>9 DEF Writes
  <2> QED
    BY <1>1, <1>5, <1>6, <1>8, <2>1, <2>2, HoldMoves
<1>15. RowsInv'
  BY <1>1, <1>9, RowsMoves
<1>16. SpentInv'
  BY <1>1, <1>4, <1>6, <1>8, <1>9, SpentMoves
<1> QED
  BY <1>6, <1>11, <1>12, <1>13, <1>14, <1>15, <1>16

-----------------------------------------------------------------------------
(* The steps that queue nothing and write nothing.                         *)

LEMMA QuietStep ==
  ASSUME IInv, TypeOK', Goes, file' = file, writer' = writer,
         queue' = queue, closing' = closing, Writes' => Writes,
         DOMAIN hold' = DOMAIN hold,
         \A s \in DOMAIN hold :
           hold'[s].state \in {"reserved", "sent"} =>
             hold[s].state \in {"reserved", "sent"} \/ HeldLine(s) \in OnDisk,
         inFlight' \subseteq inFlight, pending' \subseteq pending,
         \A i \in 1..Len(posts') : \E j \in 1..Len(posts) : posts'[i] = posts[j]
  PROVE  /\ OwnInv' /\ FileInv' /\ HoldInv'
         /\ OnDisk' = OnDisk /\ OnTheWay' = OnTheWay
<1> USE DEF IInv
<1>1. OnDisk' = OnDisk /\ OnTheWay' = OnTheWay
  BY DEF OnDisk, OnTheWay
<1>2. OwnInv'
  <2>1. \A y \in OnTheWay' \cup inFlight' \cup pending' :
          y \in OnTheWay \cup inFlight \cup pending \/ Own(y)'
    BY <1>1
  <2> QED
    BY <2>1, OwnMoves
<1>3. FileInv'
  <2>1. Writes' => Good((file \o writer.batch) \o Lines(queue))'
    BY DEF FileInv
  <2> QED
    BY <2>1, FileSame
<1>4. HoldInv'
  <2>1. closing' => Unended' = {}
    BY DEF HoldInv, Goes, Unended
  <2>2. Close \in Range(queue') => closing'
    BY DEF HoldInv
  <2>3. Writes' => Writes /\ OnDisk \cup OnTheWay \subseteq OnDisk' \cup OnTheWay'
    BY <1>1
  <2>4. \A y \in OnDisk' \cup OnTheWay' : y \in OnDisk \cup OnTheWay
    BY <1>1
  <2> QED
    BY <1>1, <2>1, <2>2, <2>3, <2>4, HoldMoves
<1> QED
  BY <1>1, <1>2, <1>3, <1>4

LEMMA SendHeadStep ==
  ASSUME IInv, NEW s \in DOMAIN hold, SendHead(s)
  PROVE  IInv'
<1> USE DEF IInv
<1>1. /\ hold[s].state = "reserved"
      /\ hold' = [hold EXCEPT ![s].state = "sent"]
      /\ spent' = [x \in DOMAIN spent \cup {s} |-> IF x = s THEN Unknown ELSE spent[x]]
      /\ UNCHANGED <<file, up, opens, healthy, closing, stop, nextSeq, queue, inFlight,
                     pending, outbox, known, ackDue, posts, writer, sender, sink>>
  BY DEF SendHead, Sendable
<1>2. /\ DOMAIN hold' = DOMAIN hold
      /\ hold'[s] = [hold[s] EXCEPT !.state = "sent"]
      /\ \A t \in DOMAIN hold : t # s => hold'[t] = hold[t]
  BY <1>1
<1>3. hold[s] \in HoldRow
  BY DEF TypeOK
<1>4. /\ hold'[s].state = "sent" /\ hold'[s].scope = hold[s].scope
      /\ hold'[s].amount = hold[s].amount /\ hold'[s].base = hold[s].base
      /\ hold'[s] \in HoldRow
  BY <1>2, <1>3 DEF HoldRow
<1>5. DOMAIN spent' = DOMAIN spent \cup {s} /\ spent'[s] = Unknown
      /\ \A t \in DOMAIN spent : t # s => spent'[t] = spent[t]
  BY <1>1
<1>6. s \in Nat
  BY DEF TypeOK
<1>7. TypeOK'
  <2>1. DOMAIN hold' \subseteq Nat /\ \A t \in DOMAIN hold' : hold'[t] \in HoldRow
    BY <1>2, <1>4 DEF TypeOK
  <2>2. DOMAIN spent' \subseteq Nat
        /\ \A t \in DOMAIN spent' : spent'[t] \in Costs \cup {Unknown}
    BY <1>5, <1>6 DEF TypeOK
  <2> QED
    BY <1>1, <2>1, <2>2 DEF TypeOK
<1>8. s \in Unended
  BY <1>1 DEF Unended
<1>9. Goes
  <2>1. \A t \in DOMAIN hold : t \in Unended' => t \in Unended
    BY <1>2, <1>8 DEF Unended
  <2>2. nextSeq <= nextSeq'
    BY <1>1 DEF TypeOK
  <2> QED
    BY <1>1, <1>2, <1>4, <2>1, <2>2 DEF Goes, OnDisk
<1>10. HeldLine(s) \in OnDisk
  BY <1>1 DEF HoldInv
<1>11. OwnInv' /\ FileInv' /\ HoldInv' /\ OnDisk' = OnDisk /\ OnTheWay' = OnTheWay
  <2>1. \A t \in DOMAIN hold :
          hold'[t].state \in {"reserved", "sent"} =>
            hold[t].state \in {"reserved", "sent"} \/ HeldLine(t) \in OnDisk
    BY <1>2, <1>10
  <2>2. Writes' => Writes
    BY <1>1 DEF Writes
  <2>3. \A i \in 1..Len(posts') : \E j \in 1..Len(posts) : posts'[i] = posts[j]
    BY <1>1
  <2> QED
    BY <1>1, <1>2, <1>7, <1>9, <2>1, <2>2, <2>3, QuietStep
<1>12. Down'
  BY <1>1, UpIs DEF Down
<1>13. RowsInv'
  BY <1>1, <1>11, RowsMoves
<1>14. SpentInv'
  <2> SUFFICES ASSUME NEW t \in DOMAIN spent \cup {s}
               PROVE  /\ \E r \in OnDisk' : r.kind = "reserved" /\ r.seq = t
                      /\ \A x \in OnDisk' \cup OnTheWay' :
                           Resolves(x) /\ x.ref = t => Covers(x, t)'
                      /\ t \in DOMAIN hold' => hold'[t].state \notin {"pending", "reserved"}
    BY <1>5 DEF SpentInv
  <2>1. CASE t = s
    <3>1. HeldLine(s).kind = "reserved" /\ HeldLine(s).seq = s
      BY DEF HeldLine, Reserved
    <3>2. \A x \in OnDisk' \cup OnTheWay' : ~(Resolves(x) /\ x.ref = s)
      BY <1>8, <1>11 DEF HoldInv
    <3> QED
      BY <1>4, <1>10, <1>11, <2>1, <3>1, <3>2
  <2>2. CASE t # s
    <3>1. t \in DOMAIN spent /\ spent'[t] = spent[t]
      BY <1>5, <2>2
    <3>2. \A x \in OnDisk \cup OnTheWay : Resolves(x) /\ x.ref = t => Covers(x, t)
      BY <3>1 DEF SpentInv
    <3>3. \A x \in OnDisk' \cup OnTheWay' : Resolves(x) /\ x.ref = t => Covers(x, t)'
      BY <1>11, <3>1, <3>2 DEF Covers
    <3> QED
      BY <1>2, <1>11, <2>2, <3>1, <3>3 DEF SpentInv
  <2> QED
    BY <2>1, <2>2
<1> QED
  BY <1>7, <1>11, <1>12, <1>13, <1>14

LEMMA OwnerFailsStep ==
  ASSUME IInv, NEW s, OwnerFails(s)
  PROVE  IInv'
<1> USE DEF IInv
<1>1. /\ s \in Unended
      /\ hold' = [hold EXCEPT ![s] = Stranded(s)]
      /\ UNCHANGED <<file, up, opens, healthy, closing, stop, nextSeq, queue, inFlight,
                     pending, outbox, known, ackDue, posts, writer, sender, sink, spent>>
  BY DEF OwnerFails
<1>2. s \in DOMAIN hold /\ hold[s] \in HoldRow
  BY <1>1 DEF Unended, TypeOK
<1>3. /\ Stranded(s).state = "stranded" /\ Stranded(s).scope = hold[s].scope
      /\ Stranded(s).amount = hold[s].amount /\ Stranded(s).base = hold[s].base
      /\ Stranded(s) \in HoldRow
  BY <1>2 DEF HoldRow, Stranded
<1>4. /\ DOMAIN hold' = DOMAIN hold
      /\ hold'[s] = Stranded(s)
      /\ \A t \in DOMAIN hold : t # s => hold'[t] = hold[t]
  BY <1>1, <1>2
<1>5. TypeOK'
  <2>1. DOMAIN hold' \subseteq Nat /\ \A t \in DOMAIN hold' : hold'[t] \in HoldRow
    BY <1>3, <1>4 DEF TypeOK
  <2> QED
    BY <1>1, <2>1 DEF TypeOK
<1>6. Goes
  <2>1. \A t \in DOMAIN hold : t \in Unended' => t \in Unended
    BY <1>1, <1>4 DEF Unended
  <2>2. nextSeq <= nextSeq'
    BY <1>1 DEF TypeOK
  <2> QED
    BY <1>1, <1>3, <1>4, <2>1, <2>2 DEF Goes, OnDisk
<1>7. OwnInv' /\ FileInv' /\ HoldInv' /\ OnDisk' = OnDisk /\ OnTheWay' = OnTheWay
  <2>1. \A t \in DOMAIN hold :
          hold'[t].state \in {"reserved", "sent"} => hold[t].state \in {"reserved", "sent"}
    BY <1>3, <1>4
  <2>2. Writes' => Writes
    BY <1>1 DEF Writes
  <2>3. \A i \in 1..Len(posts') : \E j \in 1..Len(posts) : posts'[i] = posts[j]
    BY <1>1
  <2> QED
    BY <1>1, <1>4, <1>5, <1>6, <2>1, <2>2, <2>3, QuietStep
<1>8. Down'
  BY <1>1, <1>2, UpIs DEF Down
<1>9. RowsInv'
  BY <1>1, <1>7, RowsMoves
<1>10. SpentInv'
  BY <1>1, <1>4, <1>5, <1>6, <1>7, SpentMoves
<1> QED
  BY <1>5, <1>7, <1>8, <1>9, <1>10

LEMMA TailIs ==
  ASSUME TypeOK, posts # <<>>
  PROVE  /\ Tail(posts) \in Seq(Post)
         /\ \A i \in 1..Len(Tail(posts)) : \E j \in 1..Len(posts) : Tail(posts)[i] = posts[j]
         /\ 1 \in 1..Len(posts) /\ Head(posts) = posts[1] /\ Head(posts) \in Post
<1>1. posts \in Seq(Post)
  BY DEF TypeOK
<1> DEFINE p == posts
           n == Len(p)
           q == Tail(p)
<1>2. /\ Head(p) \in Post /\ q \in Seq(Post) /\ Len(q) = n - 1
      /\ \A i \in 1..Len(q) : q[i] = p[i + 1]
  BY <1>1, HeadTailProperties
<1>3. n \in Nat \ {0}
  BY <1>1, EmptySeq
<1>4. Head(p) = p[1]
  BY <1>1
<1> HIDE DEF n, q
<1>5. \A i \in 1..Len(q) : i + 1 \in 1..n
  BY <1>2, <1>3
<1>6. \A i \in 1..Len(q) : \E j \in 1..n : q[i] = p[j]
  BY <1>2, <1>5
<1> QED
  BY <1>2, <1>3, <1>4, <1>6 DEF n, q

\* Nothing of the ledger but its holds, its health and its futures.
LEMMA FaultStep ==
  ASSUME IInv, Fault,
         posts' \in Seq(Post),
         \A i \in 1..Len(posts') : \E j \in 1..Len(posts) : posts'[i] = posts[j],
         up,
         UNCHANGED <<file, up, opens, closing, nextSeq, queue, outbox, known,
                     writer, sender, sink, spent>>
  PROVE  IInv'
<1> USE DEF IInv
<1>1. /\ healthy' = FALSE /\ stop' = TRUE
      /\ hold' = [s \in DOMAIN hold |-> IF s \in Live THEN Stranded(s) ELSE hold[s]]
      /\ ackDue' = ackDue \cup {[refs |-> line.refs, ok |-> FALSE] :
                                  line \in {x \in pending : x.kind = "lineage-acked"}}
      /\ inFlight' = {} /\ pending' = {}
  BY DEF Fault
<1>2. ASSUME NEW s \in DOMAIN hold
      PROVE  /\ Stranded(s).state = "stranded" /\ Stranded(s).scope = hold[s].scope
             /\ Stranded(s).amount = hold[s].amount /\ Stranded(s).base = hold[s].base
             /\ Stranded(s) \in HoldRow
  <2>1. hold[s] \in HoldRow
    BY DEF TypeOK
  <2> QED
    BY <2>1 DEF HoldRow, Stranded
<1>3. /\ DOMAIN hold' = DOMAIN hold
      /\ \A s \in DOMAIN hold : hold'[s] = IF s \in Live THEN Stranded(s) ELSE hold[s]
  BY <1>1
<1>4. \A a \in ackDue' : a \in ackDue \/ (a.refs \subseteq sink /\ a \in [refs : SUBSET Triple, ok : BOOLEAN])
  <2>1. ASSUME NEW line \in pending, line.kind = "lineage-acked"
        PROVE  line.refs \subseteq sink /\ line.refs \in SUBSET Triple
    <3>1. line \in Line
      BY DEF TypeOK
    <3> QED
      BY <2>1, <3>1, LineFacts DEF OwnInv, Own
  <2>2. ASSUME NEW a \in ackDue', a \notin ackDue
        PROVE  a.refs \subseteq sink /\ a \in [refs : SUBSET Triple, ok : BOOLEAN]
    <3>1. PICK line \in pending : line.kind = "lineage-acked"
                                    /\ a = [refs |-> line.refs, ok |-> FALSE]
      BY <1>1, <2>2
    <3> QED
      BY <2>1, <3>1
  <2> QED
    BY <2>2
<1>5. TypeOK'
  <2>1. DOMAIN hold' \subseteq Nat /\ \A t \in DOMAIN hold' : hold'[t] \in HoldRow
    <3>1. \A t \in DOMAIN hold : hold[t] \in HoldRow
      BY DEF TypeOK
    <3>2. \A t \in DOMAIN hold : hold'[t] \in HoldRow
      BY <1>2, <1>3, <3>1
    <3> QED
      BY <1>3, <3>2 DEF TypeOK
  <2>2. ackDue' \subseteq [refs : SUBSET Triple, ok : BOOLEAN]
    BY <1>4 DEF TypeOK
  <2> QED
    BY <1>1, <2>1, <2>2 DEF TypeOK
<1>6. Goes
  <2>1. \A s \in DOMAIN hold :
          /\ hold'[s].scope = hold[s].scope
          /\ hold'[s].amount = hold[s].amount
          /\ hold'[s].base = hold[s].base
          /\ hold'[s].state \in {"pending", "reserved"} => hold[s].state \in {"pending", "reserved"}
    BY <1>2, <1>3
  <2>2. \A t \in DOMAIN hold : t \in Unended' => t \in Unended
    BY <1>2, <1>3 DEF Unended
  <2>3. nextSeq <= nextSeq'
    BY DEF TypeOK
  <2> QED
    BY <1>3, <2>1, <2>2, <2>3 DEF Goes, OnDisk
<1>7. OwnInv' /\ FileInv' /\ HoldInv' /\ OnDisk' = OnDisk /\ OnTheWay' = OnTheWay
  <2>1. \A t \in DOMAIN hold :
          hold'[t].state \in {"reserved", "sent"} => hold[t].state \in {"reserved", "sent"}
    BY <1>2, <1>3
  <2>2. ~Writes'
    BY <1>1 DEF Writes
  <2>3. inFlight' \subseteq inFlight /\ pending' \subseteq pending
    BY <1>1
  <2> QED
    BY <1>3, <1>5, <1>6, <2>1, <2>2, <2>3, QuietStep
<1>8. Down'
  BY DEF Down
<1>9. RowsInv'
  BY <1>4, <1>7, RowsMoves
<1>10. SpentInv'
  BY <1>3, <1>5, <1>6, <1>7, SpentMoves
<1> QED
  BY <1>5, <1>7, <1>8, <1>9, <1>10

\* The rest of the steps that touch neither a hold nor a line.
LEMMA StillStep ==
  ASSUME IInv,
         UNCHANGED <<file, up, opens, closing, nextSeq, queue, hold, known, writer, spent>>,
         {healthy', stop'} \subseteq BOOLEAN,
         inFlight' \subseteq inFlight, pending' \subseteq pending,
         stop => stop', up \/ ~stop',
         posts' \in Seq(Post),
         \A i \in 1..Len(posts') : \E j \in 1..Len(posts) : posts'[i] = posts[j],
         sender'.triples \subseteq Triple,
         sink \subseteq sink',
         outbox' \subseteq outbox, outbox \ outbox' \subseteq sink,
         \A a \in ackDue' : /\ up
                            /\ a \in ackDue \/ (a.refs \subseteq sink
                                                 /\ a \in [refs : SUBSET Triple, ok : BOOLEAN])
  PROVE  IInv'
<1> USE DEF IInv
<1>1. TypeOK'
  <2>1. ackDue' \subseteq [refs : SUBSET Triple, ok : BOOLEAN]
    BY DEF TypeOK
  <2>2. inFlight' \subseteq Line /\ pending' \subseteq Line /\ outbox' \subseteq Triple
    BY DEF TypeOK
  <2> QED
    BY <2>1, <2>2 DEF TypeOK
<1>2. Unended' = Unended
  BY DEF Unended
<1>3. Goes
  BY <1>2 DEF Goes, OnDisk, TypeOK
<1>4. OwnInv' /\ FileInv' /\ HoldInv' /\ OnDisk' = OnDisk /\ OnTheWay' = OnTheWay
  <2>1. Writes' => Writes
    BY DEF Writes
  <2> QED
    BY <1>1, <1>3, <2>1, QuietStep
<1>5. Down'
  <2>1. ASSUME ~up PROVE ackDue' = {} /\ posts' = <<>>
    <3>1. ackDue' = {}
      BY <2>1
    <3>2. posts = <<>>
      BY <2>1 DEF Down
    <3>3. posts' = <<>>
      <4>1. Len(posts) = 0
        BY <3>2
      <4>2. ~\E i \in 1..Len(posts') : TRUE
        BY <4>1
      <4>3. Len(posts') \in Nat
        BY LenProperties
      <4>4. Len(posts') = 0
        BY <4>2, <4>3
      <4> QED
        BY <4>4, EmptySeq
    <3> QED
      BY <3>1, <3>3
  <2> QED
    BY <2>1 DEF Down
<1>6. RowsInv'
  <2>1. known' \ outbox' \subseteq sink'
    BY DEF RowsInv
  <2>2. outbox' \subseteq known'
    BY DEF RowsInv
  <2>3. \A t \in known' : Named(OnDisk', t)
    BY <1>4 DEF RowsInv
  <2>4. \A a \in ackDue' : a.refs \subseteq sink'
    BY DEF RowsInv
  <2> QED
    BY <2>1, <2>2, <2>3, <2>4 DEF RowsInv
<1>7. SpentInv'
  BY <1>1, <1>3, <1>4, SpentMoves
<1> QED
  BY <1>1, <1>4, <1>5, <1>6, <1>7

LEMMA WaitStallsStep ==
  ASSUME IInv, NEW s \in DOMAIN hold, WaitStalls(s)
  PROVE  IInv'
<1>1. /\ Fault
      /\ UNCHANGED <<file, up, opens, closing, nextSeq, queue, outbox, known, posts,
                     writer, sender, sink, spent>>
  BY DEF WaitStalls, history
<1>2. up
  BY UpIs DEF IInv
<1>3. posts' \in Seq(Post) /\ \A i \in 1..Len(posts') : \E j \in 1..Len(posts) : posts'[i] = posts[j]
  BY <1>1 DEF IInv, TypeOK
<1> QED
  BY <1>1, <1>2, <1>3, FaultStep

LEMMA PostedFaultStep ==
  ASSUME IInv, PostedFault
  PROVE  IInv'
<1>1. /\ posts # <<>> /\ posts' = Tail(posts)
      /\ UNCHANGED <<file, up, opens, closing, nextSeq, queue, outbox, known,
                     writer, sender, sink, spent>>
  BY DEF PostedFault, history
<1>2. up
  BY <1>1 DEF IInv, Down
<1>3. posts' \in Seq(Post) /\ \A i \in 1..Len(posts') : \E j \in 1..Len(posts) : posts'[i] = posts[j]
  BY <1>1, TailIs DEF IInv
<1>4. CASE healthy
  <2>1. Fault
    BY <1>4 DEF PostedFault
  <2> QED
    BY <1>1, <1>2, <1>3, <2>1, FaultStep
<1>5. CASE ~healthy
  <2>1. UNCHANGED <<healthy, stop, hold, ackDue, inFlight, pending>>
    BY <1>5 DEF PostedFault
  <2>2. {healthy', stop'} \subseteq BOOLEAN /\ sender'.triples \subseteq Triple
    BY <1>1, <2>1 DEF IInv, TypeOK
  <2> QED
    BY <1>1, <1>2, <1>3, <2>1, <2>2, StillStep
<1> QED
  BY <1>4, <1>5

LEMMA SamePosts ==
  ASSUME TypeOK, posts' = posts
  PROVE  posts' \in Seq(Post) /\ \A i \in 1..Len(posts') : \E j \in 1..Len(posts) : posts'[i] = posts[j]
  BY DEF TypeOK

LEMMA CloseTimesOutStep ==
  ASSUME IInv, CloseTimesOut
  PROVE  IInv'
<1>1. /\ up /\ stop' = TRUE /\ pending' = {}
      /\ ackDue' = ackDue \cup {[refs |-> line.refs, ok |-> FALSE] :
                                  line \in {x \in pending : x.kind = "lineage-acked"}}
      /\ UNCHANGED <<file, up, opens, healthy, closing, nextSeq, hold, queue, inFlight,
                     outbox, known, posts, writer, sender, sink, spent>>
  BY DEF CloseTimesOut, history
<1>2. \A a \in ackDue' : a \in ackDue \/ (a.refs \subseteq sink
                                            /\ a \in [refs : SUBSET Triple, ok : BOOLEAN])
  <2>1. ASSUME NEW line \in pending, line.kind = "lineage-acked"
        PROVE  line.refs \subseteq sink /\ line.refs \in SUBSET Triple
    <3>1. line \in Line
      BY DEF IInv, TypeOK
    <3> QED
      BY <2>1, <3>1, LineFacts DEF IInv, OwnInv, Own
  <2>2. ASSUME NEW a \in ackDue', a \notin ackDue
        PROVE  a.refs \subseteq sink /\ a \in [refs : SUBSET Triple, ok : BOOLEAN]
    <3>1. PICK line \in pending : line.kind = "lineage-acked"
                                    /\ a = [refs |-> line.refs, ok |-> FALSE]
      BY <1>1, <2>2
    <3> QED
      BY <2>1, <3>1
  <2> QED
    BY <2>2
<1>3. {healthy', stop'} \subseteq BOOLEAN /\ sender'.triples \subseteq Triple
  BY <1>1 DEF IInv, TypeOK
<1>4. posts' \in Seq(Post) /\ \A i \in 1..Len(posts') : \E j \in 1..Len(posts) : posts'[i] = posts[j]
  BY <1>1, SamePosts DEF IInv
<1> QED
  BY <1>1, <1>2, <1>3, <1>4, StillStep

LEMMA SenderSendsStep ==
  ASSUME IInv, SenderSends
  PROVE  IInv'
<1>1. /\ up /\ sender' = [pc |-> "sent", triples |-> Envelope]
      /\ UNCHANGED <<file, up, opens, healthy, closing, stop, nextSeq, hold, queue, inFlight, pending,
                     outbox, known, ackDue, posts, writer, sink, spent>>
  BY DEF SenderSends, loopUnchanged, loopVars, ledgerVars, history
<1>2. Envelope \subseteq outbox
  BY DEF Envelope
<1>3. {healthy', stop'} \subseteq BOOLEAN /\ sender'.triples \subseteq Triple
  BY <1>1, <1>2 DEF IInv, TypeOK
<1>4. posts' \in Seq(Post) /\ \A i \in 1..Len(posts') : \E j \in 1..Len(posts) : posts'[i] = posts[j]
  BY <1>1, SamePosts DEF IInv
<1> QED
  BY <1>1, <1>3, <1>4, StillStep

LEMMA SenderDropsStep ==
  ASSUME IInv, SenderDrops
  PROVE  IInv'
<1>1. /\ sender' = NoEnvelope /\ sink \subseteq sink'
      /\ UNCHANGED <<file, up, opens, healthy, closing, stop, nextSeq, hold, queue, inFlight, pending,
                     outbox, known, ackDue, posts, writer, spent>>
  BY DEF SenderDrops, loopUnchanged, loopVars, ledgerVars, history
<1>2. {healthy', stop'} \subseteq BOOLEAN /\ sender'.triples \subseteq Triple
  BY <1>1 DEF IInv, TypeOK, NoEnvelope
<1>3. posts' \in Seq(Post) /\ \A i \in 1..Len(posts') : \E j \in 1..Len(posts) : posts'[i] = posts[j]
  BY <1>1, SamePosts DEF IInv
<1>4. (up \/ ~stop') /\ \A a \in ackDue' : up
  BY <1>1 DEF IInv, Down
<1> QED
  BY <1>1, <1>2, <1>3, <1>4, StillStep

LEMMA AckDoneStep ==
  ASSUME IInv, AckDone
  PROVE  IInv'
<1>1. PICK a \in ackDue :
        /\ ackDue' = ackDue \ {a}
        /\ outbox' = IF a.ok THEN outbox \ a.refs ELSE outbox
        /\ sender' = IF sender.pc = "acking" THEN NoEnvelope ELSE sender
        /\ UNCHANGED <<file, up, opens, healthy, closing, stop, nextSeq, hold, queue, inFlight, pending,
                       known, posts, writer, sink, spent>>
  BY DEF AckDone, history
<1>2. {healthy', stop'} \subseteq BOOLEAN /\ sender'.triples \subseteq Triple
  BY <1>1 DEF IInv, TypeOK, NoEnvelope
<1>3. posts' \in Seq(Post) /\ \A i \in 1..Len(posts') : \E j \in 1..Len(posts) : posts'[i] = posts[j]
  BY <1>1, SamePosts DEF IInv
<1>4. up
  BY <1>1 DEF IInv, Down
<1>5. outbox' \subseteq outbox /\ outbox \ outbox' \subseteq sink
  BY <1>1 DEF IInv, RowsInv
<1> QED
  BY <1>1, <1>2, <1>3, <1>4, <1>5, StillStep

LEMMA SenderAcksStep ==
  ASSUME IInv, SenderAcks
  PROVE  IInv'
<1>1. PICK some \in SUBSET sender.triples :
        /\ sink' = sink \cup some
        /\ IF NewAcks(some) # {} /\ healthy /\ ~closing
           THEN /\ Submit(<<Acked(nextSeq, NewAcks(some))>>)
                /\ sender' = [pc |-> "acking", triples |-> some]
           ELSE /\ sender' = NoEnvelope
                /\ UNCHANGED <<nextSeq, queue, inFlight, pending>>
        /\ UNCHANGED <<file, up, opens, healthy, closing, stop, hold, outbox, known, ackDue,
                       posts, writer, spent>>
  BY DEF SenderAcks, history
<1>2. posts' \in Seq(Post) /\ \A i \in 1..Len(posts') : \E j \in 1..Len(posts) : posts'[i] = posts[j]
  BY <1>1, SamePosts DEF IInv
<1>3. CASE ~(NewAcks(some) # {} /\ healthy /\ ~closing)
  <2>1. sender' = NoEnvelope /\ UNCHANGED <<nextSeq, queue, inFlight, pending>>
    BY <1>1, <1>3
  <2>2. {healthy', stop'} \subseteq BOOLEAN /\ sender'.triples \subseteq Triple
    BY <1>1, <2>1 DEF IInv, TypeOK, NoEnvelope
  <2>3. (up \/ ~stop') /\ \A a \in ackDue' : up
    BY <1>1 DEF IInv, Down
  <2> QED
    BY <1>1, <1>2, <2>1, <2>2, <2>3, StillStep
<1>4. CASE NewAcks(some) # {} /\ healthy /\ ~closing
  <2> USE DEF IInv
  <2> DEFINE refs == NewAcks(some)
  <2>1. PICK x : x = Acked(nextSeq, refs)
    OBVIOUS
  <2>2. /\ Submit(<<x>>) /\ sender' = [pc |-> "acking", triples |-> some] /\ ~closing
    BY <1>1, <1>4, <2>1
  <2>3. refs \subseteq outbox /\ refs \subseteq some /\ refs # {}
    BY <1>4 DEF NewAcks
  <2>4. up
    BY <2>3 DEF Down
  <2>5. nextSeq \in Nat /\ refs \subseteq Triple /\ refs \subseteq known
    BY <2>3 DEF TypeOK, RowsInv
  <2>6. x.kind = "lineage-acked" /\ x.seq = nextSeq /\ x.refs = refs
    BY <2>1 DEF Acked
  <2> HIDE DEF refs
  <2>7. x \in Line /\ ~Resolves(x)
    <3>1. x \in AckedLine
      BY <2>1, <2>5 DEF AckedLine, Acked
    <3> QED
      BY <2>6, <3>1, Kinds DEF Line, Resolves
  <2>8. /\ nextSeq' = nextSeq + 1
        /\ queue' \in Seq(Line \cup {Close})
        /\ Lines(queue') \in Seq(Line)
        /\ Range(Lines(queue')) = Range(Lines(queue)) \cup {x}
        /\ Close \notin Range(queue')
        /\ inFlight' = inFlight \cup {x}
        /\ pending' \subseteq pending \cup {x}
    BY <2>2, <2>7, QueuedIs
  <2>9. TypeOK'
    <3>1. inFlight' \subseteq Line /\ pending' \subseteq Line
      BY <2>7, <2>8 DEF TypeOK
    <3>2. sender'.triples \subseteq Triple
      BY <2>2 DEF TypeOK
    <3>3. nextSeq' \in Nat
      BY <2>5, <2>8
    <3> QED
      BY <1>1, <2>8, <3>1, <3>2, <3>3 DEF TypeOK
  <2>10. Unended' = Unended
    BY <1>1 DEF Unended
  <2>11. Goes
    BY <1>1, <2>5, <2>8, <2>10 DEF Goes, OnDisk
  <2>12. OnDisk' = OnDisk /\ OnTheWay' = OnTheWay \cup {x}
    BY <1>1, <2>8 DEF OnDisk, OnTheWay
  <2>13. Own(x)'
    <3>1. x.refs \subseteq sink'
      BY <1>1, <2>3, <2>6
    <3>2. x.seq < nextSeq'
      BY <2>5, <2>6, <2>8
    <3> QED
      BY <2>6, <2>7, <3>1, <3>2 DEF Own
  <2>14. Down'
    BY <1>1, <2>4 DEF Down
  <2>15. OwnInv'
    <3>1. \A y \in OnTheWay' \cup inFlight' \cup pending' :
            y \in OnTheWay \cup inFlight \cup pending \/ Own(y)'
      BY <2>8, <2>12, <2>13
    <3> QED
      BY <1>2, <2>9, <2>11, <3>1, OwnMoves
  <2>16. FileInv'
    <3>1. ASSUME Writes PROVE Fits(OnDisk \cup OnTheWay, x)
      <4>1. nextSeq <= x.seq
        BY <2>5, <2>6
      <4> QED
        BY <2>5, <2>6, <2>7, <3>1, <4>1, FitsNext
    <3> QED
      BY <1>1, <2>2, <2>7, <2>9, <2>11, <3>1, FileQueued
  <2>17. HoldInv'
    <3>1. \A y \in OnDisk' \cup OnTheWay' :
            \/ y \in OnDisk \cup OnTheWay
            \/ /\ y.kind = "reserved" /\ y.seq \in DOMAIN hold' => y = HeldLine(y.seq)'
               /\ Resolves(y) => y.ref \notin Unended'
      BY <2>6, <2>7, <2>12
    <3>2. Writes' => Writes /\ OnDisk \cup OnTheWay \subseteq OnDisk' \cup OnTheWay'
      BY <1>1, <2>12 DEF Writes
    <3>3. closing' => Unended' = {}
      BY <1>1, <2>2
    <3> QED
      BY <1>1, <2>8, <2>9, <2>11, <3>1, <3>2, <3>3, HoldMoves
  <2>18. RowsInv'
    <3>1. OnDisk \subseteq OnDisk' /\ sink \subseteq sink'
      BY <1>1, <2>12
    <3> QED
      BY <1>1, <3>1, RowsMoves
  <2>19. SpentInv'
    BY <1>1, <2>7, <2>9, <2>11, <2>12, SpentMoves
  <2> QED
    BY <2>9, <2>14, <2>15, <2>16, <2>17, <2>18, <2>19
<1> QED
  BY <1>3, <1>4

LEMMA StutterStep ==
  ASSUME IInv, UNCHANGED vars
  PROVE  IInv'
<1>1. UNCHANGED <<file, up, opens, healthy, closing, stop, nextSeq, hold, queue, inFlight, pending,
                  outbox, known, ackDue, posts, writer, sender, sink, spent>>
  BY DEF vars, loopVars, ledgerVars, history
<1>2. {healthy', stop'} \subseteq BOOLEAN /\ sender'.triples \subseteq Triple
  BY <1>1 DEF IInv, TypeOK
<1>3. posts' \in Seq(Post) /\ \A i \in 1..Len(posts') : \E j \in 1..Len(posts) : posts'[i] = posts[j]
  BY <1>1, SamePosts DEF IInv
<1>4. (up \/ ~stop') /\ \A a \in ackDue' : up
  BY <1>1 DEF IInv, Down
<1> QED
  BY <1>1, <1>2, <1>3, <1>4, StillStep

-----------------------------------------------------------------------------
(* What the loop makes of a flush.                                         *)

LEMMA FileGood ==
  ASSUME TypeOK, FileInv
  PROVE  file \in Seq(Line) /\ Good(file)
<1>1. file \in Seq(Line) /\ writer.batch \in Seq(Line) /\ Good(file \o writer.batch)
  BY Parts DEF FileInv
<1> QED
  BY <1>1, GoodConcat

LEMMA PostedDurableStep ==
  ASSUME IInv, PostedDurable
  PROVE  IInv'
<1> USE DEF IInv
<1> DEFINE lines == Range(Head(posts).lines)
           mine == lines \cap inFlight
           done == ResolvedBy(mine)
           durable == ReservedBy(mine)
           fresh == {TripleOf(line) : line \in {x \in mine \cap pending : HasRow(x)}}
<1>1. /\ posts # <<>> /\ posts' = Tail(posts)
      /\ UNCHANGED <<file, up, opens, healthy, closing, stop, nextSeq, queue, writer, sender,
                     sink, spent>>
      /\ inFlight' = inFlight \ mine /\ pending' = pending \ mine
      /\ known' = known \cup fresh /\ outbox' = outbox \cup fresh
      /\ ackDue' = ackDue \cup {[refs |-> line.refs, ok |-> TRUE] :
                                  line \in {x \in mine \cap pending : x.kind = "lineage-acked"}}
  BY DEF PostedDurable, Durable, history
<1>2. hold' = [s \in DOMAIN hold |->
                 IF s \in done THEN [hold[s] EXCEPT !.state = "resolved"]
                 ELSE IF s \in durable THEN [hold[s] EXCEPT !.state = "reserved"]
                 ELSE hold[s]]
  BY DEF PostedDurable, Durable
<1>3. \A x \in lines : Own(x) /\ x \in OnDisk /\ x \in Line
  BY <1>1, TailIs, Parts DEF OwnInv
<1>4. done \subseteq DOMAIN hold /\ \A s \in done : hold[s].state = "resolving"
  BY <1>3 DEF ResolvedBy, Own
<1>5. /\ durable \subseteq DOMAIN hold
      /\ \A s \in durable : hold[s].state = "pending" /\ HeldLine(s) \in OnDisk
  <2>1. ASSUME NEW x \in mine, x.kind = "reserved", hold[x.seq].state = "pending"
        PROVE  x.seq \in DOMAIN hold /\ HeldLine(x.seq) \in OnDisk
    <3>1. x.seq \in DOMAIN hold /\ x \in OnDisk
      BY <1>3, <2>1 DEF Own
    <3>2. x = HeldLine(x.seq)
      BY <2>1, <3>1 DEF HoldInv
    <3> QED
      BY <3>1, <3>2
  <2> QED
    BY <2>1 DEF ReservedBy
<1>6. up
  BY <1>1 DEF Down
<1>7. /\ posts' \in Seq(Post)
      /\ \A i \in 1..Len(posts') : \E j \in 1..Len(posts) : posts'[i] = posts[j]
  BY <1>1, TailIs
<1>8. \A a \in ackDue' : a \in ackDue \/ (a.refs \subseteq sink
                                            /\ a \in [refs : SUBSET Triple, ok : BOOLEAN])
  <2>1. ASSUME NEW line \in mine, line.kind = "lineage-acked"
        PROVE  line.refs \subseteq sink /\ line.refs \in SUBSET Triple
    BY <1>3, <2>1, LineFacts DEF Own
  <2>2. ASSUME NEW a \in ackDue', a \notin ackDue
        PROVE  a.refs \subseteq sink /\ a \in [refs : SUBSET Triple, ok : BOOLEAN]
    <3>1. PICK line \in mine : line.kind = "lineage-acked"
                                 /\ a = [refs |-> line.refs, ok |-> TRUE]
      BY <1>1, <2>2
    <3> QED
      BY <2>1, <3>1
  <2> QED
    BY <2>2
<1>9. \A t \in fresh : t \in Triple /\ Named(OnDisk, t)
  <2> SUFFICES ASSUME NEW x \in mine, HasRow(x)
               PROVE  TripleOf(x) \in Triple /\ Named(OnDisk, TripleOf(x))
    OBVIOUS
  <2>1. Own(x) /\ x \in OnDisk /\ x \in Line
    BY <1>3
  <2>2. opens \in Nat
    BY DEF TypeOK
  <2>3. CASE x.kind = "refused"
    <3>1. TripleOf(x) = <<x.epoch, x.seq>>
      BY <2>1, <2>3 DEF TripleOf, Own
    <3>2. x.epoch \in Nat /\ x.seq \in Nat
      BY <2>1, <2>3, LineFacts
    <3> QED
      BY <2>1, <2>3, <3>1, <3>2 DEF Named, Triple
  <2>4. CASE x.kind # "refused"
    <3>1. Resolves(x) /\ x.row
      BY <2>4 DEF HasRow
    <3>2. x.ref \in DOMAIN hold /\ x.ref \in Nat
      BY <2>1, <3>1, LineFacts DEF Own
    <3>3. PICK r \in OnDisk : r.kind = "reserved" /\ r.seq = x.ref
      BY <2>1, <3>1, FileGood, ResolvesOnce DEF OnDisk
    <3>4. r = HeldLine(r.seq)
      BY <3>2, <3>3 DEF HoldInv
    <3>5. r.epoch = opens
      BY <3>4 DEF HeldLine, Reserved
    <3>6. TripleOf(x) = <<r.epoch, r.seq>>
      BY <2>4, <3>3, <3>5 DEF TripleOf
    <3>7. TripleOf(x) \in Triple
      BY <2>2, <3>2, <3>3, <3>5, <3>6 DEF Triple
    <3> QED
      BY <2>1, <3>1, <3>3, <3>6, <3>7 DEF Named
  <2> QED
    BY <2>3, <2>4
<1> HIDE DEF lines, mine, done, durable, fresh
<1>10. /\ DOMAIN hold' = DOMAIN hold
       /\ \A s \in DOMAIN hold :
            /\ s \in done => hold'[s] = [hold[s] EXCEPT !.state = "resolved"]
            /\ s \notin done /\ s \in durable => hold'[s] = [hold[s] EXCEPT !.state = "reserved"]
            /\ s \notin done /\ s \notin durable => hold'[s] = hold[s]
  BY <1>2
<1>11. \A s \in DOMAIN hold :
         /\ hold'[s].scope = hold[s].scope /\ hold'[s].amount = hold[s].amount
         /\ hold'[s].base = hold[s].base /\ hold'[s] \in HoldRow
         /\ hold'[s].state = IF s \in done THEN "resolved"
                             ELSE IF s \in durable THEN "reserved" ELSE hold[s].state
  <2> TAKE s \in DOMAIN hold
  <2>1. hold[s] \in HoldRow
    BY DEF TypeOK
  <2>2. CASE s \in done
    BY <1>10, <2>1, <2>2 DEF HoldRow
  <2>3. CASE s \notin done /\ s \in durable
    BY <1>10, <2>1, <2>3 DEF HoldRow
  <2>4. CASE s \notin done /\ s \notin durable
    BY <1>10, <2>1, <2>4 DEF HoldRow
  <2> QED
    BY <2>2, <2>3, <2>4
<1>12. TypeOK'
  <2>1. DOMAIN hold' \subseteq Nat /\ \A t \in DOMAIN hold' : hold'[t] \in HoldRow
    BY <1>10, <1>11 DEF TypeOK
  <2>2. ackDue' \subseteq [refs : SUBSET Triple, ok : BOOLEAN]
    BY <1>8 DEF TypeOK
  <2>3. known' \subseteq Triple /\ outbox' \subseteq Triple
    BY <1>1, <1>9 DEF TypeOK
  <2>4. inFlight' \subseteq Line /\ pending' \subseteq Line
    BY <1>1 DEF TypeOK
  <2> QED
    BY <1>1, <1>7, <2>1, <2>2, <2>3, <2>4 DEF TypeOK
<1>13. Goes
  <2>1. \A s \in DOMAIN hold :
          hold'[s].state \in {"pending", "reserved"} => hold[s].state \in {"pending", "reserved"}
    BY <1>5, <1>11
  <2>2. \A s \in DOMAIN hold : s \in Unended' => s \in Unended
    BY <1>5, <1>11 DEF Unended
  <2>3. nextSeq <= nextSeq'
    BY <1>1 DEF TypeOK
  <2> QED
    BY <1>1, <1>10, <1>11, <2>1, <2>2, <2>3 DEF Goes, OnDisk
<1>14. OwnInv' /\ FileInv' /\ HoldInv' /\ OnDisk' = OnDisk /\ OnTheWay' = OnTheWay
  <2>1. \A t \in DOMAIN hold :
          hold'[t].state \in {"reserved", "sent"} =>
            hold[t].state \in {"reserved", "sent"} \/ HeldLine(t) \in OnDisk
    BY <1>5, <1>11
  <2>2. Writes' => Writes
    BY <1>1 DEF Writes
  <2>3. inFlight' \subseteq inFlight /\ pending' \subseteq pending
    BY <1>1
  <2> QED
    BY <1>1, <1>7, <1>10, <1>12, <1>13, <2>1, <2>2, <2>3, QuietStep
<1>15. Down'
  BY <1>1, <1>6 DEF Down
<1>16. RowsInv'
  <2>1. \A t \in known' : Named(OnDisk', t)
    BY <1>1, <1>9, <1>14 DEF RowsInv
  <2>2. \A a \in ackDue' : a.refs \subseteq sink'
    BY <1>1, <1>8 DEF RowsInv
  <2> QED
    BY <1>1, <2>1, <2>2 DEF RowsInv
<1>17. SpentInv'
  BY <1>1, <1>10, <1>12, <1>13, <1>14, SpentMoves
<1> QED
  BY <1>12, <1>14, <1>15, <1>16, <1>17

-----------------------------------------------------------------------------
(* The writer's steps.                                                     *)

LEMMA FileMoves ==
  ASSUME TypeOK, TypeOK', OwnInv, FileInv, Goes,
         OnDisk' \subseteq OnDisk \cup OnTheWay,
         Good(file' \o writer'.batch),
         Writes' => Good((file \o writer.batch) \o Lines(queue))',
         writer'.pc # "busy" => writer'.batch = <<>>,
         writer'.pc = "busy" => ~writer'.dead
  PROVE  FileInv'
<1>1. ASSUME NEW x \in OnDisk'
      PROVE  /\ x.kind = "opened" => x.epoch <= opens
             /\ x.kind = "lineage-acked" => x.refs \subseteq sink'
             /\ up => x.seq < nextSeq'
  <2>1. x \in Line /\ x.seq \in Nat /\ nextSeq \in Nat /\ nextSeq' \in Nat /\ nextSeq <= nextSeq'
    BY <1>1, Parts, LineFacts DEF TypeOK, Goes
  <2>2. CASE x \in OnDisk
    <3>1. up => x.seq < nextSeq
      BY <2>2 DEF FileInv
    <3>2. up => x.seq < nextSeq'
      BY <2>1, <3>1
    <3> QED
      BY <2>2, <3>2 DEF FileInv, Goes
  <2>3. CASE x \in OnTheWay
    <3>1. Own(x)
      BY <2>3 DEF OwnInv
    <3>2. x.seq < nextSeq
      BY <3>1 DEF Own
    <3>3. x.seq < nextSeq'
      BY <2>1, <3>2
    <3> QED
      BY <3>1, <3>3 DEF Own, Goes
  <2> QED
    BY <1>1, <2>2, <2>3
<1>2. up' => \E x \in OnDisk' : x.kind = "opened" /\ x.epoch = opens'
  BY DEF FileInv, Goes
<1> QED
  BY <1>1, <1>2 DEF FileInv, Goes

LEMMA EmptyIs ==
  /\ <<>> \in Seq(Line) /\ Len(<<>>) = 0 /\ Range(<<>>) = {} /\ Lines(<<>>) = <<>>
  /\ \A f \in Seq(Line) : f \o <<>> = f
<1>1. <<>> \in Seq(Line) /\ Len(<<>>) = 0
  BY EmptySeq
<1>2. Range(<<>>) = {}
  BY DEF Range
<1>3. Lines(<<>>) = <<>>
  BY <1>1, LinesOpen
<1> QED
  BY <1>1, <1>2, <1>3, ConcatEmptySeq

LEMMA WriterTakesStep ==
  ASSUME IInv, WriterTakes
  PROVE  IInv'
<1> USE DEF IInv
<1> DEFINE writes == Lines(queue) # <<>> /\ ~writer.dead /\ ~stop
           closes == Close \in Range(queue)
<1>1. /\ up /\ writer.pc = "idle" /\ queue' = <<>>
      /\ writer' = [writer EXCEPT !.pc = IF writes THEN "busy" ELSE IF closes THEN "ended" ELSE "idle",
                                  !.batch = IF writes THEN Lines(queue) ELSE <<>>,
                                  !.closing = closes]
      /\ UNCHANGED <<file, up, opens, healthy, closing, stop, nextSeq, hold, inFlight, pending,
                     outbox, known, ackDue, posts, sender, sink, spent>>
  BY DEF WriterTakes, history
<1> DEFINE Writer4 == [pc : {"idle", "busy", "ended"}, batch : Seq(Line),
                       closing : BOOLEAN, dead : BOOLEAN]
<1>2. writer \in Writer4 /\ Lines(queue) \in Seq(Line) /\ file \in Seq(Line)
  BY DEF TypeOK
<1>3. writer.batch = <<>>
  BY <1>1 DEF FileInv
<1>4. Lines(queue') = <<>> /\ Range(Lines(queue')) = {}
  BY <1>1, EmptyIs
<1>5. /\ writer'.pc = IF writes THEN "busy" ELSE IF closes THEN "ended" ELSE "idle"
      /\ writer'.batch = IF writes THEN Lines(queue) ELSE <<>>
      /\ writer'.dead = writer.dead
      /\ writer' \in Writer4
  <2> HIDE DEF writes, closes
  <2>1. writer'.batch = IF writes THEN Lines(queue) ELSE <<>>
    BY <1>1, <1>2
  <2>2. writer'.pc = IF writes THEN "busy" ELSE IF closes THEN "ended" ELSE "idle"
    BY <1>1, <1>2
  <2>3. writer'.dead = writer.dead
    BY <1>1, <1>2
  <2>4. <<>> \in Seq(Line)
    BY EmptyIs
  <2>5. writer' \in Writer4
    <3>1. closes \in BOOLEAN
      BY DEF closes
    <3>2. (IF writes THEN Lines(queue) ELSE <<>>) \in Seq(Line)
      BY <1>2, <2>4
    <3>3. (IF writes THEN "busy" ELSE IF closes THEN "ended" ELSE "idle")
             \in {"idle", "busy", "ended"}
      OBVIOUS
    <3> QED
      BY <1>1, <1>2, <3>1, <3>2, <3>3
  <2> QED
    BY <2>1, <2>2, <2>3, <2>5
<1>6. OnDisk' = OnDisk
  BY <1>1 DEF OnDisk
<1>7. OnTheWay = Range(Lines(queue)) /\ OnTheWay' = Range(writer'.batch)
  BY <1>3, <1>4, EmptyIs DEF OnTheWay
<1>8. /\ OnTheWay' \subseteq OnTheWay
      /\ Writes' => Writes /\ OnTheWay' = OnTheWay
  <2>1. CASE writes
    BY <1>1, <1>5, <1>7, <2>1 DEF Writes
  <2>2. CASE ~writes
    <3>1. writer'.batch = <<>> /\ OnTheWay' = {}
      BY <1>5, <1>7, <2>2, EmptyIs
    <3>2. Writes' => Writes
      BY <1>1, <1>5 DEF Writes
    <3>3. Writes => Lines(queue) = <<>>
      BY <2>2 DEF Writes
    <3>4. Writes => OnTheWay = {}
      BY <1>7, <3>3, EmptyIs
    <3> QED
      BY <3>1, <3>2, <3>4
  <2> QED
    BY <2>1, <2>2
<1>9. TypeOK'
  <2>1. queue' \in Seq(Line \cup {Close}) /\ Lines(queue') \in Seq(Line)
    <3>1. queue' \in Seq(Line \cup {Close})
      BY <1>1, EmptySeq
    <3> QED
      BY <1>4, <3>1, EmptyIs
  <2> QED
    BY <1>1, <1>5, <2>1 DEF TypeOK
<1>10. Unended' = Unended
  BY <1>1 DEF Unended
<1>11. Goes
  BY <1>1, <1>6, <1>10 DEF Goes, TypeOK
<1>12. Down'
  BY <1>1 DEF Down
<1>13. OwnInv'
  <2>1. \A y \in OnTheWay' \cup inFlight' \cup pending' :
          y \in OnTheWay \cup inFlight \cup pending
    BY <1>1, <1>8
  <2>2. \A i \in 1..Len(posts') : \E j \in 1..Len(posts) : posts'[i] = posts[j]
    BY <1>1
  <2> QED
    BY <1>9, <1>11, <2>1, <2>2, OwnMoves
<1>14. FileInv'
  <2>1. Good(file' \o writer'.batch)
    <3>1. CASE writes
      <4>1. Good((file \o <<>>) \o Lines(queue))
        BY <1>1, <1>3, <3>1 DEF FileInv, Writes
      <4>2. Good(file \o Lines(queue))
        BY <1>2, <4>1, EmptyIs
      <4> QED
        BY <1>1, <1>5, <3>1, <4>2
    <3>2. CASE ~writes
      <4>1. writer'.batch = <<>> /\ Good(file \o <<>>)
        BY <1>3, <1>5, <3>2 DEF FileInv
      <4> QED
        BY <1>1, <4>1
    <3> QED
      BY <3>1, <3>2
  <2>2. Good((file \o writer.batch) \o Lines(queue))'
    <3>1. file' \o writer'.batch \in Seq(Line)
      BY <1>9, Parts DEF TypeOK
    <3>2. (file' \o writer'.batch) \o Lines(queue') = file' \o writer'.batch
      BY <1>4, <3>1, EmptyIs
    <3> QED
      BY <2>1, <3>2
  <2>3. writer'.pc # "busy" => writer'.batch = <<>>
    BY <1>5
  <2>4. writer'.pc = "busy" => ~writer'.dead
    BY <1>5
  <2> QED
    BY <1>6, <1>9, <1>11, <2>1, <2>2, <2>3, <2>4, FileMoves
<1>15. HoldInv'
  <2>1. \A y \in OnDisk' \cup OnTheWay' : y \in OnDisk \cup OnTheWay
    BY <1>6, <1>8
  <2>2. \A t \in DOMAIN hold :
          hold'[t].state \in {"reserved", "sent"} => hold[t].state \in {"reserved", "sent"}
    BY <1>1
  <2>3. Writes' => Writes /\ OnDisk \cup OnTheWay \subseteq OnDisk' \cup OnTheWay'
    BY <1>6, <1>8
  <2>4. closing' => Unended' = {}
    BY <1>1, <1>10 DEF HoldInv
  <2>5. Close \notin Range(queue')
    BY <1>1, EmptyIs
  <2>6. DOMAIN hold' \ DOMAIN hold = {}
    BY <1>1
  <2> QED
    BY <1>9, <1>11, <2>1, <2>2, <2>3, <2>4, <2>5, <2>6, HoldMoves
<1>16. RowsInv'
  BY <1>1, <1>6, RowsMoves
<1>17. SpentInv'
  BY <1>1, <1>6, <1>8, <1>9, <1>11, SpentMoves
<1> QED
  BY <1>9, <1>12, <1>13, <1>14, <1>15, <1>16, <1>17

\* What the two ends of a write have in common.
LEMMA WroteStep ==
  ASSUME IInv, writer.pc = "busy", NEW dead \in BOOLEAN, NEW post \in Post,
         file' \in Survivors, ~dead => file' = file \o writer.batch,
         Range(post.lines) \subseteq Range(writer.batch) \cap Range(file'),
         posts' = Append(posts, post), writer' = Written(dead),
         UNCHANGED <<up, opens, healthy, closing, stop, nextSeq, hold, queue, inFlight, pending,
                     outbox, known, ackDue, sender, sink, spent>>
  PROVE  IInv'
<1> USE DEF IInv
<1>1. writer \in [pc : {"idle", "busy", "ended"}, batch : Seq(Line),
                  closing : BOOLEAN, dead : BOOLEAN]
  BY DEF TypeOK
<1>2. /\ writer'.pc \in {"idle", "ended"} /\ writer'.batch = <<>> /\ writer'.dead = dead
      /\ writer' \in [pc : {"idle", "busy", "ended"}, batch : Seq(Line),
                      closing : BOOLEAN, dead : BOOLEAN]
  <2>1. <<>> \in Seq(Line)
    BY EmptyIs
  <2> QED
    BY <1>1, <2>1 DEF Written
<1>3. /\ file' \in Seq(Line) /\ Good(file') /\ OnDisk \subseteq OnDisk'
      /\ OnDisk' \subseteq OnDisk \cup Range(writer.batch)
  BY SurvivorIs DEF OnDisk
<1>4. up /\ ~writer.dead
  <2>1. up
    BY DEF Down, Idle
  <2> QED
    BY <2>1 DEF FileInv
<1>5. OnTheWay' = Range(Lines(queue)) /\ OnTheWay' \subseteq OnTheWay
  BY <1>2, EmptyIs DEF OnTheWay
<1>6. posts \in Seq(Post) /\ posts' \in Seq(Post)
      /\ Len(posts') = Len(posts) + 1 /\ posts'[Len(posts) + 1] = post
      /\ \A i \in 1..Len(posts) : posts'[i] = posts[i]
  BY AppendProperties DEF TypeOK
<1>7. TypeOK'
  BY <1>2, <1>3, <1>6 DEF TypeOK
<1>8. Unended' = Unended
  BY DEF Unended
<1>9. Goes
  BY <1>3, <1>8 DEF Goes, TypeOK
<1>10. Down'
  BY <1>4 DEF Down
<1>11. OwnInv'
  <2>1. \A y \in OnTheWay' \cup inFlight' \cup pending' :
          y \in OnTheWay \cup inFlight \cup pending
    BY <1>5
  <2>2. \A i \in 1..Len(posts') :
          \/ \E j \in 1..Len(posts) : posts'[i] = posts[j]
          \/ Range(posts'[i].lines) \subseteq OnTheWay \cap OnDisk'
    <3> TAKE i \in 1..Len(posts')
    <3>1. Len(posts) \in Nat
      BY <1>6, LenProperties
    <3>2. i \in 1..Len(posts) \/ i = Len(posts) + 1
      BY <1>6, <3>1
    <3>3. CASE i = Len(posts) + 1
      <4>1. posts'[i] = post
        BY <1>6, <3>3
      <4> QED
        BY <4>1 DEF OnTheWay, OnDisk
    <3> QED
      BY <1>6, <3>2, <3>3
  <2> QED
    BY <1>7, <1>9, <2>1, <2>2, OwnMoves
<1>12. Writes' => Writes /\ ~dead
  BY <1>2, <1>4 DEF Writes
<1>13. FileInv'
  <2>1. file' \o writer'.batch = file'
    BY <1>2, <1>3, EmptyIs
  <2>2. Good(file' \o writer'.batch)
    BY <1>3, <2>1
  <2>3. Writes' => Good((file \o writer.batch) \o Lines(queue))'
    <3> SUFFICES ASSUME Writes' PROVE Good((file' \o writer'.batch) \o Lines(queue))
      OBVIOUS
    <3>1. file' = file \o writer.batch
      BY <1>12
    <3>2. Good((file \o writer.batch) \o Lines(queue))
      BY <1>12 DEF FileInv
    <3> QED
      BY <2>1, <3>1, <3>2
  <2>4. OnDisk' \subseteq OnDisk \cup OnTheWay
    BY <1>3 DEF OnTheWay
  <2> QED
    BY <1>2, <1>7, <1>9, <2>2, <2>3, <2>4, FileMoves
<1>14. \A y \in OnDisk' \cup OnTheWay' : y \in OnDisk \cup OnTheWay
  BY <1>3, <1>5 DEF OnTheWay
<1>15. HoldInv'
  <2>1. Writes' => Writes /\ OnDisk \cup OnTheWay \subseteq OnDisk' \cup OnTheWay'
    <3> SUFFICES ASSUME Writes' PROVE OnDisk \cup OnTheWay \subseteq OnDisk' \cup OnTheWay'
      BY <1>12
    <3>1. file' = file \o writer.batch
      BY <1>12
    <3>2. OnDisk' = OnDisk \cup Range(writer.batch)
      BY <3>1, Parts DEF OnDisk
    <3> QED
      BY <1>5, <3>2 DEF OnTheWay
  <2>2. closing' => Unended' = {}
    BY <1>8 DEF HoldInv
  <2>3. Close \in Range(queue') => closing'
    BY DEF HoldInv
  <2> QED
    BY <1>7, <1>9, <1>14, <2>1, <2>2, <2>3, HoldMoves
<1>16. RowsInv'
  BY <1>3, RowsMoves
<1>17. SpentInv'
  BY <1>7, <1>9, <1>14, SpentMoves
<1> QED
  BY <1>7, <1>10, <1>11, <1>13, <1>15, <1>16, <1>17

LEMMA WriterFlushesStep ==
  ASSUME IInv, WriterFlushes
  PROVE  IInv'
<1> DEFINE post == [what |-> "durable", lines |-> writer.batch]
<1>1. /\ writer.pc = "busy" /\ file' = file \o writer.batch
      /\ posts' = Append(posts, post) /\ writer' = Written(FALSE)
      /\ UNCHANGED <<up, opens, healthy, closing, stop, nextSeq, hold, queue, inFlight, pending,
                     outbox, known, ackDue, sender, sink, spent>>
  BY DEF WriterFlushes, history
<1>2. file \in Seq(Line) /\ writer.batch \in Seq(Line)
  BY DEF IInv, TypeOK
<1>3. post \in Post /\ post.lines = writer.batch
  BY <1>2 DEF Post
<1>4. file' \in Survivors
  <2>1. Len(writer.batch) \in Nat /\ Len(writer.batch) \in 0..Len(writer.batch)
    BY <1>2, RangeIs
  <2>2. SubSeq(writer.batch, 1, Len(writer.batch)) = writer.batch
    BY <1>2, SubSeqFull
  <2> QED
    BY <1>1, <2>1, <2>2 DEF Survivors
<1>5. Range(post.lines) \subseteq Range(writer.batch) \cap Range(file')
  BY <1>1, <1>2, <1>3, BeforeConcat
<1> HIDE DEF post
<1>6. PICK p \in Post : p = post
  BY <1>3
<1>7. FALSE \in BOOLEAN
  OBVIOUS
<1> QED
  BY <1>1, <1>4, <1>5, <1>6, <1>7, WroteStep

LEMMA WriterFailsStep ==
  ASSUME IInv, WriterFails
  PROVE  IInv'
<1>1. /\ writer.pc = "busy" /\ file' \in Survivors
      /\ posts' = Append(posts, [what |-> "fault", lines |-> <<>>]) /\ writer' = Written(TRUE)
      /\ UNCHANGED <<up, opens, healthy, closing, stop, nextSeq, hold, queue, inFlight, pending,
                     outbox, known, ackDue, sender, sink, spent>>
  BY DEF WriterFails, history
<1>2. PICK p \in Post : p = [what |-> "fault", lines |-> <<>>]
  <2>1. <<>> \in Seq(Line)
    BY EmptyIs
  <2> QED
    BY <2>1 DEF Post
<1>3. Range(p.lines) = {}
  BY <1>2, EmptyIs
<1> QED
  BY <1>1, <1>2, <1>3, WroteStep

-----------------------------------------------------------------------------
(* Closing: every live hold is booked at once.                             *)

\* Bookings of as many holds, one seq after the other.
Books(g, n) ==
  /\ \A i \in 1..Len(g) : Resolves(g[i]) /\ g[i].seq = n + i
  /\ \A i, j \in 1..Len(g) : g[i].ref = g[j].ref => i = j

LEMMA BooksFit ==
  ASSUME NEW g \in Seq(Line), NEW n \in Int, Books(g, n), NEW F,
         \A i \in 1..Len(g) : Fits(F, g[i])
  PROVE  \A i \in 1..Len(g) : Fits(F \cup Before(g, i), g[i])
<1> TAKE i \in 1..Len(g)
<1>1. Len(g) \in Nat
  BY RangeIs
<1>2. ASSUME NEW y \in Before(g, i)
      PROVE  y.seq < g[i].seq /\ Resolves(y) /\ y.ref # g[i].ref
  <2>1. PICK j \in 1..(i - 1) : y = g[j]
    BY <1>2 DEF Before
  <2>2. j \in 1..Len(g) /\ i \in Nat /\ j \in Nat /\ j < i
    BY <1>1
  <2>3. g[j].seq = n + j /\ g[i].seq = n + i /\ Resolves(g[j]) /\ g[j].ref # g[i].ref
    <3>1. g[j].ref = g[i].ref => j = i
      BY <2>2 DEF Books
    <3> QED
      BY <2>2, <3>1 DEF Books
  <2>4. n + j < n + i
    BY <2>2
  <2> QED
    BY <2>1, <2>3, <2>4
<1>3. Resolves(g[i])
  BY DEF Books
<1> QED
  BY <1>2, <1>3, FitsMore

LEMMA EndOutcomeIs ==
  ASSUME NEW state
  PROVE  /\ EndOutcome(state) \in Outcome
         /\ EndOutcome(state).settled = 0
         /\ state = "sent" => EndOutcome(state).kind = "uncertain"
  BY DEF EndOutcome, Outcome, Uncertain, Released, Resolutions

LEMMA CloseLinesAre ==
  ASSUME TypeOK, HoldInv
  PROVE  \E g \in Seq(Line) :
           /\ g = CloseLines
           /\ Books(g, nextSeq - 1)
           /\ \A i \in 1..Len(g) :
                /\ g[i].ref \in Unended /\ g[i].settled = 0
                /\ g[i].row = hold[g[i].ref].base
                /\ g[i].kind = EndOutcome(hold[g[i].ref].state).kind
                /\ hold[g[i].ref].state = "sent" => g[i].kind = "uncertain"
<1> DEFINE ends == InOrder(Unended)
           g == CloseLines
           n == Cardinality(Unended)
<1>1. /\ Unended \in SUBSET Nat /\ nextSeq \in Nat
      /\ \A s \in Unended : s < nextSeq /\ hold[s] \in HoldRow
  BY DEF Unended, TypeOK, HoldInv
<1>2. IsFiniteSet(Unended)
  <2>1. \A s \in Unended : s <= nextSeq
    BY <1>1
  <2> QED
    BY <1>1, <2>1, FS_BoundedSetOfNaturals
<1>3. /\ n \in Nat /\ DOMAIN ends = 1..n
      /\ \A i \in 1..n : ends[i] \in Unended
      /\ \A i, j \in 1..n : ends[i] = ends[j] => i = j
  BY <1>1, <1>2, InOrderIs
<1>4. g = [i \in 1..n |-> Resolution(nextSeq + i - 1, ends[i],
                            EndOutcome(hold[ends[i]].state), FALSE, hold[ends[i]].base)]
  BY <1>3 DEF CloseLines
<1> HIDE DEF ends, g, n
<1>5. ASSUME NEW i \in 1..n
      PROVE  /\ g[i] \in Line /\ Resolves(g[i]) /\ g[i].seq = (nextSeq - 1) + i
             /\ g[i].ref = ends[i] /\ g[i].settled = 0 /\ g[i].row = hold[ends[i]].base
             /\ g[i].kind = EndOutcome(hold[ends[i]].state).kind
             /\ hold[ends[i]].state = "sent" => g[i].kind = "uncertain"
  <2> DEFINE state == hold[ends[i]].state
             base == hold[ends[i]].base
             o == EndOutcome(state)
  <2>1. ends[i] \in Nat /\ base \in BOOLEAN
    BY <1>1, <1>3 DEF HoldRow
  <2>2. o \in Outcome /\ o.settled = 0 /\ (state = "sent" => o.kind = "uncertain")
    BY EndOutcomeIs
  <2>3. g[i] = Resolution(nextSeq + i - 1, ends[i], o, FALSE, base)
    BY <1>4
  <2> HIDE DEF o, base
  <2>4. i \in Nat /\ nextSeq + i - 1 \in Nat /\ nextSeq + i - 1 = (nextSeq - 1) + i
    BY <1>1, <1>3
  <2>5. o.kind \in Resolutions /\ o.settled \in Nat /\ o.overrun \in Nat
    BY <2>2 DEF Outcome
  <2>6. g[i] \in ResolutionLine
    BY <2>1, <2>3, <2>4, <2>5 DEF ResolutionLine, Resolution
  <2>7. /\ g[i].kind = o.kind /\ g[i].seq = (nextSeq - 1) + i /\ g[i].ref = ends[i]
        /\ g[i].settled = o.settled /\ g[i].row = base
    BY <2>3, <2>4 DEF Resolution
  <2> QED
    BY <2>2, <2>5, <2>6, <2>7 DEF Line, Resolves, base, o
<1>6. g \in Seq(Line) /\ Len(g) = n
  <2>1. g \in [1..n -> Line]
    BY <1>4, <1>5
  <2>2. g \in Seq(Line)
    BY <1>3, <2>1, SeqDef
  <2>3. DOMAIN g = 1..n
    BY <2>1
  <2> QED
    BY <1>3, <2>2, <2>3, LenProperties
<1>7. Books(g, nextSeq - 1)
  BY <1>3, <1>5, <1>6 DEF Books
<1>8. \A i \in 1..Len(g) :
        /\ g[i].ref \in Unended /\ g[i].settled = 0
        /\ g[i].row = hold[g[i].ref].base
        /\ g[i].kind = EndOutcome(hold[g[i].ref].state).kind
        /\ hold[g[i].ref].state = "sent" => g[i].kind = "uncertain"
  BY <1>3, <1>5, <1>6
<1> QED
  BY <1>6, <1>7, <1>8 DEF g

LEMMA ClosesStep ==
  ASSUME IInv, Closes
  PROVE  IInv'
<1> USE DEF IInv
<1>1. PICK g \in Seq(Line) :
        /\ g = CloseLines
        /\ Books(g, nextSeq - 1)
        /\ \A i \in 1..Len(g) :
             /\ g[i].ref \in Unended /\ g[i].settled = 0
             /\ g[i].row = hold[g[i].ref].base
             /\ hold[g[i].ref].state = "sent" => g[i].kind = "uncertain"
  BY CloseLinesAre
<1>2. /\ up /\ ~closing /\ closing' = TRUE
      /\ nextSeq' = nextSeq + Len(g)
      /\ queue' = queue \o Append(g, Close)
      /\ inFlight' = inFlight \cup Range(g)
      /\ pending' \subseteq pending \cup Range(g)
      /\ UNCHANGED <<file, up, opens, healthy, stop, outbox, known, ackDue, posts,
                     writer, sender, sink, spent>>
  BY <1>1 DEF Closes, history
<1>3. hold' = [s \in DOMAIN hold |->
                 IF s \in Unended THEN Resolving(hold[s], EndOutcome(hold[s].state)) ELSE hold[s]]
  BY DEF Closes
<1>4. Len(g) \in Nat /\ nextSeq \in Nat /\ Range(g) \subseteq Line
  BY RangeIs DEF TypeOK
<1>5. queue \in Seq(Line) /\ Lines(queue) = queue
  BY <1>2, NotClosed
<1> DEFINE all == queue \o g
<1>6. all \in Seq(Line) /\ Range(all) = Range(queue) \cup Range(g)
  BY <1>5, BeforeConcat
<1>7. queue' = Append(all, Close)
  <2> DEFINE L == Line \cup {Close}
             c == <<Close>>
  <2>1. queue \in Seq(L) /\ g \in Seq(L) /\ all \in Seq(L) /\ c \in Seq(L) /\ Close \in L
    BY <1>5, <1>6, SeqMonotonic
  <2> HIDE DEF L
  <2>2. Append(g, Close) = g \o c /\ Append(all, Close) = all \o c
    BY <2>1, AppendIsConcat
  <2> HIDE DEF c
  <2>3. (queue \o g) \o c = queue \o (g \o c)
    BY <2>1, ConcatAssociative
  <2> QED
    BY <1>2, <2>2, <2>3
<1>8. /\ queue' \in Seq(Line \cup {Close}) /\ Lines(queue') = all
  <2>1. PICK q \in Seq(Line) : q = all
    BY <1>6
  <2> QED
    BY <1>7, <2>1, LinesClosed
<1> HIDE DEF all
<1>9. ASSUME NEW s \in DOMAIN hold
      PROVE  /\ hold'[s] \in HoldRow
             /\ hold'[s].scope = hold[s].scope /\ hold'[s].amount = hold[s].amount
             /\ hold'[s].base = hold[s].base
             /\ s \in Unended => hold'[s].state = "resolving"
             /\ s \notin Unended => hold'[s] = hold[s]
  <2>1. hold[s] \in HoldRow
    BY DEF TypeOK
  <2>2. PICK o \in Outcome : o = EndOutcome(hold[s].state)
    BY EndOutcomeIs
  <2>3. PICK r : r = Resolving(hold[s], o)
    OBVIOUS
  <2>4. /\ r \in HoldRow /\ r.state = "resolving" /\ r.scope = hold[s].scope
        /\ r.amount = hold[s].amount /\ r.base = hold[s].base
    BY <2>1, <2>3 DEF Resolving, HoldRow, Outcome
  <2>5. hold'[s] = IF s \in Unended THEN r ELSE hold[s]
    BY <1>3, <2>2, <2>3
  <2> QED
    BY <2>1, <2>4, <2>5
<1>10. DOMAIN hold' = DOMAIN hold
  BY <1>3
<1>11. Unended' = {}
  BY <1>9, <1>10 DEF Unended
<1>12. TypeOK'
  <2>1. DOMAIN hold' \subseteq Nat /\ \A t \in DOMAIN hold' : hold'[t] \in HoldRow
    BY <1>9, <1>10 DEF TypeOK
  <2>2. inFlight' \subseteq Line /\ pending' \subseteq Line /\ nextSeq' \in Nat
    BY <1>2, <1>4 DEF TypeOK
  <2>3. closing' \in BOOLEAN
    BY <1>2
  <2> QED
    BY <1>2, <1>6, <1>8, <2>1, <2>2, <2>3 DEF TypeOK
<1>13. Goes
  <2>1. nextSeq <= nextSeq'
    BY <1>2, <1>4
  <2>2. \A t \in DOMAIN hold :
          /\ hold'[t].scope = hold[t].scope
          /\ hold'[t].amount = hold[t].amount
          /\ hold'[t].base = hold[t].base
          /\ hold'[t].state \in {"pending", "reserved"} => hold[t].state \in {"pending", "reserved"}
    <3> TAKE t \in DOMAIN hold
    <3> QED
      BY <1>9
  <2> QED
    BY <1>2, <1>10, <1>11, <2>1, <2>2 DEF Goes, OnDisk
<1>14. OnDisk' = OnDisk /\ OnTheWay' = OnTheWay \cup Range(g)
  BY <1>2, <1>5, <1>6, <1>8 DEF OnDisk, OnTheWay
<1>15. ASSUME NEW x \in Range(g)
       PROVE  /\ x \in Line /\ Resolves(x) /\ x.ref \in Unended /\ x.settled = 0
              /\ x.row = hold[x.ref].base
              /\ hold[x.ref].state = "sent" => x.kind = "uncertain"
              /\ x.kind \notin {"opened", "reserved", "refused", "lineage-acked"}
              /\ nextSeq <= x.seq /\ x.seq < nextSeq'
  <2>1. PICK i \in 1..Len(g) : x = g[i]
    BY RangeIs
  <2>2. Resolves(x) /\ x.seq = (nextSeq - 1) + i
    BY <1>1, <2>1 DEF Books
  <2>3. nextSeq <= x.seq /\ x.seq < nextSeq'
    BY <1>2, <1>4, <2>2
  <2>4. x.kind \notin {"opened", "reserved", "refused", "lineage-acked"}
    BY <2>2, Kinds DEF Resolves
  <2>5. x \in Line
    BY <1>4
  <2> QED
    BY <1>1, <2>1, <2>2, <2>3, <2>4, <2>5
<1>16. \A x \in Range(g) : Own(x)'
  <2> TAKE x \in Range(g)
  <2>1. x.ref \in DOMAIN hold'
    BY <1>10, <1>15 DEF Unended
  <2> QED
    BY <1>15, <2>1 DEF Own
<1>17. Down'
  BY <1>2 DEF Down
<1>18. OwnInv'
  <2>1. \A y \in OnTheWay' \cup inFlight' \cup pending' :
          y \in OnTheWay \cup inFlight \cup pending \/ Own(y)'
    BY <1>2, <1>14, <1>16
  <2>2. \A i \in 1..Len(posts') : \E j \in 1..Len(posts) : posts'[i] = posts[j]
    BY <1>2
  <2> QED
    BY <1>12, <1>13, <2>1, <2>2, OwnMoves
<1>19. FileInv'
  <2> DEFINE a == file \o writer.batch
             f == a \o queue
  <2>1. /\ a \in Seq(Line) /\ f \in Seq(Line) /\ Range(f) = OnDisk \cup OnTheWay
    <3>1. a \in Seq(Line) /\ Range(a) = OnDisk \cup Range(writer.batch)
      BY Parts
    <3>2. f \in Seq(Line) /\ Range(f) = Range(a) \cup Range(queue)
      BY <1>5, <3>1, BeforeConcat
    <3> QED
      BY <1>5, <3>1, <3>2 DEF OnTheWay
  <2>2. ASSUME Writes PROVE Good(f \o g)
    <3>1. \A i \in 1..Len(g) : Fits(OnDisk \cup OnTheWay, g[i])
      <4> TAKE i \in 1..Len(g)
      <4>1. PICK x \in Range(g) : x = g[i]
        BY RangeIs
      <4>2. hold[x.ref].amount \in Nat
        BY <1>15 DEF Unended, TypeOK, HoldRow
      <4>3. x.settled <= hold[x.ref].amount
        BY <1>15, <4>2
      <4>4. Fits(OnDisk \cup OnTheWay, x)
        BY <1>15, <2>2, <4>3, FitsNext
      <4> QED
        BY <4>1, <4>4
    <3>2. nextSeq - 1 \in Int
      BY <1>4
    <3>3. \A i \in 1..Len(g) : Fits(Range(f) \cup Before(g, i), g[i])
      BY <1>1, <2>1, <3>1, <3>2, BooksFit
    <3>4. Good(f)
      BY <1>5, <2>2 DEF FileInv
    <3> HIDE DEF f
    <3> QED
      BY <2>1, <3>3, <3>4, GoodConcat
  <2>3. f \o g = a \o all
    <3> HIDE DEF a
    <3> QED
      BY <1>5, <2>1, ConcatAssociative DEF all
  <2>4. Writes' => Writes
    BY <1>2 DEF Writes
  <2>5. Writes' => Good((file \o writer.batch) \o Lines(queue))'
    BY <1>2, <1>8, <2>2, <2>3, <2>4
  <2> QED
    BY <1>2, <1>12, <1>13, <2>5, FileSame
<1>20. HoldInv'
  <2>1. \A y \in OnDisk' \cup OnTheWay' :
          \/ y \in OnDisk \cup OnTheWay
          \/ /\ y.kind = "reserved" /\ y.seq \in DOMAIN hold' => y = HeldLine(y.seq)'
             /\ Resolves(y) => y.ref \notin Unended'
    BY <1>11, <1>14, <1>15
  <2>2. \A t \in DOMAIN hold :
          hold'[t].state \in {"reserved", "sent"} => hold[t].state \in {"reserved", "sent"}
    <3> TAKE t \in DOMAIN hold
    <3> QED
      BY <1>9
  <2>3. Writes' => Writes /\ OnDisk \cup OnTheWay \subseteq OnDisk' \cup OnTheWay'
    BY <1>2, <1>14 DEF Writes
  <2>4. DOMAIN hold' \ DOMAIN hold = {}
    BY <1>10
  <2> QED
    BY <1>2, <1>11, <1>12, <1>13, <2>1, <2>2, <2>3, <2>4, HoldMoves
<1>21. RowsInv'
  BY <1>2, <1>14, RowsMoves
<1>22. SpentInv'
  <2>1. \A x \in Range(g) : x.ref \in DOMAIN spent => Covers(x, x.ref)
    <3> TAKE x \in Range(g)
    <3>1. x.ref \in DOMAIN spent => hold[x.ref].state = "sent"
      BY <1>15 DEF SpentInv, Unended
    <3> QED
      BY <1>15, <3>1 DEF Covers
  <2>2. \A x \in OnDisk' \cup OnTheWay' :
          \/ x \in OnDisk \cup OnTheWay
          \/ Resolves(x) /\ x.ref \in DOMAIN spent => Covers(x, x.ref)
    BY <1>14, <2>1
  <2>3. DOMAIN hold' \ DOMAIN hold = {}
    BY <1>10
  <2> QED
    BY <1>2, <1>12, <1>13, <2>2, <2>3, SpentMoves
<1> QED
  BY <1>12, <1>17, <1>18, <1>19, <1>20, <1>21, <1>22

-----------------------------------------------------------------------------
(* Dying and opening: what is left is the file.                            *)

LEMMA FreshStep ==
  ASSUME IInv,
         file' \in Seq(Line), Good(file'), OnDisk \subseteq OnDisk',
         \A x \in OnDisk' :
           \/ x \in OnDisk \cup OnTheWay
           \/ x.kind = "opened" /\ x.epoch <= opens'
           \/ x.kind = "uncertain",
         opens' \in Nat, opens <= opens', nextSeq' \in Nat,
         hold' = <<>>, queue' = <<>>, posts' = <<>>, inFlight' = {}, pending' = {}, ackDue' = {},
         writer' = Idle, sender'.triples \subseteq Triple, ~closing', ~stop',
         {healthy', closing', stop', up'} \subseteq BOOLEAN,
         sink' = sink, spent' = spent,
         outbox' \subseteq known', known' \subseteq Triple, known' \ outbox' \subseteq sink,
         \A t \in known' : Named(OnDisk', t),
         ~up' => known' = {},
         up' => /\ \E x \in OnDisk' : x.kind = "opened" /\ x.epoch = opens'
                /\ \A x \in OnDisk' : x.seq < nextSeq'
  PROVE  IInv'
<1> USE DEF IInv
<1>1. DOMAIN hold' = {} /\ Unended' = {}
  <2>1. DOMAIN hold' = {}
    OBVIOUS
  <2> QED
    BY <2>1 DEF Unended
<1>2. /\ writer'.pc = "idle" /\ writer'.batch = <<>> /\ ~writer'.dead
      /\ writer' \in [pc : {"idle", "busy", "ended"}, batch : Seq(Line),
                      closing : BOOLEAN, dead : BOOLEAN]
  <2>1. <<>> \in Seq(Line)
    BY EmptyIs
  <2> QED
    BY <2>1 DEF Idle
<1>3. OnTheWay' = {} /\ Lines(queue') = <<>> /\ Close \notin Range(queue')
  BY <1>2, EmptyIs DEF OnTheWay
<1>4. TypeOK'
  <2>1. queue' \in Seq(Line \cup {Close}) /\ posts' \in Seq(Post) /\ Lines(queue') \in Seq(Line)
    <3>1. queue' \in Seq(Line \cup {Close}) /\ posts' \in Seq(Post)
      BY EmptySeq
    <3> QED
      BY <1>3, <3>1, EmptyIs
  <2>2. DOMAIN hold' \subseteq Nat /\ \A s \in DOMAIN hold' : hold'[s] \in HoldRow
    BY <1>1
  <2>3. outbox' \subseteq Triple
    OBVIOUS
  <2>4. DOMAIN spent' \subseteq Nat /\ \A s \in DOMAIN spent' : spent'[s] \in Costs \cup {Unknown}
    BY DEF TypeOK
  <2> QED
    BY <1>2, <2>1, <2>2, <2>3, <2>4 DEF TypeOK
<1>5. Down'
  BY DEF Down
<1>6. OwnInv'
  <2>1. Len(posts') = 0
    BY EmptyIs
  <2> QED
    BY <1>3, <2>1 DEF OwnInv
<1>7. FileInv'
  <2>1. file' \o writer'.batch = file'
    BY <1>2, EmptyIs
  <2>2. Good(file' \o writer'.batch)
    BY <2>1
  <2>3. Good((file \o writer.batch) \o Lines(queue))'
    BY <1>3, <2>1, EmptyIs
  <2>4. \A x \in OnDisk' : /\ x.kind = "opened" => x.epoch <= opens'
                           /\ x.kind = "lineage-acked" => x.refs \subseteq sink'
    <3> TAKE x \in OnDisk'
    <3>1. CASE x \in OnDisk
      <4>1. x.kind = "opened" => x.epoch <= opens /\ x.epoch \in Nat
        BY <3>1, Parts, LineFacts DEF FileInv
      <4>2. x.kind = "opened" => x.epoch <= opens'
        BY <4>1 DEF TypeOK
      <4> QED
        BY <3>1, <4>2 DEF FileInv
    <3>2. CASE x \in OnTheWay
      BY <3>2 DEF OwnInv, Own
    <3> QED
      BY <3>1, <3>2
  <2> QED
    BY <1>2, <2>2, <2>3, <2>4 DEF FileInv
<1>8. HoldInv'
  BY <1>1, <1>3 DEF HoldInv
<1>9. RowsInv'
  BY DEF RowsInv
<1>10. SpentInv'
  <2> SUFFICES ASSUME NEW s \in DOMAIN spent
               PROVE  /\ \E r \in OnDisk' : r.kind = "reserved" /\ r.seq = s
                      /\ \A x \in OnDisk' \cup OnTheWay' :
                           Resolves(x) /\ x.ref = s => Covers(x, s)'
    BY <1>1 DEF SpentInv
  <2>1. \E r \in OnDisk' : r.kind = "reserved" /\ r.seq = s
    BY DEF SpentInv
  <2>2. \A x \in OnDisk' : Resolves(x) /\ x.ref = s => Covers(x, s)
    <3> TAKE x \in OnDisk'
    <3>1. CASE x \in OnDisk \cup OnTheWay
      BY <3>1 DEF SpentInv
    <3>2. CASE x.kind = "opened"
      BY <3>2, Kinds DEF Resolves
    <3>3. CASE x.kind = "uncertain"
      BY <3>3 DEF Covers
    <3> QED
      BY <3>1, <3>2, <3>3
  <2> QED
    BY <1>3, <2>1, <2>2 DEF Covers
<1> QED
  BY <1>4, <1>5, <1>6, <1>7, <1>8, <1>9, <1>10

LEMMA DiesStep ==
  ASSUME IInv, Dies
  PROVE  IInv'
<1> USE DEF IInv
<1>1. /\ up' = FALSE /\ file' \in Survivors /\ opens' = opens
      /\ closing' = FALSE /\ stop' = FALSE /\ healthy' = TRUE /\ nextSeq' = 1
      /\ hold' = <<>> /\ queue' = <<>> /\ posts' = <<>>
      /\ inFlight' = {} /\ pending' = {} /\ ackDue' = {} /\ outbox' = {} /\ known' = {}
      /\ writer' = Idle /\ sender' = NoEnvelope /\ sink' = sink /\ spent' = spent
  BY DEF Dies, history
<1>2. /\ file' \in Seq(Line) /\ Good(file') /\ OnDisk \subseteq OnDisk'
      /\ OnDisk' \subseteq OnDisk \cup OnTheWay
  BY <1>1, SurvivorIs DEF OnDisk, OnTheWay
<1>3. opens' \in Nat /\ opens <= opens'
  BY <1>1 DEF TypeOK
<1>4. sender'.triples \subseteq Triple
  BY <1>1 DEF NoEnvelope
<1> QED
  BY <1>1, <1>2, <1>3, <1>4, FreshStep

LEMMA LastSeqIs ==
  ASSUME NEW f \in Seq(Line), Good(f)
  PROVE  /\ LastSeq(f) \in Nat
         /\ \A y \in Range(f) : y.seq <= LastSeq(f)
<1>1. CASE f = <<>>
  BY <1>1, EmptyIs DEF LastSeq
<1>2. CASE f # <<>>
  <2> DEFINE n == Len(f)
  <2>1. n \in Nat /\ n \in 1..n
    BY <1>2, EmptySeq, RangeIs
  <2>2. LastSeq(f) = f[n].seq
    BY <1>2 DEF LastSeq, Last
  <2> HIDE DEF n
  <2>3. \A i \in 1..n : f[i] \in Line /\ f[i].seq \in Nat
    BY RangeIs, LineFacts DEF n
  <2>4. ASSUME NEW y \in Range(f) PROVE y.seq <= f[n].seq
    <3>1. PICK i \in 1..n : y = f[i]
      BY RangeIs DEF n
    <3>2. CASE i = n
      BY <2>3, <3>1, <3>2
    <3>3. CASE i < n
      <4>1. f[i].seq < f[n].seq
        BY <2>1, <3>3, SeqOrder DEF n
      <4> QED
        BY <2>1, <2>3, <3>1, <4>1
    <3> QED
      BY <2>1, <3>1, <3>2, <3>3
  <2> QED
    BY <2>1, <2>2, <2>3, <2>4
<1> QED
  BY <1>1, <1>2

LEMMA OpenHoldIs ==
  ASSUME NEW f \in Seq(Line), Good(f), NEW s
  PROVE  s \in {r.seq : r \in OpenHolds(f)} <=>
           /\ \E r \in Range(f) : r.kind = "reserved" /\ r.seq = s
           /\ \A y \in Range(f) : Resolves(y) => y.ref # s
  BY DEF OpenHolds, Held, Refs, Of, Resolves

LEMMA RestartLinesAre ==
  ASSUME NEW f \in Seq(Line), Good(f), NEW n \in Nat
  PROVE  \E g \in Seq(Line) :
           /\ g = RestartLines(f, n)
           /\ Books(g, n)
           /\ \A i \in 1..Len(g) :
                /\ g[i].kind = "uncertain" /\ g[i].settled = 0
                /\ \E r \in Range(f) : r.kind = "reserved" /\ r.seq = g[i].ref /\ g[i].row = r.base
                /\ \A y \in Range(f) : Resolves(y) => y.ref # g[i].ref
           /\ \A r \in OpenHolds(f) : \E i \in 1..Len(g) : g[i].ref = r.seq
<1> DEFINE S == {r.seq : r \in OpenHolds(f)}
           open == InOrder(S)
           g == RestartLines(f, n)
           m == Cardinality(S)
<1>1. Range(f) \subseteq Line
  BY RangeIs
<1>2. S \in SUBSET Nat /\ \A s \in S : s <= LastSeq(f)
  <2> SUFFICES ASSUME NEW s \in S PROVE s \in Nat /\ s <= LastSeq(f)
    OBVIOUS
  <2>1. PICK r \in Range(f) : r.seq = s
    BY OpenHoldIs
  <2> QED
    BY <1>1, <2>1, LineFacts, LastSeqIs
<1>3. IsFiniteSet(S)
  BY <1>2, LastSeqIs, FS_BoundedSetOfNaturals
<1>4. \A s \in S : /\ \E r \in Range(f) : r.kind = "reserved" /\ r.seq = s
                   /\ \A y \in Range(f) : Resolves(y) => y.ref # s
  BY OpenHoldIs
<1>5. g = [i \in DOMAIN open |-> Resolution(n + i, open[i], Uncertain, TRUE, HeldAs(f, open[i]).base)]
  BY DEF RestartLines
<1> HIDE DEF S
<1>6. /\ m \in Nat /\ DOMAIN open = 1..m
      /\ \A i \in 1..m : open[i] \in S
      /\ \A i, j \in 1..m : open[i] = open[j] => i = j
  BY <1>2, <1>3, InOrderIs
<1> HIDE DEF open, g, m
<1>7. ASSUME NEW i \in 1..m
      PROVE  /\ g[i] \in Line /\ Resolves(g[i]) /\ g[i].seq = n + i
             /\ g[i].ref = open[i] /\ g[i].settled = 0 /\ g[i].kind = "uncertain"
             /\ \E r \in Range(f) : r.kind = "reserved" /\ r.seq = open[i] /\ g[i].row = r.base
  <2>1. PICK r \in Range(f) : r.kind = "reserved" /\ r.seq = open[i]
    BY <1>4, <1>6
  <2>2. HeldAs(f, open[i]) = r
    BY <2>1, HeldIs
  <2>3. r \in Line /\ r.base \in BOOLEAN /\ open[i] \in Nat
    BY <1>1, <1>2, <1>6, <2>1, LineFacts
  <2>4. g[i] = Resolution(n + i, open[i], Uncertain, TRUE, r.base)
    BY <1>5, <1>6, <2>2
  <2>5. n + i \in Nat
    BY <1>6
  <2>6. g[i] \in ResolutionLine
    BY <2>3, <2>4, <2>5 DEF ResolutionLine, Resolution, Uncertain, Resolutions
  <2>7. /\ g[i].kind = "uncertain" /\ g[i].seq = n + i /\ g[i].ref = open[i]
        /\ g[i].settled = 0 /\ g[i].row = r.base
    BY <2>4 DEF Resolution, Uncertain
  <2>8. g[i] \in Line /\ Resolves(g[i])
    BY <2>6, <2>7 DEF Line, Resolves, Resolutions
  <2> QED
    BY <2>1, <2>7, <2>8
<1>8. g \in Seq(Line) /\ Len(g) = m
  <2>1. g \in [1..m -> Line]
    BY <1>5, <1>6, <1>7
  <2>2. g \in Seq(Line)
    BY <1>6, <2>1, SeqDef
  <2>3. DOMAIN g = 1..m
    BY <2>1
  <2> QED
    BY <1>6, <2>2, <2>3, LenProperties
<1>9. Books(g, n)
  <2>1. \A i \in 1..Len(g) : Resolves(g[i]) /\ g[i].seq = n + i
    BY <1>7, <1>8
  <2>2. \A i \in 1..m : g[i].ref = open[i]
    BY <1>7
  <2>3. \A i, j \in 1..m : g[i].ref = g[j].ref => i = j
    BY <1>6, <2>2
  <2> QED
    BY <1>8, <2>1, <2>3 DEF Books
<1>10. \A i \in 1..Len(g) :
         /\ g[i].kind = "uncertain" /\ g[i].settled = 0
         /\ \E r \in Range(f) : r.kind = "reserved" /\ r.seq = g[i].ref /\ g[i].row = r.base
         /\ \A y \in Range(f) : Resolves(y) => y.ref # g[i].ref
  BY <1>4, <1>6, <1>7, <1>8
<1>11. \A r \in OpenHolds(f) : \E i \in 1..Len(g) : g[i].ref = r.seq
  <2> TAKE r \in OpenHolds(f)
  <2>1. r.seq \in S
    BY DEF S
  <2>2. PICK i \in 1..m : open[i] = r.seq
    BY <1>2, <1>3, <2>1, InOrderAll DEF open, m
  <2> QED
    BY <1>7, <1>8, <2>2
<1> QED
  BY <1>8, <1>9, <1>10, <1>11 DEF g

LEMMA OpenBatchIs ==
  ASSUME IInv, ~up
  PROVE  \E b \in Seq(Line) :
           /\ b = OpenBatch(file, opens + 1)
           /\ Good(file \o b)
           /\ \E x \in Range(b) : x.kind = "opened" /\ x.epoch = opens + 1
           /\ \A x \in Range(b) : \/ x.kind = "opened" /\ x.epoch = opens + 1
                                  \/ x.kind = "uncertain" /\ x.settled = 0
           /\ \A r \in OpenHolds(file) : \E x \in Range(b) : Resolves(x) /\ x.ref = r.seq
<1> USE DEF IInv
<1>1. file \in Seq(Line) /\ Good(file) /\ OnDisk = Range(file) /\ OnDisk \subseteq Line
  BY FileGood, Parts DEF OnDisk
<1> DEFINE n == LastSeq(file) + 1
<1>2. n \in Nat /\ opens + 1 \in Nat /\ \A y \in OnDisk : y.seq \in Nat /\ y.seq < n
  <2>1. LastSeq(file) \in Nat /\ \A y \in OnDisk : y.seq <= LastSeq(file)
    BY <1>1, LastSeqIs
  <2>2. \A y \in OnDisk : y.seq \in Nat
    BY <1>1, LineFacts
  <2> QED
    BY <2>1, <2>2 DEF TypeOK
<1>3. PICK o : o = Opened(n, opens + 1)
  OBVIOUS
<1>4. /\ o \in Line /\ o.kind = "opened" /\ o.seq = n /\ o.epoch = opens + 1 /\ ~Resolves(o)
  <2>1. o \in OpenedLine /\ o.kind = "opened" /\ o.seq = n /\ o.epoch = opens + 1
    BY <1>2, <1>3 DEF Opened, OpenedLine
  <2> QED
    BY <2>1, Kinds DEF Line, Resolves
<1> HIDE DEF n
<1>5. PICK g \in Seq(Line) :
        /\ g = RestartLines(file, n)
        /\ Books(g, n)
        /\ \A i \in 1..Len(g) :
             /\ g[i].kind = "uncertain" /\ g[i].settled = 0
             /\ \E r \in OnDisk : r.kind = "reserved" /\ r.seq = g[i].ref /\ g[i].row = r.base
             /\ \A y \in OnDisk : Resolves(y) => y.ref # g[i].ref
        /\ \A r \in OpenHolds(file) : \E i \in 1..Len(g) : g[i].ref = r.seq
  <2>1. OnDisk = Range(file)
    BY <1>1
  <2> QED
    BY <1>1, <1>2, RestartLinesAre, <2>1
<1> DEFINE h == <<o>>
           b == h \o g
<1>6. /\ h \in Seq(Line) /\ Len(h) = 1 /\ Range(h) = {o} /\ h[1] = o /\ Before(h, 1) = {}
  BY <1>4, OneLine
<1> HIDE DEF h
<1>7. b \in Seq(Line) /\ Range(b) = {o} \cup Range(g)
  BY <1>6, BeforeConcat
<1>8. b = OpenBatch(file, opens + 1)
  BY <1>3, <1>5 DEF OpenBatch, h, n
<1>9. Fits(OnDisk, o)
  <2>1. \A y \in OnDisk : y.kind = "opened" => y.epoch < opens + 1
    <3> TAKE y \in OnDisk
    <3>1. y.kind = "opened" => y.epoch \in Nat /\ y.epoch <= opens
      BY <1>1, LineFacts DEF FileInv
    <3> QED
      BY <3>1 DEF TypeOK
  <2> QED
    BY <1>2, <1>4, <2>1 DEF Fits
<1>10. PICK f \in Seq(Line) : f = file \o h /\ Good(f) /\ Range(f) = OnDisk \cup {o}
  <2>1. Fits(OnDisk \cup {}, o)
    BY <1>9
  <2>2. \A i \in 1..Len(h) : Fits(OnDisk \cup Before(h, i), h[i])
    <3>1. \A i \in 1..Len(h) : i = 1
      BY <1>6
    <3>2. Fits(OnDisk \cup Before(h, 1), h[1])
      BY <1>6, <2>1
    <3> QED
      BY <3>1, <3>2
  <2>3. Good(file \o h)
    BY <1>1, <1>6, <2>2, GoodConcat
  <2>4. file \o h \in Seq(Line) /\ Range(file \o h) = OnDisk \cup {o}
    BY <1>1, <1>6, BeforeConcat
  <2> QED
    BY <2>3, <2>4
<1>11. \A i \in 1..Len(g) : Fits(OnDisk \cup {o}, g[i])
  <2> TAKE i \in 1..Len(g)
  <2>1. PICK x : x = g[i]
    OBVIOUS
  <2>2. /\ x.seq = n + i /\ Resolves(x) /\ x.kind = "uncertain" /\ x.settled = 0
        /\ \A y \in OnDisk : Resolves(y) => y.ref # x.ref
    BY <1>5, <2>1 DEF Books
  <2>3. PICK r \in OnDisk : r.kind = "reserved" /\ r.seq = x.ref /\ x.row = r.base
    BY <1>5, <2>1
  <2>4. x.settled <= r.amount
    <3>1. r.amount \in Nat
      BY <1>1, <2>3, LineFacts
    <3> QED
      BY <2>2, <3>1
  <2>5. \A y \in OnDisk \cup {o} : y.seq < x.seq
    <3>1. n < n + i
      BY <1>2
    <3> QED
      BY <1>2, <1>4, <2>2, <3>1
  <2>6. Fits(OnDisk \cup {o}, x)
    BY <1>4, <2>2, <2>3, <2>4, <2>5 DEF Fits
  <2> QED
    BY <2>1, <2>6
<1>12. Good(f \o g)
  <2>1. \A i \in 1..Len(g) : Fits(Range(f) \cup Before(g, i), g[i])
    <3>1. n \in Int
      BY <1>2
    <3> QED
      BY <1>5, <1>10, <1>11, <3>1, BooksFit
  <2> QED
    BY <1>10, <2>1, GoodConcat
<1>13. f \o g = file \o b
  BY <1>1, <1>5, <1>6, <1>10, ConcatAssociative
<1>14. \A x \in Range(g) : x.kind = "uncertain" /\ x.settled = 0
  BY <1>5, RangeIs
<1>15. \A r \in OpenHolds(file) : \E x \in Range(b) : Resolves(x) /\ x.ref = r.seq
  <2> TAKE r \in OpenHolds(file)
  <2>1. PICK i \in 1..Len(g) : g[i].ref = r.seq
    BY <1>5
  <2>2. g[i] \in Range(g) /\ Resolves(g[i])
    BY <1>5, RangeIs DEF Books
  <2> QED
    BY <1>7, <2>1, <2>2
<1> QED
  BY <1>4, <1>7, <1>8, <1>12, <1>13, <1>14, <1>15

LEMMA OpenDiesStep ==
  ASSUME IInv, OpenDies
  PROVE  IInv'
<1> USE DEF IInv
<1>1. /\ ~up /\ opens' = opens + 1
      /\ UNCHANGED <<up, healthy, closing, stop, nextSeq, hold, queue, inFlight, pending, outbox,
                     known, ackDue, posts, writer, sender, sink, spent>>
  BY DEF OpenDies, ledgerVars, history
<1>2. PICK b \in Seq(Line) :
           /\ b = OpenBatch(file, opens + 1)
           /\ Good(file \o b)
           /\ \A x \in Range(b) : \/ x.kind = "opened" /\ x.epoch = opens + 1
                                  \/ x.kind = "uncertain"
  BY <1>1, OpenBatchIs
<1>3. PICK k \in 0..Len(b) : file' = file \o SubSeq(b, 1, k)
  BY <1>2 DEF OpenDies
<1>4. PICK g, h \in Seq(Line) : g = SubSeq(b, 1, k) /\ b = g \o h
  BY Split
<1>5. file \in Seq(Line) /\ OnDisk = Range(file)
  BY FileGood DEF OnDisk
<1>6. /\ file' = file \o g /\ file' \in Seq(Line) /\ OnDisk' = OnDisk \cup Range(g)
      /\ Range(g) \subseteq Range(b)
  <2>1. file' = file \o g
    BY <1>3, <1>4
  <2>2. file \o g \in Seq(Line) /\ Range(file \o g) = Range(file) \cup Range(g)
    BY <1>5, BeforeConcat
  <2>3. Range(g \o h) = Range(g) \cup Range(h)
    BY BeforeConcat
  <2> QED
    BY <1>4, <1>5, <2>1, <2>2, <2>3 DEF OnDisk
<1>7. Good(file')
  <2>1. (file \o g) \o h = file \o b
    <3>1. (file \o g) \o h = file \o (g \o h)
      BY <1>5, ConcatAssociative
    <3> QED
      BY <1>4, <3>1
  <2>2. PICK f \in Seq(Line) : f = file \o g
    BY <1>6
  <2>3. Good(f \o h)
    BY <1>2, <2>1, <2>2
  <2> QED
    BY <1>6, <2>2, <2>3, GoodConcat
<1>8. opens' \in Nat /\ opens <= opens'
  BY <1>1 DEF TypeOK
<1>9. \A x \in OnDisk' : \/ x \in OnDisk \cup OnTheWay
                         \/ x.kind = "opened" /\ x.epoch <= opens'
                         \/ x.kind = "uncertain"
  <2>1. opens + 1 <= opens'
    BY <1>1, <1>8
  <2> QED
    BY <1>2, <1>6, <2>1
<1>10. /\ hold = <<>> /\ queue = <<>> /\ posts = <<>> /\ inFlight = {} /\ pending = {}
       /\ ackDue = {} /\ writer = Idle /\ ~closing /\ ~stop /\ known = {} /\ outbox = {}
  BY <1>1 DEF Down
<1>11. nextSeq' \in Nat /\ sender'.triples \subseteq Triple
       /\ {healthy', closing', stop', up'} \subseteq BOOLEAN
  BY <1>1 DEF TypeOK
<1> QED
  BY <1>1, <1>6, <1>7, <1>8, <1>9, <1>10, <1>11, FreshStep

LEMMA OpenStep ==
  ASSUME IInv, Open
  PROVE  IInv'
<1> USE DEF IInv
<1>1. ~up
  BY DEF Open
<1>2. PICK b \in Seq(Line) :
           /\ b = OpenBatch(file, opens + 1)
           /\ Good(file \o b)
           /\ \E x \in Range(b) : x.kind = "opened" /\ x.epoch = opens + 1
           /\ \A x \in Range(b) : \/ x.kind = "opened" /\ x.epoch = opens + 1
                                  \/ x.kind = "uncertain"
  BY <1>1, OpenBatchIs
<1>3. PICK f : f = file \o b
  OBVIOUS
<1>4. /\ file' = f /\ opens' = opens + 1 /\ up' = TRUE
      /\ healthy' = TRUE /\ closing' = FALSE /\ stop' = FALSE
      /\ nextSeq' = LastSeq(f) + 1 /\ hold' = <<>>
      /\ outbox' = Outbox(f) /\ known' = Known(f)
      /\ UNCHANGED <<queue, inFlight, pending, ackDue, posts, writer, sender, sink, spent>>
  BY <1>2, <1>3 DEF Open, history
<1>5. file \in Seq(Line) /\ OnDisk = Range(file)
  BY FileGood DEF OnDisk
<1>6. f \in Seq(Line) /\ Good(f) /\ Range(f) = OnDisk \cup Range(b) /\ Range(f) \subseteq Line
  <2>1. f \in Seq(Line) /\ Range(f) = OnDisk \cup Range(b)
    BY <1>3, <1>5, BeforeConcat
  <2> QED
    BY <1>2, <1>3, <2>1, RangeIs
<1>7. OnDisk' = Range(f)
  BY <1>4 DEF OnDisk
<1>8. opens' \in Nat /\ opens <= opens' /\ opens + 1 <= opens'
  BY <1>4 DEF TypeOK
<1>9. \A x \in OnDisk' : \/ x \in OnDisk \cup OnTheWay
                         \/ x.kind = "opened" /\ x.epoch <= opens'
                         \/ x.kind = "uncertain"
  BY <1>2, <1>6, <1>7, <1>8
<1>10. /\ queue = <<>> /\ posts = <<>> /\ inFlight = {} /\ pending = {}
       /\ ackDue = {} /\ writer = Idle
  BY <1>1 DEF Down
<1>11. nextSeq' \in Nat /\ \A x \in OnDisk' : x.seq < nextSeq'
  <2>1. LastSeq(f) \in Nat /\ \A y \in Range(f) : y.seq <= LastSeq(f) /\ y.seq \in Nat
    BY <1>6, LastSeqIs, LineFacts
  <2> QED
    BY <1>4, <1>7, <2>1
<1>12. \A t : t \in Known(f) <=> Named(Range(f), t)
  <2> TAKE t
  <2> QED
    BY <1>6, KnownIs
<1>13. known' \subseteq Triple
  <2> SUFFICES ASSUME NEW t, Named(Range(f), t) PROVE t \in Triple
    BY <1>4, <1>12
  <2>1. \A x \in Range(f) : x.kind \in {"reserved", "refused"} => <<x.epoch, x.seq>> \in Triple
    <3> TAKE x \in Range(f)
    <3> QED
      BY <1>6, LineFacts DEF Triple
  <2> QED
    BY <2>1 DEF Named
<1>14. outbox' \subseteq known' /\ known' \ outbox' \subseteq sink
  <2>1. \A x \in Range(f) : x.kind = "lineage-acked" => x.refs \subseteq sink
    BY <1>2, <1>6 DEF FileInv
  <2> QED
    BY <1>4, <2>1 DEF Outbox, Of
<1>15. \E x \in OnDisk' : x.kind = "opened" /\ x.epoch = opens'
  BY <1>2, <1>4, <1>6, <1>7
<1>16. sender'.triples \subseteq Triple
  BY <1>4 DEF TypeOK
<1>17. \A t \in known' : Named(OnDisk', t)
  BY <1>4, <1>7, <1>12
<1>18. file' \in Seq(Line) /\ Good(file') /\ OnDisk \subseteq OnDisk'
  BY <1>4, <1>6, <1>7
<1> QED
  BY <1>4, <1>8, <1>9, <1>10, <1>11, <1>13, <1>14, <1>15, <1>16, <1>17, <1>18, FreshStep

-----------------------------------------------------------------------------
(* All together.                                                           *)

LEMMA InitStep ==
  ASSUME Init
  PROVE  IInv
<1> USE DEF Init
<1>1. /\ writer.pc = "idle" /\ writer.batch = <<>> /\ ~writer.dead
      /\ writer \in [pc : {"idle", "busy", "ended"}, batch : Seq(Line),
                     closing : BOOLEAN, dead : BOOLEAN]
  <2>1. <<>> \in Seq(Line)
    BY EmptyIs
  <2> QED
    BY <2>1 DEF Idle
<1>2. OnDisk = {} /\ OnTheWay = {} /\ Lines(queue) = <<>> /\ Close \notin Range(queue)
  BY <1>1, EmptyIs DEF OnDisk, OnTheWay
<1>3. DOMAIN hold = {} /\ DOMAIN spent = {} /\ Unended = {}
  <2>1. DOMAIN hold = {} /\ DOMAIN spent = {}
    OBVIOUS
  <2> QED
    BY <2>1 DEF Unended
<1>4. TypeOK
  <2>1. /\ file \in Seq(Line) /\ queue \in Seq(Line \cup {Close}) /\ posts \in Seq(Post)
        /\ Lines(queue) \in Seq(Line)
    BY <1>2, EmptySeq, EmptyIs
  <2>2. sender.triples \subseteq Triple
    BY DEF NoEnvelope
  <2> QED
    BY <1>1, <1>3, <2>1, <2>2 DEF TypeOK
<1>5. Down
  BY DEF Down
<1>6. OwnInv
  <2>1. Len(posts) = 0
    BY EmptyIs
  <2> QED
    BY <1>2, <2>1 DEF OwnInv
<1>7. FileInv
  <2>1. file \o writer.batch = <<>> /\ (file \o writer.batch) \o Lines(queue) = <<>>
    BY <1>1, <1>2, EmptyIs
  <2>2. Good(<<>>)
    BY EmptyIs DEF Good
  <2> QED
    BY <1>1, <1>2, <2>1, <2>2 DEF FileInv
<1>8. HoldInv
  BY <1>2, <1>3 DEF HoldInv
<1>9. RowsInv
  BY DEF RowsInv
<1>10. SpentInv
  BY <1>3 DEF SpentInv
<1> QED
  BY <1>4, <1>5, <1>6, <1>7, <1>8, <1>9, <1>10 DEF IInv

LEMMA NextStep ==
  ASSUME IInv, [Next]_vars
  PROVE  IInv'
<1>1. CASE Open
  BY <1>1, OpenStep
<1>2. CASE OpenDies
  BY <1>2, OpenDiesStep
<1>3. CASE Dies
  BY <1>3, DiesStep
<1>4. CASE Admit
  BY <1>4, AdmitStep
<1>5. CASE RefusedCloses
  BY <1>5, RefusedClosesStep
<1>6. ASSUME NEW s \in DOMAIN hold, Exchange(s)
      PROVE  IInv'
  <2>1. CASE Ends(s)
    BY <2>1, EndsStep
  <2>2. CASE SendHead(s)
    BY <2>2, SendHeadStep
  <2>3. CASE Settle(s)
    BY <2>3, SettleStep
  <2>4. CASE WaitStalls(s)
    BY <2>4, WaitStallsStep
  <2>5. CASE OwnerFails(s)
    BY <2>5, OwnerFailsStep
  <2> QED
    BY <1>6, <2>1, <2>2, <2>3, <2>4, <2>5 DEF Exchange
<1>7. CASE Posted
  BY <1>7, PostedDurableStep, PostedFaultStep DEF Posted
<1>8. CASE Writer
  BY <1>8, WriterTakesStep, WriterFlushesStep, WriterFailsStep DEF Writer
<1>9. CASE Sender
  BY <1>9, SenderSendsStep, SenderDropsStep, SenderAcksStep, AckDoneStep DEF Sender
<1>10. CASE Closes
  BY <1>10, ClosesStep
<1>11. CASE CloseTimesOut
  BY <1>11, CloseTimesOutStep
<1>12. CASE UNCHANGED vars
  BY <1>12, StutterStep
<1> QED
  BY <1>1, <1>2, <1>3, <1>4, <1>5, <1>6, <1>7, <1>8, <1>9, <1>10, <1>11, <1>12 DEF Next

LEMMA Invariance == Spec => []IInv
<1>1. Init => IInv
  BY InitStep
<1>2. IInv /\ [Next]_vars => IInv'
  BY NextStep
<1> QED
  BY <1>1, <1>2, PTL DEF Spec

-----------------------------------------------------------------------------
(* The theorems.                                                           *)

\* The next open never refuses the file (Ledger.open raises on a line that _replay_line
\* rejects): whatever a crash leaves of the writer's batch, seqs grow, every hold and row is of
\* the epoch last opened, a hold is resolved once and for no more than it reserved, and an
\* acknowledgement names rows that are there.
THEOREM AlwaysReplays == Spec => []NeverCorrupt
<1>1. IInv => NeverCorrupt
  BY NeverCorruptFollows DEF IInv
<1> QED
  BY <1>1, Invariance, PTL

\* A ticketed hold that is resolved has its lineage row in the file, and a row leaves the outbox,
\* that of the process (_ack_done) or the one the next open replays, only when CONTROL appended
\* it: a crash, a fault of the writer or a lost answer delays a row and never loses one.
THEOREM RowsAreKept == Spec => []RowsKept
<1>1. IInv => RowsKept
  BY RowsFollow DEF IInv
<1> QED
  BY <1>1, Invariance, PTL

\* What an exchange spent upstream is charged after a crash at any step, up to what it reserved:
\* a head is sent only on a durable reservation, and what resolves a hold that was sent books it
\* whole or settles it at no less than its cost.
THEOREM SpendingIsCovered == Spec => []SpendingCovered
<1>1. IInv => SpendingCovered
  BY SpendingFollows DEF IInv
<1> QED
  BY <1>1, Invariance, PTL

-----------------------------------------------------------------------------
(* The outbox: how many rows there are or may come to be.                  *)

\* The triples of the lines that have a row or owe one.
RowsOf(F) ==
  {<<x.epoch, x.seq>> : x \in {y \in F : y.kind = "refused" \/ (y.kind = "reserved" /\ y.base)}}
AckedBy(F) == UNION {x.refs : x \in {y \in F : y.kind = "lineage-acked"}}

\* What is acknowledged for good, and what is not.
Done == IF up THEN known \ outbox ELSE AckedBy(OnDisk)
Debt == RowsOf(OnDisk \cup OnTheWay) \ Done

\* Ticketed holds stranded alone.
Forgotten == {s \in DOMAIN hold : hold[s].state = "stranded" /\ hold[s].base}

DebtInv ==
  /\ unowed \in Nat
  /\ Cardinality(Debt) <= OutboxMax + unowed
  /\ known \ outbox \subseteq AckedBy(OnDisk)
  /\ \A a \in ackDue : a.ok => a.refs \subseteq AckedBy(OnDisk)

\* A pending line's row is new.
PendInv ==
  /\ IsFiniteSet(pending)
  /\ \A x \in pending :
       /\ HasRow(x) => TripleOf(x) \notin known
       /\ Resolves(x) => x.ref \notin Unended
       /\ x.kind = "refused" => x.seq \notin DOMAIN hold
       /\ \A y \in pending : HasRow(x) /\ HasRow(y) /\ TripleOf(x) = TripleOf(y) => x = y
  /\ \A s \in Unended : <<opens, s>> \notin known

\* While holds are admitted, outbox_committed counts each row.
Owed(t) ==
  \/ t \in known
  \/ \E x \in pending : HasRow(x) /\ TripleOf(x) = t
  \/ \E s \in Unended \cup Forgotten : hold[s].base /\ t = <<opens, s>>

OwedInv ==
  Open4Work =>
    /\ Cardinality(Forgotten) <= unowed
    /\ \A t \in RowsOf(OnDisk \cup OnTheWay) : Owed(t)

OutInv == DebtInv /\ PendInv /\ OwedInv

LEMMA ImageIs ==
  ASSUME NEW S, IsFiniteSet(S), NEW T, NEW f, DOMAIN f = S,
         \A t \in T : \E x \in S : f[x] = t
  PROVE  IsFiniteSet(T) /\ Cardinality(T) <= Cardinality(S)
         /\ Cardinality(T) \in Nat /\ Cardinality(S) \in Nat
<1> DEFINE I == {f[x] : x \in S}
           g == [x \in S |-> f[x]]
<1>1. g \in Surjection(S, I)
  BY DEF Surjection
<1>2. IsFiniteSet(I) /\ Cardinality(I) <= Cardinality(S)
  BY <1>1, FS_Surjection
<1>3. T \in SUBSET I
  OBVIOUS
<1>4. IsFiniteSet(T) /\ Cardinality(T) <= Cardinality(I)
  BY <1>2, <1>3, FS_Subset
<1>5. Cardinality(T) \in Nat /\ Cardinality(I) \in Nat /\ Cardinality(S) \in Nat
  BY <1>2, <1>4, FS_CardinalityType
<1> QED
  BY <1>2, <1>4, <1>5

LEMMA OneToOne ==
  ASSUME NEW S, IsFiniteSet(S), NEW T, NEW f \in [S -> T],
         \A x, y \in S : f[x] = f[y] => x = y, IsFiniteSet(T)
  PROVE  Cardinality(S) <= Cardinality(T) /\ Cardinality(S) \in Nat /\ Cardinality(T) \in Nat
<1>1. f \in Injection(S, T)
  BY DEF Injection, IsInjective
<1> QED
  BY <1>1, FS_Injection, FS_CardinalityType

LEMMA RangeFinite ==
  ASSUME NEW S, NEW f \in Seq(S)
  PROVE  IsFiniteSet(Range(f))
<1>1. Len(f) \in Nat /\ Range(f) = {f[i] : i \in 1..Len(f)} /\ DOMAIN f = 1..Len(f)
  BY RangeIs
<1>2. IsFiniteSet(1..Len(f))
  BY <1>1, FS_Interval
<1>3. \A t \in Range(f) : \E i \in 1..Len(f) : f[i] = t
  BY <1>1
<1> QED
  BY <1>1, <1>2, <1>3, ImageIs

LEMMA RowsFinite ==
  ASSUME TypeOK
  PROVE  /\ IsFiniteSet(OnDisk \cup OnTheWay)
         /\ IsFiniteSet(RowsOf(OnDisk \cup OnTheWay))
         /\ IsFiniteSet(Debt) /\ Cardinality(Debt) \in Nat
<1> DEFINE F == OnDisk \cup OnTheWay
           G == {y \in F : y.kind = "refused" \/ (y.kind = "reserved" /\ y.base)}
           f == [x \in G |-> <<x.epoch, x.seq>>]
<1>1. IsFiniteSet(F)
  <2>1. file \in Seq(Line) /\ writer.batch \in Seq(Line) /\ Lines(queue) \in Seq(Line)
    BY Parts
  <2>2. /\ IsFiniteSet(Range(file)) /\ IsFiniteSet(Range(writer.batch))
        /\ IsFiniteSet(Range(Lines(queue)))
    BY <2>1, RangeFinite
  <2> QED
    BY <2>2, FS_Union DEF OnDisk, OnTheWay
<1>2. IsFiniteSet(G)
  <2>1. G \in SUBSET F
    OBVIOUS
  <2> HIDE DEF F, G
  <2> QED
    BY <1>1, <2>1, FS_Subset
<1>3. DOMAIN f = G /\ \A t \in RowsOf(F) : \E x \in G : f[x] = t
  BY DEF RowsOf
<1>4. IsFiniteSet(RowsOf(F))
  <2> HIDE DEF f, G, F
  <2> QED
    BY <1>2, <1>3, ImageIs
<1>5. Debt \in SUBSET RowsOf(F)
  BY DEF Debt
<1> HIDE DEF F
<1>6. IsFiniteSet(Debt)
  BY <1>4, <1>5, FS_Subset
<1>7. Cardinality(Debt) \in Nat
  BY <1>6, FS_CardinalityType
<1> QED
  BY <1>1, <1>4, <1>6, <1>7 DEF F

\* A row of a file that replays is of a line that may have one.
LEMMA RowNamed ==
  ASSUME NEW f \in Seq(Line), Good(f), NEW t, Named(Range(f), t)
  PROVE  t \in RowsOf(Range(f))
<1> DEFINE R == Range(f)
<1>1. CASE \E x \in R : x.kind = "refused" /\ t = <<x.epoch, x.seq>>
  BY <1>1 DEF RowsOf
<1>2. CASE \E x \in R : /\ Resolves(x) /\ x.row
                        /\ \E r \in R : /\ r.kind = "reserved" /\ r.seq = x.ref
                                        /\ t = <<r.epoch, r.seq>>
  <2>1. PICK x \in R : /\ Resolves(x) /\ x.row
                       /\ \E r \in R : /\ r.kind = "reserved" /\ r.seq = x.ref
                                       /\ t = <<r.epoch, r.seq>>
    BY <1>2
  <2>2. PICK r \in R : r.kind = "reserved" /\ r.seq = x.ref /\ t = <<r.epoch, r.seq>>
    BY <2>1
  <2>3. PICK q \in R : q.kind = "reserved" /\ q.seq = x.ref /\ x.row = q.base
    BY <2>1, ResolvesOnce
  <2>4. q = r
    BY <2>2, <2>3, SeqUnique
  <2> QED
    BY <2>1, <2>2, <2>3, <2>4 DEF RowsOf
<1> QED
  BY <1>1, <1>2 DEF Named

LEMMA OutboxFollows ==
  ASSUME IInv, OutInv
  PROVE  OutboxBounded
<1> USE DEF IInv, OutInv
<1>0. /\ unowed \in Nat /\ OutboxMax \in Nat /\ Cardinality(Debt) <= OutboxMax + unowed
      /\ IsFiniteSet(Debt) /\ Cardinality(Debt) \in Nat
  BY RowsFinite, LedgerAssumption DEF DebtInv
<1>1. Cardinality(outbox) <= OutboxMax + unowed
  <2>1. CASE up
    <3>1. outbox \in SUBSET Debt
      <4> SUFFICES ASSUME NEW t \in outbox PROVE t \in Debt
        OBVIOUS
      <4>1. t \in known /\ Named(OnDisk, t)
        BY DEF RowsInv
      <4>2. t \in RowsOf(OnDisk)
        BY <4>1, FileGood, RowNamed DEF OnDisk
      <4>3. t \in RowsOf(OnDisk \cup OnTheWay)
        BY <4>2 DEF RowsOf
      <4> QED
        BY <2>1, <4>3 DEF Debt, Done
    <3>2. Cardinality(outbox) <= Cardinality(Debt) /\ Cardinality(outbox) \in Nat
      BY <1>0, <3>1, FS_Subset, FS_CardinalityType
    <3> QED
      BY <1>0, <3>2
  <2>2. CASE ~up
    <3>1. outbox = {}
      BY <2>2 DEF Down
    <3> QED
      BY <1>0, <3>1, FS_EmptySet
  <2> QED
    BY <2>1, <2>2
<1>2. ASSUME NEW f \in Survivors
      PROVE  Cardinality(Outbox(f)) + Cardinality({r \in OpenHolds(f) : r.base})
               <= OutboxMax + unowed
  <2> DEFINE R == Range(f)
             H == {r \in OpenHolds(f) : r.base}
             g == [r \in H |-> <<r.epoch, r.seq>>]
             T == {g[r] : r \in H}
             O == Outbox(f)
  <2>1. /\ f \in Seq(Line) /\ Good(f) /\ OnDisk \subseteq R
        /\ R \subseteq OnDisk \cup OnTheWay /\ R \subseteq Line
    BY SurvivorIs DEF OnTheWay
  <2>2. H \in SUBSET R
    BY DEF OpenHolds, Held, Of
  <2>3. \A r \in H : /\ r \in R /\ r.kind = "reserved" /\ r.base
                     /\ \A y \in R : Resolves(y) => y.ref # r.seq
    <3> TAKE r \in H
    <3> QED
      BY DEF OpenHolds, Held, Refs, Of, Resolves
  <2>4. AckedBy(OnDisk) \subseteq AckedBy(R)
    BY <2>1 DEF AckedBy
  <2>5. Done \subseteq AckedBy(R)
    BY <2>4 DEF Done, DebtInv
  <2>6. O \subseteq RowsOf(R) /\ O \cap AckedBy(R) = {} /\ O \subseteq Known(f)
    <3>1. \A t \in Known(f) : t \in RowsOf(R)
      <4> TAKE t \in Known(f)
      <4> QED
        BY <2>1, KnownIs, RowNamed
    <3> QED
      BY <3>1 DEF Outbox, Of, AckedBy
  <2>7. \A r \in H : g[r] \in RowsOf(R) /\ g[r] \notin Known(f)
    <3> TAKE r \in H
    <3>1. g[r] \in RowsOf(R)
      BY <2>3 DEF RowsOf
    <3>2. ~Named(R, g[r])
      <4> SUFFICES ASSUME Named(R, g[r]) PROVE FALSE
        OBVIOUS
      <4>1. ASSUME NEW x \in R, x.kind = "refused", g[r] = <<x.epoch, x.seq>> PROVE FALSE
        <5>1. x.seq = r.seq
          BY <4>1
        <5>2. x = r
          BY <2>1, <2>3, <4>1, <5>1, SeqUnique
        <5> QED
          BY <2>3, <4>1, <5>2
      <4>2. ASSUME NEW x \in R, Resolves(x),
                   NEW q \in R, q.kind = "reserved", q.seq = x.ref, g[r] = <<q.epoch, q.seq>>
            PROVE  FALSE
        <5>1. q.seq = r.seq
          BY <4>2
        <5> QED
          BY <2>3, <4>2, <5>1
      <4> QED
        BY <4>1, <4>2 DEF Named
    <3> QED
      BY <2>1, <3>1, <3>2, KnownIs
  <2>8. \A r \in H : g[r] \notin AckedBy(R)
    <3> SUFFICES ASSUME NEW r \in H, NEW x \in R, x.kind = "lineage-acked", g[r] \in x.refs
                 PROVE  FALSE
      BY DEF AckedBy
    <3>1. PICK F \in SUBSET R : Fits(F, x)
      BY <2>1, FitsAt
    <3>2. Named(R, g[r])
      <4>1. Named(F, g[r])
        BY <3>1 DEF Fits
      <4> HIDE DEF g, R
      <4> QED
        BY <4>1, NamedMore
    <3> QED
      BY <2>1, <2>7, <3>2, KnownIs
  <2>9. O \subseteq Debt /\ T \subseteq Debt /\ O \cap T = {}
    <3>1. RowsOf(R) \subseteq RowsOf(OnDisk \cup OnTheWay)
      BY <2>1 DEF RowsOf
    <3> HIDE DEF R, O, g, H
    <3> QED
      BY <2>5, <2>6, <2>7, <2>8, <3>1 DEF Debt
  <2>10. \A p, q \in H : g[p] = g[q] => p = q
    <3> TAKE p, q \in H
    <3>1. g[p] = g[q] => p.seq = q.seq
      OBVIOUS
    <3> QED
      BY <2>1, <2>3, <3>1, SeqUnique
  <2> DEFINE n == Cardinality(O)
             m == Cardinality(T)
             k == Cardinality(H)
  <2>11. IsFiniteSet(H) /\ g \in [H -> T]
    <3>1. IsFiniteSet(R)
      BY <2>1, RangeFinite
    <3>2. IsFiniteSet(H)
      <4> HIDE DEF H, R
      <4> QED
        BY <2>2, <3>1, FS_Subset
    <3> QED
      BY <3>2
  <2> HIDE DEF O, T, H, g
  <2>12. IsFiniteSet(O) /\ IsFiniteSet(T)
    BY <1>0, <2>9, FS_Subset
  <2>13. k <= m /\ k \in Nat /\ m \in Nat
    BY <2>10, <2>11, <2>12, OneToOne
  <2>14. Cardinality(O \cup T) = n + m /\ n \in Nat
    <3>1. Cardinality(O \cup T) = n + m - Cardinality(O \cap T)
      BY <2>12, FS_Union
    <3>2. Cardinality(O \cap T) = 0
      BY <2>9, FS_EmptySet
    <3>3. n \in Nat
      BY <2>12, FS_CardinalityType
    <3> QED
      BY <2>13, <3>1, <3>2, <3>3
  <2>15. Cardinality(O \cup T) <= Cardinality(Debt)
    <3>1. O \cup T \in SUBSET Debt
      BY <2>9
    <3> QED
      BY <1>0, <3>1, FS_Subset
  <2>16. n + k <= OutboxMax + unowed
    <3> HIDE DEF n, m, k
    <3> QED
      BY <1>0, <2>13, <2>14, <2>15
  <2> QED
    BY <2>16 DEF O, H
<1> QED
  BY <1>1, <1>2 DEF OutboxBounded

\* No new row, and what is done stays done.
LEMMA DebtStays ==
  ASSUME IInv, IInv', OutInv,
         \A x \in OnDisk' \cup OnTheWay' :
           x \in OnDisk \cup OnTheWay \/ x.kind \notin {"reserved", "refused"},
         Done \subseteq Done', unowed' \in Nat, unowed <= unowed'
  PROVE  /\ RowsOf(OnDisk' \cup OnTheWay') \subseteq RowsOf(OnDisk \cup OnTheWay)
         /\ Cardinality(Debt') <= OutboxMax + unowed'
<1> USE DEF IInv, OutInv
<1>1. RowsOf(OnDisk' \cup OnTheWay') \subseteq RowsOf(OnDisk \cup OnTheWay)
  BY DEF RowsOf
<1>2. Debt' \in SUBSET Debt
  BY <1>1 DEF Debt
<1>3. /\ IsFiniteSet(Debt) /\ Cardinality(Debt) \in Nat
      /\ OutboxMax \in Nat /\ unowed \in Nat /\ Cardinality(Debt) <= OutboxMax + unowed
  BY RowsFinite, LedgerAssumption DEF DebtInv
<1>4. Cardinality(Debt') <= Cardinality(Debt) /\ Cardinality(Debt') \in Nat
  BY <1>2, <1>3, FS_Subset, FS_CardinalityType
<1>5. \A c, d, m, u, v \in Nat : c <= d /\ d <= m + u /\ u <= v => c <= m + v
  OBVIOUS
<1>6. Cardinality(Debt') <= OutboxMax + unowed'
  <2> HIDE DEF IInv, OutInv
  <2> QED
    BY <1>3, <1>4, <1>5
<1> QED
  BY <1>1, <1>6

LEMMA AckedMore ==
  ASSUME NEW F, NEW G, F \subseteq G
  PROVE  AckedBy(F) \subseteq AckedBy(G)
  BY DEF AckedBy

LEMMA DebtKept ==
  ASSUME IInv, IInv', OutInv, up' = up, OnDisk \subseteq OnDisk',
         \A x \in OnDisk' \cup OnTheWay' :
           x \in OnDisk \cup OnTheWay \/ x.kind \notin {"reserved", "refused"},
         known \ outbox \subseteq known' \ outbox',
         known' \ outbox' \subseteq AckedBy(OnDisk'),
         \A a \in ackDue' : a \in ackDue \/ (a.ok => a.refs \subseteq AckedBy(OnDisk')),
         unowed' \in Nat, unowed <= unowed'
  PROVE  DebtInv'
<1>1. AckedBy(OnDisk) \subseteq AckedBy(OnDisk')
  BY AckedMore
<1>2. Done \subseteq Done'
  BY <1>1 DEF Done
<1>3. Cardinality(Debt') <= OutboxMax + unowed'
  BY <1>2, DebtStays
<1>4. \A a \in ackDue' : a.ok => a.refs \subseteq AckedBy(OnDisk')
  BY <1>1 DEF OutInv, DebtInv
<1> QED
  BY <1>3, <1>4 DEF DebtInv

LEMMA PendKept ==
  ASSUME PendInv, pending' \subseteq pending, known' = known, opens' = opens,
         DOMAIN hold' = DOMAIN hold, Unended' \subseteq Unended
  PROVE  PendInv'
<1>1. IsFiniteSet(pending')
  <2>1. pending' \in SUBSET pending
    OBVIOUS
  <2> QED
    BY <2>1, FS_Subset DEF PendInv
<1>2. \A x : TripleOf(x)' = TripleOf(x)
  BY DEF TripleOf
<1> QED
  BY <1>1, <1>2 DEF PendInv

\* The steps that add no line and end no hold, unless the ledger stops its work.
LEMMA QuietOut ==
  ASSUME IInv, IInv', OutInv, UNCHANGED <<up, opens, known, unowed>>,
         OnDisk \subseteq OnDisk', OnDisk' \cup OnTheWay' \subseteq OnDisk \cup OnTheWay,
         DOMAIN hold' = DOMAIN hold, Unended' \subseteq Unended, pending' \subseteq pending,
         outbox' \subseteq outbox, outbox \ outbox' \subseteq AckedBy(OnDisk'),
         \A a \in ackDue' : a \in ackDue \/ ~a.ok,
         Open4Work' => /\ Open4Work /\ pending' = pending
                       /\ Unended' = Unended /\ Forgotten' = Forgotten
                       /\ \A s \in DOMAIN hold : hold'[s].base = hold[s].base
  PROVE  OutInv'
<1> USE DEF OutInv
<1>1. unowed \in Nat /\ unowed' \in Nat /\ unowed <= unowed'
  BY DEF DebtInv
<1>2. known' \ outbox' \subseteq AckedBy(OnDisk')
  <2>1. AckedBy(OnDisk) \subseteq AckedBy(OnDisk')
    BY AckedMore
  <2> QED
    BY <2>1 DEF DebtInv
<1>3. DebtInv'
  BY <1>1, <1>2, DebtKept
<1>4. PendInv'
  BY PendKept
<1>5. OwedInv'
  <2> SUFFICES ASSUME Open4Work'
               PROVE  /\ Cardinality(Forgotten') <= unowed'
                      /\ \A t \in RowsOf(OnDisk' \cup OnTheWay') : Owed(t)'
    BY DEF OwedInv
  <2>1. Cardinality(Forgotten') <= unowed'
    BY DEF OwedInv
  <2>2. ASSUME NEW t \in RowsOf(OnDisk' \cup OnTheWay') PROVE Owed(t)'
    <3>1. t \in RowsOf(OnDisk \cup OnTheWay)
      BY DEF RowsOf
    <3>2. Owed(t)
      BY <3>1 DEF OwedInv
    <3>3. \A x : TripleOf(x)' = TripleOf(x)
      BY DEF TripleOf
    <3>4. ASSUME NEW s \in Unended \cup Forgotten, hold[s].base PROVE hold'[s].base
      BY <3>4 DEF Unended, Forgotten
    <3> QED
      BY <3>2, <3>3, <3>4 DEF Owed
  <2> QED
    BY <2>1, <2>2
<1> QED
  BY <1>3, <1>4, <1>5

LEMMA FaultOut ==
  ASSUME IInv, IInv', OutInv, Fault,
         UNCHANGED <<file, up, opens, queue, outbox, known, writer, unowed>>
  PROVE  OutInv'
<1>1. OnDisk' = OnDisk /\ OnTheWay' = OnTheWay
  BY DEF OnDisk, OnTheWay
<1>2. DOMAIN hold' = DOMAIN hold
  BY DEF Fault
<1>3. \A s \in DOMAIN hold : s \in Unended' => s \in Unended
  <2> TAKE s \in DOMAIN hold
  <2>1. s \notin Live => hold'[s] = hold[s]
    BY DEF Fault
  <2>2. s \in Live => hold'[s] = Stranded(s)
    BY DEF Fault
  <2>3. hold[s] \in HoldRow
    BY DEF IInv, TypeOK
  <2>4. Stranded(s).state = "stranded"
    BY <2>3 DEF Stranded, HoldRow
  <2> QED
    BY <2>1, <2>2, <2>4 DEF Unended
<1>4. Unended' \subseteq Unended
  BY <1>2, <1>3 DEF Unended
<1>5. /\ pending' \subseteq pending
      /\ \A a \in ackDue' : a \in ackDue \/ ~a.ok
      /\ ~Open4Work'
  BY DEF Fault, Open4Work
<1> QED
  BY <1>1, <1>2, <1>4, <1>5, QuietOut

LEMMA StillOut ==
  ASSUME IInv, IInv', OutInv, 
         UNCHANGED <<up, opens, healthy, closing, hold, pending, known, outbox, unowed>>,
         OnDisk \subseteq OnDisk', OnDisk' \cup OnTheWay' \subseteq OnDisk \cup OnTheWay,
         ackDue' = ackDue
  PROVE  OutInv'
<1>1. Unended' = Unended /\ Forgotten' = Forgotten /\ Open4Work' = Open4Work
  BY DEF Unended, Forgotten, Open4Work
<1> QED
  BY <1>1, QuietOut

\* The writer brings lines from the queue towards the file.
LEMMA WriterLines ==
  ASSUME IInv, Writer
  PROVE  /\ OnDisk \subseteq OnDisk' /\ OnDisk' \cup OnTheWay' \subseteq OnDisk \cup OnTheWay
         /\ UNCHANGED <<up, opens, healthy, closing, hold, acc, pending, known, outbox, unowed, ackDue>>
<1> USE DEF IInv
<1>1. CASE WriterTakes
  <2>1. /\ file' = file /\ queue' = <<>>
        /\ writer'.batch = (IF Lines(queue) # <<>> /\ ~writer.dead /\ ~stop
                            THEN Lines(queue) ELSE <<>>)
        /\ UNCHANGED <<up, opens, healthy, closing, hold, acc, pending, known, outbox, unowed, ackDue>>
    <3> DEFINE closes == Close \in Range(queue)
               writes == Lines(queue) # <<>> /\ ~writer.dead /\ ~stop
               pc == IF writes THEN "busy" ELSE IF closes THEN "ended" ELSE "idle"
               batch == IF writes THEN Lines(queue) ELSE <<>>
    <3>1. writer' = [writer EXCEPT !.pc = pc, !.batch = batch, !.closing = closes]
      BY <1>1 DEF WriterTakes
    <3>2. writer \in [pc : {"idle", "busy", "ended"}, batch : Seq(Line),
                      closing : BOOLEAN, dead : BOOLEAN]
      BY DEF TypeOK
    <3>3. writer'.batch = batch
      <4> HIDE DEF pc, batch, closes
      <4> QED
        BY <3>1, <3>2
    <3> QED
      BY <1>1, <3>3 DEF WriterTakes, history
  <2>2. OnDisk' = OnDisk /\ OnTheWay' \subseteq OnTheWay
    <3>1. Range(Lines(queue')) = {}
      BY <2>1, EmptyIs
    <3>2. Range(writer'.batch) \subseteq Range(Lines(queue))
      BY <2>1, EmptyIs
    <3> QED
      BY <2>1, <3>1, <3>2 DEF OnDisk, OnTheWay
  <2> QED
    BY <2>1, <2>2
<1>2. CASE WriterFlushes \/ WriterFails
  <2>1. writer.pc = "busy" /\ file' \in Survivors
        /\ writer'.batch = <<>> /\ queue' = queue
        /\ UNCHANGED <<up, opens, healthy, closing, hold, acc, pending, known, outbox, unowed, ackDue>>
    <3>0. writer \in [pc : {"idle", "busy", "ended"}, batch : Seq(Line),
                      closing : BOOLEAN, dead : BOOLEAN]
      BY DEF TypeOK
    <3>1. \A dead \in BOOLEAN : Written(dead).batch = <<>>
      BY <3>0 DEF Written
    <3>2. CASE WriterFlushes
      <4>1. file' \in Survivors
        <5>1. Len(writer.batch) \in Nat /\ Len(writer.batch) \in 0..Len(writer.batch)
          BY <3>0, RangeIs
        <5>2. SubSeq(writer.batch, 1, Len(writer.batch)) = writer.batch
          BY <3>0, SubSeqFull
        <5> QED
          BY <3>2, <5>1, <5>2 DEF Survivors, WriterFlushes
      <4> QED
        BY <3>1, <3>2, <4>1 DEF WriterFlushes, history
    <3>3. CASE WriterFails
      BY <3>1, <3>3 DEF WriterFails, history
    <3> QED
      BY <1>2, <3>2, <3>3
  <2>2. OnDisk \subseteq OnDisk' /\ OnDisk' \subseteq OnDisk \cup Range(writer.batch)
    BY <2>1, SurvivorIs DEF OnDisk
  <2>3. OnTheWay' \subseteq OnTheWay
    BY <2>1, EmptyIs DEF OnTheWay
  <2>4. OnDisk' \cup OnTheWay' \subseteq OnDisk \cup OnTheWay
    BY <2>2, <2>3 DEF OnTheWay
  <2> QED
    BY <2>1, <2>2, <2>4
<1> QED
  BY <1>1, <1>2 DEF Writer

LEMMA WriterOut ==
  ASSUME IInv, IInv', OutInv, Writer
  PROVE  OutInv'
  BY WriterLines, StillOut

LEMMA SameLines ==
  ASSUME UNCHANGED <<file, queue, writer>>
  PROVE  OnDisk' = OnDisk /\ OnTheWay' = OnTheWay
  BY DEF OnDisk, OnTheWay

LEMMA SendHeadOut ==
  ASSUME IInv, IInv', OutInv, NEW s \in DOMAIN hold, SendHead(s)
  PROVE  OutInv'
<1>1. UNCHANGED <<file, queue, writer, up, opens, healthy, closing, pending, known, outbox, unowed,
                  ackDue>>
  BY DEF SendHead
<1>2. \A t \in DOMAIN hold : hold[t] \in HoldRow
  BY DEF IInv, TypeOK
<1>3. /\ DOMAIN hold' = DOMAIN hold
      /\ \A t \in DOMAIN hold : t # s => hold'[t] = hold[t]
      /\ hold'[s].state = "sent" /\ hold'[s].base = hold[s].base
      /\ hold[s].state = "reserved"
  BY <1>2 DEF SendHead, Sendable, HoldRow
<1>4. Unended' = Unended /\ Forgotten' = Forgotten
  BY <1>3 DEF Unended, Forgotten
<1>5. \A t \in DOMAIN hold : hold'[t].base = hold[t].base
  BY <1>3
<1>6. OnDisk' = OnDisk /\ OnTheWay' = OnTheWay /\ Open4Work' = Open4Work
  BY <1>1, SameLines DEF Open4Work
<1> QED
  BY <1>1, <1>3, <1>4, <1>5, <1>6, QuietOut

LEMMA OwnerFailsOut ==
  ASSUME IInv, IInv', OutInv, NEW s, OwnerFails(s)
  PROVE  OutInv'
<1> USE DEF OutInv
<1>1. /\ UNCHANGED <<file, queue, writer, up, opens, healthy, closing, pending, known, outbox, ackDue>>
      /\ unowed' = unowed + (IF hold[s].base THEN 1 ELSE 0)
  BY DEF OwnerFails
<1>2. s \in DOMAIN hold /\ \A t \in DOMAIN hold : hold[t] \in HoldRow
  BY DEF IInv, TypeOK, OwnerFails, Unended
<1>3. /\ DOMAIN hold' = DOMAIN hold
      /\ \A t \in DOMAIN hold : t # s => hold'[t] = hold[t]
      /\ hold'[s].state = "stranded" /\ hold'[s].base = hold[s].base
  BY <1>2 DEF OwnerFails, HoldRow, Stranded
<1>4. Unended' = Unended \ {s}
  BY <1>3 DEF Unended
<1>5. Forgotten' = IF hold[s].base THEN Forgotten \cup {s} ELSE Forgotten
  <2>1. s \notin Forgotten
    BY DEF OwnerFails, Unended, Forgotten
  <2> QED
    BY <1>2, <1>3, <2>1 DEF Forgotten
<1>6. unowed \in Nat /\ unowed' \in Nat /\ unowed <= unowed'
  BY <1>1 DEF DebtInv
<1>7. OnDisk' = OnDisk /\ OnTheWay' = OnTheWay /\ Open4Work' = Open4Work
  BY <1>1, SameLines DEF Open4Work
<1>8. DebtInv'
  <2>1. known' \ outbox' \subseteq AckedBy(OnDisk')
    BY <1>1, <1>7 DEF DebtInv
  <2> QED
    BY <1>1, <1>6, <1>7, <2>1, DebtKept
<1>9. PendInv'
  BY <1>1, <1>3, <1>4, PendKept
<1>10. OwedInv'
  <2> SUFFICES ASSUME Open4Work
               PROVE  /\ Cardinality(Forgotten') <= unowed'
                      /\ \A t \in RowsOf(OnDisk \cup OnTheWay) : Owed(t)'
    BY <1>7 DEF OwedInv
  <2>1. IsFiniteSet(Forgotten) /\ Cardinality(Forgotten) \in Nat
    <3>1. Forgotten \subseteq DOMAIN hold
      BY DEF Forgotten
    <3>2. nextSeq \in Nat /\ DOMAIN hold \subseteq Nat
      BY DEF IInv, TypeOK
    <3>3. \A t \in DOMAIN hold : t < nextSeq
      BY DEF IInv, HoldInv
    <3>4. Forgotten \in SUBSET Nat /\ \A t \in Forgotten : t <= nextSeq
      BY <3>1, <3>2, <3>3
    <3> QED
      BY <3>2, <3>4, FS_BoundedSetOfNaturals, FS_CardinalityType
  <2>2. Cardinality(Forgotten) <= unowed
    BY DEF OwedInv
  <2>3. Cardinality(Forgotten') <= unowed'
    <3>1. CASE hold[s].base
      <4>1. Cardinality(Forgotten \cup {s}) <= Cardinality(Forgotten) + 1
            /\ Cardinality(Forgotten \cup {s}) \in Nat
        <5> DEFINE n == Cardinality(Forgotten)
                   m == Cardinality(Forgotten \cup {s})
        <5>1. m = IF s \in Forgotten THEN n ELSE n + 1
          BY <2>1, FS_AddElement
        <5>2. n \in Nat
          BY <2>1
        <5> HIDE DEF n, m
        <5>3. m <= n + 1 /\ m \in Nat
          BY <5>1, <5>2
        <5> QED
          BY <5>3 DEF n, m
      <4> QED
        BY <1>1, <1>5, <1>6, <2>1, <2>2, <3>1, <4>1
    <3>2. CASE ~hold[s].base
      BY <1>1, <1>5, <1>6, <2>1, <2>2, <3>2
    <3> QED
      BY <3>1, <3>2
  <2>4. ASSUME NEW t \in RowsOf(OnDisk \cup OnTheWay) PROVE Owed(t)'
    <3>1. Owed(t)
      BY DEF OwedInv
    <3>2. \A x : TripleOf(x)' = TripleOf(x)
      BY <1>1 DEF TripleOf
    <3>3. ASSUME NEW r \in Unended \cup Forgotten, hold[r].base
          PROVE  r \in Unended' \cup Forgotten' /\ hold'[r].base
      BY <1>3, <1>4, <1>5, <3>3 DEF Unended, Forgotten
    <3> QED
      BY <1>1, <3>1, <3>2, <3>3 DEF Owed
  <2> QED
    BY <2>3, <2>4
<1> QED
  BY <1>8, <1>9, <1>10

LEMMA QueuedOut ==
  ASSUME IInv, ~closing, NEW x \in Line, Submit(<<x>>), file' = file, writer' = writer
  PROVE  /\ OnDisk' = OnDisk /\ OnTheWay' = OnTheWay \cup {x}
         /\ pending' \subseteq pending \cup {x} /\ pending \subseteq pending'
         /\ HasRow(x) => x \in pending'
         /\ ~HasRow(x) /\ x.kind # "lineage-acked" => pending' = pending
         /\ IsFiniteSet(pending) => IsFiniteSet(pending')
<1>1. Range(Lines(queue')) = Range(Lines(queue)) \cup {x}
  BY QueuedIs DEF IInv
<1>2. OnDisk' = OnDisk /\ OnTheWay' = OnTheWay \cup {x}
  BY <1>1 DEF OnDisk, OnTheWay
<1>3. Range(<<x>>) = {x}
  BY OneLine
<1>4. pending' = pending \cup {y \in {x} : HasRow(y) \/ y.kind = "lineage-acked"}
  BY <1>3 DEF Submit
<1>5. pending' = pending \/ pending' = pending \cup {x}
  BY <1>4
<1>6. IsFiniteSet(pending) => IsFiniteSet(pending')
  BY <1>5, FS_AddElement
<1> QED
  BY <1>2, <1>4, <1>6

LEMMA ResolveOut ==
  ASSUME IInv, IInv', OutInv, NEW s \in Unended, NEW outcome \in Outcome, Resolve(s, outcome)
  PROVE  OutInv'
<1> USE DEF OutInv
<1>0. PICK x : x = Resolution(nextSeq, s, outcome, FALSE, hold[s].base)
  OBVIOUS
<1>1. s \in DOMAIN hold /\ \A t \in DOMAIN hold : hold[t] \in HoldRow
  BY DEF IInv, TypeOK, Unended
<1>2. x.kind = outcome.kind /\ x.ref = s /\ x.row = hold[s].base
  BY <1>0 DEF Resolution
<1>3. /\ hold[s].base \in BOOLEAN /\ nextSeq \in Nat /\ s \in Nat
  BY <1>1 DEF IInv, TypeOK, HoldRow
<1>4. x \in Line /\ Resolves(x) /\ x.kind \notin {"opened", "reserved", "refused", "lineage-acked"}
  <2>1. x \in ResolutionLine
    BY <1>0, <1>3 DEF ResolutionLine, Resolution, Outcome
  <2>2. Resolves(x)
    BY <1>2 DEF Resolves, Outcome
  <2> QED
    BY <2>1, <2>2, Kinds DEF Line, Resolves
<1>5. /\ Submit(<<x>>) /\ ~closing
      /\ UNCHANGED <<file, writer, up, opens, healthy, closing, known, outbox, ackDue, unowed>>
  <2>1. ~closing
    BY DEF IInv, HoldInv
  <2> QED
    BY <1>0, <2>1 DEF Resolve
<1>6. /\ OnDisk' = OnDisk /\ OnTheWay' = OnTheWay \cup {x}
      /\ pending' \subseteq pending \cup {x} /\ pending \subseteq pending'
      /\ HasRow(x) => x \in pending'
      /\ IsFiniteSet(pending')
  BY <1>4, <1>5, QueuedOut DEF PendInv
<1>7. /\ DOMAIN hold' = DOMAIN hold
      /\ \A t \in DOMAIN hold : t # s => hold'[t] = hold[t]
      /\ hold'[s].state = "resolving" /\ hold'[s].base = hold[s].base
  BY <1>1 DEF Resolve, Resolving, HoldRow
<1>8. Unended' = Unended \ {s} /\ Forgotten' = Forgotten
  <2>1. s \notin Forgotten
    BY DEF Unended, Forgotten
  <2> QED
    BY <1>1, <1>7, <2>1 DEF Unended, Forgotten
<1>9. unowed \in Nat /\ unowed' \in Nat /\ unowed <= unowed'
  BY <1>5 DEF DebtInv
<1>10. DebtInv'
  <2>1. known' \ outbox' \subseteq AckedBy(OnDisk')
    BY <1>5, <1>6 DEF DebtInv
  <2>2. \A y \in OnDisk' \cup OnTheWay' :
          y \in OnDisk \cup OnTheWay \/ y.kind \notin {"reserved", "refused"}
    BY <1>4, <1>6
  <2> QED
    BY <1>5, <1>6, <1>9, <2>1, <2>2, DebtKept
<1>11. TripleOf(x) = <<opens, s>> /\ \A y : TripleOf(y)' = TripleOf(y)
  BY <1>2, <1>4, <1>5 DEF TripleOf
<1>12. ASSUME NEW y \in pending, HasRow(y) PROVE TripleOf(y) # TripleOf(x)
  <2>1. CASE y.kind = "refused"
    <3>1. y.seq \notin DOMAIN hold
      BY <2>1 DEF PendInv
    <3> QED
      BY <1>1, <1>11, <2>1, <3>1 DEF TripleOf
  <2>2. CASE y.kind # "refused"
    <3>1. y.ref \notin Unended
      BY <1>12, <2>2 DEF HasRow, PendInv
    <3> QED
      BY <1>11, <2>2, <3>1 DEF TripleOf
  <2> QED
    BY <2>1, <2>2
<1>13. PendInv'
  <2>1. ASSUME NEW y \in pending'
        PROVE  /\ HasRow(y) => TripleOf(y) \notin known
               /\ Resolves(y) => y.ref \notin Unended'
               /\ y.kind = "refused" => y.seq \notin DOMAIN hold
               /\ \A z \in pending' : HasRow(y) /\ HasRow(z) /\ TripleOf(y) = TripleOf(z) => y = z
    <3>1. CASE y = x
      BY <1>2, <1>4, <1>6, <1>8, <1>11, <1>12, <3>1 DEF PendInv
    <3>2. CASE y \in pending
      BY <1>6, <1>8, <1>12, <3>2 DEF PendInv
    <3> QED
      BY <1>6, <3>1, <3>2
  <2>2. \A t \in Unended' : <<opens, t>> \notin known
    BY <1>8 DEF PendInv
  <2> QED
    BY <1>5, <1>6, <1>7, <1>11, <2>1, <2>2 DEF PendInv
<1>14. OwedInv'
  <2> SUFFICES ASSUME Open4Work
               PROVE  /\ Cardinality(Forgotten') <= unowed'
                      /\ \A t \in RowsOf(OnDisk' \cup OnTheWay') : Owed(t)'
    BY <1>5 DEF OwedInv, Open4Work
  <2>1. Cardinality(Forgotten') <= unowed'
    BY <1>5, <1>8 DEF OwedInv
  <2>2. ASSUME NEW t \in RowsOf(OnDisk' \cup OnTheWay') PROVE Owed(t)'
    <3>1. t \in RowsOf(OnDisk \cup OnTheWay)
      BY <1>4, <1>6 DEF RowsOf
    <3>2. Owed(t)
      BY <3>1 DEF OwedInv
    <3>3. CASE t \in known
      BY <1>5, <3>3 DEF Owed
    <3>4. CASE \E y \in pending : HasRow(y) /\ TripleOf(y) = t
      BY <1>6, <1>11, <3>4 DEF Owed
    <3>5. ASSUME NEW r \in Unended \cup Forgotten, hold[r].base, t = <<opens, r>>
          PROVE  Owed(t)'
      <4>1. CASE r = s
        <5>1. HasRow(x)
          BY <1>2, <1>4, <3>5, <4>1 DEF HasRow
        <5>2. x \in pending' /\ TripleOf(x)' = t
          BY <1>6, <1>11, <3>5, <4>1, <5>1
        <5> QED
          BY <5>1, <5>2 DEF Owed
      <4>2. CASE r # s
        <5>1. r \in Unended' \cup Forgotten' /\ hold'[r].base
          BY <1>7, <1>8, <3>5, <4>2 DEF Unended, Forgotten
        <5> QED
          BY <1>5, <3>5, <5>1 DEF Owed
      <4> QED
        BY <4>1, <4>2
    <3> QED
      BY <3>2, <3>3, <3>4, <3>5 DEF Owed
  <2> QED
    BY <2>1, <2>2
<1> QED
  BY <1>10, <1>13, <1>14

LEMMA EndsOut ==
  ASSUME IInv, IInv', OutInv, NEW s, Ends(s) \/ Settle(s)
  PROVE  OutInv'
<1>1. CASE Ends(s)
  <2>1. PICK o \in Outcome : o = EndOutcome(hold[s].state)
    BY EndOutcomeIs
  <2> QED
    BY <1>1, <2>1, ResolveOut DEF Ends
<1>2. CASE Settle(s)
  <2>1. PICK cost \in Costs : Resolve(s, Settled(cost, hold[s].amount))
    BY <1>2 DEF Settle
  <2>2. s \in Unended /\ hold[s].amount \in Nat /\ cost \in Nat
    BY <1>2, LedgerAssumption DEF Settle, Unended, IInv, TypeOK, HoldRow
  <2>3. Settled(cost, hold[s].amount) \in Outcome
    <3>1. PICK o : o = Settled(cost, hold[s].amount)
      OBVIOUS
    <3>2. o.kind = "settled" /\ o.settled \in Nat /\ o.overrun \in Nat
      BY <2>2, <3>1, SettledIs
    <3>3. o = [kind |-> o.kind, settled |-> o.settled, overrun |-> o.overrun]
      BY <3>1 DEF Settled
    <3> QED
      BY <3>1, <3>2, <3>3 DEF Outcome, Resolutions
  <2>4. PICK o \in Outcome : o = Settled(cost, hold[s].amount)
    BY <2>3
  <2> QED
    BY <2>1, <2>2, <2>4, ResolveOut
<1> QED
  BY <1>1, <1>2

LEMMA SenderOut ==
  ASSUME IInv, IInv', OutInv, Sender
  PROVE  OutInv'
<1> USE DEF OutInv
<1>1. CASE SenderSends \/ SenderDrops
  <2>1. UNCHANGED <<file, queue, writer, up, opens, healthy, closing, hold, pending, known, outbox,
                    unowed, ackDue>>
    BY <1>1 DEF SenderSends, SenderDrops, loopUnchanged, loopVars, ledgerVars, history
  <2>2. OnDisk' = OnDisk /\ OnTheWay' = OnTheWay
    BY <2>1, SameLines
  <2> QED
    BY <2>1, <2>2, StillOut
<1>2. CASE AckDone
  <2>1. PICK a \in ackDue :
          /\ outbox' = IF a.ok THEN outbox \ a.refs ELSE outbox
          /\ ackDue' = ackDue \ {a}
          /\ UNCHANGED <<file, queue, writer, up, opens, healthy, closing, hold, pending, known, unowed>>
    BY <1>2 DEF AckDone, history
  <2>2. OnDisk' = OnDisk /\ OnTheWay' = OnTheWay
    BY <2>1, SameLines
  <2>3. Unended' = Unended /\ Forgotten' = Forgotten /\ Open4Work' = Open4Work
    BY <2>1 DEF Unended, Forgotten, Open4Work
  <2>4. outbox' \subseteq outbox /\ outbox \ outbox' \subseteq AckedBy(OnDisk')
    BY <2>1, <2>2 DEF DebtInv
  <2> QED
    BY <2>1, <2>2, <2>3, <2>4, QuietOut
<1>3. CASE SenderAcks
  <2>1. UNCHANGED <<file, writer, up, opens, healthy, closing, hold, known, outbox, unowed, ackDue>>
    BY <1>3 DEF SenderAcks, history
  <2>2. CASE queue' = queue /\ pending' = pending
    <3>1. OnDisk' = OnDisk /\ OnTheWay' = OnTheWay
      BY <2>1, <2>2, SameLines
    <3> QED
      BY <2>1, <2>2, <3>1, StillOut
  <2>3. CASE ~(queue' = queue /\ pending' = pending)
    <3>1. PICK some \in SUBSET sender.triples :
            ~closing /\ Submit(<<Acked(nextSeq, NewAcks(some))>>)
      BY <1>3, <2>3 DEF SenderAcks
    <3>2. PICK x : x = Acked(nextSeq, NewAcks(some))
      OBVIOUS
    <3>3. x \in Line /\ x.kind = "lineage-acked" /\ ~HasRow(x) /\ ~Resolves(x)
      <4>1. NewAcks(some) \subseteq Triple /\ nextSeq \in Nat
        BY DEF NewAcks, IInv, TypeOK
      <4>2. x \in AckedLine /\ x.kind = "lineage-acked"
        BY <3>2, <4>1 DEF AckedLine, Acked
      <4> QED
        BY <4>2, Kinds DEF Line, HasRow, Resolves
    <3>4. /\ OnDisk' = OnDisk /\ OnTheWay' = OnTheWay \cup {x}
          /\ pending' \subseteq pending \cup {x} /\ pending \subseteq pending'
          /\ IsFiniteSet(pending')
      BY <2>1, <3>1, <3>2, <3>3, QueuedOut DEF PendInv
    <3>5. Unended' = Unended /\ Forgotten' = Forgotten /\ Open4Work' = Open4Work
      BY <2>1 DEF Unended, Forgotten, Open4Work
    <3>6. unowed \in Nat /\ unowed' \in Nat /\ unowed <= unowed'
      BY <2>1 DEF DebtInv
    <3>7. DebtInv'
      <4>1. known' \ outbox' \subseteq AckedBy(OnDisk')
        BY <2>1, <3>4 DEF DebtInv
      <4>2. \A y \in OnDisk' \cup OnTheWay' :
              y \in OnDisk \cup OnTheWay \/ y.kind \notin {"reserved", "refused"}
        BY <3>3, <3>4
      <4> QED
        BY <2>1, <3>4, <3>6, <4>1, <4>2, DebtKept
    <3>8. \A y : TripleOf(y)' = TripleOf(y)
      BY <2>1 DEF TripleOf
    <3>9. PendInv'
      BY <2>1, <3>3, <3>4, <3>5, <3>8 DEF PendInv
    <3>10. OwedInv'
      <4> SUFFICES ASSUME Open4Work
                   PROVE  /\ Cardinality(Forgotten') <= unowed'
                          /\ \A t \in RowsOf(OnDisk' \cup OnTheWay') : Owed(t)'
        BY <3>5 DEF OwedInv
      <4>1. Cardinality(Forgotten') <= unowed'
        BY <2>1, <3>5 DEF OwedInv
      <4>2. ASSUME NEW t \in RowsOf(OnDisk' \cup OnTheWay') PROVE Owed(t)'
        <5>1. t \in RowsOf(OnDisk \cup OnTheWay)
          BY <3>3, <3>4 DEF RowsOf
        <5>2. Owed(t)
          BY <5>1 DEF OwedInv
        <5> QED
          BY <2>1, <3>4, <3>5, <3>8, <5>2 DEF Owed
      <4> QED
        BY <4>1, <4>2
    <3> QED
      BY <3>7, <3>9, <3>10
  <2> QED
    BY <2>2, <2>3
<1> QED
  BY <1>1, <1>2, <1>3 DEF Sender

LEMMA OtherOut ==
  ASSUME IInv, IInv', OutInv,
         \/ UNCHANGED vars
         \/ PostedFault
         \/ CloseTimesOut
         \/ \E s \in DOMAIN hold : WaitStalls(s)
  PROVE  OutInv'
<1>1. CASE UNCHANGED vars
  <2>1. UNCHANGED <<file, queue, writer, up, opens, healthy, closing, hold, pending, known, outbox,
                    unowed, ackDue>>
    BY <1>1 DEF vars, loopVars, ledgerVars, history
  <2> QED
    BY <2>1, SameLines, StillOut
<1>2. CASE PostedFault
  <2>1. UNCHANGED <<file, up, opens, queue, outbox, known, writer, unowed, closing>>
    BY <1>2 DEF PostedFault, history
  <2>2. CASE Fault
    BY <2>1, <2>2, FaultOut
  <2>3. CASE UNCHANGED <<healthy, hold, ackDue, pending>>
    BY <2>1, <2>3, SameLines, StillOut
  <2> QED
    BY <1>2, <2>2, <2>3 DEF PostedFault
<1>3. CASE CloseTimesOut
  <2>1. /\ UNCHANGED <<file, queue, writer, up, opens, healthy, closing, hold, known, outbox, unowed>>
        /\ pending' = {} /\ closing
        /\ \A a \in ackDue' : a \in ackDue \/ ~a.ok
    BY <1>3 DEF CloseTimesOut, history
  <2>2. Unended' = Unended /\ ~Open4Work'
    BY <2>1 DEF Unended, Open4Work
  <2> QED
    BY <2>1, <2>2, SameLines, QuietOut
<1>4. CASE \E s \in DOMAIN hold : WaitStalls(s)
  <2>1. UNCHANGED <<file, up, opens, queue, outbox, known, writer, unowed>> /\ Fault
    BY <1>4 DEF WaitStalls, history
  <2> QED
    BY <2>1, FaultOut
<1> QED
  BY <1>1, <1>2, <1>3, <1>4

\* outbox_committed counts every row there is or may come to be.
LEMMA Counted ==
  ASSUME IInv, OutInv, Open4Work, Committed < OutboxMax
  PROVE  Cardinality(Debt) + 1 <= OutboxMax + unowed
<1> USE DEF IInv, OutInv
<1> DEFINE P == {x \in pending : HasRow(x)}
           U == {s \in Unended : hold[s].base}
           A == {TripleOf(x) : x \in P}
           B == {<<opens, s>> : s \in U}
           C == {<<opens, s>> : s \in Forgotten}
           fa == [x \in P |-> TripleOf(x)]
           fb == [s \in U |-> <<opens, s>>]
           fc == [s \in Forgotten |-> <<opens, s>>]
<1>1. IsFiniteSet(P) /\ IsFiniteSet(U) /\ IsFiniteSet(Forgotten)
  <2>1. /\ U \in SUBSET Nat /\ Forgotten \in SUBSET Nat /\ nextSeq \in Nat
        /\ \A s \in U : s <= nextSeq
        /\ \A s \in Forgotten : s <= nextSeq
    BY DEF Unended, Forgotten, TypeOK, HoldInv
  <2>2. P \in SUBSET pending
    OBVIOUS
  <2> HIDE DEF P, U
  <2>3. IsFiniteSet(P)
    BY <2>2, FS_Subset DEF PendInv
  <2>4. IsFiniteSet(U)
    BY <2>1, FS_BoundedSetOfNaturals
  <2>5. IsFiniteSet(Forgotten)
    BY <2>1, FS_BoundedSetOfNaturals
  <2> QED
    BY <2>3, <2>4, <2>5
<1>2. IsFiniteSet(outbox)
  <2>1. outbox \in SUBSET RowsOf(OnDisk \cup OnTheWay)
    <3> SUFFICES ASSUME NEW t \in outbox PROVE t \in RowsOf(OnDisk \cup OnTheWay)
      OBVIOUS
    <3>1. Named(OnDisk, t)
      BY DEF RowsInv
    <3>2. t \in RowsOf(OnDisk)
      BY <3>1, FileGood, RowNamed DEF OnDisk
    <3> QED
      BY <3>2 DEF RowsOf
  <2> QED
    BY <2>1, RowsFinite, FS_Subset
<1>3. Debt \subseteq outbox \cup A \cup B \cup C
  <2> SUFFICES ASSUME NEW t \in Debt PROVE t \in outbox \cup A \cup B \cup C
    OBVIOUS
  <2>1. Owed(t) /\ t \notin known \ outbox
    BY DEF Debt, Done, OwedInv, Open4Work
  <2> QED
    BY <2>1 DEF Owed, Forgotten
<1>4. /\ DOMAIN fa = P /\ \A t \in A : \E x \in P : fa[x] = t
      /\ DOMAIN fb = U /\ \A t \in B : \E s \in U : fb[s] = t
      /\ DOMAIN fc = Forgotten /\ \A t \in C : \E s \in Forgotten : fc[s] = t
  OBVIOUS
<1>5. Cardinality(outbox) + Cardinality(P) + Cardinality(U) < OutboxMax
  BY DEF Committed
<1> HIDE DEF fa, fb, fc, A, B, C, P, U
<1>6. /\ IsFiniteSet(A) /\ Cardinality(A) <= Cardinality(P)
      /\ Cardinality(A) \in Nat /\ Cardinality(P) \in Nat
  BY <1>1, <1>4, ImageIs
<1>7. /\ IsFiniteSet(B) /\ Cardinality(B) <= Cardinality(U)
      /\ Cardinality(B) \in Nat /\ Cardinality(U) \in Nat
  BY <1>1, <1>4, ImageIs
<1>8. /\ IsFiniteSet(C) /\ Cardinality(C) <= Cardinality(Forgotten)
      /\ Cardinality(C) \in Nat /\ Cardinality(Forgotten) \in Nat
  BY <1>1, <1>4, ImageIs
<1>9. ASSUME NEW S, NEW T, IsFiniteSet(S), IsFiniteSet(T)
      PROVE  /\ IsFiniteSet(S \cup T) /\ Cardinality(S \cup T) \in Nat
             /\ Cardinality(S \cup T) <= Cardinality(S) + Cardinality(T)
  <2> DEFINE n == Cardinality(S)
             m == Cardinality(T)
             k == Cardinality(S \cap T)
             u == Cardinality(S \cup T)
  <2>1. IsFiniteSet(S \cup T) /\ u = n + m - k
    BY <1>9, FS_Union
  <2>2. IsFiniteSet(S \cap T)
    BY <1>9, FS_Intersection
  <2>3. n \in Nat /\ m \in Nat /\ k \in Nat /\ u \in Nat
    BY <1>9, <2>1, <2>2, FS_CardinalityType
  <2> HIDE DEF n, m, k, u
  <2>4. u <= n + m
    BY <2>1, <2>3
  <2> QED
    BY <2>1, <2>3, <2>4 DEF n, m, k, u
<1>10. /\ IsFiniteSet(outbox \cup A) /\ Cardinality(outbox \cup A) \in Nat
       /\ Cardinality(outbox \cup A) <= Cardinality(outbox) + Cardinality(A)
  BY <1>2, <1>6, <1>9
<1>11. /\ IsFiniteSet((outbox \cup A) \cup B) /\ Cardinality((outbox \cup A) \cup B) \in Nat
       /\ Cardinality((outbox \cup A) \cup B) <= Cardinality(outbox \cup A) + Cardinality(B)
  BY <1>7, <1>9, <1>10
<1>12. /\ IsFiniteSet((outbox \cup A) \cup B \cup C)
       /\ Cardinality((outbox \cup A) \cup B \cup C) \in Nat
       /\ Cardinality((outbox \cup A) \cup B \cup C)
            <= Cardinality((outbox \cup A) \cup B) + Cardinality(C)
  BY <1>8, <1>9, <1>11
<1>13. Cardinality(Debt) <= Cardinality((outbox \cup A) \cup B \cup C) /\ Cardinality(Debt) \in Nat
  <2>1. Debt \in SUBSET ((outbox \cup A) \cup B \cup C)
    BY <1>3
  <2> QED
    BY <1>12, <2>1, FS_Subset, FS_CardinalityType
<1>14. Cardinality(outbox) \in Nat /\ OutboxMax \in Nat /\ unowed \in Nat
  BY <1>2, FS_CardinalityType, LedgerAssumption DEF DebtInv
<1>15. Cardinality(Forgotten) <= unowed
  BY DEF OwedInv
<1>16. \A o, p, u, f, a, b, c, oa, ob, oc, d, m, w \in Nat :
         o + p + u < m /\ a <= p /\ b <= u /\ c <= f /\ f <= w
         /\ oa <= o + a /\ ob <= oa + b /\ oc <= ob + c /\ d <= oc
         => d + 1 <= m + w
  OBVIOUS
<1> HIDE DEF IInv, OutInv
<1> QED
  BY <1>5, <1>6, <1>7, <1>8, <1>10, <1>11, <1>12, <1>13, <1>14, <1>15, <1>16

\* One more row, where outbox_committed allowed it.
LEMMA DebtOne ==
  ASSUME IInv, OutInv, NEW t, Cardinality(Debt) + 1 <= OutboxMax + unowed,
         Debt' \subseteq Debt \cup {t}, unowed' = unowed
  PROVE  Cardinality(Debt') <= OutboxMax + unowed'
<1> DEFINE D == Debt \cup {t}
           n == Cardinality(Debt)
           m == Cardinality(D)
           k == Cardinality(Debt')
<1>1. IsFiniteSet(Debt) /\ n \in Nat
  BY RowsFinite DEF IInv
<1>2. IsFiniteSet(D) /\ m = IF t \in Debt THEN n ELSE n + 1
  BY <1>1, FS_AddElement
<1>3. Debt' \in SUBSET D
  OBVIOUS
<1> HIDE DEF D
<1>4. IsFiniteSet(Debt') /\ k <= m
  BY <1>2, <1>3, FS_Subset
<1>5. k \in Nat
  BY <1>4, FS_CardinalityType
<1>6. n + 1 <= OutboxMax + unowed /\ OutboxMax \in Nat /\ unowed \in Nat
  BY LedgerAssumption DEF OutInv, DebtInv
<1> HIDE DEF n, m, k
<1>7. k <= OutboxMax + unowed
  BY <1>1, <1>2, <1>4, <1>5, <1>6
<1> QED
  BY <1>7 DEF k

LEMMA AdmitOut ==
  ASSUME IInv, IInv', OutInv, Admit
  PROVE  OutInv'
<1> USE DEF OutInv
<1>1. PICK scope \in Scopes, amount \in Estimates, base \in Tickets :
        /\ base => Committed < OutboxMax
        /\ hold' = [s \in DOMAIN hold \cup {nextSeq} |->
                      IF s = nextSeq
                      THEN [state |-> "pending", scope |-> scope, amount |-> amount,
                            base |-> base, outcome |-> Unresolved]
                      ELSE hold[s]]
        /\ Submit(<<Reserved(nextSeq, opens, scope, amount, base)>>)
  BY DEF Admit
<1>2. PICK x : x = Reserved(nextSeq, opens, scope, amount, base)
  OBVIOUS
<1>3. /\ Open4Work /\ ~closing /\ up
      /\ UNCHANGED <<file, writer, up, opens, healthy, closing, known, outbox, ackDue, unowed>>
  BY DEF Admit, Open4Work
<1>4. nextSeq \in Nat /\ opens \in Nat /\ base \in BOOLEAN /\ amount \in Nat \ {0}
      /\ nextSeq \notin DOMAIN hold
  <2>1. nextSeq \in Nat /\ opens \in Nat
    BY DEF IInv, TypeOK
  <2>2. base \in BOOLEAN /\ amount \in Nat \ {0}
    BY LedgerAssumption
  <2>3. \A s \in DOMAIN hold : s < nextSeq
    BY DEF IInv, HoldInv
  <2> QED
    BY <2>1, <2>2, <2>3
<1>5. /\ x.kind = "reserved" /\ x.seq = nextSeq /\ x.epoch = opens /\ x.base = base
      /\ x \in Line /\ ~HasRow(x) /\ ~Resolves(x)
  <2>1. x \in ReservedLine /\ x.kind = "reserved" /\ x.seq = nextSeq /\ x.epoch = opens /\ x.base = base
    BY <1>2, <1>4 DEF Reserved, ReservedLine
  <2> QED
    BY <2>1, Kinds DEF Line, HasRow, Resolves
<1>6. OnDisk' = OnDisk /\ OnTheWay' = OnTheWay \cup {x} /\ pending' = pending
  BY <1>1, <1>2, <1>3, <1>5, QueuedOut
<1>7. /\ DOMAIN hold' = DOMAIN hold \cup {nextSeq}
      /\ \A s \in DOMAIN hold : hold'[s] = hold[s]
      /\ hold'[nextSeq].state = "pending" /\ hold'[nextSeq].base = base
  BY <1>1, <1>4
<1>8. Unended' = Unended \cup {nextSeq} /\ Forgotten' = Forgotten
  BY <1>4, <1>7 DEF Unended, Forgotten
<1>9. Open4Work' /\ \A y : TripleOf(y)' = TripleOf(y)
  BY <1>3 DEF Open4Work, TripleOf
<1>10. Done' = Done
  BY <1>3, <1>6 DEF Done
<1>11. RowsOf(OnDisk' \cup OnTheWay') = RowsOf(OnDisk \cup OnTheWay)
                                         \cup (IF base THEN {<<opens, nextSeq>>} ELSE {})
  <2>1. CASE base
    BY <1>5, <1>6, <2>1 DEF RowsOf
  <2>2. CASE ~base
    BY <1>5, <1>6, <2>2 DEF RowsOf
  <2> QED
    BY <2>1, <2>2
<1>12. Cardinality(Debt') <= OutboxMax + unowed'
  <2>1. CASE base
    <3>1. Cardinality(Debt) + 1 <= OutboxMax + unowed
      BY <1>1, <1>3, <2>1, Counted
    <3>2. Debt' \subseteq Debt \cup {<<opens, nextSeq>>}
      BY <1>10, <1>11, <2>1 DEF Debt
    <3> QED
      BY <1>3, <3>1, <3>2, DebtOne
  <2>2. CASE ~base
    <3>1. Debt' = Debt
      BY <1>10, <1>11, <2>2 DEF Debt
    <3> QED
      BY <1>3, <3>1 DEF DebtInv
  <2> QED
    BY <2>1, <2>2
<1>13. DebtInv'
  BY <1>3, <1>6, <1>12 DEF DebtInv
<1>14. PendInv'
  <2>1. ASSUME NEW y \in pending, y.kind = "refused" PROVE y.seq # nextSeq
    <3>1. y.seq < nextSeq
      BY DEF IInv, OwnInv, Own
    <3> QED
      BY <1>4, <3>1
  <2>2. ASSUME NEW y \in pending, Resolves(y) PROVE y.ref # nextSeq
    <3>1. y.ref \in DOMAIN hold
      BY <2>2 DEF IInv, OwnInv, Own
    <3> QED
      BY <1>4, <3>1
  <2>3. <<opens, nextSeq>> \notin known
    <3> SUFFICES ASSUME <<opens, nextSeq>> \in known PROVE FALSE
      OBVIOUS
    <3>1. Named(OnDisk, <<opens, nextSeq>>)
      BY DEF IInv, RowsInv
    <3>2. \E y \in OnDisk : y.seq = nextSeq
      BY <3>1 DEF Named
    <3>3. \A y \in OnDisk : y.seq < nextSeq
      BY <1>3 DEF IInv, FileInv
    <3> QED
      BY <1>4, <3>2, <3>3
  <2> QED
    BY <1>3, <1>6, <1>7, <1>8, <1>9, <2>1, <2>2, <2>3 DEF PendInv
<1>15. OwedInv'
  <2>1. Cardinality(Forgotten') <= unowed'
    BY <1>3, <1>8 DEF OwedInv
  <2>2. ASSUME NEW t \in RowsOf(OnDisk' \cup OnTheWay') PROVE Owed(t)'
    <3>1. CASE t \in RowsOf(OnDisk \cup OnTheWay)
      <4>1. Owed(t)
        BY <1>3, <3>1 DEF OwedInv
      <4>2. ASSUME NEW s \in Unended \cup Forgotten, hold[s].base
            PROVE  s \in Unended' \cup Forgotten' /\ hold'[s].base
        BY <1>7, <1>8, <4>2 DEF Unended, Forgotten
      <4> QED
        BY <1>3, <1>6, <1>9, <4>1, <4>2 DEF Owed
    <3>2. CASE base /\ t = <<opens, nextSeq>>
      BY <1>3, <1>7, <1>8, <3>2 DEF Owed
    <3> QED
      BY <1>11, <3>1, <3>2
  <2> QED
    BY <2>1, <2>2 DEF OwedInv
<1> QED
  BY <1>13, <1>14, <1>15

LEMMA RefusedClosesOut ==
  ASSUME IInv, IInv', OutInv, RefusedCloses
  PROVE  OutInv'
<1> USE DEF OutInv
<1>1. PICK x : x = Refused(nextSeq, opens)
  OBVIOUS
<1>2. /\ Open4Work /\ ~closing /\ up /\ Committed < OutboxMax /\ Submit(<<x>>)
      /\ UNCHANGED <<file, writer, up, opens, healthy, closing, hold, known, outbox, ackDue, unowed>>
  BY <1>1 DEF RefusedCloses, Open4Work
<1>3. nextSeq \in Nat /\ opens \in Nat /\ nextSeq \notin DOMAIN hold
  BY DEF IInv, TypeOK, HoldInv
<1>4. /\ x.kind = "refused" /\ x.seq = nextSeq /\ x.epoch = opens
      /\ x \in Line /\ HasRow(x) /\ ~Resolves(x)
  <2>1. x \in RefusedLine /\ x.kind = "refused" /\ x.seq = nextSeq /\ x.epoch = opens
    BY <1>1, <1>3 DEF Refused, RefusedLine
  <2> QED
    BY <2>1, Kinds DEF Line, HasRow, Resolves
<1>5. /\ OnDisk' = OnDisk /\ OnTheWay' = OnTheWay \cup {x}
      /\ pending' = pending \cup {x} /\ IsFiniteSet(pending')
  BY <1>2, <1>4, QueuedOut DEF PendInv
<1>6. Unended' = Unended /\ Forgotten' = Forgotten
  BY <1>2 DEF Unended, Forgotten
<1>7. /\ Open4Work' /\ \A y : TripleOf(y)' = TripleOf(y)
      /\ TripleOf(x) = <<opens, nextSeq>>
  BY <1>2, <1>4 DEF Open4Work, TripleOf
<1>8. Done' = Done
  BY <1>2, <1>5 DEF Done
<1>9. RowsOf(OnDisk' \cup OnTheWay') = RowsOf(OnDisk \cup OnTheWay) \cup {<<opens, nextSeq>>}
  BY <1>4, <1>5 DEF RowsOf
<1>10. DebtInv'
  <2>1. Cardinality(Debt) + 1 <= OutboxMax + unowed
    BY <1>2, Counted
  <2>2. Debt' \subseteq Debt \cup {<<opens, nextSeq>>}
    BY <1>8, <1>9 DEF Debt
  <2>3. Cardinality(Debt') <= OutboxMax + unowed'
    BY <1>2, <2>1, <2>2, DebtOne
  <2> QED
    BY <1>2, <1>5, <2>3 DEF DebtInv
<1>11. PendInv'
  <2>1. ASSUME NEW y \in pending, HasRow(y) PROVE TripleOf(y) # <<opens, nextSeq>>
    <3>1. y.seq < nextSeq /\ (Resolves(y) => y.ref \in DOMAIN hold)
      BY DEF IInv, OwnInv, Own
    <3>2. y.seq # nextSeq /\ (Resolves(y) => y.ref # nextSeq)
      BY <1>3, <3>1
    <3> QED
      BY <2>1, <3>2 DEF TripleOf, HasRow
  <2>2. <<opens, nextSeq>> \notin known
    <3> SUFFICES ASSUME <<opens, nextSeq>> \in known PROVE FALSE
      OBVIOUS
    <3>1. Named(OnDisk, <<opens, nextSeq>>)
      BY DEF IInv, RowsInv
    <3>2. \E y \in OnDisk : y.seq = nextSeq
      BY <3>1 DEF Named
    <3>3. \A y \in OnDisk : y.seq < nextSeq
      BY <1>2 DEF IInv, FileInv
    <3> QED
      BY <1>3, <3>2, <3>3
  <2>3. ASSUME NEW y \in pending'
        PROVE  /\ HasRow(y) => TripleOf(y) \notin known
               /\ Resolves(y) => y.ref \notin Unended
               /\ y.kind = "refused" => y.seq \notin DOMAIN hold
               /\ \A z \in pending' : HasRow(y) /\ HasRow(z) /\ TripleOf(y) = TripleOf(z) => y = z
    <3>1. CASE y = x
      BY <1>3, <1>4, <1>5, <1>7, <2>1, <2>2, <3>1
    <3>2. CASE y \in pending
      BY <1>5, <1>7, <2>1, <3>2 DEF PendInv
    <3> QED
      BY <1>5, <3>1, <3>2
  <2>4. \A s \in Unended : <<opens, s>> \notin known
    BY DEF PendInv
  <2> QED
    BY <1>2, <1>5, <1>6, <1>7, <2>3, <2>4 DEF PendInv
<1>12. OwedInv'
  <2>1. Cardinality(Forgotten') <= unowed'
    BY <1>2, <1>6 DEF OwedInv
  <2>2. ASSUME NEW t \in RowsOf(OnDisk' \cup OnTheWay') PROVE Owed(t)'
    <3>1. CASE t \in RowsOf(OnDisk \cup OnTheWay)
      <4>1. Owed(t)
        BY <1>2, <3>1 DEF OwedInv
      <4> QED
        BY <1>2, <1>5, <1>6, <1>7, <4>1 DEF Owed
    <3>2. CASE t = <<opens, nextSeq>>
      <4>1. x \in pending' /\ TripleOf(x)' = t
        BY <1>5, <1>7, <3>2
      <4> QED
        BY <1>4, <4>1 DEF Owed
    <3> QED
      BY <1>9, <3>1, <3>2
  <2> QED
    BY <2>1, <2>2 DEF OwedInv
<1> QED
  BY <1>10, <1>11, <1>12

LEMMA PostedDurableOut ==
  ASSUME IInv, IInv', OutInv, PostedDurable
  PROVE  OutInv'
<1> USE DEF OutInv
<1>1. PICK L : L = Range(Head(posts).lines)
  OBVIOUS
<1>2. PICK mine : mine = L \cap inFlight
  OBVIOUS
<1>3. PICK done : done = ResolvedBy(mine)
  OBVIOUS
<1>4. PICK got : got = ReservedBy(mine)
  OBVIOUS
<1>5. PICK fresh : fresh = {TripleOf(x) : x \in {y \in mine \cap pending : HasRow(y)}}
  OBVIOUS
<1>6. /\ hold' = [s \in DOMAIN hold |->
                   IF s \in done THEN [hold[s] EXCEPT !.state = "resolved"]
                   ELSE IF s \in got THEN [hold[s] EXCEPT !.state = "reserved"]
                   ELSE hold[s]]
      /\ pending' = pending \ mine
      /\ known' = known \cup fresh
      /\ outbox' = outbox \cup fresh
      /\ ackDue' = ackDue \cup {[refs |-> x.refs, ok |-> TRUE] :
                                  x \in {y \in mine \cap pending : y.kind = "lineage-acked"}}
      /\ UNCHANGED <<file, queue, writer, up, opens, healthy, closing, unowed>>
  BY <1>1, <1>2, <1>3, <1>4, <1>5 DEF PostedDurable, Durable, history
<1>7. L \subseteq OnDisk /\ mine \subseteq OnDisk
  <2>1. 1 \in 1..Len(posts) /\ Head(posts) = posts[1]
    BY TailIs DEF PostedDurable, IInv
  <2> QED
    BY <1>1, <1>2, <2>1 DEF IInv, OwnInv
<1>8. OnDisk' = OnDisk /\ OnTheWay' = OnTheWay
  BY <1>6, SameLines
<1>9. \A y : TripleOf(y)' = TripleOf(y)
  BY <1>6 DEF TripleOf
<1>10. ASSUME NEW s \in DOMAIN hold
       PROVE  /\ hold'[s].base = hold[s].base
              /\ s \in done => hold[s].state = "resolving" /\ hold'[s].state = "resolved"
              /\ s \notin done /\ s \in got => hold[s].state = "pending" /\ hold'[s].state = "reserved"
              /\ s \notin done /\ s \notin got => hold'[s] = hold[s]
  <2>1. hold[s] \in HoldRow
    BY DEF IInv, TypeOK
  <2>2. s \in done => hold[s].state = "resolving"
    BY <1>3 DEF ResolvedBy
  <2>3. s \in got => hold[s].state = "pending"
    BY <1>4 DEF ReservedBy
  <2> QED
    BY <1>6, <2>1, <2>2, <2>3 DEF HoldRow
<1>11. DOMAIN hold' = DOMAIN hold
  BY <1>6
<1>12. Unended' = Unended /\ Forgotten' = Forgotten
  BY <1>10, <1>11 DEF Unended, Forgotten
<1>13. fresh \cap known = {}
  BY <1>5 DEF PendInv
<1>14. known \ outbox = known' \ outbox'
  <2>1. outbox \subseteq known
    BY DEF IInv, RowsInv
  <2> QED
    BY <1>6, <1>13, <2>1
<1>15. DebtInv'
  <2>1. known' \ outbox' \subseteq AckedBy(OnDisk')
    BY <1>8, <1>14 DEF DebtInv
  <2>2. \A a \in ackDue' : a \in ackDue \/ a.refs \subseteq AckedBy(OnDisk')
    <3> SUFFICES ASSUME NEW y \in mine, y.kind = "lineage-acked"
                 PROVE  y.refs \subseteq AckedBy(OnDisk)
      BY <1>6, <1>8
    <3> QED
      BY <1>7 DEF AckedBy
  <2>3. unowed' \in Nat /\ unowed \in Nat /\ unowed <= unowed'
    BY <1>6 DEF DebtInv
  <2> QED
    BY <1>6, <1>8, <1>14, <2>1, <2>2, <2>3, DebtKept
<1>16. PendInv'
  <2>1. IsFiniteSet(pending')
    <3>1. pending' \in SUBSET pending
      BY <1>6
    <3> QED
      BY <3>1, FS_Subset DEF PendInv
  <2>2. ASSUME NEW y \in pending' PROVE HasRow(y) => TripleOf(y) \notin known'
    <3> SUFFICES ASSUME HasRow(y), TripleOf(y) \in fresh PROVE FALSE
      BY <1>6, <2>2 DEF PendInv
    <3>1. PICK z \in mine \cap pending : HasRow(z) /\ TripleOf(z) = TripleOf(y)
      BY <1>5
    <3>2. y \in pending /\ y \notin mine
      BY <1>6
    <3> QED
      BY <3>1, <3>2 DEF PendInv
  <2>3. ASSUME NEW s \in Unended PROVE <<opens, s>> \notin known'
    <3> SUFFICES ASSUME <<opens, s>> \in fresh PROVE FALSE
      BY <1>6 DEF PendInv
    <3>1. PICK z \in pending : HasRow(z) /\ TripleOf(z) = <<opens, s>>
      BY <1>5
    <3>2. s \in DOMAIN hold
      BY DEF Unended
    <3>3. CASE z.kind = "refused"
      BY <3>1, <3>2, <3>3 DEF PendInv, TripleOf
    <3>4. CASE z.kind # "refused"
      BY <3>1, <3>4 DEF PendInv, TripleOf, HasRow
    <3> QED
      BY <3>3, <3>4
  <2>4. pending' \subseteq pending
    BY <1>6
  <2> QED
    BY <1>6, <1>9, <1>11, <1>12, <2>1, <2>2, <2>3, <2>4 DEF PendInv
<1>17. OwedInv'
  <2> SUFFICES ASSUME Open4Work
               PROVE  /\ Cardinality(Forgotten') <= unowed'
                      /\ \A t \in RowsOf(OnDisk \cup OnTheWay) : Owed(t)'
    BY <1>6, <1>8 DEF OwedInv, Open4Work
  <2>1. Cardinality(Forgotten') <= unowed'
    BY <1>6, <1>12 DEF OwedInv
  <2>2. ASSUME NEW t \in RowsOf(OnDisk \cup OnTheWay) PROVE Owed(t)'
    <3>1. Owed(t)
      BY DEF OwedInv
    <3>2. CASE t \in known
      BY <1>6, <3>2 DEF Owed
    <3>3. ASSUME NEW y \in pending, HasRow(y), TripleOf(y) = t
          PROVE  Owed(t)'
      <4>1. CASE y \in mine
        <5>1. t \in fresh
          BY <1>5, <3>3, <4>1
        <5> QED
          BY <1>6, <5>1 DEF Owed
      <4>2. CASE y \notin mine
        BY <1>6, <1>9, <3>3, <4>2 DEF Owed
      <4> QED
        BY <4>1, <4>2
    <3>4. ASSUME NEW s \in Unended \cup Forgotten, hold[s].base, t = <<opens, s>>
          PROVE  Owed(t)'
      <4>1. s \in Unended' \cup Forgotten' /\ hold'[s].base
        BY <1>10, <1>12, <3>4 DEF Unended, Forgotten
      <4> QED
        BY <1>6, <3>4, <4>1 DEF Owed
    <3> QED
      BY <3>1, <3>2, <3>3, <3>4 DEF Owed
  <2> QED
    BY <2>1, <2>2
<1> QED
  BY <1>15, <1>16, <1>17

LEMMA ClosesOut ==
  ASSUME IInv, IInv', OutInv, Closes
  PROVE  OutInv'
<1> USE DEF OutInv
<1>1. PICK g \in Seq(Line) :
        /\ g = CloseLines
        /\ Books(g, nextSeq - 1)
        /\ \A i \in 1..Len(g) : g[i].ref \in Unended
  BY CloseLinesAre DEF IInv
<1>2. /\ up /\ ~closing /\ closing' = TRUE
      /\ queue' = queue \o Append(g, Close)
      /\ pending' \subseteq pending \cup Range(g)
      /\ UNCHANGED <<file, up, opens, outbox, known, ackDue, writer, unowed>>
  BY <1>1 DEF Closes, history
<1>3. hold' = [s \in DOMAIN hold |->
                 IF s \in Unended THEN Resolving(hold[s], EndOutcome(hold[s].state)) ELSE hold[s]]
  BY DEF Closes
<1>4. DOMAIN hold' = DOMAIN hold
  BY <1>3
<1>5. Unended' = {}
  BY <1>2 DEF IInv, HoldInv
<1>6. \A x \in Range(g) : /\ x \in Line /\ Resolves(x) /\ x.ref \in Unended
                          /\ x.kind \notin {"opened", "reserved", "refused", "lineage-acked"}
                          /\ TripleOf(x) = <<opens, x.ref>>
  <2> TAKE x \in Range(g)
  <2>1. PICK i \in 1..Len(g) : x = g[i]
    BY RangeIs
  <2>2. Resolves(x) /\ x.ref \in Unended
    BY <1>1, <2>1 DEF Books
  <2>3. x.kind \notin {"opened", "reserved", "refused", "lineage-acked"}
    BY <2>2, Kinds DEF Resolves
  <2>4. x \in Line
    BY RangeIs
  <2> QED
    BY <2>2, <2>3, <2>4 DEF TripleOf
<1>7. \A x, y \in Range(g) : x.ref = y.ref => x = y
  <2> TAKE x, y \in Range(g)
  <2>1. PICK i \in 1..Len(g) : x = g[i]
    BY RangeIs
  <2>2. PICK j \in 1..Len(g) : y = g[j]
    BY RangeIs
  <2> QED
    BY <1>1, <2>1, <2>2 DEF Books
<1>8. OnDisk' = OnDisk /\ OnTheWay' = OnTheWay \cup Range(g)
  <2> DEFINE all == queue \o g
             S == Line \cup {Close}
  <2>1. queue \in Seq(Line) /\ Lines(queue) = queue
    BY <1>2, NotClosed DEF IInv
  <2>2. all \in Seq(Line) /\ Range(all) = Range(queue) \cup Range(g)
    BY <2>1, BeforeConcat
  <2>3. queue' = Append(all, Close)
    <3>1. queue \in Seq(S) /\ g \in Seq(S) /\ all \in Seq(S) /\ <<Close>> \in Seq(S) /\ Close \in S
      BY <2>1, <2>2, SeqMonotonic
    <3> HIDE DEF S
    <3>2. Append(g, Close) = g \o <<Close>> /\ Append(all, Close) = all \o <<Close>>
      BY <3>1, AppendIsConcat
    <3>3. PICK c \in Seq(S) : c = <<Close>>
      BY <3>1
    <3>4. (queue \o g) \o c = queue \o (g \o c)
      BY <3>1, ConcatAssociative
    <3> QED
      BY <1>2, <3>2, <3>3, <3>4
  <2>4. PICK q \in Seq(Line) : q = all
    BY <2>2
  <2>5. Lines(queue') = q
    BY <2>3, <2>4, LinesClosed
  <2> HIDE DEF all
  <2> QED
    BY <1>2, <2>1, <2>2, <2>4, <2>5 DEF OnDisk, OnTheWay
<1>9. DebtInv'
  <2>1. unowed \in Nat /\ unowed' \in Nat /\ unowed <= unowed'
    BY <1>2 DEF DebtInv
  <2>2. known' \ outbox' \subseteq AckedBy(OnDisk')
    BY <1>2, <1>8 DEF DebtInv
  <2>3. \A y \in OnDisk' \cup OnTheWay' :
          y \in OnDisk \cup OnTheWay \/ y.kind \notin {"reserved", "refused"}
    BY <1>6, <1>8
  <2> QED
    BY <1>2, <1>8, <2>1, <2>2, <2>3, DebtKept
<1>10. \A y : TripleOf(y)' = TripleOf(y)
  BY <1>2 DEF TripleOf
<1>11. ASSUME NEW x \in Range(g), NEW y \in pending, HasRow(y)
       PROVE  TripleOf(x) # TripleOf(y)
  <2>1. x.ref \in Unended /\ x.ref \in DOMAIN hold /\ TripleOf(x) = <<opens, x.ref>>
    BY <1>6 DEF Unended
  <2>2. CASE y.kind = "refused"
    BY <2>1, <2>2 DEF PendInv, TripleOf
  <2>3. CASE y.kind # "refused"
    BY <1>11, <2>1, <2>3 DEF PendInv, TripleOf, HasRow
  <2> QED
    BY <2>2, <2>3
<1>12. PendInv'
  <2>1. IsFiniteSet(pending')
    <3>1. IsFiniteSet(pending \cup Range(g))
      BY RangeFinite, FS_Union DEF PendInv
    <3> QED
      BY <1>2, <3>1, FS_Subset
  <2>2. ASSUME NEW y \in pending'
        PROVE  /\ HasRow(y) => TripleOf(y) \notin known
               /\ y.kind = "refused" => y.seq \notin DOMAIN hold
               /\ \A z \in pending' : HasRow(y) /\ HasRow(z) /\ TripleOf(y) = TripleOf(z) => y = z
    <3>1. CASE y \in Range(g)
      <4>1. TripleOf(y) \notin known /\ y.kind # "refused"
        BY <1>6, <3>1 DEF PendInv
      <4>2. \A z \in pending' : HasRow(y) /\ HasRow(z) /\ TripleOf(y) = TripleOf(z) => y = z
        <5> TAKE z \in pending'
        <5>1. CASE z \in Range(g)
          <6>1. TripleOf(y) = TripleOf(z) => y.ref = z.ref
            BY <1>6, <3>1, <5>1
          <6> QED
            BY <1>7, <3>1, <5>1, <6>1
        <5>2. CASE z \in pending
          BY <1>11, <3>1, <5>2
        <5> QED
          BY <1>2, <5>1, <5>2
      <4> QED
        BY <4>1, <4>2
    <3>2. CASE y \in pending
      BY <1>2, <1>11, <3>2 DEF PendInv
    <3> QED
      BY <1>2, <3>1, <3>2
  <2> QED
    BY <1>2, <1>4, <1>5, <1>10, <2>1, <2>2 DEF PendInv
<1>13. OwedInv'
  BY <1>2 DEF OwedInv, Open4Work
<1> QED
  BY <1>9, <1>12, <1>13

\* A process that is gone, or a new one, has nothing in memory but what the file says.
LEMMA FreshOut ==
  ASSUME IInv, IInv', OutInv,
         OnTheWay' = {}, OnDisk \subseteq OnDisk',
         \A x \in OnDisk' :
           x \in OnDisk \cup OnTheWay \/ x.kind \notin {"reserved", "refused"},
         hold' = <<>>, pending' = {}, ackDue' = {}, unowed' = unowed,
         known' \ outbox' \subseteq AckedBy(OnDisk'),
         up' => AckedBy(OnDisk') \subseteq known' \ outbox',
         up' => \A t \in RowsOf(OnDisk') : t \in known'
  PROVE  OutInv'
<1> USE DEF OutInv
<1>1. DOMAIN hold' = {} /\ Unended' = {} /\ Forgotten' = {}
  <2>1. DOMAIN hold' = {}
    OBVIOUS
  <2> QED
    BY <2>1 DEF Unended, Forgotten
<1>2. unowed \in Nat /\ unowed' \in Nat /\ unowed <= unowed'
  BY DEF DebtInv
<1>3. Done \subseteq Done'
  <2>1. AckedBy(OnDisk) \subseteq AckedBy(OnDisk')
    BY AckedMore
  <2> QED
    BY <2>1 DEF Done, DebtInv
<1>4. DebtInv'
  <2>1. Cardinality(Debt') <= OutboxMax + unowed'
    BY <1>2, <1>3, DebtStays
  <2> QED
    BY <1>2, <2>1 DEF DebtInv
<1>5. PendInv'
  BY <1>1, FS_EmptySet DEF PendInv
<1>6. OwedInv'
  <2>1. Cardinality(Forgotten') <= unowed'
    BY <1>1, <1>2, FS_EmptySet
  <2> QED
    BY <2>1 DEF OwedInv, Owed, Open4Work
<1> QED
  BY <1>4, <1>5, <1>6

LEMMA DiesOut ==
  ASSUME IInv, IInv', OutInv, Dies
  PROVE  OutInv'
<1>1. /\ up' = FALSE /\ file' \in Survivors /\ hold' = <<>> /\ queue' = <<>> /\ pending' = {}
      /\ ackDue' = {} /\ outbox' = {} /\ known' = {} /\ writer' = Idle /\ unowed' = unowed
  BY DEF Dies, history
<1>2. OnDisk \subseteq OnDisk' /\ OnDisk' \subseteq OnDisk \cup OnTheWay
  BY <1>1, SurvivorIs DEF OnDisk, OnTheWay, IInv
<1>3. OnTheWay' = {}
  BY <1>1, EmptyIs DEF OnTheWay, Idle
<1> QED
  BY <1>1, <1>2, <1>3, FreshOut

LEMMA OpenDiesOut ==
  ASSUME IInv, IInv', OutInv, OpenDies
  PROVE  OutInv'
<1>1. ~up /\ UNCHANGED <<up, hold, queue, pending, outbox, known, ackDue, writer, unowed>>
  BY DEF OpenDies, ledgerVars, history
<1>2. PICK b \in Seq(Line) :
           /\ b = OpenBatch(file, opens + 1)
           /\ \A x \in Range(b) : \/ x.kind = "opened" /\ x.epoch = opens + 1
                                  \/ x.kind = "uncertain"
  BY <1>1, OpenBatchIs
<1>3. PICK k \in 0..Len(b) : file' = file \o SubSeq(b, 1, k)
  BY <1>2 DEF OpenDies
<1>4. PICK g, h \in Seq(Line) : g = SubSeq(b, 1, k) /\ b = g \o h
  BY Split
<1>5. file \in Seq(Line) /\ OnDisk = Range(file)
  BY FileGood DEF OnDisk, IInv
<1>6. OnDisk' = OnDisk \cup Range(g) /\ Range(g) \subseteq Range(b)
  <2>1. file' = file \o g
    BY <1>3, <1>4
  <2>2. Range(file \o g) = Range(file) \cup Range(g)
    BY <1>5, BeforeConcat
  <2>3. Range(g \o h) = Range(g) \cup Range(h)
    BY BeforeConcat
  <2> QED
    BY <1>4, <1>5, <2>1, <2>2, <2>3 DEF OnDisk
<1>7. /\ hold = <<>> /\ queue = <<>> /\ pending = {}
      /\ ackDue = {} /\ writer = Idle /\ known = {} /\ outbox = {}
  BY <1>1 DEF Down, IInv
<1>8. OnTheWay' = {}
  BY <1>1, <1>7, EmptyIs DEF OnTheWay, Idle
<1> QED
  BY <1>1, <1>2, <1>6, <1>7, <1>8, FreshOut

LEMMA OpenOut ==
  ASSUME IInv, IInv', OutInv, Open
  PROVE  OutInv'
<1>1. ~up
  BY DEF Open
<1>2. PICK b \in Seq(Line) :
           /\ b = OpenBatch(file, opens + 1)
           /\ Good(file \o b)
           /\ \A x \in Range(b) : \/ x.kind = "opened" /\ x.epoch = opens + 1
                                  \/ x.kind = "uncertain"
           /\ \A r \in OpenHolds(file) : \E x \in Range(b) : Resolves(x) /\ x.ref = r.seq
  BY <1>1, OpenBatchIs
<1>3. PICK f : f = file \o b
  OBVIOUS
<1>4. /\ file' = f /\ up' = TRUE /\ hold' = <<>>
      /\ outbox' = Outbox(f) /\ known' = Known(f)
      /\ UNCHANGED <<queue, pending, ackDue, writer, unowed>>
  BY <1>2, <1>3 DEF Open, history
<1>5. file \in Seq(Line) /\ Good(file) /\ OnDisk = Range(file)
  BY FileGood DEF OnDisk, IInv
<1>6. f \in Seq(Line) /\ Good(f) /\ Range(f) = OnDisk \cup Range(b) /\ Range(f) \subseteq Line
  <2>1. f \in Seq(Line) /\ Range(f) = OnDisk \cup Range(b)
    BY <1>3, <1>5, BeforeConcat
  <2> QED
    BY <1>2, <1>3, <2>1, RangeIs
<1>7. OnDisk' = Range(f)
  BY <1>4 DEF OnDisk
<1>8. queue = <<>> /\ pending = {} /\ ackDue = {} /\ writer = Idle
  BY <1>1 DEF Down, IInv
<1>9. OnTheWay' = {}
  BY <1>4, <1>8, EmptyIs DEF OnTheWay, Idle
<1>10. \A t : t \in Known(f) <=> Named(Range(f), t)
  <2> TAKE t
  <2> QED
    BY <1>6, KnownIs
<1>11. AckedBy(Range(f)) \subseteq Known(f)
  <2> SUFFICES ASSUME NEW x \in Range(f), x.kind = "lineage-acked", NEW t \in x.refs
               PROVE  Named(Range(f), t)
    BY <1>10 DEF AckedBy
  <2>1. PICK F \in SUBSET Range(f) : Fits(F, x)
    BY <1>6, FitsAt
  <2>2. Named(F, t)
    BY <2>1 DEF Fits
  <2> QED
    BY <2>2, NamedMore
<1>12. known' \ outbox' = AckedBy(OnDisk')
  BY <1>4, <1>7, <1>11 DEF Outbox, AckedBy, Of
<1>13. \A t \in RowsOf(OnDisk') : t \in known'
  <2> SUFFICES ASSUME NEW x \in Range(f), x.kind = "refused" \/ (x.kind = "reserved" /\ x.base)
               PROVE  Named(Range(f), <<x.epoch, x.seq>>)
    BY <1>4, <1>7, <1>10 DEF RowsOf
  <2>1. CASE x.kind = "refused"
    BY <2>1 DEF Named
  <2>2. CASE x.kind = "reserved" /\ x.base
    <3>1. x \in OnDisk
      BY <1>2, <1>6, <2>2
    <3>2. PICK y \in Range(f) : Resolves(y) /\ y.ref = x.seq
      <4>1. CASE x \in OpenHolds(file)
        BY <1>2, <1>6, <4>1
      <4>2. CASE x \notin OpenHolds(file)
        BY <1>5, <1>6, <2>2, <3>1, <4>2 DEF OpenHolds, Held, Refs, Of, Resolves
      <4> QED
        BY <4>1, <4>2
    <3>3. PICK r \in Range(f) : r.kind = "reserved" /\ r.seq = y.ref /\ y.row = r.base
      BY <1>6, <3>2, ResolvesOnce
    <3>4. r = x
      BY <1>6, <3>2, <3>3, SeqUnique
    <3> QED
      BY <2>2, <3>2, <3>3, <3>4 DEF Named
  <2> QED
    BY <2>1, <2>2
<1>14. OnDisk \subseteq OnDisk' /\ \A x \in OnDisk' :
           x \in OnDisk \cup OnTheWay \/ x.kind \notin {"reserved", "refused"}
  BY <1>2, <1>6, <1>7
<1> QED
  BY <1>4, <1>8, <1>9, <1>12, <1>13, <1>14, FreshOut

LEMMA InitOut ==
  ASSUME Init
  PROVE  OutInv
<1> USE DEF Init
<1>1. OnDisk = {} /\ OnTheWay = {}
  BY EmptyIs DEF OnDisk, OnTheWay, Idle
<1>2. DOMAIN hold = {} /\ Unended = {}
  <2>1. DOMAIN hold = {}
    OBVIOUS
  <2> QED
    BY <2>1 DEF Unended
<1>3. DebtInv
  <2>1. Debt = {}
    BY <1>1 DEF Debt, RowsOf
  <2>2. Cardinality(Debt) = 0 /\ OutboxMax \in Nat
    BY <2>1, FS_EmptySet, LedgerAssumption
  <2> QED
    BY <2>2 DEF DebtInv
<1>4. PendInv
  BY <1>2, FS_EmptySet DEF PendInv
<1>5. OwedInv
  BY DEF OwedInv, Open4Work
<1> QED
  BY <1>3, <1>4, <1>5 DEF OutInv

LEMMA NextOut ==
  ASSUME IInv, IInv', OutInv, [Next]_vars
  PROVE  OutInv'
<1>1. ASSUME NEW s \in DOMAIN hold, Exchange(s)
      PROVE  OutInv'
  <2>1. CASE SendHead(s)
    BY <2>1, SendHeadOut
  <2>2. CASE WaitStalls(s)
    BY <2>2, OtherOut
  <2>3. CASE OwnerFails(s)
    BY <2>3, OwnerFailsOut
  <2>4. CASE Ends(s) \/ Settle(s)
    BY <2>4, EndsOut
  <2> QED
    BY <1>1, <2>1, <2>2, <2>3, <2>4 DEF Exchange
<1>2. CASE Open \/ OpenDies \/ Dies
  BY <1>2, OpenOut, OpenDiesOut, DiesOut
<1>3. CASE Admit \/ RefusedCloses
  BY <1>3, AdmitOut, RefusedClosesOut
<1>4. CASE Posted
  BY <1>4, PostedDurableOut, OtherOut DEF Posted
<1>5. CASE Writer \/ Sender
  BY <1>5, WriterOut, SenderOut
<1>6. CASE Closes \/ CloseTimesOut \/ UNCHANGED vars
  BY <1>6, ClosesOut, OtherOut
<1> QED
  BY <1>1, <1>2, <1>3, <1>4, <1>5, <1>6 DEF Next

\* outbox_committed is enough: the lineage rows without an acknowledgement, those of the process
\* and those that a crash at any step leaves to the next open with the holds it will have to book,
\* are never more than lineage_outbox_max, but for the holds that _owner_ended stranded alone.
THEOREM OutboxIsBounded == Spec => []OutboxBounded
<1>1. Init => OutInv
  BY InitOut
<1>2. IInv /\ IInv' /\ OutInv /\ [Next]_vars => OutInv'
  BY NextOut
<1>3. IInv /\ OutInv => OutboxBounded
  BY OutboxFollows
<1> QED
  BY <1>1, <1>2, <1>3, Invariance, PTL DEF Spec

-----------------------------------------------------------------------------
(* Sums of functions with natural values.                                  *)

Units(f) == UNION {{x} \X (1..f[x]) : x \in DOMAIN f}

LEMMA UnitIs ==
  ASSUME NEW f, NEW t
  PROVE  t \in Units(f) <=> \E x \in DOMAIN f : \E u \in 1..f[x] : t = <<x, u>>
  BY DEF Units

LEMMA UnitOf ==
  ASSUME NEW f, NEW x, NEW u
  PROVE  <<x, u>> \in Units(f) <=> x \in DOMAIN f /\ u \in 1..f[x]
  BY UnitIs

LEMMA TotalNat ==
  ASSUME NEW S, IsFiniteSet(S), NEW f \in [S -> Nat]
  PROVE  /\ IsFiniteSet(Units(f))
         /\ Total(f) = Cardinality(Units(f))
         /\ Total(f) \in Nat
<1> DEFINE P == {{x} \X (1..f[x]) : x \in S}
           g == [x \in S |-> {x} \X (1..f[x])]
<1>1. IsFiniteSet(P)
  <2>1. DOMAIN g = S /\ \A t \in P : \E x \in S : g[x] = t
    OBVIOUS
  <2> HIDE DEF g, P
  <2> QED
    BY <2>1, ImageIs
<1>2. \A T \in P : IsFiniteSet(T)
  <2> SUFFICES ASSUME NEW x \in S PROVE IsFiniteSet({x} \X (1..f[x]))
    OBVIOUS
  <2>1. f[x] \in Nat
    OBVIOUS
  <2>2. IsFiniteSet(1..f[x])
    BY <2>1, FS_Interval
  <2>3. IsFiniteSet({x})
    BY FS_Singleton
  <2> QED
    BY <2>2, <2>3, FS_Product
<1>3. IsFiniteSet(UNION P)
  <2> HIDE DEF P
  <2> QED
    BY <1>1, <1>2, FS_UNION
<1>4. Units(f) = UNION P
  BY DEF Units
<1>5. Total(f) = Cardinality(Units(f))
  BY DEF Total, Units
<1> QED
  BY <1>3, <1>4, <1>5, FS_CardinalityType

LEMMA TwoParts ==
  ASSUME NEW A, NEW B, IsFiniteSet(A), IsFiniteSet(B), A \cap B = {}
  PROVE  Cardinality(A \cup B) = Cardinality(A) + Cardinality(B)
<1> DEFINE a == Cardinality(A)
           b == Cardinality(B)
           n == Cardinality(A \cup B)
<1>1. Cardinality(A \cap B) = 0
  BY FS_EmptySet
<1>2. n = a + b - Cardinality(A \cap B)
  BY FS_Union
<1>3. a \in Nat /\ b \in Nat
  BY FS_CardinalityType
<1> HIDE DEF a, b, n
<1>4. n = a + b
  BY <1>1, <1>2, <1>3
<1> QED
  BY <1>4 DEF a, b, n

\* Wherever one of two functions is 0, the other is their sum.
LEMMA TotalJoin ==
  ASSUME NEW S, IsFiniteSet(S), NEW f \in [S -> Nat], NEW g \in [S -> Nat], NEW h \in [S -> Nat],
         \A x \in S : (f[x] = 0 /\ h[x] = g[x]) \/ (g[x] = 0 /\ h[x] = f[x])
  PROVE  Total(h) = Total(f) + Total(g)
<1>1. Units(h) = Units(f) \cup Units(g)
  <2>1. ASSUME NEW x \in S
        PROVE  1..h[x] = (1..f[x]) \cup (1..g[x])
    BY <2>1
  <2>2. \A t : t \in Units(h) <=> t \in Units(f) \cup Units(g)
    <3> TAKE t
    <3> QED
      BY <2>1, UnitIs
  <2> QED
    BY <2>2
<1>2. Units(f) \cap Units(g) = {}
  <2> SUFFICES ASSUME NEW t \in Units(f), t \in Units(g) PROVE FALSE
    OBVIOUS
  <2>1. PICK x \in S : \E u \in 1..f[x] : t = <<x, u>>
    BY UnitIs
  <2>2. t[1] = x /\ t[2] \in 1..f[x]
    BY <2>1
  <2>3. PICK y \in S : \E u \in 1..g[y] : t = <<y, u>>
    BY UnitIs
  <2>4. t[1] = y /\ t[2] \in 1..g[y]
    BY <2>3
  <2> QED
    BY <2>2, <2>4
<1>3. IsFiniteSet(Units(f)) /\ IsFiniteSet(Units(g))
  BY TotalNat
<1>4. Cardinality(Units(h)) = Cardinality(Units(f)) + Cardinality(Units(g))
  BY <1>1, <1>2, <1>3, TwoParts
<1> QED
  BY <1>4, TotalNat

\* Where a function is 0 it adds nothing.
LEMMA TotalWide ==
  ASSUME NEW S, NEW T, S \subseteq T, NEW f \in [S -> Nat], NEW g \in [T -> Nat],
         \A x \in T : g[x] = IF x \in S THEN f[x] ELSE 0
  PROVE  Total(f) = Total(g)
<1>1. \A t : t \in Units(f) <=> t \in Units(g)
  <2> TAKE t
  <2> QED
    BY UnitIs
<1>2. Units(f) = Units(g)
  BY <1>1
<1> QED
  BY <1>2 DEF Total, Units

LEMMA TotalLess ==
  ASSUME NEW S, NEW T, IsFiniteSet(T), S \subseteq T, NEW f \in [S -> Nat], NEW g \in [T -> Nat],
         \A x \in S : f[x] <= g[x]
  PROVE  Total(f) <= Total(g)
<1>1. \A t : t \in Units(f) => t \in Units(g)
  <2> SUFFICES ASSUME NEW t \in Units(f) PROVE t \in Units(g)
    OBVIOUS
  <2>1. PICK x \in S : \E u \in 1..f[x] : t = <<x, u>>
    BY UnitIs
  <2>2. x \in T /\ \A u \in 1..f[x] : u \in 1..g[x]
    BY <2>1
  <2> QED
    BY <2>1, <2>2, UnitIs
<1>2. Units(f) \in SUBSET Units(g)
  BY <1>1
<1>3. IsFiniteSet(Units(g)) /\ Total(g) = Cardinality(Units(g))
  BY TotalNat
<1>4. Cardinality(Units(f)) <= Cardinality(Units(g))
  BY <1>2, <1>3, FS_Subset
<1> QED
  BY <1>3, <1>4 DEF Total, Units

LEMMA TotalRenamed ==
  ASSUME NEW S, IsFiniteSet(S), NEW T, NEW h \in [S -> T],
         \A x, y \in S : h[x] = h[y] => x = y,
         \A t \in T : \E x \in S : h[x] = t,
         NEW f \in [S -> Nat], NEW g \in [T -> Nat],
         \A x \in S : f[x] = g[h[x]]
  PROVE  Total(f) = Total(g)
<1> DEFINE m == [t \in Units(f) |-> <<h[t[1]], t[2]>>]
<1>1. \A t \in Units(f) : t[1] \in S /\ t[2] \in 1..f[t[1]] /\ t = <<t[1], t[2]>>
  <2> TAKE t \in Units(f)
  <2>1. PICK x \in S : \E u \in 1..f[x] : t = <<x, u>>
    BY UnitIs
  <2> QED
    BY <2>1
<1>2. \A t \in Units(f) : m[t] \in Units(g)
  <2> TAKE t \in Units(f)
  <2>1. h[t[1]] \in T /\ t[2] \in 1..g[h[t[1]]]
    BY <1>1
  <2> QED
    BY <2>1, UnitOf
<1>3. ASSUME NEW t \in Units(f), NEW v \in Units(f), m[t] = m[v] PROVE t = v
  <2>1. <<h[t[1]], t[2]>> = <<h[v[1]], v[2]>>
    BY <1>3
  <2>2. h[t[1]] = h[v[1]] /\ t[2] = v[2]
    BY <2>1
  <2>3. t[1] = v[1]
    BY <1>1, <2>2
  <2> QED
    BY <1>1, <2>2, <2>3
<1>4. ASSUME NEW w \in Units(g) PROVE \E t \in Units(f) : m[t] = w
  <2>1. PICK y \in T : \E u \in 1..g[y] : w = <<y, u>>
    BY UnitIs
  <2>2. PICK x \in S : h[x] = y
    OBVIOUS
  <2>5. PICK u \in 1..g[y] : w = <<y, u>>
    BY <2>1
  <2>3. <<x, u>> \in Units(f)
    BY <2>2, UnitOf
  <2>4. m[<<x, u>>] = w
    BY <2>2, <2>3, <2>5
  <2> QED
    BY <2>3, <2>4
<1>5. m \in [Units(f) -> Units(g)]
  BY <1>2
<1> HIDE DEF m
<1>6. m \in Bijection(Units(f), Units(g))
  BY <1>3, <1>4, <1>5 DEF Bijection, Injection, Surjection, IsInjective
<1>7. IsFiniteSet(Units(f)) /\ Total(f) = Cardinality(Units(f))
  BY TotalNat
<1>8. Cardinality(Units(g)) = Cardinality(Units(f))
  BY <1>6, <1>7, FS_Bijection DEF ExistsBijection
<1> QED
  BY <1>7, <1>8 DEF Total, Units

LEMMA TotalSplit ==
  ASSUME NEW S, IsFiniteSet(S), NEW A, NEW B, A \cup B = S, A \cap B = {},
         NEW f \in [S -> Nat], NEW g \in [A -> Nat], NEW h \in [B -> Nat],
         \A x \in A : g[x] = f[x],
         \A x \in B : h[x] = f[x]
  PROVE  Total(f) = Total(g) + Total(h)
<1>1. Units(f) = Units(g) \cup Units(h)
  <2>1. \A t : t \in Units(f) <=> t \in Units(g) \cup Units(h)
    <3> TAKE t
    <3> QED
      BY UnitIs
  <2> QED
    BY <2>1
<1>2. Units(g) \cap Units(h) = {}
  <2> SUFFICES ASSUME NEW t \in Units(g), t \in Units(h) PROVE FALSE
    OBVIOUS
  <2>1. PICK x \in A : \E u \in 1..g[x] : t = <<x, u>>
    BY UnitIs
  <2>2. PICK y \in B : \E u \in 1..h[y] : t = <<y, u>>
    BY UnitIs
  <2>3. t[1] = x /\ t[1] = y
    BY <2>1, <2>2
  <2> QED
    BY <2>3
<1>3. IsFiniteSet(A) /\ IsFiniteSet(B)
  <2>1. A \in SUBSET S /\ B \in SUBSET S
    OBVIOUS
  <2> QED
    BY <2>1, FS_Subset
<1>4. IsFiniteSet(Units(g)) /\ Total(g) = Cardinality(Units(g))
  BY <1>3, TotalNat
<1>5. IsFiniteSet(Units(h)) /\ Total(h) = Cardinality(Units(h))
  BY <1>3, TotalNat
<1>6. Cardinality(Units(f)) = Cardinality(Units(g)) + Cardinality(Units(h))
  BY <1>1, <1>2, <1>4, <1>5, TwoParts
<1> QED
  BY <1>4, <1>5, <1>6 DEF Total, Units

-----------------------------------------------------------------------------
(* What a scope is charged.                                                *)

Bookings(F, r) == {x \in F : Resolves(x) /\ x.ref = r.seq}

\* What is lost with an uncertain hold.
Lost(kind, amount) == IF kind = "uncertain" THEN amount ELSE 0

\* What a hold costs by the lines of a file, and by the memory of the loop.
Debit(F, r) ==
  IF Bookings(F, r) = {} THEN r.amount
  ELSE LET x == CHOOSE x \in Bookings(F, r) : TRUE IN x.settled + Lost(x.kind, r.amount)
Owing(row) ==
  IF row.state # "resolved" THEN row.amount
  ELSE row.outcome.settled + Lost(row.outcome.kind, row.amount)

FileBook(f, c) == [r \in {x \in Held(f) : x.scope = c} |-> Debit(Range(f), r)]

\* The holds of this process, and of those before it.
Ours == {HeldLine(s) : s \in DOMAIN hold}
Theirs == {r \in OnDisk : r.kind = "reserved" /\ r.seq \notin DOMAIN hold}
Book(c) ==
  [r \in {x \in Ours \cup Theirs : x.scope = c} |->
     IF r.seq \in DOMAIN hold THEN Owing(hold[r.seq]) ELSE Debit(OnDisk, r)]

AccRow == [settled : Int, overrun : Nat, restart : Int, other : Int, outstanding : Int]
Net(a) == a.settled + a.restart + a.other + a.outstanding

\* Only a settlement books less than all.
Plain(F) == \A x \in F : Resolves(x) /\ x.kind # "settled" => x.settled = 0

MoneyInv ==
  /\ Plain(OnDisk \cup OnTheWay)
  /\ \A x \in OnDisk \cup OnTheWay : Resolves(x) /\ x.ref \in DOMAIN hold =>
       x.kind = hold[x.ref].outcome.kind /\ x.settled = hold[x.ref].outcome.settled
  /\ \A s \in DOMAIN hold :
       hold[s].state = "resolved" => \E x \in OnDisk : Resolves(x) /\ x.ref = s
  /\ up => \A r \in Theirs : Bookings(OnDisk, r) # {}
  /\ acc \in [Scopes -> AccRow]
  /\ \A c \in Scopes : /\ Total(Book(c)) <= Cap
                       /\ Net(acc[c]) = IF up THEN Total(Book(c)) ELSE 0

LEMMA BookedAs ==
  ASSUME NEW f \in Seq(Line), Good(f), NEW F, F \subseteq Range(f), NEW r,
         NEW x \in F, Resolves(x), x.ref = r.seq
  PROVE  /\ Bookings(F, r) = {x}
         /\ Debit(F, r) = x.settled + Lost(x.kind, r.amount)
         /\ F = Range(f) => EndOf(f, r) = x
<1>1. \A y \in F : Resolves(y) /\ y.ref = r.seq => y = x
  BY ResolvesOnce
<1>2. Bookings(F, r) = {x}
  BY <1>1 DEF Bookings
<1>3. F = Range(f) => EndOf(f, r) = x
  BY <1>1 DEF EndOf, Of, Resolves
<1> QED
  BY <1>2, <1>3 DEF Debit

LEMMA DebitIs ==
  ASSUME NEW f \in Seq(Line), Good(f), NEW F, F \subseteq Range(f), Plain(F),
         NEW r \in Range(f), r.kind = "reserved"
  PROVE  /\ Debit(F, r) \in Nat /\ Debit(F, r) <= r.amount
         /\ \A x \in F : Resolves(x) /\ x.ref = r.seq => Debit(F, r) = x.settled + Lost(x.kind, r.amount)
         /\ Bookings(F, r) = {} => Debit(F, r) = r.amount
<1>1. Range(f) \subseteq Line /\ r.amount \in Nat
  BY RangeIs, LineFacts
<1>2. CASE Bookings(F, r) = {}
  <2>1. Debit(F, r) = r.amount
    BY <1>2 DEF Debit
  <2>2. \A x \in F : ~(Resolves(x) /\ x.ref = r.seq)
    BY <1>2 DEF Bookings
  <2> QED
    BY <1>1, <2>1, <2>2
<1>3. ASSUME NEW x \in F, Resolves(x), x.ref = r.seq
      PROVE  /\ Debit(F, r) = x.settled + Lost(x.kind, r.amount)
             /\ Debit(F, r) \in Nat /\ Debit(F, r) <= r.amount
  <2>0. Bookings(F, r) = {x}
    BY <1>3, BookedAs
  <2>1. Debit(F, r) = x.settled + Lost(x.kind, r.amount)
    BY <2>0 DEF Debit
  <2>2. PICK q \in Range(f) : q.kind = "reserved" /\ q.seq = x.ref /\ x.settled <= q.amount
    BY <1>3, ResolvesOnce
  <2>3. q = r
    BY <1>3, <2>2, SeqUnique
  <2>4. x.settled \in Nat /\ x.settled <= r.amount
    BY <1>1, <1>3, <2>2, <2>3, LineFacts
  <2>5. x.kind = "uncertain" => x.settled = 0
    BY <1>3 DEF Plain
  <2> DEFINE a == x.settled
             b == r.amount
             d == Debit(F, r)
  <2>6. d = a + (IF x.kind = "uncertain" THEN b ELSE 0)
    BY <2>1 DEF Lost
  <2>7. a \in Nat /\ b \in Nat /\ a <= b /\ (x.kind = "uncertain" => a = 0)
    BY <1>1, <2>4, <2>5
  <2> HIDE DEF a, b, d
  <2>8. d \in Nat /\ d <= b
    BY <2>6, <2>7
  <2> QED
    BY <2>1, <2>8 DEF b, d
<1>4. CASE Bookings(F, r) # {}
  <2>1. \E x \in F : Resolves(x) /\ x.ref = r.seq
    BY <1>4 DEF Bookings
  <2> QED
    BY <1>3, <1>4, <2>1
<1> QED
  BY <1>2, <1>4

LEMMA HeldFinite ==
  ASSUME NEW f \in Seq(Line)
  PROVE  /\ Held(f) \subseteq Range(f) /\ IsFiniteSet(Held(f))
         /\ \A r \in Held(f) : r \in Line /\ r.kind = "reserved" /\ r.amount \in Nat
<1>1. Held(f) \subseteq Range(f) /\ \A r \in Held(f) : r.kind = "reserved"
  BY DEF Held, Of
<1>2. IsFiniteSet(Range(f)) /\ Range(f) \subseteq Line
  BY RangeFinite, RangeIs
<1>3. Held(f) \in SUBSET Range(f)
  BY <1>1
<1>4. \A r \in Held(f) : r \in Line /\ r.amount \in Nat
  BY <1>1, <1>2, LineFacts
<1> QED
  BY <1>1, <1>2, <1>3, <1>4, FS_Subset

\* The sums of the replay are those of its holds.
LEMMA ReplayedParts ==
  ASSUME NEW f \in Seq(Line), Good(f), Plain(Range(f)), NEW r \in Held(f)
  PROVE  /\ r \in OpenHolds(f) => Debit(Range(f), r) = r.amount
         /\ r \notin OpenHolds(f) =>
              /\ EndOf(f, r).settled \in Nat /\ EndOf(f, r).overrun \in Nat
              /\ EndOf(f, r).restart \in BOOLEAN
              /\ EndOf(f, r).kind = "uncertain" =>
                   EndOf(f, r).settled = 0 /\ Debit(Range(f), r) = r.amount
              /\ EndOf(f, r).kind # "uncertain" => Debit(Range(f), r) = EndOf(f, r).settled
         /\ r.amount \in Nat /\ Debit(Range(f), r) \in Nat
<1>1. /\ r \in Range(f) /\ Range(f) \subseteq Line
      /\ r \in Line /\ r.kind = "reserved" /\ r.amount \in Nat
  BY HeldFinite, RangeIs
<1>2. Debit(Range(f), r) \in Nat
  BY <1>1, DebitIs
<1>3. CASE r \in OpenHolds(f)
  <2>1. r.seq \notin Refs(f)
    BY <1>3 DEF OpenHolds
  <2>2. Bookings(Range(f), r) = {}
    BY <2>1 DEF Bookings, Refs, Of, Resolves
  <2> QED
    BY <1>1, <1>2, <1>3, <2>2 DEF Debit
<1>4. CASE r \notin OpenHolds(f)
  <2>1. r.seq \in Refs(f)
    BY <1>4 DEF OpenHolds
  <2>2. PICK x \in Range(f) : x.kind \in Resolutions /\ x.ref = r.seq
    BY <2>1 DEF Refs, Of
  <2>3. Resolves(x) /\ x \in Line
    BY <1>1, <2>2 DEF Resolves
  <2>4. EndOf(f, r) = x /\ Bookings(Range(f), r) = {x}
    BY <2>2, <2>3, BookedAs
  <2>5. x.settled \in Nat /\ x.overrun \in Nat
    BY <2>3, LineFacts
  <2>6. x.restart \in BOOLEAN
    BY <2>3, Kinds DEF Line, OpenedLine, ReservedLine, ResolutionLine, RefusedLine, AckedLine, Resolves
  <2>7. x.kind = "uncertain" => x.settled = 0
    BY <2>2, <2>3 DEF Plain
  <2> DEFINE d == Debit(Range(f), r)
  <2>8. d = x.settled + (IF x.kind = "uncertain" THEN r.amount ELSE 0)
    BY <2>4 DEF Debit, Lost
  <2> HIDE DEF d
  <2>9. /\ x.kind = "uncertain" => d = r.amount
        /\ x.kind # "uncertain" => d = x.settled
    BY <1>1, <2>5, <2>7, <2>8
  <2> QED
    BY <1>1, <1>2, <1>4, <2>4, <2>5, <2>6, <2>7, <2>9 DEF d
<1> QED
  BY <1>3, <1>4

\* What is booked on some holds: what open ones hold, what ended ones settled, what was lost
\* with the uncertain ones of them.
AddsUp(mine, open, ended, lost, lostT, lostF, b, e, o, t, u) ==
  /\ IsFiniteSet(mine)
  /\ open \cup ended = mine /\ open \cap ended = {}
  /\ lost \subseteq ended /\ lostT \cup lostF = lost /\ lostT \cap lostF = {}
  /\ b \in [mine -> Nat] /\ e \in [ended -> Nat] /\ o \in [open -> Nat]
  /\ t \in [lostT -> Nat] /\ u \in [lostF -> Nat]
  /\ \A x \in open : b[x] = o[x]
  /\ \A x \in lostT : b[x] = t[x] /\ e[x] = 0
  /\ \A x \in lostF : b[x] = u[x] /\ e[x] = 0
  /\ \A x \in ended : x \in lost \/ b[x] = e[x]

LEMMA FourSums ==
  ASSUME NEW mine, NEW open, NEW ended, NEW lost, NEW lostT, NEW lostF,
         NEW b, NEW e, NEW o, NEW t, NEW u,
         AddsUp(mine, open, ended, lost, lostT, lostF, b, e, o, t, u)
  PROVE  /\ Total(b) = Total(o) + (Total(e) + (Total(t) + Total(u)))
         /\ Total(o) \in Nat /\ Total(e) \in Nat /\ Total(t) \in Nat /\ Total(u) \in Nat
<1>a. /\ IsFiniteSet(mine)
      /\ open \cup ended = mine /\ open \cap ended = {}
      /\ b \in [mine -> Nat] /\ o \in [open -> Nat]
      /\ \A x \in open : b[x] = o[x]
  BY DEF AddsUp
<1>b. /\ lost \subseteq ended /\ lostT \cup lostF = lost /\ lostT \cap lostF = {}
      /\ t \in [lostT -> Nat] /\ u \in [lostF -> Nat] /\ e \in [ended -> Nat]
      /\ \A x \in lostT : b[x] = t[x] /\ e[x] = 0
      /\ \A x \in lostF : b[x] = u[x] /\ e[x] = 0
      /\ \A x \in ended : x \in lost \/ b[x] = e[x]
  BY DEF AddsUp
<1>1. IsFiniteSet(open) /\ IsFiniteSet(ended) /\ IsFiniteSet(lostT) /\ IsFiniteSet(lostF)
  <2>1. \A X : X \subseteq mine => IsFiniteSet(X)
    BY <1>a, FS_Subset
  <2>2. open \subseteq mine /\ ended \subseteq mine /\ lostT \subseteq mine /\ lostF \subseteq mine
    BY <1>a, <1>b
  <2> QED
    BY <1>a, <2>1, <2>2
<1>2. PICK c \in [ended -> Nat] : \A x \in ended : c[x] = b[x]
  <2>1. [x \in ended |-> b[x]] \in [ended -> Nat]
    BY <1>a, <1>b
  <2> QED
    BY <2>1
<1>3. PICK l \in [ended -> Nat] : \A x \in ended : l[x] = IF x \in lost THEN b[x] ELSE 0
  <2> DEFINE L == [x \in ended |-> IF x \in lost THEN b[x] ELSE 0]
  <2>1. L \in [ended -> Nat] /\ \A x \in ended : L[x] = IF x \in lost THEN b[x] ELSE 0
    BY <1>a, <1>b
  <2> HIDE DEF L
  <2> QED
    BY <2>1
<1>4. PICK m \in [lost -> Nat] : \A x \in lost : m[x] = b[x]
  <2> DEFINE M == [x \in lost |-> b[x]]
  <2>1. M \in [lost -> Nat] /\ \A x \in lost : M[x] = b[x]
    BY <1>a, <1>b
  <2> HIDE DEF M
  <2> QED
    BY <2>1
<1>5. Total(b) = Total(o) + Total(c)
  BY <1>a, <1>2, TotalSplit
<1>6. Total(c) = Total(e) + Total(l)
  <2>1. \A x \in ended : (e[x] = 0 /\ c[x] = l[x]) \/ (l[x] = 0 /\ c[x] = e[x])
    BY <1>b, <1>2, <1>3
  <2> QED
    BY <1>1, <1>2, <1>3, <1>b, <2>1, TotalJoin
<1>7. Total(m) = Total(l)
  BY <1>3, <1>4, <1>b, TotalWide
<1>8. Total(m) = Total(t) + Total(u)
  <2>1. IsFiniteSet(lost)
    BY <1>1, <1>b, FS_Union
  <2>2. (\A x \in lostT : t[x] = m[x]) /\ (\A x \in lostF : u[x] = m[x])
    BY <1>4, <1>b
  <2> QED
    <3>1. /\ lostT \cup lostF = lost /\ lostT \cap lostF = {}
          /\ t \in [lostT -> Nat] /\ u \in [lostF -> Nat] /\ m \in [lost -> Nat]
      BY <1>4, <1>a, <1>b
    <3> QED
      BY <2>1, <2>2, <3>1, TotalSplit, Z3T(30)
<1>9. Total(o) \in Nat /\ Total(e) \in Nat /\ Total(t) \in Nat /\ Total(u) \in Nat
  BY <1>1, <1>a, <1>b, TotalNat
<1> QED
  BY <1>5, <1>6, <1>7, <1>8, <1>9

-----------------------------------------------------------------------------
\* The sums of the replay are those of its holds.
LEMMA ReplayedNet ==
  ASSUME NEW f \in Seq(Line), Good(f), Plain(Range(f)), NEW c
  PROVE  /\ ReplayedAcc(f, c) \in AccRow
         /\ Net(ReplayedAcc(f, c)) = Total(FileBook(f, c))
         /\ IsFiniteSet({r \in Held(f) : r.scope = c})
         /\ FileBook(f, c) \in [{r \in Held(f) : r.scope = c} -> Nat]
<1>a. PICK mine, open, ended :
        /\ mine = {r \in Held(f) : r.scope = c}
        /\ open = mine \cap OpenHolds(f)
        /\ ended = mine \ open
  OBVIOUS
<1>b. PICK lostT, lostF :
        /\ lostT = {r \in ended : EndOf(f, r).kind = "uncertain" /\ EndOf(f, r).restart = TRUE}
        /\ lostF = {r \in ended : EndOf(f, r).kind = "uncertain" /\ EndOf(f, r).restart = FALSE}
  OBVIOUS
<1>c. PICK lost : lost = lostT \cup lostF
  OBVIOUS
<1>1. /\ mine = {r \in Held(f) : r.scope = c}
      /\ open = mine \cap OpenHolds(f)
      /\ ended = mine \ open
      /\ lostT = {r \in ended : EndOf(f, r).kind = "uncertain" /\ EndOf(f, r).restart = TRUE}
      /\ lostF = {r \in ended : EndOf(f, r).kind = "uncertain" /\ EndOf(f, r).restart = FALSE}
      /\ lost = lostT \cup lostF
  BY <1>a, <1>b, <1>c
<1>2. PICK e, v, o, t, u, b :
        /\ e = [r \in ended |-> EndOf(f, r).settled]
        /\ v = [r \in ended |-> EndOf(f, r).overrun]
        /\ o = [r \in open |-> r.amount]
        /\ t = [r \in lostT |-> r.amount]
        /\ u = [r \in lostF |-> r.amount]
        /\ b = [r \in mine |-> Debit(Range(f), r)]
  OBVIOUS
<1>3. ReplayedAcc(f, c) = [settled |-> Total(e), overrun |-> Total(v),
                           restart |-> Total(t) + Total(o), other |-> Total(u),
                           outstanding |-> 0]
  BY <1>1, <1>2 DEF ReplayedAcc
<1>4. b = FileBook(f, c)
  BY <1>1, <1>2 DEF FileBook
<1>5. \A r \in mine :
        /\ r.amount \in Nat /\ b[r] \in Nat
        /\ r \in open => b[r] = r.amount
        /\ r \in ended => /\ EndOf(f, r).settled \in Nat /\ EndOf(f, r).overrun \in Nat
                          /\ EndOf(f, r).kind = "uncertain" =>
                               /\ EndOf(f, r).settled = 0 /\ b[r] = r.amount
                               /\ EndOf(f, r).restart \in BOOLEAN
                          /\ EndOf(f, r).kind # "uncertain" => b[r] = EndOf(f, r).settled
  <2> TAKE r \in mine
  <2>1. r \in Held(f) /\ b[r] = Debit(Range(f), r)
    BY <1>1, <1>2
  <2>2. (r \in open => r \in OpenHolds(f)) /\ (r \in ended => r \notin OpenHolds(f))
    BY <1>1
  <2> QED
    BY <2>1, <2>2, ReplayedParts
<1>6. IsFiniteSet(mine) /\ IsFiniteSet(ended)
  <2>1. mine \in SUBSET Held(f) /\ ended \in SUBSET mine
    BY <1>1
  <2> QED
    BY <2>1, HeldFinite, FS_Subset
<1>7. /\ ended \subseteq mine /\ open \subseteq mine
      /\ lost \subseteq ended /\ lostT \subseteq ended /\ lostF \subseteq ended
      /\ open \cup ended = mine /\ open \cap ended = {}
      /\ lostT \cup lostF = lost /\ lostT \cap lostF = {}
  BY <1>1
<1>8. \A x \in ended : x \in lost \/ EndOf(f, x).kind # "uncertain"
  BY <1>1, <1>5, <1>7
<1>9. /\ b \in [mine -> Nat] /\ e \in [ended -> Nat] /\ v \in [ended -> Nat]
      /\ o \in [open -> Nat] /\ t \in [lostT -> Nat] /\ u \in [lostF -> Nat]
  BY <1>2, <1>5, <1>7
<1>10. /\ \A x \in open : b[x] = o[x]
       /\ \A x \in lostT : b[x] = t[x] /\ e[x] = 0
       /\ \A x \in lostF : b[x] = u[x] /\ e[x] = 0
       /\ \A x \in ended : x \in lost \/ b[x] = e[x]
  <2>1. \A x \in open : b[x] = o[x]
    BY <1>2, <1>5, <1>7
  <2>2. \A x \in lostT : b[x] = t[x] /\ e[x] = 0
    <3> TAKE x \in lostT
    <3>1. x \in mine /\ x \in ended /\ EndOf(f, x).kind = "uncertain"
      BY <1>1
    <3> QED
      BY <1>2, <1>5, <3>1
  <2>3. \A x \in lostF : b[x] = u[x] /\ e[x] = 0
    <3> TAKE x \in lostF
    <3>1. x \in mine /\ x \in ended /\ EndOf(f, x).kind = "uncertain"
      BY <1>1
    <3> QED
      BY <1>2, <1>5, <3>1
  <2>4. \A x \in ended : x \in lost \/ b[x] = e[x]
    BY <1>2, <1>5, <1>7, <1>8
  <2> QED
    BY <2>1, <2>2, <2>3, <2>4
<1>11. /\ Total(b) = Total(o) + (Total(e) + (Total(t) + Total(u)))
       /\ Total(o) \in Nat /\ Total(e) \in Nat /\ Total(t) \in Nat /\ Total(u) \in Nat
  <2>1. AddsUp(mine, open, ended, lost, lostT, lostF, b, e, o, t, u)
    BY <1>6, <1>7, <1>9, <1>10 DEF AddsUp
  <2> QED
    BY <2>1, FourSums
<1>12. Total(v) \in Nat
  BY <1>6, <1>9, TotalNat
<1>13. PICK ne \in Nat, nv \in Nat, no \in Nat, nt \in Nat, nu \in Nat :
         /\ ne = Total(e) /\ nv = Total(v) /\ no = Total(o) /\ nt = Total(t) /\ nu = Total(u)
         /\ Total(b) = no + (ne + (nt + nu))
  BY <1>11, <1>12
<1>14. ReplayedAcc(f, c) = [settled |-> ne, overrun |-> nv, restart |-> nt + no, other |-> nu,
                            outstanding |-> 0]
  BY <1>3, <1>13
<1>15. ReplayedAcc(f, c) \in AccRow
  BY <1>13, <1>14 DEF AccRow
<1>16. Net(ReplayedAcc(f, c)) = ne + (nt + no) + nu + 0
  BY <1>14 DEF Net
<1>17. Net(ReplayedAcc(f, c)) = Total(b)
  <2>1. \A i, j, k, l \in Nat : i + (k + l) + j + 0 = l + (i + (k + j))
    OBVIOUS
  <2>2. ne + (nt + no) + nu + 0 = no + (ne + (nt + nu))
    <3>1. ne \in Nat /\ no \in Nat /\ nt \in Nat /\ nu \in Nat
      BY <1>13
    <3> QED
      BY <2>1, <3>1
  <2> QED
    BY <1>13, <1>16, <2>2
<1> QED
  BY <1>1, <1>4, <1>6, <1>9, <1>15, <1>17

-----------------------------------------------------------------------------
AtMost(f, g) ==
  /\ IsFiniteSet(DOMAIN g) /\ DOMAIN f \subseteq DOMAIN g
  /\ f \in [DOMAIN f -> Nat] /\ g \in [DOMAIN g -> Nat]
  /\ \A x \in DOMAIN f : f[x] <= g[x]

LEMMA TotalAtMost ==
  ASSUME NEW f, NEW g, AtMost(f, g)
  PROVE  Total(f) <= Total(g) /\ Total(f) \in Nat /\ Total(g) \in Nat
<1>1. PICK S, T : S = DOMAIN f /\ T = DOMAIN g
  OBVIOUS
<1>2. IsFiniteSet(S) /\ IsFiniteSet(T) /\ S \subseteq T
  <2>1. IsFiniteSet(T) /\ S \in SUBSET T
    BY <1>1 DEF AtMost
  <2> QED
    BY <2>1, FS_Subset
<1>3. PICK F \in [S -> Nat] : F = f
  BY <1>1 DEF AtMost
<1>4. PICK G \in [T -> Nat] : G = g
  BY <1>1 DEF AtMost
<1>5. \A x \in S : F[x] <= G[x]
  BY <1>1, <1>3, <1>4 DEF AtMost
<1>6. Total(F) <= Total(G)
  BY <1>2, <1>5, TotalLess
<1>7. Total(F) \in Nat /\ Total(G) \in Nat
  BY <1>2, TotalNat
<1> QED
  BY <1>3, <1>4, <1>6, <1>7

\* A hold's line has its seq, scope and amount.
LEMMA HeldLineIs ==
  ASSUME NEW s
  PROVE  /\ HeldLine(s).seq = s /\ HeldLine(s).kind = "reserved"
         /\ HeldLine(s).scope = hold[s].scope /\ HeldLine(s).amount = hold[s].amount
         /\ HeldLine(s).base = hold[s].base
  BY DEF HeldLine, Reserved

LEMMA HoldsFinite ==
  ASSUME TypeOK, HoldInv
  PROVE  IsFiniteSet(DOMAIN hold) /\ IsFiniteSet(Ours) /\ IsFiniteSet(Theirs)
<1>1. IsFiniteSet(DOMAIN hold)
  <2>1. DOMAIN hold \in SUBSET (0..nextSeq)
    BY DEF TypeOK, HoldInv
  <2>2. IsFiniteSet(0..nextSeq)
    BY FS_Interval DEF TypeOK
  <2> QED
    BY <2>1, <2>2, FS_Subset
<1>2. IsFiniteSet(Ours)
  <2> DEFINE h == [s \in DOMAIN hold |-> HeldLine(s)]
  <2>1. DOMAIN h = DOMAIN hold /\ \A t \in Ours : \E s \in DOMAIN hold : h[s] = t
    BY DEF Ours
  <2> HIDE DEF h
  <2> QED
    BY <1>1, <2>1, ImageIs
<1>3. IsFiniteSet(Theirs)
  <2>1. Theirs \in SUBSET OnDisk
    BY DEF Theirs
  <2>2. IsFiniteSet(OnDisk)
    BY RangeFinite DEF OnDisk, TypeOK
  <2> QED
    BY <2>1, <2>2, FS_Subset
<1> QED
  BY <1>1, <1>2, <1>3

\* A hold costs what its line books, and no more than was reserved for it.
LEMMA OwingIs ==
  ASSUME IInv, MoneyInv, NEW s \in DOMAIN hold
  PROVE  /\ hold[s].amount \in Nat /\ Owing(hold[s]) \in Nat /\ Owing(hold[s]) <= hold[s].amount
         /\ \A x \in OnDisk : Resolves(x) /\ x.ref = s =>
              /\ hold[s].outcome.settled \in Nat /\ hold[s].outcome.settled <= hold[s].amount
              /\ hold[s].outcome.kind = "uncertain" => hold[s].outcome.settled = 0
<1> USE DEF IInv
<1>1. hold[s] \in HoldRow
  BY DEF TypeOK
<1>2. hold[s].amount \in Nat
  BY <1>1 DEF HoldRow
<1>3. ASSUME NEW x \in OnDisk, Resolves(x), x.ref = s
      PROVE  /\ hold[s].outcome.settled \in Nat /\ hold[s].outcome.settled <= hold[s].amount
             /\ hold[s].outcome.kind = "uncertain" => hold[s].outcome.settled = 0
  <2>1. x.kind = hold[s].outcome.kind /\ x.settled = hold[s].outcome.settled
    BY <1>3 DEF MoneyInv
  <2>2. file \in Seq(Line) /\ Good(file) /\ OnDisk = Range(file) /\ x \in Line
    BY FileGood, Parts DEF OnDisk
  <2>3. PICK r \in OnDisk : r.kind = "reserved" /\ r.seq = x.ref /\ x.settled <= r.amount
    BY <1>3, <2>2, ResolvesOnce
  <2>4. r = HeldLine(s)
    BY <1>3, <2>3 DEF HoldInv
  <2>5. r.amount = hold[s].amount
    BY <2>4, HeldLineIs
  <2>6. x.settled \in Nat
    BY <1>3, <2>2, LineFacts
  <2>7. x.kind = "uncertain" => x.settled = 0
    BY <1>3 DEF MoneyInv, Plain
  <2> QED
    BY <2>1, <2>3, <2>5, <2>6, <2>7
<1>4. Owing(hold[s]) \in Nat /\ Owing(hold[s]) <= hold[s].amount
  <2>1. CASE hold[s].state # "resolved"
    BY <1>2, <2>1 DEF Owing
  <2>2. CASE hold[s].state = "resolved"
    <3>1. PICK x \in OnDisk : Resolves(x) /\ x.ref = s
      BY <2>2 DEF MoneyInv
    <3>2. /\ hold[s].outcome.settled \in Nat /\ hold[s].outcome.settled <= hold[s].amount
          /\ hold[s].outcome.kind = "uncertain" => hold[s].outcome.settled = 0
      BY <1>3, <3>1
    <3> QED
      BY <1>2, <2>2, <3>2 DEF Owing, Lost
  <2> QED
    BY <2>1, <2>2
<1> QED
  BY <1>2, <1>3, <1>4

OnBook(c) == {x \in Ours \cup Theirs : x.scope = c}

LEMMA BookIs ==
  ASSUME IInv, MoneyInv, NEW c
  PROVE  /\ IsFiniteSet(OnBook(c))
         /\ Book(c) \in [OnBook(c) -> Nat]
         /\ Total(Book(c)) \in Nat
         /\ \A s \in DOMAIN hold : hold[s].scope = c =>
              HeldLine(s) \in OnBook(c) /\ Book(c)[HeldLine(s)] = Owing(hold[s])
         /\ \A r \in Theirs : r.scope = c => r \in OnBook(c) /\ Book(c)[r] = Debit(OnDisk, r)
<1> USE DEF IInv
<1>1. IsFiniteSet(OnBook(c))
  <2>1. IsFiniteSet(Ours \cup Theirs)
    BY HoldsFinite, FS_Union
  <2>2. OnBook(c) \in SUBSET (Ours \cup Theirs)
    BY DEF OnBook
  <2> QED
    BY <2>1, <2>2, FS_Subset
<1>2. \A r \in Ours : r.seq \in DOMAIN hold /\ r = HeldLine(r.seq) /\ Owing(hold[r.seq]) \in Nat
  <2> SUFFICES ASSUME NEW s \in DOMAIN hold
               PROVE  HeldLine(s).seq = s /\ Owing(hold[s]) \in Nat
    BY DEF Ours
  <2> QED
    BY OwingIs, HeldLineIs
<1>3. \A r \in Theirs : r.seq \notin DOMAIN hold /\ Debit(OnDisk, r) \in Nat
  <2> TAKE r \in Theirs
  <2>1. file \in Seq(Line) /\ Good(file) /\ OnDisk = Range(file) /\ Plain(OnDisk)
    BY FileGood DEF OnDisk, MoneyInv, Plain
  <2>2. r \in OnDisk /\ r.kind = "reserved" /\ r.seq \notin DOMAIN hold
    BY DEF Theirs
  <2> QED
    BY <2>1, <2>2, DebitIs
<1>4. \A r \in OnBook(c) :
        (IF r.seq \in DOMAIN hold THEN Owing(hold[r.seq]) ELSE Debit(OnDisk, r)) \in Nat
  BY <1>2, <1>3 DEF OnBook
<1>5. Book(c) \in [OnBook(c) -> Nat]
  BY <1>4 DEF Book, OnBook
<1>6. Total(Book(c)) \in Nat
  BY <1>1, <1>5, TotalNat
<1>7. \A r \in OnBook(c) :
        Book(c)[r] = IF r.seq \in DOMAIN hold THEN Owing(hold[r.seq]) ELSE Debit(OnDisk, r)
  BY DEF Book, OnBook
<1>8. \A s \in DOMAIN hold : hold[s].scope = c =>
        HeldLine(s) \in OnBook(c) /\ Book(c)[HeldLine(s)] = Owing(hold[s])
  <2> SUFFICES ASSUME NEW s \in DOMAIN hold, hold[s].scope = c
               PROVE  HeldLine(s) \in OnBook(c) /\ Book(c)[HeldLine(s)] = Owing(hold[s])
    OBVIOUS
  <2>1. HeldLine(s).seq = s /\ HeldLine(s).scope = c
    BY HeldLineIs
  <2>2. HeldLine(s) \in OnBook(c)
    BY <2>1 DEF OnBook, Ours
  <2> QED
    BY <1>7, <2>1, <2>2
<1>9. \A r \in Theirs : r.scope = c => r \in OnBook(c) /\ Book(c)[r] = Debit(OnDisk, r)
  BY <1>3, <1>7 DEF OnBook
<1> QED
  BY <1>1, <1>5, <1>6, <1>8, <1>9

\* What a crash leaves charges no scope more than the process does.
LEMMA SurvivorBook ==
  ASSUME IInv, MoneyInv, NEW f \in Survivors, NEW c
  PROVE  /\ Plain(Range(f))
         /\ Total(FileBook(f, c)) \in Nat /\ Total(Book(c)) \in Nat
         /\ Total(FileBook(f, c)) <= Total(Book(c))
<1> USE DEF IInv
<1>1. /\ f \in Seq(Line) /\ Good(f) /\ OnDisk \subseteq Range(f)
      /\ Range(f) \subseteq OnDisk \cup OnTheWay
  BY SurvivorIs DEF OnTheWay
<1>2. Plain(Range(f))
  BY <1>1 DEF MoneyInv, Plain
<1>3. PICK S : S = {r \in Held(f) : r.scope = c}
  OBVIOUS
<1>4. FileBook(f, c) \in [S -> Nat]
  BY <1>1, <1>2, <1>3, ReplayedNet
<1>5. \A r \in S : r \in OnBook(c) /\ FileBook(f, c)[r] <= Book(c)[r]
  <2> TAKE r \in S
  <2>1. r \in Range(f) /\ r.kind = "reserved" /\ r.scope = c
    BY <1>3 DEF Held, Of
  <2>2. FileBook(f, c)[r] = Debit(Range(f), r)
    BY <1>3 DEF FileBook
  <2>3. /\ Debit(Range(f), r) \in Nat /\ Debit(Range(f), r) <= r.amount
        /\ \A x \in Range(f) : Resolves(x) /\ x.ref = r.seq =>
             Debit(Range(f), r) = x.settled + Lost(x.kind, r.amount)
    BY <1>1, <1>2, <2>1, DebitIs
  <2>4. CASE r.seq \in DOMAIN hold
    <3>1. r = HeldLine(r.seq)
      BY <1>1, <2>1, <2>4 DEF HoldInv
    <3>2. PICK s \in DOMAIN hold : s = r.seq
      BY <2>4
    <3>3. hold[s].scope = c /\ r.amount = hold[s].amount
      BY <2>1, <3>1, <3>2, HeldLineIs
    <3>4. r \in OnBook(c) /\ Book(c)[r] = Owing(hold[s])
      BY <3>1, <3>2, <3>3, BookIs
    <3>5. CASE hold[s].state # "resolved"
      <4>1. Owing(hold[s]) = r.amount
        BY <3>3, <3>5 DEF Owing
      <4> QED
        BY <2>2, <2>3, <3>4, <4>1
    <3>6. CASE hold[s].state = "resolved"
      <4>1. PICK x \in OnDisk : Resolves(x) /\ x.ref = s
        BY <3>6 DEF MoneyInv
      <4>2. x.kind = hold[s].outcome.kind /\ x.settled = hold[s].outcome.settled
        BY <4>1 DEF MoneyInv
      <4>3. Debit(Range(f), r) = x.settled + Lost(x.kind, r.amount)
        BY <1>1, <2>3, <3>2, <4>1
      <4>4. Owing(hold[s]) = x.settled + Lost(x.kind, r.amount)
        BY <3>3, <3>6, <4>2 DEF Owing
      <4>5. Debit(Range(f), r) = Owing(hold[s])
        BY <4>3, <4>4
      <4> QED
        BY <2>2, <2>3, <3>4, <4>5
    <3> QED
      BY <3>5, <3>6
  <2>5. CASE r.seq \notin DOMAIN hold
    <3>1. r \in OnDisk
      <4>1. r \in OnTheWay => Own(r)
        BY DEF OwnInv
      <4> QED
        BY <1>1, <2>1, <2>5, <4>1 DEF Own
    <3>2. r \in Theirs
      BY <2>1, <2>5, <3>1 DEF Theirs
    <3>3. r \in OnBook(c) /\ Book(c)[r] = Debit(OnDisk, r)
      BY <2>1, <3>2, BookIs
    <3>4. file \in Seq(Line) /\ Good(file) /\ OnDisk = Range(file) /\ Plain(OnDisk)
      BY FileGood DEF OnDisk, MoneyInv, Plain
    <3>5. /\ \A x \in OnDisk : Resolves(x) /\ x.ref = r.seq =>
               Debit(OnDisk, r) = x.settled + Lost(x.kind, r.amount)
          /\ Bookings(OnDisk, r) = {} => Debit(OnDisk, r) = r.amount
      BY <2>1, <3>1, <3>4, DebitIs
    <3>6. CASE Bookings(OnDisk, r) = {}
      BY <2>2, <2>3, <3>3, <3>5, <3>6
    <3>7. CASE Bookings(OnDisk, r) # {}
      <4>1. PICK x \in OnDisk : Resolves(x) /\ x.ref = r.seq
        BY <3>7 DEF Bookings
      <4>2. Debit(Range(f), r) = Debit(OnDisk, r)
        BY <1>1, <2>3, <3>5, <4>1
      <4> QED
        BY <2>2, <2>3, <3>3, <4>2
    <3> QED
      BY <3>6, <3>7
  <2> QED
    BY <2>4, <2>5
<1>6. AtMost(FileBook(f, c), Book(c))
  <2>1. PICK B : B = Book(c)
    OBVIOUS
  <2>2. PICK F : F = FileBook(f, c)
    OBVIOUS
  <2>3. IsFiniteSet(OnBook(c)) /\ B \in [OnBook(c) -> Nat]
    BY <2>1, BookIs
  <2>4. AtMost(F, B)
    BY <1>4, <1>5, <2>1, <2>2, <2>3 DEF AtMost
  <2> QED
    BY <2>1, <2>2, <2>4
<1> QED
  BY <1>2, <1>6, TotalAtMost

-----------------------------------------------------------------------------
LEMMA NetIs ==
  ASSUME NEW a \in AccRow
  PROVE  Charge(a) - a.overrun = Net(a) /\ Net(a) \in Int /\ Net(a) <= Charge(a) /\ Charge(a) \in Int
<1> DEFINE p == a.settled
           q == a.overrun
           r == a.restart
           s == a.other
           t == a.outstanding
<1>1. p \in Int /\ q \in Nat /\ r \in Int /\ s \in Int /\ t \in Int
  BY DEF AccRow
<1>2. Charge(a) = p + q + r + s + t /\ Net(a) = p + r + s + t /\ a.overrun = q
  BY DEF Charge, Net
<1> HIDE DEF p, q, r, s, t
<1>3. /\ (p + q + r + s + t) - q = p + r + s + t /\ p + r + s + t \in Int
      /\ p + r + s + t <= p + q + r + s + t /\ p + q + r + s + t \in Int
  BY <1>1
<1> QED
  BY <1>2, <1>3

LEMMA WithinCapFollows ==
  ASSUME IInv, MoneyInv
  PROVE  WithinCap
<1> SUFFICES ASSUME NEW c \in Scopes
             PROVE  /\ Charge(acc[c]) - acc[c].overrun <= Cap
                    /\ \A f \in Survivors :
                         Charge(ReplayedAcc(f, c)) - ReplayedAcc(f, c).overrun <=
                           IF up THEN Charge(acc[c]) - acc[c].overrun ELSE Cap
  BY DEF WithinCap
<1>1. acc[c] \in AccRow /\ Total(Book(c)) <= Cap
      /\ Net(acc[c]) = IF up THEN Total(Book(c)) ELSE 0
  BY DEF MoneyInv
<1>2. Charge(acc[c]) - acc[c].overrun = Net(acc[c])
  BY <1>1, NetIs
<1>3. Cap \in Nat /\ Total(Book(c)) \in Nat
  BY LedgerAssumption, BookIs
<1>4. ASSUME NEW f \in Survivors
      PROVE  Charge(ReplayedAcc(f, c)) - ReplayedAcc(f, c).overrun <= Total(Book(c))
  <2>1. f \in Seq(Line) /\ Good(f)
    BY SurvivorIs DEF IInv
  <2>2. Plain(Range(f)) /\ Total(FileBook(f, c)) <= Total(Book(c))
    BY SurvivorBook
  <2>3. ReplayedAcc(f, c) \in AccRow /\ Net(ReplayedAcc(f, c)) = Total(FileBook(f, c))
    BY <2>1, <2>2, ReplayedNet
  <2>4. Charge(ReplayedAcc(f, c)) - ReplayedAcc(f, c).overrun = Net(ReplayedAcc(f, c))
    BY <2>3, NetIs
  <2> QED
    BY <2>2, <2>3, <2>4
<1>5. Charge(acc[c]) - acc[c].overrun <= Cap
  BY <1>1, <1>2, <1>3
<1>6. ASSUME NEW f \in Survivors
      PROVE  Charge(ReplayedAcc(f, c)) - ReplayedAcc(f, c).overrun <=
               IF up THEN Charge(acc[c]) - acc[c].overrun ELSE Cap
  <2>1. PICK n : n = Charge(ReplayedAcc(f, c)) - ReplayedAcc(f, c).overrun
    OBVIOUS
  <2>2. PICK f0 \in Survivors : f0 = f
    OBVIOUS
  <2>3. n <= Total(Book(c))
    BY <1>4, <2>1
  <2>4. n \in Int
    <3>1. f \in Seq(Line) /\ Good(f) /\ Plain(Range(f))
      BY SurvivorIs, SurvivorBook DEF IInv
    <3>2. ReplayedAcc(f, c) \in AccRow
      BY <3>1, ReplayedNet
    <3> QED
      BY <2>1, <3>2, NetIs
  <2>5. CASE up
    BY <1>1, <1>2, <2>1, <2>3, <2>5
  <2>6. CASE ~up
    BY <1>1, <1>3, <2>1, <2>3, <2>4, <2>6
  <2> QED
    BY <2>5, <2>6
<1> QED
  BY <1>5, <1>6

-----------------------------------------------------------------------------
(* Steps that book nothing.                                                *)

StillBooked ==
  /\ up' = up /\ opens' = opens /\ acc' = acc
  /\ OnDisk \subseteq OnDisk' /\ OnDisk' \subseteq OnDisk \cup OnTheWay
  /\ DOMAIN hold' = DOMAIN hold
  /\ \A s \in DOMAIN hold :
       /\ hold'[s].scope = hold[s].scope
       /\ hold'[s].amount = hold[s].amount
       /\ hold'[s].base = hold[s].base
       /\ hold'[s].state = "resolved" <=> hold[s].state = "resolved"
       /\ hold'[s].outcome = hold[s].outcome \/ s \in Unended
  /\ \A x \in OnTheWay' :
       \/ x \in OnDisk \cup OnTheWay
       \/ Resolves(x) =>
            /\ x.ref \in Unended
            /\ x.kind # "settled" => x.settled = 0
            /\ x.kind = hold'[x.ref].outcome.kind /\ x.settled = hold'[x.ref].outcome.settled

LEMMA StillMoney ==
  ASSUME IInv, MoneyInv, StillBooked
  PROVE  MoneyInv'
<1> USE DEF IInv
<1>1. OnDisk' \cup OnTheWay' \subseteq OnDisk \cup OnTheWay \cup OnTheWay'
  BY DEF StillBooked
<1>2. Plain(OnDisk' \cup OnTheWay')
  <2> SUFFICES ASSUME NEW x \in OnDisk' \cup OnTheWay', Resolves(x), x.kind # "settled"
               PROVE  x.settled = 0
    BY DEF Plain
  <2> QED
    BY <1>1 DEF StillBooked, MoneyInv, Plain
<1>3. \A x \in OnDisk' \cup OnTheWay' : Resolves(x) /\ x.ref \in DOMAIN hold' =>
        x.kind = hold'[x.ref].outcome.kind /\ x.settled = hold'[x.ref].outcome.settled
  <2> SUFFICES ASSUME NEW x \in OnDisk' \cup OnTheWay', Resolves(x), x.ref \in DOMAIN hold'
               PROVE  x.kind = hold'[x.ref].outcome.kind /\ x.settled = hold'[x.ref].outcome.settled
    OBVIOUS
  <2>1. CASE x \in OnDisk \cup OnTheWay
    <3>1. x.ref \in DOMAIN hold /\ x.ref \notin Unended
      BY <2>1 DEF HoldInv, StillBooked
    <3>2. hold'[x.ref].outcome = hold[x.ref].outcome
      BY <3>1 DEF StillBooked
    <3>3. x.kind = hold[x.ref].outcome.kind /\ x.settled = hold[x.ref].outcome.settled
      BY <2>1, <3>1 DEF MoneyInv
    <3> QED
      BY <3>2, <3>3
  <2>2. CASE x \notin OnDisk \cup OnTheWay
    BY <1>1, <2>2 DEF StillBooked
  <2> QED
    BY <2>1, <2>2
<1>4. \A s \in DOMAIN hold' :
        hold'[s].state = "resolved" => \E x \in OnDisk' : Resolves(x) /\ x.ref = s
  BY DEF MoneyInv, StillBooked
<1>5. \A x \in OnDisk' \ OnDisk : Own(x)
  BY DEF StillBooked, OwnInv
<1>6. Theirs' = Theirs
  <2>1. \A r \in OnDisk' \ OnDisk : r.kind = "reserved" => r.seq \in DOMAIN hold
    BY <1>5 DEF Own
  <2> QED
    BY <2>1 DEF Theirs, StillBooked
<1>7. ASSUME NEW r \in Theirs PROVE Bookings(OnDisk', r) = Bookings(OnDisk, r)
  <2>1. \A x \in OnDisk' \ OnDisk : Resolves(x) => x.ref # r.seq
    BY <1>5 DEF Own, Theirs
  <2> QED
    BY <2>1 DEF Bookings, StillBooked
<1>8. up' => \A r \in Theirs' : Bookings(OnDisk', r) # {}
  BY <1>6, <1>7 DEF StillBooked, MoneyInv
<1>9. Ours' = Ours
  <2>1. \A s \in DOMAIN hold : HeldLine(s)' = HeldLine(s)
    BY DEF StillBooked, HeldLine
  <2> QED
    BY <2>1 DEF Ours, StillBooked
<1>10. ASSUME NEW c PROVE Book(c)' = Book(c)
  <2>1. ASSUME NEW r \in Ours \cup Theirs
        PROVE  (IF r.seq \in DOMAIN hold' THEN Owing(hold'[r.seq]) ELSE Debit(OnDisk', r))
                 = IF r.seq \in DOMAIN hold THEN Owing(hold[r.seq]) ELSE Debit(OnDisk, r)
    <3>1. CASE r.seq \in DOMAIN hold
      <4>1. PICK s \in DOMAIN hold : s = r.seq
        BY <3>1
      <4>2. Owing(hold'[s]) = Owing(hold[s])
        <5>1. /\ hold'[s].amount = hold[s].amount
              /\ hold'[s].state = "resolved" <=> hold[s].state = "resolved"
          BY DEF StillBooked
        <5>2. CASE hold[s].state = "resolved"
          <6>1. hold'[s].outcome = hold[s].outcome
            BY <5>2 DEF StillBooked, Unended
          <6> QED
            BY <5>1, <5>2, <6>1 DEF Owing
        <5>3. CASE hold[s].state # "resolved"
          BY <5>1, <5>3 DEF Owing
        <5> QED
          BY <5>2, <5>3
      <4> QED
        BY <3>1, <4>1, <4>2 DEF StillBooked
    <3>2. CASE r.seq \notin DOMAIN hold
      <4>1. r \in Theirs
        BY <3>2, HeldLineIs DEF Ours
      <4>2. Debit(OnDisk', r) = Debit(OnDisk, r)
        <5>1. PICK D, E : D = OnDisk /\ E = OnDisk'
          OBVIOUS
        <5>2. Bookings(E, r) = Bookings(D, r)
          BY <1>7, <4>1, <5>1
        <5>3. Debit(E, r) = Debit(D, r)
          BY <5>2 DEF Debit
        <5> QED
          BY <5>1, <5>3
      <4> QED
        BY <3>2, <4>2 DEF StillBooked
    <3> QED
      BY <3>1, <3>2
  <2>2. Book(c)' = [r \in {x \in Ours \cup Theirs : x.scope = c} |->
                      IF r.seq \in DOMAIN hold' THEN Owing(hold'[r.seq]) ELSE Debit(OnDisk', r)]
    BY <1>6, <1>9 DEF Book
  <2> QED
    BY <2>1, <2>2 DEF Book
<1>11. \A c \in Scopes : /\ Total(Book(c)') <= Cap
                         /\ Net(acc'[c]) = IF up' THEN Total(Book(c)') ELSE 0
  BY <1>10 DEF MoneyInv, StillBooked
<1>12. acc' \in [Scopes -> AccRow]
  BY DEF MoneyInv, StillBooked
<1> QED
  BY <1>2, <1>3, <1>4, <1>8, <1>11, <1>12 DEF MoneyInv

-----------------------------------------------------------------------------
LEMMA SameHolds ==
  ASSUME UNCHANGED <<up, opens, acc, hold>>,
         OnDisk \subseteq OnDisk', OnDisk' \subseteq OnDisk \cup OnTheWay,
         \A x \in OnTheWay' : x \in OnDisk \cup OnTheWay \/ ~Resolves(x)
  PROVE  StillBooked
  BY DEF StillBooked

LEMMA FaultMoney ==
  ASSUME IInv, Fault, UNCHANGED <<up, opens, acc, file, queue, writer>>
  PROVE  StillBooked
<1>1. OnDisk' = OnDisk /\ OnTheWay' = OnTheWay
  BY SameLines
<1>2. DOMAIN hold' = DOMAIN hold
  BY DEF Fault
<1>3. ASSUME NEW s \in DOMAIN hold
      PROVE  /\ hold'[s].scope = hold[s].scope
             /\ hold'[s].amount = hold[s].amount
             /\ hold'[s].base = hold[s].base
             /\ hold'[s].state = "resolved" <=> hold[s].state = "resolved"
             /\ hold'[s].outcome = hold[s].outcome
  <2>1. hold[s] \in HoldRow
    BY DEF IInv, TypeOK
  <2>2. CASE s \in Live
    <3>1. hold'[s] = Stranded(s) /\ hold[s].state # "resolved"
      BY <2>2 DEF Fault, Live
    <3> QED
      BY <2>1, <3>1 DEF Stranded, HoldRow
  <2>3. CASE s \notin Live
    BY <2>3 DEF Fault
  <2> QED
    BY <2>2, <2>3
<1> QED
  BY <1>1, <1>2, <1>3 DEF StillBooked

LEMMA SendHeadMoney ==
  ASSUME IInv, NEW s \in DOMAIN hold, SendHead(s)
  PROVE  StillBooked
<1>1. UNCHANGED <<up, opens, acc, file, queue, writer>>
  BY DEF SendHead
<1>2. OnDisk' = OnDisk /\ OnTheWay' = OnTheWay
  BY <1>1, SameLines
<1>3. hold' = [hold EXCEPT ![s].state = "sent"] /\ hold[s].state = "reserved" /\ hold[s] \in HoldRow
  BY DEF SendHead, Sendable, IInv, TypeOK
<1>4. \A t \in DOMAIN hold :
        /\ hold'[t].scope = hold[t].scope /\ hold'[t].amount = hold[t].amount
        /\ hold'[t].base = hold[t].base /\ hold'[t].outcome = hold[t].outcome
        /\ hold'[t].state = "resolved" <=> hold[t].state = "resolved"
  BY <1>3 DEF HoldRow
<1> QED
  BY <1>1, <1>2, <1>3, <1>4 DEF StillBooked

LEMMA OwnerFailsMoney ==
  ASSUME IInv, NEW s, OwnerFails(s)
  PROVE  StillBooked
<1>1. UNCHANGED <<up, opens, acc, file, queue, writer>>
  BY DEF OwnerFails
<1>2. OnDisk' = OnDisk /\ OnTheWay' = OnTheWay
  BY <1>1, SameLines
<1>3. s \in DOMAIN hold /\ hold[s].state # "resolved" /\ hold[s] \in HoldRow
      /\ hold' = [hold EXCEPT ![s] = Stranded(s)]
  BY DEF OwnerFails, Unended, IInv, TypeOK
<1>4. /\ Stranded(s).scope = hold[s].scope /\ Stranded(s).amount = hold[s].amount
      /\ Stranded(s).base = hold[s].base /\ Stranded(s).outcome = hold[s].outcome
      /\ Stranded(s).state = "stranded"
  BY <1>3 DEF Stranded, HoldRow
<1>5. \A t \in DOMAIN hold :
        /\ hold'[t].scope = hold[t].scope /\ hold'[t].amount = hold[t].amount
        /\ hold'[t].base = hold[t].base /\ hold'[t].outcome = hold[t].outcome
        /\ hold'[t].state = "resolved" <=> hold[t].state = "resolved"
  <2> TAKE t \in DOMAIN hold
  <2>1. hold'[t] = IF t = s THEN Stranded(s) ELSE hold[t]
    BY <1>3
  <2> QED
    BY <1>3, <1>4, <2>1
<1> QED
  BY <1>1, <1>2, <1>3, <1>5 DEF StillBooked

LEMMA ResolvingIs ==
  ASSUME NEW row \in HoldRow, NEW o
  PROVE  /\ Resolving(row, o).scope = row.scope /\ Resolving(row, o).amount = row.amount
         /\ Resolving(row, o).base = row.base /\ Resolving(row, o).outcome = o
         /\ Resolving(row, o).state = "resolving"
  BY DEF Resolving, HoldRow

LEMMA ResolveMoney ==
  ASSUME IInv, NEW s \in Unended, NEW outcome \in Outcome, Resolve(s, outcome),
         outcome.kind # "settled" => outcome.settled = 0
  PROVE  StillBooked
<1>0. PICK x : x = Resolution(nextSeq, s, outcome, FALSE, hold[s].base)
  OBVIOUS
<1>1. s \in DOMAIN hold /\ hold[s] \in HoldRow /\ hold[s].state # "resolved"
  BY DEF IInv, TypeOK, Unended
<1>2. x.kind = outcome.kind /\ x.ref = s /\ x.settled = outcome.settled
  BY <1>0 DEF Resolution
<1>3. /\ hold[s].base \in BOOLEAN /\ nextSeq \in Nat /\ s \in Nat
  BY <1>1 DEF IInv, TypeOK, HoldRow
<1>4. x \in Line
  <2>1. x \in ResolutionLine
    BY <1>0, <1>3 DEF ResolutionLine, Resolution, Outcome
  <2> QED
    BY <2>1 DEF Line
<1>5. Submit(<<x>>) /\ ~closing /\ UNCHANGED <<file, writer, up, opens, acc>>
  <2>1. ~closing
    BY DEF IInv, HoldInv
  <2> QED
    BY <1>0, <2>1 DEF Resolve
<1>6. OnDisk' = OnDisk /\ OnTheWay' = OnTheWay \cup {x}
  BY <1>4, <1>5, QueuedOut
<1>7. hold' = [hold EXCEPT ![s] = Resolving(hold[s], outcome)]
  BY DEF Resolve
<1>8. \A t \in DOMAIN hold :
        /\ hold'[t].scope = hold[t].scope /\ hold'[t].amount = hold[t].amount
        /\ hold'[t].base = hold[t].base /\ (hold'[t].outcome = hold[t].outcome \/ t \in Unended)
        /\ hold'[t].state = "resolved" <=> hold[t].state = "resolved"
  <2> TAKE t \in DOMAIN hold
  <2>1. hold'[t] = IF t = s THEN Resolving(hold[s], outcome) ELSE hold[t]
    BY <1>7
  <2> QED
    BY <1>1, <2>1, ResolvingIs
<1>9. DOMAIN hold' = DOMAIN hold /\ hold'[s].outcome = outcome
  BY <1>1, <1>7, ResolvingIs
<1> QED
  BY <1>2, <1>5, <1>6, <1>8, <1>9 DEF StillBooked

LEMMA EndsMoney ==
  ASSUME IInv, NEW s, Ends(s) \/ Settle(s)
  PROVE  StillBooked
<1>1. CASE Ends(s)
  <2>1. PICK o \in Outcome : o = EndOutcome(hold[s].state)
    BY EndOutcomeIs
  <2>2. o.settled = 0
    BY <2>1, EndOutcomeIs
  <2> QED
    BY <1>1, <2>1, <2>2, ResolveMoney DEF Ends
<1>2. CASE Settle(s)
  <2>1. PICK cost \in Costs : Resolve(s, Settled(cost, hold[s].amount))
    BY <1>2 DEF Settle
  <2>2. s \in Unended /\ hold[s].amount \in Nat /\ cost \in Nat
    BY <1>2, LedgerAssumption DEF Settle, Unended, IInv, TypeOK, HoldRow
  <2>3. PICK o : o = Settled(cost, hold[s].amount)
    OBVIOUS
  <2>4. o.kind = "settled" /\ o.settled \in Nat /\ o.overrun \in Nat
    BY <2>2, <2>3, SettledIs
  <2>5. o = [kind |-> o.kind, settled |-> o.settled, overrun |-> o.overrun]
    BY <2>3 DEF Settled
  <2>6. o \in Outcome
    BY <2>4, <2>5 DEF Outcome, Resolutions
  <2> QED
    BY <2>1, <2>2, <2>3, <2>4, <2>6, ResolveMoney
<1> QED
  BY <1>1, <1>2

LEMMA ClosesMoney ==
  ASSUME IInv, Closes
  PROVE  StillBooked
<1>1. PICK g \in Seq(Line) :
        /\ g = CloseLines
        /\ \A i \in 1..Len(g) : /\ g[i].ref \in Unended /\ g[i].settled = 0
                                /\ g[i].kind = EndOutcome(hold[g[i].ref].state).kind
  BY CloseLinesAre DEF IInv
<1>2. /\ up /\ ~closing /\ queue' = queue \o Append(g, Close)
      /\ UNCHANGED <<file, up, opens, acc, writer>>
  BY <1>1 DEF Closes
<1>3. hold' = [s \in DOMAIN hold |->
                 IF s \in Unended THEN Resolving(hold[s], EndOutcome(hold[s].state)) ELSE hold[s]]
  BY DEF Closes
<1>4. \A s \in DOMAIN hold :
        /\ hold'[s].scope = hold[s].scope /\ hold'[s].amount = hold[s].amount
        /\ hold'[s].base = hold[s].base
        /\ hold'[s].state = "resolved" <=> hold[s].state = "resolved"
        /\ IF s \in Unended THEN hold'[s].outcome = EndOutcome(hold[s].state)
           ELSE hold'[s].outcome = hold[s].outcome
  <2> TAKE s \in DOMAIN hold
  <2>1. hold[s] \in HoldRow
    BY DEF IInv, TypeOK
  <2>2. CASE s \in Unended
    <3>1. hold'[s] = Resolving(hold[s], EndOutcome(hold[s].state)) /\ hold[s].state # "resolved"
      BY <1>3, <2>2 DEF Unended
    <3> QED
      BY <2>1, <2>2, <3>1, ResolvingIs
  <2>3. CASE s \notin Unended
    BY <1>3, <2>3
  <2> QED
    BY <2>2, <2>3
<1>5. OnDisk' = OnDisk /\ OnTheWay' = OnTheWay \cup Range(g)
  <2>1. queue \in Seq(Line) /\ Lines(queue) = queue
    BY <1>2, NotClosed DEF IInv
  <2>2. queue \o g \in Seq(Line) /\ Range(queue \o g) = Range(queue) \cup Range(g)
    BY <2>1, BeforeConcat
  <2>3. queue' = Append(queue \o g, Close)
    <3>1. PICK L : L = Line \cup {Close}
      OBVIOUS
    <3>2. Line \subseteq L /\ Close \in L
      BY <3>1
    <3>3. queue \in Seq(L) /\ g \in Seq(L)
      BY <2>1, <3>2, SeqMonotonic
    <3> QED
      BY <1>2, <3>2, <3>3, AppendIsConcat, ConcatAssociative
  <2>4. Lines(queue') = queue \o g
    BY <2>2, <2>3, LinesClosed
  <2>5. Range(Lines(queue')) = Range(Lines(queue)) \cup Range(g)
    BY <2>1, <2>2, <2>4
  <2> QED
    BY <1>2, <2>5 DEF OnDisk, OnTheWay
<1>6. \A x \in Range(g) :
        /\ x.ref \in Unended /\ x.settled = 0
        /\ x.kind = hold'[x.ref].outcome.kind /\ x.settled = hold'[x.ref].outcome.settled
  <2> TAKE x \in Range(g)
  <2>1. PICK i \in 1..Len(g) : x = g[i]
    BY RangeIs
  <2>2. x.ref \in Unended /\ x.settled = 0 /\ x.kind = EndOutcome(hold[x.ref].state).kind
    BY <1>1, <2>1
  <2>3. hold'[x.ref].outcome = EndOutcome(hold[x.ref].state)
    BY <1>4, <2>2 DEF Unended
  <2> QED
    BY <2>2, <2>3, EndOutcomeIs
<1>7. DOMAIN hold' = DOMAIN hold
  BY <1>3
<1> QED
  BY <1>2, <1>4, <1>5, <1>6, <1>7 DEF StillBooked

\* The steps that book nothing.
LEMMA OtherMoney ==
  ASSUME IInv,
         \/ UNCHANGED vars \/ Writer \/ Sender \/ PostedFault \/ CloseTimesOut \/ Closes
         \/ RefusedCloses \/ \E s \in DOMAIN hold : Exchange(s)
  PROVE  StillBooked
<1>1. CASE UNCHANGED vars
  <2>1. UNCHANGED <<up, opens, acc, hold, file, queue, writer>>
    BY <1>1 DEF vars, loopVars, ledgerVars
  <2> QED
    BY <2>1, SameLines, SameHolds
<1>2. CASE Writer
  BY <1>2, WriterLines, SameHolds
<1>3. CASE PostedFault
  <2>1. UNCHANGED <<up, opens, acc, file, queue, writer>>
    BY <1>3 DEF PostedFault
  <2>2. CASE Fault
    BY <2>1, <2>2, FaultMoney
  <2>3. CASE hold' = hold
    BY <2>1, <2>3, SameLines, SameHolds
  <2> QED
    BY <1>3, <2>2, <2>3 DEF PostedFault
<1>4. CASE CloseTimesOut
  <2>1. UNCHANGED <<up, opens, acc, hold, file, queue, writer>>
    BY <1>4 DEF CloseTimesOut
  <2> QED
    BY <2>1, SameLines, SameHolds
<1>5. CASE RefusedCloses
  <2>1. PICK x : x = Refused(nextSeq, opens)
    OBVIOUS
  <2>2. /\ ~closing /\ Submit(<<x>>)
        /\ UNCHANGED <<file, writer, up, opens, acc, hold>>
    BY <1>5, <2>1 DEF RefusedCloses, Open4Work
  <2>3. x \in Line /\ ~Resolves(x)
    <3>1. nextSeq \in Nat /\ opens \in Nat
      BY DEF IInv, TypeOK
    <3>2. x \in RefusedLine /\ x.kind = "refused"
      BY <2>1, <3>1 DEF Refused, RefusedLine
    <3> QED
      BY <3>2, Kinds DEF Line, Resolves
  <2>4. OnDisk' = OnDisk /\ OnTheWay' = OnTheWay \cup {x}
    BY <2>2, <2>3, QueuedOut
  <2> QED
    BY <2>2, <2>3, <2>4, SameHolds
<1>6. CASE \E s \in DOMAIN hold : Exchange(s)
  <2>1. PICK s \in DOMAIN hold : Exchange(s)
    BY <1>6
  <2>2. CASE WaitStalls(s)
    <3>1. Fault /\ UNCHANGED <<up, opens, acc, file, queue, writer>>
      BY <2>2 DEF WaitStalls
    <3> QED
      BY <3>1, FaultMoney
  <2> QED
    BY <2>1, <2>2, EndsMoney, SendHeadMoney, OwnerFailsMoney DEF Exchange
<1>7. CASE Sender
  <2>1. CASE SenderSends \/ SenderDrops
    <3>1. UNCHANGED <<up, opens, acc, hold, file, queue, writer>>
      BY <2>1 DEF SenderSends, SenderDrops, loopUnchanged, loopVars, ledgerVars
    <3> QED
      BY <3>1, SameLines, SameHolds
  <2>2. CASE AckDone
    <3>1. UNCHANGED <<up, opens, acc, hold, file, queue, writer>>
      BY <2>2 DEF AckDone
    <3> QED
      BY <3>1, SameLines, SameHolds
  <2>3. CASE SenderAcks
    <3>1. UNCHANGED <<up, opens, acc, hold, file, writer>>
      BY <2>3 DEF SenderAcks
    <3>2. CASE queue' = queue
      BY <3>1, <3>2, SameLines, SameHolds
    <3>3. CASE queue' # queue
      <4>1. PICK some \in SUBSET sender.triples :
              ~closing /\ Submit(<<Acked(nextSeq, NewAcks(some))>>)
        BY <2>3, <3>3 DEF SenderAcks
      <4>2. PICK x : x = Acked(nextSeq, NewAcks(some))
        OBVIOUS
      <4>3. x \in Line /\ ~Resolves(x)
        <5>1. NewAcks(some) \subseteq Triple /\ nextSeq \in Nat
          BY DEF NewAcks, IInv, TypeOK
        <5>2. x \in AckedLine /\ x.kind = "lineage-acked"
          BY <4>2, <5>1 DEF AckedLine, Acked
        <5> QED
          BY <5>2, Kinds DEF Line, Resolves
      <4>4. OnDisk' = OnDisk /\ OnTheWay' = OnTheWay \cup {x}
        BY <3>1, <4>1, <4>2, <4>3, QueuedOut
      <4> QED
        BY <3>1, <4>3, <4>4, SameHolds
    <3> QED
      BY <3>2, <3>3
  <2> QED
    BY <1>7, <2>1, <2>2, <2>3 DEF Sender
<1> QED
  BY <1>1, <1>2, <1>3, <1>4, <1>5, <1>6, <1>7, ClosesMoney

-----------------------------------------------------------------------------
(* Admission.                                                              *)

LEMMA TotalOne ==
  ASSUME NEW x, NEW n \in Nat, NEW f, DOMAIN f = {x}, f[x] = n
  PROVE  Total(f) = n
<1>1. Units(f) = {x} \X (1..n)
  BY DEF Units
<1>2. IsFiniteSet({x}) /\ Cardinality({x}) = 1
  BY FS_Singleton
<1>3. IsFiniteSet(1..n) /\ Cardinality(1..n) = n
  <2>1. /\ IsFiniteSet(1..n)
        /\ Cardinality(1..n) = IF 1 > n THEN 0 ELSE n - 1 + 1
    BY FS_Interval
  <2> QED
    BY <2>1
<1>4. Cardinality({x} \X (1..n)) = Cardinality({x}) * Cardinality(1..n)
  BY <1>2, <1>3, FS_Product
<1>5. Cardinality({x} \X (1..n)) = n
  BY <1>2, <1>3, <1>4
<1> QED
  BY <1>1, <1>5 DEF Total, Units

\* A function and the two it is made of.
Joins(f, g, h) ==
  /\ IsFiniteSet(DOMAIN f) /\ f \in [DOMAIN f -> Nat]
  /\ DOMAIN g \cup DOMAIN h = DOMAIN f /\ DOMAIN g \cap DOMAIN h = {}
  /\ g \in [DOMAIN g -> Nat] /\ h \in [DOMAIN h -> Nat]
  /\ \A x \in DOMAIN g : g[x] = f[x]
  /\ \A x \in DOMAIN h : h[x] = f[x]

LEMMA TotalJoins ==
  ASSUME NEW f, NEW g, NEW h, Joins(f, g, h)
  PROVE  /\ Total(f) = Total(g) + Total(h)
         /\ Total(f) \in Nat /\ Total(g) \in Nat /\ Total(h) \in Nat
<1>1. PICK S, A, B : S = DOMAIN f /\ A = DOMAIN g /\ B = DOMAIN h
  OBVIOUS
<1>2. IsFiniteSet(S) /\ A \cup B = S /\ A \cap B = {}
  BY <1>1 DEF Joins
<1>3. PICK F \in [S -> Nat] : F = f
  BY <1>1 DEF Joins
<1>4. PICK G \in [A -> Nat] : G = g
  BY <1>1 DEF Joins
<1>5. PICK H \in [B -> Nat] : H = h
  BY <1>1 DEF Joins
<1>6. (\A x \in A : G[x] = F[x]) /\ (\A x \in B : H[x] = F[x])
  BY <1>1, <1>3, <1>4, <1>5 DEF Joins
<1>7. Total(F) = Total(G) + Total(H)
  BY <1>2, <1>6, TotalSplit
<1>8. IsFiniteSet(A) /\ IsFiniteSet(B)
  <2>1. A \in SUBSET S /\ B \in SUBSET S
    BY <1>2
  <2> QED
    BY <1>2, <2>1, FS_Subset
<1>9. Total(F) \in Nat /\ Total(G) \in Nat /\ Total(H) \in Nat
  BY <1>2, <1>8, TotalNat
<1> QED
  BY <1>3, <1>4, <1>5, <1>7, <1>9

LEMMA AdmitMoney ==
  ASSUME IInv, MoneyInv, Admit
  PROVE  MoneyInv'
<1> USE DEF IInv
<1>1. PICK scope \in Scopes, amount \in Estimates, base \in Tickets :
        /\ Room(scope) >= 1 /\ amount <= Room(scope)
        /\ acc' = [acc EXCEPT ![scope].outstanding = @ + amount]
        /\ hold' = [s \in DOMAIN hold \cup {nextSeq} |->
                      IF s = nextSeq
                      THEN [state |-> "pending", scope |-> scope, amount |-> amount,
                            base |-> base, outcome |-> Unresolved]
                      ELSE hold[s]]
        /\ Submit(<<Reserved(nextSeq, opens, scope, amount, base)>>)
  BY DEF Admit
<1>0. PICK n \in Nat : n = nextSeq
  BY DEF TypeOK
<1>2. PICK x : x = Reserved(n, opens, scope, amount, base)
  OBVIOUS
<1>3. up /\ ~closing /\ UNCHANGED <<file, writer, up, opens>>
  BY DEF Admit, Open4Work
<1>4. amount \in Nat \ {0} /\ base \in BOOLEAN /\ opens \in Nat /\ n \notin DOMAIN hold
  <2>1. opens \in Nat
    BY DEF TypeOK
  <2>2. base \in BOOLEAN /\ amount \in Nat \ {0}
    BY LedgerAssumption
  <2>3. \A s \in DOMAIN hold : s < n
    BY <1>0 DEF HoldInv
  <2> QED
    BY <2>1, <2>2, <2>3
<1>5. /\ x.kind = "reserved" /\ x.seq = n /\ x.scope = scope /\ x.amount = amount
      /\ x \in Line /\ ~Resolves(x)
  <2>1. /\ x.kind = "reserved" /\ x.seq = n /\ x.scope = scope /\ x.amount = amount
        /\ x \in ReservedLine
    BY <1>2, <1>4 DEF Reserved, ReservedLine
  <2> QED
    BY <2>1, Kinds DEF Line, Resolves
<1>6. OnDisk' = OnDisk /\ OnTheWay' = OnTheWay \cup {x}
  BY <1>0, <1>1, <1>2, <1>3, <1>5, QueuedOut
<1>7. PICK row : row = [state |-> "pending", scope |-> scope, amount |-> amount,
                        base |-> base, outcome |-> Unresolved]
  OBVIOUS
<1>8. /\ DOMAIN hold' = DOMAIN hold \cup {n}
      /\ \A s \in DOMAIN hold : hold'[s] = hold[s]
      /\ hold'[n] = row
  BY <1>0, <1>1, <1>4, <1>7
<1>9. /\ row.state = "pending" /\ row.scope = scope /\ row.amount = amount /\ row.base = base
  BY <1>7
<1>10. HeldLine(n)' = x
  BY <1>2, <1>3, <1>8, <1>9 DEF HeldLine
<1>11. Ours' = Ours \cup {x}
  <2>1. \A s \in DOMAIN hold : HeldLine(s)' = HeldLine(s)
    BY <1>3, <1>8 DEF HeldLine
  <2> QED
    BY <1>8, <1>10, <2>1 DEF Ours
<1>12. Theirs' = Theirs
  <2>1. \A r \in OnDisk : r.seq # n
    BY <1>0, <1>3 DEF FileInv
  <2> QED
    BY <1>6, <1>8, <2>1 DEF Theirs
<1>13. \A r \in Ours \cup Theirs : r.seq # n
  <2>1. \A r \in OnDisk : r.seq # n
    BY <1>0, <1>3 DEF FileInv
  <2>2. \A r \in Ours : r.seq # n
    BY <1>4, HeldLineIs DEF Ours
  <2> QED
    BY <2>1, <2>2 DEF Theirs
<1>14. x \notin Ours \cup Theirs
  BY <1>5, <1>13
<1>15. Plain(OnDisk' \cup OnTheWay')
  BY <1>5, <1>6 DEF MoneyInv, Plain
<1>16. \A y \in OnDisk' \cup OnTheWay' : Resolves(y) /\ y.ref \in DOMAIN hold' =>
         y.kind = hold'[y.ref].outcome.kind /\ y.settled = hold'[y.ref].outcome.settled
  <2> SUFFICES ASSUME NEW y \in OnDisk' \cup OnTheWay', Resolves(y), y.ref \in DOMAIN hold'
               PROVE  y.kind = hold'[y.ref].outcome.kind /\ y.settled = hold'[y.ref].outcome.settled
    OBVIOUS
  <2>1. y \in OnDisk \cup OnTheWay
    BY <1>5, <1>6
  <2>2. y.ref < nextSeq
    BY <1>3, <2>1, NothingAhead
  <2>3. y.ref \in DOMAIN hold
    BY <1>0, <1>8, <2>2
  <2> QED
    BY <1>8, <2>1, <2>3 DEF MoneyInv
<1>17. \A s \in DOMAIN hold' :
         hold'[s].state = "resolved" => \E y \in OnDisk' : Resolves(y) /\ y.ref = s
  <2> SUFFICES ASSUME NEW s \in DOMAIN hold', hold'[s].state = "resolved"
               PROVE  \E y \in OnDisk' : Resolves(y) /\ y.ref = s
    OBVIOUS
  <2>1. s \in DOMAIN hold /\ hold[s].state = "resolved"
    BY <1>8, <1>9
  <2> QED
    BY <1>6, <2>1 DEF MoneyInv
<1>18. \A r \in Theirs' : Bookings(OnDisk', r) # {}
  BY <1>3, <1>6, <1>12 DEF MoneyInv, Bookings
<1>20. \A r \in Ours \cup Theirs :
         (IF r.seq \in DOMAIN hold' THEN Owing(hold'[r.seq]) ELSE Debit(OnDisk', r))
           = IF r.seq \in DOMAIN hold THEN Owing(hold[r.seq]) ELSE Debit(OnDisk, r)
  <2> TAKE r \in Ours \cup Theirs
  <2>1. r.seq \in DOMAIN hold' <=> r.seq \in DOMAIN hold
    BY <1>8, <1>13
  <2>2. Debit(OnDisk', r) = Debit(OnDisk, r)
    BY <1>6
  <2> QED
    BY <1>8, <2>1, <2>2
<1>21. ASSUME NEW c \in Scopes, c # scope
       PROVE  Book(c)' = Book(c)
  <2>1. {y \in Ours' \cup Theirs' : y.scope = c} = {y \in Ours \cup Theirs : y.scope = c}
    BY <1>5, <1>11, <1>12, <1>21
  <2> QED
    BY <1>20, <2>1 DEF Book
<1>22. Total(Book(scope)') = Total(Book(scope)) + amount
  <2>1. PICK B, C, h : B = Book(scope) /\ C = Book(scope)' /\ h = [r \in {x} |-> amount]
    OBVIOUS
  <2>2. IsFiniteSet(OnBook(scope)) /\ B \in [OnBook(scope) -> Nat]
    BY <2>1, BookIs
  <2>3. {y \in Ours' \cup Theirs' : y.scope = scope} = OnBook(scope) \cup {x}
    BY <1>5, <1>11, <1>12 DEF OnBook
  <2>4. DOMAIN C = OnBook(scope) \cup {x}
    BY <2>1, <2>3 DEF Book
  <2>5. \A r \in OnBook(scope) : C[r] = B[r]
    BY <1>20, <2>1, <2>3 DEF Book, OnBook
  <2>6. C[x] = amount
    <3>1. x.seq \in DOMAIN hold' /\ Owing(hold'[x.seq]) = amount
      BY <1>5, <1>8, <1>9 DEF Owing
    <3> QED
      BY <2>1, <2>3, <3>1 DEF Book
  <2>7. C \in [OnBook(scope) \cup {x} -> Nat]
    <3>1. \A r \in OnBook(scope) \cup {x} : C[r] \in Nat
      BY <1>4, <2>2, <2>5, <2>6
    <3>2. C = [r \in OnBook(scope) \cup {x} |-> C[r]]
      BY <2>1, <2>3 DEF Book
    <3> QED
      BY <3>1, <3>2
  <2>8. IsFiniteSet(OnBook(scope) \cup {x}) /\ x \notin OnBook(scope)
    BY <1>14, <2>2, FS_AddElement DEF OnBook
  <2>9. Joins(C, B, h)
    <3>1. DOMAIN h = {x} /\ h[x] = amount /\ h \in [{x} -> Nat]
      BY <1>4, <2>1
    <3>2. DOMAIN B = OnBook(scope)
      BY <2>2
    <3> QED
      BY <2>2, <2>4, <2>5, <2>6, <2>7, <2>8, <3>1, <3>2 DEF Joins
  <2>10. Total(C) = Total(B) + Total(h)
    BY <2>9, TotalJoins
  <2>11. Total(h) = amount
    <3>1. DOMAIN h = {x} /\ h[x] = amount /\ amount \in Nat
      BY <1>4, <2>1
    <3> QED
      BY <3>1, TotalOne
  <2> QED
    BY <2>1, <2>10, <2>11
<1>23. /\ acc' \in [Scopes -> AccRow]
       /\ \A c \in Scopes : c # scope => acc'[c] = acc[c]
       /\ Net(acc'[scope]) = Net(acc[scope]) + amount
  <2>1. acc \in [Scopes -> AccRow] /\ acc[scope] \in AccRow
    BY DEF MoneyInv
  <2>2. PICK a : a = [acc[scope] EXCEPT !.outstanding = acc[scope].outstanding + amount]
    OBVIOUS
  <2>3. acc' = [acc EXCEPT ![scope] = a]
    BY <1>1, <2>1, <2>2
  <2>4. /\ a \in AccRow
        /\ a.settled = acc[scope].settled /\ a.restart = acc[scope].restart
        /\ a.other = acc[scope].other /\ a.outstanding = acc[scope].outstanding + amount
    BY <1>4, <2>1, <2>2 DEF AccRow
  <2>5. Net(a) = Net(acc[scope]) + amount
    <3>1. /\ acc[scope].settled \in Int /\ acc[scope].restart \in Int
          /\ acc[scope].other \in Int /\ acc[scope].outstanding \in Int
      BY <2>1 DEF AccRow
    <3> QED
      BY <1>4, <2>4, <3>1 DEF Net
  <2> QED
    BY <2>1, <2>3, <2>4, <2>5
<1>24. /\ Total(Book(scope)) \in Nat /\ Net(acc[scope]) = Total(Book(scope))
       /\ Total(Book(scope)) + amount <= Cap
  <2>1. acc[scope] \in AccRow /\ Net(acc[scope]) = Total(Book(scope))
    BY <1>3 DEF MoneyInv
  <2>2. Total(Book(scope)) \in Nat /\ Cap \in Nat
    BY BookIs, LedgerAssumption
  <2>3. Net(acc[scope]) <= Charge(acc[scope]) /\ Charge(acc[scope]) \in Int
    BY <2>1, NetIs
  <2>4. amount <= Cap - Charge(acc[scope])
    BY <1>1 DEF Room
  <2> QED
    BY <1>4, <2>1, <2>2, <2>3, <2>4
<1>25. \A c \in Scopes : /\ Total(Book(c)') <= Cap
                         /\ Net(acc'[c]) = IF up' THEN Total(Book(c)') ELSE 0
  <2> TAKE c \in Scopes
  <2>1. CASE c = scope
    BY <1>3, <1>22, <1>23, <1>24, <2>1
  <2>2. CASE c # scope
    <3>1. Total(Book(c)) <= Cap /\ Net(acc[c]) = IF up THEN Total(Book(c)) ELSE 0
      BY DEF MoneyInv
    <3> QED
      BY <1>3, <1>21, <1>23, <2>2, <3>1
  <2> QED
    BY <2>1, <2>2
<1> QED
  BY <1>15, <1>16, <1>17, <1>18, <1>23, <1>25 DEF MoneyInv

-----------------------------------------------------------------------------
(* What is resolved for good is booked.                                    *)

Renames(f, g, h) ==
  /\ IsFiniteSet(DOMAIN f)
  /\ f \in [DOMAIN f -> Nat] /\ g \in [DOMAIN g -> Nat] /\ h \in [DOMAIN f -> DOMAIN g]
  /\ \A x, y \in DOMAIN f : h[x] = h[y] => x = y
  /\ \A t \in DOMAIN g : \E x \in DOMAIN f : h[x] = t
  /\ \A x \in DOMAIN f : f[x] = g[h[x]]

LEMMA TotalRenames ==
  ASSUME NEW f, NEW g, NEW h, Renames(f, g, h)
  PROVE  Total(f) = Total(g)
<1>1. PICK S, T : S = DOMAIN f /\ T = DOMAIN g
  OBVIOUS
<1>2. IsFiniteSet(S)
  BY <1>1 DEF Renames
<1>3. PICK F \in [S -> Nat] : F = f
  BY <1>1 DEF Renames
<1>4. PICK G \in [T -> Nat] : G = g
  BY <1>1 DEF Renames
<1>5. PICK H \in [S -> T] : H = h
  BY <1>1 DEF Renames
<1>6. \A x, y \in S : H[x] = H[y] => x = y
  BY <1>1, <1>5 DEF Renames
<1>7. \A t \in T : \E x \in S : H[x] = t
  BY <1>1, <1>5 DEF Renames
<1>8. \A x \in S : F[x] = G[H[x]]
  BY <1>1, <1>3, <1>4, <1>5 DEF Renames
<1>9. Total(F) = Total(G)
  BY <1>2, <1>6, <1>7, <1>8, TotalRenamed
<1> QED
  BY <1>3, <1>4, <1>9

\* What holds cost: what they settled, and the amount of those that are lost.
Costing(w, e, l) ==
  /\ IsFiniteSet(DOMAIN w) /\ DOMAIN e = DOMAIN w /\ DOMAIN l \subseteq DOMAIN w
  /\ w \in [DOMAIN w -> Nat] /\ e \in [DOMAIN w -> Nat] /\ l \in [DOMAIN l -> Nat]
  /\ \A x \in DOMAIN l : e[x] = 0 /\ w[x] = l[x]
  /\ \A x \in DOMAIN w \ DOMAIN l : w[x] = e[x]

LEMMA TotalCosting ==
  ASSUME NEW w, NEW e, NEW l, Costing(w, e, l)
  PROVE  /\ Total(w) = Total(e) + Total(l)
         /\ Total(w) \in Nat /\ Total(e) \in Nat /\ Total(l) \in Nat
<1>1. PICK S, T : S = DOMAIN w /\ T = DOMAIN l
  OBVIOUS
<1>2. IsFiniteSet(S) /\ T \subseteq S
  BY <1>1 DEF Costing
<1>3. PICK W \in [S -> Nat] : W = w
  BY <1>1 DEF Costing
<1>4. PICK E \in [S -> Nat] : E = e
  BY <1>1 DEF Costing
<1>5. PICK L \in [T -> Nat] : L = l
  BY <1>1 DEF Costing
<1>6. /\ \A x \in T : E[x] = 0 /\ W[x] = L[x]
      /\ \A x \in S \ T : W[x] = E[x]
  BY <1>1, <1>3, <1>4, <1>5 DEF Costing
<1>7. PICK M \in [S -> Nat] : \A x \in S : M[x] = IF x \in T THEN L[x] ELSE 0
  <2> DEFINE M == [x \in S |-> IF x \in T THEN L[x] ELSE 0]
  <2>1. M \in [S -> Nat] /\ \A x \in S : M[x] = IF x \in T THEN L[x] ELSE 0
    BY <1>2
  <2> HIDE DEF M
  <2> QED
    BY <2>1
<1>8. Total(L) = Total(M)
  BY <1>2, <1>7, TotalWide
<1>9. Total(W) = Total(E) + Total(M)
  <2>1. \A x \in S : (E[x] = 0 /\ W[x] = M[x]) \/ (M[x] = 0 /\ W[x] = E[x])
    BY <1>6, <1>7
  <2> QED
    BY <1>2, <2>1, TotalJoin
<1>10. Total(W) \in Nat /\ Total(E) \in Nat /\ Total(M) \in Nat
  BY <1>2, TotalNat
<1> QED
  BY <1>3, <1>4, <1>5, <1>8, <1>9, <1>10

LEMMA CreditedNet ==
  ASSUME TypeOK, HoldInv, NEW a \in AccRow, NEW D \in SUBSET DOMAIN hold, NEW lost,
         lost = {s \in D : hold[s].outcome.kind = "uncertain"}
  PROVE  /\ Credited(a, D) \in AccRow
         /\ Net(Credited(a, D)) = Net(a) - Total([s \in D |-> hold[s].amount])
                                    + Total([s \in D |-> hold[s].outcome.settled])
                                    + Total([s \in lost |-> hold[s].amount])
<1>1. IsFiniteSet(D) /\ IsFiniteSet(lost)
  <2>1. lost \in SUBSET D
    OBVIOUS
  <2> QED
    BY <2>1, HoldsFinite, FS_Subset
<1>2. \A s \in D : /\ hold[s].amount \in Nat /\ hold[s].outcome.settled \in Nat
                   /\ hold[s].outcome.overrun \in Nat
  BY DEF TypeOK, HoldRow
<1>3. PICK A \in [D -> Nat] : A = [s \in D |-> hold[s].amount]
  BY <1>2
<1>4. PICK E \in [D -> Nat] : E = [s \in D |-> hold[s].outcome.settled]
  BY <1>2
<1>5. PICK V \in [D -> Nat] : V = [s \in D |-> hold[s].outcome.overrun]
  BY <1>2
<1>6. PICK L \in [lost -> Nat] : L = [s \in lost |-> hold[s].amount]
  BY <1>2
<1>7. PICK na \in Nat, ne \in Nat, nv \in Nat, nl \in Nat :
        na = Total(A) /\ ne = Total(E) /\ nv = Total(V) /\ nl = Total(L)
  BY <1>1, TotalNat
<1>8. Credited(a, D) = [a EXCEPT !.outstanding = @ - na, !.settled = @ + ne,
                                 !.overrun = @ + nv, !.other = @ + nl]
  BY <1>3, <1>4, <1>5, <1>6, <1>7 DEF Credited
<1>9. PICK d : d = Credited(a, D)
  OBVIOUS
<1>10. /\ d \in AccRow
       /\ d.settled = a.settled + ne /\ d.restart = a.restart /\ d.other = a.other + nl
       /\ d.outstanding = a.outstanding - na
  <2>1. PICK p \in Int, q \in Nat, r \in Int, t \in Int, u \in Int :
          a = [settled |-> p, overrun |-> q, restart |-> r, other |-> t, outstanding |-> u]
    BY DEF AccRow
  <2>2. d = [settled |-> p + ne, overrun |-> q + nv, restart |-> r, other |-> t + nl,
             outstanding |-> u - na]
    BY <1>8, <1>9, <2>1
  <2>3. p + ne \in Int /\ q + nv \in Nat /\ t + nl \in Int /\ u - na \in Int
    OBVIOUS
  <2> QED
    BY <2>1, <2>2, <2>3 DEF AccRow
<1>11. a.settled \in Int /\ a.restart \in Int /\ a.other \in Int /\ a.outstanding \in Int
  BY DEF AccRow
<1>12. Net(d) = Net(a) - na + ne + nl
  BY <1>10, <1>11 DEF Net
<1> QED
  BY <1>3, <1>4, <1>6, <1>7, <1>9, <1>10, <1>12

\* The holds a durable batch resolves.
Resolved(done) ==
  /\ UNCHANGED <<file, up, opens, queue, writer>> /\ up
  /\ DOMAIN hold' = DOMAIN hold
  /\ \A s \in DOMAIN hold :
       /\ hold'[s].scope = hold[s].scope /\ hold'[s].amount = hold[s].amount
       /\ hold'[s].base = hold[s].base /\ hold'[s].outcome = hold[s].outcome
       /\ hold'[s].state = "resolved" <=> hold[s].state = "resolved" \/ s \in done
  /\ \A s \in done : hold[s].state = "resolving" /\ \E x \in OnDisk : Resolves(x) /\ x.ref = s
  /\ acc' = [c \in Scopes |-> Credited(acc[c], {s \in done : hold[s].scope = c})]

LEMMA DurableResolves ==
  ASSUME IInv, PostedDurable
  PROVE  \E done \in SUBSET DOMAIN hold : Resolved(done)
<1> USE DEF IInv
<1>1. PICK mine, done, fresh : /\ mine = Range(Head(posts).lines) \cap inFlight
                               /\ done = ResolvedBy(mine) /\ fresh = ReservedBy(mine)
  OBVIOUS
<1>2. /\ posts # <<>> /\ posts' = Tail(posts)
      /\ UNCHANGED <<file, up, opens, queue, writer>>
      /\ acc' = [c \in Scopes |-> Credited(acc[c], {s \in done : hold[s].scope = c})]
      /\ hold' = [s \in DOMAIN hold |->
                    IF s \in done THEN [hold[s] EXCEPT !.state = "resolved"]
                    ELSE IF s \in fresh THEN [hold[s] EXCEPT !.state = "reserved"]
                    ELSE hold[s]]
  BY <1>1 DEF PostedDurable, Durable
<1>3. \A x \in mine : Own(x) /\ x \in OnDisk /\ x \in Line
  BY <1>1, <1>2, TailIs, Parts DEF OwnInv
<1>4. /\ done \subseteq DOMAIN hold
      /\ \A s \in done : hold[s].state = "resolving" /\ \E x \in OnDisk : Resolves(x) /\ x.ref = s
  BY <1>1, <1>3 DEF ResolvedBy, Own
<1>5. \A s \in fresh : hold[s].state = "pending"
  BY <1>1 DEF ReservedBy
<1>6. up
  BY <1>2 DEF Down
<1>7. \A s \in DOMAIN hold :
        /\ hold'[s].scope = hold[s].scope /\ hold'[s].amount = hold[s].amount
        /\ hold'[s].base = hold[s].base /\ hold'[s].outcome = hold[s].outcome
        /\ hold'[s].state = "resolved" <=> hold[s].state = "resolved" \/ s \in done
  <2> TAKE s \in DOMAIN hold
  <2>1. hold[s] \in HoldRow
    BY DEF TypeOK
  <2>2. CASE s \in done
    <3>1. hold'[s] = [hold[s] EXCEPT !.state = "resolved"]
      BY <1>2, <2>2
    <3> QED
      BY <2>1, <2>2, <3>1 DEF HoldRow
  <2>3. CASE s \notin done /\ s \in fresh
    <3>1. hold'[s] = [hold[s] EXCEPT !.state = "reserved"]
      BY <1>2, <2>3
    <3> QED
      BY <1>5, <2>1, <2>3, <3>1 DEF HoldRow
  <2>4. CASE s \notin done /\ s \notin fresh
    <3>1. hold'[s] = hold[s]
      BY <1>2, <2>4
    <3> QED
      BY <2>4, <3>1
  <2> QED
    BY <2>2, <2>3, <2>4
<1> QED
  BY <1>2, <1>4, <1>6, <1>7 DEF Resolved

-----------------------------------------------------------------------------
\* Of the holds D of a scope, those whose money is lost.
LostOf(D) == {s \in D : hold[s].outcome.kind = "uncertain"}

\* The book of a scope as the holds D of it resolve: it keeps what they cost.
Keeps(c, D) ==
  LET na == Total([s \in D |-> hold[s].amount])
      ne == Total([s \in D |-> hold[s].outcome.settled])
      nl == Total([s \in LostOf(D) |-> hold[s].amount])
      n == Total(Book(c))
      m == Total(Book(c)')
  IN {na, ne, nl, n, m} \subseteq Nat /\ m = n - na + ne + nl /\ m <= n

LEMMA ResolvedBook ==
  ASSUME IInv, MoneyInv, NEW done \in SUBSET DOMAIN hold, Resolved(done), NEW c, NEW D,
         D = {s \in done : hold[s].scope = c}
  PROVE  Keeps(c, D)
<1>0. PICK lost : lost = LostOf(D)
  OBVIOUS
<1>a. lost = {s \in D : hold[s].outcome.kind = "uncertain"}
  BY <1>0 DEF LostOf
<1> USE DEF IInv
<1>1. D \subseteq DOMAIN hold /\ lost \subseteq D /\ IsFiniteSet(D)
  <2>1. D \in SUBSET DOMAIN hold
    OBVIOUS
  <2> QED
    BY <1>a, <2>1, HoldsFinite, FS_Subset
<1>2. \A s \in D : /\ hold[s].scope = c /\ hold[s].state = "resolving"
                   /\ hold[s].amount \in Nat
                   /\ hold[s].outcome.settled \in Nat /\ hold[s].outcome.settled <= hold[s].amount
                   /\ hold[s].outcome.kind = "uncertain" => hold[s].outcome.settled = 0
  <2> TAKE s \in D
  <2>1. hold[s].state = "resolving" /\ \E x \in OnDisk : Resolves(x) /\ x.ref = s
    BY DEF Resolved
  <2>2. s \in DOMAIN hold
    BY <1>1
  <2> QED
    BY <2>1, <2>2, OwingIs
<1>3. PICK B, C : B = Book(c) /\ C = Book(c)'
  OBVIOUS
<1>4. PICK S : S = OnBook(c)
  OBVIOUS
<1>5. IsFiniteSet(S) /\ B \in [S -> Nat]
  BY <1>3, <1>4, BookIs
<1>6. PICK h : h = [s \in D |-> HeldLine(s)]
  OBVIOUS
<1>7. \A s \in D : /\ h[s] = HeldLine(s) /\ h[s].seq = s /\ h[s] \in S /\ B[h[s]] = hold[s].amount
  <2> TAKE s \in D
  <2>1. h[s] = HeldLine(s) /\ h[s].seq = s
    BY <1>6, HeldLineIs
  <2>2. h[s] \in S /\ B[h[s]] = Owing(hold[s])
    BY <1>1, <1>2, <1>3, <1>4, <2>1, BookIs
  <2>3. Owing(hold[s]) = hold[s].amount
    BY <1>2 DEF Owing
  <2> QED
    BY <2>1, <2>2, <2>3
<1>8. PICK R : R = {h[s] : s \in D}
  OBVIOUS
<1>9. PICK Q : Q = S \ R
  OBVIOUS
<1>10. /\ OnDisk' = OnDisk /\ Ours' = Ours /\ Theirs' = Theirs
  <2>1. \A s \in DOMAIN hold : HeldLine(s)' = HeldLine(s)
    BY DEF Resolved, HeldLine
  <2>2. Ours' = Ours
    BY <2>1 DEF Ours, Resolved
  <2> QED
    BY <2>2 DEF Resolved, OnDisk, Theirs
<1>11. /\ DOMAIN C = S
       /\ \A r \in S : C[r] = IF r.seq \in DOMAIN hold THEN Owing(hold'[r.seq]) ELSE Debit(OnDisk, r)
       /\ \A r \in S : B[r] = IF r.seq \in DOMAIN hold THEN Owing(hold[r.seq]) ELSE Debit(OnDisk, r)
  BY <1>3, <1>4, <1>10 DEF Book, OnBook, Resolved
<1>12. \A s \in DOMAIN hold :
         /\ s \in done => Owing(hold'[s]) = hold[s].outcome.settled + Lost(hold[s].outcome.kind, hold[s].amount)
         /\ s \notin done => Owing(hold'[s]) = Owing(hold[s])
  <2> TAKE s \in DOMAIN hold
  <2>1. /\ hold'[s].amount = hold[s].amount /\ hold'[s].outcome = hold[s].outcome
        /\ hold'[s].state = "resolved" <=> hold[s].state = "resolved" \/ s \in done
    BY DEF Resolved
  <2> QED
    BY <2>1 DEF Owing
<1>13. PICK w : w = [s \in D |-> hold[s].outcome.settled + IF s \in lost THEN hold[s].amount ELSE 0]
  OBVIOUS
<1>14. \A s \in D : /\ C[h[s]] = w[s] /\ w[s] \in Nat /\ w[s] <= hold[s].amount
  <2> TAKE s \in D
  <2>1. s \in done /\ s \in DOMAIN hold
    BY <1>1
  <2>2. C[h[s]] = Owing(hold'[s])
    BY <1>7, <1>11, <2>1
  <2>3. C[h[s]] = hold[s].outcome.settled + Lost(hold[s].outcome.kind, hold[s].amount)
    BY <1>12, <2>1, <2>2
  <2>4. w[s] = hold[s].outcome.settled + IF s \in lost THEN hold[s].amount ELSE 0
    BY <1>13
  <2>5. s \in lost <=> hold[s].outcome.kind = "uncertain"
    BY <1>a
  <2>6. C[h[s]] = w[s]
    BY <2>3, <2>4, <2>5 DEF Lost
  <2>7. w[s] \in Nat /\ w[s] <= hold[s].amount
    BY <1>2, <2>4, <2>5
  <2> QED
    BY <2>6, <2>7
<1>15. \A r \in Q : C[r] = B[r] /\ C[r] \in Nat
  <2> TAKE r \in Q
  <2>1. r \in S /\ r \notin R
    BY <1>9
  <2>2. CASE r.seq \in DOMAIN hold
    <3>1. r \in Ours
      BY <1>4, <2>1, <2>2 DEF OnBook, Theirs
    <3>2. PICK s \in DOMAIN hold : r = HeldLine(s)
      BY <3>1 DEF Ours
    <3>3. r.seq = s /\ hold[s].scope = c
      BY <1>4, <2>1, <3>2, HeldLineIs DEF OnBook
    <3>4. s \notin done
      BY <1>7, <1>8, <2>1, <3>2, <3>3
    <3>5. C[r] = B[r]
      BY <1>11, <1>12, <2>1, <3>3, <3>4
    <3> QED
      BY <1>5, <2>1, <3>5
  <2>3. CASE r.seq \notin DOMAIN hold
    BY <1>5, <1>11, <2>1, <2>3
  <2> QED
    BY <2>2, <2>3
<1>16. R \subseteq S /\ \A r \in R : C[r] \in Nat /\ C[r] <= B[r]
  BY <1>7, <1>8, <1>14
<1>17. Q \subseteq S /\ Q \cup R = S /\ Q \cap R = {}
  BY <1>9, <1>16
<1>18. C \in [S -> Nat]
  <2>1. \A r \in S : C[r] \in Nat
    BY <1>15, <1>16, <1>17
  <2>2. C = [r \in S |-> C[r]]
    <3>1. C = [r \in {x \in Ours' \cup Theirs' : x.scope = c} |->
                 IF r.seq \in DOMAIN hold' THEN Owing(hold'[r.seq]) ELSE Debit(OnDisk', r)]
      BY <1>3 DEF Book
    <3>2. C = [r \in DOMAIN C |-> C[r]]
      BY <3>1
    <3> QED
      BY <1>11, <3>2
  <2> QED
    BY <2>1, <2>2
<1>19. PICK q, b, d : q = [r \in Q |-> B[r]] /\ b = [r \in R |-> B[r]] /\ d = [r \in R |-> C[r]]
  OBVIOUS
<1>20. /\ DOMAIN q = Q /\ DOMAIN b = R /\ DOMAIN d = R
       /\ q \in [Q -> Nat] /\ b \in [R -> Nat] /\ d \in [R -> Nat]
       /\ DOMAIN B = S
  BY <1>5, <1>16, <1>17, <1>19
<1>21. Joins(B, q, b)
  BY <1>5, <1>17, <1>19, <1>20 DEF Joins
<1>22. Joins(C, q, d)
  BY <1>5, <1>11, <1>15, <1>17, <1>18, <1>19, <1>20 DEF Joins
<1>23. PICK a, e, l : /\ a = [s \in D |-> hold[s].amount]
                      /\ e = [s \in D |-> hold[s].outcome.settled]
                      /\ l = [s \in lost |-> hold[s].amount]
  OBVIOUS
<1>24. /\ DOMAIN a = D /\ DOMAIN e = D /\ DOMAIN l = lost /\ DOMAIN w = D
       /\ a \in [D -> Nat] /\ e \in [D -> Nat] /\ l \in [lost -> Nat] /\ w \in [D -> Nat]
  <2>1. \A s \in D : w[s] \in Nat
    BY <1>14
  <2>2. w = [s \in D |-> w[s]]
    BY <1>13
  <2>3. w \in [D -> Nat]
    BY <2>1, <2>2
  <2> QED
    BY <1>1, <1>2, <1>23, <2>3
<1>25. /\ h \in [D -> R]
       /\ \A x, y \in D : h[x] = h[y] => x = y
       /\ \A t \in R : \E x \in D : h[x] = t
  BY <1>6, <1>7, <1>8
<1>26. Renames(a, b, h)
  <2>1. \A x \in D : a[x] = b[h[x]]
    BY <1>7, <1>19, <1>23, <1>25
  <2> QED
    BY <1>1, <1>20, <1>24, <1>25, <2>1 DEF Renames
<1>27. Renames(w, d, h)
  <2>1. \A x \in D : w[x] = d[h[x]]
    BY <1>14, <1>19, <1>25
  <2> QED
    BY <1>1, <1>20, <1>24, <1>25, <2>1 DEF Renames
<1>28. Costing(w, e, l)
  <2>1. \A x \in lost : e[x] = 0 /\ w[x] = l[x]
    <3> TAKE x \in lost
    <3>1. x \in D /\ hold[x].outcome.settled = 0 /\ hold[x].amount \in Nat
      BY <1>a, <1>1, <1>2
    <3>2. e[x] = 0 /\ l[x] = hold[x].amount
      BY <1>23, <3>1
    <3>3. w[x] = 0 + hold[x].amount
      BY <1>13, <3>1
    <3> QED
      BY <3>1, <3>2, <3>3
  <2>2. \A x \in D \ lost : w[x] = e[x]
    <3> TAKE x \in D \ lost
    <3>1. w[x] = hold[x].outcome.settled + 0 /\ e[x] = hold[x].outcome.settled
      BY <1>13, <1>23
    <3> QED
      BY <1>2, <3>1
  <2> QED
    BY <1>1, <1>24, <2>1, <2>2 DEF Costing
<1>29. /\ Total(B) = Total(q) + Total(b) /\ Total(C) = Total(q) + Total(d)
       /\ Total(B) \in Nat /\ Total(q) \in Nat /\ Total(b) \in Nat
       /\ Total(C) \in Nat /\ Total(d) \in Nat
  BY <1>21, <1>22, TotalJoins
<1>30. Total(a) = Total(b) /\ Total(w) = Total(d)
  BY <1>26, <1>27, TotalRenames
<1>31. /\ Total(w) = Total(e) + Total(l)
       /\ Total(w) \in Nat /\ Total(e) \in Nat /\ Total(l) \in Nat
  BY <1>28, TotalCosting
<1>32. Total(C) <= Total(B)
  <2>1. AtMost(C, B)
    <3>1. \A r \in S : C[r] <= B[r]
      BY <1>5, <1>15, <1>16, <1>17
    <3> QED
      BY <1>5, <1>11, <1>18, <1>20, <3>1 DEF AtMost
  <2> QED
    BY <2>1, TotalAtMost
<1>33. PICK na \in Nat, ne \in Nat, nl \in Nat, n \in Nat, m \in Nat, nq \in Nat, nw \in Nat :
         /\ na = Total(a) /\ ne = Total(e) /\ nl = Total(l) /\ n = Total(B) /\ m = Total(C)
         /\ nq = Total(q) /\ nw = Total(w)
         /\ n = nq + na /\ m = nq + nw /\ nw = ne + nl /\ m <= n
  BY <1>29, <1>30, <1>31, <1>32
<1>34. m = n - na + ne + nl /\ m <= n
  BY <1>33
<1>35. /\ na = Total([s \in D |-> hold[s].amount])
       /\ ne = Total([s \in D |-> hold[s].outcome.settled])
       /\ nl = Total([s \in LostOf(D) |-> hold[s].amount])
       /\ n = Total(Book(c)) /\ m = Total(Book(c)')
  BY <1>0, <1>3, <1>23, <1>33
<1> QED
  BY <1>34, <1>35 DEF Keeps

LEMMA PostedDurableMoney ==
  ASSUME IInv, MoneyInv, PostedDurable
  PROVE  MoneyInv'
<1> USE DEF IInv
<1>1. PICK done \in SUBSET DOMAIN hold : Resolved(done)
  BY DurableResolves
<1>2. OnDisk' = OnDisk /\ OnTheWay' = OnTheWay
  BY <1>1, SameLines DEF Resolved
<1>3. Plain(OnDisk' \cup OnTheWay')
  BY <1>2 DEF MoneyInv
<1>4. \A x \in OnDisk' \cup OnTheWay' : Resolves(x) /\ x.ref \in DOMAIN hold' =>
        x.kind = hold'[x.ref].outcome.kind /\ x.settled = hold'[x.ref].outcome.settled
  BY <1>1, <1>2 DEF MoneyInv, Resolved
<1>5. \A s \in DOMAIN hold' :
        hold'[s].state = "resolved" => \E x \in OnDisk' : Resolves(x) /\ x.ref = s
  BY <1>1, <1>2 DEF MoneyInv, Resolved
<1>6. \A r \in Theirs' : Bookings(OnDisk', r) # {}
  <2>1. Theirs' = Theirs
    BY <1>1, <1>2 DEF Theirs, Resolved
  <2> QED
    BY <1>1, <1>2, <2>1 DEF MoneyInv, Bookings, Resolved
<1>7. \A c \in Scopes : /\ acc'[c] \in AccRow
                        /\ Total(Book(c)') <= Cap
                        /\ Net(acc'[c]) = IF up' THEN Total(Book(c)') ELSE 0
  <2> TAKE c \in Scopes
  <2>1. PICK D : D = {s \in done : hold[s].scope = c}
    OBVIOUS
  <2>a. Keeps(c, D)
    BY <1>1, <2>1, ResolvedBook
  <2>b. PICK na, ne, nl, n, m : /\ na = Total([s \in D |-> hold[s].amount])
                                /\ ne = Total([s \in D |-> hold[s].outcome.settled])
                                /\ nl = Total([s \in LostOf(D) |-> hold[s].amount])
                                /\ n = Total(Book(c)) /\ m = Total(Book(c)')
    OBVIOUS
  <2>2. /\ na \in Nat /\ ne \in Nat /\ nl \in Nat /\ n \in Nat /\ m \in Nat
        /\ m = n - na + ne + nl /\ m <= n
    BY <2>a, <2>b DEF Keeps
  <2>3. acc[c] \in AccRow /\ n <= Cap /\ Net(acc[c]) = n /\ up /\ up'
    BY <1>1, <2>b DEF MoneyInv, Resolved
  <2>4. D \in SUBSET DOMAIN hold
    BY <2>1
  <2>5. acc'[c] = Credited(acc[c], D)
    BY <1>1, <2>1 DEF Resolved
  <2>6. /\ Credited(acc[c], D) \in AccRow
        /\ Net(Credited(acc[c], D)) = Net(acc[c]) - na + ne + nl
    <3>1. LostOf(D) = {s \in D : hold[s].outcome.kind = "uncertain"}
      BY DEF LostOf
    <3> QED
      BY <2>b, <2>3, <2>4, <3>1, CreditedNet
  <2>7. Net(acc'[c]) = m
    BY <2>2, <2>3, <2>5, <2>6
  <2>8. Cap \in Nat
    BY LedgerAssumption
  <2> QED
    BY <2>b, <2>2, <2>3, <2>5, <2>6, <2>7, <2>8
<1>8. acc' \in [Scopes -> AccRow]
  BY <1>1, <1>7 DEF Resolved
<1> QED
  BY <1>3, <1>4, <1>5, <1>6, <1>7, <1>8 DEF MoneyInv

-----------------------------------------------------------------------------
(* A process ends, and the next one replays what it left.                  *)

\* Without a process the book is the file's.
LEMMA DownBook ==
  ASSUME hold = <<>>, NEW c
  PROVE  Book(c) = FileBook(file, c)
<1>1. DOMAIN hold = {}
  OBVIOUS
<1>2. Ours = {}
  BY <1>1 DEF Ours
<1>3. Ours \cup Theirs = Held(file)
  BY <1>1, <1>2 DEF Theirs, Held, Of, OnDisk
<1> QED
  BY <1>1, <1>3 DEF Book, FileBook, OnDisk

LEMMA FreshBook ==
  ASSUME hold' = <<>>, NEW c
  PROVE  Book(c)' = FileBook(file', c)
<1>1. DOMAIN hold' = {}
  OBVIOUS
<1>2. Ours' = {}
  BY <1>1 DEF Ours
<1>3. Ours' \cup Theirs' = Held(file')
  BY <1>1, <1>2 DEF Theirs, Held, Of, OnDisk
<1> QED
  BY <1>1, <1>3 DEF Book, FileBook, OnDisk

\* An opened line and the bookings of a restart change no scope's charge.
LEMMA FileBookSame ==
  ASSUME NEW f \in Seq(Line), Good(f), Plain(Range(f)), NEW g \in Seq(Line), Good(g),
         Range(f) \subseteq Range(g),
         \A x \in Range(g) \ Range(f) :
           x.kind = "opened" \/ (x.kind = "uncertain" /\ x.settled = 0),
         NEW c
  PROVE  Plain(Range(g)) /\ FileBook(g, c) = FileBook(f, c)
<1>1. Plain(Range(g))
  BY Kinds DEF Plain, Resolves
<1>2. Held(g) = Held(f)
  BY DEF Held, Of
<1>3. ASSUME NEW r \in Held(f) PROVE Debit(Range(g), r) = Debit(Range(f), r)
  <2>1. r \in Range(f) /\ r \in Range(g) /\ r.kind = "reserved" /\ r.amount \in Nat
    BY HeldFinite
  <2>2. /\ \A x \in Range(f) : Resolves(x) /\ x.ref = r.seq =>
             Debit(Range(f), r) = x.settled + Lost(x.kind, r.amount)
        /\ Bookings(Range(f), r) = {} => Debit(Range(f), r) = r.amount
    BY <2>1, DebitIs
  <2>3. /\ \A x \in Range(g) : Resolves(x) /\ x.ref = r.seq =>
             Debit(Range(g), r) = x.settled + Lost(x.kind, r.amount)
        /\ Bookings(Range(g), r) = {} => Debit(Range(g), r) = r.amount
    BY <1>1, <2>1, DebitIs
  <2>4. CASE Bookings(Range(f), r) # {}
    <3>1. PICK x \in Range(f) : Resolves(x) /\ x.ref = r.seq
      BY <2>4 DEF Bookings
    <3> QED
      BY <2>2, <2>3, <3>1
  <2>5. CASE Bookings(Range(f), r) = {} /\ Bookings(Range(g), r) = {}
    BY <2>2, <2>3, <2>5
  <2>6. CASE Bookings(Range(f), r) = {} /\ Bookings(Range(g), r) # {}
    <3>1. PICK x \in Range(g) : Resolves(x) /\ x.ref = r.seq
      BY <2>6 DEF Bookings
    <3>2. x \notin Range(f)
      BY <2>6, <3>1 DEF Bookings
    <3>3. x.kind = "uncertain" /\ x.settled = 0
      BY <3>1, <3>2, Kinds DEF Resolves
    <3>4. Debit(Range(g), r) = 0 + r.amount
      BY <2>3, <3>1, <3>3 DEF Lost
    <3> QED
      BY <2>1, <2>2, <2>6, <3>4
  <2> QED
    BY <2>4, <2>5, <2>6
<1> QED
  BY <1>1, <1>2, <1>3 DEF FileBook

LEMMA FreshMoney ==
  ASSUME hold' = <<>>, OnTheWay' = {}, Plain(OnDisk'),
         up' => \A r \in OnDisk' : r.kind = "reserved" => Bookings(OnDisk', r) # {},
         acc' \in [Scopes -> AccRow],
         \A c \in Scopes : /\ Total(FileBook(file', c)) <= Cap
                           /\ Net(acc'[c]) = IF up' THEN Total(FileBook(file', c)) ELSE 0
  PROVE  MoneyInv'
<1>1. DOMAIN hold' = {}
  OBVIOUS
<1>2. Plain(OnDisk' \cup OnTheWay')
  BY DEF Plain
<1>3. up' => \A r \in Theirs' : Bookings(OnDisk', r) # {}
  BY DEF Theirs
<1>4. \A c \in Scopes : /\ Total(Book(c)') <= Cap
                        /\ Net(acc'[c]) = IF up' THEN Total(Book(c)') ELSE 0
  BY FreshBook
<1> QED
  BY <1>1, <1>2, <1>3, <1>4 DEF MoneyInv

LEMMA NoAccIs ==
  /\ NoAcc \in AccRow /\ Net(NoAcc) = 0
  /\ [c \in Scopes |-> NoAcc] \in [Scopes -> AccRow]
<1>1. NoAcc \in AccRow
  BY DEF NoAcc, AccRow
<1>2. Net(NoAcc) = 0
  BY DEF NoAcc, Net
<1> QED
  BY <1>1, <1>2

LEMMA DiesMoney ==
  ASSUME IInv, MoneyInv, Dies
  PROVE  MoneyInv'
<1>1. /\ up' = FALSE /\ file' \in Survivors /\ hold' = <<>> /\ queue' = <<>> /\ writer' = Idle
      /\ acc' = [c \in Scopes |-> NoAcc]
  BY DEF Dies
<1>2. OnTheWay' = {}
  BY <1>1, EmptyIs DEF OnTheWay, Idle
<1>3. Plain(OnDisk')
  BY <1>1, SurvivorBook DEF OnDisk
<1>4. \A c \in Scopes : Total(FileBook(file', c)) <= Cap
  <2> TAKE c \in Scopes
  <2>1. /\ Total(FileBook(file', c)) \in Nat /\ Total(Book(c)) \in Nat
        /\ Total(FileBook(file', c)) <= Total(Book(c))
    BY <1>1, SurvivorBook
  <2>2. Total(Book(c)) <= Cap /\ Cap \in Nat
    BY LedgerAssumption DEF MoneyInv
  <2> QED
    BY <2>1, <2>2
<1>5. \A c \in Scopes : Net(acc'[c]) = 0
  BY <1>1, NoAccIs
<1>6. acc' \in [Scopes -> AccRow]
  BY <1>1, NoAccIs
<1> QED
  BY <1>1, <1>2, <1>3, <1>4, <1>5, <1>6, FreshMoney

\* The file that an open that dies leaves, or one that does not.
Opening(g) ==
  /\ file' = file \o g
  /\ \A x \in Range(g) : x.kind = "opened" \/ (x.kind = "uncertain" /\ x.settled = 0)

LEMMA OpeningBook ==
  ASSUME IInv, MoneyInv, ~up, NEW g \in Seq(Line), Opening(g), Good(file')
  PROVE  /\ file' \in Seq(Line) /\ OnDisk' = OnDisk \cup Range(g) /\ Plain(OnDisk')
         /\ \A c \in Scopes : Total(FileBook(file', c)) <= Cap
<1>1. file \in Seq(Line) /\ Good(file) /\ OnDisk = Range(file) /\ Plain(Range(file))
  BY FileGood DEF OnDisk, IInv, MoneyInv, Plain
<1>2. file' \in Seq(Line) /\ Range(file') = Range(file) \cup Range(g)
  BY <1>1, BeforeConcat DEF Opening
<1>3. PICK f \in Seq(Line) : f = file'
  BY <1>2
<1>4. /\ Good(f) /\ Range(file) \subseteq Range(f)
      /\ \A x \in Range(f) \ Range(file) :
           x.kind = "opened" \/ (x.kind = "uncertain" /\ x.settled = 0)
  BY <1>2, <1>3 DEF Opening
<1>5. \A c : Plain(Range(f)) /\ FileBook(f, c) = FileBook(file, c)
  BY <1>1, <1>4, FileBookSame
<1>6. hold = <<>>
  BY DEF IInv, Down
<1>7. \A c \in Scopes : Total(FileBook(file, c)) <= Cap
  BY <1>6, DownBook DEF MoneyInv
<1> QED
  BY <1>1, <1>2, <1>3, <1>5, <1>7 DEF OnDisk

LEMMA OpenDiesMoney ==
  ASSUME IInv, IInv', MoneyInv, OpenDies
  PROVE  MoneyInv'
<1>1. ~up /\ UNCHANGED <<up, hold, queue, acc, writer>>
  BY DEF OpenDies, ledgerVars
<1>2. PICK b \in Seq(Line) :
           /\ b = OpenBatch(file, opens + 1)
           /\ \A x \in Range(b) : \/ x.kind = "opened" /\ x.epoch = opens + 1
                                  \/ x.kind = "uncertain" /\ x.settled = 0
  BY <1>1, OpenBatchIs
<1>3. PICK k \in 0..Len(b) : file' = file \o SubSeq(b, 1, k)
  BY <1>2 DEF OpenDies
<1>4. PICK g, h \in Seq(Line) : g = SubSeq(b, 1, k) /\ b = g \o h
  BY Split
<1>5. Range(g) \subseteq Range(b)
  <2>1. Range(g \o h) = Range(g) \cup Range(h)
    BY BeforeConcat
  <2> QED
    BY <1>4, <2>1
<1>6. Opening(g)
  BY <1>2, <1>3, <1>4, <1>5 DEF Opening
<1>7. Good(file')
  <2>1. (TypeOK /\ FileInv)'
    BY DEF IInv
  <2>2. (file \in Seq(Line) /\ Good(file))'
    BY <2>1, FileGood, PTL
  <2> QED
    BY <2>2
<1>8. hold = <<>> /\ queue = <<>> /\ writer = Idle
  BY <1>1 DEF Down, IInv
<1>9. OnTheWay' = {}
  BY <1>1, <1>8, EmptyIs DEF OnTheWay, Idle
<1>10. Plain(OnDisk') /\ \A c \in Scopes : Total(FileBook(file', c)) <= Cap
  BY <1>1, <1>4, <1>6, <1>7, OpeningBook
<1>11. hold' = <<>> /\ ~up' /\ acc' \in [Scopes -> AccRow] /\ \A c \in Scopes : Net(acc'[c]) = 0
  BY <1>1, <1>8 DEF MoneyInv
<1> QED
  BY <1>9, <1>10, <1>11, FreshMoney

LEMMA OpenMoney ==
  ASSUME IInv, MoneyInv, Open
  PROVE  MoneyInv'
<1>1. ~up
  BY DEF Open
<1>2. PICK b \in Seq(Line) :
           /\ b = OpenBatch(file, opens + 1)
           /\ Good(file \o b)
           /\ \A x \in Range(b) : \/ x.kind = "opened" /\ x.epoch = opens + 1
                                  \/ x.kind = "uncertain" /\ x.settled = 0
           /\ \A r \in OpenHolds(file) : \E x \in Range(b) : Resolves(x) /\ x.ref = r.seq
  BY <1>1, OpenBatchIs
<1>3. PICK f : f = file \o b
  OBVIOUS
<1>4. /\ file' = f /\ up' = TRUE /\ hold' = <<>>
      /\ acc' = [c \in Scopes |-> ReplayedAcc(f, c)]
      /\ UNCHANGED <<queue, writer>>
  BY <1>2, <1>3 DEF Open
<1>5. Opening(b) /\ Good(file') /\ Good(f)
  BY <1>2, <1>3, <1>4 DEF Opening
<1>6. /\ f \in Seq(Line) /\ OnDisk' = OnDisk \cup Range(b) /\ Plain(OnDisk')
      /\ \A c \in Scopes : Total(FileBook(f, c)) <= Cap
  BY <1>1, <1>4, <1>5, OpeningBook
<1>7. queue = <<>> /\ writer = Idle
  BY <1>1 DEF Down, IInv
<1>8. OnTheWay' = {}
  BY <1>4, <1>7, EmptyIs DEF OnTheWay, Idle
<1>9. Plain(Range(f))
  BY <1>4, <1>6 DEF OnDisk
<1>10. \A c \in Scopes : /\ ReplayedAcc(f, c) \in AccRow
                         /\ Net(ReplayedAcc(f, c)) = Total(FileBook(f, c))
  BY <1>5, <1>6, <1>9, ReplayedNet
<1>11. acc' \in [Scopes -> AccRow]
  BY <1>4, <1>10
<1>12. \A c \in Scopes : Net(acc'[c]) = Total(FileBook(file', c))
  BY <1>4, <1>10
<1>13. \A r \in OnDisk' : r.kind = "reserved" => Bookings(OnDisk', r) # {}
  <2> SUFFICES ASSUME NEW r \in OnDisk', r.kind = "reserved"
               PROVE  \E x \in OnDisk' : Resolves(x) /\ x.ref = r.seq
    BY DEF Bookings
  <2>1. r \in OnDisk
    BY <1>2, <1>6
  <2>2. CASE r \in OpenHolds(file)
    BY <1>2, <1>6, <2>2
  <2>3. CASE r \notin OpenHolds(file)
    <3>1. \E x \in OnDisk : Resolves(x) /\ x.ref = r.seq
      BY <2>1, <2>3 DEF OpenHolds, Held, Refs, Of, Resolves, OnDisk
    <3> QED
      BY <1>6, <3>1
  <2> QED
    BY <2>2, <2>3
<1> QED
  BY <1>4, <1>6, <1>8, <1>11, <1>12, <1>13, FreshMoney

LEMMA InitMoney ==
  ASSUME Init
  PROVE  MoneyInv
<1> USE DEF Init
<1>1. OnDisk = {} /\ OnTheWay = {}
  BY EmptyIs DEF OnDisk, OnTheWay, Idle
<1>2. DOMAIN hold = {}
  OBVIOUS
<1>3. ASSUME NEW c PROVE Total(Book(c)) = 0
  <2>1. PICK B : B = Book(c)
    OBVIOUS
  <2>2. DOMAIN B = {}
    BY <1>1, <1>2, <2>1 DEF Book, Ours, Theirs
  <2>3. UNION {{x} \X (1..B[x]) : x \in DOMAIN B} = {}
    BY <2>2
  <2>4. Total(B) = 0
    BY <2>3, FS_EmptySet DEF Total
  <2> QED
    BY <2>1, <2>4
<1>4. acc \in [Scopes -> AccRow] /\ \A c \in Scopes : Net(acc[c]) = 0
  BY NoAccIs
<1>5. \A c \in Scopes : Total(Book(c)) <= Cap
  BY <1>3, LedgerAssumption
<1> QED
  BY <1>1, <1>2, <1>4, <1>5 DEF MoneyInv, Plain, Theirs

LEMMA NextMoney ==
  ASSUME IInv, IInv', MoneyInv, [Next]_vars
  PROVE  MoneyInv'
<1>1. CASE Open \/ OpenDies \/ Dies
  BY <1>1, OpenMoney, OpenDiesMoney, DiesMoney
<1>2. CASE Admit
  BY <1>2, AdmitMoney
<1>3. CASE PostedDurable
  BY <1>3, PostedDurableMoney
<1>4. CASE \/ UNCHANGED vars \/ Writer \/ Sender \/ PostedFault \/ CloseTimesOut \/ Closes
           \/ RefusedCloses \/ \E s \in DOMAIN hold : Exchange(s)
  BY <1>4, OtherMoney, StillMoney
<1> QED
  BY <1>1, <1>2, <1>3, <1>4 DEF Next, Posted

\* Room and _durable keep the charge of a scope, overruns apart, within its cap, and what the next
\* open replays after a crash at any step charges no scope more than the process did.
THEOREM CapIsKept == Spec => []WithinCap
<1>1. Init => MoneyInv
  BY InitMoney
<1>2. IInv /\ IInv' /\ MoneyInv /\ [Next]_vars => MoneyInv'
  BY NextMoney
<1>3. IInv /\ MoneyInv => WithinCap
  BY WithinCapFollows
<1> QED
  BY <1>1, <1>2, <1>3, Invariance, PTL DEF Spec

=============================================================================
