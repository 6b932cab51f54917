--------------------------- MODULE LiveClientProofs ---------------------------
(***************************************************************************)
(* Proofs about the browser's live cursor (LiveClient).  ClientInv carries  *)
(* the properties that hold whatever the server and the network do; EpochInv *)
(* adds what holds while the log keeps every event and is not replaced, and  *)
(* carries QuietIsCaughtUp.                                                 *)
(***************************************************************************)
EXTENDS LiveClient, SequenceTheorems, FiniteSetTheorems, WellFoundedInduction, TLAPS

-----------------------------------------------------------------------------
(* The inductive invariant. *)

Messages == [type : {"hello", "event", "pong", "close"}, seq : Seqs]
Cursors == [applied : Seqs, queued : Seqs, shown : Seqs, observed : Seqs, inbound : Seqs]
Pages == [reset : BOOLEAN, latestSeq : Seqs, events : SUBSET Seqs]
Recoveries == [pc : Pcs \cup {"bounded"}, after : Seqs, target : Seqs, latestSeq : Seqs,
               stale : BOOLEAN, answer : Pages, wanted : Seqs, poll : BOOLEAN, timer : BOOLEAN]
Resets == [pc : Pcs, answer : Seqs, floor : Seqs, active : BOOLEAN, timer : BOOLEAN]
Hydrates == [pc : {"deferred", "asked", "answered", "done"}, answer : Seqs,
             retries : 0..HydrateRetries]

ServerOK ==
    /\ latest \in Seqs /\ announced \in Seqs /\ fanned \in Seqs /\ snapshot \in Seqs
    /\ oldest \in Nat \ {0} /\ oldest - 1 \in Seqs
    /\ announced <= latest /\ fanned <= announced

NetOK ==
    /\ sock \in {"down", "registered", "greeting", "open", "closing"}
    /\ hello \in Seqs
    /\ channel \in Seq(Messages)

QueueOK == pending \subseteq Seqs /\ Cardinality(pending) <= PendingCap

ClientOK ==
    /\ cursor \in Cursors
    /\ recovery \in Recoveries
    /\ reset \in Resets
    /\ hydrate \in Hydrates
    /\ view \subseteq Seqs

\* Only a reset that is in force has a request or a timer.
ResetShape == reset.pc # "idle" \/ reset.timer => reset.active

\* A client that is not being reset shows or has heard of what it has applied.
Shown == ~reset.active => cursor.applied <= Larger(cursor.shown, cursor.observed)

\* What a running recovery has read, the client has applied, unless a snapshot
\* has replaced the cursor since.
PageApplied ==
    recovery.pc # "idle" /\ ~recovery.stale => recovery.after <= cursor.applied

\* An answer that declares a reset brings no events, and there is no second
\* query for it.
PageShape ==
    /\ recovery.answer.reset => recovery.answer.events = {}
    /\ recovery.pc = "bounded" => ~recovery.answer.reset

\* The watermark is the last event applied or waiting.
WatermarkExact == ~reset.active => cursor.queued = Max({cursor.applied} \cup pending)

Planned ==
    /\ ResetShape /\ PageApplied /\ PageShape /\ WakeUpArmed

Held ==
    /\ Shown /\ WatermarkExact /\ NothingBeyondCursor

ClientInv == ServerOK /\ NetOK /\ QueueOK /\ ClientOK /\ Planned /\ Held

-----------------------------------------------------------------------------
(* What holds in addition while nothing is pruned and the log is not replaced. *)

\* The client has a durable cursor, no event is pruned, the log is not replaced.
OneEpoch == FirstSeq > 0 /\ MaxPrunes = 0 /\ MaxRestores = 0

Faults == [drops : Nat, fails : Nat, prunes : Nat, restores : Nat, pongs : Nat]

Within(chan, top) == \A i \in DOMAIN chan : chan[i].seq <= top
Carries(chan, s) ==
    \E i \in DOMAIN chan : chan[i].type \in {"event", "hello"} /\ chan[i].seq >= s

\* Every sequence the client holds is one of the log's.
LogWhole ==
    /\ faults \in Faults
    /\ oldest = 1 /\ FirstSeq <= announced
    /\ FirstSeq <= snapshot /\ snapshot <= latest
    /\ sock = "greeting" => hello <= announced
    /\ Within(channel, announced)

CursorInLog ==
    /\ FirstSeq <= cursor.applied /\ cursor.applied <= latest
    /\ cursor.shown <= latest /\ cursor.observed <= latest /\ cursor.inbound <= latest
    /\ \A p \in pending : p <= cursor.observed
    /\ hydrate.answer <= latest

\* A request and its answer name sequences of the log; an empty page means that
\* the client had read all of it.
InLog(rec, top) ==
    /\ rec.wanted <= top
    /\ rec.pc # "idle" =>
          /\ FirstSeq <= rec.after /\ rec.after <= top
          /\ rec.target <= rec.latestSeq /\ rec.latestSeq <= top
    /\ ~rec.answer.reset /\ rec.answer.latestSeq <= top
    /\ \A s \in rec.answer.events : s <= top
    /\ rec.pc = "answered" /\ rec.answer.events = {} =>
          rec.after >= rec.latestSeq /\ rec.after >= rec.answer.latestSeq

RecoveryInLog == InLog(recovery, latest)

NeverReset == reset = IdleReset

\* What was sent and is not applied is on the wire, waits for its frame, or is
\* asked for.
OnWire(s) == (sock = "greeting" /\ s <= hello) \/ Carries(channel, s)

Waits(s) == \E p \in pending : s <= p

Asks(rec, s) == s <= rec.wanted \/ (rec.pc # "idle" /\ s <= rec.target)

Covered(s) == OnWire(s) \/ Waits(s) \/ Asks(recovery, s)

NothingForgotten ==
    sock \in {"greeting", "open"} =>
        \A s \in Seqs : cursor.applied < s /\ s <= fanned => Covered(s)

EpochInv == LogWhole /\ CursorInLog /\ RecoveryInLog /\ NeverReset /\ NothingForgotten

-----------------------------------------------------------------------------
(* Sets of sequences. *)

\* A finite set of numbers that is not empty has a greatest element: the least,
\* by inclusion, of the sets of larger elements is empty.
LEMMA GreatestExists ==
    ASSUME NEW S \in SUBSET Int, IsFiniteSet(S), S # {}
    PROVE  \E m \in S : \A x \in S : m >= x
<1> DEFINE Larger_(m) == {x \in S : x > m}
           Family == {Larger_(m) : m \in S}
<1> DEFINE R == StrictSubsetOrdering(S)
<1>1. Family \subseteq SUBSET S /\ Family # {}
  OBVIOUS
<1>2. IsWellFoundedOn(R, SUBSET S)
  BY FS_StrictSubsetOrderingWellFounded, FS_FiniteSubsetsOfFinite
<1>3. PICK least \in Family : \A y \in Family : <<y, least>> \notin R
  BY <1>1, <1>2, WFMin
<1>4. PICK m \in S : least = Larger_(m)
  BY <1>3
<1>5. \A x \in S : m >= x
  <2> SUFFICES ASSUME NEW x \in S, ~(m >= x)
               PROVE  FALSE
    OBVIOUS
  <2>1. x > m
    OBVIOUS
  <2>2. Larger_(x) \subseteq least
    <3>1. \A y \in S : y > x => y > m
      BY <2>1
    <3> QED
      BY <1>4, <3>1
  <2>3. x \in least /\ x \notin Larger_(x)
    BY <1>4, <2>1
  <2>4. <<Larger_(x), least>> \in R
    BY <2>2, <2>3, <1>1, <1>3 DEF StrictSubsetOrdering
  <2> QED
    BY <2>4, <1>3
<1> QED
  BY <1>5

\* Max is that element.
LEMMA MaxIsGreatest ==
    ASSUME NEW S \in SUBSET Int, IsFiniteSet(S), S # {}
    PROVE  Max(S) \in S /\ \A x \in S : x <= Max(S)
<1>1. \E m \in S : \A x \in S : m >= x
  BY GreatestExists
<1>2. Max(S) \in S /\ \A x \in S : Max(S) >= x
  BY <1>1 DEF Max
<1> QED
  BY <1>2

\* Seqs is an interval from 0 that holds every sequence of the log and of a hello.
LEMMA SeqsFacts ==
    /\ Seqs \subseteq Nat /\ IsFiniteSet(Seqs)
    /\ 0 \in Seqs /\ FirstSeq \in Seqs /\ HelloSeqs \subseteq Seqs
    /\ \A n \in Nat : n <= MaxSeq => n \in Seqs
    /\ \A n \in Nat, s \in Seqs : n <= s => n \in Seqs
<1> DEFINE S == {MaxSeq, FirstSeq} \cup HelloSeqs
           Top == Max(S)
<1>1. S \subseteq Nat /\ S # {}
  BY BoundsAssumption, HelloAssumption
<1>2. IsFiniteSet(S)
  <2>1. S = (HelloSeqs \cup {MaxSeq}) \cup {FirstSeq}
    OBVIOUS
  <2> QED
    BY <2>1, HelloAssumption, FS_AddElement
<1>3. Top \in S /\ \A x \in S : x <= Top
  BY <1>1, <1>2, MaxIsGreatest
<1>4. Seqs = 0..Top
  BY DEF Seqs
<1> HIDE DEF Top
<1>5. Top \in Nat /\ MaxSeq <= Top /\ FirstSeq <= Top /\ MaxSeq \in Nat /\ FirstSeq \in Nat
  BY <1>1, <1>3
<1>6. \A x \in HelloSeqs : x \in 0..Top
  BY <1>1, <1>3, <1>5
<1>7. IsFiniteSet(Seqs)
  BY <1>4, <1>5, FS_Interval
<1> QED
  BY <1>4, <1>5, <1>6, <1>7

LEMMA LargerFacts ==
    ASSUME NEW a \in Seqs, NEW b \in Seqs
    PROVE  /\ Larger(a, b) \in Seqs
           /\ Larger(a, b) >= a /\ Larger(a, b) >= b
           /\ Larger(a, b) = a \/ Larger(a, b) = b
BY SeqsFacts DEF Larger

\* Max({a} \cup S), the form that every cursor is computed in.
LEMMA MaxWith ==
    ASSUME NEW a \in Seqs, NEW S \in SUBSET Seqs
    PROVE  /\ Max({a} \cup S) \in Seqs
           /\ Max({a} \cup S) >= a
           /\ \A x \in S : x <= Max({a} \cup S)
           /\ Max({a} \cup S) = a \/ Max({a} \cup S) \in S
<1> DEFINE T == {a} \cup S
<1>1. T \subseteq Seqs /\ T # {}
  OBVIOUS
<1>2. IsFiniteSet(T) /\ T \in SUBSET Int
  <2> HIDE DEF T
  <2>1. T \in SUBSET Seqs
    BY <1>1
  <2>2. IsFiniteSet(T)
    BY <2>1, SeqsFacts, FS_Subset
  <2>3. T \in SUBSET Int
    BY <2>1, SeqsFacts
  <2> QED
    BY <2>2, <2>3
<1>3. Max(T) \in T /\ \A x \in T : x <= Max(T)
  BY <1>1, <1>2, MaxIsGreatest
<1> QED
  BY <1>1, <1>3, SeqsFacts

\* What is greatest is Max.
LEMMA MaxIs ==
    ASSUME NEW a \in Seqs, NEW S \in SUBSET Seqs, NEW m \in {a} \cup S, m >= a,
           \A x \in S : x <= m
    PROVE  Max({a} \cup S) = m
<1>1. m \in Seqs
  OBVIOUS
<1> DEFINE M == Max({a} \cup S)
<1>2. M \in Seqs /\ M >= a /\ (\A x \in S : x <= M) /\ (M = a \/ M \in S)
  BY MaxWith
<1> HIDE DEF M
<1>3. M <= m /\ m <= M
  BY <1>1, <1>2, SeqsFacts
<1>4. M = m
  BY <1>1, <1>2, <1>3, SeqsFacts
<1> QED
  BY <1>4 DEF M

LEMMA AboveFacts ==
    ASSUME NEW S \in SUBSET Seqs, NEW a \in Seqs
    PROVE  Above(S, a) \in SUBSET Seqs /\ Above(S, a) \subseteq S
BY DEF Above

\* A part of the queue is within the cap, as the queue is.
LEMMA QueuePart ==
    ASSUME QueueOK, NEW P \in SUBSET pending
    PROVE  P \subseteq Seqs /\ IsFiniteSet(P) /\ Cardinality(P) <= PendingCap
<1>1. pending \in SUBSET Seqs /\ IsFiniteSet(pending)
  BY SeqsFacts, FS_Subset DEF QueueOK
<1>2. IsFiniteSet(P) /\ Cardinality(P) <= Cardinality(pending)
  BY <1>1, FS_Subset
<1>3. Cardinality(P) \in Nat /\ Cardinality(pending) \in Nat /\ PendingCap \in Nat
  BY <1>1, <1>2, FS_CardinalityType, LimitsAssumption
<1> QED
  BY <1>1, <1>2, <1>3 DEF QueueOK

-----------------------------------------------------------------------------
(* The operators that plan a recovery. *)

\* out still runs, or does not run, the request of rec.
SameRequest(out, rec) ==
    /\ out.pc = rec.pc /\ out.after = rec.after /\ out.target = rec.target
    /\ out.latestSeq = rec.latestSeq /\ out.stale = rec.stale /\ out.answer = rec.answer

\* What the loop leaves: nothing wanted and no request, or a fresh request from
\* the cursor for all that was wanted.
Looped(out, rec, applied) ==
    /\ out \in Recoveries
    /\ out.answer = NoPage /\ ~out.stale /\ out.timer = rec.timer
    /\ \/ /\ out.pc = "idle" /\ ~out.poll
          /\ out.wanted <= applied /\ rec.wanted <= applied /\ out.wanted <= rec.wanted
       \/ /\ out.pc = "asked" /\ ~out.poll /\ out.wanted = 0
          /\ out.after = applied /\ out.target = rec.wanted
          /\ out.latestSeq = Larger(applied, rec.wanted)

LEMMA IdleTypes == IdleRecovery \in Recoveries /\ IdleReset \in Resets /\ NoPage \in Pages
<1>1. NoPage \in Pages
  BY SeqsFacts DEF NoPage, Pages
<1>2. IdleRecovery \in Recoveries
  BY <1>1, SeqsFacts DEF IdleRecovery, Recoveries, Pcs
<1>3. IdleReset \in Resets
  BY SeqsFacts DEF IdleReset, Resets, Pcs
<1> QED
  BY <1>1, <1>2, <1>3

LEMMA LoopShape ==
    ASSUME NEW rec \in Recoveries, NEW applied \in Seqs
    PROVE  Looped(Loop(rec, applied), rec, applied)
<1>1. rec.wanted \in Seqs /\ rec.poll \in BOOLEAN /\ rec.timer \in BOOLEAN
  BY DEF Recoveries
<1>2. rec.wanted \in Nat /\ applied \in Nat
  BY <1>1, SeqsFacts
<1> DEFINE parked(w) == [pc |-> "idle", after |-> 0, target |-> 0, latestSeq |-> 0,
                         stale |-> FALSE, answer |-> NoPage, wanted |-> w, poll |-> FALSE,
                         timer |-> rec.timer]
           asked == [pc |-> "asked", after |-> applied, target |-> rec.wanted,
                     latestSeq |-> Larger(applied, rec.wanted), stale |-> FALSE,
                     answer |-> NoPage, wanted |-> 0, poll |-> FALSE, timer |-> rec.timer]
<1>3. ASSUME NEW w \in Seqs, w <= applied, w <= rec.wanted, rec.wanted <= applied
      PROVE  Looped(parked(w), rec, applied)
  <2>1. parked(w) \in Recoveries
    BY <1>1, <1>3, IdleTypes, SeqsFacts DEF Recoveries, Pcs
  <2> QED
    BY <2>1, <1>3 DEF Looped
<1>4. Looped(asked, rec, applied)
  <2>1. asked \in Recoveries
    BY <1>1, LargerFacts, IdleTypes, SeqsFacts DEF Recoveries, Pcs
  <2> QED
    BY <2>1 DEF Looped
<1>5. CASE ~(rec.poll \/ rec.wanted > applied)
  <2>1. Loop(rec, applied) = parked(rec.wanted)
    BY <1>5 DEF Loop, Parked, IdleRecovery, Recoveries
  <2>2. rec.wanted <= applied /\ rec.wanted <= rec.wanted
    BY <1>2, <1>5
  <2> HIDE DEF parked
  <2> QED
    BY <1>1, <1>3, <2>1, <2>2
<1>6. CASE (rec.poll \/ rec.wanted > applied) /\ rec.wanted \in 1..applied
  <2>0. rec.poll
    BY <1>2, <1>6
  <2>1. Loop(rec, applied) = parked(0)
    BY <1>6, <2>0 DEF Loop, Parked, IdleRecovery, Recoveries
  <2>2. 0 <= applied /\ 0 <= rec.wanted /\ rec.wanted <= applied
    BY <1>2, <1>6
  <2> HIDE DEF parked
  <2> QED
    BY <1>3, <2>1, <2>2, SeqsFacts
<1>7. CASE (rec.poll \/ rec.wanted > applied) /\ rec.wanted \notin 1..applied
  <2>1. Loop(rec, applied) = asked
    BY <1>7 DEF Loop, IdleRecovery
  <2> HIDE DEF asked
  <2> QED
    BY <1>4, <2>1
<1> QED
  BY <1>5, <1>6, <1>7

\* A target is remembered, or a poll.
LEMMA QueueShape ==
    ASSUME NEW rec \in Recoveries, NEW target \in Seqs
    PROVE  /\ Queue(rec, target) \in Recoveries
           /\ SameRequest(Queue(rec, target), rec)
           /\ Queue(rec, target).timer = rec.timer
           /\ Queue(rec, target).wanted >= rec.wanted /\ Queue(rec, target).wanted >= target
           /\ Queue(rec, target).wanted \in {rec.wanted, target}
<1>1. rec.wanted \in Seqs /\ rec.wanted \in Nat /\ target \in Nat
  BY SeqsFacts DEF Recoveries
<1>2. CASE target > 0
  <2> DEFINE w == Larger(rec.wanted, target)
  <2>1. Queue(rec, target) = [rec EXCEPT !.wanted = w]
    BY <1>2 DEF Queue
  <2>2. w \in Seqs /\ w >= rec.wanted /\ w >= target /\ w \in {rec.wanted, target}
    BY <1>1, LargerFacts
  <2> HIDE DEF w
  <2> QED
    BY <2>1, <2>2 DEF Recoveries, SameRequest
<1>3. CASE ~(target > 0)
  <2>1. Queue(rec, target) = [rec EXCEPT !.poll = TRUE]
    BY <1>3 DEF Queue
  <2>2. rec.wanted >= rec.wanted /\ rec.wanted >= target
    BY <1>1, <1>3
  <2>3. [rec EXCEPT !.poll = TRUE] \in Recoveries
    BY DEF Recoveries
  <2>4. SameRequest([rec EXCEPT !.poll = TRUE], rec)
    BY DEF Recoveries, SameRequest
  <2>5. [rec EXCEPT !.poll = TRUE].timer = rec.timer /\ [rec EXCEPT !.poll = TRUE].wanted = rec.wanted
    BY DEF Recoveries
  <2> QED
    BY <2>1, <2>2, <2>3, <2>4, <2>5
<1> QED
  BY <1>2, <1>3

\* Backfill only queues while a request or a reset is under way, and else is the
\* loop without its retry timer.
Backfilled(out, rec, target, applied) ==
    /\ out \in Recoveries
    /\ \/ /\ rec.pc # "idle" \/ reset.active
          /\ SameRequest(out, rec) /\ out.timer = rec.timer
          /\ out.wanted >= rec.wanted /\ out.wanted >= target
          /\ out.wanted \in {rec.wanted, target}
       \/ /\ rec.pc = "idle" /\ ~reset.active
          /\ \E queued \in Recoveries :
                /\ Looped(out, queued, applied)
                /\ queued.wanted >= rec.wanted /\ queued.wanted >= target
                /\ queued.wanted \in {rec.wanted, target}

LEMMA BackfillShape ==
    ASSUME NEW rec \in Recoveries, NEW target \in Seqs, NEW applied \in Seqs
    PROVE  Backfilled(Backfill(rec, target, applied), rec, target, applied)
<1> DEFINE q == Queue(rec, target)
           out == Backfill(rec, target, applied)
<1>1. /\ q \in Recoveries /\ SameRequest(q, rec) /\ q.timer = rec.timer
      /\ q.wanted >= rec.wanted /\ q.wanted >= target /\ q.wanted \in {rec.wanted, target}
  BY QueueShape
<1>2. out = IF rec.pc # "idle" \/ reset.active THEN q ELSE Loop([q EXCEPT !.timer = FALSE], applied)
  BY DEF Backfill
<1> HIDE DEF q, out
<1>3. ASSUME rec.pc # "idle" \/ reset.active
      PROVE  Backfilled(out, rec, target, applied)
  <2>1. out = q
    BY <1>2, <1>3
  <2> QED
    BY <1>1, <1>3, <2>1, Zenon DEF Backfilled
<1>4. ASSUME rec.pc = "idle" /\ ~reset.active
      PROVE  Backfilled(out, rec, target, applied)
  <2> DEFINE queued == [q EXCEPT !.timer = FALSE]
  <2>1. queued \in Recoveries /\ queued.wanted = q.wanted
    BY <1>1 DEF Recoveries
  <2>2. out = Loop(queued, applied)
    BY <1>2, <1>4
  <2> HIDE DEF queued
  <2>3. Looped(out, queued, applied)
    BY <2>1, <2>2, LoopShape
  <2>4. out \in Recoveries
    BY <2>3 DEF Looped
  <2>5. /\ queued.wanted >= rec.wanted /\ queued.wanted >= target
        /\ queued.wanted \in {rec.wanted, target}
    BY <1>1, <2>1
  <2> QED
    BY <1>4, <2>1, <2>3, <2>4, <2>5, Zenon DEF Backfilled
<1>5. Backfilled(out, rec, target, applied)
  BY <1>3, <1>4, Zenon
<1> QED
  BY <1>5 DEF out

\* Rendering leaves the durable cursor and the watermark alone.
LEMMA RenderShape ==
    ASSUME NEW c \in Cursors, NEW seq \in Seqs
    PROVE  /\ Render(c, seq) \in Cursors
           /\ Render(c, seq).applied = c.applied /\ Render(c, seq).queued = c.queued
           /\ Render(c, seq).inbound = c.inbound
           /\ Render(c, seq).shown = Larger(c.shown, seq)
           /\ Render(c, seq).observed \in {c.observed, Larger(c.observed, Larger(c.shown, seq))}
           /\ ~reset.active => Render(c, seq).observed = Larger(c.observed, Larger(c.shown, seq))
<1>1. c.shown \in Seqs /\ c.observed \in Seqs
  BY DEF Cursors
<1> DEFINE shown == Larger(c.shown, seq)
           observed == Larger(c.observed, shown)
<1>2. shown \in Seqs /\ observed \in Seqs
  BY <1>1, LargerFacts
<1>3. Render(c, seq) = [c EXCEPT !.shown = shown,
                                 !.observed = IF reset.active THEN c.observed ELSE observed]
  BY DEF Render, Cursors
<1> HIDE DEF shown, observed
<1>4. /\ Render(c, seq) \in Cursors
      /\ Render(c, seq).applied = c.applied /\ Render(c, seq).queued = c.queued
      /\ Render(c, seq).inbound = c.inbound
      /\ Render(c, seq).shown = shown
      /\ Render(c, seq).observed = IF reset.active THEN c.observed ELSE observed
  BY <1>1, <1>2, <1>3 DEF Cursors
<1> QED
  BY <1>4 DEF shown, observed

LEMMA AdvanceShape ==
    ASSUME NEW c \in Cursors, NEW applied \in Seqs, NEW events \in SUBSET Seqs
    PROVE  /\ Advance(c, applied, events) \in Cursors
           /\ Advance(c, applied, events).applied = applied
           /\ Advance(c, applied, events).queued = Max({applied} \cup Above(events, applied))
           /\ Advance(c, applied, events).shown = c.shown
           /\ Advance(c, applied, events).observed = c.observed
           /\ Advance(c, applied, events).inbound = c.inbound
<1> DEFINE m == Max({applied} \cup Above(events, applied))
<1>1. m \in Seqs
  BY AboveFacts, MaxWith
<1>2. Advance(c, applied, events) = [c EXCEPT !.applied = applied, !.queued = m]
  BY DEF Advance
<1> HIDE DEF m
<1>3. /\ Advance(c, applied, events) \in Cursors
      /\ Advance(c, applied, events).applied = applied
      /\ Advance(c, applied, events).queued = m
      /\ Advance(c, applied, events).shown = c.shown
      /\ Advance(c, applied, events).observed = c.observed
      /\ Advance(c, applied, events).inbound = c.inbound
  BY <1>1, <1>2 DEF Cursors
<1> QED
  BY <1>3 DEF m

-----------------------------------------------------------------------------
(* The server and the network. *)

LEMMA MessageType ==
    ASSUME NEW type \in {"hello", "event", "pong", "close"}, NEW seq \in Seqs
    PROVE  Message(type, seq) \in Messages
BY DEF Message, Messages

LEMMA Sends ==
    ASSUME NetOK, NEW type \in {"hello", "event", "pong", "close"}, NEW seq \in Seqs
    PROVE  Append(channel, Message(type, seq)) \in Seq(Messages)
BY MessageType, AppendProperties DEF NetOK

LEMMA Delivers ==
    ASSUME NetOK, channel # <<>>
    PROVE  /\ Inbound \in Messages /\ Inbound.seq \in Seqs
           /\ Tail(channel) \in Seq(Messages)
<1>1. Head(channel) \in Messages /\ Tail(channel) \in Seq(Messages)
  BY HeadTailProperties DEF NetOK
<1> QED
  BY <1>1 DEF Inbound, Messages

LEMMA PrefixType ==
    ASSUME NetOK, NEW k \in 0..Len(channel)
    PROVE  SubSeq(channel, 1, k) \in Seq(Messages)
<1>1. channel \in Seq(Messages) /\ Len(channel) \in Nat /\ k \in Nat /\ k <= Len(channel)
  BY DEF NetOK
<1>2. \A i \in 1..k : channel[i] \in Messages
  BY <1>1
<1> QED
  BY <1>1, <1>2, SubSeqProperties

LEMMA Breaks ==
    ASSUME NetOK, BreakSocket
    PROVE  NetOK'
<1>1. sock' = "closing" /\ hello' = 0
  BY DEF BreakSocket
<1>2. PICK k \in 0..Len(channel) : channel' = Append(SubSeq(channel, 1, k), Message("close", 0))
  BY DEF BreakSocket
<1>3. SubSeq(channel, 1, k) \in Seq(Messages) /\ Message("close", 0) \in Messages
  BY PrefixType, MessageType, SeqsFacts
<1>4. channel' \in Seq(Messages)
  BY <1>2, <1>3, AppendProperties
<1> QED
  BY <1>1, <1>4, SeqsFacts DEF NetOK

\* What the server may write to its log, and what its replacement may hold.
LEMMA ServerStep ==
    ASSUME ServerOK,
           \/ Publish \/ Announce \/ FanOut \/ RefreshSnapshot \/ Prune \/ Restore
           \/ UNCHANGED serverVars
    PROVE  ServerOK'
<1>1. /\ latest \in Nat /\ announced \in Nat /\ fanned \in Nat /\ snapshot \in Nat
      /\ oldest \in Nat /\ oldest >= 1 /\ announced <= latest /\ fanned <= announced
      /\ MaxSeq \in Nat /\ OldestRestore \in Nat
  BY SeqsFacts, BoundsAssumption DEF ServerOK
<1>2. CASE Publish
  <2>1. /\ latest' = latest + 1 /\ latest < MaxSeq
        /\ UNCHANGED <<announced, fanned, oldest, snapshot>>
    BY <1>2 DEF Publish
  <2>2. latest + 1 \in Seqs /\ announced <= latest + 1
    BY <1>1, <2>1, SeqsFacts
  <2> QED
    BY <2>1, <2>2 DEF ServerOK
<1>3. CASE Announce
  <2>1. /\ announced' = announced + 1 /\ announced < latest
        /\ UNCHANGED <<latest, fanned, oldest, snapshot>>
    BY <1>3 DEF Announce
  <2>2. announced + 1 <= latest /\ fanned <= announced + 1 /\ announced + 1 \in Nat
    BY <1>1, <2>1
  <2>3. announced + 1 \in Seqs
    BY <2>2, SeqsFacts DEF ServerOK
  <2> QED
    BY <2>1, <2>2, <2>3 DEF ServerOK
<1>4. CASE FanOut
  <2>1. fanned' = announced /\ UNCHANGED <<latest, announced, oldest, snapshot>>
    BY <1>4 DEF FanOut
  <2> QED
    BY <1>1, <2>1 DEF ServerOK
<1>5. CASE RefreshSnapshot
  <2>1. snapshot' = latest /\ UNCHANGED <<latest, announced, fanned, oldest>>
    BY <1>5 DEF RefreshSnapshot
  <2> QED
    BY <2>1 DEF ServerOK
<1>6. CASE Prune
  <2>1. PICK k \in (oldest + 1)..(latest + 1) : oldest' = k
    BY <1>6 DEF Prune
  <2>2. UNCHANGED <<latest, announced, fanned, snapshot>>
    BY <1>6 DEF Prune
  <2>3. k \in Nat \ {0} /\ k - 1 \in Nat /\ k - 1 <= latest
    BY <1>1
  <2>4. k - 1 \in Seqs
    BY <2>3, SeqsFacts DEF ServerOK
  <2> QED
    BY <2>1, <2>2, <2>3, <2>4 DEF ServerOK
<1>7. CASE Restore
  <2>1. PICK k \in OldestRestore..(latest - 1) :
            latest' = k /\ announced' = k /\ fanned' = k /\ snapshot' = k /\ oldest' = 1
    BY <1>7 DEF Restore
  <2>2. k \in Nat /\ k <= latest
    BY <1>1
  <2>3. k \in Seqs /\ 1 - 1 \in Seqs
    BY <2>2, SeqsFacts DEF ServerOK
  <2> QED
    BY <2>1, <2>2, <2>3 DEF ServerOK
<1>8. CASE UNCHANGED serverVars
  BY <1>8 DEF serverVars, ServerOK
<1> QED
  BY <1>2, <1>3, <1>4, <1>5, <1>6, <1>7, <1>8

LEMMA NetStep ==
    ASSUME ServerOK, NetOK,
           \/ FanOut \/ Connect \/ ReadHello \/ SendHello \/ Pong \/ Drop \/ Restore
           \/ HandleHello \/ HandlePong \/ HandleEvent \/ HandleClose
           \/ UNCHANGED netVars
    PROVE  NetOK'
<1>1. CASE FanOut
  <2>1. UNCHANGED <<sock, hello>>
    BY <1>1 DEF FanOut
  <2>2. channel' = Append(channel, Message("event", announced)) \/ channel' = channel
    BY <1>1 DEF FanOut
  <2>3. channel' \in Seq(Messages)
    BY <2>2, Sends DEF ServerOK, NetOK
  <2> QED
    BY <2>1, <2>3 DEF NetOK
<1>2. CASE Connect
  BY <1>2 DEF Connect, NetOK
<1>3. CASE ReadHello
  <2>1. hello' \in (IF announced > 0 THEN {announced} ELSE HelloSeqs)
    BY <1>3 DEF ReadHello
  <2>2. hello' \in Seqs
    BY <2>1, SeqsFacts DEF ServerOK
  <2> QED
    BY <1>3, <2>2 DEF ReadHello, NetOK
<1>4. CASE SendHello
  <2>1. sock' = "open" /\ hello' = 0 /\ channel' = Append(channel, Message("hello", hello))
    BY <1>4 DEF SendHello
  <2>2. channel' \in Seq(Messages)
    BY <2>1, Sends DEF NetOK
  <2> QED
    BY <2>1, <2>2, SeqsFacts DEF NetOK
<1>5. CASE Pong
  <2>1. UNCHANGED <<sock, hello>> /\ channel' = Append(channel, Message("pong", announced))
    BY <1>5 DEF Pong
  <2>2. channel' \in Seq(Messages)
    BY <2>1, Sends DEF ServerOK
  <2> QED
    BY <2>1, <2>2 DEF NetOK
<1>6. CASE Drop
  BY <1>6, Breaks DEF Drop
<1>7. CASE Restore
  <2>1. BreakSocket \/ UNCHANGED netVars
    BY <1>7 DEF Restore
  <2>2. CASE BreakSocket
    BY <2>2, Breaks
  <2>3. CASE UNCHANGED netVars
    BY <2>3 DEF netVars, NetOK
  <2> QED
    BY <2>1, <2>2, <2>3
<1>8. CASE HandleHello \/ HandlePong \/ HandleEvent \/ HandleClose
  <2>1. channel # <<>> /\ channel' = Tail(channel) /\ UNCHANGED hello
    BY <1>8 DEF HandleHello, HandlePong, HandleEvent, HandleClose
  <2>2. UNCHANGED sock \/ sock' = "down"
    BY <1>8 DEF HandleHello, HandlePong, HandleEvent, HandleClose
  <2>3. channel' \in Seq(Messages)
    BY <2>1, Delivers
  <2> QED
    BY <2>1, <2>2, <2>3 DEF NetOK
<1>9. CASE UNCHANGED netVars
  BY <1>9 DEF netVars, NetOK
<1> QED
  BY <1>1, <1>2, <1>3, <1>4, <1>5, <1>6, <1>7, <1>8, <1>9

-----------------------------------------------------------------------------
(* The recovery loop keeps its wake-ups. *)

\* A request that keeps running or is only waited for, and a fresh loop, leave
\* every wanted recovery with a wake-up.
LEMMA BackfillKeeps ==
    ASSUME ClientOK, Planned, NEW r \in Recoveries, SameRequest(r, recovery),
           r.wanted = recovery.wanted, NEW target \in Seqs,
           recovery' = Backfill(r, target, cursor.applied),
           cursor'.applied = cursor.applied, reset' = reset
    PROVE  recovery' \in Recoveries /\ Planned'
<1>1. cursor.applied \in Seqs /\ cursor.applied \in Nat
  BY SeqsFacts DEF ClientOK, Cursors
<1> DEFINE out == Backfill(r, target, cursor.applied)
<1>2. Backfilled(out, r, target, cursor.applied)
  BY <1>1, BackfillShape
<1>3. recovery' = out
  OBVIOUS
<1> HIDE DEF out
<1>4. out \in Recoveries
  BY <1>2 DEF Backfilled
<1>5. ResetShape'
  BY DEF Planned, ResetShape
<1>6. CASE recovery.pc # "idle" \/ reset.active
  <2>1. SameRequest(out, recovery)
    <3>1. r.pc = recovery.pc
      BY DEF SameRequest
    <3>2. SameRequest(out, r)
      BY <1>2, <1>6, <3>1 DEF Backfilled
    <3> QED
      BY <3>2 DEF SameRequest
  <2>2. /\ recovery'.pc = recovery.pc /\ recovery'.stale = recovery.stale
        /\ recovery'.after = recovery.after /\ recovery'.answer = recovery.answer
    BY <1>3, <2>1 DEF SameRequest
  <2>3. PageApplied' /\ PageShape'
    BY <2>2 DEF Planned, PageApplied, PageShape
  <2>4. WakeUpArmed'
    BY <1>6, <2>2 DEF Planned, WakeUpArmed
  <2> QED
    BY <1>3, <1>4, <1>5, <2>3, <2>4 DEF Planned
<1>7. CASE recovery.pc = "idle" /\ ~reset.active
  <2>1. PICK queued \in Recoveries : Looped(out, queued, cursor.applied)
    <3>1. r.pc = "idle"
      BY <1>7 DEF SameRequest
    <3> QED
      BY <1>2, <1>7, <3>1 DEF Backfilled
  <2>2. /\ recovery'.answer = NoPage
        /\ \/ recovery'.pc = "idle" /\ ~recovery'.poll /\ recovery'.wanted <= cursor.applied
           \/ recovery'.pc = "asked" /\ recovery'.after = cursor.applied
    BY <1>3, <2>1 DEF Looped
  <2>3. recovery'.wanted \in Nat
    BY <1>3, <1>4, SeqsFacts DEF Recoveries
  <2>4. PageApplied' /\ PageShape'
    BY <1>1, <2>2 DEF PageApplied, PageShape, NoPage
  <2>5. WakeUpArmed'
    BY <1>1, <1>7, <2>2, <2>3 DEF WakeUpArmed
  <2> QED
    BY <1>3, <1>4, <1>5, <2>4, <2>5 DEF Planned
<1> QED
  BY <1>6, <1>7

\* So does the loop that goes on after an answer, outside a reset.
LEMMA LoopKeeps ==
    ASSUME NEW r \in Recoveries, NEW applied \in Seqs, recovery' = Loop(r, applied),
           cursor'.applied = applied, ResetShape', ~reset'.active
    PROVE  recovery' \in Recoveries /\ Planned'
<1> DEFINE out == Loop(r, applied)
<1>1. Looped(out, r, applied)
  BY LoopShape
<1>2. recovery' = out
  OBVIOUS
<1> HIDE DEF out
<1>3. /\ recovery'.answer = NoPage
      /\ \/ recovery'.pc = "idle" /\ ~recovery'.poll /\ recovery'.wanted <= applied
         \/ recovery'.pc = "asked" /\ recovery'.after = applied
      /\ recovery' \in Recoveries
  BY <1>1, <1>2 DEF Looped
<1>4. recovery'.wanted \in Nat /\ applied \in Nat
  BY <1>3, SeqsFacts DEF Recoveries
<1>5. PageApplied' /\ PageShape'
  BY <1>3, <1>4 DEF PageApplied, PageShape, NoPage
<1>6. WakeUpArmed'
  BY <1>3, <1>4 DEF WakeUpArmed
<1> QED
  BY <1>3, <1>5, <1>6 DEF Planned

\* What the frame draws and the socket reports leaves the plan alone.
LEMMA PlannedFrame ==
    ASSUME Planned, ClientOK, UNCHANGED <<recovery, reset>>,
           cursor'.applied \in Seqs, cursor.applied <= cursor'.applied
    PROVE  Planned'
<1>1. /\ recovery.wanted \in Nat /\ recovery.after \in Nat
      /\ cursor.applied \in Nat /\ cursor'.applied \in Nat
  BY SeqsFacts DEF ClientOK, Cursors, Recoveries
<1>2. ResetShape' /\ PageShape'
  BY DEF Planned, ResetShape, PageShape
<1>3. PageApplied'
  BY <1>1 DEF Planned, PageApplied
<1>4. WakeUpArmed'
  BY <1>1 DEF Planned, WakeUpArmed
<1> QED
  BY <1>2, <1>3, <1>4 DEF Planned

LEMMA HeldFrame ==
    ASSUME Held, UNCHANGED <<pending, view>>, reset'.active = reset.active,
           cursor'.applied = cursor.applied, cursor'.queued = cursor.queued,
           cursor.shown <= cursor'.shown, cursor.observed <= cursor'.observed,
           cursor \in Cursors, cursor' \in Cursors
    PROVE  Held'
<1>1. /\ cursor.applied \in Nat /\ cursor.shown \in Nat /\ cursor.observed \in Nat
      /\ cursor'.shown \in Nat /\ cursor'.observed \in Nat
  BY SeqsFacts DEF Cursors
<1>2. Shown'
  BY <1>1 DEF Held, Shown, Larger
<1>3. WatermarkExact'
  BY DEF Held, WatermarkExact
<1>4. NothingBeyondCursor'
  BY DEF Held, NothingBeyondCursor
<1> QED
  BY <1>2, <1>3, <1>4 DEF Held

ClientPart == QueueOK /\ ClientOK /\ Planned /\ Held

LEMMA ClientFrame ==
    ASSUME ClientPart, UNCHANGED clientVars
    PROVE  ClientPart'
<1>1. UNCHANGED <<cursor, pending, recovery, reset, hydrate, view>>
  BY DEF clientVars
<1>2. QueueOK' /\ ClientOK'
  BY <1>1 DEF ClientPart, QueueOK, ClientOK
<1>3. Planned'
  BY <1>1 DEF ClientPart, Planned, ResetShape, PageApplied, PageShape, WakeUpArmed
<1>4. Held'
  BY <1>1 DEF ClientPart, Held, Shown, WatermarkExact, NothingBeyondCursor
<1> QED
  BY <1>2, <1>3, <1>4 DEF ClientPart

\* The steps that only plan a recovery.
LEMMA PlansStep ==
    ASSUME ClientPart, NEW r \in Recoveries, SameRequest(r, recovery),
           r.wanted = recovery.wanted, NEW target \in Seqs,
           recovery' = Backfill(r, target, cursor.applied),
           UNCHANGED <<cursor, pending, reset, hydrate, view>>
    PROVE  ClientPart'
<1>1. recovery' \in Recoveries /\ Planned'
  BY BackfillKeeps DEF ClientPart
<1>2. QueueOK' /\ ClientOK'
  BY <1>1 DEF ClientPart, QueueOK, ClientOK
<1>3. Held'
  BY DEF ClientPart, Held, Shown, WatermarkExact, NothingBeyondCursor
<1> QED
  BY <1>1, <1>2, <1>3 DEF ClientPart

LEMMA PollStep == ClientPart /\ (Poll \/ Resume) => ClientPart'
<1> SUFFICES ASSUME ClientPart, Poll \/ Resume PROVE ClientPart'
  OBVIOUS
<1>1. recovery' = Backfill(recovery, 0, cursor.applied)
      /\ UNCHANGED <<cursor, pending, reset, hydrate, view>>
  BY DEF Poll, Resume
<1>2. recovery \in Recoveries /\ SameRequest(recovery, recovery)
  BY DEF ClientPart, ClientOK, SameRequest
<1> QED
  BY <1>1, <1>2, PlansStep, SeqsFacts

LEMMA RecoveryTimerStep == ClientPart /\ RecoveryTimer => ClientPart'
<1> SUFFICES ASSUME ClientPart, RecoveryTimer PROVE ClientPart'
  OBVIOUS
<1> DEFINE r == [recovery EXCEPT !.timer = FALSE]
<1>1. recovery' = Backfill(r, recovery.wanted, cursor.applied)
      /\ UNCHANGED <<cursor, pending, reset, hydrate, view>>
  BY DEF RecoveryTimer
<1>2. /\ r \in Recoveries /\ SameRequest(r, recovery) /\ r.wanted = recovery.wanted
      /\ recovery.wanted \in Seqs
  BY DEF ClientPart, ClientOK, SameRequest, Recoveries
<1> HIDE DEF r
<1> QED
  BY <1>1, <1>2, PlansStep

-----------------------------------------------------------------------------
(* The socket's messages. *)

\* A hello or a pong: the client has heard of a sequence and shows it.
Heard(c, seq, inbound) ==
    [Render(c, seq) EXCEPT !.inbound = inbound, !.observed = Larger(@, seq)]

LEMMA HeardShape ==
    ASSUME NEW c \in Cursors, NEW seq \in Seqs, NEW inbound \in Seqs
    PROVE  LET out == Heard(c, seq, inbound)
           IN  /\ out \in Cursors
               /\ out.applied = c.applied /\ out.queued = c.queued /\ out.inbound = inbound
               /\ c.shown <= out.shown /\ c.observed <= out.observed /\ seq <= out.observed
               /\ out.shown \in {c.shown, seq} /\ out.observed \in {c.observed, c.shown, seq}
<1> DEFINE mid == Render(c, seq)
           out == [mid EXCEPT !.inbound = inbound, !.observed = Larger(@, seq)]
<1>1. c.shown \in Seqs /\ c.observed \in Seqs
  BY DEF Cursors
<1>2. /\ mid \in Cursors /\ mid.applied = c.applied /\ mid.queued = c.queued
      /\ mid.shown = Larger(c.shown, seq)
      /\ mid.observed \in {c.observed, Larger(c.observed, Larger(c.shown, seq))}
  BY RenderShape
<1> HIDE DEF mid
<1>3. mid.observed \in Seqs /\ Larger(c.shown, seq) \in Seqs
  BY <1>1, <1>2, LargerFacts DEF Cursors
<1>4. Larger(mid.observed, seq) \in Seqs
  BY <1>3, LargerFacts
<1>5. /\ out \in Cursors /\ out.applied = mid.applied /\ out.queued = mid.queued
      /\ out.inbound = inbound /\ out.shown = mid.shown
      /\ out.observed = Larger(mid.observed, seq)
  BY <1>2, <1>4 DEF Cursors
<1> HIDE DEF out
<1>6. c.shown \in Nat /\ c.observed \in Nat /\ seq \in Nat
  BY <1>1, SeqsFacts
<1>7. c.shown <= out.shown /\ out.shown \in {c.shown, seq}
  BY <1>2, <1>5, <1>6 DEF Larger
<1>8. /\ c.observed <= out.observed /\ seq <= out.observed
      /\ out.observed \in {c.observed, c.shown, seq}
  BY <1>2, <1>5, <1>6 DEF Larger
<1>9. out = Heard(c, seq, inbound)
  BY DEF out, mid, Heard
<1> QED
  BY <1>2, <1>5, <1>7, <1>8, <1>9

LEMMA HelloStep == ClientPart /\ NetOK /\ HandleHello => ClientPart'
<1> SUFFICES ASSUME ClientPart, NetOK, HandleHello PROVE ClientPart'
  OBVIOUS
<1> DEFINE seq == Inbound.seq
           target == IF seq < cursor.applied THEN 0 ELSE seq
           heard == Heard(cursor, seq, seq)
<1>1. /\ cursor' = heard
      /\ recovery' = Backfill(recovery, target, cursor.applied)
      /\ UNCHANGED <<pending, reset, hydrate, view>>
  BY DEF HandleHello, Heard
<1>2. seq \in Seqs
  BY Delivers DEF HandleHello
<1> HIDE DEF seq
<1>3. target \in Seqs
  BY <1>2, SeqsFacts
<1>4. cursor \in Cursors
  BY DEF ClientPart, ClientOK
<1>5. /\ heard \in Cursors
      /\ heard.applied = cursor.applied /\ heard.queued = cursor.queued
      /\ cursor.shown <= heard.shown /\ cursor.observed <= heard.observed
  BY <1>2, <1>4, HeardShape
<1> HIDE DEF heard, target
<1>6. recovery' \in Recoveries /\ Planned'
  <2>1. recovery \in Recoveries /\ SameRequest(recovery, recovery)
    BY DEF ClientPart, ClientOK, SameRequest
  <2> QED
    BY <1>1, <1>3, <1>5, <2>1, BackfillKeeps DEF ClientPart
<1>7. QueueOK' /\ ClientOK'
  BY <1>1, <1>5, <1>6 DEF ClientPart, QueueOK, ClientOK
<1>8. Held'
  BY <1>1, <1>4, <1>5, HeldFrame DEF ClientPart
<1> QED
  BY <1>6, <1>7, <1>8 DEF ClientPart

LEMMA PongStep == ClientPart /\ NetOK /\ HandlePong => ClientPart'
<1> SUFFICES ASSUME ClientPart, NetOK, HandlePong PROVE ClientPart'
  OBVIOUS
<1> DEFINE seq == Inbound.seq
           inbound == Larger(cursor.inbound, seq)
           heard == Heard(cursor, seq, inbound)
<1>1. cursor \in Cursors /\ cursor.applied \in Seqs /\ cursor.inbound \in Seqs
  BY DEF ClientPart, ClientOK, Cursors
<1>2. seq \in Seqs
  BY Delivers DEF HandlePong
<1>3. UNCHANGED <<pending, recovery, reset, hydrate, view>>
  BY DEF HandlePong
<1>4. cursor' = heard
  <2>1. Render(cursor, seq).inbound = cursor.inbound
    BY <1>1, <1>2, RenderShape
  <2>2. cursor' = [Render(cursor, seq) EXCEPT !.inbound = Larger(@, seq),
                                              !.observed = Larger(@, seq)]
    BY DEF HandlePong
  <2> QED
    BY <2>1, <2>2 DEF Heard
<1> HIDE DEF seq
<1>5. inbound \in Seqs
  BY <1>1, <1>2, LargerFacts
<1> HIDE DEF inbound
<1>6. /\ heard \in Cursors
      /\ heard.applied = cursor.applied /\ heard.queued = cursor.queued
      /\ cursor.shown <= heard.shown /\ cursor.observed <= heard.observed
  BY <1>1, <1>2, <1>5, HeardShape
<1> HIDE DEF heard
<1>7. QueueOK' /\ ClientOK'
  BY <1>3, <1>4, <1>6 DEF ClientPart, QueueOK, ClientOK
<1>8. Planned'
  <2>1. cursor'.applied \in Seqs /\ cursor.applied <= cursor'.applied
    <3>1. cursor'.applied = cursor.applied /\ cursor.applied \in Nat
      BY <1>1, <1>4, <1>6, SeqsFacts
    <3> QED
      BY <1>1, <3>1
  <2> QED
    BY <1>3, <2>1, PlannedFrame DEF ClientPart
<1>9. Held'
  BY <1>1, <1>3, <1>4, <1>6, HeldFrame DEF ClientPart
<1> QED
  BY <1>7, <1>8, <1>9 DEF ClientPart

-----------------------------------------------------------------------------
(* Events, and the frame that applies them. *)

LEMMA NothingPending ==
    ASSUME NEW a \in Seqs
    PROVE  Max({a} \cup {}) = a
BY MaxIs, SeqsFacts

LEMMA NoneQueued == {} \subseteq Seqs /\ Cardinality({}) <= PendingCap
BY FS_EmptySet, LimitsAssumption

\* Hearing of an event moves neither the cursor nor the watermark.
LEMMA SeenShape ==
    ASSUME NEW c \in Cursors, NEW seq \in Seqs
    PROVE  LET out == [c EXCEPT !.inbound = Larger(c.inbound, seq), !.observed = Larger(c.observed, seq)]
           IN  /\ out \in Cursors
               /\ out.applied = c.applied /\ out.queued = c.queued /\ out.shown = c.shown
               /\ c.observed <= out.observed /\ seq <= out.observed
               /\ out.observed \in {c.observed, seq} /\ out.inbound \in {c.inbound, seq}
<1>1. c.inbound \in Seqs /\ c.observed \in Seqs
  BY DEF Cursors
<1> DEFINE i == Larger(c.inbound, seq)
           o == Larger(c.observed, seq)
<1>2. /\ i \in Seqs /\ o \in Seqs /\ o >= c.observed /\ o >= seq
      /\ o \in {c.observed, seq} /\ i \in {c.inbound, seq}
  BY <1>1, LargerFacts
<1> HIDE DEF i, o
<1>3. c.observed <= o /\ seq <= o
  BY <1>1, <1>2, SeqsFacts
<1> DEFINE out == [c EXCEPT !.inbound = i, !.observed = o]
<1>4. /\ out \in Cursors /\ out.applied = c.applied /\ out.queued = c.queued
      /\ out.shown = c.shown /\ out.observed = o /\ out.inbound = i
  BY <1>2 DEF Cursors
<1>5. out = [c EXCEPT !.inbound = Larger(c.inbound, seq), !.observed = Larger(c.observed, seq)]
  BY DEF i, o
<1> HIDE DEF out
<1> QED
  BY <1>2, <1>3, <1>4, <1>5

\* The four ends of enqueueMessage.
EventDuringReset(seen, seq) ==
    /\ reset.active /\ cursor' = seen /\ UNCHANGED pending
    /\ recovery' = Backfill(recovery, seq, cursor.applied)
EventKnown(seen, seq) ==
    /\ ~reset.active /\ seq <= Larger(cursor.applied, cursor.queued)
    /\ cursor' = seen /\ UNCHANGED <<pending, recovery>>
EventQueued(seen, seq) ==
    /\ ~reset.active /\ seq > Larger(cursor.applied, cursor.queued)
    /\ Cardinality(pending) < PendingCap
    /\ cursor' = [seen EXCEPT !.queued = seq] /\ pending' = pending \cup {seq}
    /\ UNCHANGED recovery
EventOverflows(seen, seq) ==
    /\ ~reset.active /\ seq > Larger(cursor.applied, cursor.queued)
    /\ cursor' = [seen EXCEPT !.queued = seen.applied] /\ pending' = {}
    /\ recovery' = Backfill(recovery, seq, cursor.applied)

LEMMA EventCases ==
    ASSUME ClientPart, NetOK, HandleEvent
    PROVE  \E seen \in Cursors :
              /\ Inbound.seq \in Seqs
              /\ seen.applied = cursor.applied /\ seen.queued = cursor.queued
              /\ seen.shown = cursor.shown
              /\ cursor.observed <= seen.observed /\ Inbound.seq <= seen.observed
              /\ seen.observed \in {cursor.observed, Inbound.seq}
              /\ seen.inbound \in {cursor.inbound, Inbound.seq}
              /\ \/ EventDuringReset(seen, Inbound.seq) \/ EventKnown(seen, Inbound.seq)
                 \/ EventQueued(seen, Inbound.seq) \/ EventOverflows(seen, Inbound.seq)
<1>1. cursor \in Cursors /\ cursor.applied \in Seqs /\ cursor.queued \in Seqs
  BY DEF ClientPart, ClientOK, Cursors
<1> DEFINE seq == Inbound.seq
           seen == [cursor EXCEPT !.inbound = Larger(cursor.inbound, seq),
                                  !.observed = Larger(cursor.observed, seq)]
<1>2. seq \in Seqs
  BY Delivers DEF HandleEvent
<1>3. /\ seen \in Cursors
      /\ seen.applied = cursor.applied /\ seen.queued = cursor.queued
      /\ seen.shown = cursor.shown
      /\ cursor.observed <= seen.observed /\ seq <= seen.observed
      /\ seen.observed \in {cursor.observed, seq} /\ seen.inbound \in {cursor.inbound, seq}
  BY <1>1, <1>2, SeenShape
<1>4. \/ /\ reset.active /\ cursor' = seen /\ UNCHANGED pending
         /\ recovery' = Backfill(recovery, seq, cursor.applied)
      \/ /\ ~reset.active /\ ~(seq > Larger(cursor.applied, cursor.queued))
         /\ cursor' = seen /\ UNCHANGED <<pending, recovery>>
      \/ /\ ~reset.active /\ seq > Larger(cursor.applied, cursor.queued) /\ ~Overflow
         /\ cursor' = [seen EXCEPT !.queued = seq] /\ pending' = pending \cup {seq}
         /\ UNCHANGED recovery
      \/ /\ ~reset.active /\ seq > Larger(cursor.applied, cursor.queued)
         /\ cursor' = [seen EXCEPT !.queued = seen.applied] /\ pending' = {}
         /\ recovery' = Backfill(recovery, seq, cursor.applied)
  BY DEF HandleEvent, Dropped
<1> HIDE DEF seen, seq
<1>5. /\ Larger(cursor.applied, cursor.queued) \in Nat /\ seq \in Nat
      /\ Cardinality(pending) \in Nat /\ PendingCap \in Nat
  BY <1>1, <1>2, LargerFacts, SeqsFacts, QueuePart, FS_CardinalityType, LimitsAssumption
     DEF ClientPart
<1>6. ~Overflow => Cardinality(pending) < PendingCap
  BY <1>5 DEF Overflow
<1>7. ~(seq > Larger(cursor.applied, cursor.queued)) => seq <= Larger(cursor.applied, cursor.queued)
  BY <1>5
<1>8. \/ EventDuringReset(seen, seq) \/ EventKnown(seen, seq)
      \/ EventQueued(seen, seq) \/ EventOverflows(seen, seq)
  BY <1>4, <1>6, <1>7 DEF EventDuringReset, EventKnown, EventQueued, EventOverflows
<1> QED
  BY <1>2, <1>3, <1>8 DEF seq

LEMMA EventStep == ClientPart /\ NetOK /\ HandleEvent => ClientPart'
<1> SUFFICES ASSUME ClientPart, NetOK, HandleEvent PROVE ClientPart'
  OBVIOUS
<1> DEFINE seq == Inbound.seq
<1>1. PICK seen \in Cursors :
          /\ seq \in Seqs
          /\ seen.applied = cursor.applied /\ seen.queued = cursor.queued
          /\ seen.shown = cursor.shown
          /\ cursor.observed <= seen.observed
          /\ \/ EventDuringReset(seen, seq) \/ EventKnown(seen, seq)
             \/ EventQueued(seen, seq) \/ EventOverflows(seen, seq)
  BY EventCases
<1> HIDE DEF seq
<1>2. UNCHANGED <<reset, hydrate, view>>
  BY DEF HandleEvent
<1>3. /\ cursor \in Cursors /\ cursor.applied \in Seqs /\ cursor.queued \in Seqs
      /\ cursor.applied \in Nat /\ cursor.queued \in Nat /\ seq \in Nat
      /\ cursor.shown \in Nat /\ cursor.observed \in Nat /\ seen.observed \in Nat
  BY <1>1, SeqsFacts DEF ClientPart, ClientOK, Cursors
<1>4. recovery \in Recoveries /\ SameRequest(recovery, recovery)
  BY DEF ClientPart, ClientOK, SameRequest
<1>5. /\ cursor'.applied = cursor.applied /\ cursor'.shown = cursor.shown
      /\ cursor'.observed = seen.observed /\ cursor' \in Cursors
  BY <1>1, <1>3 DEF EventDuringReset, EventKnown, EventQueued, EventOverflows, Cursors
<1>6. recovery' \in Recoveries /\ Planned'
  <2>1. CASE recovery' = recovery
    <3>1. cursor'.applied \in Seqs /\ cursor.applied <= cursor'.applied
      BY <1>3, <1>5
    <3> QED
      BY <1>2, <1>4, <2>1, <3>1, PlannedFrame DEF ClientPart
  <2>2. CASE recovery' = Backfill(recovery, seq, cursor.applied)
    BY <1>1, <1>2, <1>4, <1>5, <2>2, BackfillKeeps DEF ClientPart
  <2> QED
    BY <1>1, <2>1, <2>2 DEF EventDuringReset, EventKnown, EventQueued, EventOverflows
<1>7. QueueOK'
  <2>1. CASE pending' = pending
    BY <2>1 DEF ClientPart, QueueOK
  <2>2. CASE pending' = {}
    BY <2>2, NoneQueued DEF QueueOK
  <2>3. CASE EventQueued(seen, seq)
    <3>1. pending' = pending \cup {seq} /\ Cardinality(pending) < PendingCap
      BY <2>3 DEF EventQueued
    <3>2. IsFiniteSet(pending) /\ pending \subseteq Seqs
      BY QueuePart DEF ClientPart
    <3>3. Cardinality(pending) \in Nat /\ PendingCap \in Nat
      BY <3>2, FS_CardinalityType, LimitsAssumption
    <3>4. Cardinality(pending \cup {seq}) <= Cardinality(pending) + 1
      <4>1. Cardinality(pending \cup {seq}) =
               IF seq \in pending THEN Cardinality(pending) ELSE Cardinality(pending) + 1
        BY <3>2, FS_AddElement
      <4> QED
        BY <3>3, <4>1
    <3>5. Cardinality(pending \cup {seq}) \in Nat
      BY <3>2, FS_AddElement, FS_CardinalityType
    <3>6. Cardinality(pending \cup {seq}) <= PendingCap
      BY <3>1, <3>3, <3>4, <3>5
    <3> QED
      BY <1>1, <3>1, <3>2, <3>6 DEF QueueOK
  <2> QED
    BY <1>1, <2>1, <2>2, <2>3 DEF EventDuringReset, EventKnown, EventOverflows
<1>8. ClientOK'
  BY <1>2, <1>5, <1>6 DEF ClientPart, ClientOK
<1>9. Shown'
  BY <1>1, <1>2, <1>3, <1>5 DEF ClientPart, Held, Shown, Larger
<1>10. NothingBeyondCursor'
  BY <1>2, <1>5 DEF ClientPart, Held, NothingBeyondCursor
<1>11. WatermarkExact'
  <2>1. CASE reset.active
    BY <1>2, <2>1 DEF WatermarkExact
  <2>2. CASE EventKnown(seen, seq)
    BY <1>1, <1>2, <2>2 DEF EventKnown, ClientPart, Held, WatermarkExact
  <2>3. CASE EventQueued(seen, seq)
    <3>1. cursor'.queued = seq /\ pending' = pending \cup {seq} /\ ~reset.active
      BY <1>1, <2>3 DEF EventQueued, Cursors
    <3>2. cursor.queued = Max({cursor.applied} \cup pending)
      BY <3>1 DEF ClientPart, Held, WatermarkExact
    <3>3. pending \in SUBSET Seqs
      BY DEF ClientPart, QueueOK
    <3>4. \A x \in pending : x <= cursor.queued
      <4>1. \A x \in pending : x <= Max({cursor.applied} \cup pending)
        BY <1>3, <3>3, MaxWith
      <4> QED
        BY <3>2, <4>1
    <3>5. cursor.applied < seq /\ cursor.queued < seq
      BY <1>3, <2>3 DEF EventQueued, Larger
    <3>6. \A x \in pending' : x <= seq
      BY <1>3, <3>1, <3>3, <3>4, <3>5, SeqsFacts
    <3>7. Max({cursor.applied} \cup pending') = seq
      <4> DEFINE P == pending'
      <4>1. P \in SUBSET Seqs /\ seq \in {cursor.applied} \cup P /\ seq >= cursor.applied
        BY <1>1, <1>3, <3>1, <3>3, <3>5
      <4>2. \A x \in P : x <= seq
        BY <3>6
      <4> HIDE DEF P
      <4>3. Max({cursor.applied} \cup P) = seq
        BY <1>3, <4>1, <4>2, MaxIs
      <4> QED
        BY <4>3 DEF P
    <3> QED
      BY <1>5, <3>1, <3>7 DEF WatermarkExact
  <2>4. CASE EventOverflows(seen, seq)
    <3>1. cursor'.queued = cursor.applied /\ pending' = {}
      BY <1>1, <2>4 DEF EventOverflows, Cursors
    <3> QED
      BY <1>3, <1>5, <3>1, NothingPending DEF WatermarkExact
  <2> QED
    BY <1>1, <2>1, <2>2, <2>3, <2>4 DEF EventDuringReset
<1> QED
  BY <1>6, <1>7, <1>8, <1>9, <1>10, <1>11 DEF ClientPart, Held

\* A frame applies the first events of the queue and keeps the rest.
Flushed(due, applied) ==
    /\ cursor.applied <= applied /\ (applied = cursor.applied \/ applied \in due)
    /\ \A s \in due : s <= applied
    /\ cursor' = Render([cursor EXCEPT !.applied = applied], applied)
    /\ pending' = Above(pending \ due, applied)
    /\ view' = view \cup Above(due, cursor.applied)

LEMMA FlushShape ==
    ASSUME ClientPart, Flush
    PROVE  \E due \in SUBSET pending, applied \in Seqs : Flushed(due, applied)
<1> DEFINE due == {s \in pending : Cardinality({t \in pending : t < s}) < BatchLimit}
           accepted == Above(due, cursor.applied)
           applied == Max({cursor.applied} \cup accepted)
<1>1. /\ cursor' = Render([cursor EXCEPT !.applied = applied], applied)
      /\ pending' = Above(pending \ due, applied)
      /\ view' = view \cup accepted
  BY DEF Flush
<1>2. due \in SUBSET pending /\ cursor.applied \in Seqs /\ pending \in SUBSET Seqs
  BY DEF ClientPart, ClientOK, QueueOK, Cursors
<1> HIDE DEF due
<1>3. due \in SUBSET Seqs
  BY <1>2
<1>4. accepted \in SUBSET Seqs /\ accepted \subseteq due
  BY <1>2, <1>3, AboveFacts
<1>5. /\ applied \in Seqs /\ applied >= cursor.applied
      /\ \A s \in accepted : s <= applied
      /\ applied = cursor.applied \/ applied \in accepted
  BY <1>2, <1>4, MaxWith
<1> HIDE DEF applied
<1>6. cursor.applied \in Nat /\ applied \in Nat /\ \A s \in due : s \in Nat
  BY <1>2, <1>3, <1>5, SeqsFacts
<1>7. cursor.applied <= applied
  BY <1>5, <1>6
<1>8. \A s \in due : s <= applied
  <2> SUFFICES ASSUME NEW s \in due PROVE s <= applied
    OBVIOUS
  <2>1. CASE s > cursor.applied
    BY <1>5, <2>1 DEF Above
  <2>2. CASE ~(s > cursor.applied)
    BY <1>6, <1>7, <2>2
  <2> QED
    BY <2>1, <2>2
<1>9. Flushed(due, applied)
  BY <1>1, <1>4, <1>5, <1>7, <1>8 DEF Flushed
<1> QED
  BY <1>2, <1>5, <1>9

\* What a frame makes of the cursor.
LEMMA FlushCursor ==
    ASSUME cursor \in Cursors, NEW applied \in Seqs, NEW due, Flushed(due, applied)
    PROVE  /\ cursor' \in Cursors /\ cursor'.applied = applied
           /\ cursor'.queued = cursor.queued /\ cursor'.inbound = cursor.inbound
           /\ cursor'.shown = Larger(cursor.shown, applied)
           /\ cursor'.observed \in {cursor.observed, Larger(cursor.observed, cursor'.shown)}
           /\ ~reset.active => cursor'.observed = Larger(cursor.observed, cursor'.shown)
<1> DEFINE moved == [cursor EXCEPT !.applied = applied]
<1>1. /\ moved \in Cursors /\ moved.applied = applied /\ moved.queued = cursor.queued
      /\ moved.inbound = cursor.inbound /\ moved.shown = cursor.shown
      /\ moved.observed = cursor.observed
  BY DEF Cursors
<1>2. cursor' = Render(moved, applied)
  BY DEF Flushed
<1> HIDE DEF moved
<1>3. /\ Render(moved, applied) \in Cursors
      /\ Render(moved, applied).applied = moved.applied
      /\ Render(moved, applied).queued = moved.queued
      /\ Render(moved, applied).inbound = moved.inbound
      /\ Render(moved, applied).shown = Larger(moved.shown, applied)
      /\ Render(moved, applied).observed
            \in {moved.observed, Larger(moved.observed, Larger(moved.shown, applied))}
      /\ ~reset.active => Render(moved, applied).observed
                             = Larger(moved.observed, Larger(moved.shown, applied))
  BY <1>1, RenderShape
<1> QED
  BY <1>1, <1>2, <1>3

LEMMA FlushStep == ClientPart /\ Flush => ClientPart'
<1> SUFFICES ASSUME ClientPart, Flush PROVE ClientPart'
  OBVIOUS
<1>1. PICK due \in SUBSET pending, applied \in Seqs : Flushed(due, applied)
  BY FlushShape
<1>2. UNCHANGED <<recovery, reset, hydrate>>
  BY DEF Flush
<1>3. /\ cursor \in Cursors /\ cursor.applied \in Nat /\ cursor.queued \in Nat
      /\ applied \in Nat /\ cursor.shown \in Nat /\ cursor.observed \in Nat
      /\ cursor.queued \in Seqs /\ cursor.applied \in Seqs
      /\ pending \in SUBSET Seqs /\ \A s \in pending : s \in Nat
  BY SeqsFacts DEF ClientPart, ClientOK, Cursors, QueueOK
<1>4. /\ cursor' \in Cursors /\ cursor'.applied = applied
      /\ cursor'.queued = cursor.queued
      /\ cursor'.shown = Larger(cursor.shown, applied)
  BY <1>1, <1>3, FlushCursor
<1>5. /\ cursor.applied <= applied /\ (applied = cursor.applied \/ applied \in due)
      /\ \A s \in due : s <= applied
      /\ pending' = Above(pending \ due, applied)
      /\ view' = view \cup Above(due, cursor.applied)
  BY <1>1 DEF Flushed
<1>6. pending' \subseteq pending
  BY <1>5 DEF Above
<1>7. QueueOK'
  <2> DEFINE P == pending'
  <2>1. P \in SUBSET pending
    BY <1>6
  <2> HIDE DEF P
  <2>2. P \subseteq Seqs /\ Cardinality(P) <= PendingCap
    BY <2>1, QueuePart DEF ClientPart
  <2> QED
    BY <2>2 DEF P, QueueOK
<1>8. view' \subseteq Seqs
  BY <1>1, <1>3, <1>5 DEF ClientPart, ClientOK, Above
<1>9. ClientOK'
  BY <1>2, <1>4, <1>8 DEF ClientPart, ClientOK
<1>10. Planned'
  <2>1. cursor'.applied \in Seqs /\ cursor.applied <= cursor'.applied
    BY <1>1, <1>4, <1>5
  <2> QED
    BY <1>2, <1>9, <2>1, PlannedFrame DEF ClientPart
<1>11. Shown'
  <2>1. applied <= Larger(cursor.shown, applied)
    BY <1>3 DEF Larger
  <2>2. cursor'.shown \in Nat /\ cursor'.observed \in Nat
    BY <1>4, SeqsFacts DEF Cursors
  <2>3. applied <= cursor'.shown
    BY <1>4, <2>1
  <2>4. applied <= Larger(cursor'.shown, cursor'.observed)
    BY <1>3, <2>2, <2>3 DEF Larger
  <2> QED
    BY <1>4, <2>4 DEF Shown
<1>12. NothingBeyondCursor'
  <2>1. \A s \in view : s \in Nat /\ s <= cursor.applied
    BY SeqsFacts DEF ClientPart, ClientOK, Held, NothingBeyondCursor
  <2>2. \A s \in view : s <= applied
    BY <1>3, <1>5, <2>1
  <2>3. \A s \in view' : s <= applied
    BY <1>5, <2>2 DEF Above
  <2> QED
    BY <1>4, <2>3 DEF NothingBeyondCursor
<1>13. WatermarkExact'
  <2> SUFFICES ASSUME ~reset.active PROVE cursor'.queued = Max({cursor'.applied} \cup pending')
    BY <1>2 DEF WatermarkExact
  <2> DEFINE q == cursor.queued
             P == pending'
  <2>1. q = Max({cursor.applied} \cup pending)
    BY DEF ClientPart, Held, WatermarkExact
  <2>2. /\ q >= cursor.applied /\ (\A s \in pending : s <= q)
        /\ q = cursor.applied \/ q \in pending
    <3>1. /\ Max({cursor.applied} \cup pending) >= cursor.applied
          /\ (\A s \in pending : s <= Max({cursor.applied} \cup pending))
          /\ \/ Max({cursor.applied} \cup pending) = cursor.applied
             \/ Max({cursor.applied} \cup pending) \in pending
      BY <1>3, MaxWith
    <3> QED
      BY <2>1, <3>1
  <2>3. q \in Nat
    BY <1>3
  <2>4. P \in SUBSET Seqs /\ P \subseteq pending
    BY <1>3, <1>6
  <2>5. \A s \in pending : s \in due \/ s <= applied \/ s \in P
    BY <1>3, <1>5 DEF Above
  <2> HIDE DEF q, P
  <2>6. applied <= q
    BY <1>1, <1>3, <1>5, <2>2, <2>3
  <2>7. q = applied \/ q \in P
    <3>1. CASE q = cursor.applied
      BY <1>3, <1>5, <2>3, <2>6, <3>1
    <3>2. CASE q \in pending
      <4>1. q <= applied \/ q \in P
        BY <1>5, <2>5, <3>2
      <4> QED
        BY <1>3, <2>3, <2>6, <4>1
    <3> QED
      BY <2>2, <3>1, <3>2
  <2>8. q \in {applied} \cup P /\ q >= applied /\ \A s \in P : s <= q
    BY <1>3, <2>2, <2>3, <2>4, <2>6, <2>7
  <2>9. Max({applied} \cup P) = q
    BY <2>4, <2>8, MaxIs
  <2> QED
    BY <1>4, <2>9 DEF q, P
<1> QED
  BY <1>7, <1>9, <1>10, <1>11, <1>12, <1>13 DEF ClientPart, Held

-----------------------------------------------------------------------------
(* Requests: what the server answers, and failures. *)

LEMMA RetainedType ==
    ASSUME ServerOK
    PROVE  Retained \in SUBSET Seqs /\ LastRetained \in Seqs
<1>1. Retained \in SUBSET Seqs
  BY SeqsFacts DEF ServerOK, Retained
<1>2. LastRetained = Max({0} \cup Retained)
  BY DEF LastRetained
<1> QED
  BY <1>1, <1>2, MaxWith, SeqsFacts

\* Only the recovery's record changes, and it keeps running or leaves its timer.
LEMMA RecoveryStep ==
    ASSUME ClientPart, UNCHANGED <<cursor, pending, reset, hydrate, view>>,
           recovery.pc # "idle", recovery' \in Recoveries, PageShape',
           \/ recovery'.pc # "idle" /\ recovery'.after = recovery.after
                                    /\ recovery'.stale = recovery.stale
           \/ recovery'.pc = "idle" /\ recovery'.timer
    PROVE  ClientPart'
<1>1. QueueOK' /\ ClientOK'
  BY DEF ClientPart, QueueOK, ClientOK
<1>2. Held'
  BY DEF ClientPart, Held, Shown, WatermarkExact, NothingBeyondCursor
<1>3. ResetShape' /\ PageApplied'
  BY DEF ClientPart, Planned, ResetShape, PageApplied
<1>4. WakeUpArmed'
  BY DEF ClientPart, Planned, WakeUpArmed
<1> QED
  BY <1>1, <1>2, <1>3, <1>4 DEF ClientPart, Planned

LEMMA AnsweredBounds ==
    ASSUME NEW gone \in BOOLEAN, NEW seq \in Seqs
    PROVE  LET page == [NoPage EXCEPT !.reset = gone, !.latestSeq = seq]
           IN  page \in Pages /\ page.reset = gone /\ page.latestSeq = seq /\ page.events = {}
<1>1. NoPage.events = {}
  BY DEF NoPage
<1> QED
  BY <1>1, IdleTypes DEF Pages

LEMMA ServeBoundsStep == ClientPart /\ ServerOK /\ ServeBounds => ClientPart'
<1> SUFFICES ASSUME ClientPart, ServerOK, ServeBounds PROVE ClientPart'
  OBVIOUS
<1>1. /\ UNCHANGED <<cursor, pending, reset, hydrate, view>>
      /\ recovery.pc = "asked"
  BY DEF ServeBounds
<1> DEFINE gone == NotRetained(recovery.after)
           page == [NoPage EXCEPT !.reset = gone, !.latestSeq = LastRetained]
           pc == IF gone THEN "answered" ELSE "bounded"
<1>2. recovery' = [recovery EXCEPT !.pc = pc, !.answer = page]
  BY DEF ServeBounds
<1>3. gone \in BOOLEAN
  BY DEF NotRetained
<1> HIDE DEF gone
<1>4. page \in Pages /\ page.reset = gone /\ page.events = {}
  BY <1>3, RetainedType, AnsweredBounds
<1> HIDE DEF page
<1>5. recovery \in Recoveries
  BY DEF ClientPart, ClientOK
<1>6. /\ recovery' \in Recoveries /\ recovery'.pc = pc /\ recovery'.after = recovery.after
      /\ recovery'.stale = recovery.stale /\ recovery'.answer = page
  BY <1>2, <1>4, <1>5 DEF Recoveries, Pcs
<1>7. PageShape'
  BY <1>4, <1>6 DEF PageShape
<1> QED
  BY <1>1, <1>6, <1>7, RecoveryStep

LEMMA ServePageStep == ClientPart /\ ServerOK /\ ServePage => ClientPart'
<1> SUFFICES ASSUME ClientPart, ServerOK, ServePage PROVE ClientPart'
  OBVIOUS
<1> DEFINE events == Page(recovery.after)
           page == [recovery.answer EXCEPT !.events = events]
<1>1. /\ UNCHANGED <<cursor, pending, reset, hydrate, view>>
      /\ recovery.pc = "bounded"
  BY DEF ServePage
<1>2. recovery \in Recoveries /\ recovery.answer \in Pages /\ ~recovery.answer.reset
  BY <1>1 DEF ClientPart, ClientOK, Planned, PageShape, Recoveries
<1>3. events \in SUBSET Seqs
  BY RetainedType DEF Page
<1>4. recovery' = [recovery EXCEPT !.pc = "answered", !.answer = page]
  BY <1>2 DEF ServePage, Recoveries, Pages
<1> HIDE DEF events
<1>5. page \in Pages /\ ~page.reset
  BY <1>2, <1>3 DEF Pages
<1> HIDE DEF page
<1>6. /\ recovery' \in Recoveries /\ recovery'.pc = "answered"
      /\ recovery'.after = recovery.after /\ recovery'.stale = recovery.stale
      /\ recovery'.answer = page
  BY <1>2, <1>4, <1>5 DEF Recoveries, Pcs
<1>7. PageShape'
  BY <1>5, <1>6 DEF PageShape
<1> QED
  BY <1>1, <1>6, <1>7, RecoveryStep

\* A failed request is parked with its timer, its target among what is wanted.
LEMMA FailPageShape ==
    ASSUME recovery \in Recoveries, FailPage
    PROVE  /\ recovery' \in Recoveries
           /\ recovery'.pc = "idle" /\ recovery'.timer /\ recovery'.answer = NoPage
           /\ recovery'.wanted >= recovery.wanted /\ recovery'.wanted >= recovery.target
           /\ recovery'.wanted \in {recovery.wanted, recovery.target}
<1> DEFINE q == Queue(recovery, recovery.target)
<1>1. recovery.target \in Seqs
  BY DEF Recoveries
<1>2. /\ q \in Recoveries
      /\ q.wanted >= recovery.wanted /\ q.wanted >= recovery.target
      /\ q.wanted \in {recovery.wanted, recovery.target}
  BY <1>1, QueueShape
<1>3. recovery' = [Parked(q) EXCEPT !.timer = TRUE]
  BY DEF FailPage
<1> HIDE DEF q
<1>4. recovery' = [pc |-> "idle", after |-> 0, target |-> 0, latestSeq |-> 0,
                   stale |-> FALSE, answer |-> NoPage, wanted |-> q.wanted, poll |-> q.poll,
                   timer |-> TRUE]
  BY <1>3 DEF Parked, IdleRecovery
<1>5. q.wanted \in Seqs /\ q.poll \in BOOLEAN
  BY <1>2 DEF Recoveries
<1>6. recovery' \in Recoveries
  BY <1>4, <1>5, IdleTypes, SeqsFacts DEF Recoveries, Pcs
<1>7. /\ recovery'.pc = "idle" /\ recovery'.timer /\ recovery'.answer = NoPage
      /\ recovery'.wanted = q.wanted
  BY <1>4
<1> QED
  BY <1>2, <1>6, <1>7

LEMMA FailPageStep == ClientPart /\ FailPage => ClientPart'
<1> SUFFICES ASSUME ClientPart, FailPage PROVE ClientPart'
  OBVIOUS
<1>1. /\ UNCHANGED <<cursor, pending, reset, hydrate, view>>
      /\ recovery.pc \in {"asked", "bounded"}
  BY DEF FailPage
<1>2. recovery \in Recoveries
  BY DEF ClientPart, ClientOK
<1>3. /\ recovery' \in Recoveries /\ recovery'.pc = "idle" /\ recovery'.timer
      /\ recovery'.answer = NoPage
  BY <1>2, FailPageShape
<1>4. PageShape'
  BY <1>3 DEF PageShape, NoPage
<1>5. recovery.pc # "idle"
  BY <1>1
<1> QED
  BY <1>1, <1>3, <1>4, <1>5, RecoveryStep

\* The request of a reset: sent, answered, failed or waiting for its timer.
LEMMA ResetRequestStep ==
    ASSUME ClientPart, UNCHANGED <<cursor, pending, recovery, hydrate, view>>,
           reset' \in Resets, reset'.active = reset.active, reset.active,
           reset'.pc # "idle" \/ reset'.timer
    PROVE  ClientPart'
<1>1. QueueOK' /\ ClientOK'
  BY DEF ClientPart, QueueOK, ClientOK
<1>2. Held'
  BY DEF ClientPart, Held, Shown, WatermarkExact, NothingBeyondCursor
<1>3. ResetShape' /\ PageApplied' /\ PageShape'
  BY DEF ClientPart, Planned, ResetShape, PageApplied, PageShape
<1>4. WakeUpArmed'
  BY DEF ClientPart, Planned, WakeUpArmed
<1> QED
  BY <1>1, <1>2, <1>3, <1>4 DEF ClientPart, Planned

LEMMA ResetRequestsStep ==
    ClientPart /\ ServerOK /\ (ServeState \/ FailState \/ ResetTimer) => ClientPart'
<1> SUFFICES ASSUME ClientPart, ServerOK, ServeState \/ FailState \/ ResetTimer
             PROVE  ClientPart'
  OBVIOUS
<1>1. UNCHANGED <<cursor, pending, recovery, hydrate, view>>
  BY DEF ServeState, FailState, ResetTimer
<1>2. reset \in Resets /\ snapshot \in Seqs
  BY DEF ClientPart, ClientOK, ServerOK
<1>3. reset.pc = "asked" \/ reset.timer
  BY DEF ServeState, FailState, ResetTimer
<1>4. reset.active
  BY <1>3 DEF ClientPart, Planned, ResetShape
<1>5. reset' \in Resets /\ reset'.active = reset.active /\ (reset'.pc # "idle" \/ reset'.timer)
  <2>1. CASE ServeState
    BY <1>2, <2>1 DEF ServeState, Resets, Pcs
  <2>2. CASE FailState
    BY <1>2, <2>2 DEF FailState, Resets, Pcs
  <2>3. CASE ResetTimer
    BY <1>2, <2>3 DEF ResetTimer, Resets, Pcs
  <2> QED
    BY <2>1, <2>2, <2>3
<1> QED
  BY <1>1, <1>4, <1>5, ResetRequestStep

LEMMA HydrateRequestsStep ==
    ClientPart /\ ServerOK /\ (Hydrate \/ ServeHydrate) => ClientPart'
<1> SUFFICES ASSUME ClientPart, ServerOK, Hydrate \/ ServeHydrate
             PROVE  ClientPart'
  OBVIOUS
<1>1. UNCHANGED <<cursor, pending, recovery, reset, view>>
  BY DEF Hydrate, ServeHydrate
<1>2. hydrate \in Hydrates /\ snapshot \in Seqs
  BY DEF ClientPart, ClientOK, ServerOK
<1>3. hydrate' \in Hydrates
  BY <1>2 DEF Hydrate, ServeHydrate, Hydrates
<1>4. QueueOK' /\ ClientOK'
  BY <1>1, <1>3 DEF ClientPart, QueueOK, ClientOK
<1>5. Held'
  BY <1>1 DEF ClientPart, Held, Shown, WatermarkExact, NothingBeyondCursor
<1>6. Planned'
  BY <1>1 DEF ClientPart, Planned, ResetShape, PageApplied, PageShape, WakeUpArmed
<1> QED
  BY <1>4, <1>5, <1>6 DEF ClientPart

-----------------------------------------------------------------------------
(* The answer of a page. *)

\* The cases that recoverPublicEventPages tells apart.
LEMMA OutcomeFacts ==
    ASSUME NEW rec
    PROVE  /\ Outcome(rec) \in {"empty", "reset", "caught-up", "more"}
           /\ Outcome(rec) = "empty" => rec.answer.reset
           /\ Outcome(rec) = "reset" =>
                 \/ rec.answer.reset
                 \/ /\ rec.answer.events = {}
                    /\ rec.after < Larger(rec.latestSeq, rec.answer.latestSeq)
           /\ Outcome(rec) = "caught-up" =>
                 AfterPage(rec) >= Larger(rec.latestSeq, rec.answer.latestSeq)
<1> DEFINE page == rec.answer
           known == Larger(rec.latestSeq, page.latestSeq)
           after == Max({rec.after} \cup page.events)
           empty == page.reset /\ page.latestSeq = 0 /\ rec.after = 0
           gap == page.events = {} /\ rec.after < known
           caught == after >= known
<1>1. Outcome(rec) = CASE empty -> "empty"
                       [] page.reset -> "reset"
                       [] gap -> "reset"
                       [] caught -> "caught-up"
                       [] OTHER -> "more"
  BY DEF Outcome
<1>2. after = AfterPage(rec)
  BY DEF AfterPage
<1> HIDE DEF known, after
<1>3. /\ Outcome(rec) \in {"empty", "reset", "caught-up", "more"}
      /\ Outcome(rec) = "empty" => page.reset
      /\ Outcome(rec) = "reset" => page.reset \/ gap
      /\ Outcome(rec) = "caught-up" => caught
  BY <1>1
<1> QED
  BY <1>2, <1>3 DEF known

\* What a page brings: the events above the cursor, and the cursor after them.
LEMMA ReadFacts ==
    ASSUME cursor \in Cursors, NEW rec \in Recoveries
    PROVE  LET news == Unapplied(rec)
               read == Max({cursor.applied} \cup news)
           IN  /\ news \in SUBSET Seqs /\ news \subseteq rec.answer.events
               /\ read \in Seqs /\ cursor.applied <= read
               /\ \A s \in news : cursor.applied < s /\ s <= read
               /\ read = cursor.applied \/ read \in news
               /\ news = {} => read = cursor.applied
<1> DEFINE news == Unapplied(rec)
           read == Max({cursor.applied} \cup news)
<1>1. cursor.applied \in Seqs /\ rec.answer.events \in SUBSET Seqs
  BY DEF Cursors, Recoveries, Pages
<1>2. /\ news \in SUBSET Seqs /\ news \subseteq rec.answer.events
      /\ \A s \in news : s > cursor.applied
  BY <1>1 DEF Unapplied, Above
<1> HIDE DEF news
<1>3. /\ read \in Seqs /\ read >= cursor.applied
      /\ \A s \in news : s <= read
      /\ read = cursor.applied \/ read \in news
  BY <1>1, <1>2, MaxWith
<1> HIDE DEF read
<1>4. cursor.applied <= read /\ \A s \in news : cursor.applied < s
  BY <1>1, <1>2, <1>3, SeqsFacts
<1> QED
  BY <1>2, <1>3, <1>4 DEF news, read

LEMMA AfterPageType ==
    ASSUME NEW rec \in Recoveries
    PROVE  /\ AfterPage(rec) \in Seqs
           /\ AfterPage(rec) = rec.after \/ AfterPage(rec) \in rec.answer.events
           /\ AfterPage(rec) >= rec.after
           /\ KnownLatest(rec) \in Seqs
           /\ KnownLatest(rec) \in {rec.answer.latestSeq, rec.latestSeq}
<1>1. /\ rec.after \in Seqs /\ rec.answer.events \in SUBSET Seqs
      /\ rec.latestSeq \in Seqs /\ rec.answer.latestSeq \in Seqs
  BY DEF Recoveries, Pages
<1>2. AfterPage(rec) = Max({rec.after} \cup rec.answer.events)
  BY DEF AfterPage
<1>3. /\ AfterPage(rec) \in Seqs /\ AfterPage(rec) >= rec.after
      /\ AfterPage(rec) = rec.after \/ AfterPage(rec) \in rec.answer.events
  BY <1>1, <1>2, MaxWith
<1>4. Larger(rec.latestSeq, rec.answer.latestSeq) \in {rec.answer.latestSeq, rec.latestSeq}
  BY <1>1, LargerFacts
<1>5. /\ KnownLatest(rec) \in Seqs
      /\ KnownLatest(rec) \in {rec.answer.latestSeq, rec.latestSeq}
  BY <1>1, <1>4 DEF KnownLatest
<1> QED
  BY <1>3, <1>5

\* A request that is not stale has read no further than its page is applied.
LEMMA AfterIsRead ==
    ASSUME cursor \in Cursors, NEW rec \in Recoveries, ~rec.stale, rec.after <= cursor.applied
    PROVE  AfterPage(rec) <= Max({cursor.applied} \cup Unapplied(rec))
<1> DEFINE news == Unapplied(rec)
           read == Max({cursor.applied} \cup news)
           after == AfterPage(rec)
<1>1. /\ read \in Seqs /\ cursor.applied <= read
      /\ \A s \in news : s <= read
  BY ReadFacts
<1>2. after \in Seqs /\ (after = rec.after \/ after \in rec.answer.events)
  BY AfterPageType
<1>3. cursor.applied \in Nat /\ read \in Nat /\ after \in Nat /\ rec.after \in Nat
  BY <1>1, <1>2, SeqsFacts DEF Cursors, Recoveries
<1>4. news = Above(rec.answer.events, cursor.applied)
  BY DEF Unapplied
<1> HIDE DEF news, read, after
<1>5. after = rec.after => after <= read
  BY <1>1, <1>3
<1>6. ASSUME after \in rec.answer.events
      PROVE  after <= read
  <2>1. CASE after > cursor.applied
    BY <1>1, <1>4, <1>6, <2>1 DEF Above
  <2>2. CASE ~(after > cursor.applied)
    BY <1>1, <1>3, <2>2
  <2> QED
    BY <2>1, <2>2
<1> QED
  BY <1>2, <1>5, <1>6 DEF after, read, news

\* The cursor once the page is applied.
Paged(news, read) == IF news = {} THEN cursor ELSE Render(Advance(cursor, read, pending), read)

PagedOK(out, news, read) ==
    /\ out \in Cursors /\ out.applied = read
    /\ cursor.shown <= out.shown /\ cursor.observed <= out.observed
    /\ out.shown \in {cursor.shown, read}
    /\ out.observed \in {cursor.observed, cursor.shown, read}
    /\ out.inbound = cursor.inbound
    /\ news # {} => /\ read <= out.shown
                    /\ out.queued = Max({read} \cup Above(pending, read))
    /\ news = {} => out = cursor

LEMMA PagedShape ==
    ASSUME cursor \in Cursors, pending \in SUBSET Seqs, ~reset.active,
           NEW news, NEW read \in Seqs, news = {} => read = cursor.applied
    PROVE  PagedOK(Paged(news, read), news, read)
<1> DEFINE paged == Paged(news, read)
<1>1. /\ cursor.shown \in Nat /\ cursor.observed \in Nat /\ read \in Nat
  BY SeqsFacts DEF Cursors
<1>2. CASE news = {}
  BY <1>1, <1>2 DEF Paged, PagedOK
<1>3. CASE news # {}
  <2> DEFINE moved == Advance(cursor, read, pending)
  <2>1. /\ moved \in Cursors /\ moved.applied = read
        /\ moved.queued = Max({read} \cup Above(pending, read))
        /\ moved.shown = cursor.shown /\ moved.observed = cursor.observed
        /\ moved.inbound = cursor.inbound
    BY AdvanceShape
  <2> HIDE DEF moved
  <2>2. /\ Render(moved, read) \in Cursors
        /\ Render(moved, read).applied = moved.applied
        /\ Render(moved, read).queued = moved.queued
        /\ Render(moved, read).inbound = moved.inbound
        /\ Render(moved, read).shown = Larger(moved.shown, read)
        /\ Render(moved, read).observed = Larger(moved.observed, Larger(moved.shown, read))
    BY <2>1, RenderShape
  <2>3. paged = Render(moved, read)
    BY <1>3 DEF Paged, moved
  <2> HIDE DEF paged
  <2>4. /\ paged \in Cursors /\ paged.applied = read /\ paged.inbound = cursor.inbound
        /\ paged.queued = Max({read} \cup Above(pending, read))
        /\ paged.shown = Larger(cursor.shown, read)
        /\ paged.observed = Larger(cursor.observed, Larger(cursor.shown, read))
    BY <2>1, <2>2, <2>3
  <2>5. /\ cursor.shown <= paged.shown /\ read <= paged.shown
        /\ cursor.observed <= paged.observed
        /\ paged.shown \in {cursor.shown, read}
        /\ paged.observed \in {cursor.observed, cursor.shown, read}
    BY <1>1, <2>4 DEF Larger
  <2> QED
    BY <1>3, <2>4, <2>5 DEF PagedOK, paged
<1> QED
  BY <1>2, <1>3

\* The five ends of a page.
PageMore(paged, news, read) ==
    /\ Outcome(recovery) = "more"
    /\ cursor' = paged
    /\ pending' = IF news = {} THEN pending ELSE Above(pending, read)
    /\ recovery' = [recovery EXCEPT !.pc = "asked", !.after = AfterPage(recovery),
                      !.latestSeq = KnownLatest(recovery), !.answer = NoPage]
    /\ UNCHANGED reset
PageStale ==
    /\ recovery.stale
    /\ recovery' = Loop([recovery EXCEPT !.wanted = Larger(@,
           IF recovery.target > 0 THEN recovery.target ELSE cursor.observed)], cursor.applied)
    /\ UNCHANGED <<cursor, pending, reset>>
PageCaught(paged, caught) ==
    /\ Outcome(recovery) = "caught-up" /\ ~recovery.stale
    /\ cursor' = [Advance(paged, caught, pending) EXCEPT
                    !.observed = Larger(@, KnownLatest(recovery))]
    /\ pending' = Above(pending, caught)
    /\ recovery' = Loop(recovery, caught)
    /\ UNCHANGED reset
PageEmpty ==
    /\ Outcome(recovery) = "empty" /\ ~recovery.stale
    /\ recovery' = Loop(recovery, cursor.applied)
    /\ UNCHANGED <<cursor, pending, reset>>
PageReset(target) ==
    /\ Outcome(recovery) = "reset" /\ ~recovery.stale
    /\ cursor' = [cursor EXCEPT !.observed = target, !.inbound = target, !.queued = target]
    /\ pending' = {}
    /\ recovery' = [IdleRecovery EXCEPT !.wanted = target]
    /\ reset' = [IdleReset EXCEPT !.pc = "asked", !.floor = target, !.active = TRUE]

LEMMA PageCases ==
    ASSUME HandlePage
    PROVE  LET news == Unapplied(recovery)
               read == Max({cursor.applied} \cup news)
               paged == Paged(news, read)
           IN  /\ recovery.pc = "answered" /\ view' = view \cup news
               /\ \/ PageMore(paged, news, read)
                  \/ PageStale
                  \/ PageCaught(paged, Larger(read, AfterPage(recovery)))
                  \/ PageEmpty
                  \/ PageReset(ResetTarget(KnownLatest(recovery)))
<1> DEFINE news == Unapplied(recovery)
           read == Max({cursor.applied} \cup news)
           paged == Paged(news, read)
<1>1. recovery.pc = "answered" /\ view' = view \cup news
  BY DEF HandlePage
<1>2. paged = IF news = {} THEN cursor ELSE Render(Advance(cursor, read, pending), read)
  BY DEF Paged
<1> HIDE DEF paged
<1>3. \/ PageMore(paged, news, read)
      \/ PageStale
      \/ PageCaught(paged, Larger(read, AfterPage(recovery)))
      \/ PageEmpty
      \/ PageReset(ResetTarget(KnownLatest(recovery)))
  BY <1>2 DEF HandlePage, PageMore, PageStale, PageCaught, PageEmpty, PageReset
<1> QED
  BY <1>1, <1>3 DEF paged

LEMMA ResetTargetType ==
    ASSUME cursor \in Cursors, NEW seq \in Seqs
    PROVE  /\ ResetTarget(seq) \in Seqs
           /\ ResetTarget(seq) \in {seq, cursor.inbound}
BY LargerFacts DEF ResetTarget, Cursors

\* A page of which more is to come.
LEMMA PageMoreStep ==
    ASSUME ClientPart, UNCHANGED hydrate, recovery.pc = "answered",
           NEW read \in Seqs, read = Max({cursor.applied} \cup Unapplied(recovery)),
           view' = view \cup Unapplied(recovery),
           PageMore(Paged(Unapplied(recovery), read), Unapplied(recovery), read)
    PROVE  ClientPart'
<1> DEFINE news == Unapplied(recovery)
           paged == Paged(news, read)
<1>1. cursor \in Cursors /\ recovery \in Recoveries /\ pending \in SUBSET Seqs
  BY DEF ClientPart, ClientOK, QueueOK
<1>2. ~reset.active
  BY DEF ClientPart, Planned, WakeUpArmed
<1>3. /\ news \in SUBSET Seqs /\ cursor.applied <= read
      /\ \A s \in news : s <= read
      /\ news = {} => read = cursor.applied
  BY <1>1, ReadFacts
<1>4. /\ paged \in Cursors /\ paged.applied = read
      /\ cursor.shown <= paged.shown /\ cursor.observed <= paged.observed
      /\ news # {} => /\ read <= paged.shown
                      /\ paged.queued = Max({read} \cup Above(pending, read))
      /\ news = {} => paged = cursor
  <2> HIDE DEF news
  <2>1. news = {} => read = cursor.applied
    BY <1>3
  <2>2. cursor \in Cursors /\ pending \in SUBSET Seqs /\ ~reset.active
    BY <1>1, <1>2
  <2>3. PagedOK(paged, news, read)
    BY <2>1, <2>2, PagedShape
  <2> QED BY <2>3 DEF PagedOK
<1>5. /\ cursor' = paged
      /\ pending' = IF news = {} THEN pending ELSE Above(pending, read)
      /\ recovery' = [recovery EXCEPT !.pc = "asked", !.after = AfterPage(recovery),
                      !.latestSeq = KnownLatest(recovery), !.answer = NoPage]
      /\ UNCHANGED reset
      /\ view' = view \cup news
  BY DEF PageMore
<1>6. AfterPage(recovery) \in Seqs /\ KnownLatest(recovery) \in Seqs
  BY <1>1, AfterPageType
<1>7. ~recovery.stale => AfterPage(recovery) <= read
  BY <1>1, AfterIsRead DEF ClientPart, Planned, PageApplied
<1> HIDE DEF news, paged
<1>8. /\ recovery' \in Recoveries /\ recovery'.pc = "asked" /\ recovery'.stale = recovery.stale
      /\ recovery'.after = AfterPage(recovery) /\ recovery'.answer = NoPage
  BY <1>1, <1>5, <1>6, IdleTypes DEF Recoveries, Pcs
<1>9. ClientOK'
  BY <1>3, <1>4, <1>5, <1>8 DEF ClientPart, ClientOK
<1>10. QueueOK'
  <2> DEFINE P == pending'
  <2>1. P \in SUBSET pending
    BY <1>5 DEF Above
  <2> HIDE DEF P
  <2>2. P \subseteq Seqs /\ Cardinality(P) <= PendingCap
    BY <2>1, QueuePart DEF ClientPart
  <2> QED
    BY <2>2 DEF P, QueueOK
<1>11. Planned'
  <2>1. PageApplied' /\ PageShape'
    BY <1>4, <1>5, <1>7, <1>8 DEF PageApplied, PageShape, NoPage
  <2>2. ResetShape' /\ WakeUpArmed'
    BY <1>2, <1>5, <1>8 DEF ClientPart, Planned, ResetShape, WakeUpArmed
  <2> QED
    BY <2>1, <2>2 DEF Planned
<1>12. Held'
  <2>1. /\ read \in Nat /\ cursor.applied \in Nat /\ paged.shown \in Nat /\ paged.observed \in Nat
        /\ cursor.shown \in Nat /\ cursor.observed \in Nat
    BY <1>1, <1>4, SeqsFacts DEF Cursors
  <2>2. Shown'
    <3>1. CASE news = {}
      BY <1>3, <1>4, <1>5, <3>1 DEF ClientPart, Held, Shown
    <3>2. CASE news # {}
      <4>1. read <= Larger(paged.shown, paged.observed)
        BY <1>4, <2>1, <3>2 DEF Larger
      <4> QED
        BY <1>4, <1>5, <4>1 DEF Shown
    <3> QED
      BY <3>1, <3>2
  <2>3. WatermarkExact'
    <3>1. CASE news = {}
      BY <1>3, <1>4, <1>5, <3>1 DEF ClientPart, Held, WatermarkExact
    <3>2. CASE news # {}
      BY <1>4, <1>5, <3>2 DEF WatermarkExact
    <3> QED
      BY <3>1, <3>2
  <2>4. NothingBeyondCursor'
    <3>1. \A s \in view : s \in Nat /\ s <= cursor.applied
      BY SeqsFacts DEF ClientPart, ClientOK, Held, NothingBeyondCursor
    <3>2. \A s \in view : s <= read
      BY <1>3, <2>1, <3>1
    <3> QED
      BY <1>3, <1>4, <1>5, <3>2 DEF NothingBeyondCursor
  <2> QED
    BY <2>2, <2>3, <2>4 DEF Held
<1> QED
  BY <1>9, <1>10, <1>11, <1>12 DEF ClientPart

\* What a stale request asks for again.
Requeued ==
    [recovery EXCEPT !.wanted = Larger(recovery.wanted,
        IF recovery.target > 0 THEN recovery.target ELSE cursor.observed)]

LEMMA RequeuedShape ==
    ASSUME recovery \in Recoveries, cursor \in Cursors
    PROVE  /\ Requeued \in Recoveries
           /\ Requeued.wanted >= recovery.wanted /\ Requeued.wanted >= recovery.target
           /\ Requeued.wanted \in {recovery.wanted, recovery.target, cursor.observed}
<1> DEFINE goal == IF recovery.target > 0 THEN recovery.target ELSE cursor.observed
           w == Larger(recovery.wanted, goal)
<1>1. /\ recovery.wanted \in Seqs /\ recovery.target \in Seqs /\ cursor.observed \in Seqs
  BY DEF Recoveries, Cursors
<1>2. /\ recovery.wanted \in Nat /\ recovery.target \in Nat /\ cursor.observed \in Nat
  BY <1>1, SeqsFacts
<1>3. goal \in Seqs /\ goal \in {recovery.target, cursor.observed} /\ goal >= recovery.target
  BY <1>1, <1>2
<1> HIDE DEF goal
<1>4. w \in Seqs /\ w >= recovery.wanted /\ w >= goal /\ w \in {recovery.wanted, goal}
  BY <1>1, <1>3, LargerFacts
<1> HIDE DEF w
<1>5. w >= recovery.target /\ w \in {recovery.wanted, recovery.target, cursor.observed}
  BY <1>1, <1>2, <1>3, <1>4, SeqsFacts
<1>6. Requeued = [recovery EXCEPT !.wanted = w]
  BY DEF Requeued, w, goal
<1>7. Requeued \in Recoveries /\ Requeued.wanted = w
  BY <1>4, <1>6 DEF Recoveries
<1> QED
  BY <1>4, <1>5, <1>7

LEMMA PageStaleStep ==
    ASSUME ClientPart, UNCHANGED <<hydrate, view>>, recovery.pc = "answered", PageStale
    PROVE  ClientPart'
<1>1. cursor \in Cursors /\ recovery \in Recoveries /\ cursor.applied \in Seqs
  BY DEF ClientPart, ClientOK, Cursors
<1>2. ~reset.active
  BY DEF ClientPart, Planned, WakeUpArmed
<1>3. recovery' = Loop(Requeued, cursor.applied) /\ UNCHANGED <<cursor, pending, reset>>
  BY DEF PageStale, Requeued
<1>4. ResetShape' /\ ~reset'.active
  BY <1>2, <1>3 DEF ClientPart, Planned, ResetShape
<1>5. recovery' \in Recoveries /\ Planned'
  BY <1>1, <1>3, <1>4, LoopKeeps, RequeuedShape
<1>6. QueueOK' /\ ClientOK'
  BY <1>3, <1>5 DEF ClientPart, QueueOK, ClientOK
<1>7. Held'
  BY <1>3 DEF ClientPart, Held, Shown, WatermarkExact, NothingBeyondCursor
<1> QED
  BY <1>5, <1>6, <1>7 DEF ClientPart

LEMMA PageEmptyStep ==
    ASSUME ClientPart, UNCHANGED <<hydrate, view>>, recovery.pc = "answered", PageEmpty
    PROVE  ClientPart'
<1>1. cursor \in Cursors /\ recovery \in Recoveries /\ cursor.applied \in Seqs
  BY DEF ClientPart, ClientOK, Cursors
<1>2. ~reset.active
  BY DEF ClientPart, Planned, WakeUpArmed
<1>3. recovery' = Loop(recovery, cursor.applied) /\ UNCHANGED <<cursor, pending, reset>>
  BY DEF PageEmpty
<1>4. ResetShape' /\ ~reset'.active
  BY <1>2, <1>3 DEF ClientPart, Planned, ResetShape
<1>5. recovery' \in Recoveries /\ Planned'
  BY <1>1, <1>3, <1>4, LoopKeeps
<1>6. QueueOK' /\ ClientOK'
  BY <1>3, <1>5 DEF ClientPart, QueueOK, ClientOK
<1>7. Held'
  BY <1>3 DEF ClientPart, Held, Shown, WatermarkExact, NothingBeyondCursor
<1> QED
  BY <1>5, <1>6, <1>7 DEF ClientPart

\* The server declares a reset: everything waits for the new snapshot.
LEMMA PageResetStep ==
    ASSUME ClientPart, UNCHANGED <<hydrate, view>>, recovery.pc = "answered",
           NEW target \in Seqs, PageReset(target)
    PROVE  ClientPart'
<1>1. cursor \in Cursors
  BY DEF ClientPart, ClientOK
<1>2. /\ cursor' = [cursor EXCEPT !.observed = target, !.inbound = target, !.queued = target]
      /\ pending' = {}
      /\ recovery' = [IdleRecovery EXCEPT !.wanted = target]
      /\ reset' = [IdleReset EXCEPT !.pc = "asked", !.floor = target, !.active = TRUE]
  BY DEF PageReset
<1>3. cursor' \in Cursors /\ cursor'.applied = cursor.applied
  BY <1>1, <1>2 DEF Cursors
<1>4. /\ recovery' \in Recoveries /\ recovery'.pc = "idle" /\ recovery'.answer = NoPage
  <2>1. IdleRecovery.pc = "idle" /\ IdleRecovery.answer = NoPage
    BY DEF IdleRecovery
  <2> QED
    BY <1>2, <2>1, IdleTypes DEF Recoveries
<1>5. reset' \in Resets /\ reset'.active /\ reset'.pc = "asked"
  BY <1>2, IdleTypes DEF Resets, Pcs
<1>6. QueueOK'
  BY <1>2, NoneQueued DEF QueueOK
<1>7. ClientOK'
  BY <1>3, <1>4, <1>5 DEF ClientPart, ClientOK
<1>8. Planned'
  BY <1>4, <1>5 DEF Planned, ResetShape, PageApplied, PageShape, NoPage, WakeUpArmed
<1>9. Held'
  BY <1>3, <1>5 DEF ClientPart, Held, Shown, WatermarkExact, NothingBeyondCursor
<1> QED
  BY <1>6, <1>7, <1>8, <1>9 DEF ClientPart

\* The client has read to the end.
CaughtCursor(paged, caught) ==
    [Advance(paged, caught, pending) EXCEPT !.observed = Larger(@, KnownLatest(recovery))]

LEMMA CaughtShape ==
    ASSUME NEW paged \in Cursors, pending \in SUBSET Seqs, recovery \in Recoveries,
           NEW caught \in Seqs
    PROVE  /\ CaughtCursor(paged, caught) \in Cursors
           /\ CaughtCursor(paged, caught).applied = caught
           /\ CaughtCursor(paged, caught).queued = Max({caught} \cup Above(pending, caught))
           /\ CaughtCursor(paged, caught).shown = paged.shown
           /\ CaughtCursor(paged, caught).inbound = paged.inbound
           /\ CaughtCursor(paged, caught).observed >= paged.observed
           /\ CaughtCursor(paged, caught).observed \in {paged.observed, KnownLatest(recovery)}
<1> DEFINE moved == Advance(paged, caught, pending)
           known == KnownLatest(recovery)
           o == Larger(moved.observed, known)
<1>1. /\ moved \in Cursors /\ moved.applied = caught
      /\ moved.queued = Max({caught} \cup Above(pending, caught))
      /\ moved.shown = paged.shown /\ moved.observed = paged.observed
      /\ moved.inbound = paged.inbound
  BY AdvanceShape
<1>2. known \in Seqs
  BY AfterPageType
<1> HIDE DEF moved, known
<1>3. o \in Seqs /\ o >= paged.observed /\ o \in {paged.observed, known}
  <2>1. paged.observed \in Seqs
    BY DEF Cursors
  <2> QED
    BY <1>1, <1>2, <2>1, LargerFacts
<1>4. CaughtCursor(paged, caught) = [moved EXCEPT !.observed = o]
  BY <1>1 DEF CaughtCursor, moved, known, Cursors
<1> HIDE DEF o
<1>5. /\ CaughtCursor(paged, caught) \in Cursors
      /\ CaughtCursor(paged, caught).applied = moved.applied
      /\ CaughtCursor(paged, caught).queued = moved.queued
      /\ CaughtCursor(paged, caught).shown = moved.shown
      /\ CaughtCursor(paged, caught).inbound = moved.inbound
      /\ CaughtCursor(paged, caught).observed = o
  BY <1>1, <1>3, <1>4 DEF Cursors
<1> QED
  BY <1>1, <1>3, <1>5 DEF known

LEMMA PageCaughtStep ==
    ASSUME ClientPart, UNCHANGED hydrate, recovery.pc = "answered",
           NEW read \in Seqs, read = Max({cursor.applied} \cup Unapplied(recovery)),
           view' = view \cup Unapplied(recovery),
           PageCaught(Paged(Unapplied(recovery), read), Larger(read, AfterPage(recovery)))
    PROVE  ClientPart' /\ cursor'.applied = read
<1> DEFINE news == Unapplied(recovery)
           paged == Paged(news, read)
<1>1. cursor \in Cursors /\ recovery \in Recoveries /\ pending \in SUBSET Seqs
  BY DEF ClientPart, ClientOK, QueueOK
<1>2. ~reset.active
  BY DEF ClientPart, Planned, WakeUpArmed
<1>3. /\ news \in SUBSET Seqs /\ cursor.applied <= read
      /\ \A s \in news : s <= read
      /\ news = {} => read = cursor.applied
  BY <1>1, ReadFacts
<1>4. /\ paged \in Cursors
      /\ cursor.shown <= paged.shown /\ cursor.observed <= paged.observed
      /\ news # {} => read <= paged.shown
      /\ news = {} => paged = cursor
  <2> HIDE DEF news
  <2>1. news = {} => read = cursor.applied
    BY <1>3
  <2>2. cursor \in Cursors /\ pending \in SUBSET Seqs /\ ~reset.active
    BY <1>1, <1>2
  <2>3. PagedOK(paged, news, read)
    BY <2>1, <2>2, PagedShape
  <2> QED BY <2>3 DEF PagedOK
<1>5. ~recovery.stale
  BY DEF PageCaught
<1>6. AfterPage(recovery) <= read /\ AfterPage(recovery) \in Seqs
  BY <1>1, <1>5, AfterIsRead, AfterPageType DEF ClientPart, Planned, PageApplied
<1>7. Larger(read, AfterPage(recovery)) = read
  <2>1. read \in Nat /\ AfterPage(recovery) \in Nat
    BY <1>6, SeqsFacts
  <2> QED
    BY <1>6, <2>1 DEF Larger
<1>8. /\ cursor' = CaughtCursor(paged, read)
      /\ pending' = Above(pending, read)
      /\ recovery' = Loop(recovery, read)
      /\ UNCHANGED reset
      /\ view' = view \cup news
  BY <1>7 DEF PageCaught, CaughtCursor
<1> HIDE DEF news, paged
<1>9. /\ cursor' \in Cursors /\ cursor'.applied = read
      /\ cursor'.queued = Max({read} \cup Above(pending, read))
      /\ cursor'.shown = paged.shown /\ cursor'.observed >= paged.observed
  BY <1>1, <1>4, <1>8, CaughtShape
<1>10. ResetShape' /\ ~reset'.active
  BY <1>2, <1>8 DEF ClientPart, Planned, ResetShape
<1>11. recovery' \in Recoveries /\ Planned'
  BY <1>1, <1>8, <1>9, <1>10, LoopKeeps
<1>12. ClientOK'
  BY <1>3, <1>8, <1>9, <1>11 DEF ClientPart, ClientOK
<1>13. QueueOK'
  <2> DEFINE P == pending'
  <2>1. P \in SUBSET pending
    BY <1>8 DEF Above
  <2> HIDE DEF P
  <2>2. P \subseteq Seqs /\ Cardinality(P) <= PendingCap
    BY <2>1, QueuePart DEF ClientPart
  <2> QED
    BY <2>2 DEF P, QueueOK
<1>14. Shown'
  <2>1. /\ read \in Nat /\ cursor.applied \in Nat /\ paged.shown \in Nat /\ paged.observed \in Nat
        /\ cursor.shown \in Nat /\ cursor.observed \in Nat /\ cursor'.observed \in Nat
    BY <1>1, <1>4, <1>9, SeqsFacts DEF Cursors
  <2>2. read <= Larger(paged.shown, paged.observed)
    <3>1. CASE news = {}
      BY <1>2, <1>3, <1>4, <3>1 DEF ClientPart, Held, Shown
    <3>2. CASE news # {}
      BY <1>4, <2>1, <3>2 DEF Larger
    <3> QED
      BY <3>1, <3>2
  <2>3. read <= Larger(cursor'.shown, cursor'.observed)
    BY <1>9, <2>1, <2>2 DEF Larger
  <2> QED
    BY <1>9, <2>3 DEF Shown
<1>15. WatermarkExact'
  BY <1>8, <1>9 DEF WatermarkExact
<1>16. NothingBeyondCursor'
  <2>1. \A s \in view : s \in Nat /\ s <= cursor.applied
    BY SeqsFacts DEF ClientPart, ClientOK, Held, NothingBeyondCursor
  <2>2. cursor.applied \in Nat /\ read \in Nat
    BY <1>1, SeqsFacts DEF Cursors
  <2>3. \A s \in view : s <= read
    BY <1>3, <2>1, <2>2
  <2> QED
    BY <1>3, <1>8, <1>9, <2>3 DEF NothingBeyondCursor
<1> QED
  BY <1>9, <1>11, <1>12, <1>13, <1>14, <1>15, <1>16 DEF ClientPart, Held

LEMMA PageStep == ClientPart /\ HandlePage => ClientPart'
<1> SUFFICES ASSUME ClientPart, HandlePage PROVE ClientPart'
  OBVIOUS
<1> DEFINE news == Unapplied(recovery)
           read == Max({cursor.applied} \cup news)
           paged == Paged(news, read)
           target == ResetTarget(KnownLatest(recovery))
<1>1. UNCHANGED hydrate
  BY DEF HandlePage
<1>2. /\ recovery.pc = "answered" /\ view' = view \cup news
      /\ \/ PageMore(paged, news, read)
         \/ PageStale
         \/ PageCaught(paged, Larger(read, AfterPage(recovery)))
         \/ PageEmpty
         \/ PageReset(target)
  BY PageCases
<1>3. cursor \in Cursors /\ recovery \in Recoveries
  BY DEF ClientPart, ClientOK
<1>4. read \in Seqs /\ news \subseteq recovery.answer.events
  BY <1>3, ReadFacts
<1>5. target \in Seqs
  BY <1>3, AfterPageType, ResetTargetType
<1>6. PageStale \/ PageEmpty \/ PageReset(target) => news = {}
  <2>1. PageEmpty \/ PageReset(target) => recovery.answer.events = {}
    BY OutcomeFacts DEF PageEmpty, PageReset, ClientPart, Planned, PageShape
  <2>2. PageStale => news = {}
    BY DEF PageStale, Unapplied
  <2> QED
    BY <1>4, <2>1, <2>2
<1> HIDE DEF target
<1>7. CASE PageMore(paged, news, read)
  BY <1>1, <1>2, <1>4, <1>7, PageMoreStep
<1>8. CASE PageStale
  BY <1>1, <1>2, <1>6, <1>8, PageStaleStep
<1>9. CASE PageCaught(paged, Larger(read, AfterPage(recovery)))
  BY <1>1, <1>2, <1>4, <1>9, PageCaughtStep
<1>10. CASE PageEmpty
  BY <1>1, <1>2, <1>6, <1>10, PageEmptyStep
<1>11. CASE PageReset(target)
  BY <1>1, <1>2, <1>5, <1>6, <1>11, PageResetStep
<1> QED
  BY <1>2, <1>7, <1>8, <1>9, <1>10, <1>11

-----------------------------------------------------------------------------
(* Snapshots. *)

LEMMA SnapshotShape ==
    ASSUME cursor \in Cursors, NEW seq \in Seqs, ApplySnapshot(seq)
    PROVE  /\ cursor' \in Cursors /\ cursor'.applied = seq
           /\ cursor'.observed = Larger(cursor.observed, seq) /\ cursor'.shown = seq
           /\ cursor'.inbound = Larger(cursor.inbound, seq)
           /\ pending' = {} /\ view' \subseteq Seqs /\ QueueOK' /\ Held'
<1>1. /\ cursor.observed \in Seqs /\ cursor.inbound \in Seqs
  BY DEF Cursors
<1>2. Larger(cursor.observed, seq) \in Seqs /\ Larger(cursor.inbound, seq) \in Seqs
  BY <1>1, LargerFacts
<1>3. /\ cursor' \in Cursors /\ cursor'.applied = seq /\ cursor'.queued = seq
      /\ cursor'.shown = seq /\ cursor'.observed = Larger(cursor.observed, seq)
      /\ cursor'.inbound = Larger(cursor.inbound, seq)
  BY <1>2 DEF ApplySnapshot, Cursors
<1>4. pending' = {} /\ view' = 1..seq
  BY DEF ApplySnapshot
<1>5. seq \in Nat
  BY SeqsFacts
<1>6. view' \subseteq Seqs
  BY <1>4, <1>5, SeqsFacts
<1>7. QueueOK'
  BY <1>4, NoneQueued DEF QueueOK
<1>8. Shown'
  <2>1. cursor'.observed \in Nat
    BY <1>3, SeqsFacts DEF Cursors
  <2> QED
    BY <1>3, <1>5, <2>1 DEF Shown, Larger
<1>9. WatermarkExact'
  BY <1>3, <1>4, NothingPending DEF WatermarkExact
<1>10. NothingBeyondCursor'
  BY <1>3, <1>4, <1>5 DEF NothingBeyondCursor
<1> QED
  BY <1>3, <1>4, <1>6, <1>7, <1>8, <1>9, <1>10 DEF Held

LEMMA StateStep == ClientPart /\ HandleState => ClientPart' /\ reset.active
<1> SUFFICES ASSUME ClientPart, HandleState PROVE ClientPart' /\ reset.active
  OBVIOUS
<1>1. reset.active /\ recovery.pc = "idle"
  BY DEF HandleState, ClientPart, Planned, ResetShape, WakeUpArmed
<1>2. /\ cursor \in Cursors /\ recovery \in Recoveries /\ reset \in Resets
      /\ reset.answer \in Seqs
  BY DEF ClientPart, ClientOK, Resets
<1>3. UNCHANGED hydrate
  BY DEF HandleState
<1>4. CASE /\ reset' = [reset EXCEPT !.pc = "idle", !.answer = 0, !.timer = TRUE]
           /\ UNCHANGED <<cursor, pending, view, recovery>>
  <2>1. reset' \in Resets /\ reset'.active = reset.active /\ reset'.timer
    BY <1>2, <1>4, SeqsFacts DEF Resets, Pcs
  <2> QED
    BY <1>1, <1>3, <1>4, <2>1, ResetRequestStep
<1>5. CASE /\ ApplySnapshot(reset.answer) /\ reset' = IdleReset
           /\ recovery' = Loop(Queue(recovery, cursor'.observed), cursor'.applied)
  <2>1. /\ cursor' \in Cursors /\ cursor'.applied = reset.answer
        /\ view' \subseteq Seqs /\ QueueOK' /\ Held'
    BY <1>2, <1>5, SnapshotShape
  <2>2. cursor'.observed \in Seqs
    BY <2>1 DEF Cursors
  <2> DEFINE q == Queue(recovery, cursor'.observed)
  <2>3. q \in Recoveries
    BY <1>2, <2>2, QueueShape
  <2>4. recovery' = Loop(q, reset.answer)
    BY <1>5, <2>1
  <2> HIDE DEF q
  <2>5. reset' \in Resets /\ ~reset'.active /\ ResetShape'
    BY <1>5, IdleTypes DEF IdleReset, ResetShape
  <2>6. recovery' \in Recoveries /\ Planned'
    BY <1>2, <2>1, <2>3, <2>4, <2>5, LoopKeeps
  <2>7. ClientOK'
    BY <1>3, <2>1, <2>5, <2>6 DEF ClientPart, ClientOK
  <2> QED
    BY <1>1, <2>1, <2>6, <2>7 DEF ClientPart
<1> QED
  BY <1>4, <1>5 DEF HandleState

\* A snapshot without a floor is never behind a client that is not being reset.
LEMMA HydrateAhead ==
    ASSUME ClientPart, hydrate.answer >= RequiredSeq, ~reset.active
    PROVE  cursor.applied <= hydrate.answer
<1>1. /\ cursor.applied \in Nat /\ cursor.shown \in Nat /\ cursor.observed \in Nat
      /\ hydrate.answer \in Nat
  BY SeqsFacts DEF ClientPart, ClientOK, Cursors, Hydrates
<1> QED
  BY <1>1 DEF ClientPart, Held, Shown, RequiredSeq, Larger

LEMMA HydrateStep ==
    ClientPart /\ HandleHydrate =>
        ClientPart' /\ (cursor.applied <= cursor'.applied \/ reset.active)
<1> SUFFICES ASSUME ClientPart, HandleHydrate
             PROVE  ClientPart' /\ (cursor.applied <= cursor'.applied \/ reset.active)
  OBVIOUS
<1>1. /\ cursor \in Cursors /\ recovery \in Recoveries /\ hydrate \in Hydrates
      /\ hydrate.answer \in Seqs /\ cursor.applied \in Nat
  BY SeqsFacts DEF ClientPart, ClientOK, Hydrates, Cursors
<1>2. UNCHANGED reset
  BY DEF HandleHydrate
<1>3. hydrate' \in Hydrates
  <2>1. Hydrated \in Hydrates
    BY SeqsFacts, BoundsAssumption DEF Hydrated, Hydrates
  <2>2. hydrate.retries < HydrateRetries =>
           [pc |-> "asked", answer |-> 0, retries |-> hydrate.retries + 1] \in Hydrates
    BY <1>1, SeqsFacts, BoundsAssumption DEF Hydrates
  <2> QED
    BY <2>1, <2>2 DEF HandleHydrate
<1>4. CASE UNCHANGED <<cursor, pending, view, recovery>>
  <2>1. QueueOK' /\ ClientOK'
    BY <1>2, <1>3, <1>4 DEF ClientPart, QueueOK, ClientOK
  <2>2. Held'
    BY <1>2, <1>4 DEF ClientPart, Held, Shown, WatermarkExact, NothingBeyondCursor
  <2>3. Planned'
    BY <1>2, <1>4 DEF ClientPart, Planned, ResetShape, PageApplied, PageShape, WakeUpArmed
  <2> QED
    BY <1>1, <1>4, <2>1, <2>2, <2>3 DEF ClientPart
<1>5. CASE /\ hydrate.answer >= RequiredSeq /\ ApplySnapshot(hydrate.answer)
           /\ recovery' = Stale(recovery)
  <2>1. /\ cursor' \in Cursors /\ cursor'.applied = hydrate.answer
        /\ view' \subseteq Seqs /\ QueueOK' /\ Held'
    BY <1>1, <1>5, SnapshotShape
  <2>2. cursor.applied <= cursor'.applied \/ reset.active
    BY <1>5, <2>1, HydrateAhead
  <2> DEFINE running == recovery.pc # "idle"
  <2>3. recovery' = [recovery EXCEPT !.stale = running]
    BY <1>5 DEF Stale
  <2>4. running \in BOOLEAN
    OBVIOUS
  <2> HIDE DEF running
  <2>5. /\ recovery' \in Recoveries /\ recovery'.pc = recovery.pc
        /\ recovery'.stale = running /\ recovery'.after = recovery.after
        /\ recovery'.answer = recovery.answer /\ recovery'.wanted = recovery.wanted
        /\ recovery'.poll = recovery.poll /\ recovery'.timer = recovery.timer
    BY <1>1, <2>3, <2>4 DEF Recoveries
  <2>6. PageApplied'
    BY <2>5 DEF PageApplied, running
  <2>7. ResetShape' /\ PageShape'
    BY <1>2, <2>5 DEF ClientPart, Planned, ResetShape, PageShape
  <2>8. WakeUpArmed'
    <3>1. recovery.wanted \in Nat /\ cursor'.applied \in Nat
      BY <1>1, <2>1, SeqsFacts DEF Recoveries
    <3>2. recovery'.wanted > cursor'.applied => recovery.wanted > cursor.applied \/ reset.active
      BY <1>1, <2>2, <2>5, <3>1
    <3> QED
      BY <1>2, <2>5, <3>2 DEF ClientPart, Planned, WakeUpArmed
  <2>9. ClientOK'
    BY <1>2, <1>3, <2>1, <2>5 DEF ClientPart, ClientOK
  <2> QED
    BY <2>1, <2>2, <2>6, <2>7, <2>8, <2>9 DEF ClientPart, Planned
<1>6. CASE /\ cursor' = [cursor EXCEPT !.shown = Larger(@, hydrate.answer)]
           /\ UNCHANGED <<pending, view, recovery>>
  <2> DEFINE shown == Larger(cursor.shown, hydrate.answer)
  <2>1. shown \in Seqs /\ shown >= cursor.shown /\ cursor.shown \in Seqs
    BY <1>1, LargerFacts DEF Cursors
  <2>2. cursor' = [cursor EXCEPT !.shown = shown]
    BY <1>6
  <2> HIDE DEF shown
  <2>3. /\ cursor' \in Cursors /\ cursor'.shown = shown
        /\ cursor'.applied = cursor.applied /\ cursor'.queued = cursor.queued
        /\ cursor'.observed = cursor.observed
    BY <1>1, <2>1, <2>2 DEF Cursors
  <2>4. QueueOK' /\ ClientOK'
    BY <1>2, <1>3, <1>6, <2>3 DEF ClientPart, QueueOK, ClientOK
  <2>5. Shown'
    <3>1. /\ cursor.applied \in Nat /\ cursor.shown \in Nat /\ shown \in Nat
          /\ cursor.observed \in Nat
      BY <1>1, <2>1, SeqsFacts DEF Cursors
    <3> QED
      BY <1>2, <2>1, <2>3, <3>1 DEF ClientPart, Held, Shown, Larger
  <2>6. WatermarkExact' /\ NothingBeyondCursor'
    BY <1>2, <1>6, <2>3 DEF ClientPart, Held, WatermarkExact, NothingBeyondCursor
  <2>7. Planned'
    BY <1>2, <1>6, <2>3 DEF ClientPart, Planned, ResetShape, PageApplied, PageShape, WakeUpArmed
  <2>8. cursor.applied <= cursor'.applied
    BY <1>1, <2>3
  <2> QED
    BY <2>4, <2>5, <2>6, <2>7, <2>8 DEF ClientPart, Held
<1> QED
  BY <1>4, <1>5, <1>6 DEF HandleHydrate

-----------------------------------------------------------------------------
(* ClientInv is an invariant. *)

LEMMA InitClientInv == Init => ClientInv
<1> SUFFICES ASSUME Init PROVE ClientInv
  OBVIOUS
<1>1. FirstSeq \in Seqs /\ FirstSeq \in Nat /\ 0 \in Seqs /\ 1..FirstSeq \subseteq Seqs
  BY SeqsFacts, BoundsAssumption
<1>2. ServerOK
  BY <1>1 DEF Init, ServerOK
<1>3. NetOK
  BY <1>1 DEF Init, NetOK
<1>4. QueueOK
  BY NoneQueued DEF Init, QueueOK
<1>5. /\ cursor = [applied |-> FirstSeq, queued |-> FirstSeq, shown |-> FirstSeq,
                   observed |-> FirstSeq, inbound |-> FirstSeq]
      /\ pending = {} /\ recovery = IdleRecovery /\ reset = IdleReset
      /\ hydrate = [pc |-> "deferred", answer |-> 0, retries |-> 0]
      /\ view = 1..FirstSeq
  BY DEF Init
<1>6. cursor \in Cursors /\ hydrate \in Hydrates
  BY <1>1, <1>5, BoundsAssumption DEF Cursors, Hydrates
<1>7. ClientOK
  BY <1>1, <1>5, <1>6, IdleTypes DEF ClientOK
<1>8. Planned
  BY <1>1, <1>5 DEF Planned, ResetShape, PageApplied, PageShape, WakeUpArmed, IdleRecovery,
                    IdleReset, NoPage
<1>9. Held
  <2>1. cursor.queued = Max({cursor.applied} \cup pending)
    BY <1>1, <1>5, NothingPending
  <2>2. \A s \in view : s <= cursor.applied
    BY <1>1, <1>5
  <2>3. cursor.applied <= Larger(cursor.shown, cursor.observed)
    BY <1>1, <1>5 DEF Larger
  <2> QED
    BY <2>1, <2>2, <2>3 DEF Held, Shown, WatermarkExact, NothingBeyondCursor
<1> QED
  BY <1>2, <1>3, <1>4, <1>7, <1>8, <1>9 DEF ClientInv

\* The steps of the server and of the network leave the client alone.
ServerStepOnly ==
    \/ Publish \/ Announce \/ FanOut \/ Connect \/ ReadHello \/ SendHello \/ Pong \/ Drop
    \/ RefreshSnapshot \/ Prune \/ Restore \/ HandleClose

LEMMA NextClientPart == ClientPart /\ ServerOK /\ NetOK /\ Next => ClientPart'
<1> SUFFICES ASSUME ClientPart, ServerOK, NetOK, Next PROVE ClientPart'
  OBVIOUS
<1>1. CASE ServerStepOnly
  <2>1. UNCHANGED clientVars
    BY <1>1 DEF ServerStepOnly, Publish, Announce, FanOut, Connect, ReadHello, SendHello, Pong,
                Drop, RefreshSnapshot, Prune, Restore, HandleClose
  <2> QED
    BY <2>1, ClientFrame
<1>2. CASE Poll \/ Resume
  BY <1>2, PollStep
<1>3. CASE RecoveryTimer
  BY <1>3, RecoveryTimerStep
<1>4. CASE HandleHello
  BY <1>4, HelloStep
<1>5. CASE HandlePong
  BY <1>5, PongStep
<1>6. CASE HandleEvent
  BY <1>6, EventStep
<1>7. CASE Flush
  BY <1>7, FlushStep
<1>8. CASE ServeBounds \/ ServePage \/ FailPage
  BY <1>8, ServeBoundsStep, ServePageStep, FailPageStep
<1>9. CASE ServeState \/ FailState \/ ResetTimer
  BY <1>9, ResetRequestsStep
<1>10. CASE Hydrate \/ ServeHydrate
  BY <1>10, HydrateRequestsStep
<1>11. CASE HandlePage
  BY <1>11, PageStep
<1>12. CASE HandleState
  BY <1>12, StateStep
<1>13. CASE HandleHydrate
  BY <1>13, HydrateStep
<1> QED
  BY <1>1, <1>2, <1>3, <1>4, <1>5, <1>6, <1>7, <1>8, <1>9, <1>10, <1>11, <1>12, <1>13
     DEF Next, Environment, Deliver, ServerStepOnly

LEMMA NextServerNet == ServerOK /\ NetOK /\ Next => ServerOK' /\ NetOK'
<1> SUFFICES ASSUME ServerOK, NetOK, Next PROVE ServerOK' /\ NetOK'
  OBVIOUS
<1>1. \/ Publish \/ Announce \/ FanOut \/ RefreshSnapshot \/ Prune \/ Restore
      \/ UNCHANGED serverVars
  BY DEF Next, Environment, Deliver, Pong, Drop, FailPage, FailState, Resume, Connect,
         ReadHello, SendHello, ServeBounds, ServePage, ServeState, ServeHydrate, HandleHello,
         HandleEvent, HandlePong, HandleClose, Flush, HandlePage, RecoveryTimer, Poll,
         HandleState, ResetTimer, Hydrate, HandleHydrate
<1>2. \/ FanOut \/ Connect \/ ReadHello \/ SendHello \/ Pong \/ Drop \/ Restore
      \/ HandleHello \/ HandlePong \/ HandleEvent \/ HandleClose
      \/ UNCHANGED netVars
  BY DEF Next, Environment, Deliver, Publish, Announce, RefreshSnapshot, Prune, FailPage,
         FailState, Resume, ServeBounds, ServePage, ServeState, ServeHydrate, Flush,
         HandlePage, RecoveryTimer, Poll, HandleState, ResetTimer, Hydrate, HandleHydrate
<1>3. ServerOK'
  BY <1>1, ServerStep
<1>4. NetOK'
  BY <1>2, NetStep
<1> QED
  BY <1>3, <1>4

LEMMA NextClientInv == ClientInv /\ [Next]_vars => ClientInv'
<1> SUFFICES ASSUME ClientInv, [Next]_vars PROVE ClientInv'
  OBVIOUS
<1>1. ClientPart /\ ServerOK /\ NetOK
  BY DEF ClientInv, ClientPart
<1>2. CASE Next
  BY <1>1, <1>2, NextClientPart, NextServerNet DEF ClientInv, ClientPart
<1>3. CASE UNCHANGED vars
  <2>1. UNCHANGED serverVars /\ UNCHANGED netVars /\ UNCHANGED clientVars
    BY <1>3 DEF vars
  <2> QED
    BY <1>1, <2>1, ClientFrame, ServerStep, NetStep DEF ClientInv, ClientPart
<1> QED
  BY <1>2, <1>3

\* The browser's live cursor keeps its invariant whatever the server, the
\* network and the database do (App.tsx's refs and its two request loops).
THEOREM ClientInvHolds == Spec => []ClientInv
<1>1. Init => ClientInv
  BY InitClientInv
<1>2. ClientInv /\ [Next]_vars => ClientInv'
  BY NextClientInv
<1> QED
  BY <1>1, <1>2, PTL DEF Spec

\* Every wanted recovery and every reset keeps a wake-up (recover's finally, the
\* retry timers and refreshState).
THEOREM WakeUpsArmed == Spec => []WakeUpArmed
<1>1. ClientInv => WakeUpArmed
  BY DEF ClientInv, Planned
<1> QED
  BY <1>1, ClientInvHolds, PTL

\* The display shows nothing beyond the durable cursor (applyPage,
\* takeIncreasingLiveEnvelopes and applyPublicSnapshot).
THEOREM ShownIsApplied == Spec => []NothingBeyondCursor
<1>1. ClientInv => NothingBeyondCursor
  BY DEF ClientInv, Held
<1> QED
  BY <1>1, ClientInvHolds, PTL

LEMMA ClientTypes == ClientInv => TypeOK
<1> SUFFICES ASSUME ClientInv PROVE TypeOK
  OBVIOUS
<1>1. ServerOK /\ NetOK /\ QueueOK /\ ClientOK
  BY DEF ClientInv
<1>2. {latest, announced, fanned, oldest - 1, snapshot, hello} \subseteq Seqs
  BY <1>1 DEF ServerOK, NetOK
<1>3. \A i \in DOMAIN channel : channel[i] \in Messages
  BY <1>1 DEF NetOK
<1>4. /\ sock \in {"down", "registered", "greeting", "open", "closing"}
      /\ pending \subseteq Seqs /\ Cardinality(pending) <= PendingCap
  BY <1>1 DEF NetOK, QueueOK
<1> QED
  BY <1>1, <1>2, <1>3, <1>4
     DEF TypeOK, ClientOK, Messages, Cursors, Recoveries, Pages, Resets, Hydrates

\* The duplicate watermark is the last event applied or waiting, and every ref
\* has its type (lastQueuedEventSeqRef against pendingMessagesRef).
THEOREM WatermarkHolds == Spec => []QueueWatermark
<1>1. ClientInv => QueueWatermark
  BY ClientTypes DEF ClientInv, Held, WatermarkExact, QueueWatermark
<1> QED
  BY <1>1, ClientInvHolds, PTL

\* A page and a frame only move the cursor up.
LEMMA PageMovesUp ==
    ASSUME ClientPart, HandlePage
    PROVE  cursor.applied <= cursor'.applied
<1> DEFINE news == Unapplied(recovery)
           read == Max({cursor.applied} \cup news)
           paged == Paged(news, read)
<1>1. UNCHANGED hydrate
  BY DEF HandlePage
<1>2. /\ recovery.pc = "answered" /\ view' = view \cup news
      /\ \/ PageMore(paged, news, read)
         \/ PageStale
         \/ PageCaught(paged, Larger(read, AfterPage(recovery)))
         \/ PageEmpty
         \/ PageReset(ResetTarget(KnownLatest(recovery)))
  BY PageCases
<1>3. /\ cursor \in Cursors /\ recovery \in Recoveries /\ pending \in SUBSET Seqs
      /\ ~reset.active /\ cursor.applied \in Nat
  BY <1>2, SeqsFacts DEF ClientPart, ClientOK, QueueOK, Planned, WakeUpArmed, Cursors
<1>4. /\ read \in Seqs /\ cursor.applied <= read /\ (news = {} => read = cursor.applied)
  BY <1>3, ReadFacts
<1>5. CASE PageMore(paged, news, read)
  <2>1. cursor' = paged
    BY <1>5 DEF PageMore
  <2>2. paged.applied = read
    <3> HIDE DEF news, read
    <3>1. PagedOK(paged, news, read)
      BY <1>3, <1>4, PagedShape
    <3> QED
      BY <3>1 DEF PagedOK
  <2> HIDE DEF paged, read
  <2> QED
    BY <1>4, <2>1, <2>2
<1>6. CASE PageCaught(paged, Larger(read, AfterPage(recovery)))
  <2>1. cursor'.applied = read
    BY <1>1, <1>2, <1>4, <1>6, PageCaughtStep
  <2> QED
    BY <1>4, <2>1
<1>7. CASE PageStale \/ PageEmpty \/ PageReset(ResetTarget(KnownLatest(recovery)))
  <2>1. cursor'.applied = cursor.applied
    BY <1>3, <1>7 DEF PageStale, PageEmpty, PageReset, Cursors
  <2> QED
    BY <1>3, <2>1
<1> QED
  BY <1>2, <1>5, <1>6, <1>7

LEMMA StepCursor ==
    ClientPart /\ NetOK /\ Next => cursor.applied <= cursor'.applied \/ reset.active
<1> SUFFICES ASSUME ClientPart, NetOK, Next, ~reset.active
             PROVE  cursor.applied <= cursor'.applied
  OBVIOUS
<1>1. cursor \in Cursors /\ cursor.applied \in Nat
  BY SeqsFacts DEF ClientPart, ClientOK, Cursors
<1>2. CASE UNCHANGED cursor
  BY <1>1, <1>2
<1>3. CASE HandleHello \/ HandlePong
  <2> DEFINE seq == Inbound.seq
  <2>1. seq \in Seqs /\ cursor.inbound \in Seqs
    BY <1>1, <1>3, Delivers DEF HandleHello, HandlePong, Cursors
  <2> HIDE DEF seq
  <2>2. Render(cursor, seq) \in Cursors /\ Render(cursor, seq).applied = cursor.applied
    BY <1>1, <2>1, RenderShape
  <2>3. cursor'.applied = Render(cursor, seq).applied
    BY <1>3, <2>2 DEF HandleHello, HandlePong, seq, Cursors
  <2> QED
    BY <1>1, <2>2, <2>3
<1>4. CASE HandleEvent
  <2>1. cursor'.applied = cursor.applied
    BY <1>4, EventCases DEF EventDuringReset, EventKnown, EventQueued, EventOverflows, Cursors
  <2> QED
    BY <1>1, <2>1
<1>5. CASE Flush
  <2>1. PICK due \in SUBSET pending, applied \in Seqs : Flushed(due, applied)
    BY <1>5, FlushShape
  <2>2. cursor'.applied = applied
    BY <1>1, <2>1, FlushCursor
  <2> QED
    BY <2>1, <2>2 DEF Flushed
<1>6. CASE HandlePage
  BY <1>6, PageMovesUp
<1>7. CASE HandleState
  BY <1>7, StateStep
<1>8. CASE HandleHydrate
  BY <1>8, HydrateStep
<1> QED
  BY <1>2, <1>3, <1>4, <1>5, <1>6, <1>7, <1>8
     DEF Next, Environment, Deliver, Publish, Announce, FanOut, Connect, ReadHello, SendHello,
         Pong, Drop, RefreshSnapshot, Prune, Restore, FailPage, FailState, Resume, ServeBounds,
         ServePage, ServeState, ServeHydrate, HandleClose, RecoveryTimer, Poll, ResetTimer,
         Hydrate, clientVars

\* The cursor moves back only while a declared reset is in force
\* (applyPublicSnapshot's floor, and the deferred full state against it).
THEOREM CursorBackByReset == Spec => CursorOnlyBackByReset
<1>1. ClientInv /\ [Next]_vars => [cursor'.applied < cursor.applied => reset.active]_vars
  <2> SUFFICES ASSUME ClientInv, Next, cursor'.applied < cursor.applied
               PROVE  reset.active
    OBVIOUS
  <2>1. ClientPart /\ NetOK
    BY DEF ClientInv, ClientPart
  <2>2. cursor.applied \in Nat /\ cursor'.applied \in Nat
    <3>1. ClientInv'
      BY NextClientInv
    <3> QED
      BY <3>1, SeqsFacts DEF ClientInv, ClientOK, Cursors
  <2>3. cursor.applied <= cursor'.applied \/ reset.active
    BY <2>1, StepCursor
  <2> QED
    BY <2>2, <2>3
<1> QED
  BY <1>1, ClientInvHolds, PTL DEF Spec, CursorOnlyBackByReset


-----------------------------------------------------------------------------
(* The epoch: what the log and the wire hold. *)

LEMMA AppendChannel ==
    ASSUME NEW chan \in Seq(Messages), NEW m \in Messages
    PROVE  /\ \A top \in Seqs : Within(chan, top) /\ m.seq <= top => Within(Append(chan, m), top)
           /\ \A s \in Seqs : Carries(chan, s) => Carries(Append(chan, m), s)
           /\ \A s \in Seqs : m.type \in {"event", "hello"} /\ s <= m.seq
                                => Carries(Append(chan, m), s)
<1> DEFINE longer == Append(chan, m)
<1>1. /\ DOMAIN longer = 1..(Len(chan) + 1) /\ DOMAIN chan = 1..Len(chan) /\ Len(chan) \in Nat
      /\ \A i \in 1..Len(chan) : longer[i] = chan[i]
      /\ longer[Len(chan) + 1] = m
  OBVIOUS
<1>2. /\ \A i \in 1..Len(chan) : i \in 1..(Len(chan) + 1)
      /\ Len(chan) + 1 \in 1..(Len(chan) + 1)
      /\ \A i \in 1..(Len(chan) + 1) : i \in 1..Len(chan) \/ i = Len(chan) + 1
  BY <1>1
<1> HIDE DEF longer
<1>3. ASSUME NEW top \in Seqs, Within(chan, top), m.seq <= top
      PROVE  Within(longer, top)
  BY <1>1, <1>2, <1>3 DEF Within
<1>4. ASSUME NEW s \in Seqs, Carries(chan, s)
      PROVE  Carries(longer, s)
  BY <1>1, <1>2, <1>4 DEF Carries
<1>5. ASSUME NEW s \in Seqs, m.type \in {"event", "hello"}, s <= m.seq
      PROVE  Carries(longer, s)
  <2>1. m.seq >= s
    BY <1>5, SeqsFacts DEF Messages
  <2> QED BY <1>1, <1>2, <1>5, <2>1 DEF Carries
<1> QED BY <1>3, <1>4, <1>5 DEF longer

LEMMA TailChannel ==
    ASSUME NEW chan \in Seq(Messages), chan # <<>>
    PROVE  /\ \A top \in Seqs : Within(chan, top) => Within(Tail(chan), top) /\ Head(chan).seq <= top
           /\ \A s \in Seqs : Carries(chan, s) =>
                 \/ Carries(Tail(chan), s)
                 \/ Head(chan).type \in {"event", "hello"} /\ Head(chan).seq >= s
<1> DEFINE rest == Tail(chan)
           first == Head(chan)
<1>1. /\ DOMAIN rest = 1..(Len(chan) - 1) /\ DOMAIN chan = 1..Len(chan) /\ Len(chan) \in Nat \ {0}
      /\ \A i \in 1..(Len(chan) - 1) : rest[i] = chan[i + 1]
      /\ first = chan[1]
  OBVIOUS
<1>2. /\ 1 \in 1..Len(chan)
      /\ \A i \in 1..(Len(chan) - 1) : i + 1 \in 1..Len(chan)
      /\ \A i \in 1..Len(chan) : i = 1 \/ (i - 1 \in 1..(Len(chan) - 1) /\ (i - 1) + 1 = i)
  BY <1>1
<1> HIDE DEF rest, first
<1>3. ASSUME NEW top \in Seqs, Within(chan, top)
      PROVE  Within(rest, top) /\ first.seq <= top
  BY <1>1, <1>2, <1>3 DEF Within
<1>4. ASSUME NEW s \in Seqs, Carries(chan, s)
      PROVE  Carries(rest, s) \/ (first.type \in {"event", "hello"} /\ first.seq >= s)
  <2>1. PICK i \in 1..Len(chan) : chan[i].type \in {"event", "hello"} /\ chan[i].seq >= s
    BY <1>1, <1>4 DEF Carries
  <2>2. CASE i = 1
    BY <2>1, <2>2, <1>1
  <2>3. CASE i # 1
    <3>1. rest[i - 1] = chan[i] /\ i - 1 \in DOMAIN rest
      BY <2>3, <1>1, <1>2
    <3> QED BY <2>1, <3>1 DEF Carries
  <2> QED BY <2>2, <2>3
<1> QED BY <1>3, <1>4 DEF rest, first

LEMMA PrefixWithin ==
    ASSUME NEW chan \in Seq(Messages), NEW k \in 0..Len(chan), NEW top \in Seqs, Within(chan, top)
    PROVE  Within(SubSeq(chan, 1, k), top)
<1>1. DOMAIN SubSeq(chan, 1, k) = 1..k /\ \A i \in 1..k : SubSeq(chan, 1, k)[i] = chan[i]
  OBVIOUS
<1>2. \A i \in 1..k : i \in DOMAIN chan
  OBVIOUS
<1> QED BY <1>1, <1>2 DEF Within

LEMMA Widens ==
    ASSUME NEW chan \in Seq(Messages), NEW low \in Seqs, NEW top \in Seqs, low <= top,
           Within(chan, low)
    PROVE  Within(chan, top)
<1>1. \A i \in DOMAIN chan : chan[i] \in Messages
  OBVIOUS
<1>2. \A i \in DOMAIN chan : chan[i].seq \in Nat
  BY <1>1, SeqsFacts DEF Messages
<1> QED BY <1>2, SeqsFacts DEF Within

\* No event is pruned and the log is not replaced.
LEMMA NoPruneOrRestore ==
    ASSUME OneEpoch, faults \in Faults
    PROVE  ~Prune /\ ~Restore
BY DEF OneEpoch, Faults, Prune, Restore, Fault

LEMMA FaultsStep ==
    ASSUME OneEpoch, faults \in Faults, Next
    PROVE  faults' \in Faults
<1>1. CASE Pong
  BY <1>1 DEF Pong, Fault, Faults
<1>2. CASE Drop
  BY <1>2 DEF Drop, Fault, Faults
<1>3. CASE FailPage
  BY <1>3 DEF FailPage, Fault, Faults
<1>4. CASE FailState
  BY <1>4 DEF FailState, Fault, Faults
<1>5. CASE \/ Publish \/ Announce \/ FanOut \/ Connect \/ ReadHello \/ SendHello \/ RefreshSnapshot
           \/ ServeBounds \/ ServePage \/ ServeState \/ ServeHydrate
  BY <1>5 DEF Publish, Announce, FanOut, Connect, ReadHello, SendHello, RefreshSnapshot,
              ServeBounds, ServePage, ServeState, ServeHydrate
<1>6. CASE \/ HandleHello \/ HandleEvent \/ HandlePong \/ HandleClose \/ Flush \/ HandlePage
           \/ RecoveryTimer \/ Poll \/ Resume
  BY <1>6 DEF HandleHello, HandleEvent, HandlePong, HandleClose, Flush, HandlePage,
              RecoveryTimer, Poll, Resume
<1>7. CASE HandleState \/ ResetTimer \/ Hydrate \/ HandleHydrate
  BY <1>7 DEF HandleState, ResetTimer, Hydrate, HandleHydrate
<1> QED
  BY <1>1, <1>2, <1>3, <1>4, <1>5, <1>6, <1>7, NoPruneOrRestore DEF Next, Environment, Deliver

\* The steps that leave the server, or the server and the wire, alone.
ServerSilent ==
    \/ Connect \/ ReadHello \/ SendHello \/ Pong \/ Drop
    \/ HandleHello \/ HandleEvent \/ HandlePong \/ HandleClose
WireSilent ==
    \/ FailPage \/ FailState \/ Resume \/ ServeBounds \/ ServePage \/ ServeState \/ ServeHydrate
    \/ Flush \/ HandlePage \/ RecoveryTimer \/ Poll \/ HandleState \/ ResetTimer \/ Hydrate
    \/ HandleHydrate

LEMMA Silent ==
    /\ ServerSilent => UNCHANGED serverVars
    /\ WireSilent => UNCHANGED serverVars /\ UNCHANGED netVars
<1>1. ASSUME ServerSilent PROVE UNCHANGED serverVars
  BY <1>1 DEF ServerSilent, Connect, ReadHello, SendHello, Pong, Drop, HandleHello, HandleEvent,
              HandlePong, HandleClose
<1>2. CASE \/ FailPage \/ FailState \/ Resume \/ ServeBounds \/ ServePage \/ ServeState
           \/ ServeHydrate \/ Flush
  BY <1>2 DEF FailPage, FailState, Resume, ServeBounds, ServePage, ServeState, ServeHydrate, Flush
<1>3. CASE \/ HandlePage \/ RecoveryTimer \/ Poll \/ HandleState \/ ResetTimer \/ Hydrate
           \/ HandleHydrate
  BY <1>3 DEF HandlePage, RecoveryTimer, Poll, HandleState, ResetTimer, Hydrate, HandleHydrate
<1> QED BY <1>1, <1>2, <1>3 DEF WireSilent

LEMMA LogWholeStep ==
    ASSUME OneEpoch, ServerOK, NetOK, LogWhole, Next
    PROVE  LogWhole'
<1>1. faults' \in Faults /\ ~Prune /\ ~Restore
  BY FaultsStep, NoPruneOrRestore DEF LogWhole
<1>2. announced \in Seqs /\ announced \in Nat /\ latest \in Nat /\ snapshot \in Nat /\ FirstSeq \in Nat
      /\ hello \in Nat /\ hello \in Seqs /\ announced <= latest /\ channel \in Seq(Messages)
  BY SeqsFacts DEF ServerOK, NetOK
<1>3. CASE UNCHANGED <<netVars, oldest, announced>> /\ latest' \in {latest, latest + 1}
           /\ snapshot' \in {snapshot, latest}
  BY <1>1, <1>2, <1>3 DEF LogWhole, netVars
<1>4. CASE Announce
  <2>1. announced' = announced + 1 /\ announced' <= latest
    BY <1>2, <1>4 DEF Announce
  <2>2. announced' \in Seqs
    BY <1>2, <2>1, SeqsFacts DEF ServerOK
  <2>3. UNCHANGED <<latest, oldest, snapshot, sock, hello, channel>>
    BY <1>4 DEF Announce, netVars
  <2>4. Within(channel', announced')
    BY <1>2, <2>1, <2>2, <2>3, Widens DEF LogWhole
  <2> QED BY <1>1, <1>2, <2>1, <2>3, <2>4 DEF LogWhole
<1>5. ASSUME UNCHANGED <<latest, announced, oldest, snapshot>>,
             Within(channel', announced), sock' = "greeting" => hello' <= announced
      PROVE  LogWhole'
  BY <1>1, <1>5 DEF LogWhole
<1>6. ASSUME NEW type \in {"hello", "event", "pong", "close"}, NEW seq \in Seqs, seq <= announced,
             channel' = Append(channel, Message(type, seq))
      PROVE  Within(channel', announced)
  <2>1. Message(type, seq) \in Messages /\ Message(type, seq).seq = seq
    BY MessageType DEF Message
  <2> QED BY <1>2, <1>6, <2>1, AppendChannel DEF LogWhole
<1>7. CASE FanOut
  <2>1. UNCHANGED <<latest, announced, oldest, snapshot, sock, hello>>
    BY <1>7 DEF FanOut
  <2>2. channel' = channel \/ channel' = Append(channel, Message("event", announced))
    BY <1>7 DEF FanOut
  <2>3. Within(channel', announced)
    BY <1>2, <1>6, <2>2 DEF LogWhole
  <2> QED BY <1>5, <2>1, <2>3 DEF LogWhole
<1>8. CASE ServerSilent
  <2>1. UNCHANGED <<latest, announced, oldest, snapshot>>
    BY <1>8, Silent DEF serverVars
  <2>2. CASE Connect
    BY <1>5, <2>1, <2>2 DEF Connect, LogWhole
  <2>3. CASE ReadHello
    <3>1. announced > 0
      BY <1>2 DEF LogWhole, OneEpoch
    <3> QED BY <1>2, <1>5, <2>1, <2>3, <3>1 DEF ReadHello, LogWhole
  <2>4. CASE SendHello
    <3>1. hello <= announced /\ sock' = "open" /\ channel' = Append(channel, Message("hello", hello))
      BY <2>4 DEF SendHello, LogWhole
    <3> QED BY <1>2, <1>5, <1>6, <2>1, <3>1
  <2>5. CASE Pong
    <3>1. sock' = sock /\ sock = "open" /\ channel' = Append(channel, Message("pong", announced))
      BY <2>5 DEF Pong
    <3> QED BY <1>2, <1>5, <1>6, <2>1, <3>1
  <2>6. CASE Drop
    <3>1. PICK k \in 0..Len(channel) : channel' = Append(SubSeq(channel, 1, k), Message("close", 0))
      BY <2>6 DEF Drop, BreakSocket
    <3>2. SubSeq(channel, 1, k) \in Seq(Messages) /\ Within(SubSeq(channel, 1, k), announced)
      BY <1>2, PrefixType, PrefixWithin DEF LogWhole
    <3>3. Message("close", 0) \in Messages /\ Message("close", 0).seq <= announced
      BY <1>2, MessageType, SeqsFacts DEF Message
    <3>4. Within(channel', announced)
      BY <1>2, <3>1, <3>2, <3>3, AppendChannel
    <3>5. sock' = "closing"
      BY <2>6 DEF Drop, BreakSocket
    <3> QED BY <1>5, <2>1, <3>4, <3>5
  <2>7. CASE HandleHello \/ HandleEvent \/ HandlePong \/ HandleClose
    <3>1. channel # <<>> /\ channel' = Tail(channel)
      BY <2>7 DEF HandleHello, HandleEvent, HandlePong, HandleClose
    <3>2. Within(channel', announced)
      BY <1>2, <3>1, TailChannel DEF LogWhole
    <3>3. UNCHANGED hello /\ (sock' = sock \/ sock' = "down")
      BY <2>7 DEF HandleHello, HandleEvent, HandlePong, HandleClose
    <3> QED BY <1>5, <2>1, <3>2, <3>3 DEF LogWhole
  <2> QED BY <1>8, <2>2, <2>3, <2>4, <2>5, <2>6, <2>7 DEF ServerSilent
<1>9. CASE WireSilent
  <2>1. UNCHANGED <<latest, announced, oldest, snapshot, sock, hello, channel>>
    BY <1>9, Silent DEF serverVars, netVars
  <2> QED BY <1>5, <2>1 DEF LogWhole
<1>10. CASE Publish \/ RefreshSnapshot
  BY <1>3, <1>10 DEF Publish, RefreshSnapshot
<1> QED
  BY <1>1, <1>4, <1>7, <1>8, <1>9, <1>10 DEF Next, Environment, Deliver, ServerSilent, WireSilent

-----------------------------------------------------------------------------
(* The epoch: what the recovery asks for. *)

LEMMA LoopAsks ==
    ASSUME NEW rec \in Recoveries, NEW applied \in Seqs, NEW out, Looped(out, rec, applied),
           NEW s \in Seqs, applied < s, s <= rec.wanted
    PROVE  Asks(out, s)
<1>1. rec.wanted \in Nat /\ applied \in Nat /\ s \in Nat
  BY SeqsFacts DEF Recoveries
<1> QED BY <1>1 DEF Looped, Asks

LEMMA BackfillAsks ==
    ASSUME NEW rec \in Recoveries, NEW target \in Seqs, NEW applied \in Seqs, NEW out,
           Backfilled(out, rec, target, applied), ~reset.active,
           NEW s \in Seqs, applied < s, Asks(rec, s) \/ s <= target
    PROVE  Asks(out, s)
<1>1. /\ rec.wanted \in Nat /\ applied \in Nat /\ s \in Nat /\ target \in Nat
      /\ out \in Recoveries /\ out.wanted \in Nat
  BY SeqsFacts DEF Recoveries, Backfilled
<1>2. CASE rec.pc # "idle"
  <2>1. SameRequest(out, rec) /\ out.wanted >= rec.wanted /\ out.wanted >= target
    BY <1>2 DEF Backfilled
  <2> QED BY <1>1, <1>2, <2>1 DEF Asks, SameRequest
<1>3. CASE rec.pc = "idle"
  <2>1. PICK queued \in Recoveries :
           Looped(out, queued, applied) /\ queued.wanted >= rec.wanted /\ queued.wanted >= target
    BY <1>3 DEF Backfilled
  <2>2. queued.wanted \in Nat
    BY SeqsFacts DEF Recoveries
  <2>3. s <= queued.wanted
    BY <1>1, <1>3, <2>1, <2>2 DEF Asks
  <2> QED BY <2>1, <2>3, LoopAsks
<1> QED BY <1>2, <1>3

LEMMA LoopInLog ==
    ASSUME NEW rec \in Recoveries, NEW applied \in Seqs, NEW out, Looped(out, rec, applied),
           NEW top \in Seqs, FirstSeq <= applied, applied <= top, rec.wanted <= top
    PROVE  InLog(out, top)
<1>1. rec.wanted \in Seqs /\ rec.wanted \in Nat /\ applied \in Nat /\ top \in Nat
  BY SeqsFacts DEF Recoveries
<1>2. LET far == Larger(applied, rec.wanted)
      IN  far \in Nat /\ far >= rec.wanted /\ far <= top
  BY <1>1, LargerFacts, SeqsFacts
<1>3. ~out.answer.reset /\ out.answer.latestSeq = 0 /\ out.answer.events = {}
  BY DEF Looped, NoPage
<1>4. out.wanted \in Nat
  BY SeqsFacts DEF Looped, Recoveries
<1>5. CASE out.pc = "idle"
  BY <1>1, <1>3, <1>4, <1>5 DEF Looped, InLog
<1>6. CASE out.pc # "idle"
  <2>1. /\ out.pc = "asked" /\ out.wanted = 0 /\ out.after = applied /\ out.target = rec.wanted
        /\ out.latestSeq = Larger(applied, rec.wanted)
    BY <1>6 DEF Looped
  <2> QED BY <1>1, <1>2, <1>3, <2>1 DEF InLog
<1> QED BY <1>5, <1>6

LEMMA SameInLog ==
    ASSUME NEW rec \in Recoveries, NEW out \in Recoveries, SameRequest(out, rec),
           NEW top \in Seqs, InLog(rec, top), out.wanted <= top
    PROVE  InLog(out, top)
BY DEF SameRequest, InLog

LEMMA BackfillInLog ==
    ASSUME NEW rec \in Recoveries, NEW target \in Seqs, NEW applied \in Seqs, NEW out,
           Backfilled(out, rec, target, applied),
           NEW top \in Seqs, InLog(rec, top), target <= top, FirstSeq <= applied, applied <= top
    PROVE  InLog(out, top)
<1>1. rec.wanted <= top
  BY DEF InLog
<1>2. CASE rec.pc # "idle" \/ reset.active
  <2>1. out \in Recoveries /\ SameRequest(out, rec) /\ out.wanted \in {rec.wanted, target}
    BY <1>2 DEF Backfilled
  <2> QED BY <1>1, <2>1, SameInLog
<1>3. CASE rec.pc = "idle" /\ ~reset.active
  <2>1. PICK queued \in Recoveries :
           Looped(out, queued, applied) /\ queued.wanted \in {rec.wanted, target}
    BY <1>3 DEF Backfilled
  <2> QED BY <1>1, <2>1, LoopInLog
<1> QED BY <1>2, <1>3

LEMMA GrowsInLog ==
    ASSUME NEW rec \in Recoveries, NEW low \in Seqs, NEW top \in Seqs, low <= top, InLog(rec, low)
    PROVE  InLog(rec, top)
<1>1. /\ rec.wanted \in Nat /\ rec.after \in Nat /\ rec.latestSeq \in Nat
      /\ rec.answer.latestSeq \in Nat /\ rec.answer.events \subseteq Nat
  BY SeqsFacts DEF Recoveries, Pages
<1> QED BY <1>1, SeqsFacts DEF InLog

-----------------------------------------------------------------------------
(* The epoch: a step of the client. *)

ClientEpoch == CursorInLog /\ RecoveryInLog /\ NeverReset

LEMMA StillCovered ==
    ASSUME NothingForgotten, ClientOK, ClientOK', ServerOK,
           UNCHANGED fanned, cursor.applied <= cursor'.applied,
           sock' \in {"greeting", "open"} => sock \in {"greeting", "open"},
           sock' \in {"greeting", "open"} =>
              \A s \in Seqs : cursor'.applied < s /\ s <= fanned /\ Covered(s) => Covered(s)'
    PROVE  NothingForgotten'
<1>1. cursor.applied \in Nat /\ cursor'.applied \in Nat /\ Seqs \subseteq Nat /\ Seqs' = Seqs
  BY SeqsFacts DEF ClientOK, Cursors, Seqs
<1> SUFFICES ASSUME sock' \in {"greeting", "open"}, NEW s \in Seqs,
                    cursor'.applied < s, s <= fanned
             PROVE  Covered(s)'
  BY <1>1 DEF NothingForgotten
<1>2. Covered(s)
  BY <1>1 DEF NothingForgotten
<1> QED BY <1>2

LEMMA CursorFrame ==
    ASSUME CursorInLog, cursor \in Cursors, cursor' \in Cursors, ServerOK, UNCHANGED latest,
           cursor.applied <= cursor'.applied, cursor'.applied <= latest,
           cursor'.shown <= latest, cursor'.observed <= latest, cursor'.inbound <= latest,
           \A p \in pending' : p <= cursor'.observed, hydrate'.answer <= latest
    PROVE  CursorInLog'
<1>1. FirstSeq \in Nat /\ cursor.applied \in Nat /\ cursor'.applied \in Nat
  BY SeqsFacts DEF Cursors
<1> QED BY <1>1 DEF CursorInLog

\* What the server and the network do leaves the client alone.
LEMMA ClientUntouched ==
    ASSUME ClientInv, ServerOK', ClientEpoch, UNCHANGED clientVars,
           latest' = latest \/ latest' = latest + 1
    PROVE  ClientEpoch'
<1>1. /\ latest \in Seqs /\ latest' \in Seqs /\ latest <= latest' /\ recovery \in Recoveries
      /\ Seqs' = Seqs
  BY SeqsFacts DEF ClientInv, ServerOK, ClientOK, Seqs
<1>2. UNCHANGED <<cursor, pending, recovery, reset, hydrate>>
  BY DEF clientVars
<1>3. RecoveryInLog'
  BY <1>1, <1>2, GrowsInLog DEF ClientEpoch, RecoveryInLog
<1>4. CursorInLog'
  <2>1. /\ cursor.applied \in Nat /\ cursor.shown \in Nat /\ cursor.observed \in Nat
        /\ cursor.inbound \in Nat /\ hydrate.answer \in Nat /\ latest \in Nat /\ latest' \in Nat
    BY <1>1, SeqsFacts DEF ClientInv, ClientOK, Cursors, Hydrates
  <2> QED BY <1>1, <1>2, <2>1 DEF ClientEpoch, CursorInLog
<1>5. NeverReset'
  BY <1>2 DEF ClientEpoch, NeverReset
<1> QED BY <1>3, <1>4, <1>5 DEF ClientEpoch

\* What is on its way stays on its way while something is sent.
LEMMA ServerCovers ==
    ASSUME OneEpoch, ClientInv, EpochInv, ServerOK', NetOK',
           \/ Publish \/ Announce \/ FanOut \/ Connect \/ ReadHello \/ SendHello \/ Pong \/ Drop
           \/ RefreshSnapshot \/ HandleClose
    PROVE  NothingForgotten'
<1>1. /\ cursor.applied \in Nat /\ Seqs \subseteq Nat /\ fanned \in Seqs /\ announced \in Seqs
      /\ announced \in Nat /\ fanned \in Nat /\ fanned <= announced /\ hello \in Seqs
      /\ channel \in Seq(Messages) /\ cursor.applied \in Seqs /\ announced > 0
  <2>1. /\ cursor.applied \in Seqs /\ fanned \in Seqs /\ announced \in Seqs /\ hello \in Seqs
        /\ channel \in Seq(Messages) /\ fanned <= announced
    BY DEF ClientInv, ClientOK, ServerOK, NetOK, Cursors
  <2>2. FirstSeq <= announced /\ FirstSeq > 0
    BY DEF EpochInv, LogWhole, OneEpoch
  <2>3. Seqs \subseteq Nat /\ FirstSeq \in Nat
    BY SeqsFacts
  <2>4. announced > 0
    BY <2>1, <2>2, <2>3
  <2> QED BY <2>1, <2>3, <2>4
<1>2. UNCHANGED <<cursor, pending, recovery>>
  BY DEF Publish, Announce, FanOut, Connect, ReadHello, SendHello, Pong, Drop, RefreshSnapshot,
         HandleClose, clientVars
<1>3. ASSUME NEW s \in Seqs, Covered(s), sock' = sock, hello' = hello,
             Carries(channel, s) => Carries(channel', s)
      PROVE  Covered(s)'
  BY <1>2, <1>3 DEF Covered, OnWire, Waits
<1>4. CASE Publish \/ Announce \/ RefreshSnapshot
  <2>1. UNCHANGED <<fanned, sock, hello, channel>>
    BY <1>4 DEF Publish, Announce, RefreshSnapshot, netVars
  <2> QED BY <1>2, <2>1 DEF EpochInv, NothingForgotten, Covered, OnWire, Waits
<1>5. CASE FanOut
  <2>1. fanned' = announced /\ sock' = sock /\ hello' = hello
    BY <1>5 DEF FanOut
  <2> SUFFICES ASSUME sock \in {"greeting", "open"}, NEW s \in Seqs, cursor.applied < s, s <= announced
               PROVE  Covered(s)'
    BY <1>2, <2>1 DEF NothingForgotten
  <2>2. channel' = Append(channel, Message("event", announced))
    BY <1>5 DEF FanOut, Connected
  <2>3. Message("event", announced) \in Messages /\ Message("event", announced).seq = announced
        /\ Message("event", announced).type = "event"
    BY <1>1, MessageType DEF Message
  <2>4. Carries(channel', s)
    BY <1>1, <2>2, <2>3, AppendChannel
  <2> QED BY <2>4 DEF Covered, OnWire
<1>6. CASE Connect \/ Drop \/ HandleClose
  <2>1. sock' \notin {"greeting", "open"} \/ UNCHANGED <<sock>>
    BY <1>6 DEF Connect, Drop, BreakSocket, HandleClose
  <2>2. sock' \notin {"greeting", "open"}
    BY <1>6 DEF Connect, Drop, BreakSocket, HandleClose
  <2> QED BY <2>2 DEF NothingForgotten
<1>7. CASE ReadHello
  <2>1. hello' = announced /\ sock' = "greeting" /\ UNCHANGED fanned
    BY <1>1, <1>7 DEF ReadHello, serverVars
  <2>2. \A s \in Seqs : s <= fanned => s <= hello'
    BY <1>1, <2>1
  <2> QED BY <2>1, <2>2 DEF NothingForgotten, Covered, OnWire
<1>8. CASE SendHello
  <2>1. sock = "greeting" /\ sock' = "open" /\ UNCHANGED fanned
        /\ channel' = Append(channel, Message("hello", hello))
    BY <1>8 DEF SendHello, serverVars
  <2>2. Message("hello", hello) \in Messages /\ Message("hello", hello).seq = hello
        /\ Message("hello", hello).type = "hello"
    BY <1>1, MessageType DEF Message
  <2> SUFFICES ASSUME NEW s \in Seqs, cursor.applied < s, s <= fanned
               PROVE  Covered(s)'
    BY <1>2, <2>1 DEF NothingForgotten
  <2>3. Covered(s)
    BY <2>1 DEF EpochInv, NothingForgotten
  <2>4. CASE OnWire(s)
    <3>1. Carries(channel', s)
      BY <1>1, <2>1, <2>2, <2>4, AppendChannel DEF OnWire
    <3> QED BY <3>1 DEF Covered, OnWire
  <2>5. CASE Waits(s)
    BY <1>2, <2>5 DEF Covered, Waits
  <2>6. CASE Asks(recovery, s)
    BY <1>2, <2>6 DEF Covered
  <2> QED BY <2>3, <2>4, <2>5, <2>6 DEF Covered
<1>9. CASE Pong
  <2>1. UNCHANGED <<fanned, sock, hello>> /\ channel' = Append(channel, Message("pong", announced))
    BY <1>9 DEF Pong, serverVars
  <2>2. Message("pong", announced) \in Messages
    BY <1>1, MessageType
  <2>3. \A s \in Seqs : Carries(channel, s) => Carries(channel', s)
    BY <1>1, <2>1, <2>2, AppendChannel
  <2> QED BY <1>2, <1>3, <2>1, <2>3 DEF EpochInv, NothingForgotten
<1> QED BY <1>4, <1>5, <1>6, <1>7, <1>8, <1>9

\* A plan of the recovery loop: a poll, the retry timer, the foreground.
LEMMA PlansEpoch ==
    ASSUME OneEpoch, ClientInv, EpochInv, ClientOK', Poll \/ Resume \/ RecoveryTimer
    PROVE  ClientEpoch' /\ NothingForgotten'
<1>1. UNCHANGED <<serverVars, netVars, cursor, pending, reset, hydrate, view>>
  BY DEF Poll, Resume, RecoveryTimer
<1>2. \E rec \in Recoveries, goal \in Seqs :
         /\ recovery' = Backfill(rec, goal, cursor.applied)
         /\ SameRequest(rec, recovery) /\ rec.wanted = recovery.wanted
         /\ goal \in {0, recovery.wanted}
  <2>1. recovery \in Recoveries /\ recovery.wanted \in Seqs /\ 0 \in Seqs
    BY SeqsFacts DEF ClientInv, ClientOK, Recoveries
  <2>2. CASE Poll \/ Resume
    <3>1. recovery' = Backfill(recovery, 0, cursor.applied) /\ SameRequest(recovery, recovery)
      BY <2>2 DEF Poll, Resume, SameRequest
    <3> QED BY <2>1, <3>1
  <2>3. CASE RecoveryTimer
    <3> DEFINE rec == [recovery EXCEPT !.timer = FALSE]
    <3>1. rec \in Recoveries /\ SameRequest(rec, recovery) /\ rec.wanted = recovery.wanted
      BY <2>1 DEF Recoveries, SameRequest
    <3>2. recovery' = Backfill(rec, recovery.wanted, cursor.applied)
      BY <2>3 DEF RecoveryTimer
    <3> HIDE DEF rec
    <3> QED BY <2>1, <3>1, <3>2
  <2> QED BY <2>2, <2>3
<1>3. PICK rec \in Recoveries, goal \in Seqs :
         /\ recovery' = Backfill(rec, goal, cursor.applied)
         /\ SameRequest(rec, recovery) /\ rec.wanted = recovery.wanted
         /\ goal \in {0, recovery.wanted}
  BY <1>2
<1>4. cursor.applied \in Seqs /\ cursor.applied \in Nat /\ latest \in Seqs /\ latest \in Nat
      /\ cursor \in Cursors
  BY SeqsFacts DEF ClientInv, ClientOK, ServerOK, Cursors
<1>5. Backfilled(recovery', rec, goal, cursor.applied)
  BY <1>3, <1>4, BackfillShape
<1>6. InLog(rec, latest) /\ goal <= latest
  BY <1>3, <1>4 DEF EpochInv, RecoveryInLog, InLog, SameRequest
<1>7. RecoveryInLog'
  <2>1. InLog(recovery', latest)
    BY <1>3, <1>4, <1>5, <1>6, BackfillInLog DEF EpochInv, CursorInLog
  <2> QED BY <1>1, <2>1 DEF RecoveryInLog, serverVars
<1>8. CursorInLog' /\ NeverReset'
  BY <1>1 DEF EpochInv, CursorInLog, NeverReset, serverVars
<1>9. NothingForgotten'
  <2>1. ~reset.active
    BY DEF EpochInv, NeverReset, IdleReset
  <2>2. ASSUME NEW s \in Seqs, cursor.applied < s, Covered(s)
        PROVE  Covered(s)'
    <3>1. Asks(recovery, s) => Asks(rec, s)
      BY <1>3 DEF Asks, SameRequest
    <3>2. Asks(rec, s) => Asks(recovery', s)
      BY <1>3, <1>4, <1>5, <2>1, <2>2, BackfillAsks
    <3> QED BY <1>1, <2>2, <3>1, <3>2 DEF Covered, OnWire, Waits, netVars
  <2> QED BY <1>1, <1>4, <2>2 DEF EpochInv, NothingForgotten, serverVars, netVars
<1> QED BY <1>7, <1>8, <1>9 DEF ClientEpoch

\* What every step of the client may use.
EpochFacts ==
    /\ cursor \in Cursors /\ recovery \in Recoveries /\ ~reset.active
    /\ cursor.applied \in Seqs /\ cursor.queued \in Seqs /\ cursor.shown \in Seqs
    /\ cursor.observed \in Seqs /\ cursor.inbound \in Seqs
    /\ cursor.applied <= latest /\ cursor.shown <= latest /\ cursor.observed <= latest
    /\ cursor.inbound <= latest /\ FirstSeq <= cursor.applied
    /\ latest \in Seqs /\ pending \in SUBSET Seqs /\ channel \in Seq(Messages)
    /\ Seqs \subseteq Nat /\ ServerOK /\ ClientOK

LEMMA EpochGives ==
    ASSUME ClientInv, EpochInv
    PROVE  EpochFacts
<1>1. /\ cursor \in Cursors /\ recovery \in Recoveries /\ latest \in Seqs
      /\ pending \in SUBSET Seqs /\ channel \in Seq(Messages) /\ ServerOK /\ ClientOK
  BY DEF ClientInv, ClientOK, ServerOK, NetOK, QueueOK
<1>2. /\ cursor.applied \in Seqs /\ cursor.queued \in Seqs /\ cursor.shown \in Seqs
      /\ cursor.observed \in Seqs /\ cursor.inbound \in Seqs
  BY <1>1 DEF Cursors
<1>3. ~reset.active /\ CursorInLog
  BY DEF EpochInv, NeverReset, IdleReset
<1> QED BY <1>1, <1>2, <1>3, SeqsFacts DEF EpochFacts, CursorInLog

\* A message of the channel has been sent: its sequence is one of the log's.
LEMMA InboundInLog ==
    ASSUME ClientInv, EpochInv, channel # <<>>
    PROVE  /\ Inbound.seq \in Seqs /\ Inbound.seq <= latest
           /\ \A s \in Seqs : Carries(channel, s) =>
                 \/ Carries(Tail(channel), s)
                 \/ Inbound.type \in {"event", "hello"} /\ Inbound.seq >= s
<1>1. announced \in Seqs /\ announced <= latest /\ channel \in Seq(Messages) /\ latest \in Seqs
  BY DEF ClientInv, ServerOK, NetOK
<1>2. Inbound.seq \in Seqs
  BY Delivers DEF ClientInv
<1>3. Inbound.seq <= announced
  BY <1>1, TailChannel DEF EpochInv, LogWhole, Inbound
<1>4. Inbound.seq \in Nat /\ announced \in Nat /\ latest \in Nat
  BY <1>1, <1>2, SeqsFacts
<1> QED BY <1>1, <1>2, <1>3, <1>4, TailChannel DEF Inbound

\* What the client hears of is in the log.
LEMMA CursorHeard ==
    ASSUME EpochFacts, CursorInLog, UNCHANGED <<serverVars, hydrate>>, cursor' \in Cursors,
           NEW seq \in Seqs,
           \/ cursor'.applied = cursor.applied
           \/ cursor.applied <= cursor'.applied /\ cursor'.applied <= latest,
           cursor'.shown <= latest, cursor'.observed <= latest, cursor'.inbound <= latest,
           cursor.observed <= cursor'.observed, seq <= cursor'.observed,
           pending' \subseteq pending \cup {seq}
    PROVE  CursorInLog'
<1>1. /\ cursor.applied \in Nat /\ cursor.observed \in Nat /\ pending \subseteq Nat
      /\ cursor \in Cursors /\ ServerOK /\ cursor.applied <= latest
  BY DEF EpochFacts
<1>2. cursor'.observed \in Nat
  BY SeqsFacts DEF Cursors
<1>3. \A p \in pending' : p <= cursor'.observed
  <2>1. ASSUME NEW p \in pending PROVE p <= cursor'.observed
    <3>1. p <= cursor.observed
      BY <2>1 DEF CursorInLog
    <3> QED BY <1>1, <1>2, <3>1
  <2> QED BY <2>1
<1>4. hydrate'.answer <= latest /\ latest' = latest
  BY DEF CursorInLog, serverVars
<1>5. cursor.applied <= cursor'.applied /\ cursor'.applied <= latest
  BY <1>1
<1> QED BY <1>1, <1>3, <1>4, <1>5, CursorFrame

LEMMA HelloEpoch ==
    ASSUME ClientInv, EpochInv, ClientOK', HandleHello
    PROVE  ClientEpoch' /\ NothingForgotten'
<1> DEFINE seq == Inbound.seq
           target == IF seq < cursor.applied THEN 0 ELSE seq
           heard == Heard(cursor, seq, seq)
<1>1. /\ cursor' = heard
      /\ recovery' = Backfill(recovery, target, cursor.applied)
      /\ UNCHANGED <<serverVars, sock, hello, pending, reset, hydrate>>
      /\ channel # <<>> /\ channel' = Tail(channel)
  BY DEF HandleHello, Heard
<1>2. /\ seq \in Seqs /\ seq <= latest
      /\ \A s \in Seqs : Carries(channel, s) => Carries(Tail(channel), s) \/ seq >= s
  BY <1>1, InboundInLog
<1> HIDE DEF seq
<1>3. EpochFacts
  BY EpochGives
<1>4. target \in Seqs /\ target <= latest /\ \A s \in Seqs : cursor.applied < s /\ s <= seq => s <= target
  <2>1. /\ latest \in Nat /\ seq \in Nat /\ cursor.applied \in Nat /\ 0 \in Seqs
        /\ \A s \in Seqs : s \in Nat
    BY <1>2, <1>3, SeqsFacts DEF EpochFacts
  <2>2. CASE seq < cursor.applied
    BY <2>1, <2>2
  <2>3. CASE ~(seq < cursor.applied)
    BY <1>2, <2>1, <2>3
  <2> QED BY <2>2, <2>3
<1>5. /\ heard \in Cursors /\ heard.applied = cursor.applied /\ heard.inbound = seq
      /\ cursor.observed <= heard.observed /\ seq <= heard.observed
      /\ heard.shown \in {cursor.shown, seq} /\ heard.observed \in {cursor.observed, cursor.shown, seq}
  BY <1>2, <1>3, HeardShape DEF EpochFacts
<1> HIDE DEF heard, target
<1>6. CursorInLog'
  <2>1. /\ cursor'.shown <= latest /\ cursor'.observed <= latest /\ cursor'.inbound <= latest
        /\ cursor'.applied = cursor.applied /\ cursor.observed <= cursor'.observed
        /\ seq <= cursor'.observed
    BY <1>1, <1>2, <1>3, <1>4, <1>5 DEF EpochFacts, Cursors
  <2> QED BY <1>1, <1>2, <1>3, <1>5, <2>1, CursorHeard DEF EpochInv
<1>7. Backfilled(recovery', recovery, target, cursor.applied)
  BY <1>1, <1>3, <1>4, BackfillShape DEF EpochFacts
<1>8. RecoveryInLog'
  <2>1. InLog(recovery', latest)
    BY <1>3, <1>4, <1>7, BackfillInLog DEF EpochInv, RecoveryInLog, EpochFacts
  <2> QED BY <1>1, <2>1 DEF RecoveryInLog, serverVars
<1>9. NeverReset'
  BY <1>1 DEF EpochInv, NeverReset
<1>10. NothingForgotten'
  <2>1. ASSUME NEW s \in Seqs, cursor.applied < s, Covered(s)
        PROVE  Covered(s)'
    <3>1. Asks(recovery, s) \/ s <= target => Asks(recovery', s)
      BY <1>3, <1>4, <1>7, <2>1, BackfillAsks DEF EpochFacts
    <3>2. CASE OnWire(s)
      <4>1. sock' = sock /\ hello' = hello /\ (Carries(channel, s) => Carries(channel', s) \/ seq >= s)
        BY <1>1, <1>2
      <4>2. seq >= s => s <= target
        BY <1>2, <1>3, <1>4, <2>1 DEF EpochFacts
      <4> QED BY <3>1, <3>2, <4>1, <4>2 DEF Covered, OnWire
    <3>3. CASE Waits(s)
      BY <1>1, <3>3 DEF Covered, Waits
    <3> QED BY <2>1, <3>1, <3>2, <3>3 DEF Covered
  <2> QED BY <1>1, <1>3, <1>5, <2>1 DEF EpochInv, NothingForgotten, serverVars, EpochFacts
<1> QED BY <1>6, <1>8, <1>9, <1>10 DEF ClientEpoch

LEMMA PongEpoch ==
    ASSUME ClientInv, EpochInv, ClientOK', HandlePong
    PROVE  ClientEpoch' /\ NothingForgotten'
<1> DEFINE seq == Inbound.seq
           inbound == Larger(cursor.inbound, seq)
           heard == Heard(cursor, seq, inbound)
<1>1. /\ cursor' = heard
      /\ UNCHANGED <<serverVars, sock, hello, pending, recovery, reset, hydrate>>
      /\ channel # <<>> /\ channel' = Tail(channel) /\ Inbound.type = "pong"
  <2>1. UNCHANGED <<serverVars, sock, hello, pending, recovery, reset, hydrate>>
        /\ channel # <<>> /\ channel' = Tail(channel) /\ Inbound.type = "pong"
    BY DEF HandlePong
  <2>2. cursor' = [Render(cursor, Inbound.seq) EXCEPT
                     !.inbound = Larger(@, Inbound.seq), !.observed = Larger(@, Inbound.seq)]
    BY DEF HandlePong
  <2>3. cursor \in Cursors /\ Inbound.seq \in Seqs
    BY <2>1, EpochGives, InboundInLog DEF EpochFacts
  <2>4. Render(cursor, Inbound.seq) \in Cursors /\ Render(cursor, Inbound.seq).inbound = cursor.inbound
    BY <2>3, RenderShape
  <2>5. cursor' = heard
    BY <2>2, <2>4 DEF Heard, Cursors
  <2> QED BY <2>1, <2>5
<1>2. /\ seq \in Seqs /\ seq <= latest
      /\ \A s \in Seqs : Carries(channel, s) => Carries(Tail(channel), s)
  BY <1>1, InboundInLog
<1> HIDE DEF seq
<1>3. EpochFacts
  BY EpochGives
<1>4. inbound \in Seqs /\ inbound <= latest
  BY <1>2, <1>3, LargerFacts DEF EpochFacts
<1> HIDE DEF inbound
<1>5. /\ heard \in Cursors /\ heard.applied = cursor.applied /\ heard.inbound = inbound
      /\ cursor.observed <= heard.observed /\ seq <= heard.observed
      /\ heard.shown \in {cursor.shown, seq} /\ heard.observed \in {cursor.observed, cursor.shown, seq}
  BY <1>2, <1>3, <1>4, HeardShape DEF EpochFacts
<1> HIDE DEF heard
<1>6. CursorInLog'
  <2>1. /\ cursor'.shown <= latest /\ cursor'.observed <= latest /\ cursor'.inbound <= latest
        /\ cursor'.applied = cursor.applied /\ cursor.observed <= cursor'.observed
        /\ seq <= cursor'.observed
    BY <1>1, <1>2, <1>3, <1>4, <1>5 DEF EpochFacts, Cursors
  <2> QED BY <1>1, <1>2, <1>3, <1>5, <2>1, CursorHeard DEF EpochInv
<1>7. RecoveryInLog' /\ NeverReset'
  BY <1>1 DEF EpochInv, NeverReset, RecoveryInLog, serverVars
<1>8. NothingForgotten'
  <2>1. ASSUME NEW s \in Seqs, Covered(s)
        PROVE  Covered(s)'
    BY <1>1, <1>2, <2>1 DEF Covered, OnWire, Waits
  <2> QED BY <1>1, <1>3, <1>5, <2>1 DEF EpochInv, NothingForgotten, serverVars, EpochFacts
<1> QED BY <1>6, <1>7, <1>8 DEF ClientEpoch

LEMMA EventEpoch ==
    ASSUME ClientInv, EpochInv, ClientOK', HandleEvent
    PROVE  ClientEpoch' /\ NothingForgotten'
<1> DEFINE seq == Inbound.seq
<1>1. /\ UNCHANGED <<serverVars, sock, hello, reset, hydrate>>
      /\ channel # <<>> /\ channel' = Tail(channel)
  BY DEF HandleEvent
<1>2. /\ seq \in Seqs /\ seq <= latest
      /\ \A s \in Seqs : Carries(channel, s) => Carries(Tail(channel), s) \/ seq >= s
  BY <1>1, InboundInLog
<1>3. EpochFacts
  BY EpochGives
<1>4. PICK seen \in Cursors :
          /\ seen.applied = cursor.applied /\ seen.shown = cursor.shown
          /\ cursor.observed <= seen.observed /\ seq <= seen.observed
          /\ seen.observed \in {cursor.observed, seq} /\ seen.inbound \in {cursor.inbound, seq}
          /\ EventKnown(seen, seq) \/ EventQueued(seen, seq) \/ EventOverflows(seen, seq)
  BY <1>3, EventCases DEF EventDuringReset, EpochFacts, ClientInv, ClientPart
<1> HIDE DEF seq
<1>5. /\ cursor' \in Cursors /\ cursor'.applied = cursor.applied /\ cursor'.shown = cursor.shown
      /\ cursor'.observed = seen.observed /\ cursor'.inbound = seen.inbound
  <2>1. seq \in Seqs /\ seen.applied \in Seqs
    BY <1>2, <1>4 DEF Cursors
  <2> QED BY <1>4, <2>1 DEF EventKnown, EventQueued, EventOverflows, Cursors
<1>6. pending' \subseteq pending \cup {seq}
  BY <1>4 DEF EventKnown, EventQueued, EventOverflows
<1>7. CursorInLog'
  <2>1. /\ cursor'.shown <= latest /\ cursor'.observed <= latest /\ cursor'.inbound <= latest
        /\ cursor.observed <= cursor'.observed /\ seq <= cursor'.observed
    BY <1>2, <1>3, <1>4, <1>5 DEF EpochFacts, Cursors
  <2> QED BY <1>1, <1>2, <1>3, <1>5, <1>6, <2>1, CursorHeard DEF EpochInv
<1>8. recovery' = recovery \/ Backfilled(recovery', recovery, seq, cursor.applied)
  BY <1>2, <1>3, <1>4, BackfillShape DEF EventKnown, EventQueued, EventOverflows, EpochFacts
<1>9. RecoveryInLog'
  <2>1. InLog(recovery, latest) /\ latest' = latest
    BY <1>1 DEF EpochInv, RecoveryInLog, serverVars
  <2>2. InLog(recovery', latest)
    BY <1>2, <1>3, <1>8, <2>1, BackfillInLog DEF EpochFacts
  <2> QED BY <2>1, <2>2 DEF RecoveryInLog
<1>10. NeverReset'
  BY <1>1 DEF EpochInv, NeverReset
<1>11. cursor.queued = Max({cursor.applied} \cup pending)
  BY <1>3 DEF EpochFacts, ClientInv, Held, WatermarkExact
<1>12. /\ \A p \in pending : p <= cursor.queued
       /\ cursor.queued = cursor.applied \/ cursor.queued \in pending
  <2> DEFINE top == Max({cursor.applied} \cup pending)
  <2>1. cursor.applied \in Seqs /\ pending \in SUBSET Seqs
    BY <1>3 DEF EpochFacts
  <2>2. (\A p \in pending : p <= top) /\ (top = cursor.applied \/ top \in pending)
    BY <2>1, MaxWith
  <2>3. cursor.queued = top
    BY <1>11
  <2> HIDE DEF top
  <2> QED BY <2>2, <2>3
<1>13. NothingForgotten'
  <2>1. ASSUME NEW s \in Seqs, cursor.applied < s, Covered(s)
        PROVE  Covered(s)'
    <3>1. /\ s \in Nat /\ seq \in Nat /\ cursor.applied \in Nat /\ cursor.queued \in Nat
          /\ pending \subseteq Nat
      BY <1>2, <1>3 DEF EpochFacts
    <3>2. OnWire(s) => OnWire(s)' \/ s <= seq
      <4>1. Carries(channel, s) => Carries(channel', s) \/ s <= seq
        BY <1>1, <1>2, <3>1
      <4> QED BY <1>1, <4>1 DEF OnWire
    <3>3. CASE EventKnown(seen, seq)
      <4>1. UNCHANGED <<pending, recovery>> /\ seq <= Larger(cursor.applied, cursor.queued)
        BY <3>3 DEF EventKnown
      <4>2. s <= seq => s <= cursor.queued
        BY <2>1, <3>1, <4>1 DEF Larger
      <4>3. s <= seq => Waits(s)
        BY <1>12, <2>1, <3>1, <4>2 DEF Waits
      <4>4. Waits(s)' = Waits(s)
        BY <4>1 DEF Waits
      <4> QED BY <2>1, <3>2, <4>1, <4>3, <4>4 DEF Covered
    <3>4. CASE EventQueued(seen, seq)
      <4>1. pending' = pending \cup {seq} /\ UNCHANGED recovery
        BY <3>4 DEF EventQueued
      <4>2. (s <= seq \/ Waits(s)) => Waits(s)'
        BY <4>1 DEF Waits
      <4> QED BY <2>1, <3>2, <4>1, <4>2 DEF Covered
    <3>5. CASE EventOverflows(seen, seq)
      <4>1. /\ recovery' = Backfill(recovery, seq, cursor.applied)
            /\ seq > Larger(cursor.applied, cursor.queued)
        BY <3>5 DEF EventOverflows
      <4>2. Waits(s) => s <= seq
        <5>1. cursor.queued <= seq
          BY <3>1, <4>1 DEF Larger
        <5> QED BY <1>12, <3>1, <5>1 DEF Waits
      <4>3. Asks(recovery, s) \/ s <= seq => Asks(recovery', s)
        <5>1. Backfilled(recovery', recovery, seq, cursor.applied)
          BY <1>2, <1>3, <4>1, BackfillShape DEF EpochFacts
        <5> QED BY <1>2, <1>3, <2>1, <5>1, BackfillAsks DEF EpochFacts
      <4> QED BY <2>1, <3>2, <4>2, <4>3 DEF Covered
    <3> QED BY <1>4, <3>3, <3>4, <3>5
  <2> QED BY <1>1, <1>3, <1>5, <2>1 DEF EpochInv, NothingForgotten, serverVars, EpochFacts
<1> QED BY <1>7, <1>9, <1>10, <1>13 DEF ClientEpoch

LEMMA FlushEpoch ==
    ASSUME ClientInv, EpochInv, ClientOK', Flush
    PROVE  ClientEpoch' /\ NothingForgotten'
<1>1. EpochFacts
  BY EpochGives
<1>2. PICK due \in SUBSET pending, applied \in Seqs : Flushed(due, applied)
  BY FlushShape DEF ClientInv, ClientPart
<1>3. /\ cursor' \in Cursors /\ cursor'.applied = applied /\ cursor'.inbound = cursor.inbound
      /\ cursor'.shown = Larger(cursor.shown, applied)
      /\ cursor'.observed \in {cursor.observed, Larger(cursor.observed, cursor'.shown)}
  BY <1>1, <1>2, FlushCursor DEF EpochFacts
<1>4. UNCHANGED <<serverVars, netVars, recovery, reset, hydrate>>
  BY DEF Flush
<1>5. applied <= latest /\ cursor.applied <= applied
  <2>1. \A p \in pending : p <= latest
    <3>1. \A p \in pending : p <= cursor.observed
      BY DEF EpochInv, CursorInLog
    <3>2. pending \subseteq Nat /\ cursor.observed \in Nat /\ latest \in Nat
      BY <1>1 DEF EpochFacts
    <3>3. cursor.observed <= latest
      BY <1>1 DEF EpochFacts
    <3> QED BY <3>1, <3>2, <3>3
  <2> QED BY <1>1, <1>2, <2>1 DEF Flushed, EpochFacts
<1>6. pending' = {p \in pending : p \notin due /\ p > applied}
  BY <1>2 DEF Flushed, Above
<1>7. CursorInLog'
  <2>1. cursor'.shown <= latest /\ cursor'.shown \in Seqs
    BY <1>1, <1>3, <1>5, LargerFacts DEF EpochFacts
  <2>2. cursor'.observed <= latest /\ cursor.observed <= cursor'.observed /\ 0 <= cursor'.observed
    <3>1. LET far == Larger(cursor.observed, cursor'.shown)
          IN  far \in Seqs /\ far <= latest /\ far >= cursor.observed
      BY <1>1, <2>1, LargerFacts DEF EpochFacts
    <3>2. cursor.observed \in Nat
      BY <1>1 DEF EpochFacts
    <3>3. CASE cursor'.observed = cursor.observed
      BY <1>1, <3>2, <3>3 DEF EpochFacts
    <3>4. CASE cursor'.observed = Larger(cursor.observed, cursor'.shown)
      <4> DEFINE far == Larger(cursor.observed, cursor'.shown)
      <4>1. far \in Nat /\ far <= latest /\ far >= cursor.observed
        BY <1>1, <3>1 DEF EpochFacts
      <4>2. cursor'.observed = far
        BY <3>4
      <4> HIDE DEF far
      <4> QED BY <3>2, <4>1, <4>2
    <3> QED BY <1>3, <3>3, <3>4
  <2>3. cursor'.inbound <= latest /\ pending' \subseteq pending \cup {0}
    BY <1>1, <1>3, <1>6 DEF EpochFacts
  <2>4. cursor.applied <= cursor'.applied /\ cursor'.applied <= latest
    BY <1>3, <1>5
  <2> QED BY <1>1, <1>3, <1>4, <2>1, <2>2, <2>3, <2>4, SeqsFacts, CursorHeard DEF EpochInv
<1>8. RecoveryInLog' /\ NeverReset'
  BY <1>4 DEF EpochInv, NeverReset, RecoveryInLog, serverVars
<1>9. NothingForgotten'
  <2>1. ASSUME NEW s \in Seqs, applied < s, Waits(s)
        PROVE  Waits(s)'
    <3>1. PICK p \in pending : s <= p
      BY <2>1 DEF Waits
    <3>2. s \in Nat /\ p \in Nat /\ applied \in Nat /\ due \subseteq Nat
      BY <1>1, <1>2 DEF EpochFacts
    <3>3. p > applied /\ p \notin due
      BY <1>2, <2>1, <3>1, <3>2 DEF Flushed
    <3> QED BY <1>6, <3>1, <3>3 DEF Waits
  <2>2. ASSUME NEW s \in Seqs, cursor'.applied < s, Covered(s)
        PROVE  Covered(s)'
    BY <1>3, <1>4, <2>1, <2>2 DEF Covered, OnWire, netVars
  <2>3. cursor.applied <= cursor'.applied /\ UNCHANGED fanned /\ sock' = sock
    BY <1>3, <1>4, <1>5 DEF serverVars, netVars
  <2> QED BY <1>1, <2>2, <2>3, StillCovered DEF EpochInv, EpochFacts
<1> QED BY <1>7, <1>8, <1>9 DEF ClientEpoch

\* A step of the recovery's request only.
LEMMA RequestEpoch ==
    ASSUME ClientInv, EpochInv, ClientOK',
           UNCHANGED <<serverVars, netVars, cursor, pending, reset>>,
           hydrate'.answer <= latest, InLog(recovery', latest),
           \A s \in Seqs : cursor.applied < s /\ Asks(recovery, s) => Asks(recovery', s)
    PROVE  ClientEpoch' /\ NothingForgotten'
<1>1. EpochFacts
  BY EpochGives
<1>2. RecoveryInLog' /\ NeverReset'
  BY DEF EpochInv, NeverReset, RecoveryInLog, serverVars
<1>3. CursorInLog'
  BY DEF EpochInv, CursorInLog, serverVars
<1>4. NothingForgotten'
  <2>1. ASSUME NEW s \in Seqs, cursor'.applied < s, Covered(s)
        PROVE  Covered(s)'
    BY <2>1 DEF Covered, OnWire, Waits, netVars
  <2>2. cursor.applied <= cursor'.applied
    <3>1. cursor.applied \in Nat /\ cursor' = cursor
      BY <1>1 DEF EpochFacts
    <3> QED BY <3>1
  <2>3. UNCHANGED <<fanned, sock>>
    BY DEF serverVars, netVars
  <2> QED BY <1>1, <2>1, <2>2, <2>3, StillCovered DEF EpochInv, EpochFacts
<1> QED BY <1>2, <1>3, <1>4 DEF ClientEpoch

\* A cursor within the log is not gone.
LEMMA ServeBoundsEpoch ==
    ASSUME OneEpoch, ClientInv, EpochInv, ClientOK', ServeBounds
    PROVE  ClientEpoch' /\ NothingForgotten'
<1>1. EpochFacts
  BY EpochGives
<1>2. oldest = 1 /\ latest \in Seqs /\ latest \in Nat /\ latest > 0
  <2>1. announced \in Seqs /\ announced <= latest /\ FirstSeq <= announced /\ oldest = 1
    BY DEF EpochInv, LogWhole, ClientInv, ServerOK
  <2>2. announced \in Nat /\ FirstSeq \in Nat /\ FirstSeq > 0 /\ latest \in Nat
    BY <1>1, <2>1, SeqsFacts DEF EpochFacts, OneEpoch
  <2> QED BY <1>1, <2>1, <2>2 DEF EpochFacts
<1>3. LastRetained = latest
  <2>1. Retained = 1..latest
    BY <1>2 DEF Retained
  <2>2. Retained \in SUBSET Seqs /\ 0 \in Seqs
    BY SeqsFacts, RetainedType, <1>1 DEF EpochFacts
  <2>3. latest \in {0} \cup Retained /\ latest >= 0 /\ \A x \in Retained : x <= latest
    BY <1>2, <2>1
  <2> QED BY <2>2, <2>3, MaxIs DEF LastRetained
<1>4. /\ recovery.pc = "asked" /\ UNCHANGED <<serverVars, netVars, cursor, pending, reset, hydrate>>
  BY DEF ServeBounds
<1>5. /\ recovery.after \in Nat /\ 0 < recovery.after /\ recovery.after <= latest
      /\ recovery.latestSeq \in Nat /\ recovery.target \in Nat
  <2>1. FirstSeq <= recovery.after /\ recovery.after <= latest
    BY <1>4 DEF EpochInv, RecoveryInLog, InLog
  <2>2. recovery.after \in Nat /\ recovery.latestSeq \in Nat /\ recovery.target \in Nat
    BY <1>1, SeqsFacts DEF Recoveries, EpochFacts
  <2>3. FirstSeq \in Nat /\ FirstSeq > 0
    BY SeqsFacts DEF OneEpoch
  <2> QED BY <2>1, <2>2, <2>3
<1>6. NotRetained(recovery.after) = FALSE
  BY <1>2, <1>3, <1>5 DEF NotRetained
<1> DEFINE page == [NoPage EXCEPT !.reset = FALSE, !.latestSeq = latest]
<1>7. recovery' = [recovery EXCEPT !.pc = "bounded", !.answer = page]
  BY <1>3, <1>6 DEF ServeBounds
<1>8. page \in Pages /\ ~page.reset /\ page.latestSeq = latest /\ page.events = {}
  BY <1>2, AnsweredBounds
<1> HIDE DEF page
<1>9. /\ recovery'.pc = "bounded" /\ recovery'.after = recovery.after /\ recovery'.answer = page
      /\ recovery'.target = recovery.target /\ recovery'.latestSeq = recovery.latestSeq
      /\ recovery'.wanted = recovery.wanted
  BY <1>1, <1>7 DEF Recoveries, EpochFacts
<1>10. InLog(recovery', latest)
  BY <1>2, <1>4, <1>8, <1>9 DEF EpochInv, RecoveryInLog, InLog
<1>11. \A s \in Seqs : Asks(recovery, s) => Asks(recovery', s)
  BY <1>4, <1>9 DEF Asks
<1>12. hydrate'.answer <= latest
  BY <1>4 DEF EpochInv, CursorInLog
<1> QED BY <1>4, <1>10, <1>11, <1>12, RequestEpoch

\* The page of a cursor that is not the last sequence is not empty.
LEMMA PageNotEmpty ==
    ASSUME oldest = 1, latest \in Nat, NEW a \in Nat, Page(a) = {}
    PROVE  latest <= a
<1> SUFFICES ASSUME a < latest PROVE FALSE
  OBVIOUS
<1> DEFINE above == {s \in Retained : s > a}
           below == {t \in above : t < a + 1}
<1>1. a + 1 \in above
  BY DEF Retained
<1>2. below = {}
  BY DEF Retained
<1>3. Cardinality(below) < PageLimit
  BY <1>2, FS_EmptySet, LimitsAssumption
<1>4. a + 1 \in Page(a)
  BY <1>1, <1>3 DEF Page
<1> QED BY <1>4

LEMMA ServePageEpoch ==
    ASSUME ClientInv, EpochInv, ClientOK', ServePage
    PROVE  ClientEpoch' /\ NothingForgotten'
<1>1. EpochFacts
  BY EpochGives
<1>2. oldest = 1 /\ latest \in Seqs /\ latest \in Nat
  BY <1>1 DEF EpochFacts, EpochInv, LogWhole
<1> DEFINE events == Page(recovery.after)
           page == [recovery.answer EXCEPT !.events = events]
<1>3. /\ recovery.pc = "bounded" /\ UNCHANGED <<serverVars, netVars, cursor, pending, reset, hydrate>>
      /\ recovery' = [recovery EXCEPT !.pc = "answered", !.answer.events = events]
  BY DEF ServePage
<1>4. recovery' = [recovery EXCEPT !.pc = "answered", !.answer = page]
  BY <1>1, <1>3 DEF Recoveries, Pages, EpochFacts
<1>5. /\ recovery.after \in Nat /\ recovery.latestSeq \in Nat /\ recovery.answer \in Pages
      /\ recovery.answer.latestSeq \in Nat
  BY <1>1, SeqsFacts DEF Recoveries, Pages, EpochFacts
<1>6. /\ recovery.latestSeq <= latest /\ recovery.answer.latestSeq <= latest
      /\ ~recovery.answer.reset
  BY <1>3 DEF EpochInv, RecoveryInLog, InLog
<1>7. \A s \in events : s <= latest
  BY <1>2 DEF Page, Retained
<1>8. events = {} => recovery.after >= recovery.latestSeq /\ recovery.after >= recovery.answer.latestSeq
  BY <1>2, <1>5, <1>6, PageNotEmpty
<1> HIDE DEF events
<1>9. page.events = events /\ page.reset = recovery.answer.reset
      /\ page.latestSeq = recovery.answer.latestSeq
  BY <1>5 DEF Pages
<1> HIDE DEF page
<1>10. /\ recovery'.pc = "answered" /\ recovery'.after = recovery.after /\ recovery'.answer = page
       /\ recovery'.target = recovery.target /\ recovery'.latestSeq = recovery.latestSeq
       /\ recovery'.wanted = recovery.wanted
  BY <1>1, <1>4 DEF Recoveries, EpochFacts
<1>11. InLog(recovery', latest)
  BY <1>3, <1>6, <1>7, <1>8, <1>9, <1>10 DEF EpochInv, RecoveryInLog, InLog
<1>12. \A s \in Seqs : Asks(recovery, s) => Asks(recovery', s)
  BY <1>3, <1>10 DEF Asks
<1>13. hydrate'.answer <= latest
  BY <1>3 DEF EpochInv, CursorInLog
<1> QED BY <1>3, <1>11, <1>12, <1>13, RequestEpoch

LEMMA FailPageEpoch ==
    ASSUME ClientInv, EpochInv, ClientOK', FailPage
    PROVE  ClientEpoch' /\ NothingForgotten'
<1>1. EpochFacts
  BY EpochGives
<1>2. /\ recovery.pc # "idle" /\ UNCHANGED <<serverVars, netVars, cursor, pending, reset, hydrate>>
  BY DEF FailPage
<1>3. /\ recovery'.pc = "idle" /\ recovery'.answer = NoPage /\ recovery' \in Recoveries
      /\ recovery'.wanted >= recovery.wanted /\ recovery'.wanted >= recovery.target
      /\ recovery'.wanted \in {recovery.wanted, recovery.target}
  BY <1>1, FailPageShape DEF EpochFacts
<1>4. /\ recovery.target \in Nat /\ recovery.latestSeq \in Nat /\ latest \in Nat
      /\ recovery.wanted \in Nat /\ recovery'.wanted \in Nat
  BY <1>1, <1>3, SeqsFacts DEF Recoveries, EpochFacts
<1>5. InLog(recovery', latest)
  <2>1. recovery.wanted <= latest /\ recovery.target <= latest
    BY <1>2, <1>4 DEF EpochInv, RecoveryInLog, InLog
  <2> QED BY <1>3, <1>4, <2>1 DEF InLog, NoPage
<1>6. \A s \in Seqs : Asks(recovery, s) => Asks(recovery', s)
  BY <1>3, <1>4, SeqsFacts DEF Asks
<1>7. hydrate'.answer <= latest
  BY <1>2 DEF EpochInv, CursorInLog
<1> QED BY <1>2, <1>5, <1>6, <1>7, RequestEpoch

LEMMA PageStaleEpoch ==
    ASSUME ClientInv, EpochInv, ClientOK', HandlePage, PageStale
    PROVE  ClientEpoch' /\ NothingForgotten'
<1>1. EpochFacts
  BY EpochGives
<1>2. /\ recovery.pc = "answered" /\ UNCHANGED <<serverVars, netVars, cursor, pending, reset, hydrate>>
  BY DEF HandlePage, PageStale
<1>3. recovery' = Loop(Requeued, cursor.applied)
  BY DEF PageStale, Requeued
<1>4. /\ Requeued \in Recoveries
      /\ Requeued.wanted >= recovery.wanted /\ Requeued.wanted >= recovery.target
      /\ Requeued.wanted \in {recovery.wanted, recovery.target, cursor.observed}
  BY <1>1, RequeuedShape DEF EpochFacts
<1>5. /\ recovery.target \in Nat /\ recovery.latestSeq \in Nat /\ latest \in Nat
      /\ recovery.wanted \in Nat /\ Requeued.wanted \in Nat
  BY <1>1, <1>4, SeqsFacts DEF Recoveries, EpochFacts
<1>6. Looped(recovery', Requeued, cursor.applied)
  BY <1>1, <1>3, <1>4, LoopShape DEF EpochFacts
<1> HIDE DEF Requeued
<1>7. Requeued.wanted <= latest
  <2>1. recovery.wanted <= latest /\ recovery.target <= latest
    BY <1>2, <1>5 DEF EpochInv, RecoveryInLog, InLog
  <2> QED BY <1>1, <1>4, <2>1 DEF EpochFacts
<1>8. InLog(recovery', latest)
  BY <1>1, <1>4, <1>6, <1>7, LoopInLog DEF EpochFacts
<1>9. ASSUME NEW s \in Seqs, cursor.applied < s, Asks(recovery, s)
      PROVE  Asks(recovery', s)
  <2>1. s <= Requeued.wanted
    BY <1>4, <1>5, <1>9, SeqsFacts DEF Asks
  <2> QED BY <1>1, <1>4, <1>6, <1>9, <2>1, LoopAsks DEF EpochFacts
<1>10. hydrate'.answer <= latest
  BY <1>2 DEF EpochInv, CursorInLog
<1> QED BY <1>2, <1>8, <1>9, <1>10, RequestEpoch

\* What a page brings is in the log.
LEMMA ReadInLog ==
    ASSUME EpochFacts, RecoveryInLog, recovery.pc # "idle"
    PROVE  LET read == Max({cursor.applied} \cup Unapplied(recovery))
           IN  /\ read \in Seqs /\ cursor.applied <= read /\ read <= latest
               /\ AfterPage(recovery) \in Seqs /\ AfterPage(recovery) <= latest
               /\ FirstSeq <= AfterPage(recovery)
               /\ KnownLatest(recovery) \in Seqs /\ KnownLatest(recovery) <= latest
               /\ recovery.target <= KnownLatest(recovery)
               /\ KnownLatest(recovery) = Larger(recovery.latestSeq, recovery.answer.latestSeq)
<1> DEFINE read == Max({cursor.applied} \cup Unapplied(recovery))
<1>1. cursor \in Cursors /\ recovery \in Recoveries /\ cursor.applied <= latest /\ latest \in Seqs
  BY DEF EpochFacts
<1>2. /\ Unapplied(recovery) \subseteq recovery.answer.events
      /\ read \in Seqs /\ cursor.applied <= read
      /\ read = cursor.applied \/ read \in Unapplied(recovery)
  BY <1>1, ReadFacts
<1> HIDE DEF read
<1>3. /\ \A s \in recovery.answer.events : s <= latest
      /\ FirstSeq <= recovery.after /\ recovery.after <= latest
      /\ recovery.target <= recovery.latestSeq /\ recovery.latestSeq <= latest
      /\ recovery.answer.latestSeq <= latest /\ ~recovery.answer.reset
  BY DEF RecoveryInLog, InLog
<1>4. /\ AfterPage(recovery) \in Seqs /\ AfterPage(recovery) >= recovery.after
      /\ AfterPage(recovery) = recovery.after \/ AfterPage(recovery) \in recovery.answer.events
      /\ KnownLatest(recovery) \in Seqs
  BY <1>1, AfterPageType
<1>5. /\ recovery.after \in Nat /\ recovery.target \in Nat /\ recovery.latestSeq \in Nat
      /\ recovery.answer.latestSeq \in Nat /\ recovery.latestSeq \in Seqs
      /\ recovery.answer.latestSeq \in Seqs /\ FirstSeq \in Nat /\ AfterPage(recovery) \in Nat
  BY <1>1, <1>4, SeqsFacts DEF Recoveries, Pages
<1>6. KnownLatest(recovery) = Larger(recovery.latestSeq, recovery.answer.latestSeq)
  BY <1>3 DEF KnownLatest
<1>7. recovery.target <= KnownLatest(recovery) /\ KnownLatest(recovery) <= latest
  BY <1>3, <1>5, <1>6 DEF Larger
<1>8. FirstSeq <= AfterPage(recovery) /\ AfterPage(recovery) <= latest
  BY <1>3, <1>4, <1>5
<1>9. read <= latest
  BY <1>1, <1>2, <1>3
<1> QED BY <1>2, <1>4, <1>6, <1>7, <1>8, <1>9 DEF read

\* A page moves the cursor to what it brought, and drops what is not above it.
LEMMA PageEpoch ==
    ASSUME ClientInv, EpochInv, ClientOK', UNCHANGED <<serverVars, netVars, reset, hydrate>>,
           NEW read \in Seqs, read <= latest, cursor.applied <= read,
           cursor' \in Cursors, cursor'.applied = read,
           cursor'.shown <= latest, cursor'.inbound <= latest,
           cursor'.observed <= latest, cursor.observed <= cursor'.observed,
           pending' \subseteq pending, \A p \in pending : p > read => p \in pending',
           InLog(recovery', latest),
           \A s \in Seqs : read < s /\ Asks(recovery, s) => Asks(recovery', s)
    PROVE  ClientEpoch' /\ NothingForgotten'
<1>1. EpochFacts
  BY EpochGives
<1>2. CursorInLog'
  <2>1. cursor'.observed \in Nat
    BY SeqsFacts DEF Cursors
  <2>2. pending' \subseteq pending \cup {0} /\ 0 <= cursor'.observed
    BY <2>1
  <2> QED BY <1>1, <2>2, SeqsFacts, CursorHeard DEF EpochInv
<1>3. RecoveryInLog' /\ NeverReset'
  BY DEF EpochInv, NeverReset, RecoveryInLog, serverVars
<1>4. NothingForgotten'
  <2>1. ASSUME NEW s \in Seqs, read < s, Waits(s)
        PROVE  Waits(s)'
    <3>1. PICK p \in pending : s <= p
      BY <2>1 DEF Waits
    <3>2. s \in Nat /\ p \in Nat /\ read \in Nat
      BY <1>1 DEF EpochFacts
    <3>3. p \in pending'
      BY <2>1, <3>1, <3>2
    <3> QED BY <3>1, <3>3 DEF Waits
  <2>2. ASSUME NEW s \in Seqs, cursor'.applied < s, Covered(s)
        PROVE  Covered(s)'
    BY <2>1, <2>2 DEF Covered, OnWire, netVars
  <2>3. UNCHANGED fanned /\ sock' = sock
    BY DEF serverVars, netVars
  <2> QED BY <1>1, <2>2, <2>3, StillCovered DEF EpochInv, EpochFacts
<1> QED BY <1>2, <1>3, <1>4 DEF ClientEpoch

LEMMA PageMoreEpoch ==
    ASSUME ClientInv, EpochInv, ClientOK', UNCHANGED <<serverVars, netVars, hydrate>>,
           recovery.pc = "answered",
           NEW read \in Seqs, read = Max({cursor.applied} \cup Unapplied(recovery)),
           PageMore(Paged(Unapplied(recovery), read), Unapplied(recovery), read)
    PROVE  ClientEpoch' /\ NothingForgotten'
<1> DEFINE news == Unapplied(recovery)
           paged == Paged(news, read)
<1>1. EpochFacts
  BY EpochGives
<1>2. /\ cursor.applied <= read /\ read <= latest
      /\ AfterPage(recovery) \in Seqs /\ AfterPage(recovery) <= latest /\ FirstSeq <= AfterPage(recovery)
      /\ KnownLatest(recovery) \in Seqs /\ KnownLatest(recovery) <= latest
      /\ recovery.target <= KnownLatest(recovery)
  BY <1>1, ReadInLog DEF EpochInv
<1>3. news = {} => read = cursor.applied
  BY <1>1, ReadFacts DEF EpochFacts
<1>4. /\ paged \in Cursors /\ paged.applied = read
      /\ cursor.observed <= paged.observed
      /\ paged.shown \in {cursor.shown, read}
      /\ paged.observed \in {cursor.observed, cursor.shown, read}
      /\ paged.inbound = cursor.inbound
  <2> HIDE DEF news
  <2>1. news = {} => read = cursor.applied
    BY <1>3
  <2>2. cursor \in Cursors /\ pending \in SUBSET Seqs /\ ~reset.active
    BY <1>1 DEF EpochFacts
  <2>3. PagedOK(paged, news, read)
    BY <2>1, <2>2, PagedShape
  <2> QED BY <2>3 DEF PagedOK
<1>5. /\ cursor' = paged
      /\ pending' = IF news = {} THEN pending ELSE Above(pending, read)
      /\ recovery' = [recovery EXCEPT !.pc = "asked", !.after = AfterPage(recovery),
                      !.latestSeq = KnownLatest(recovery), !.answer = NoPage]
      /\ UNCHANGED reset
  BY DEF PageMore
<1> HIDE DEF news, paged
<1>6. /\ recovery'.pc = "asked" /\ recovery'.after = AfterPage(recovery)
      /\ recovery'.latestSeq = KnownLatest(recovery) /\ recovery'.answer = NoPage
      /\ recovery'.target = recovery.target /\ recovery'.wanted = recovery.wanted
  BY <1>1, <1>5 DEF Recoveries, EpochFacts
<1>7. InLog(recovery', latest)
  <2>1. recovery.wanted <= latest /\ latest \in Nat
    BY <1>1 DEF EpochInv, RecoveryInLog, InLog, EpochFacts
  <2> QED BY <1>2, <1>6, <2>1 DEF InLog, NoPage
<1>8. \A s \in Seqs : Asks(recovery, s) => Asks(recovery', s)
  BY <1>6 DEF Asks
<1>9. pending' \subseteq pending /\ \A p \in pending : p > read => p \in pending'
  BY <1>5 DEF Above
<1>10. /\ cursor'.applied = read /\ cursor' \in Cursors
       /\ cursor'.shown <= latest /\ cursor'.inbound <= latest /\ cursor'.observed <= latest
       /\ cursor.observed <= cursor'.observed
  BY <1>1, <1>2, <1>4, <1>5 DEF EpochFacts
<1> QED BY <1>2, <1>5, <1>7, <1>8, <1>9, <1>10, PageEpoch

LEMMA PageCaughtEpoch ==
    ASSUME ClientInv, EpochInv, ClientOK', UNCHANGED <<serverVars, netVars, hydrate>>,
           recovery.pc = "answered",
           NEW read \in Seqs, read = Max({cursor.applied} \cup Unapplied(recovery)),
           PageCaught(Paged(Unapplied(recovery), read), Larger(read, AfterPage(recovery)))
    PROVE  ClientEpoch' /\ NothingForgotten'
<1> DEFINE news == Unapplied(recovery)
           paged == Paged(news, read)
<1>1. EpochFacts
  BY EpochGives
<1>2. /\ cursor.applied <= read /\ read <= latest
      /\ AfterPage(recovery) \in Seqs
      /\ KnownLatest(recovery) \in Seqs /\ KnownLatest(recovery) <= latest
      /\ recovery.target <= KnownLatest(recovery)
      /\ KnownLatest(recovery) = Larger(recovery.latestSeq, recovery.answer.latestSeq)
  BY <1>1, ReadInLog DEF EpochInv
<1>3. news = {} => read = cursor.applied
  BY <1>1, ReadFacts DEF EpochFacts
<1>4. /\ paged \in Cursors
      /\ cursor.observed <= paged.observed
      /\ paged.shown \in {cursor.shown, read}
      /\ paged.observed \in {cursor.observed, cursor.shown, read}
      /\ paged.inbound = cursor.inbound
  <2> HIDE DEF news
  <2>1. news = {} => read = cursor.applied
    BY <1>3
  <2>2. cursor \in Cursors /\ pending \in SUBSET Seqs /\ ~reset.active
    BY <1>1 DEF EpochFacts
  <2>3. PagedOK(paged, news, read)
    BY <2>1, <2>2, PagedShape
  <2> QED BY <2>3 DEF PagedOK
<1>5. ~recovery.stale /\ recovery.after <= cursor.applied
  BY DEF PageCaught, ClientInv, Planned, PageApplied
<1>6. AfterPage(recovery) <= read
  BY <1>1, <1>5, AfterIsRead DEF EpochFacts
<1>7. Larger(read, AfterPage(recovery)) = read
  <2>1. read \in Nat /\ AfterPage(recovery) \in Nat
    BY <1>2, SeqsFacts
  <2> QED BY <1>6, <2>1 DEF Larger
<1>8. /\ cursor' = CaughtCursor(paged, read)
      /\ pending' = Above(pending, read)
      /\ recovery' = Loop(recovery, read)
      /\ UNCHANGED reset
  BY <1>7 DEF PageCaught, CaughtCursor
<1>9. recovery.target <= read
  <2>1. AfterPage(recovery) >= KnownLatest(recovery)
    BY <1>2, OutcomeFacts DEF PageCaught
  <2>2. /\ recovery.target \in Nat /\ AfterPage(recovery) \in Nat /\ read \in Nat
        /\ KnownLatest(recovery) \in Nat
    BY <1>1, <1>2 DEF EpochFacts, Recoveries
  <2> QED BY <1>2, <1>6, <2>1, <2>2
<1> HIDE DEF news, paged
<1>10. /\ cursor' \in Cursors /\ cursor'.applied = read
       /\ cursor'.shown = paged.shown /\ cursor'.inbound = paged.inbound
       /\ cursor'.observed >= paged.observed
       /\ cursor'.observed \in {paged.observed, KnownLatest(recovery)}
  BY <1>1, <1>4, <1>8, CaughtShape DEF EpochFacts
<1>11. /\ cursor'.shown <= latest /\ cursor'.inbound <= latest /\ cursor'.observed <= latest
       /\ cursor.observed <= cursor'.observed
  <2>1. /\ cursor.observed \in Nat /\ paged.observed \in Nat /\ cursor'.observed \in Nat
    BY <1>1, <1>4, <1>10, SeqsFacts DEF EpochFacts, Cursors
  <2>2. paged.observed <= latest /\ paged.shown <= latest
    BY <1>1, <1>2, <1>4 DEF EpochFacts
  <2> QED BY <1>1, <1>2, <1>4, <1>10, <2>1, <2>2 DEF EpochFacts
<1>12. Looped(recovery', recovery, read)
  BY <1>1, <1>8, LoopShape DEF EpochFacts
<1>13. InLog(recovery', latest)
  <2>1. recovery.wanted <= latest
    BY DEF EpochInv, RecoveryInLog, InLog
  <2>2. FirstSeq <= read
    <3>1. FirstSeq \in Nat /\ cursor.applied \in Nat /\ read \in Nat /\ FirstSeq <= cursor.applied
      BY <1>1, SeqsFacts DEF EpochFacts
    <3> QED BY <1>2, <3>1
  <2> QED BY <1>1, <1>2, <1>12, <2>1, <2>2, LoopInLog DEF EpochFacts
<1>14. ASSUME NEW s \in Seqs, read < s, Asks(recovery, s)
       PROVE  Asks(recovery', s)
  <2>1. s \in Nat /\ read \in Nat /\ recovery.target \in Nat
    BY <1>1 DEF EpochFacts, Recoveries
  <2>2. s <= recovery.wanted
    BY <1>9, <1>14, <2>1 DEF Asks
  <2> QED BY <1>1, <1>12, <1>14, <2>2, LoopAsks DEF EpochFacts
<1>15. pending' \subseteq pending /\ \A p \in pending : p > read => p \in pending'
  BY <1>8 DEF Above
<1> QED BY <1>2, <1>8, <1>10, <1>11, <1>13, <1>14, <1>15, PageEpoch

\* No answer of the log declares the cursor expired.
LEMMA HandlePageEpoch ==
    ASSUME ClientInv, EpochInv, ClientOK', HandlePage
    PROVE  ClientEpoch' /\ NothingForgotten'
<1> DEFINE news == Unapplied(recovery)
           read == Max({cursor.applied} \cup news)
           paged == Paged(news, read)
<1>1. /\ recovery.pc = "answered"
      /\ \/ PageMore(paged, news, read) \/ PageStale
         \/ PageCaught(paged, Larger(read, AfterPage(recovery)))
         \/ PageEmpty \/ PageReset(ResetTarget(KnownLatest(recovery)))
  BY PageCases
<1>2. UNCHANGED <<serverVars, netVars, hydrate>>
  BY DEF HandlePage
<1>3. EpochFacts
  BY EpochGives
<1>4. Outcome(recovery) \notin {"empty", "reset"}
  <2>1. /\ ~recovery.answer.reset
        /\ recovery.answer.events = {} =>
              recovery.after >= recovery.latestSeq /\ recovery.after >= recovery.answer.latestSeq
    BY <1>1 DEF EpochInv, RecoveryInLog, InLog
  <2>2. recovery.after \in Nat /\ recovery.latestSeq \in Nat /\ recovery.answer.latestSeq \in Nat
    BY <1>3, SeqsFacts DEF EpochFacts, Recoveries, Pages
  <2>3. Outcome(recovery) # "empty"
    BY <2>1, OutcomeFacts
  <2>4. Outcome(recovery) # "reset"
    BY <2>1, <2>2, OutcomeFacts DEF Larger
  <2> QED BY <2>3, <2>4
<1>5. read \in Seqs
  BY <1>1, <1>3, ReadInLog DEF EpochInv
<1>6. CASE PageMore(paged, news, read)
  BY <1>1, <1>2, <1>5, <1>6, PageMoreEpoch
<1>7. CASE PageStale
  BY <1>7, PageStaleEpoch
<1>8. CASE PageCaught(paged, Larger(read, AfterPage(recovery)))
  BY <1>1, <1>2, <1>5, <1>8, PageCaughtEpoch
<1>9. CASE PageEmpty \/ PageReset(ResetTarget(KnownLatest(recovery)))
  BY <1>4, <1>9 DEF PageEmpty, PageReset
<1> QED BY <1>1, <1>6, <1>7, <1>8, <1>9

\* The deferred full state: a current one covers all that was waiting.
LEMMA HydrateEpoch ==
    ASSUME ClientInv, EpochInv, ClientOK', Hydrate \/ ServeHydrate \/ HandleHydrate
    PROVE  ClientEpoch' /\ NothingForgotten'
<1>1. EpochFacts
  BY EpochGives
<1>2. UNCHANGED <<serverVars, netVars, reset>>
  BY DEF Hydrate, ServeHydrate, HandleHydrate
<1>3. InLog(recovery, latest) /\ hydrate.answer <= latest /\ hydrate \in Hydrates
  BY DEF EpochInv, RecoveryInLog, CursorInLog, ClientInv, ClientOK
<1>4. 0 <= latest /\ snapshot <= latest /\ latest \in Nat
  BY <1>1 DEF EpochFacts, EpochInv, LogWhole
<1>5. CASE UNCHANGED <<cursor, pending, recovery>> /\ hydrate'.answer <= latest
  BY <1>2, <1>3, <1>5, RequestEpoch
<1>6. CASE Hydrate
  <2>1. UNCHANGED <<cursor, pending, recovery>> /\ hydrate'.answer = hydrate.answer
    BY <1>3, <1>6 DEF Hydrate, Hydrates
  <2> QED BY <1>3, <1>5, <2>1
<1>7. CASE ServeHydrate
  <2>1. UNCHANGED <<cursor, pending, recovery>> /\ hydrate'.answer = snapshot
    BY <1>3, <1>7 DEF ServeHydrate, Hydrates
  <2> QED BY <1>4, <1>5, <2>1
<1>8. CASE HandleHydrate
  <2>1. hydrate'.answer = 0
    BY <1>8 DEF HandleHydrate, Hydrated
  <2>2. CASE UNCHANGED <<cursor, pending, recovery>>
    BY <1>4, <1>5, <2>1, <2>2
  <2>3. CASE /\ hydrate.answer >= RequiredSeq /\ ApplySnapshot(hydrate.answer)
             /\ recovery' = Stale(recovery)
    <3> DEFINE answer == hydrate.answer
    <3>1. /\ answer \in Seqs /\ answer \in Nat /\ cursor.applied \in Nat /\ cursor.observed \in Nat
          /\ cursor.shown \in Nat /\ cursor.inbound \in Seqs
      BY <1>1, <1>3, SeqsFacts DEF Hydrates, EpochFacts
    <3>2. cursor.applied <= answer
      BY <1>1, <2>3, HydrateAhead DEF EpochFacts, ClientInv, ClientPart
    <3>3. /\ cursor' \in Cursors /\ cursor'.applied = answer /\ cursor'.shown = answer
          /\ cursor'.observed = Larger(cursor.observed, answer)
          /\ cursor'.inbound = Larger(cursor.inbound, answer) /\ pending' = {}
      BY <1>1, <2>3, <3>1, SnapshotShape DEF EpochFacts
    <3>4. cursor.observed <= answer
      BY <2>3, <3>1 DEF RequiredSeq, Larger
    <3>5. cursor'.observed = answer
      BY <3>1, <3>3, <3>4 DEF Larger
    <3>6. cursor'.inbound <= latest
      BY <1>1, <1>3, <3>1, <3>3, LargerFacts DEF EpochFacts
    <3>7. CursorInLog'
      <4>1. \A p \in pending' : p <= cursor'.observed
        BY <3>3
      <4>2. hydrate'.answer <= latest /\ latest' = latest
        BY <1>2, <1>4, <2>1 DEF serverVars
      <4> QED BY <1>1, <1>3, <3>2, <3>3, <3>5, <3>6, <4>1, <4>2, CursorFrame DEF EpochInv, EpochFacts
    <3> DEFINE running == recovery.pc # "idle"
    <3>8. recovery' = [recovery EXCEPT !.stale = running]
      BY <2>3 DEF Stale
    <3> HIDE DEF running
    <3>9. /\ recovery'.pc = recovery.pc /\ recovery'.after = recovery.after
          /\ recovery'.target = recovery.target /\ recovery'.latestSeq = recovery.latestSeq
          /\ recovery'.answer = recovery.answer /\ recovery'.wanted = recovery.wanted
      BY <1>1, <3>8 DEF Recoveries, EpochFacts
    <3>10. RecoveryInLog'
      <4>1. InLog(recovery', latest)
        BY <1>3, <3>9 DEF InLog
      <4> QED BY <1>2, <4>1 DEF RecoveryInLog, serverVars
    <3>11. NeverReset'
      BY <1>2 DEF EpochInv, NeverReset
    <3>12. NothingForgotten'
      <4>1. \A p \in pending : p <= answer
        BY <1>1, <3>1, <3>4 DEF EpochInv, CursorInLog, EpochFacts
      <4>2. ASSUME NEW s \in Seqs, cursor'.applied < s, Covered(s)
            PROVE  Covered(s)'
        <5>1. ~Waits(s)
          <6>1. s \in Nat /\ pending \subseteq Nat /\ answer < s
            BY <1>1, <3>3, <4>2 DEF EpochFacts
          <6> QED BY <3>1, <4>1, <6>1 DEF Waits
        <5>2. OnWire(s) => OnWire(s)'
          BY <1>2 DEF OnWire, netVars
        <5>3. Asks(recovery, s) => Asks(recovery', s)
          BY <3>9 DEF Asks
        <5> QED BY <4>2, <5>1, <5>2, <5>3 DEF Covered
      <4>3. cursor.applied <= cursor'.applied /\ UNCHANGED fanned /\ sock' = sock
        BY <1>2, <3>2, <3>3 DEF serverVars, netVars
      <4> QED BY <1>1, <4>2, <4>3, StillCovered DEF EpochInv, EpochFacts
    <3> QED BY <3>7, <3>10, <3>11, <3>12 DEF ClientEpoch
  <2>4. CASE /\ cursor' = [cursor EXCEPT !.shown = Larger(@, hydrate.answer)]
             /\ UNCHANGED <<pending, view, recovery>>
    <3> DEFINE shown == Larger(cursor.shown, hydrate.answer)
    <3>1. shown <= latest /\ shown \in Seqs
      BY <1>1, <1>3, LargerFacts DEF EpochFacts, Hydrates
    <3>2. cursor' = [cursor EXCEPT !.shown = shown]
      BY <2>4
    <3> HIDE DEF shown
    <3>3. /\ cursor' \in Cursors /\ cursor'.shown = shown
          /\ cursor'.applied = cursor.applied /\ cursor'.observed = cursor.observed
          /\ cursor'.inbound = cursor.inbound
      BY <1>1, <3>1, <3>2 DEF EpochFacts, Cursors
    <3>4. cursor.applied <= cursor'.applied
      <4>1. cursor.applied \in Nat
        BY <1>1 DEF EpochFacts
      <4> QED BY <3>3, <4>1
    <3>5. CursorInLog'
      <4>1. \A p \in pending' : p <= cursor'.observed
        BY <2>4, <3>3 DEF EpochInv, CursorInLog
      <4>2. hydrate'.answer <= latest /\ latest' = latest
        BY <1>2, <1>4, <2>1 DEF serverVars
      <4> QED BY <1>1, <3>1, <3>3, <3>4, <4>1, <4>2, CursorFrame DEF EpochInv, EpochFacts
    <3>6. RecoveryInLog' /\ NeverReset'
      BY <1>2, <2>4 DEF EpochInv, RecoveryInLog, NeverReset, serverVars
    <3>7. NothingForgotten'
      <4>1. ASSUME NEW s \in Seqs, cursor'.applied < s, Covered(s)
            PROVE  Covered(s)'
        BY <1>2, <2>4, <4>1 DEF Covered, OnWire, Waits, netVars
      <4>2. UNCHANGED <<fanned, sock>>
        BY <1>2 DEF serverVars, netVars
      <4> QED BY <1>1, <3>4, <4>1, <4>2, StillCovered DEF EpochInv, EpochFacts
    <3> QED BY <3>5, <3>6, <3>7 DEF ClientEpoch
  <2> QED BY <1>8, <2>2, <2>3, <2>4 DEF HandleHydrate
<1> QED BY <1>6, <1>7, <1>8

-----------------------------------------------------------------------------
(* The epoch: the invariant. *)

LEMMA InitEpochInv ==
    ASSUME OneEpoch, Init
    PROVE  EpochInv
<1>1. FirstSeq \in Nat /\ FirstSeq \in Seqs /\ Seqs \subseteq Nat
  BY SeqsFacts
<1>2. LogWhole
  BY <1>1 DEF Init, LogWhole, Faults, NoFaults, Within
<1>3. CursorInLog
  BY <1>1 DEF Init, CursorInLog
<1>4. RecoveryInLog
  BY <1>1 DEF Init, RecoveryInLog, InLog, IdleRecovery, NoPage
<1>5. NeverReset /\ NothingForgotten
  BY DEF Init, NeverReset, NothingForgotten
<1> QED BY <1>2, <1>3, <1>4, <1>5 DEF EpochInv

LEMMA NextEpochInv ==
    ASSUME OneEpoch, ClientInv, EpochInv, [Next]_vars
    PROVE  EpochInv'
<1>1. CASE UNCHANGED vars
  <2>1. UNCHANGED <<latest, announced, fanned, oldest, snapshot, sock, hello, channel, faults>>
    BY <1>1 DEF vars, serverVars, netVars
  <2>2. UNCHANGED <<cursor, pending, recovery, reset, hydrate>>
    BY <1>1 DEF vars, clientVars
  <2>3. LogWhole'
    BY <2>1 DEF EpochInv, LogWhole
  <2>4. CursorInLog' /\ RecoveryInLog' /\ NeverReset'
    BY <2>1, <2>2 DEF EpochInv, CursorInLog, RecoveryInLog, NeverReset
  <2>5. NothingForgotten'
    BY <2>1, <2>2 DEF EpochInv, NothingForgotten, Covered, OnWire, Waits
  <2> QED BY <2>3, <2>4, <2>5 DEF EpochInv
<1>2. CASE Next
  <2>1. ClientInv'
    BY <1>2, NextClientInv
  <2>2. ClientOK' /\ ServerOK' /\ NetOK'
    BY <2>1 DEF ClientInv
  <2>3. LogWhole'
    BY <1>2, LogWholeStep DEF ClientInv, EpochInv
  <2>4. ~Prune /\ ~Restore
    BY NoPruneOrRestore DEF EpochInv, LogWhole
  <2>5. SUFFICES ClientEpoch' /\ NothingForgotten'
    BY <2>3 DEF ClientEpoch, EpochInv
  <2>6. ClientEpoch
    BY DEF EpochInv, ClientEpoch
  <2>7. CASE \/ Publish \/ Announce \/ FanOut \/ Connect \/ ReadHello \/ SendHello \/ Pong \/ Drop
             \/ RefreshSnapshot \/ HandleClose
    <3>1. NothingForgotten'
      BY <2>2, <2>7, ServerCovers
    <3>2. UNCHANGED clientVars
      BY <2>7 DEF Publish, Announce, FanOut, Connect, ReadHello, SendHello, Pong, Drop,
                  RefreshSnapshot, HandleClose
    <3>3. latest' = latest \/ latest' = latest + 1
      BY <2>7 DEF Publish, Announce, FanOut, Connect, ReadHello, SendHello, Pong, Drop,
                  RefreshSnapshot, HandleClose, serverVars
    <3> QED BY <2>2, <2>6, <3>1, <3>2, <3>3, ClientUntouched
  <2>8. CASE HandleHello
    BY <2>2, <2>8, HelloEpoch
  <2>9. CASE HandlePong
    BY <2>2, <2>9, PongEpoch
  <2>10. CASE HandleEvent
    BY <2>2, <2>10, EventEpoch
  <2>11. CASE Flush
    BY <2>2, <2>11, FlushEpoch
  <2>12. CASE Poll \/ Resume \/ RecoveryTimer
    BY <2>2, <2>12, PlansEpoch
  <2>13. CASE ServeBounds
    BY <2>2, <2>13, ServeBoundsEpoch
  <2>14. CASE ServePage
    BY <2>2, <2>14, ServePageEpoch
  <2>15. CASE FailPage
    BY <2>2, <2>15, FailPageEpoch
  <2>16. CASE HandlePage
    BY <2>2, <2>16, HandlePageEpoch
  <2>17. CASE Hydrate \/ ServeHydrate \/ HandleHydrate
    BY <2>2, <2>17, HydrateEpoch
  <2>18. CASE ServeState \/ FailState \/ HandleState \/ ResetTimer
    BY <2>18 DEF EpochInv, NeverReset, IdleReset, ServeState, FailState, HandleState, ResetTimer
  <2> QED
    BY <1>2, <2>4, <2>7, <2>8, <2>9, <2>10, <2>11, <2>12, <2>13, <2>14, <2>15, <2>16, <2>17, <2>18
       DEF Next, Environment, Deliver
<1> QED BY <1>1, <1>2

LEMMA QuietHasAll ==
    ASSUME ClientInv, EpochInv
    PROVE  QuietIsCaughtUp
<1>1. EpochFacts
  BY EpochGives
<1> SUFFICES ASSUME recovery.pc = "idle", ~recovery.timer, ~reset.active, pending = {},
                    NEW s \in (cursor.applied + 1)..fanned, sock = "open"
             PROVE  Carries(channel, s)
  BY DEF QuietIsCaughtUp, OnItsWay, Carries
<1>2. /\ cursor.applied \in Nat /\ fanned \in Nat /\ fanned \in Seqs /\ s \in Nat
      /\ s <= fanned /\ cursor.applied < s
  <2>1. cursor.applied \in Seqs /\ fanned \in Seqs /\ Seqs \subseteq Nat
    BY <1>1 DEF EpochFacts, ServerOK
  <2>2. cursor.applied \in Nat /\ fanned \in Nat
    BY <2>1
  <2> QED BY <2>1, <2>2
<1>3. s \in Seqs
  BY <1>2, SeqsFacts
<1>4. Covered(s)
  BY <1>2, <1>3 DEF EpochInv, NothingForgotten
<1>5. ~Asks(recovery, s)
  <2>1. recovery.wanted \in Nat
    BY <1>1 DEF EpochFacts, Recoveries
  <2>2. ~(recovery.wanted > cursor.applied)
    BY DEF ClientInv, Planned, WakeUpArmed
  <2> QED BY <1>2, <2>1, <2>2 DEF Asks
<1> QED BY <1>4, <1>5 DEF Covered, OnWire, Waits

\* A client that waits for nothing has applied all that the hub has sent: while
\* its connection is open, every event above its cursor is still on the wire
\* (App.tsx: every path that drops messages asks for a recovery).  It holds in one
\* life of a log that is not pruned, for every number of events, drops of the
\* connection and failures of requests, and every size of page, batch and queue.
THEOREM QuietClientsAreCaughtUp ==
    ASSUME OneEpoch
    PROVE  Spec => []QuietIsCaughtUp
<1>1. Init => EpochInv
  BY InitEpochInv
<1>2. ClientInv /\ EpochInv /\ [Next]_vars => EpochInv'
  BY NextEpochInv
<1>3. ClientInv /\ EpochInv => QuietIsCaughtUp
  BY QuietHasAll
<1> QED BY <1>1, <1>2, <1>3, ClientInvHolds, PTL DEF Spec
=============================================================================
