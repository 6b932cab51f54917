------------------------------- MODULE LiveClient -------------------------------
(***************************************************************************)
(* The browser's live cursor (web/src/App.tsx with liveCursor.ts,           *)
(* eventRecovery.ts, livePacing.ts and bootstrapHydration.ts) against the   *)
(* server's three surfaces: the WebSocket of the public hub, the paged      *)
(* event log /public/events and the cached snapshot /public/state.          *)
(*                                                                          *)
(* Every browser callback is one atomic step of the event loop: a message,  *)
(* an animation frame, a timer, the answer of a fetch with the promise      *)
(* reactions that follow it.  What the callbacks share is the state of the  *)
(* refs; between a fetch and its answer every other callback may run.       *)
(* A cursor is a sequence of the durable log; an event is its sequence.     *)
(***************************************************************************)
EXTENDS Integers, Sequences, FiniteSets, FiniteSetsExt

CONSTANTS
    FirstSeq,    \* sequence of the bootstrap the client starts from
    PageLimit,   \* events per page of /public/events (1000 in the code)
    BatchLimit,  \* LIVE_ENVELOPE_MAX_BATCH_SIZE (256)
    PendingCap,  \* LIVE_ENVELOPE_MAX_PENDING (4096)
    HydrateRetries, \* retries of the full-state fetch (8)
    MaxSeq,      \* bound: events published in one epoch of the log
    MaxDrops,    \* bound: lost connections
    MaxFails,    \* bound: failed HTTP requests
    MaxPrunes,   \* bound: retention batches
    MaxRestores, \* bound: restarts on an older or empty database
    MaxPongs,    \* bound: answers to the client's pings
    RetainLast,  \* TRUE: the network is never silent for the whole retention period
    OldestRestore, \* the least length of a restored log (0: a fresh database)
    HelloSeqs    \* process-local sequences a hello carries while the log is empty

ASSUME LimitsAssumption == {PageLimit, BatchLimit, PendingCap} \subseteq Nat \ {0}
ASSUME BoundsAssumption ==
    {FirstSeq, HydrateRetries, MaxSeq, MaxDrops, MaxFails, MaxPrunes, MaxRestores,
     MaxPongs, OldestRestore} \subseteq Nat
ASSUME RetainAssumption == RetainLast \in BOOLEAN
ASSUME HelloAssumption == HelloSeqs \subseteq Nat \ {0} /\ IsFiniteSet(HelloSeqs)

VARIABLES
    latest,   \* server: the last sequence of the log
    announced, \* server: Hub.latestSeq
    fanned,   \* server: the last sequence that was put on the connections' queues
    oldest,   \* server: the first retained sequence
    snapshot, \* server: sequence of the cached snapshot
    sock,     \* "down", "registered", "greeting" (hello read, not sent), "open", "closing"
    hello,    \* the sequence the server read for the hello
    channel,  \* messages on their way to the browser
    faults,   \* how often each kind of fault has happened
    cursor,   \* the refs: applied, queued, observed, inbound; shown: state.latestSeq
    pending,  \* pendingMessagesRef: enqueued events
    recovery, \* the recover loop: its request, its queue and its retry timer
    reset,    \* refreshState: its request, its floor, its flags and its timer
    hydrate,  \* the deferred full-state fetch after the bootstrap
    view      \* history: the events the display shows

serverVars == <<latest, announced, fanned, oldest, snapshot>>
netVars == <<sock, hello, channel>>
clientVars == <<cursor, pending, recovery, reset, hydrate, view>>
vars == <<serverVars, netVars, faults, clientVars>>

NoFaults == [drops |-> 0, fails |-> 0, prunes |-> 0, restores |-> 0, pongs |-> 0]
\* after, target, latestSeq: the state of recoverPublicEventPages; stale: the
\* cursor generation changed since this request was planned; wanted, poll:
\* queuedRecoveryTarget and queuedRecoveryPoll; timer: recoveryRetryTimer.
NoPage == [reset |-> FALSE, latestSeq |-> 0, events |-> {}]
IdleRecovery == [pc |-> "idle", after |-> 0, target |-> 0, latestSeq |-> 0, stale |-> FALSE,
                 answer |-> NoPage, wanted |-> 0, poll |-> FALSE, timer |-> FALSE]
\* active: resetRecoveryActive, which stateRefreshIsCursorReset and
\* cursorEpochResetActiveRef follow; timer: stateRefreshRetryTimer.
IdleReset == [pc |-> "idle", answer |-> 0, floor |-> 0, active |-> FALSE, timer |-> FALSE]

Larger(a, b) == IF a >= b THEN a ELSE b
Fault(kind, bound) ==
    faults[kind] < bound /\ faults' = [faults EXCEPT ![kind] = @ + 1]

Init ==
    /\ latest = FirstSeq /\ announced = FirstSeq /\ fanned = FirstSeq
    /\ oldest = 1 /\ snapshot = FirstSeq
    /\ sock = "down" /\ hello = 0 /\ channel = <<>> /\ faults = NoFaults
    /\ cursor = [applied |-> FirstSeq, queued |-> FirstSeq, shown |-> FirstSeq,
                 observed |-> FirstSeq, inbound |-> FirstSeq]
    /\ pending = {} /\ recovery = IdleRecovery /\ reset = IdleReset
    /\ hydrate = [pc |-> "deferred", answer |-> 0, retries |-> 0]
    /\ view = 1..FirstSeq

-----------------------------------------------------------------------------
(* The server. *)

Message(type, seq) == [type |-> type, seq |-> seq]

Connected == sock \in {"registered", "greeting", "open"}

\* An event is durable; later BroadcastPublicEvent announces its sequence, and
\* then puts it on the queue of the registered connection.
Publish ==
    /\ latest < MaxSeq
    /\ latest' = latest + 1
    /\ UNCHANGED <<announced, fanned, oldest, snapshot, netVars, faults, clientVars>>

Announce ==
    /\ fanned = announced
    /\ announced < latest
    /\ announced' = announced + 1
    /\ UNCHANGED <<latest, fanned, oldest, snapshot, netVars, faults, clientVars>>

FanOut ==
    /\ fanned < announced
    /\ fanned' = announced
    /\ channel' = IF Connected THEN Append(channel, Message("event", announced)) ELSE channel
    /\ UNCHANGED <<latest, announced, oldest, snapshot, sock, hello, faults, clientVars>>

\* ServeHTTPWithClose registers the connection, then reads the sequence of the
\* hello, then sends it; a broadcast may come in between.
Connect ==
    /\ sock = "down"
    /\ sock' = "registered"
    /\ UNCHANGED <<serverVars, hello, channel, faults, clientVars>>

ReadHello ==
    /\ sock = "registered"
    /\ sock' = "greeting"
    /\ hello' \in (IF announced > 0 THEN {announced} ELSE HelloSeqs)
    /\ UNCHANGED <<serverVars, channel, faults, clientVars>>

SendHello ==
    /\ sock = "greeting"
    /\ sock' = "open"
    /\ hello' = 0
    /\ channel' = Append(channel, Message("hello", hello))
    /\ UNCHANGED <<serverVars, faults, clientVars>>

\* The hub answers a ping of the client, the fan-out in progress or not.
Pong ==
    /\ sock = "open"
    /\ Fault("pongs", MaxPongs)
    /\ channel' = Append(channel, Message("pong", announced))
    /\ UNCHANGED <<serverVars, sock, hello, clientVars>>

\* The connection breaks: a suffix of what was sent never arrives.
BreakSocket ==
    /\ sock' = "closing"
    /\ hello' = 0
    /\ \E k \in 0..Len(channel) :
          channel' = Append(SubSeq(channel, 1, k), Message("close", 0))

Drop ==
    /\ Connected
    /\ Fault("drops", MaxDrops)
    /\ BreakSocket
    /\ UNCHANGED <<serverVars, clientVars>>

\* The cache is reconciled with the log.
RefreshSnapshot ==
    /\ snapshot # latest
    /\ snapshot' = latest
    /\ UNCHANGED <<latest, announced, fanned, oldest, netVars, faults, clientVars>>

\* Retention removes a batch of the oldest events.  The last one goes after a
\* day of silence, when everything has long been announced and is in the
\* snapshot; sequences are AUTOINCREMENT and never start again.
Prune ==
    /\ \E k \in (oldest + 1)..(latest + 1) :
          /\ k > latest => ~RetainLast /\ {fanned, announced, snapshot} = {latest}
          /\ oldest' = k
    /\ Fault("prunes", MaxPrunes)
    /\ UNCHANGED <<latest, announced, fanned, snapshot, netVars, clientVars>>

\* The process restarts on a database whose log is shorter; answers of the
\* old process have arrived or failed by the time the new one listens.
Restore ==
    /\ {"bounded", "answered"} \cap {recovery.pc, reset.pc, hydrate.pc} = {}
    /\ Fault("restores", MaxRestores)
    /\ \E k \in OldestRestore..(latest - 1) : 
          latest' = k /\ announced' = k /\ fanned' = k /\ snapshot' = k /\ oldest' = 1
    /\ CASE Connected -> BreakSocket [] OTHER -> UNCHANGED netVars
    /\ UNCHANGED clientVars

\* GET /public/events?afterSeq=a reads the bounds of the log, and answers at
\* once when the cursor is not within them.
Retained == oldest..latest
LastRetained == Max({0} \cup Retained)
NotRetained(a) == a <= 0 \/ (Retained # {} /\ a < oldest - 1) \/ a > LastRetained

ServeBounds ==
    /\ recovery.pc = "asked"
    /\ LET gone == NotRetained(recovery.after)
       IN  recovery' = [recovery EXCEPT !.pc = IF gone THEN "answered" ELSE "bounded",
                          !.answer = [NoPage EXCEPT !.reset = gone, !.latestSeq = LastRetained]]
    /\ UNCHANGED <<serverVars, netVars, faults, cursor, pending, reset, hydrate, view>>

\* The page is a second query: the log may have grown or lost rows in between.
Page(a) ==
    LET above == {s \in Retained : s > a}
    IN  {s \in above : Cardinality({t \in above : t < s}) < PageLimit}

ServePage ==
    /\ recovery.pc = "bounded"
    /\ recovery' = [recovery EXCEPT !.pc = "answered", !.answer.events = Page(recovery.after)]
    /\ UNCHANGED <<serverVars, netVars, faults, cursor, pending, reset, hydrate, view>>

ServeState ==
    /\ reset.pc = "asked"
    /\ reset' = [reset EXCEPT !.pc = "answered", !.answer = snapshot]
    /\ UNCHANGED <<serverVars, netVars, faults, cursor, pending, recovery, hydrate, view>>

ServeHydrate ==
    /\ hydrate.pc = "asked"
    /\ hydrate' = [hydrate EXCEPT !.pc = "answered", !.answer = snapshot]
    /\ UNCHANGED <<serverVars, netVars, faults, cursor, pending, recovery, reset, view>>

-----------------------------------------------------------------------------
(* The browser: planning a recovery.                                        *)

Parked(rec) == [IdleRecovery EXCEPT !.wanted = rec.wanted, !.poll = rec.poll, !.timer = rec.timer]

\* The head of the recover loop: consume what is queued, or end.  A target
\* that is already applied returns at once, without a request.
Loop(rec, applied) ==
    IF ~(rec.poll \/ rec.wanted > applied) \/ (rec.wanted \in 1..applied)
    THEN Parked([rec EXCEPT !.wanted = IF rec.poll THEN 0 ELSE @, !.poll = FALSE])
    ELSE [IdleRecovery EXCEPT !.pc = "asked", !.after = applied, !.target = rec.wanted,
            !.latestSeq = Larger(applied, rec.wanted), !.timer = rec.timer]

\* Mutant: only the latest target is remembered.
MutLatestTargetOnly(rec, target) ==
    IF target > 0 THEN [rec EXCEPT !.wanted = target] ELSE [rec EXCEPT !.poll = TRUE]

Queue(rec, target) ==
    IF target > 0 THEN [rec EXCEPT !.wanted = Larger(@, target)] ELSE [rec EXCEPT !.poll = TRUE]

\* Mutant: a recovery starts during a reset.
MutRecoverDuringReset(rec, target, applied) ==
    IF rec.pc # "idle" THEN Queue(rec, target)
    ELSE Loop([Queue(rec, target) EXCEPT !.timer = FALSE], applied)

\* backfillOrRefresh(target); target 0 stands for undefined.
Backfill(rec, target, applied) ==
    LET queued == Queue(rec, target)
    IN  IF rec.pc # "idle" \/ reset.active THEN queued
        ELSE Loop([queued EXCEPT !.timer = FALSE], applied)

\* Mutant: the watermark survives the queue.
MutKeepWatermark(c) == c

\* pendingMessagesRef emptied: the watermark falls back to the cursor.
Dropped(c) == [c EXCEPT !.queued = c.applied]

\* pendingMessagesRef filtered by retainLiveEnvelopesAfterCursor.
Above(events, applied) == {s \in events : s > applied}
\* Mutant: a page does not move the cursor.
MutCursorNotMoved(c, applied, events) ==
    [c EXCEPT !.queued = Max({c.applied} \cup Above(events, applied))]

Advance(c, applied, events) ==
    [c EXCEPT !.applied = applied, !.queued = Max({applied} \cup Above(events, applied))]

\* Rendered events raise state.latestSeq, and its effect the observed sequence.
Render(c, seq) ==
    LET shown == Larger(c.shown, seq)
    IN  [c EXCEPT !.shown = shown, !.observed = IF reset.active THEN @ ELSE Larger(@, shown)]

-----------------------------------------------------------------------------
(* The browser: the socket's messages and the animation frame.              *)

Inbound == Head(channel)

HandleHello ==
    /\ channel # <<>> /\ Inbound.type = "hello"
    /\ channel' = Tail(channel)
    /\ cursor' = [Render(cursor, Inbound.seq) EXCEPT
                     !.inbound = Inbound.seq, !.observed = Larger(@, Inbound.seq)]
    /\ recovery' = Backfill(recovery,
          IF Inbound.seq < cursor.applied THEN 0 ELSE Inbound.seq, cursor.applied)
    /\ UNCHANGED <<serverVars, sock, hello, faults, pending, reset, hydrate, view>>

\* A pong only raises what the client has heard of and what it shows.
HandlePong ==
    /\ channel # <<>> /\ Inbound.type = "pong"
    /\ channel' = Tail(channel)
    /\ cursor' = [Render(cursor, Inbound.seq) EXCEPT
                     !.inbound = Larger(@, Inbound.seq), !.observed = Larger(@, Inbound.seq)]
    /\ UNCHANGED <<serverVars, sock, hello, faults, pending, recovery, reset, hydrate, view>>

Overflow == Cardinality(pending) >= PendingCap

\* An event during a reset only queues a recovery; one at or below the
\* watermark is dropped; one too many drops the queue and asks for recovery.
HandleEvent ==
    /\ channel # <<>> /\ Inbound.type = "event"
    /\ channel' = Tail(channel)
    /\ LET seq == Inbound.seq
           seen == [cursor EXCEPT !.inbound = Larger(@, seq), !.observed = Larger(@, seq)]
           fresh == seq > Larger(cursor.applied, cursor.queued)
       IN  \/ /\ reset.active
              /\ cursor' = seen
              /\ recovery' = Backfill(recovery, seq, cursor.applied)
              /\ UNCHANGED pending
           \/ /\ ~reset.active /\ ~fresh
              /\ cursor' = seen
              /\ UNCHANGED <<pending, recovery>>
           \/ /\ ~reset.active /\ fresh /\ ~Overflow
              /\ cursor' = [seen EXCEPT !.queued = seq]
              /\ pending' = pending \cup {seq}
              /\ UNCHANGED recovery
           \/ /\ ~reset.active /\ fresh /\ Overflow
              /\ cursor' = Dropped(seen)
              /\ pending' = {}
              /\ recovery' = Backfill(recovery, seq, cursor.applied)
    /\ UNCHANGED <<serverVars, sock, hello, faults, reset, hydrate, view>>

HandleClose ==
    /\ channel # <<>> /\ Inbound.type = "close"
    /\ channel' = Tail(channel)
    /\ sock' = "down"
    /\ UNCHANGED <<serverVars, hello, faults, clientVars>>

\* flushMessages: the first batch of the sorted queue.
Flush ==
    /\ pending # {}
    /\ LET due == {s \in pending : Cardinality({t \in pending : t < s}) < BatchLimit}
           accepted == Above(due, cursor.applied)
           applied == Max({cursor.applied} \cup accepted)
       IN  /\ cursor' = Render([cursor EXCEPT !.applied = applied], applied)
           /\ pending' = Above(pending \ due, applied)
           /\ view' = view \cup accepted
    /\ UNCHANGED <<serverVars, netVars, faults, recovery, reset, hydrate>>

-----------------------------------------------------------------------------
(* The browser: the answers of /public/events.                              *)

\* What recoverPublicEventPages makes of a page.
Outcome(rec) ==
    LET page == rec.answer
        known == Larger(rec.latestSeq, page.latestSeq)
        after == Max({rec.after} \cup page.events)
    IN  CASE page.reset /\ page.latestSeq = 0 /\ rec.after = 0 -> "empty"
          [] page.reset -> "reset"
          [] page.events = {} /\ rec.after < known -> "reset"  \* unrecoverable-gap
          [] after >= known -> "caught-up"
          [] OTHER -> "more"

\* applyPage: a page of an older cursor generation changes nothing.
Unapplied(rec) == IF rec.stale THEN {} ELSE Above(rec.answer.events, cursor.applied)

AfterPage(rec) == Max({rec.after} \cup rec.answer.events)
KnownLatest(rec) ==
    IF rec.answer.reset THEN rec.answer.latestSeq ELSE Larger(rec.latestSeq, rec.answer.latestSeq)

\* liveCursorResetTarget.
ResetTarget(serverLatest) ==
    IF serverLatest < cursor.applied /\ cursor.inbound >= cursor.applied
    THEN serverLatest ELSE Larger(serverLatest, cursor.inbound)

HandlePage ==
    /\ recovery.pc = "answered"
    /\ LET rec == recovery
           outcome == Outcome(rec)
           news == Unapplied(rec)
           read == Max({cursor.applied} \cup news)
           paged == IF news = {} THEN cursor ELSE Render(Advance(cursor, read, pending), read)
           caught == Larger(read, AfterPage(rec))
           target == ResetTarget(KnownLatest(rec))
       IN  \/ /\ outcome = "more"
              /\ cursor' = paged
              /\ pending' = IF news = {} THEN pending ELSE Above(pending, read)
              /\ recovery' = [rec EXCEPT !.pc = "asked", !.after = AfterPage(rec),
                                !.latestSeq = KnownLatest(rec), !.answer = NoPage]
              /\ UNCHANGED reset
           \/ /\ outcome # "more" /\ rec.stale
              /\ recovery' = Loop([rec EXCEPT !.wanted = Larger(@,
                     IF rec.target > 0 THEN rec.target ELSE cursor.observed)], cursor.applied)
              /\ UNCHANGED <<cursor, pending, reset>>
           \/ /\ outcome = "caught-up" /\ ~rec.stale
              /\ cursor' = [Advance(paged, caught, pending) EXCEPT
                              !.observed = Larger(@, KnownLatest(rec))]
              /\ pending' = Above(pending, caught)
              /\ recovery' = Loop(rec, caught)
              /\ UNCHANGED reset
           \/ /\ outcome = "empty" /\ ~rec.stale
              /\ recovery' = Loop(rec, cursor.applied)
              /\ UNCHANGED <<cursor, pending, reset>>
           \/ /\ outcome = "reset" /\ ~rec.stale
              /\ cursor' = [cursor EXCEPT !.observed = target, !.inbound = target,
                                           !.queued = target]
              /\ pending' = {}
              /\ recovery' = [IdleRecovery EXCEPT !.wanted = target]
              /\ reset' = [IdleReset EXCEPT !.pc = "asked", !.floor = target, !.active = TRUE]
    /\ view' = view \cup Unapplied(recovery)
    /\ UNCHANGED <<serverVars, netVars, faults, hydrate>>

\* A transport failure: the target is queued again and the timer armed.
FailPage ==
    /\ recovery.pc \in {"asked", "bounded"}
    /\ Fault("fails", MaxFails)
    /\ recovery' = [Parked(Queue(recovery, recovery.target)) EXCEPT !.timer = TRUE]
    /\ UNCHANGED <<serverVars, netVars, cursor, pending, reset, hydrate, view>>

RecoveryTimer ==
    /\ recovery.timer
    /\ recovery' = Backfill([recovery EXCEPT !.timer = FALSE], recovery.wanted, cursor.applied)
    /\ UNCHANGED <<serverVars, netVars, faults, cursor, pending, reset, hydrate, view>>

\* Polling while the socket is not live.
Poll ==
    /\ sock # "open"
    /\ recovery' = Backfill(recovery, 0, cursor.applied)
    /\ UNCHANGED <<serverVars, netVars, faults, cursor, pending, reset, hydrate, view>>

\* The page comes back to the foreground.
Resume ==
    /\ sock = "open"
    /\ recovery' = Backfill(recovery, 0, cursor.applied)
    /\ UNCHANGED <<serverVars, netVars, faults, cursor, pending, reset, hydrate, view>>

-----------------------------------------------------------------------------
(* The browser: snapshots.                                                  *)

\* applyPublicSnapshot: the generation changes, the queue is dropped and every
\* cursor is set to the snapshot's sequence.
ApplySnapshot(seq) ==
    /\ cursor' = [applied |-> seq, queued |-> seq, shown |-> seq,
                  observed |-> Larger(cursor.observed, seq),
                  inbound |-> Larger(cursor.inbound, seq)]
    /\ pending' = {}
    /\ view' = 1..seq

Stale(rec) == [rec EXCEPT !.stale = rec.pc # "idle"]

\* The answer of /public/state to a reset: too old, or the new epoch.
HandleState ==
    /\ reset.pc = "answered"
    /\ \/ /\ reset.answer < reset.floor
          /\ reset' = [reset EXCEPT !.pc = "idle", !.answer = 0, !.timer = TRUE]
          /\ UNCHANGED <<cursor, pending, view, recovery>>
       \/ /\ reset.answer >= reset.floor
          /\ ApplySnapshot(reset.answer)
          /\ reset' = IdleReset
          /\ recovery' = Loop(Queue(recovery, cursor'.observed), cursor'.applied)
    /\ UNCHANGED <<serverVars, netVars, faults, hydrate>>

FailState ==
    /\ reset.pc = "asked"
    /\ Fault("fails", MaxFails)
    /\ reset' = [reset EXCEPT !.pc = "idle", !.timer = TRUE]
    /\ UNCHANGED <<serverVars, netVars, cursor, pending, recovery, hydrate, view>>

\* Mutant: the timer finds the failed request's in-flight flag still set and gives up.
MutTimerGivesUp ==
    /\ reset.timer
    /\ reset' = [reset EXCEPT !.timer = FALSE]
    /\ UNCHANGED <<serverVars, netVars, faults, cursor, pending, recovery, hydrate, view>>

ResetTimer ==
    /\ reset.timer
    /\ reset' = [reset EXCEPT !.timer = FALSE, !.pc = "asked"]
    /\ UNCHANGED <<serverVars, netVars, faults, cursor, pending, recovery, hydrate, view>>

\* The deferred fetch of the full state after the bootstrap.
Hydrate ==
    /\ hydrate.pc = "deferred"
    /\ hydrate' = [hydrate EXCEPT !.pc = "asked"]
    /\ UNCHANGED <<serverVars, netVars, faults, cursor, pending, recovery, reset, view>>

\* Mutant: only the bootstrap's sequence is required.
MutRequireBootstrap == FirstSeq

\* What a snapshot without a floor has to reach.
RequiredSeq == Larger(cursor.shown, cursor.observed)

Hydrated == [pc |-> "done", answer |-> 0, retries |-> 0]

\* applyFullState: an answer older than the bootstrap is retried, at last given up;
\* a current one is applied; any other completes the topology (hydrateSnapshotTopology).
HandleHydrate ==
    /\ hydrate.pc = "answered"
    /\ \/ /\ hydrate.answer < FirstSeq
          /\ hydrate' = IF hydrate.retries < HydrateRetries
                        THEN [pc |-> "asked", answer |-> 0, retries |-> hydrate.retries + 1]
                        ELSE Hydrated
          /\ UNCHANGED <<cursor, pending, view, recovery>>
       \/ /\ hydrate.answer >= FirstSeq
          /\ hydrate.answer < RequiredSeq
          /\ hydrate' = Hydrated
          /\ cursor' = [cursor EXCEPT !.shown = Larger(@, hydrate.answer)]
          /\ UNCHANGED <<pending, view, recovery>>
       \/ /\ hydrate.answer >= FirstSeq
          /\ hydrate.answer >= RequiredSeq
          /\ hydrate' = Hydrated
          /\ ApplySnapshot(hydrate.answer)
          /\ recovery' = Stale(recovery)
    /\ UNCHANGED <<serverVars, netVars, faults, reset>>

-----------------------------------------------------------------------------
Deliver == HandleHello \/ HandleEvent \/ HandlePong \/ HandleClose
Environment == Publish \/ Pong \/ Drop \/ Prune \/ Restore \/ FailPage \/ FailState \/ Resume
Next ==
    \/ Environment
    \/ Announce \/ FanOut \/ Connect \/ ReadHello \/ SendHello \/ RefreshSnapshot
    \/ ServeBounds \/ ServePage \/ ServeState \/ ServeHydrate
    \/ Deliver \/ Flush \/ HandlePage \/ RecoveryTimer \/ Poll
    \/ HandleState \/ ResetTimer \/ Hydrate \/ HandleHydrate

Spec == Init /\ [][Next]_vars

\* Timers fire, requests are answered or fail, frames are drawn, the socket
\* reconnects, the server reconciles its cache.  Nothing makes it publish, poll
\* or hydrate.  What ends by itself shares one condition; the two loops of
\* requests, which may not, have one each.
Fairness ==
    /\ WF_vars(Announce \/ FanOut \/ Connect \/ ReadHello \/ SendHello \/ Deliver \/ Flush)
    /\ WF_vars(ServeBounds \/ ServePage \/ HandlePage \/ RecoveryTimer)
    /\ WF_vars(ServeState \/ HandleState \/ ResetTimer)
    /\ WF_vars(RefreshSnapshot)
FairSpec == Spec /\ Fairness

-----------------------------------------------------------------------------
(* Properties. *)

Seqs == 0..Max({MaxSeq, FirstSeq} \cup HelloSeqs)
Pcs == {"idle", "asked", "answered"}

\* Every ref holds a sequence, the queue stays within its cap, and only the
\* first fetch of a reset is planned while no other is in flight (App.tsx refs).
TypeOK ==
    /\ {latest, announced, fanned, oldest - 1, snapshot, hello} \subseteq Seqs
    /\ sock \in {"down", "registered", "greeting", "open", "closing"}
    /\ \A i \in DOMAIN channel : channel[i] \in
          [type : {"hello", "event", "pong", "close"}, seq : Seqs]
    /\ cursor \in [applied : Seqs, queued : Seqs, shown : Seqs, observed : Seqs, inbound : Seqs]
    /\ pending \subseteq Seqs /\ Cardinality(pending) <= PendingCap
    /\ recovery \in [pc : Pcs \cup {"bounded"}, after : Seqs, target : Seqs, latestSeq : Seqs, stale : BOOLEAN,
          answer : [reset : BOOLEAN, latestSeq : Seqs, events : SUBSET Seqs],
          wanted : Seqs, poll : BOOLEAN, timer : BOOLEAN]
    /\ reset \in [pc : Pcs, answer : Seqs, floor : Seqs, active : BOOLEAN, timer : BOOLEAN]
    /\ hydrate \in [pc : {"deferred", "asked", "answered", "done"}, answer : Seqs,
          retries : 0..HydrateRetries]
    /\ view \subseteq Seqs

\* The watermark below which live events are refused as duplicates is the last
\* event really applied or waiting: were it higher, an event that no one holds
\* would be refused (lastQueuedEventSeqRef against pendingMessagesRef). The types
\* are checked with it.
QueueWatermark ==
    /\ TypeOK
    /\ ~reset.active => cursor.queued = Max({cursor.applied} \cup pending)

\* A client that waits for nothing has applied all that the hub has sent: no
\* queued event, request, retry or reset is left, and yet no event is forgotten
\* (every path of App.tsx that drops messages asks for a recovery).  It holds as
\* long as the server never declares the cursor expired.
OnItsWay(s) ==
    \/ sock # "open"
    \/ \E i \in DOMAIN channel : channel[i].type \in {"event", "hello"} /\ channel[i].seq >= s

QuietIsCaughtUp ==
    recovery.pc = "idle" /\ ~recovery.timer /\ ~reset.active /\ pending = {}
        => \A s \in (cursor.applied + 1)..fanned : OnItsWay(s)

\* A recovery that is still wanted has a wake-up: the running loop, the retry
\* timer, or the end of the reset; and a reset has its request or its timer
\* (the finally of recover and the re-arming of refreshState).
WakeUpArmed ==
    /\ recovery.poll \/ recovery.wanted > cursor.applied =>
          recovery.pc # "idle" \/ recovery.timer \/ reset.active
    /\ reset.active => reset.pc # "idle" \/ reset.timer
    /\ reset.active => recovery.pc = "idle"

\* The display never shows an event beyond the durable cursor, so what a later
\* page brings is new to it (takeIncreasingLiveEnvelopes, applyPage).
NothingBeyondCursor == \A s \in view : s <= cursor.applied

\* The cursor moves back only by the snapshot that ends a reset which the
\* server declared (applyPublicSnapshot's recoveryFloor).
CursorOnlyBackByReset ==
    [][cursor'.applied < cursor.applied => reset.active]_vars

\* A lost connection, a failed page or state request, events pruned away under the
\* cursor: once the server falls silent the client comes to rest at the end of the
\* log, with the display's sequence there, too, nothing queued and no reset left
\* open. Which of the events it then has shown is NoSkippedEvent's matter. With
\* MaxSeq = 3 no live event overtakes the answer that declares the cursor expired;
\* one that does may be forgotten, which LiveClient_expired shows.
Converges ==
    <>[](cursor.applied = latest /\ cursor.shown = latest /\ pending = {} /\ ~reset.active)

\* docs/3.2.1/public-api.md: a consumer applies every event above its cursor.
\* Within one life of the log, everything at or below the cursor is shown.
NoSkippedEvent ==
    faults.restores = 0 => \A s \in 1..cursor.applied : s \in view

=============================================================================
