# MC-CartoLive: specifications of the live pipeline

TLA+ specifications of the part of MC-CartoLive that moves a radio message from
the MQTT session to the browser's map: the session and its queues, the single
SQLite writer, the publication of durable events with the cached public state,
the retention that makes room again, the WebSocket hub, the browser's socket
and its event cursor. The modules follow the Go and TypeScript code action by
action; `PROJECT.json` gives, for every definition, the lines it stands for.

## 1. The system and its parts

    MQTT broker -> mqtt.Client (bounded queue, one dispatcher)
                     -> HandleMQTT: primary write -> derived queue
                          -> derived worker: node upsert, resolver, live commit
                               -> public_events (durable log, seq)
                               -> PublicStateCache (snapshot)  -> /public/state
                               -> Hub.BroadcastPublicEvent     -> /ws/public
                          -> edge projection queue -> background writes
    every write goes through writeCoordinator -> SQLite
    cache refresher: SQLite -> PublicStateCache;  pruner: deletes old rows
    browser: bootstrap -> live socket + /public/events pages + /public/state resets

| Part | State | Operations | What makes it correct |
| --- | --- | --- | --- |
| Write coordinator (`app/write_coordinator.go`) | channel, three lane queues, whose turn it is, the running mutation | `Do`, `Close`, `run` | no request lost, doubled or misfiled; honest answers; lanes alternate; background last; shutdown ends |
| Store retries (`app/lifecycle.go`) | attempts of one write | `retryStoreWriteLane` | a retried ambiguous commit neither doubles nor loses what is published |
| Derived worker (`app/lifecycle.go`, `app/derived_ingest.go`) | the job, the committed events still to publish | `processDerivedMQTT`, `commitNonEdgeActivity`, `publishPublicEventBatch` | published in commit order, once per key |
| Public event log (`store/public_events.go`, `edges.go`, `observations.go`) | rows by `seq`, dedupe keys | insert-once, bounds, page after a cursor | at most one row per key; strictly increasing |
| Public state cache (`live/public_cache.go`) | readiness, state, mutation journal | `Apply*`, `ReplacePreservingMutations` | a snapshot holds what its `latestSeq` claims; converges to the store |
| Public hub (`live/hub.go`) and admission (`api/ws_admission.go`) | clients, send queues, latest sequence, slots per address | upgrade, hello, broadcast, ping, pumps, removal | hello and stream leave no hole; slots exact; dead peers released |
| Public HTTP API (`api/public_extended.go`, `api/routes.go`) | none of its own | `/public/events`, `/public/state` | resets when a cursor is not retained |
| Browser cursor (`App.tsx`, `liveCursor.ts`, `eventRecovery.ts`, `livePacing.ts`, `bootstrapHydration.ts`) | applied, queued, observed and inbound sequences, the pending queue, the recovery and reset loops | socket messages, frames, pages, snapshots, timers, polls | nothing shown beyond the cursor; whatever is announced gets recovered; resets end |
| Browser socket (`ws.ts`) | the socket in use, three timers, the listeners of every socket ever opened | open, message, close events, watchdog, `close()` | always a way back to a connection; quiet after `close()` |
| Resume (`resumeRecovery.ts`) | suspend cycles, the refresh that runs, the one queued | lifecycle signals, settling | no resume lost, no refresh of a hidden page |
| Ingest pipeline (`mqtt/client.go`, `app/derived_ingest.go`, `app/lifecycle.go`) | three bounded queues with their time lists, counters, one request per writer lane | submit, dispatch, derive, project | accounting; lossless backpressure; shutdown ends every loop |
| MQTT session (`mqtt/client.go`) | the flags, the paho client in use, the recovery's rate limit | connect, callbacks, watchdog, `forceReconnect`, shutdown | one live client; the subscription comes back |
| Retention (`store/prune.go`, `pruneLoop`) | cut-offs, the table a cycle has come to, its budget | gated cycles of bounded deletes | complete cycles are exact; yields to live work and comes round |
| Resolver, decoder, history, coverage, propagation, solar, UI panels, tooling | | | pure functions, read-only queries or rendering |

**Interaction.** Handlers, worker, refresher, pruner and projections are
goroutines that share the store through the coordinator and the cache and the
hub through mutexes. The hub reaches each browser through a bounded queue that
is never waited for. The browser is one event loop whose callbacks share React
refs, and every `await` lets other callbacks run in between.

**Hard behaviours** (the `hazards` of `PROJECT.json`, at their lines): lane
starvation and cancellation inside `Do`; commits whose answer is lost; a cache
rebuilt from unlocked reads while it is being mutated; registration, hello and
broadcast interleaved; three goroutines ending one connection; a full client
queue; a cursor fed by socket, pages and snapshots at once; retention, restarts
on older databases, and failed or late HTTP answers; goroutines that wait for
each other through three full queues and one writer; callbacks of a replaced
paho client and late events of replaced browser sockets; retention cycles cut
short anywhere.

## 2. The modules

### WriteCoordinator
One call of `Do` is a request. Its two `select`s are separate actions (`Offer`
or `OfferRefused`, then `Receive` or `Abandon`), because either context may end
in between and Go's `select` may take any ready branch, the admission included,
after the coordinator was closed. `run` is `Wake`/`Stop`, `Drain` until
`DrainDone`, `Pick` (lane choice and the writer's depth), `Start`/`Skip` (the
context check) and `Commit`/`Fail`. `depth` is the metric of
`live/runtime_stats.go`. `admitted`, `ahead`, `seen` and `bypass` are history
variables for the order properties.

### LivePublish
The primary handler is reduced to what the derived job carries (`TakePacket`,
`ReceiveStatus`, `TakeStatus`); the worker's stages are `UpsertNode`,
`InsertNode`, `BroadcastNode`, `ApplyNodeUpdate`, `CommitBatch`, `ApplyNext`,
`BroadcastNext`, in the code's order: a node update is broadcast before it is
applied, activities and pulses are applied before they are broadcast.
`TransientError` may leave the transaction committed (`Ambiguous`), `GiveUp` is
a permanent error, `Crash` ends the process and starts the next one on the same
store. A process may also start without a cursor (`Crash` with `hubSeq` 0), when
the reading of the last sequence fails. The refresher takes its mutation
generation, reads nodes and items separately (packets and edges, two queries, as
one read: each item comes from one of them only), reads the hub's sequence last
and installs the merge (`Merged` follows `mergeMutationsAfterLocked` and
`mergeConcurrentPublicNodes`).

### Hub
One address limiter, the handler with its room check apart from the
registration, the hello read apart from the hello sent, a broadcast in three
steps (announce, copy the clients, send to one after the other), `SafeSend`
that marks a full client for removal, both pumps, and the removal by whoever
comes first. The model lets the peer disappear at any moment, and a closed
queue is still read to its end, as Go's channels are.

### LiveClient
The server's side is what a browser can observe of it: the log's end, the hub's
announcement and fan-out (apart, because pongs and hellos read the announced
sequence), the retained floor, the snapshot's sequence and one ordered channel
per connection. Each browser callback is one action: hello, pong, event and
close messages, the frame (`Flush`), a recovery page (`HandlePage`,
`FailPage`), its retry timer, the reset's answer and timer (`HandleState`,
`FailState`, `ResetTimer`), the deferred full state (`Hydrate`,
`HandleHydrate`), `Poll` and `Resume`. `cursor` holds the refs, `recovery` and
`reset` the flags and requests of the two loops. An event is its sequence; the
history variable `view` records what was shown.

The events endpoint answers with two reads (`ServeBounds`, `ServePage`), and the
log may grow or be pruned in between.

### Ingest and IngestFifo
Each goroutine has a program counter and the message in its hand: the dispatcher
(`TakeMessage`, `Handle`, `Persisted`/`PersistFailed`, `EnqueueDerived`,
`BlockedSends`/`BlockedGivesUp`), the derived worker (`TakeJob`, `ProcessJob`,
`NodeWritten`, whose two writes - the node, then its public event - are two
turns of the writer, `Committed`/`CommitFailed`, `OfferEdge`/`OfferGivesUp`,
`PopDerivedTime`, `RecordProcessed`) and the edge projector (`TakeEdge`,
`EndProjection`). A channel and its list of enqueue times are separate
variables, because the code updates them at different moments. Submitting is
two steps, the channel first, the time and the counter after it, and may still
happen after the shutdown has begun, since the flag that stops it is set a little
later than the context ends. The writer is
what `WriteCoordinator` promises of it. `IngestFifo` is the abstract
specification: three bounded first-in first-out stages that lose nothing before
shutdown. `LosslessStages` states that `Ingest` implements it under a refinement
mapping in which a blocked producer's item is the newest of the stage it waits
to enter, hence capacities one above those of the second and third channel.

### Retention and Cleanup
`Retention` is the loop of cycles: `BeginCycle` fixes what is too old, `Gate`
asks queues and storage before each step, `Step` is one bounded `DELETE` of the
table the cycle has come to, `StepRefused` the `DELETE` of a batch with a row
that another row still names, which a foreign key fails as a whole, and
`StepFails` any other failure, with or without the rows deleted; both end the
cycle. A record is one observation with the rows derived from it: its edge, the
edge's path, the path's propagation event, its public events. Each row has its
own time and each table its own retention (the configuration has three, and the
columns compared differ), so `GrowOld` ages rows one by one and in any order, be
it before they are written: `due` are the rows still to come, and an observation,
an edge with its public events, a path and a propagation event are written
(`Observe`, `CommitEdge`, `CommitActivity`, `Project`, `FindPropagation`) however
late, also in the middle of a cycle whose cut-off they are past. Nothing bounds
how long derived work waits: it is paused while storage is critical. Deletions
are guarded as in the code: an observation only when no edge and no path names
it (the two `NOT EXISTS`), a packet only when nobody observed it.
`Cleanup` composes it with `Ingest`: the gate reads the pipeline's queues and
ages, `storage` is the pressure that pauses the pipeline, and a step needs the
writer on its background lane.

### MqttSession, BrowserSocket, ResumeRecovery
`MqttSession` has the client's flags, stored one at a time by callbacks, watchdog,
recovery and shutdown, and a set of paho clients whose handlers run on after
they were replaced. `BrowserSocket` has one step per event of any socket ever
opened, all touching the same timers. `ResumeRecovery` has one action per
lifecycle listener and the settling of a refresh.

### How they fit together
`LivePublish` produces the announced sequences and snapshots that `Hub` and
`LiveClient` take as given: `WireIncreases` is what lets them identify an
event with its sequence, `SnapshotCovers` what lets `LiveClient` identify a
snapshot with a sequence (`NodesCovered` says the same of node updates), and
`HelloThenStream` is what justifies the client's
ordered channel, which loses a suffix only. `WriteCoordinator` gives
`LivePublish` its at-most-once execution per call (`OutcomeHonest`), with the
ambiguity of an abandoned call kept (`Ambiguous`).

`IngestFifo` is what brings `LivePublish` its jobs in order, and
`CleanupIngests` and `CleanupRetains` (section 4) carry the properties of
`Ingest` and of `Retention` over to their composition. `BrowserSocket` gives
`LiveClient` its connections and `ResumeRecovery` its `Resume`; `Retention` is
what prunes `LiveClient`'s log.

Proofs are in modules of their own: `WriteCoordinatorProofs`,
`LivePublishProofs`, `HubProofs`, `LiveClientProofs`, `IngestProofs`,
`RetentionProofs`, `CleanupProofs`, and `EndsProofs` for the three protocols at
the ends of the connections (MQTT session, browser socket, resume).

The `MC*` modules define constant values for TLC. `MCBackend`, `MCStore` and
`MCEnds` also put several specifications side by side, of which each behaviour
runs one: the others stay in their initial state, so their invariants are
checked where they run, and a fairness condition that would ask something of a
part at rest is written for the behaviours where that part runs.

Types are stated once per module, either by a type invariant that the proofs
use or as the first conjunct of an invariant that is checked (`SlotsExact`,
`QueueWatermark`, `WireIncreases`).

## 3. The runs

| Run | Question | Size |
| --- | --- | --- |
| `Backend_safety` | the writer: four requests on three lanes, one cancelable, channel of two: honest answers, alternation, exact depth, placement, FIFO, background last. The publication: two jobs, status and adverts, a crash, a failed write tried again, a reconciliation in steps: order on the wire and what a snapshot covers, items and nodes | 3.4 M states |
| `Backend_writes` | the writer with callers that call again for ever: a live lane is served, `Close` completes, the inductive invariant of the proofs. The durable commit with every kind of batch, ambiguous commits, a retry, a crash: once per key, committed implies broadcast, the cache converges | 230 k |
| `Store_flow` | the pipeline with queues of one, any number of messages, pressure, failures and shutdown at every point: exact counters and time lists, the refinement of `IngestFifo`, no chain of full queues that stays blocked, every loop ends once nothing is submitted any more. The retention loop with two receptions of one packet, rows written late, a budget of two rows, refusing foreign keys, a failure: complete cycles are exact, and what is too old goes | 200 k |
| `Hub_stream` | two attempts for one place (equal, hence symmetric), queues of one, two broadcasts, a ping: no hole in hello and stream | 4.2 M |
| `Hub_close` | the ends of the connections. Hub: slots exact, dead peers released. Browser socket: always a way back, and it is found. Page: no resume lost. MQTT session: one live client, the subscription comes back | 230 k |
| `LiveClient_safety` | lost connection, failed request, pong, queue of one: shown versus cursor, duplicate watermark, a client that waits for nothing has all that was sent to it; any two of the three faults (`TwoFaults`) | 3.2 M |
| `LiveClient_restore` | the log restored older or empty at any moment, one failed request (also of the reset): wake-ups stay armed, the cursor goes back only by a reset | 4.9 M |
| `LiveClient_converge` | a lost connection or a failed request, the state fetch of a reset included, and pruning that expires the cursor, also between the two queries of one page; a state answer too old is asked for again: in the end no reset is left, nothing is pending, and the log is applied and shown to its end. Three sequences: no live event overtakes the answer that expires the cursor | 560 k |
| `LiveClient_skip`, `LiveClient_expired`, `Hub_lagged`, `Cleanup_blocked` | disagreements, see section 6 | violation |

**Bounds.** Every bound is a constant named `Max*` in a guard, or a capacity of
the code made small (`InCap`, `QueueSize`, `PendingCap`, `PageLimit`,
`BatchLimit`, `MaxPerIP`, `MaxClients`). Capacities of one or two make "full" an
ordinary case; three sequences are the fewest that expire a cursor (one applied,
one missed and pruned, one retained); two jobs, two attempts and two requests on
one lane are the fewest that can overtake each other; one fault of each kind at
any moment meets every window between two steps. The properties relate at most
two sequences, requests or connections at a time. A cycle of the retention loop
may have six rows to delete, so a budget of two cuts cycles short at several
tables, and two receptions of one packet, one of them old, are the fewest for
which a shared packet may be taken for orphaned. `MCStore` gives TLC the two
shapes in which rows differ (`Derived`: one record with an edge and all that
follows from it beside a bare observation; one with a public event and no edge)
and one order of growing old (`InOrder`): the shortest retention first, an
observation before the edge and the path that name it, a path before its
propagation event. This order reaches what is hard: the observation that has to
stay because a younger edge names it, which
`TestRetentionPrunerSkipsObservationsStillReferencedByRecentPublicData`
(`prune_test.go:86-131`) expects, the `NOT EXISTS` of both tables, and the path
that a younger propagation event keeps (`StepRefused`); equal ages are the
states between two steps of it. `Loads` leaves out loads that the gate answers
alike, and `Failures` keeps the failures that no foreign key causes to the shape
without an edge. The proofs know none of these restrictions. Three paho clients
and three browser sockets are one in use and two replaced ones whose callbacks
can still meet; used-up clients and sockets are built anew, so their number
bounds those alive at once and not the replacements. `MaxFaults`, `MaxWsFaults`
and `MaxCycles` bound what the environment does. Messages are not counted:
queues, not their history, are the state of the pipeline, and one message value
suffices because the refinement compares positions; which message overtakes
which is what `IngestProofs` shows for any set of messages. `LiveClient_safety`,
`LiveClient_restore` and `LiveClient_converge` divide the faults among them
because together they exceed what TLC explores in a few minutes;
`LiveClient_converge` has one lost connection or one failed request
(`OneFaultSpec`) beside its prune, and neither early pongs nor restored logs;
its deferred full state is fetched during a reset only. `QuietIsCaughtUp` is
claimed of a log that is neither pruned nor restored, the hypothesis of its
theorem. With pruning it is violated (`LiveClient_expired`). After a restore, a
page answered before the republication can reset the client below the hello it
has just handled, and nothing is then on its way to bring what lies between; the
next poll repairs it.

**Deadlock.** `LiveClient` is checked for deadlock (its polls never end). The
other systems really stop: all calls answered and the coordinator closed, all
jobs done, every loop ended, every connection closed.

**Fairness.** Only goroutines, timers, deadlines and ticks of the code are fair.
`WriteCoordinator`: the worker and every call already made; nobody must call,
cancel or close. Its `ShutdownCompletes` assumes that calls end, since the
answer of a closed coordinator is not retried. `LivePublish`: the worker and the
refresher; strong fairness of the reads says that SQLite does not fail for ever;
`CacheConverges` speaks of behaviours in which the reconciliation comes round
again and again. `Ingest`: the goroutines and the writer run; strong fairness
says that the store neither fails every message nor keeps one write in its
retries for ever; pressure and submission are free, and only `DispatcherReturns`
assumes that pressure ends, only `LoopsEnd` that submissions do: the MQTT
session, which stops them, is not part of the module. `Retention`: the loop's
timer, its gate and its steps, and that time passes, so that each row is past
its retention some day; refusals by a foreign key are not counted, other
failures are; the writers are free, and so is the load: `CleanupCatchesUp` names
the load under which cleanup must progress. `MqttSession`: goroutines and timers
run and paho gets through in the end, with lost connections and refused
subscriptions bounded; the 30 s between recoveries outlast one run of
`forceReconnect` and the 10 s a subscription waits. `BrowserSocket`: the retry
timer runs out, a socket opens unless it breaks, a close event comes.
`ResumeRecovery`: none, its properties are safety. `Hub`: handlers after
admission, pumps (whose reads and writes have deadlines), removal; not peers,
pings or publications. `LiveClient`: what ends by itself (fan-out, connecting,
delivery, frames) shares one condition; the two loops of requests with their
answers and timers, which may not end by themselves, have one each, and the
server's periodic reconciliation another. Publications, polls, the hydration,
failures and the user's visits are free.

## 4. What is proved

Every proof holds for any values of the constants that satisfy the named
assumptions of the module proved about (capacities are positive, a "none" value
is not an element, a bound is a number).

| Module | Theorems |
| --- | --- |
| `WriteCoordinatorProofs` | `TypeCorrect`, `SafetyInvariant` (`[]IInv`), `NothingLost` (`[]Placement`), `Alternation`, `AnswersHonest`, `FifoWithinLane`, `BackgroundLast`, `DepthExact` |
| `LivePublishProofs` | `PublishInvHolds` (`[]PublishInv`), `KeysOnce`, `StreamIncreases`, `BatchesPublished`, `SnapshotsCover` |
| `HubProofs` | `SlotsAlwaysExact`, `HelloThenWholeStream` |
| `LiveClientProofs` | `ClientInvHolds` (`[]ClientInv`), `WakeUpsArmed`, `ShownIsApplied`, `WatermarkHolds`, `CursorBackByReset`, and, in one life of a log that is not pruned, `QuietClientsAreCaughtUp` |
| `IngestProofs` | `IngestSafety` (`[]IngestInv`), `IngestTypeCorrect`, `CountsExact`, `TimesExact`, `AgeEndsWithWork`, and the refinement `PipelineIsLossless` (`IngestSpec => LosslessStages`) |
| `RetentionProofs` | `RetentionSafety` (`[]RetentionInv`), `CleanupIsExact` |
| `CleanupProofs` | `CleanupIngests` (the composition implements `Ingest`), `CleanupRetains` (it implements `Retention` under the mapping of the queues to the load) |
| `EndsProofs` | MQTT session: `SessionTypeCorrect`, `OneLiveClientAlways`. Browser socket: `SomethingIsComingAlways`, `ClosedStaysQuiet`. Resume: `ResumeOwedAlways`, `RefreshesOnlyInSight` |

Every safety property of the passing runs, invariant or action property, is
stated by one of these theorems, but `NodesCovered`, which is only
model-checked. Two of them have a hypothesis of their own:

- `DepthExact` is about a finite set of requests, because it counts them; a
  process makes finitely many calls.
- `QuietClientsAreCaughtUp` assumes `OneEpoch`: the client starts with a durable
  cursor, and the log is neither pruned nor replaced. `LiveClient_expired` shows
  that it cannot do without: the disagreement it finds needs a prune. What is
  left is everything else the model has: any number of events, lost connections,
  failed requests and early pongs, any page, batch and queue sizes, a deferred
  hydration, and a snapshot that lags behind the log.

**The invariants and why they are needed.**

- `IInv` (writer): alternation needs `Turns`, a passed-over lane owns the next
  turn. Honest answers need `Progress`: while a request is admitted or running,
  its call is waiting or abandoned and nothing has been committed. FIFO needs
  `Order`: neither the channel nor a lane queue holds a request behind one
  admitted later, across both containers, which in turn needs `Placement`.
  Background-last needs `Collected`: what was admitted when the last mutation
  ended has left the channel before the lane is chosen. `DepthExact` needs what
  `IInv` says of a request's place, and a count per action: the set it counts
  gains or loses exactly the request that moves (`Counted`).
- `PublishInv` (publication) is three layers. `Core`: the committed events that
  the worker has yet to publish are a block at the log's end (`BlockOK`), and
  `Base` is the log without it; a retry finds the whole block there or nothing
  of it, which is why no key is doubled. `Sent`: the hub's sequence and the wire
  stay within the base, hence increasing; what is in the base is on the wire,
  older than the process, or its write was given up. `Covered`: every applied
  item is in the cache of a ready process, and from the reading of the items on
  also in what the running refresh has read or in the journal since its
  generation (`SettledOK`), so that `Merged` loses nothing, whichever reads the
  mutation fell between. What was dropped in the warm-up is in what the first
  refresh of a ready process reads (`RereadOK`), so nothing stays exempt after
  it.
- `HubInv`: a slot is held exactly by the attempts in a stage that holds one
  (`SlotsOK`, over `StagesOK`). The stream of a connection, what it was sent and
  what is queued for it, is from its registration on a run without gaps up to
  what it is due (`Whole`): the latest sequence, less the event that the
  broadcast in hand has announced and not yet sent to it. Once the hello is read
  the run begins no later than behind the hello.
- `ClientInv`: the display needs `Shown` (what is applied was shown or heard of)
  and `PageApplied` (what a running recovery has read is applied, unless a
  snapshot has replaced the cursor since); the wake-ups need `ResetShape` and
  `PageShape`, the shapes of the two request loops. It holds through restores,
  prunes and failures.
- `EpochInv` adds, for `OneEpoch`: the log is whole, the cursor and what the
  recovery knows are in it, no reset is ever declared, and `NothingForgotten`: an
  event above the cursor that was sent over a connection that is open is on the
  wire, waits at or before a pending one, or is at most the target of a recovery
  that is wanted or runs. Each step that drops a message (the overflowing queue,
  a failed page, a snapshot) moves it from one of these to another, and the hello
  takes in what a lost connection dropped.
- `IngestInv`: the time lists match the work only with `HandsFull` (a goroutine
  between two stages holds a message), the counters only with the type's
  correspondence of goroutines and writer lanes, and the age only with
  `AgeFollows`, which says what it is while the worker is between reading and
  recording it. The refinement then needs one case per action and shows it a
  step of `IngestFifo` or a stutter; sequences are handled by a few lemmas about
  an item put before or behind a sequence.
- `RetentionInv`: `Passed` says that what is past the cycle's cut-off in the
  tables the cycle has left behind was written since it began or is an
  observation that such a row, or a younger one, names; it is what a short batch
  shows and what a complete cycle adds up to `CleanupExact`. That a complete cycle
  leaves nothing else needs the order of the tables: a path goes before its edge
  and an edge before its observation. `Founded` says that every foreign key
  holds, however late a row is written and however a cycle ends: a row that is
  named is refused, and a row is written only beside what it names.
- `CleanupProofs` rests on one observation: no step of the pipeline moves
  two of the queues the gate reads and the storage at once, so it changes the
  load as one step of `Retention`'s environment does, or stutters.
- `SessionInv` adds `RecoveryCools`: a recovery that has begun has set the time
  of the last one, so no second one runs beside it. `ResumeInv` adds
  `HiddenIsSuspended`: a hidden page whose event has been handled is suspended.
  `SocketInv` needs no more than what the states of a socket mean.

Only model-checked: `NodesCovered`, and all liveness, since temporal reasoning
under fairness is outside the prover, as is `ENABLED`: `LiveLaneServed`,
`ShutdownCompletes`, `CacheConverges`, `BackpressureReleases`,
`DispatcherReturns`, `LoopsEnd`, `CleanupCatchesUp`, `DeadIsReleased`,
`SocketSettles`, `SessionComesBack` and `Converges`. Recursive definitions are
not used; what would need induction over data is out of the prover's reach.

## 5. What is not modelled

Listed with reasons under `components`. Within the modelled parts:

- `LivePublish`: list limits and eviction of the cache, IATA filtering, the
  packet counter, the five-second throttle of the serialized state, and
  `PublicEventsEnabled = false`. What the resolver and the edge builder decide
  is an input.
- `Hub`: subscriptions and scopes, the resume message, statistics; the internal
  hub's unsequenced broadcasts.
- `LiveClient`: malformed and unsequenced events, the `lagged` message, the
  signature shortcut for identical snapshots, the offline copy. Retention
  removes a prefix of the log. A hole in mid-stream (a lagging client) is the
  subject of `Hub`.
- `Ingest`: drops at a full client queue, which only count; the lengths of
  back-offs and waits.
- `Retention`: the six targets that name no row and that no row names, for which
  `public_events` stands; updates of rows that exist; an edge's path written
  again by the backfill after it was deleted; `PruneOldData`, which nothing
  calls; the maintenance round that returns pages to the file system and waits
  for idle queues and for storage that is not critical. The records are
  finitely many: a foreign key that refuses some row in every cycle, for as long
  as messages come, is outside `CleanupCatchesUp` (section 6).
- `MqttSession`: paho itself is external, modelled from the options the code
  sets. `BrowserSocket`: the opt-in subscribe message, the length of back-offs.

Most of the repository's lines are none of this: map and panel rendering,
packet animation, the smoke tests and tools, byte decoding, SQL aggregates,
floating-point geometry. They hold no protocol state, or state that one thread
reads back where it wrote it; their correctness is a matter of values and
pictures, which tests show better than a model checker. The path resolver's
decision depends on floating-point scores, which TLC cannot compute. The share
of lines the map covers is therefore small, and grows only with further
protocols, of which section 7 lists what is left.

## 6. Disagreements between code and documentation

Each has a run whose counterexample TLC prints.

- **A live event jumps over missing ones** (`LiveClient_skip`). After a
  reconnect the first live event moves the applied cursor past events that the
  recovery page has yet to bring, and the page is then filtered against that
  cursor (`App.tsx:616`). The public API guide asks consumers to apply every
  event above their cursor.
- **The answer to an expired cursor is overtaken** (`LiveClient_expired`). The
  page that says "reset, latest sequence 3" is on its way while live event 4
  arrives and is applied. `liveCursorResetTarget(3, 4, 4)` sees an answer below
  the applied cursor and takes it for a server that regressed
  (`liveCursor.ts:80`); the server has not, its answer is only older. The refs
  are lowered to 3 (`App.tsx:645`), a cached snapshot of 3 ends the reset, the
  cursor goes back to 3, and event 4, once shown, is gone; while the connection
  stays open only a visibility resume asks again. With retention having emptied
  the log (`RetainLast = FALSE`) the answer's 0 does the same.
- **A lagging client's cursor passes the event it lost** (`Hub_lagged`). The
  removal of a client with a full queue is asynchronous; until it happens the
  write pump makes room and later events are delivered (`hub.go:186`), so the
  cursor it resumes from no longer marks the loss.
- **The pause under critical storage holds the cleanup** (`Cleanup_blocked`).
  The comment at `lifecycle.go:1550` says that derived work, paused under
  storage pressure, must not block the cleanup that frees the space. It does so
  through the other queue: the paused worker's queue fills, the dispatcher waits
  with a message for room in it, the message behind it grows older than two
  seconds, and from then on the gate answers `primary_ingest_pressure`
  (`lifecycle.go:1541`) before it comes to the storage state. The run's instance
  keeps to behaviours of `CleanupFairSpec` in which storage turns critical
  before the first message and stays so and nobody shuts down; any other
  behaviour of the module stays possible elsewhere. `retention_prune_test.go:59`
  expects the refusal, as a bounded pause; `CleanupCatchesUp` shows the half
  that holds, that derived pressure alone does not stop the cleanup.

The models also contain the following, which the checked properties exempt or
do not speak of:

- updates that arrive while the first snapshot is being read are dropped, and
  that snapshot claims their sequence (`public_cache.go:371`), until the next
  reconciliation (`dropped` in `LivePublish`, which it empties);
- a node update is announced before it is in the cache (`lifecycle.go:513`), so
  a state fetched in between claims it without showing it; `NodesCovered` shows
  that this is one update at a time and passes with its application;
- a path past its cut-off that a younger propagation event names cannot be
  deleted, and the cycle ends there (`prune.go:56`, `schema.sql:323`), short of
  edges, observations and packets. With equal retentions the event is past its
  cut-off, too, and goes first, unless it is written in mid-cycle. With
  `PROPAGATION_EVENT_RETENTION_DAYS` above `DATA_RETENTION_DAYS`, which the
  main README calls a propagation-only override, every cycle is refused for as
  long as such events keep coming, and data of the shorter retention stays;
- rows of one message are retained by their own times: a complete cycle may take
  an observation's public events and leave the observation, or leave it for the
  sake of a younger edge;
- `InsertPublicEventOnce` answers "not inserted" when the first commit of a node
  update was ambiguous, and the update is then not broadcast
  (`lifecycle.go:506`); its next reader is the recovery by pages;
- on an empty log the hello carries a counter of the process (`hub.go:128`),
  which a reset may take for the sequence the state must reach; it then ends
  with the first publication;
- a satisfied target left in `queuedRecoveryTarget` makes the next untargeted
  poll end without a request (`App.tsx:603`), which the comment at `App.tsx:763`
  wants to avoid; another event or poll repairs it;
- a prune between the two queries of one page makes a page that starts above
  the cursor and does not say reset (`public_extended.go:55`); the client takes
  it as it is, and no property of a passing run speaks of what lies between;
- the hello is sent by a blocking send before the pumps start (`hub.go:130`):
  broadcasts that fill the queue first would block the handler and then make
  the send panic (`HelloPanics`); the client limit is checked before the upgrade
  only, so concurrent attempts may exceed it (`hub.go:104`);
- a job the worker has in hand can be without a reported age, when it is listed
  between the reading of the oldest time and its recording
  (`derived_ingest.go:182`); `AgeClears` is the half that holds;
- a failed message counts as accepted and not as processed, so the gate of the
  backfill, which compares the two, stays shut for the rest of the process
  (`publicBackfillAllowed`);
- a late close event of a replaced socket clears the liveness and ping timers of
  the socket in use and schedules one more connection (`ws.ts:119`): two sockets
  are then open, `close()` closes only the one in use, and an interval of the
  ping timer can run on (`intervals` in `BrowserSocket`);
- callbacks of a replaced paho client still set `connected` and `subscribed`, and
  a recovery that overlaps the shutdown connects a client after the shutdown has
  disconnected the one before (`client.go:240`); `SessionComesBack` shows that
  the flags are repaired, and speaks of processes that are not shutting down.

## 7. Plan

Done so far: the writer, the publication, the hub, the client's cursor, the
pipeline with its refinement, the session, socket and resume protocols, the
retention beside the pipeline, and proofs of every safety property that the
runs check. What is left, in order:

1. Refinement: an abstract stream (each connection receives a contiguous run of
   the log or is reset) implemented by `Hub`; an abstract log that `LivePublish`
   implements under retries and crashes. The invariants of section 4 are what
   their step lemmas need.
2. A form of `QuietIsCaughtUp` that holds with pruning, of the behaviours in
   which no live event overtakes an answer that expires the cursor.
3. Pure functions (`liveCursor.ts`, `livePacing.ts`) as operators against
   reference definitions.
4. The composition of `Ingest` with `WriteCoordinator` itself in place of the
   writer it is promised, once a smaller writer instance makes that checkable.
