------------------------------ MODULE LivePublish ------------------------------
(***************************************************************************)
(* How a derived-ingest job becomes public: the durable event log, the      *)
(* public state cache and its serialized snapshot, and the public hub       *)
(* (backend/internal/app/lifecycle.go and derived_ingest.go,                *)
(* internal/live/public_cache.go and hub.go, internal/store).               *)
(*                                                                          *)
(* Three activities interleave: the primary handlers that persist a message *)
(* and queue its job, the single derived worker that commits, applies and   *)
(* broadcasts, and the cache refresher that reads the store without any     *)
(* lock and installs what it read.  The process may crash and restart.      *)
(***************************************************************************)
EXTENDS Integers, Sequences, FiniteSets, FiniteSetsExt

CONSTANTS
    Nodes,      \* mapped nodes
    NoNode,     \* "this packet is not an advert"
    Batches,    \* the sets of public events a packet may yield
    MaxJobs,    \* bound: jobs processed over the whole behaviour
    MaxRetries, \* bound: transient store errors per write
    MaxCrashes, \* bound: crashes of the process
    Ambiguous   \* TRUE: a transaction may commit and yet report a transient error

ASSUME NodesAssumption == NoNode \notin Nodes
\* An edge yields an activity and a route pulse, any other public packet an
\* activity, and a packet of an excluded region nothing.
ASSUME BatchesAssumption ==
    Batches \subseteq {<<"activity", "routePulse">>, <<"activity">>, <<>>}
ASSUME BoundsAssumption == {MaxJobs, MaxRetries, MaxCrashes} \subseteq Nat
ASSUME AmbiguousAssumption == Ambiguous \in BOOLEAN

VARIABLES
    log,      \* public_events: position = seq
    nodeRow,  \* nodes: version of each row (0: no row)
    jobs,     \* jobs taken so far; a job's number is its ingest id
    due,      \* status messages persisted for a node whose job is still queued
    job,      \* the job being processed
    pc,       \* where the derived worker is
    attempts, \* transient errors of the write in progress
    todo,     \* committed events of the batch, still to apply and broadcast
    ready,    \* PublicStateCache.ready
    cache,    \* PublicStateCache.state
    journal,  \* mutations since the refresher captured its generation
    refresh,  \* the cache refresher and what it has read
    hubSeq,   \* Hub.latestSeq
    crashes,
    \* History variables: read by properties only.
    wire,     \* sequences broadcast by this process
    restored, \* length of the log when this process started
    dropped,  \* events whose mutation the cache ignored because it was not ready,
              \* until the next reconciliation
    gaveUp    \* jobs whose batch was given up

storeVars  == <<log, nodeRow>>
workerVars == <<job, pc, attempts, todo>>
cacheVars  == <<ready, cache, journal>>
publishHistory == <<wire, restored, dropped, gaveUp>>
publishVars == <<storeVars, jobs, due, workerVars, cacheVars, refresh, hubSeq, crashes, publishHistory>>

\* A snapshot: the activity and pulses it holds, the version of every node and
\* the sequence of the live update it came from (0: read from the store).
Empty == [items |-> {}, nodes |-> [n \in Nodes |-> 0], nodeSeq |-> [n \in Nodes |-> 0],
          latestSeq |-> 0]
NoJob == [id |-> 0, kind |-> "none", node |-> NoNode, batch |-> <<>>, version |-> 0]
IdleRefresh == [pc |-> "idle", items |-> {}, nodes |-> [n \in Nodes |-> 0], latestSeq |-> 0]

\* An event carries its dedupe key (ingest id and type) and, for a node
\* update, the version of the row it shows.
Event(type) ==
    [job |-> job.id, type |-> type,
     node |-> IF type = "nodeUpdate" THEN job.node ELSE NoNode,
     version |-> IF type = "nodeUpdate" THEN job.version ELSE 0]
Key(e) == <<e.job, e.type>>
Seqs == 1..Len(log)
SeqOf(type) == CHOOSE s \in Seqs : Key(log[s]) = <<job.id, type>>
Committed(type) == \E s \in Seqs : Key(log[s]) = <<job.id, type>>
Items == {s \in Seqs : log[s].type # "nodeUpdate"}

-----------------------------------------------------------------------------
PublishInit ==
    /\ log = <<>> /\ nodeRow = [n \in Nodes |-> 0]
    /\ jobs = 0 /\ due = [n \in Nodes |-> 0]
    /\ job = NoJob /\ pc = "idle" /\ attempts = 0 /\ todo = <<>>
    /\ ready = FALSE /\ cache = Empty
    /\ journal = [items |-> {}, nodes |-> {}]
    /\ refresh = IdleRefresh
    /\ hubSeq = 0 /\ crashes = 0
    /\ wire = <<>> /\ restored = 0 /\ dropped = {} /\ gaveUp = {}

-----------------------------------------------------------------------------
(* The primary status handler: persist, then queue the derived job.         *)
(* UpsertObserver also writes the publisher's node row.                     *)
ReceiveStatus(n) ==
    /\ jobs + due[n] < MaxJobs
    /\ nodeRow' = [nodeRow EXCEPT ![n] = @ + 1]
    /\ due' = [due EXCEPT ![n] = @ + 1]
    /\ UNCHANGED <<log, jobs, workerVars, cacheVars, refresh, hubSeq, crashes, publishHistory>>

-----------------------------------------------------------------------------
(* The cache, under its lock. *)

Larger(a, b) == IF a >= b THEN a ELSE b

\* A live mutation reaches the cache only once the cache is ready.  (The
\* serialization served to clients is a copy of the cache some seconds old.)
Mutate(c, items, nodes) ==
    /\ ready
    /\ cache' = c
    /\ journal' = [items |-> journal.items \cup items, nodes |-> journal.nodes \cup nodes]
    /\ UNCHANGED <<ready, dropped>>

NotReady(s) == ~ready /\ dropped' = dropped \cup {s} /\ UNCHANGED cacheVars

ApplyItem(s) ==
    \/ NotReady(s)
    \/ Mutate([cache EXCEPT !.items = @ \cup {s}, !.latestSeq = Larger(@, s)], {s}, {})

ApplyNode(n, version, s) ==
    \/ NotReady(s)
    \/ Mutate([cache EXCEPT !.nodes[n] = version, !.nodeSeq[n] = s, !.latestSeq = Larger(@, s)],
              {}, {n})

\* Hub.BroadcastPublicEvent.
Broadcast(s) ==
    /\ hubSeq' = Larger(hubSeq, s)
    /\ wire' = Append(wire, s)

-----------------------------------------------------------------------------
(* The derived worker. *)

Take(j, stage) ==
    /\ pc = "idle"
    /\ jobs < MaxJobs
    /\ jobs' = jobs + 1
    /\ job' = j /\ pc' = stage
    /\ attempts' = 0 /\ todo' = <<>>
    /\ UNCHANGED <<storeVars, cacheVars, refresh, hubSeq, crashes, publishHistory>>

\* processDerivedMQTT of a packet: an advert first upserts its node.
TakePacket(n, batch) ==
    /\ Take([id |-> jobs + 1, kind |-> "packet", node |-> n, batch |-> batch, version |-> 0],
            IF n = NoNode THEN "commit" ELSE "upsertNode")
    /\ UNCHANGED due

\* ... and of a status: it publishes the row as it is now.
TakeStatus(n) ==
    /\ due[n] > 0
    /\ Take([id |-> jobs + 1, kind |-> "status", node |-> n, batch |-> <<>>,
             version |-> nodeRow[n]], "insertNode")
    /\ due' = [due EXCEPT ![n] = @ - 1]

\* After the node update: a packet goes on to its batch.
NextStage == IF job.kind = "packet" THEN "commit" ELSE "idle"

Advance(stage) ==
    /\ pc' = stage
    /\ job' = IF stage = "idle" THEN NoJob ELSE job
    /\ attempts' = 0

\* retryStoreWriteLane: a transient error is retried with the same dedupe key.
Retry ==
    /\ attempts < MaxRetries
    /\ attempts' = attempts + 1
    /\ UNCHANGED <<job, pc>>

\* A transient error before anything was committed.
TransientError ==
    /\ pc \in {"upsertNode", "insertNode", "commit"}
    /\ Retry
    /\ UNCHANGED <<storeVars, jobs, due, todo, cacheVars, refresh, hubSeq, crashes, publishHistory>>

UpsertNode ==
    /\ pc = "upsertNode"
    /\ nodeRow' = [nodeRow EXCEPT ![job.node] = @ + 1]
    /\ \/ /\ job' = [job EXCEPT !.version = nodeRow[job.node] + 1]
          /\ pc' = "insertNode" /\ attempts' = 0
       \/ Ambiguous /\ Retry
    /\ UNCHANGED <<log, jobs, due, todo, cacheVars, refresh, hubSeq, crashes, publishHistory>>

\* publishPublicEventBatch with the one node update.  An insert that reports
\* the key as already present is neither broadcast nor applied.
InsertNode ==
    /\ pc = "insertNode"
    /\ IF Committed("nodeUpdate")
       THEN Advance(NextStage) /\ UNCHANGED log
       ELSE /\ log' = Append(log, Event("nodeUpdate"))
            /\ \/ Advance("broadcastNode")
               \/ Ambiguous /\ Retry
    /\ UNCHANGED <<nodeRow, jobs, due, todo, cacheVars, refresh, hubSeq, crashes, publishHistory>>

BroadcastNode ==
    /\ pc = "broadcastNode"
    /\ Broadcast(SeqOf("nodeUpdate"))
    /\ Advance("applyNode")
    /\ UNCHANGED <<storeVars, jobs, due, todo, cacheVars, refresh, crashes,
                   restored, dropped, gaveUp>>

ApplyNodeUpdate ==
    /\ pc = "applyNode"
    /\ ApplyNode(job.node, job.version, SeqOf("nodeUpdate"))
    /\ Advance(NextStage)
    /\ UNCHANGED <<storeVars, jobs, due, todo, refresh, hubSeq, crashes, wire, restored, gaveUp>>

\* Mutant: the insert has no ON CONFLICT clause.
MutNoDedupe == job.batch

\* The rows a batch may come to, and those of them the log does not hold yet.
Rows == {<<"activity", "routePulse">>, <<"activity">>, <<"routePulse">>, <<>>}
Absent == CHOOSE rows \in Rows : Range(rows) = {type \in Range(job.batch) : ~Committed(type)}

\* Mutant: an event that an earlier attempt committed is not published.
MutOnlyInserted == IF Absent = job.batch THEN job.batch ELSE <<>>

\* Mutant: the batch is published in reverse.
MutReversed == [i \in DOMAIN job.batch |-> job.batch[Len(job.batch) + 1 - i]]

\* What the transaction returned is published if this attempt inserted it, or
\* if an earlier attempt may have committed it without saying so.
ToPublish ==
    IF attempts > 0 \/ Absent = job.batch THEN job.batch ELSE <<>>

\* CommitLiveEdge / CommitNonEdgeActivity: the packet's public events and its
\* edge or resolution commit in one transaction.
CommitBatch ==
    /\ pc = "commit"
    /\ log' = log \o [i \in DOMAIN Absent |-> Event(Absent[i])]
    /\ \/ /\ todo' = ToPublish
          /\ Advance(IF ToPublish = <<>> THEN "idle" ELSE "apply")
       \/ Ambiguous /\ Retry /\ UNCHANGED todo
    /\ UNCHANGED <<nodeRow, jobs, due, cacheVars, refresh, hubSeq, crashes, publishHistory>>

\* broadcastCommittedPublicEvent: the cache first, then the hub.
ApplyNext ==
    /\ pc = "apply"
    /\ ApplyItem(SeqOf(Head(todo)))
    /\ Advance("broadcast")
    /\ UNCHANGED <<storeVars, jobs, due, todo, refresh, hubSeq, crashes, wire, restored, gaveUp>>

BroadcastNext ==
    /\ pc = "broadcast"
    /\ Broadcast(SeqOf(Head(todo)))
    /\ todo' = Tail(todo)
    /\ Advance(IF Tail(todo) = <<>> THEN "idle" ELSE "apply")
    /\ UNCHANGED <<storeVars, jobs, due, cacheVars, refresh, crashes, restored, dropped, gaveUp>>

\* A permanent store error: the node update is skipped, the batch is given up.
GiveUp ==
    /\ pc \in {"upsertNode", "insertNode", "commit"}
    /\ Advance(IF pc = "commit" THEN "idle" ELSE NextStage)
    /\ gaveUp' = gaveUp \cup {j \in {job.id} : pc = "commit"}
    /\ UNCHANGED <<storeVars, jobs, due, todo, cacheVars, refresh, hubSeq, crashes,
                   wire, restored, dropped>>

-----------------------------------------------------------------------------
(* The cache refresher: one at a time (cacheRefreshMu). *)

OthersIdle == UNCHANGED <<storeVars, jobs, due, workerVars, hubSeq, crashes, publishHistory>>

\* MutationGeneration: from here on mutations count as concurrent.
RefreshBegin ==
    /\ refresh.pc = "idle"
    /\ refresh' = [IdleRefresh EXCEPT !.pc = "reading"]
    /\ journal' = [items |-> {}, nodes |-> {}]
    /\ UNCHANGED <<ready, cache>> /\ OthersIdle

\* LiveState runs its queries concurrently, each seeing the store at its own
\* time; the three stages stand for their two orders.
ReadNodes ==
    /\ refresh.pc \in {"reading", "items"}
    /\ refresh' = [refresh EXCEPT !.pc = IF @ = "reading" THEN "nodes" ELSE "read",
                                  !.nodes = nodeRow]
    /\ UNCHANGED cacheVars /\ OthersIdle

ReadItems ==
    /\ refresh.pc \in {"reading", "nodes"}
    /\ refresh' = [refresh EXCEPT !.pc = IF @ = "reading" THEN "items" ELSE "read", !.items = Items]
    /\ UNCHANGED cacheVars /\ OthersIdle

\* Mutant: the generation is captured once the store has been read.
MutLateGeneration ==
    /\ refresh.pc = "read"
    /\ refresh' = [refresh EXCEPT !.pc = "built", !.latestSeq = hubSeq]
    /\ journal' = [items |-> {}, nodes |-> {}]
    /\ UNCHANGED <<ready, cache>> /\ OthersIdle

\* The snapshot takes its sequence from the hub after the store was read.
ReadSeq ==
    /\ refresh.pc = "read"
    /\ refresh' = [refresh EXCEPT !.pc = "built", !.latestSeq = hubSeq]
    /\ UNCHANGED cacheVars /\ OthersIdle

\* Mutant: a failed refresh keeps cacheRefreshMu.
MutFailKeepsLock ==
    /\ refresh.pc \in {"reading", "nodes", "items"}
    /\ refresh' = [refresh EXCEPT !.pc = "failed"]
    /\ UNCHANGED cacheVars /\ OthersIdle

RefreshFail ==
    /\ refresh.pc \in {"reading", "nodes", "items"}
    /\ refresh' = IdleRefresh
    /\ UNCHANGED cacheVars /\ OthersIdle

\* Mutant: the comparison is the wrong way round.
MutOlderWins(n) == n \in journal.nodes /\ cache.nodes[n] <= refresh.nodes[n]

\* mergeMutationsAfterLocked: only mutations that raced the read are overlaid,
\* a node only if it is at least as recent as the row that was read.
KeepsLive(n) == n \in journal.nodes /\ cache.nodes[n] >= refresh.nodes[n]

Merged ==
    LET items == cache.items \cap journal.items
    IN  [items |-> refresh.items \cup items,
         nodes |-> [n \in Nodes |-> IF KeepsLive(n) THEN cache.nodes[n] ELSE refresh.nodes[n]],
         nodeSeq |-> [n \in Nodes |-> IF KeepsLive(n) THEN cache.nodeSeq[n] ELSE 0],
         latestSeq |-> Max({refresh.latestSeq} \cup items
                           \cup {cache.nodeSeq[n] : n \in journal.nodes})]

\* ReplacePreservingMutations.  A refresh that began with the cache ready began
\* after whatever was dropped.
Install ==
    /\ refresh.pc = "built"
    /\ ready' = TRUE
    /\ cache' = Merged
    /\ journal' = [items |-> {}, nodes |-> {}]
    /\ refresh' = IdleRefresh
    /\ dropped' = {s \in dropped : ~ready}
    /\ UNCHANGED <<storeVars, jobs, due, workerVars, hubSeq, crashes, wire, restored, gaveUp>>

-----------------------------------------------------------------------------
\* Everything in memory is lost, the queued jobs included; NewApplication seeds
\* the hub from the log, or fails to and goes on, and the cache is not ready
\* until it is read.
Crash ==
    /\ crashes < MaxCrashes
    /\ crashes' = crashes + 1
    /\ due' = [n \in Nodes |-> 0] /\ job' = NoJob /\ pc' = "idle" /\ attempts' = 0 /\ todo' = <<>>
    /\ ready' = FALSE /\ cache' = Empty
    /\ journal' = [items |-> {}, nodes |-> {}]
    /\ refresh' = IdleRefresh
    /\ hubSeq' \in {Len(log), 0}
    /\ wire' = <<>> /\ restored' = Len(log) /\ dropped' = {} /\ gaveUp' = {}
    /\ UNCHANGED <<storeVars, jobs>>

-----------------------------------------------------------------------------
TakeJob ==
    \/ \E n \in Nodes \cup {NoNode}, batch \in Batches : TakePacket(n, batch)
    \/ \E n \in Nodes : ReceiveStatus(n) \/ TakeStatus(n)
PublishProgress == UpsertNode \/ InsertNode \/ BroadcastNode \/ ApplyNodeUpdate
              \/ CommitBatch \/ ApplyNext \/ BroadcastNext
RefreshStep == RefreshBegin \/ ReadNodes \/ ReadItems \/ ReadSeq \/ Install

PublishNext == TakeJob \/ PublishProgress \/ TransientError \/ GiveUp \/ RefreshStep \/ RefreshFail \/ Crash

PublishSpec == PublishInit /\ [][PublishNext]_publishVars

Read == ReadNodes \/ ReadItems
ReadDone == Read /\ refresh'.pc = "read"

\* The worker's goroutine runs, the refresher's ticker fires and the store's
\* reads do not fail for ever.
PublishFairSpec == PublishSpec /\ WF_publishVars(PublishProgress) /\ WF_publishVars(RefreshBegin)
                 /\ SF_publishVars(Read) /\ SF_publishVars(ReadDone) /\ WF_publishVars(ReadSeq) /\ WF_publishVars(Install)

-----------------------------------------------------------------------------
(* Properties. *)

Snapshot(c) ==
    /\ c.items \subseteq Seqs
    /\ DOMAIN c.nodes = Nodes /\ DOMAIN c.nodeSeq = Nodes
    /\ \A n \in Nodes : c.nodes[n] \in 0..nodeRow[n] /\ c.nodeSeq[n] \in 0..Len(log)
    /\ c.latestSeq \in 0..Len(log)

\* Every variable has its type; no snapshot and no announcement names a sequence
\* the log does not hold (lifecycle.go, public_cache.go, hub.go).
PublishTypeOK ==
    /\ \A s \in Seqs : log[s].job \in 1..jobs /\ log[s].node \in Nodes \cup {NoNode}
    /\ jobs \in 0..MaxJobs /\ due \in [Nodes -> 0..MaxJobs]
    /\ pc \in {"idle", "upsertNode", "insertNode", "broadcastNode", "applyNode",
               "commit", "apply", "broadcast"}
    /\ pc = "idle" <=> job = NoJob
    /\ attempts \in 0..MaxRetries
    /\ ready \in BOOLEAN /\ Snapshot(cache)
    /\ refresh.pc \in {"idle", "reading", "nodes", "items", "read", "built"}
    /\ hubSeq \in 0..Len(log)
    /\ crashes \in 0..MaxCrashes

\* "Dedupe keys preserve exactly-once cursor semantics when a live-core job is
\* retried": however often a write is retried, a key is in the log once.
OncePerKey == \A s, t \in Seqs : Key(log[s]) = Key(log[t]) => s = t

\* The live stream of one process is strictly increasing and only ever names
\* events that are already durable and new to this process. The types, with
\* what they say of snapshots and announcements, are checked with it.
WireIncreases ==
    /\ PublishTypeOK
    /\ \A i \in 1..Len(wire) :
        /\ wire[i] \in (restored + 1)..Len(log)
        /\ \A j \in 1..(i - 1) : wire[j] < wire[i]

\* Retried or not, every committed event of a batch reaches the live stream
\* before the worker turns to another job, unless the write was given up.
BatchPublished ==
    \A s \in Items :
        s \in {wire[i] : i \in 1..Len(wire)} \/ s <= restored
            \/ log[s].job \in gaveUp \cup {job.id}

\* A snapshot that says "latestSeq" holds every activity and pulse up to it, but
\* for those never published at all, and until the first reconciliation for those
\* published while the cache was warming (RefreshPublicStateCache against the
\* Apply methods of public_cache.go).
Unreported == {s \in Seqs : log[s].job \in gaveUp}

SnapshotCovers ==
    ready => \A s \in Items \ (dropped \cup Unreported) :
                 s <= cache.latestSeq => s \in cache.items

\* A node update that was announced, or is older than this process, shows in every
\* snapshot that names its sequence, or something newer does, but for the one
\* update on its way from the hub to the cache (publishPublicEventBatch announces,
\* then broadcastNodeUpdateForIATA applies) and those of the warm-up.
NodesCovered ==
    ready => \A s \in Seqs \ dropped :
        /\ log[s].type = "nodeUpdate" /\ s <= cache.latestSeq
        /\ s <= restored \/ s \in Range(wire)
        => \/ cache.nodes[log[s].node] >= log[s].version
           \/ pc = "applyNode" /\ Key(log[s]) = <<job.id, "nodeUpdate">>

\* Once messages stop arriving, the cache ends up showing exactly what the
\* store holds, as long as the reconciliation comes round (RefreshPublicStateCache):
\* it heals dropped, given up or overtaken updates, and nothing is resurrected.
CacheConverges ==
    []<>(refresh.pc # "idle") => <>[](ready /\ cache.items = Items /\ cache.nodes = nodeRow)

=============================================================================
