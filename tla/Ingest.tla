-------------------------------- MODULE Ingest --------------------------------
(***************************************************************************)
(* The ingest pipeline: the client's bounded queue with its one dispatcher  *)
(* (backend/internal/mqtt/client.go), the derived queue with its one worker *)
(* and the edge projection queue with its one projector                     *)
(* (backend/internal/app/derived_ingest.go, lifecycle.go).                  *)
(*                                                                          *)
(* Three channels, each with a list of enqueue times beside it under a      *)
(* mutex of its own, and one writer that all three goroutines wait for.     *)
(* Messages are what the timestamps of the code are taken for; equal        *)
(* messages stand for equal milliseconds.  The writer is what               *)
(* WriteCoordinator promises: one mutation at a time, live lanes in turn,   *)
(* the background lane only while no live request waits.  What a            *)
(* transaction commits and what is published is LivePublish's subject.      *)
(***************************************************************************)
EXTENDS Integers, Sequences

CONSTANTS
    Messages,    \* the messages that can be told apart
    MqttCap,     \* cfg.QueueSize
    DerivedCap,  \* capacity of derivedQueue
    EdgeCap,     \* capacity of edgeProjectionQueue
    Nothing      \* "no message in hand"

ASSUME IngestCapAssumption == {MqttCap, DerivedCap, EdgeCap} \subseteq Nat \ {0}
ASSUME NothingAssumption == Nothing \notin Messages

VARIABLES
    mqttQueue,    \* Client.queue
    mqttTimes,    \* Client.queueTimes
    submitting,   \* the message SubmitNormalized has sent, queueAgeMu still held
    outstanding,  \* Client.accepted - processed - failed
    dispatcher,   \* dispatch: where it is and the message in hand
    derivedQueue, \* Application.derivedQueue
    derivedTimes, \* Application.derivedQueueTimes
    deriver,      \* derivedIngestLoop: where it is and the job in hand
    derivedAge,   \* RuntimeStats.derivedOldestAtMs is not 0
    ageRead,      \* the oldest time the worker has read and not recorded is not 0
    edgeQueue,    \* Application.edgeProjectionQueue
    edgeTimes,    \* Application.edgeProjectionTimes
    projector,    \* edgeProjectionLoop: where it is and the job in hand
    write,        \* each lane's request to the writer
    liveTurn,     \* the live lane that goes first when both wait
    critical,     \* the store reports critical storage pressure
    stopping      \* the application's context is done

mqttVars == <<mqttQueue, mqttTimes, submitting, outstanding>>
derivedVars == <<derivedQueue, derivedTimes, derivedAge, ageRead>>
edgeVars == <<edgeQueue, edgeTimes>>
writerVars == <<write, liveTurn>>
ingestVars == <<mqttVars, dispatcher, derivedVars, deriver, edgeVars, projector,
                writerVars, critical, stopping>>

\* The lane each goroutine writes on; it has at most one write at a time.
WriteLanes == {"primary", "live_core", "background"}
At(pc, m) == [pc |-> pc, msg |-> m]
Resting == At("idle", Nothing)
Stopped == At("stopped", Nothing)

IngestInit ==
    /\ mqttQueue = <<>> /\ mqttTimes = <<>> /\ submitting = Nothing /\ outstanding = 0
    /\ dispatcher = Resting /\ deriver = Resting /\ projector = Resting
    /\ derivedQueue = <<>> /\ derivedTimes = <<>>
    /\ derivedAge = FALSE /\ ageRead = FALSE
    /\ edgeQueue = <<>> /\ edgeTimes = <<>>
    /\ write = [l \in WriteLanes |-> "none"] /\ liveTurn = "primary"
    /\ critical = FALSE /\ stopping = FALSE

-----------------------------------------------------------------------------
(* The writer, as its callers see it (retryStoreWriteLane). *)

OtherLive(l) == IF l = "primary" THEN "live_core" ELSE "primary"

\* The writer starts the request of a lane.
WriteBegins(l) ==
    /\ write[l] = "queued"
    /\ \A k \in WriteLanes : write[k] # "running"
    /\ IF l = "background"
       THEN /\ \A k \in WriteLanes \ {l} : write[k] # "queued"
            /\ UNCHANGED liveTurn
       ELSE /\ write[OtherLive(l)] = "queued" => l = liveTurn
            /\ liveTurn' = OtherLive(l)
    /\ write' = [write EXCEPT ![l] = "running"]
    /\ UNCHANGED <<mqttVars, dispatcher, derivedVars, deriver, edgeVars, projector, critical, stopping>>

\* A transient error is waited out and asked for again, without limit.
WriteRetries(l) ==
    /\ \/ write[l] = "running" /\ write' = [write EXCEPT ![l] = "backoff"]
       \/ write[l] = "backoff" /\ write' = [write EXCEPT ![l] = "queued"]
    /\ UNCHANGED <<mqttVars, dispatcher, derivedVars, deriver, edgeVars, projector,
                   liveTurn, critical, stopping>>

\* retryStoreWriteLane returns nil, or an error: a permanent one from the
\* store, or whatever it has when the application's context is done.
Succeeds(l) == write[l] = "running"
FailsFor(l) == write[l] = "running" \/ (stopping /\ write[l] \in {"queued", "backoff"})
Request(l) == write' = [write EXCEPT ![l] = "queued"] /\ UNCHANGED liveTurn
Release(l) == write' = [write EXCEPT ![l] = "none"] /\ UNCHANGED liveTurn

-----------------------------------------------------------------------------
(* SubmitNormalized: the channel, the time list and the count change under  *)
(* queueAgeMu; the dispatcher may receive in between.  A submission that    *)
(* finds the queue full only counts a drop, as does any once the shutdown   *)
(* flag is set: some time after the context's end, or never (MQTT disabled).*)

Submit(m) ==
    /\ submitting = Nothing
    /\ Len(mqttQueue) < MqttCap
    /\ mqttQueue' = Append(mqttQueue, m)
    /\ submitting' = m
    /\ UNCHANGED <<mqttTimes, outstanding, dispatcher, derivedVars, deriver, edgeVars, projector,
                   writerVars, critical, stopping>>

SubmitCounted ==
    /\ submitting # Nothing
    /\ mqttTimes' = Append(mqttTimes, submitting)
    /\ outstanding' = outstanding + 1
    /\ submitting' = Nothing
    /\ UNCHANGED <<mqttQueue, dispatcher, derivedVars, deriver, edgeVars, projector,
                   writerVars, critical, stopping>>

-----------------------------------------------------------------------------
(* The dispatcher: dispatch and handleMQTTOutcome. *)

TakeMessage ==
    /\ dispatcher.pc = "idle"
    /\ mqttQueue # <<>>
    /\ mqttQueue' = Tail(mqttQueue)
    /\ dispatcher' = At("received", Head(mqttQueue))
    /\ UNCHANGED <<mqttTimes, submitting, outstanding, derivedVars, deriver, edgeVars, projector,
                   writerVars, critical, stopping>>

DropFirst(s) == IF s = <<>> THEN s ELSE Tail(s)

\* Mutant: the time list is changed without queueAgeMu.
MutHandleUnlocked ==
    /\ dispatcher.pc = "received"
    /\ mqttTimes' = DropFirst(mqttTimes)
    /\ \/ /\ dispatcher' = Resting
          /\ outstanding' = outstanding - 1
          /\ UNCHANGED writerVars
       \/ /\ dispatcher' = At("writing", dispatcher.msg)
          /\ Request("primary")
          /\ UNCHANGED outstanding
    /\ UNCHANGED <<mqttQueue, submitting, derivedVars, deriver, edgeVars, projector, critical, stopping>>

\* The timestamp is popped under queueAgeMu; then the message needs no write
\* (internal, rejected, a panic) or a write on the primary lane.
Handle ==
    /\ dispatcher.pc = "received"
    /\ submitting = Nothing
    /\ mqttTimes' = DropFirst(mqttTimes)
    /\ \/ /\ dispatcher' = Resting
          /\ outstanding' = outstanding - 1
          /\ UNCHANGED writerVars
       \/ /\ dispatcher' = At("writing", dispatcher.msg)
          /\ Request("primary")
          /\ UNCHANGED outstanding
    /\ UNCHANGED <<mqttQueue, submitting, derivedVars, deriver, edgeVars, projector, critical, stopping>>

Persisted ==
    /\ dispatcher.pc = "writing"
    /\ Succeeds("primary")
    /\ Release("primary")
    /\ dispatcher' = At("persisted", dispatcher.msg)
    /\ UNCHANGED <<mqttVars, derivedVars, deriver, edgeVars, projector, critical, stopping>>

\* HandleFailed
PersistFailed ==
    /\ dispatcher.pc = "writing"
    /\ FailsFor("primary")
    /\ Release("primary")
    /\ dispatcher' = Resting
    /\ outstanding' = outstanding - 1
    /\ UNCHANGED <<mqttQueue, mqttTimes, submitting, derivedVars, deriver, edgeVars, projector,
                   critical, stopping>>

\* Mutant: a full derived queue drops the job instead of holding its producer.
MutDropWhenFull ==
    /\ dispatcher.pc = "persisted"
    /\ dispatcher' = Resting
    /\ outstanding' = outstanding - 1
    /\ IF Len(derivedQueue) < DerivedCap
       THEN /\ derivedQueue' = Append(derivedQueue, dispatcher.msg)
            /\ derivedTimes' = Append(derivedTimes, dispatcher.msg)
            /\ derivedAge' = TRUE
       ELSE UNCHANGED <<derivedQueue, derivedTimes, derivedAge>>
    /\ UNCHANGED <<mqttQueue, mqttTimes, submitting, ageRead, deriver, edgeVars, projector,
                   writerVars, critical, stopping>>

\* enqueueDerivedIngestContext.  With room, the send, the time and the gauge
\* are one section of derivedQueueMu, which the worker needs before it can do
\* anything that shows; without room the time is listed first and the send is
\* waited for.
EnqueueDerived ==
    /\ dispatcher.pc = "persisted"
    /\ derivedTimes' = Append(derivedTimes, dispatcher.msg)
    /\ derivedAge' = TRUE
    /\ IF Len(derivedQueue) < DerivedCap
       THEN /\ derivedQueue' = Append(derivedQueue, dispatcher.msg)
            /\ dispatcher' = Resting
            /\ outstanding' = outstanding - 1
       ELSE /\ dispatcher' = At("blocked", dispatcher.msg)
            /\ UNCHANGED <<derivedQueue, outstanding>>
    /\ UNCHANGED <<mqttQueue, mqttTimes, submitting, ageRead, deriver, edgeVars, projector,
                   writerVars, critical, stopping>>

BlockedSends ==
    /\ dispatcher.pc = "blocked"
    /\ Len(derivedQueue) < DerivedCap
    /\ derivedQueue' = Append(derivedQueue, dispatcher.msg)
    /\ dispatcher' = Resting
    /\ outstanding' = outstanding - 1
    /\ UNCHANGED <<mqttQueue, mqttTimes, submitting, derivedTimes, derivedAge, ageRead, deriver,
                   edgeVars, projector, writerVars, critical, stopping>>

IsFirst(s, m, i) == s[i] = m /\ \A j \in 1..(i - 1) : s[j] # m

\* The first entry of the list that equals m goes.
Without(s, m) ==
    IF \E i \in 1..Len(s) : IsFirst(s, m, i)
    THEN LET i == CHOOSE i \in 1..Len(s) : IsFirst(s, m, i)
         IN  SubSeq(s, 1, i - 1) \o SubSeq(s, i + 1, Len(s))
    ELSE s

\* Mutant: the wait for room has a time limit.
MutWaitTimesOut ==
    /\ dispatcher.pc = "blocked"
    /\ derivedTimes' = Without(derivedTimes, dispatcher.msg)
    /\ derivedAge' = (derivedTimes' # <<>>)
    /\ dispatcher' = Resting
    /\ outstanding' = outstanding - 1
    /\ UNCHANGED <<mqttQueue, mqttTimes, submitting, derivedQueue, ageRead, deriver, edgeVars,
                   projector, writerVars, critical, stopping>>

BlockedGivesUp ==
    /\ dispatcher.pc = "blocked"
    /\ stopping
    /\ derivedTimes' = Without(derivedTimes, dispatcher.msg)
    /\ derivedAge' = (derivedTimes' # <<>>)
    /\ dispatcher' = Resting
    /\ outstanding' = outstanding - 1
    /\ UNCHANGED <<mqttQueue, mqttTimes, submitting, derivedQueue, ageRead, deriver, edgeVars,
                   projector, writerVars, critical, stopping>>

DispatchStops ==
    /\ dispatcher.pc = "idle"
    /\ stopping
    /\ dispatcher' = Stopped
    /\ UNCHANGED <<mqttVars, derivedVars, deriver, edgeVars, projector, writerVars, critical, stopping>>

-----------------------------------------------------------------------------
(* The derived worker: derivedIngestLoop and processDerivedMQTT. *)

\* Mutant: the time is popped with the job, as the dispatcher does.
MutPopWithJob ==
    /\ deriver.pc = "idle"
    /\ derivedQueue # <<>>
    /\ derivedQueue' = Tail(derivedQueue)
    /\ derivedTimes' = DropFirst(derivedTimes)
    /\ deriver' = At("held", Head(derivedQueue))
    /\ UNCHANGED <<mqttVars, dispatcher, derivedAge, ageRead, edgeVars, projector,
                   writerVars, critical, stopping>>

TakeJob ==
    /\ deriver.pc = "idle"
    /\ derivedQueue # <<>>
    /\ derivedQueue' = Tail(derivedQueue)
    /\ deriver' = At("held", Head(derivedQueue))
    /\ UNCHANGED <<mqttVars, dispatcher, derivedTimes, derivedAge, ageRead, edgeVars, projector,
                   writerVars, critical, stopping>>

\* Once storage is not critical the job runs.  A status writes nothing or its
\* node's public event; a packet writes its advertised node and the node's
\* public event, if it has them, and then its activity or edge.
ProcessJob ==
    /\ deriver.pc = "held"
    /\ ~critical
    /\ \/ deriver' = At("done", deriver.msg) /\ UNCHANGED writerVars
       \/ \E pc \in {"event", "node", "commit"} :
              deriver' = At(pc, deriver.msg) /\ Request("live_core")
    /\ UNCHANGED <<mqttVars, dispatcher, derivedVars, edgeVars, projector, critical, stopping>>

\* Only a node that was written and is mapped is published; a node or event
\* write that failed does not end the job.
NodeWritten ==
    /\ FailsFor("live_core")
    /\ \/ deriver.pc = "event" /\ deriver' = At("done", deriver.msg) /\ Release("live_core")
       \/ /\ \/ deriver.pc = "node" /\ Succeeds("live_core") /\ deriver' = At("nodeEvent", deriver.msg)
             \/ deriver.pc \in {"node", "nodeEvent"} /\ deriver' = At("commit", deriver.msg)
          /\ Request("live_core")
    /\ UNCHANGED <<mqttVars, dispatcher, derivedVars, edgeVars, projector, critical, stopping>>

\* The activity or the edge is committed; enqueueEdgeProjection lists the
\* edge's time before it sends the edge.
Committed ==
    /\ deriver.pc = "commit"
    /\ Succeeds("live_core")
    /\ Release("live_core")
    /\ \/ deriver' = At("done", deriver.msg) /\ UNCHANGED edgeTimes
       \/ deriver' = At("offering", deriver.msg) /\ edgeTimes' = Append(edgeTimes, deriver.msg)
    /\ UNCHANGED <<mqttVars, dispatcher, derivedVars, edgeQueue, projector, critical, stopping>>

CommitFailed ==
    /\ deriver.pc = "commit"
    /\ FailsFor("live_core")
    /\ Release("live_core")
    /\ deriver' = At("done", deriver.msg)
    /\ UNCHANGED <<mqttVars, dispatcher, derivedVars, edgeVars, projector, critical, stopping>>

OfferEdge ==
    /\ deriver.pc = "offering"
    /\ Len(edgeQueue) < EdgeCap
    /\ edgeQueue' = Append(edgeQueue, deriver.msg)
    /\ deriver' = At("done", deriver.msg)
    /\ UNCHANGED <<mqttVars, dispatcher, derivedVars, edgeTimes, projector, writerVars, critical, stopping>>

OfferGivesUp ==
    /\ deriver.pc = "offering"
    /\ stopping
    /\ edgeTimes' = Without(edgeTimes, deriver.msg)
    /\ deriver' = At("done", deriver.msg)
    /\ UNCHANGED <<mqttVars, dispatcher, derivedVars, edgeQueue, projector, writerVars, critical, stopping>>

\* Mutant: the oldest time is read before the pop.
MutReadBeforePop ==
    /\ deriver.pc = "done"
    /\ derivedTimes' = DropFirst(derivedTimes)
    /\ ageRead' = (derivedTimes # <<>>)
    /\ deriver' = At("recording", Nothing)
    /\ UNCHANGED <<mqttVars, dispatcher, derivedQueue, derivedAge, edgeVars, projector,
                   writerVars, critical, stopping>>

\* popDerivedQueueTimestampLocked and the reading of the oldest time ...
PopDerivedTime ==
    /\ deriver.pc = "done"
    /\ derivedTimes' = DropFirst(derivedTimes)
    /\ ageRead' = (derivedTimes' # <<>>)
    /\ deriver' = At("recording", Nothing)
    /\ UNCHANGED <<mqttVars, dispatcher, derivedQueue, derivedAge, edgeVars, projector,
                   writerVars, critical, stopping>>

\* ... are reported by RecordDerivedProcessed after the unlock.
RecordProcessed ==
    /\ deriver.pc = "recording"
    /\ derivedAge' = ageRead
    /\ ageRead' = FALSE
    /\ deriver' = Resting
    /\ UNCHANGED <<mqttVars, dispatcher, derivedQueue, derivedTimes, edgeVars, projector,
                   writerVars, critical, stopping>>

\* Mutant: the pause loop does not watch the context.
MutPauseIgnoresContext ==
    /\ stopping
    /\ deriver.pc = "idle"
    /\ deriver' = Stopped
    /\ UNCHANGED <<mqttVars, dispatcher, derivedVars, edgeVars, projector, writerVars, critical, stopping>>

\* The loop ends between jobs, or with the job it holds while it is paused.
DeriverStops ==
    /\ stopping
    /\ deriver.pc = "idle" \/ (deriver.pc = "held" /\ critical)
    /\ deriver' = Stopped
    /\ UNCHANGED <<mqttVars, dispatcher, derivedVars, edgeVars, projector, writerVars, critical, stopping>>

-----------------------------------------------------------------------------
(* The projector: edgeProjectionLoop. *)

TakeEdge ==
    /\ projector.pc = "idle"
    /\ edgeQueue # <<>>
    /\ edgeQueue' = Tail(edgeQueue)
    /\ projector' = At("writing", Head(edgeQueue))
    /\ Request("background")
    /\ UNCHANGED <<mqttVars, dispatcher, derivedVars, deriver, edgeTimes, critical, stopping>>

\* Mutant: the loop returns on an error.
MutProjectorReturns ==
    /\ projector.pc = "writing"
    /\ FailsFor("background")
    /\ Release("background")
    /\ edgeTimes' = DropFirst(edgeTimes)
    /\ \/ Succeeds("background") /\ projector' = Resting
       \/ projector' = Stopped
    /\ UNCHANGED <<mqttVars, dispatcher, derivedVars, deriver, edgeQueue, critical, stopping>>

\* Projected or given up: either way the time is popped.
EndProjection ==
    /\ projector.pc = "writing"
    /\ FailsFor("background")
    /\ Release("background")
    /\ edgeTimes' = DropFirst(edgeTimes)
    /\ projector' = Resting
    /\ UNCHANGED <<mqttVars, dispatcher, derivedVars, deriver, edgeQueue, critical, stopping>>

ProjectorStops ==
    /\ projector.pc = "idle"
    /\ stopping
    /\ projector' = Stopped
    /\ UNCHANGED <<mqttVars, dispatcher, derivedVars, deriver, edgeVars, writerVars, critical, stopping>>

-----------------------------------------------------------------------------
\* The file system fills up or is freed; the application's context ends.
Pressure ==
    /\ critical' = ~critical
    /\ UNCHANGED <<mqttVars, dispatcher, derivedVars, deriver, edgeVars, projector, writerVars, stopping>>

Shutdown ==
    /\ ~stopping
    /\ stopping' = TRUE
    /\ UNCHANGED <<mqttVars, dispatcher, derivedVars, deriver, edgeVars, projector, writerVars, critical>>

DispatchStep == TakeMessage \/ Handle \/ Persisted \/ PersistFailed \/ EnqueueDerived
                \/ BlockedSends \/ BlockedGivesUp
DeriveStep == TakeJob \/ ProcessJob \/ NodeWritten \/ Committed \/ CommitFailed \/ OfferEdge
              \/ OfferGivesUp \/ PopDerivedTime \/ RecordProcessed
ProjectStep == TakeEdge \/ EndProjection

IngestNext ==
    \/ \E m \in Messages : Submit(m)
    \/ SubmitCounted
    \/ DispatchStep \/ DeriveStep \/ ProjectStep
    \/ \E l \in WriteLanes : WriteBegins(l) \/ WriteRetries(l)
    \/ DispatchStops \/ DeriverStops \/ ProjectorStops
    \/ Pressure \/ Shutdown

IngestSpec == IngestInit /\ [][IngestNext]_ingestVars

\* Every goroutine that can run does, the writer's included; the store neither
\* fails every message for ever nor keeps one write in its retries for ever.
\* Nobody is obliged to submit, and pressure comes and goes as it likes.
IngestFairness ==
    /\ WF_ingestVars(SubmitCounted)
    /\ WF_ingestVars(DispatchStep \/ DispatchStops)
    /\ WF_ingestVars(DeriveStep \/ DeriverStops)
    /\ WF_ingestVars(ProjectStep \/ ProjectorStops)
    /\ WF_ingestVars(\E l \in WriteLanes : WriteBegins(l))
    /\ \A l \in WriteLanes : WF_ingestVars(WriteRetries(l))
    /\ SF_ingestVars(Persisted)
    /\ SF_ingestVars(NodeWritten \/ Committed \/ CommitFailed)
    /\ SF_ingestVars(EndProjection)

-----------------------------------------------------------------------------
(* Properties. *)

DispatcherStates == {"idle", "received", "writing", "persisted", "blocked", "stopped"}
DeriverStates == {"idle", "held", "node", "nodeEvent", "event", "commit", "offering", "done", "recording", "stopped"}
ProjectorStates == {"idle", "writing", "stopped"}
Places(pcs) == [pc : pcs, msg : Messages \cup {Nothing}]

\* Every variable has its type, every channel respects its capacity, and a
\* goroutine waits for the writer exactly while its lane has its request.
IngestTypeOK ==
    /\ mqttQueue \in Seq(Messages) /\ Len(mqttQueue) <= MqttCap
    /\ derivedQueue \in Seq(Messages) /\ Len(derivedQueue) <= DerivedCap
    /\ edgeQueue \in Seq(Messages) /\ Len(edgeQueue) <= EdgeCap
    /\ {mqttTimes, derivedTimes, edgeTimes} \subseteq Seq(Messages)
    /\ submitting \in Messages \cup {Nothing} /\ outstanding \in Int
    /\ dispatcher \in Places(DispatcherStates)
    /\ deriver \in Places(DeriverStates)
    /\ projector \in Places(ProjectorStates)
    /\ write \in [WriteLanes -> {"none", "queued", "running", "backoff"}]
    /\ liveTurn \in {"primary", "live_core"}
    /\ {derivedAge, ageRead, critical, stopping} \subseteq BOOLEAN
    /\ write["primary"] # "none" <=> dispatcher.pc = "writing"
    /\ write["live_core"] # "none" <=> deriver.pc \in {"node", "nodeEvent", "event", "commit"}
    /\ write["background"] # "none" <=> projector.pc = "writing"

Held(place, pcs) == IF place.pc \in pcs THEN <<place.msg>> ELSE <<>>

\* accepted - processed - failed is what is still in the client: the queue and
\* the message in the dispatcher's hand.  The counts are atomics that three
\* places update; release gates compare them, and they may never say that
\* more was handled than was accepted.
InFlightExact ==
    /\ outstanding >= 0
    /\ LET uncounted == IF submitting = Nothing THEN 0 ELSE 1
           inHand == IF dispatcher.pc \in {"idle", "stopped"} THEN 0 ELSE 1
       IN  outstanding = Len(mqttQueue) + inHand - uncounted

MqttTimesMatch ==
    mqttTimes \o (IF submitting = Nothing THEN <<>> ELSE <<submitting>>)
        = Held(dispatcher, {"received"}) \o mqttQueue
DerivedTimesMatch ==
    derivedTimes = Held(deriver, {"held", "node", "nodeEvent", "event", "commit", "offering", "done"})
                       \o derivedQueue \o Held(dispatcher, {"blocked"})
EdgeTimesMatch ==
    edgeTimes = Held(projector, {"writing"}) \o edgeQueue \o Held(deriver, {"offering"})

\* The time lists are what the oldest-age metrics and the maintenance gates
\* read.  Each one is its queue's content, with the item its consumer still
\* works on before it and the one its producer is blocked with after it - in
\* this order, or the oldest age would be another item's.
TimesMatchWork ==
    /\ MqttTimesMatch
    /\ stopping \/ DerivedTimesMatch
    /\ stopping \/ EdgeTimesMatch

\* The reported age of derived work never outlives the work: with the worker
\* at rest and nothing queued or waiting, readiness must not go on ageing.
AgeClears ==
    (deriver.pc = "idle" /\ derivedTimes = <<>> /\ ~stopping) => ~derivedAge

\* The stages of IngestFifo in the pipeline: what a blocked producer holds is
\* the newest item of the stage it waits to enter.
Fifo == INSTANCE IngestFifo WITH
    AcceptedCap <- MqttCap,
    PersistedCap <- DerivedCap + 1,
    EdgesCap <- EdgeCap + 1,
    accepted <- mqttQueue,
    handling <- Held(dispatcher, {"received", "writing"}),
    persisted <- derivedQueue \o Held(dispatcher, {"persisted", "blocked"}),
    deriving <- Held(deriver, {"held", "node", "nodeEvent", "event", "commit"}),
    edges <- edgeQueue \o Held(deriver, {"offering"}),
    projecting <- Held(projector, {"writing"}),
    over <- stopping

\* Backpressure is lossless (enqueueDerivedIngestContext's comment): nothing
\* that was persisted is skipped or overtaken, before shutdown nothing is
\* lost, and the pipeline never holds more than its capacities and hands.
LosslessStages == Fifo!FifoSpec

\* The goroutines wait for each other in a chain - dispatcher for worker,
\* worker for projector, projector for a writer that serves the other two
\* first.  However much is submitted, the chain moves: the full queues
\* themselves silence the live lanes.
BackpressureReleases == deriver.pc = "offering" ~> deriver.pc # "offering"

\* Every message the dispatcher takes is answered for, unless storage stays
\* critical for ever.
DispatcherReturns == (<>[]~critical) => []<>(dispatcher.pc \in {"idle", "stopped"})

\* After the context's end every loop ends, whatever it was waiting for, once
\* the shutdown flag keeps out new messages or nobody submits one.
LoopsEnd ==
    (<>[](submitting = Nothing)) =>
        (stopping ~> /\ dispatcher.pc = "stopped"
                     /\ deriver.pc = "stopped"
                     /\ projector.pc = "stopped")
=============================================================================
