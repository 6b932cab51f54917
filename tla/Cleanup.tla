-------------------------------- MODULE Cleanup --------------------------------
(***************************************************************************)
(* The retention loop beside the ingest pipeline: what its gate reads are   *)
(* the pipeline's queues and their ages, its steps wait for the pipeline's  *)
(* writer (pruneLoop and retentionPruneAllowed of                           *)
(* backend/internal/app/lifecycle.go with Client.Status and RuntimeStats).  *)
(***************************************************************************)
EXTENDS Ingest

CONSTANTS Records, Packets, PacketOf, BatchSize, RowBudget, MaxFailures

VARIABLES
    late, \* the time lists whose first entry is older than 2 s
    rows, due, packets, tooOld, pruner, failures

cleanupVars == <<rows, due, packets, tooOld, pruner, failures>>

TimesOf == [primary |-> mqttTimes, derived |-> derivedTimes]

\* retentionPruneAllowed's conditions on Client.Status and on RuntimeStats.
PrimaryPressured == 2 * Len(mqttQueue) >= MqttCap \/ "primary" \in late
DerivedPressured == 2 * Len(derivedQueue) >= DerivedCap \/ "derived" \in late

Retention == INSTANCE Retention WITH
    primaryPressured <- PrimaryPressured,
    derivedPressured <- DerivedPressured,
    storage <- IF critical THEN "critical" ELSE "ok",
    over <- stopping

CleanupInit ==
    /\ IngestInit
    /\ late = {}
    /\ rows = [r \in Records |-> {}] /\ packets = {} /\ tooOld = {}
    /\ due \in [Records -> {d \in SUBSET Retention!RowTables : "packet_observations" \in d}]
    /\ pruner = Retention!Waiting
    /\ failures = 0

\* Time passes. An entry that is taken off takes its lateness with it.
Wait(q) ==
    /\ TimesOf[q] # <<>> /\ q \notin late
    /\ late' = late \cup {q}
    /\ UNCHANGED <<ingestVars, cleanupVars>>

PipelineStep ==
    /\ IngestNext
    /\ late' = {q \in late : Len(TimesOf'[q]) >= Len(TimesOf[q])}
    /\ UNCHANGED cleanupVars

\* A step of the background lane has the writer while no live request waits.
WriterFree ==
    /\ \A l \in WriteLanes : write[l] # "running"
    /\ \A l \in WriteLanes \ {"background"} : write[l] # "queued"

Besides(action) == UNCHANGED <<ingestVars, late>> /\ action

BeginCycle == Besides(Retention!BeginCycle)
Gate == Besides(Retention!Gate)
Statement == Besides(WriterFree /\ Retention!Statement)

CleanupNext ==
    \/ PipelineStep
    \/ \E q \in {"primary", "derived"} : Wait(q)
    \/ Besides(Retention!TimePasses \/ \E r \in Records : Retention!Write(r))
    \/ BeginCycle \/ Gate \/ Statement
    \/ Besides(Retention!StepFails \/ Retention!LoopEnds)

CleanupSpec == CleanupInit /\ [][CleanupNext]_<<ingestVars, late, cleanupVars>>

\* What the two parts ask for, and that time passes.
CleanupFairness ==
    /\ IngestFairness
    /\ WF_late(\E q \in {"primary", "derived"} : Wait(q))
    /\ WF_cleanupVars(BeginCycle) /\ WF_cleanupVars(Gate) /\ WF_cleanupVars(Statement)
CleanupFairSpec == CleanupSpec /\ CleanupFairness

-----------------------------------------------------------------------------
\* The comment in retentionPruneAllowed: derived work is paused under storage
\* pressure, and its growing queue must not block the cleanup. When storage
\* stays critical and no message comes any more, what is too old must go.
PausedWorkLetsCleanup ==
    \A r \in Records :
        <>[](critical /\ submitting = Nothing)
            => (Retention!Overdue(r) ~> (~Retention!Overdue(r) \/ stopping))
=============================================================================
