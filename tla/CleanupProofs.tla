----------------------------- MODULE CleanupProofs -----------------------------
(***************************************************************************)
(* The retention loop beside the pipeline is both: the pipeline that        *)
(* IngestProofs speaks of, and the retention loop that RetentionProofs      *)
(* speaks of, whose load is now what the pipeline does.                     *)
(***************************************************************************)
EXTENDS Cleanup, IngestProofs

\* The retention loop moves nothing of the pipeline.
LEMMA PipelineMovesAlone ==
    ASSUME CleanupNext PROVE IngestNext \/ UNCHANGED ingestVars
BY DEF CleanupNext, PipelineStep, Wait, Besides, BeginCycle, Gate, Statement

\* The pipeline beside the retention loop is the one of Ingest: pruneLoop only
\* reads its queues and counters.
THEOREM CleanupIngests == CleanupSpec => IngestSpec
<1>1. CleanupInit => IngestInit
  BY DEF CleanupInit
<1>2. [CleanupNext]_<<ingestVars, late, cleanupVars>> => [IngestNext]_ingestVars
  BY PipelineMovesAlone
<1> QED BY <1>1, <1>2, PTL DEF CleanupSpec, IngestSpec

Sides ==
    \/ UNCHANGED <<mqttQueue, mqttTimes, critical, stopping>>
    \/ UNCHANGED <<derivedQueue, derivedTimes, critical, stopping>>
    \/ UNCHANGED <<mqttQueue, mqttTimes, derivedQueue, derivedTimes, stopping>> /\ critical' = ~critical
    \/ UNCHANGED <<mqttQueue, mqttTimes, derivedQueue, derivedTimes, critical>> /\ ~stopping /\ stopping' = TRUE

\* No step of the pipeline moves both of the queues that the gate reads.
LEMMA OneSideMoves == ASSUME IngestNext PROVE Sides
<1>1. ASSUME NEW m \in Messages, Submit(m) PROVE Sides
  BY <1>1 DEF Submit, derivedVars, Sides
<1>2. CASE SubmitCounted
  BY <1>2 DEF SubmitCounted, derivedVars, Sides
<1>3. CASE DispatchStep
  BY <1>3 DEF DispatchStep, TakeMessage, Handle, Persisted, PersistFailed, EnqueueDerived,
              BlockedSends, BlockedGivesUp, mqttVars, derivedVars, Sides
<1>4. CASE DeriveStep
  BY <1>4 DEF DeriveStep, TakeJob, ProcessJob, NodeWritten, Committed, CommitFailed, OfferEdge,
              OfferGivesUp, PopDerivedTime, RecordProcessed, mqttVars, Sides
<1>5. CASE ProjectStep
  BY <1>5 DEF ProjectStep, TakeEdge, EndProjection, mqttVars, Sides
<1>6. ASSUME NEW l \in WriteLanes, WriteBegins(l) \/ WriteRetries(l) PROVE Sides
  BY <1>6 DEF WriteBegins, WriteRetries, mqttVars, Sides
<1>7. CASE DispatchStops \/ DeriverStops \/ ProjectorStops
  BY <1>7 DEF DispatchStops, DeriverStops, ProjectorStops, mqttVars, Sides
<1>8. CASE Pressure \/ Shutdown
  BY <1>8 DEF Pressure, Shutdown, mqttVars, derivedVars, Sides
<1> QED BY <1>1, <1>2, <1>3, <1>4, <1>5, <1>6, <1>7, <1>8 DEF IngestNext

\* What the gate knows of a queue changes with the queue or with its lateness.
LEMMA PressureFollows ==
    /\ UNCHANGED <<mqttQueue, mqttTimes>> /\ ("primary" \in late' <=> "primary" \in late)
          => (PrimaryPressured' <=> PrimaryPressured)
    /\ UNCHANGED <<derivedQueue, derivedTimes>> /\ ("derived" \in late' <=> "derived" \in late)
          => (DerivedPressured' <=> DerivedPressured)
BY DEF PrimaryPressured, DerivedPressured

LEMMA LateFollows ==
    ASSUME IngestTypeOK, late' = {q \in late : Len(TimesOf'[q]) >= Len(TimesOf[q])}
    PROVE  /\ UNCHANGED mqttTimes => ("primary" \in late' <=> "primary" \in late)
           /\ UNCHANGED derivedTimes => ("derived" \in late' <=> "derived" \in late)
<1>1. Len(mqttTimes) \in Int /\ Len(derivedTimes) \in Int
  BY DEF IngestTypeOK
<1> QED BY <1>1 DEF TimesOf

\* As values, equivalent conditions are equal and others are complements.
LEMMA PressureValues ==
    /\ (PrimaryPressured' <=> PrimaryPressured) => PrimaryPressured' = PrimaryPressured
    /\ ~(PrimaryPressured' <=> PrimaryPressured) => PrimaryPressured' = ~PrimaryPressured
    /\ (DerivedPressured' <=> DerivedPressured) => DerivedPressured' = DerivedPressured
    /\ ~(DerivedPressured' <=> DerivedPressured) => DerivedPressured' = ~DerivedPressured
BY DEF PrimaryPressured, DerivedPressured

\* A step of the pipeline is a change of the load, the shutdown, or nothing.
LEMMA PipelineIsLoad ==
    ASSUME IngestTypeOK, PipelineStep
    PROVE  [Retention!RetentionNext]_(Retention!retentionVars)
<1>1. UNCHANGED <<rows, due, packets, tooOld, pruner, failures>>
  BY DEF PipelineStep, cleanupVars
<1>2. /\ UNCHANGED mqttTimes => ("primary" \in late' <=> "primary" \in late)
      /\ UNCHANGED derivedTimes => ("derived" \in late' <=> "derived" \in late)
  BY LateFollows DEF PipelineStep
<1>3. CASE UNCHANGED <<mqttQueue, mqttTimes, critical, stopping>>
  <2>1. PrimaryPressured' = PrimaryPressured
    BY <1>2, <1>3, PressureFollows, PressureValues
  <2>2. CASE DerivedPressured' = DerivedPressured
    BY <1>1, <1>3, <2>1, <2>2 DEF Retention!retentionVars, Retention!loadVars, Retention!storeVars
  <2>3. CASE DerivedPressured' = ~DerivedPressured
    <3>1. Retention!Load
      BY <1>1, <1>3, <2>1, <2>3 DEF Retention!Load, Retention!storeVars
    <3> QED BY <3>1 DEF Retention!RetentionNext
  <2> QED BY <2>2, <2>3, PressureValues
<1>4. CASE UNCHANGED <<derivedQueue, derivedTimes, critical, stopping>>
  <2>1. DerivedPressured' = DerivedPressured
    BY <1>2, <1>4, PressureFollows, PressureValues
  <2>2. CASE PrimaryPressured' = PrimaryPressured
    BY <1>1, <1>4, <2>1, <2>2 DEF Retention!retentionVars, Retention!loadVars, Retention!storeVars
  <2>3. CASE PrimaryPressured' = ~PrimaryPressured
    <3>1. Retention!Load
      BY <1>1, <1>4, <2>1, <2>3 DEF Retention!Load, Retention!storeVars
    <3> QED BY <3>1 DEF Retention!RetentionNext
  <2> QED BY <2>2, <2>3, PressureValues
<1>5. CASE UNCHANGED <<mqttQueue, mqttTimes, derivedQueue, derivedTimes, stopping>>
           /\ critical' = ~critical
  <2>1. PrimaryPressured' = PrimaryPressured /\ DerivedPressured' = DerivedPressured
    BY <1>2, <1>5, PressureFollows, PressureValues
  <2>2. critical \in BOOLEAN
    BY DEF IngestTypeOK
  <2>3. Retention!Load
    BY <1>1, <1>5, <2>1, <2>2 DEF Retention!Load, Retention!storeVars
  <2> QED BY <2>3 DEF Retention!RetentionNext
<1>6. CASE UNCHANGED <<mqttQueue, mqttTimes, derivedQueue, derivedTimes, critical>>
           /\ ~stopping /\ stopping' = TRUE
  <2>1. PrimaryPressured' = PrimaryPressured /\ DerivedPressured' = DerivedPressured
    BY <1>2, <1>6, PressureFollows, PressureValues
  <2>2. Retention!ShutDown
    BY <1>1, <1>6, <2>1 DEF Retention!ShutDown, Retention!storeVars
  <2> QED BY <2>2 DEF Retention!RetentionNext
<1> QED BY <1>3, <1>4, <1>5, <1>6, OneSideMoves DEF PipelineStep, Sides

\* Time moves one condition of the gate.
LEMMA WaitIsLoad ==
    ASSUME NEW q \in {"primary", "derived"}, Wait(q)
    PROVE  [Retention!RetentionNext]_(Retention!retentionVars)
<1>1. UNCHANGED <<mqttQueue, mqttTimes, derivedQueue, derivedTimes, critical, stopping,
                  rows, due, packets, tooOld, pruner, failures>>
  BY DEF Wait, cleanupVars, ingestVars, mqttVars, derivedVars
<1>2. late' = late \cup {q}
  BY DEF Wait
<1>3. CASE q = "primary"
  <2>1. DerivedPressured' = DerivedPressured
    BY <1>1, <1>2, <1>3, PressureFollows, PressureValues
  <2>2. CASE PrimaryPressured' = PrimaryPressured
    BY <1>1, <2>1, <2>2 DEF Retention!retentionVars, Retention!loadVars, Retention!storeVars
  <2>3. CASE PrimaryPressured' = ~PrimaryPressured
    <3>1. Retention!Load
      BY <1>1, <2>1, <2>3 DEF Retention!Load, Retention!storeVars
    <3> QED BY <3>1 DEF Retention!RetentionNext
  <2> QED BY <2>2, <2>3, PressureValues
<1>4. CASE q = "derived"
  <2>1. PrimaryPressured' = PrimaryPressured
    BY <1>1, <1>2, <1>4, PressureFollows, PressureValues
  <2>2. CASE DerivedPressured' = DerivedPressured
    BY <1>1, <2>1, <2>2 DEF Retention!retentionVars, Retention!loadVars, Retention!storeVars
  <2>3. CASE DerivedPressured' = ~DerivedPressured
    <3>1. Retention!Load
      BY <1>1, <2>1, <2>3 DEF Retention!Load, Retention!storeVars
    <3> QED BY <3>1 DEF Retention!RetentionNext
  <2> QED BY <2>2, <2>3, PressureValues
<1> QED BY <1>3, <1>4

\* At the start nothing is queued, so nothing presses.
LEMMA CleanupInitMaps == CleanupInit => Retention!RetentionInit
<1> SUFFICES ASSUME CleanupInit PROVE Retention!RetentionInit
  OBVIOUS
<1>1. /\ mqttQueue = <<>> /\ derivedQueue = <<>> /\ late = {}
      /\ critical = FALSE /\ stopping = FALSE
  BY DEF CleanupInit, IngestInit
<1>2. ~PrimaryPressured /\ ~DerivedPressured
  BY <1>1, IngestCapAssumption DEF PrimaryPressured, DerivedPressured
<1>3. PrimaryPressured = FALSE /\ DerivedPressured = FALSE
  BY <1>2
<1> QED BY <1>1, <1>3 DEF CleanupInit, Retention!RetentionInit

\* Beside the pipeline the retention loop is the one of Retention, whatever the
\* load: what is proved there of every load holds here (retentionPruneAllowed's
\* conditions on Client.Status and RuntimeStats are values of that load).
THEOREM CleanupRetains == CleanupSpec => Retention!RetentionSpec
<1>1. CleanupInit => Retention!RetentionInit
  BY CleanupInitMaps
<1>2. IngestTypeOK /\ [CleanupNext]_<<ingestVars, late, cleanupVars>>
        => [Retention!RetentionNext]_(Retention!retentionVars)
  <2> SUFFICES ASSUME IngestTypeOK, [CleanupNext]_<<ingestVars, late, cleanupVars>>
               PROVE  [Retention!RetentionNext]_(Retention!retentionVars)
    OBVIOUS
  <2>1. CASE PipelineStep
    BY <2>1, PipelineIsLoad
  <2>2. CASE \E q \in {"primary", "derived"} : Wait(q)
    BY <2>2, WaitIsLoad
  <2>3. CASE Besides(Retention!TimePasses \/ \E r \in Records : Retention!Write(r))
    BY <2>3 DEF Besides, Retention!RetentionNext
  <2>4. CASE BeginCycle \/ Gate \/ Statement \/ Besides(Retention!StepFails \/ Retention!LoopEnds)
    BY <2>4 DEF BeginCycle, Gate, Statement, Besides, Retention!RetentionNext, Retention!Prune
  <2>5. CASE UNCHANGED <<ingestVars, late, cleanupVars>>
    <3>1. /\ UNCHANGED <<mqttQueue, mqttTimes, derivedQueue, derivedTimes, critical, stopping>>
          /\ UNCHANGED <<late, rows, due, packets, tooOld, pruner, failures>>
      BY <2>5 DEF ingestVars, mqttVars, derivedVars, cleanupVars
    <3>2. PrimaryPressured' = PrimaryPressured /\ DerivedPressured' = DerivedPressured
      BY <3>1, PressureFollows, PressureValues
    <3> QED BY <3>1, <3>2 DEF Retention!retentionVars, Retention!loadVars, Retention!storeVars
  <2> QED BY <2>1, <2>2, <2>3, <2>4, <2>5 DEF CleanupNext
<1>3. CleanupSpec => []IngestTypeOK
  BY CleanupIngests, IngestTypeCorrect
<1> QED BY <1>1, <1>2, <1>3, PTL DEF CleanupSpec, Retention!RetentionSpec
=============================================================================
