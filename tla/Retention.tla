------------------------------- MODULE Retention -------------------------------
(***************************************************************************)
(* The retention loop: one bounded DELETE per step, table after table, in   *)
(* cycles that a row budget, an error or pressure on the ingest queues may  *)
(* cut short (pruneLoop of backend/internal/app/lifecycle.go,               *)
(* RetentionPruner of backend/internal/store/prune.go), while messages are  *)
(* stored, derived from and grow too old.                                   *)
(*                                                                          *)
(* A record is one observation with the rows that are derived from it; each *)
(* row has its own time and each table its own retention, so each row grows *)
(* too old by itself, be it before it is written: derived work may wait for *)
(* ever.  Several records may be receptions of one packet.  The gate's view *)
(* of the queues and of the file system belongs to the environment.         *)
(***************************************************************************)
EXTENDS Integers, Sequences, FiniteSets

CONSTANTS
    Records,    \* observations
    Packets,    \* packets
    PacketOf,   \* the packet that was observed
    BatchSize,  \* pruneBatchSize (100)
    RowBudget,  \* retentionPruneMaxRowsPerCycle
    MaxFailures \* bound: steps that fail for another reason than a reference

RowTables == {"public_events", "propagation_events", "public_packet_paths",
              "live_edge_events", "packet_observations"}

ASSUME PacketOfAssumption == PacketOf \in [Records -> Packets]
ASSUME PruneBoundsAssumption ==
    /\ {BatchSize, RowBudget} \subseteq Nat \ {0}
    /\ MaxFailures \in Nat

VARIABLES
    primaryPressured, \* the MQTT queue is half full or its head older than 2 s
    derivedPressured, \* the derived queue is half full or its head older than 2 s
    storage,          \* StorageInfo().PressureState
    over,             \* the application's context is done
    rows,             \* the tables that hold a row of each record
    due,              \* the tables into which a row of it may still be written
    packets,          \* the rows of the table packets
    tooOld,           \* the rows, written or due, past their table's retention
    pruner,           \* pruneLoop and its RetentionPruner; fresh is history
    failures

loadVars == <<primaryPressured, derivedPressured, storage, over>>
storeVars == <<rows, due, packets, tooOld>>
retentionVars == <<loadVars, storeVars, pruner, failures>>

\* NewRetentionPruner's targets. public_events also stands for the tables that
\* name no row and that no row names.
Targets == <<"public_events", "propagation_events", "public_packet_paths",
             "live_edge_events", "packet_observations", "packets">>

\* The foreign keys: the tables whose rows name the record's row of this one.
Referrers(table) ==
    CASE table = "packet_observations" -> {"live_edge_events", "public_packet_paths"}
      [] table = "live_edge_events" -> {"public_packet_paths"}
      [] table = "public_packet_paths" -> {"propagation_events"}
      [] OTHER -> {}

\* cutoff: the rows older than the cycle's cut-offs; fresh: those of them that
\* were written since the cycle began.
Waiting == [pc |-> "waiting", next |-> 1, cutoff |-> {}, fresh |-> {}, deleted |-> 0]

RetentionInit ==
    /\ primaryPressured = FALSE /\ derivedPressured = FALSE /\ storage = "ok" /\ over = FALSE
    /\ rows = [r \in Records |-> {}] /\ packets = {} /\ tooOld = {}
    /\ due \in [Records -> {d \in SUBSET RowTables : "packet_observations" \in d}]
    /\ pruner = Waiting
    /\ failures = 0

-----------------------------------------------------------------------------
(* The other writers, and time. *)

\* Ingest ids, edge ids and dedupe keys: a row is written once.
Insert(r, new) ==
    /\ rows' = [rows EXCEPT ![r] = @ \cup new]
    /\ due' = [due EXCEPT ![r] = @ \ new]
    /\ pruner' = [pruner EXCEPT !.fresh = @ \cup (({r} \X new) \cap pruner.cutoff)]

\* UpsertPacketAndObservation: one transaction.
Observe(r) ==
    /\ "packet_observations" \in due[r]
    /\ Insert(r, {"packet_observations"})
    /\ packets' = packets \cup {PacketOf[r]}
    /\ UNCHANGED <<loadVars, tooOld, failures>>

\* CommitLiveEdge: the edge and its public events in one transaction, however
\* late. Without the observation the foreign key refuses it.
CommitEdge(r) ==
    /\ "live_edge_events" \in due[r] /\ "packet_observations" \in rows[r]
    /\ Insert(r, {"live_edge_events"} \cup (due[r] \cap {"public_events"}))
    /\ UNCHANGED <<loadVars, packets, tooOld, failures>>

\* What is published of a message without an edge names no other row; the
\* observation was read before, in a step of its own, and may be gone by now.
CommitActivity(r) ==
    /\ "public_events" \in due[r]
    /\ {"packet_observations", "live_edge_events"} \cap due[r] = {}
    /\ Insert(r, {"public_events"})
    /\ UNCHANGED <<loadVars, packets, tooOld, failures>>

\* ProjectEdgeEvent, in the background or by the backfill.
Project(r) ==
    /\ "public_packet_paths" \in due[r]
    /\ {"live_edge_events", "packet_observations"} \subseteq rows[r]
    /\ Insert(r, {"public_packet_paths"})
    /\ UNCHANGED <<loadVars, packets, tooOld, failures>>

\* UpsertPropagationEvent.
FindPropagation(r) ==
    /\ "propagation_events" \in due[r] /\ "public_packet_paths" \in rows[r]
    /\ Insert(r, {"propagation_events"})
    /\ UNCHANGED <<loadVars, packets, tooOld, failures>>

GrowOld(r, table) ==
    /\ table \in rows[r] \cup due[r] /\ <<r, table>> \notin tooOld
    /\ tooOld' = tooOld \cup {<<r, table>>}
    /\ UNCHANGED <<loadVars, rows, due, packets, pruner, failures>>

Load ==
    /\ \/ primaryPressured' = ~primaryPressured /\ UNCHANGED <<derivedPressured, storage>>
       \/ derivedPressured' = ~derivedPressured /\ UNCHANGED <<primaryPressured, storage>>
       \/ /\ storage' \in {"ok", "warn", "critical"} \ {storage}
          /\ UNCHANGED <<primaryPressured, derivedPressured>>
    /\ UNCHANGED <<over, storeVars, pruner, failures>>

ShutDown ==
    /\ ~over
    /\ over' = TRUE
    /\ UNCHANGED <<primaryPressured, derivedPressured, storage, storeVars, pruner, failures>>

-----------------------------------------------------------------------------
(* pruneLoop. *)

\* The delay has passed: a new pruner, with the cut-offs of this moment.
BeginCycle ==
    /\ pruner.pc = "waiting"
    /\ pruner' = [Waiting EXCEPT !.pc = "gate", !.cutoff = tooOld]
    /\ UNCHANGED <<loadVars, storeVars, failures>>

\* Mutant: the derived queue is looked at before the storage.
MutPruneAllowed == ~primaryPressured /\ ~derivedPressured

\* retentionPruneAllowed: derived work is paused under critical storage, and
\* its queue must then not hold up the cleanup.
PruneAllowed == ~primaryPressured /\ (storage # "ok" \/ ~derivedPressured)

\* Before every step; the load may change before the step has its turn.
Gate ==
    /\ pruner.pc = "gate"
    /\ pruner' = IF pruner.deleted < RowBudget /\ PruneAllowed
                 THEN [pruner EXCEPT !.pc = "queued"] ELSE Waiting
    /\ UNCHANGED <<loadVars, storeVars, failures>>

\* The rows of a table that are older than its cut-off.
Expired(table) == {r \in Records : table \in rows[r] /\ <<r, table>> \in pruner.cutoff}

\* What the next DELETE selects: expired rows, of the observations those that no
\* edge and no path names, of the packets those that nobody observed.
Deletable(table) ==
    CASE table = "packets" ->
            {p \in packets : \A r \in Records : PacketOf[r] = p => "packet_observations" \notin rows[r]}
      [] table = "packet_observations" -> {r \in Expired(table) : rows[r] \cap Referrers(table) = {}}
      [] OTHER -> Expired(table)

\* A full batch, or all there is.
Batch(table) ==
    LET all == Deletable(table)
    IN  {b \in SUBSET all : Cardinality(b) = BatchSize \/ (b = all /\ Cardinality(b) < BatchSize)}

\* A row of the batch that another row still names fails the whole statement.
Refused(table, b) == table # "packets" /\ \E r \in b : rows[r] \cap Referrers(table) # {}

\* Mutant: a full batch ends its table, too.
MutAfterBatch(b) == pruner.next + 1

\* A short batch exhausts its table.
AfterBatch(b) == IF Cardinality(b) < BatchSize THEN pruner.next + 1 ELSE pruner.next

Remove(table, b) ==
    IF table = "packets"
    THEN packets' = packets \ b /\ UNCHANGED rows
    ELSE /\ rows' = [r \in Records |-> IF r \in b THEN rows[r] \ {table} ELSE rows[r]]
         /\ UNCHANGED packets

\* One DELETE statement of the background lane. With the last table the cycle
\* is complete.
Step ==
    /\ pruner.pc = "queued"
    /\ LET table == Targets[pruner.next]
       IN  \E b \in Batch(table) :
              /\ ~Refused(table, b)
              /\ Remove(table, b)
              /\ pruner' = [pruner EXCEPT
                               !.pc = IF AfterBatch(b) > Len(Targets) THEN "waiting" ELSE "gate",
                               !.next = AfterBatch(b),
                               !.deleted = @ + Cardinality(b)]
    /\ UNCHANGED <<loadVars, due, tooOld, failures>>

\* The foreign keys are enforced: the step fails, and with it the cycle.
StepRefused ==
    /\ pruner.pc = "queued"
    /\ \E b \in Batch(Targets[pruner.next]) : Refused(Targets[pruner.next], b)
    /\ pruner' = Waiting
    /\ UNCHANGED <<loadVars, storeVars, failures>>

\* The store fails, or the cycle's 55 s are over, be it after the deletion.
StepFails ==
    /\ pruner.pc = "queued"
    /\ over \/ failures < MaxFailures
    /\ failures' = IF over THEN failures ELSE failures + 1
    /\ LET table == Targets[pruner.next]
       IN  \E b \in Batch(table) \cup {{}} : ~Refused(table, b) /\ Remove(table, b)
    /\ pruner' = Waiting
    /\ UNCHANGED <<loadVars, due, tooOld>>

LoopEnds ==
    /\ pruner.pc = "waiting"
    /\ over
    /\ pruner' = [Waiting EXCEPT !.pc = "ended"]
    /\ UNCHANGED <<loadVars, storeVars, failures>>

-----------------------------------------------------------------------------
Write(r) == Observe(r) \/ CommitEdge(r) \/ CommitActivity(r) \/ Project(r) \/ FindPropagation(r)
TimePasses == \E r \in Records : \E table \in RowTables : GrowOld(r, table)
Statement == Step \/ StepRefused
Prune == BeginCycle \/ Gate \/ Statement \/ StepFails \/ LoopEnds
RetentionNext == (\E r \in Records : Write(r)) \/ TimePasses \/ Load \/ ShutDown \/ Prune

RetentionSpec == RetentionInit /\ [][RetentionNext]_retentionVars

\* Time, the loop's timer and its steps; not the writers, and not the load,
\* which comes and goes.
RetentionFairness ==
    /\ WF_retentionVars(TimePasses)
    /\ WF_retentionVars(BeginCycle \/ LoopEnds) /\ WF_retentionVars(Gate)
    /\ WF_retentionVars(Statement)

-----------------------------------------------------------------------------
(* Properties. *)

CycleComplete == pruner.pc = "queued" /\ pruner'.pc = "waiting" /\ pruner'.next > Len(Targets)

\* A row that the cycle was to delete and that is there after all: written
\* meanwhile, or an observation that an edge or a path names which is not itself
\* such a row - the observation that
\* TestRetentionPrunerSkipsObservationsStillReferencedByRecentPublicData expects
\* to stay.
Spared(r, table) ==
    \/ <<r, table>> \in pruner.fresh
    \/ /\ table = "packet_observations"
       /\ \E u \in Referrers(table) \cap rows[r] :
             <<r, u>> \in pruner.cutoff => <<r, u>> \in pruner.fresh

\* A cycle that says it is done, after which the loop rests for a minute, has
\* left nothing that was past its cut-off and already there when it began, but
\* observations that younger rows name, and no packet nobody observed, whatever
\* was written meanwhile. And cycles, complete or not, take no row before its
\* time, nor a packet from an observation that shares it with an older one.
CleanupExact ==
    [][/\ CycleComplete =>
             /\ \A r \in Records : \A table \in rows'[r] :
                   <<r, table>> \in pruner.cutoff => Spared(r, table)
             /\ \A p \in packets' : \E r \in Records :
                   PacketOf[r] = p /\ "packet_observations" \in rows'[r]
       /\ \A r \in Records :
             /\ \A table \in rows[r] \ rows'[r] : <<r, table>> \in tooOld
             /\ "packet_observations" \in rows'[r] => PacketOf[r] \in packets']_retentionVars

Overdue(r) == \E table \in rows[r] : <<r, table>> \in tooOld

\* Once primary ingest is healthy, what is too old of a record goes, however
\* often cycles were cut short or refused and however late it was written - and
\* when space is short, whatever the derived queue holds.
CleanupCatchesUp ==
    \A r \in Records :
        <>[](~primaryPressured /\ (storage \in {"warn", "critical"} \/ ~derivedPressured))
            => (Overdue(r) ~> (~Overdue(r) \/ over))

=============================================================================
