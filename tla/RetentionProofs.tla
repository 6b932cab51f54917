---------------------------- MODULE RetentionProofs ----------------------------
(***************************************************************************)
(* CleanupExact for any records, packets, batch and budget, with rows that  *)
(* are written at any time, however old they are then: a cycle passes a     *)
(* table only with a batch that took all it had, so what is left there      *)
(* below the cut-off was written later, or is an observation that a row     *)
(* names which the cycle has passed, too, and had to leave.                 *)
(***************************************************************************)
EXTENDS Retention, TLAPS

RetentionTypeOK ==
    /\ rows \in [Records -> SUBSET RowTables] /\ due \in [Records -> SUBSET RowTables]
    /\ packets \subseteq Packets
    /\ DOMAIN pruner = {"pc", "next", "cutoff", "fresh", "deleted"}
    /\ pruner.pc \in {"waiting", "gate", "queued", "ended"}
    /\ pruner.next \in 1..7
    /\ pruner.pc \in {"gate", "queued"} => pruner.next \in 1..6

\* The cut-offs lie in the past, and a row has what it names.
Founded ==
    /\ pruner.cutoff \subseteq tooOld
    /\ \A r \in Records : \A table \in RowTables :
          rows[r] \cap Referrers(table) # {} => table \in rows[r]
    /\ \A r \in Records : "packet_observations" \in rows[r] => PacketOf[r] \in packets

\* The running cycle is done with the table.
Behind(table) ==
    \/ pruner.next > 1 /\ table = "public_events"
    \/ pruner.next > 2 /\ table = "propagation_events"
    \/ pruner.next > 3 /\ table = "public_packet_paths"
    \/ pruner.next > 4 /\ table = "live_edge_events"
    \/ pruner.next > 5 /\ table = "packet_observations"

\* Behind the cycle, only what is spared is older than the cut-off.
Passed ==
    \A r \in Records : \A table \in rows[r] :
        Behind(table) /\ <<r, table>> \in pruner.cutoff => Spared(r, table)

RetentionInv == RetentionTypeOK /\ Founded /\ Passed

\* A batch below the limit is all there was.
LEMMA ShortBatchIsAll ==
    ASSUME NEW table, NEW b \in Batch(table), Cardinality(b) < BatchSize
    PROVE  b = Deletable(table)
BY PruneBoundsAssumption DEF Batch

\* The tables in the order of NewRetentionPruner.
LEMMA TargetIs ==
    ASSUME pruner.next \in 1..6
    PROVE  /\ pruner.next = 1 => Targets[pruner.next] = "public_events"
           /\ pruner.next = 2 => Targets[pruner.next] = "propagation_events"
           /\ pruner.next = 3 => Targets[pruner.next] = "public_packet_paths"
           /\ pruner.next = 4 => Targets[pruner.next] = "live_edge_events"
           /\ pruner.next = 5 => Targets[pruner.next] = "packet_observations"
           /\ pruner.next = 6 => Targets[pruner.next] = "packets"
           /\ Len(Targets) = 6
BY DEF Targets

\* A DELETE takes only what is too old, only from its table, and only packets
\* that nobody observed.
LEMMA RemoveKeeps ==
    ASSUME RetentionInv, pruner.next \in 1..6,
           NEW b \in SUBSET Deletable(Targets[pruner.next]),
           ~Refused(Targets[pruner.next], b),
           Remove(Targets[pruner.next], b)
    PROVE  /\ rows' \in [Records -> SUBSET RowTables]
           /\ packets' \subseteq Packets
           /\ \A r \in Records : rows'[r] \subseteq rows[r]
           /\ \A r \in Records : \A table \in rows[r] \ rows'[r] :
                 table = Targets[pruner.next] /\ <<r, table>> \in tooOld
           /\ \A r \in Records : "packet_observations" \in rows'[r] => PacketOf[r] \in packets'
           /\ \A r \in Records : \A table \in RowTables :
                 rows'[r] \cap Referrers(table) # {} => table \in rows'[r]
           /\ pruner.next = 6 => UNCHANGED rows
<1> DEFINE table == Targets[pruner.next]
<1> USE DEF RetentionInv, RetentionTypeOK, Founded
<1>1. CASE pruner.next = 6
  <2>1. table = "packets" /\ UNCHANGED rows /\ packets' = packets \ b
    BY <1>1, TargetIs DEF Remove
  <2>2. \A r \in Records : "packet_observations" \in rows[r] => PacketOf[r] \notin b
    BY <2>1 DEF Deletable
  <2> QED BY <2>1, <2>2
<1>2. CASE pruner.next # 6
  <2>1. table # "packets" /\ table \in RowTables
    BY <1>2, TargetIs DEF RowTables
  <2>2. /\ rows' = [r \in Records |-> IF r \in b THEN rows[r] \ {table} ELSE rows[r]]
        /\ UNCHANGED packets
    BY <2>1 DEF Remove
  <2>3. b \subseteq Expired(table)
    BY <2>1 DEF Deletable
  <2>4. \A r \in b : <<r, table>> \in tooOld
    BY <2>3 DEF Expired
  <2>5. \A r \in b : rows[r] \cap Referrers(table) = {}
    BY <2>1 DEF Refused
  <2> HIDE DEF table
  <2>6. \A r \in Records : \A t \in RowTables :
           rows'[r] \cap Referrers(t) # {} => t \in rows'[r]
    <3> SUFFICES ASSUME NEW r \in Records, NEW t \in RowTables, NEW u \in rows'[r], u \in Referrers(t)
                 PROVE  t \in rows'[r]
      OBVIOUS
    <3>1. u \in rows[r] /\ t \in rows[r]
      BY <2>2
    <3>2. CASE r \in b
      BY <2>2, <2>5, <3>1, <3>2
    <3>3. CASE r \notin b
      BY <2>2, <3>1, <3>3
    <3> QED BY <3>2, <3>3
  <2> QED BY <1>2, <2>2, <2>4, <2>6 DEF table
<1> QED BY <1>1, <1>2

\* Whatever is written, and however old it is: what the cycle has passed gets
\* only fresh rows.
LEMMA InsertKeeps ==
    ASSUME RetentionInv, NEW r \in Records, NEW new \in SUBSET RowTables, Insert(r, new),
           UNCHANGED tooOld, packets \subseteq packets', packets' \subseteq Packets,
           "packet_observations" \in new => PacketOf[r] \in packets',
           \A table \in RowTables :
              new \cap Referrers(table) # {} => table \in rows[r] \cup new
    PROVE  RetentionInv'
<1>1. /\ rows' = [rows EXCEPT ![r] = @ \cup new]
      /\ due' = [due EXCEPT ![r] = @ \ new]
      /\ pruner' = [pruner EXCEPT !.fresh = @ \cup (({r} \X new) \cap pruner.cutoff)]
  BY DEF Insert
<1>2. /\ DOMAIN pruner' = DOMAIN pruner
      /\ pruner'.pc = pruner.pc /\ pruner'.next = pruner.next /\ pruner'.cutoff = pruner.cutoff
      /\ pruner'.fresh = pruner.fresh \cup (({r} \X new) \cap pruner.cutoff)
  BY <1>1 DEF RetentionInv, RetentionTypeOK
<1>3. RetentionTypeOK'
  BY <1>1, <1>2 DEF RetentionInv, RetentionTypeOK
<1>4. Founded'
  <2>1. \A q \in Records : \A table \in RowTables :
           rows'[q] \cap Referrers(table) # {} => table \in rows'[q]
    <3> SUFFICES ASSUME NEW q \in Records, NEW t \in RowTables, NEW u \in rows'[q], u \in Referrers(t)
                 PROVE  t \in rows'[q]
      OBVIOUS
    <3>1. rows[q] \subseteq rows'[q] /\ (q = r => rows'[q] = rows[q] \cup new)
      BY <1>1 DEF RetentionInv, RetentionTypeOK
    <3>2. CASE u \in rows[q]
      BY <3>1, <3>2 DEF RetentionInv, Founded
    <3>3. CASE u \notin rows[q]
      <4>1. q = r /\ u \in new
        BY <1>1, <3>3 DEF RetentionInv, RetentionTypeOK
      <4> QED BY <3>1, <4>1
    <3> QED BY <3>2, <3>3
  <2> QED BY <1>1, <1>2, <2>1 DEF RetentionInv, RetentionTypeOK, Founded
<1>5. Passed'
  <2> SUFFICES ASSUME NEW q \in Records, NEW table \in rows'[q],
                      Behind(table)', <<q, table>> \in pruner.cutoff
               PROVE  Spared(q, table)'
    BY <1>2 DEF Passed
  <2>1. CASE table \in rows[q]
    <3>1. Spared(q, table)
      BY <1>2, <2>1 DEF RetentionInv, Passed, Behind
    <3>2. rows[q] \subseteq rows'[q] /\ pruner.fresh \subseteq pruner'.fresh
      BY <1>1, <1>2 DEF RetentionInv, RetentionTypeOK
    <3> QED BY <1>2, <3>1, <3>2 DEF Spared
  <2>2. CASE table \notin rows[q]
    <3>1. q = r /\ table \in new
      BY <1>1, <2>2 DEF RetentionInv, RetentionTypeOK
    <3> QED BY <1>2, <3>1 DEF Spared
  <2> QED BY <2>1, <2>2
<1> QED BY <1>3, <1>4, <1>5 DEF RetentionInv

LEMMA RetentionInitInv == RetentionInit => RetentionInv
BY DEF RetentionInit, RetentionInv, RetentionTypeOK, Founded, Passed, Waiting

\* A DELETE of the pruner.
LEMMA StepKeeps ==
    ASSUME RetentionInv, Step
    PROVE  RetentionInv'
<1> DEFINE table == Targets[pruner.next]
<1>1. PICK b \in Batch(table) :
        /\ ~Refused(table, b)
        /\ Remove(table, b)
        /\ pruner' = [pruner EXCEPT
                         !.pc = IF AfterBatch(b) > Len(Targets) THEN "waiting" ELSE "gate",
                         !.next = AfterBatch(b),
                         !.deleted = @ + Cardinality(b)]
  BY DEF Step
<1>2. pruner.next \in 1..6 /\ UNCHANGED <<due, tooOld>> /\ Len(Targets) = 6
  BY TargetIs DEF Step, RetentionInv, RetentionTypeOK
<1>3. b \subseteq Deletable(table)
  BY DEF Batch
<1>4. /\ rows' \in [Records -> SUBSET RowTables]
      /\ packets' \subseteq Packets
      /\ \A r \in Records : rows'[r] \subseteq rows[r]
      /\ \A r \in Records : \A t \in rows[r] \ rows'[r] : t = table
      /\ \A r \in Records : "packet_observations" \in rows'[r] => PacketOf[r] \in packets'
      /\ \A r \in Records : \A t \in RowTables :
            rows'[r] \cap Referrers(t) # {} => t \in rows'[r]
      /\ pruner.next = 6 => UNCHANGED rows
  BY <1>1, <1>2, <1>3, RemoveKeeps
<1>5. /\ DOMAIN pruner' = DOMAIN pruner
      /\ pruner'.cutoff = pruner.cutoff /\ pruner'.fresh = pruner.fresh
      /\ pruner'.next = AfterBatch(b)
      /\ pruner'.pc = IF AfterBatch(b) > 6 THEN "waiting" ELSE "gate"
  BY <1>1, <1>2 DEF RetentionInv, RetentionTypeOK
<1>6. \/ AfterBatch(b) = pruner.next
      \/ AfterBatch(b) = pruner.next + 1 /\ b = Deletable(table)
  BY ShortBatchIsAll DEF AfterBatch
<1>7. RetentionTypeOK'
  <2>1. AfterBatch(b) \in 1..7
    BY <1>2, <1>6
  <2> QED BY <1>2, <1>4, <1>5, <2>1 DEF RetentionInv, RetentionTypeOK
<1>8. Founded'
  BY <1>2, <1>4, <1>5 DEF RetentionInv, Founded
<1>9. Passed'
  <2> SUFFICES ASSUME NEW r \in Records, NEW t \in rows'[r],
                      Behind(t)', <<r, t>> \in pruner.cutoff
               PROVE  Spared(r, t)'
    BY <1>5 DEF Passed
  <2>1. t \in rows[r]
    BY <1>4
  <2>2. CASE Behind(t)
    <3>1. Spared(r, t)
      BY <2>1, <2>2 DEF RetentionInv, Passed
    <3>2. CASE pruner.next = 6
      BY <1>4, <1>5, <3>1, <3>2 DEF Spared
    <3>3. CASE pruner.next # 6
      <4>1. t # "packet_observations"
        BY <1>2, <2>2, <3>3 DEF Behind
      <4> QED BY <1>5, <3>1, <4>1 DEF Spared
    <3> QED BY <3>2, <3>3
  <2>3. CASE ~Behind(t)
    <3>1. AfterBatch(b) = pruner.next + 1 /\ b = Deletable(table) /\ pruner.next # 6 /\ t = table
      BY <1>2, <1>5, <1>6, <2>3, TargetIs DEF Behind
    <3>2. table # "packets"
      BY <1>2, <3>1, TargetIs
    <3>3. rows' = [q \in Records |-> IF q \in b THEN rows[q] \ {table} ELSE rows[q]]
      BY <1>1, <3>2 DEF Remove
    <3>4. r \notin b /\ rows'[r] = rows[r]
      BY <3>1, <3>3
    <3>5. r \in Expired(table)
      BY <2>1, <3>1 DEF Expired
    <3>6. /\ table = "packet_observations"
          /\ \E u \in rows[r] : u \in Referrers(table)
      BY <3>1, <3>2, <3>4, <3>5 DEF Deletable
    <3>7. PICK u \in rows[r] : u \in Referrers(table)
      BY <3>6
    <3>8. pruner.next = 5 /\ u \in {"live_edge_events", "public_packet_paths"}
      BY <1>2, <3>6, <3>7, TargetIs DEF Referrers
    <3>9. <<r, u>> \in pruner.cutoff => <<r, u>> \in pruner.fresh
      BY <3>8 DEF RetentionInv, Passed, Behind, Spared
    <3> QED BY <1>5, <3>1, <3>4, <3>6, <3>7, <3>9 DEF Spared
  <2> QED BY <2>2, <2>3
<1> QED BY <1>7, <1>8, <1>9 DEF RetentionInv

LEMMA StepFailsKeeps ==
    ASSUME RetentionInv, StepFails
    PROVE  RetentionInv'
<1> DEFINE table == Targets[pruner.next]
<1>1. PICK b \in Batch(table) \cup {{}} : ~Refused(table, b) /\ Remove(table, b)
  BY DEF StepFails
<1>2. pruner.next \in 1..6 /\ UNCHANGED <<due, tooOld>> /\ pruner' = Waiting
  BY DEF StepFails, RetentionInv, RetentionTypeOK
<1>3. b \subseteq Deletable(table)
  BY DEF Batch
<1>4. /\ rows' \in [Records -> SUBSET RowTables]
      /\ packets' \subseteq Packets
      /\ \A r \in Records : "packet_observations" \in rows'[r] => PacketOf[r] \in packets'
      /\ \A r \in Records : \A t \in RowTables :
            rows'[r] \cap Referrers(t) # {} => t \in rows'[r]
  BY <1>1, <1>2, <1>3, RemoveKeeps
<1> QED BY <1>2, <1>4 DEF RetentionInv, RetentionTypeOK, Founded, Passed, Waiting

\* The writers of a record, at any time of a cycle.
LEMMA WriteKeeps ==
    ASSUME RetentionInv, NEW r \in Records, Write(r)
    PROVE  RetentionInv'
<1> USE DEF RetentionInv, RetentionTypeOK, RowTables
<1>1. CASE Observe(r)
  <2>1. PacketOf[r] \in Packets
    BY PacketOfAssumption
  <2>2. \A t \in RowTables : "packet_observations" \notin Referrers(t)
    BY DEF Referrers
  <2> QED BY <1>1, <2>1, <2>2, InsertKeeps DEF Observe
<1>2. CASE CommitEdge(r)
  <2> DEFINE new == {"live_edge_events"} \cup (due[r] \cap {"public_events"})
  <2>1. Insert(r, new) /\ UNCHANGED <<packets, tooOld>> /\ "packet_observations" \in rows[r]
    BY <1>2 DEF CommitEdge
  <2>2. new \in SUBSET RowTables /\ "packet_observations" \notin new
    OBVIOUS
  <2>3. \A t \in RowTables : new \cap Referrers(t) # {} => t = "packet_observations"
    BY DEF Referrers
  <2> HIDE DEF new
  <2> QED BY <2>1, <2>2, <2>3, InsertKeeps
<1>3. CASE CommitActivity(r)
  <2>1. \A t \in RowTables : "public_events" \notin Referrers(t)
    BY DEF Referrers
  <2> QED BY <1>3, <2>1, InsertKeeps DEF CommitActivity
<1>4. CASE Project(r)
  <2>1. \A t \in RowTables : "public_packet_paths" \in Referrers(t) =>
           t \in {"live_edge_events", "packet_observations"}
    BY DEF Referrers
  <2> QED BY <1>4, <2>1, InsertKeeps DEF Project
<1>5. CASE FindPropagation(r)
  <2>1. \A t \in RowTables : "propagation_events" \in Referrers(t) => t = "public_packet_paths"
    BY DEF Referrers
  <2> QED BY <1>5, <2>1, InsertKeeps DEF FindPropagation
<1> QED BY <1>1, <1>2, <1>3, <1>4, <1>5 DEF Write

\* What moves neither a row nor the cut-off, or ends the cycle.
LEMMA RetentionStep ==
    ASSUME RetentionInv, [RetentionNext]_retentionVars
    PROVE  RetentionInv'
<1> USE DEF RetentionInv
<1>1. CASE \E r \in Records : Write(r)
  BY <1>1, WriteKeeps
<1>2. CASE TimePasses
  BY <1>2 DEF TimePasses, GrowOld, RetentionTypeOK, Founded, Passed, Behind, Spared
<1>3. CASE Load
  BY <1>3 DEF Load, storeVars, RetentionTypeOK, Founded, Passed, Behind, Spared
<1>4. CASE ShutDown
  BY <1>4 DEF ShutDown, storeVars, RetentionTypeOK, Founded, Passed, Behind, Spared
<1>5. CASE BeginCycle
  BY <1>5 DEF BeginCycle, Waiting, storeVars, RetentionTypeOK, Founded, Passed, Behind
<1>6. CASE Gate
  BY <1>6 DEF Gate, Waiting, storeVars, RetentionTypeOK, Founded, Passed, Behind, Spared
<1>7. CASE Step
  BY <1>7, StepKeeps
<1>8. CASE StepRefused
  BY <1>8 DEF StepRefused, Waiting, storeVars, RetentionTypeOK, Founded, Passed, Behind
<1>9. CASE StepFails
  BY <1>9, StepFailsKeeps
<1>10. CASE LoopEnds
  BY <1>10 DEF LoopEnds, Waiting, storeVars, RetentionTypeOK, Founded, Passed, Behind
<1>11. CASE UNCHANGED retentionVars
  BY <1>11 DEF retentionVars, storeVars, RetentionTypeOK, Founded, Passed, Behind, Spared
<1> QED BY <1>1, <1>2, <1>3, <1>4, <1>5, <1>6, <1>7, <1>8, <1>9, <1>10, <1>11
        DEF RetentionNext, Prune, Statement

\* The inductive invariant of the retention loop (pruneLoop, RetentionPruner):
\* types, what each row names, and behind the cycle nothing older than
\* its cut-off but what was written since or what a row names that had to stay.
THEOREM RetentionSafety == RetentionSpec => []RetentionInv
<1>1. RetentionInit => RetentionInv
  BY RetentionInitInv
<1>2. RetentionInv /\ [RetentionNext]_retentionVars => RetentionInv'
  BY RetentionStep
<1> QED BY <1>1, <1>2, PTL DEF RetentionSpec

\* The last step of a cycle.
LEMMA CompleteIsExact ==
    ASSUME RetentionInv, RetentionNext, CycleComplete
    PROVE  /\ \A r \in Records : \A table \in rows'[r] :
                 <<r, table>> \in pruner.cutoff => Spared(r, table)
           /\ \A p \in packets' : \E r \in Records :
                 PacketOf[r] = p /\ "packet_observations" \in rows'[r]
<1>1. Step
  <2>1. ~StepFails /\ ~StepRefused
    BY DEF StepFails, StepRefused, CycleComplete, Waiting, Targets
  <2>2. ~\E r \in Records : Write(r)
    <3> SUFFICES ASSUME NEW r \in Records, Write(r) PROVE FALSE
      OBVIOUS
    <3>1. PICK new : pruner' = [pruner EXCEPT !.fresh = @ \cup (({r} \X new) \cap pruner.cutoff)]
      BY DEF Write, Observe, CommitEdge, CommitActivity, Project, FindPropagation, Insert
    <3> QED BY <3>1 DEF CycleComplete, RetentionInv, RetentionTypeOK
  <2> QED BY <2>1, <2>2 DEF RetentionNext, Prune, Statement, CycleComplete, TimePasses, GrowOld,
                Load, ShutDown, BeginCycle, Gate, LoopEnds
<1>2. PICK b \in Batch(Targets[pruner.next]) :
        /\ Remove(Targets[pruner.next], b)
        /\ pruner'.next = AfterBatch(b)
  BY <1>1 DEF Step, RetentionInv, RetentionTypeOK
<1>3. pruner.next = 6 /\ Targets[pruner.next] = "packets" /\ Cardinality(b) < BatchSize
  <2>1. pruner.next \in 1..6 /\ pruner'.next > 6
    BY TargetIs DEF CycleComplete, RetentionInv, RetentionTypeOK
  <2>2. pruner.next = 6 /\ Cardinality(b) < BatchSize
    BY <1>2, <2>1 DEF AfterBatch
  <2> QED BY <2>1, <2>2, TargetIs
<1>4. b = Deletable("packets")
  BY <1>2, <1>3, ShortBatchIsAll
<1>5. UNCHANGED rows /\ packets' = packets \ b
  BY <1>2, <1>3 DEF Remove
<1>6. \A r \in Records : \A table \in rows[r] : Behind(table)
  BY <1>3 DEF RetentionInv, RetentionTypeOK, RowTables, Behind
<1>7. \A p \in packets' : \E r \in Records :
         PacketOf[r] = p /\ "packet_observations" \in rows'[r]
  BY <1>4, <1>5 DEF Deletable
<1> QED BY <1>5, <1>6, <1>7 DEF RetentionInv, Passed

\* Every deletion waits for its row's time.
LEMMA TakenInTime ==
    ASSUME RetentionInv, RetentionNext, NEW r \in Records, NEW table \in rows[r] \ rows'[r]
    PROVE  <<r, table>> \in tooOld
<1>1. PICK b \in SUBSET Deletable(Targets[pruner.next]) :
         /\ pruner.next \in 1..6 /\ ~Refused(Targets[pruner.next], b)
         /\ Remove(Targets[pruner.next], b)
  <2>1. CASE Step
    BY <2>1 DEF Step, Batch, RetentionInv, RetentionTypeOK
  <2>2. CASE StepFails
    BY <2>2 DEF StepFails, Batch, RetentionInv, RetentionTypeOK
  <2>3. CASE \E q \in Records : Write(q)
    <3>1. PICK q \in Records : \E new : rows' = [rows EXCEPT ![q] = @ \cup new]
      BY <2>3 DEF Write, Observe, CommitEdge, CommitActivity, Project, FindPropagation, Insert
    <3>2. rows[r] \subseteq rows'[r]
      BY <3>1 DEF RetentionInv, RetentionTypeOK
    <3> QED BY <3>2
  <2>4. CASE UNCHANGED rows
    BY <2>4
  <2> QED BY <2>1, <2>2, <2>3, <2>4 DEF RetentionNext, Prune, Statement, TimePasses, GrowOld, Load,
              ShutDown, BeginCycle, Gate, StepRefused, LoopEnds, storeVars
<1> QED BY <1>1, RemoveKeeps

\* A complete cycle of pruneLoop has left what was too old only where a younger
\* row names it, and nothing orphaned; no deletion, of a complete cycle or not,
\* comes before a row's time or takes a packet that is still observed.
THEOREM CleanupIsExact == RetentionSpec => CleanupExact
<1> DEFINE Exact ==
      /\ CycleComplete =>
            /\ \A r \in Records : \A table \in rows'[r] :
                  <<r, table>> \in pruner.cutoff => Spared(r, table)
            /\ \A p \in packets' : \E r \in Records :
                  PacketOf[r] = p /\ "packet_observations" \in rows'[r]
      /\ \A r \in Records :
            /\ \A table \in rows[r] \ rows'[r] : <<r, table>> \in tooOld
            /\ "packet_observations" \in rows'[r] => PacketOf[r] \in packets'
<1>1. RetentionInv /\ RetentionInv' /\ [RetentionNext]_retentionVars => [Exact]_retentionVars
  <2> SUFFICES ASSUME RetentionInv, RetentionInv', RetentionNext PROVE Exact
    OBVIOUS
  <2>1. \A r \in Records : "packet_observations" \in rows'[r] => PacketOf[r] \in packets'
    BY DEF RetentionInv, Founded
  <2>2. \A r \in Records : \A table \in rows[r] \ rows'[r] : <<r, table>> \in tooOld
    BY TakenInTime
  <2> QED BY <2>1, <2>2, CompleteIsExact
<1> QED BY <1>1, RetentionSafety, PTL DEF RetentionSpec, CleanupExact
=============================================================================
