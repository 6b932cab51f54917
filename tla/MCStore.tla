---------------------------------- MODULE MCStore ----------------------------------
(* An instance for TLC of what fills the store and what empties it, one at a time: *)
(* the ingest pipeline and the retention loop.                                    *)
EXTENDS Ingest, Retention, TLC

CONSTANTS m1, r1, r2, k1

\* Two receptions of one packet.
OnePacket == (r1 :> k1) @@ (r2 :> k1)

\* What is derived: of one record an edge with all that follows from it, beside a
\* bare observation, or what is published of a message without an edge.
Derived ==
    {(r1 :> RowTables \ {"public_events"}) @@ (r2 :> {"packet_observations"}),
     (r1 :> {"packet_observations"}) @@ (r2 :> {"public_events", "packet_observations"})}

\* The order in which rows grow too old: the shortest retention first, an
\* observation before a row derived from it, what names a row after that row.
Ages == <<"public_events", "packet_observations", "live_edge_events",
          "public_packet_paths", "propagation_events">>
InOrder ==
    \A r, q \in Records : \A i, j \in 1..Len(Ages) :
        i < j /\ <<r, Ages[j]>> \in tooOld /\ Ages[i] \in rows[q] \cup due[q]
            => <<q, Ages[i]>> \in tooOld

\* Healthy, primary pressure, short of space, or that with derived work held up;
\* a step in its queue and a loop that is to end do not look at the load.
Loads ==
    /\ storage # "critical"
    /\ primaryPressured => ~derivedPressured /\ storage = "ok" /\ pruner.pc # "queued"
    /\ over => ~primaryPressured /\ storage = "ok"
    /\ derivedPressured => storage = "warn"

\* A step fails for another reason than a reference where there is no edge.
Failures ==
    failures > 0 => \A r \in Records :
        "live_edge_events" \notin rows[r] \cup due[r] /\ <<r, "live_edge_events">> \notin tooOld

VARIABLE part

StoreInit ==
    /\ part \in {"pipeline", "retention"}
    /\ IngestInit /\ RetentionInit
    /\ due \in IF part = "retention" THEN Derived ELSE {[r \in Records |-> {"packet_observations"}]}

StoreNext ==
    /\ UNCHANGED part
    /\ \/ part = "pipeline" /\ IngestNext /\ UNCHANGED retentionVars
       \/ /\ part = "retention" /\ RetentionNext /\ UNCHANGED ingestVars
          /\ (tooOld' # tooOld => InOrder') /\ Loads' /\ Failures'

\* Nothing is asked of a pipeline without a message; the retention loop's timer
\* runs by itself, so its fairness is written for the behaviours where it runs.
StoreFairSpec ==
    /\ StoreInit /\ [][StoreNext]_<<part, ingestVars, retentionVars>>
    /\ IngestFairness
    /\ WF_retentionVars(part = "retention" /\ TimePasses)
    /\ WF_retentionVars(part = "retention" /\ (BeginCycle \/ LoopEnds))
    /\ WF_retentionVars(part = "retention" /\ Gate)
    /\ WF_retentionVars(part = "retention" /\ Statement)

=============================================================================
