------------------------------- MODULE MCCleanup -------------------------------
(* An instance of Cleanup for TLC: one observation beside the pipeline, in the *)
(* behaviours of CleanupFairSpec where storage turns critical before the first *)
(* message, stays so, and nobody shuts down.                                   *)
EXTENDS Cleanup, TLC

CONSTANTS m1, r1, k1

OwnPacket == r1 :> k1

CriticalNext ==
    /\ CleanupNext
    /\ ~stopping'
    /\ critical => critical'
    /\ submitting' # Nothing => critical

CriticalFairSpec ==
    /\ CleanupInit /\ due = [r \in Records |-> {"packet_observations"}]
    /\ [][CriticalNext]_<<ingestVars, late, cleanupVars>>
    /\ CleanupFairness

=============================================================================
