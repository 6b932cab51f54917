------------------------------ MODULE MCLiveClient ------------------------------
(* LiveClient for TLC: the instances differ in their bounds, and one in its faults. *)
EXTENDS LiveClient

\* What a hub that broadcast nothing durable counts for its hellos.
NoLocalSeqs == {}
LocalSeqs == {2}

\* Bound: any two faults of an instance, not all three.
TwoFaults == faults.drops + faults.fails + faults.pongs <= 2

\* One connection is lost or one request fails, beside what is pruned; and the full
\* state is fetched while a reset is under way.
NoFaultYet == faults.drops + faults.fails = 0
OneFaultNext ==
    \/ Publish \/ Prune \/ Resume
    \/ NoFaultYet /\ Drop
    \/ NoFaultYet /\ (FailPage \/ FailState)
    \/ Announce \/ FanOut \/ Connect \/ ReadHello \/ SendHello \/ RefreshSnapshot
    \/ ServeBounds \/ ServePage \/ ServeState \/ ServeHydrate
    \/ Deliver \/ Flush \/ HandlePage \/ RecoveryTimer \/ Poll
    \/ HandleState \/ ResetTimer \/ HandleHydrate
    \/ reset.active /\ Hydrate

OneFaultSpec == Init /\ [][OneFaultNext]_vars /\ Fairness

=============================================================================
