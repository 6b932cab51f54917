-------------------------------- MODULE MCBackend --------------------------------
(* An instance for TLC of the writer and of the durable commit it serves, one *)
(* at a time.                                                                 *)
EXTENDS WriteCoordinator, LivePublish, TLC

CONSTANTS c1, c2, l1, b1, n1

\* One caller on each lane of the writer.
EveryLane == (c1 :> "primary") @@ (l1 :> "live_core") @@ (b1 :> "background")

\* Two callers on one live lane, one on the other, one in the background.
MixedLanes == EveryLane @@ (c2 :> "primary")

\* Packets that all become edges.
EdgesOnly == {<<"activity", "routePulse">>}

\* Packets of every kind.
EveryKind == {<<"activity", "routePulse">>, <<"activity">>, <<>>}

VARIABLE part

BackendInit ==
    /\ part \in {"writer", "commit"}
    /\ Init /\ PublishInit

BackendNext ==
    /\ UNCHANGED part
    /\ \/ part = "writer" /\ Next /\ UNCHANGED publishVars
       \/ part = "commit" /\ PublishNext /\ UNCHANGED vars

BackendSpec == BackendInit /\ [][BackendNext]_<<part, vars, publishVars>>

\* Neither fairness asks anything of a part that nobody calls, but that the
\* cache's refresher begins by itself: it must where the commit is what runs.
BackendFairSpec ==
    /\ BackendSpec
    /\ Fairness
    /\ WF_publishVars(PublishProgress)
    /\ WF_publishVars(part = "commit" /\ RefreshBegin)
    /\ SF_publishVars(Read) /\ SF_publishVars(ReadDone)
    /\ WF_publishVars(ReadSeq) /\ WF_publishVars(Install)

=============================================================================
