------------------------------ MODULE IngestFifo ------------------------------
(***************************************************************************)
(* What the ingest pipeline promises, without its goroutines, timestamps    *)
(* and writer: three bounded first-in first-out stages, each with the one   *)
(* item its consumer has taken.  An accepted message is persisted or        *)
(* rejected in its turn; every persisted message is derived, in order, and  *)
(* yields at most one edge, which is projected in order.  Nothing leaves a  *)
(* stage in another way before shutdown.                                    *)
(***************************************************************************)
EXTENDS Integers, Sequences

CONSTANTS Messages, AcceptedCap, PersistedCap, EdgesCap

VARIABLES
    accepted,   \* accepted, not yet taken
    handling,   \* being persisted: no item or one
    persisted,  \* persisted, not yet taken
    deriving,   \* being derived
    edges,      \* committed edges, not yet taken
    projecting, \* being projected
    over        \* shutdown has begun

fifoVars == <<accepted, handling, persisted, deriving, edges, projecting, over>>

FifoInit ==
    /\ accepted = <<>> /\ handling = <<>>
    /\ persisted = <<>> /\ deriving = <<>>
    /\ edges = <<>> /\ projecting = <<>>
    /\ over = FALSE

Accept(m) ==
    /\ Len(accepted) < AcceptedCap
    /\ accepted' = Append(accepted, m)
    /\ UNCHANGED <<handling, persisted, deriving, edges, projecting, over>>

Take ==
    /\ accepted # <<>> /\ handling = <<>>
    /\ handling' = <<Head(accepted)>>
    /\ accepted' = Tail(accepted)
    /\ UNCHANGED <<persisted, deriving, edges, projecting, over>>

Reject ==
    /\ handling # <<>>
    /\ handling' = <<>>
    /\ UNCHANGED <<accepted, persisted, deriving, edges, projecting, over>>

Persist ==
    /\ handling # <<>>
    /\ Len(persisted) < PersistedCap
    /\ persisted' = persisted \o handling
    /\ handling' = <<>>
    /\ UNCHANGED <<accepted, deriving, edges, projecting, over>>

TakePersisted ==
    /\ persisted # <<>> /\ deriving = <<>>
    /\ deriving' = <<Head(persisted)>>
    /\ persisted' = Tail(persisted)
    /\ UNCHANGED <<accepted, handling, edges, projecting, over>>

Derive ==
    /\ deriving # <<>>
    /\ deriving' = <<>>
    /\ \/ UNCHANGED edges
       \/ Len(edges) < EdgesCap /\ edges' = edges \o deriving
    /\ UNCHANGED <<accepted, handling, persisted, projecting, over>>

TakeCommitted ==
    /\ edges # <<>> /\ projecting = <<>>
    /\ projecting' = <<Head(edges)>>
    /\ edges' = Tail(edges)
    /\ UNCHANGED <<accepted, handling, persisted, deriving, over>>

Project ==
    /\ projecting # <<>>
    /\ projecting' = <<>>
    /\ UNCHANGED <<accepted, handling, persisted, deriving, edges, over>>

Finish ==
    /\ ~over
    /\ over' = TRUE
    /\ UNCHANGED <<accepted, handling, persisted, deriving, edges, projecting>>

\* Shutdown may leave the newest item of a stage behind, whose producer was
\* waiting for room, or the job its consumer holds.
Front(s) == SubSeq(s, 1, Len(s) - 1)

Abandon ==
    /\ over
    /\ \/ /\ persisted # <<>> /\ persisted' = Front(persisted)
          /\ UNCHANGED <<accepted, handling, deriving, edges, projecting, over>>
       \/ /\ edges # <<>> /\ edges' = Front(edges)
          /\ UNCHANGED <<accepted, handling, persisted, deriving, projecting, over>>
       \/ /\ deriving' = <<>>
          /\ UNCHANGED <<accepted, handling, persisted, edges, projecting, over>>

FifoNext ==
    \/ \E m \in Messages : Accept(m)
    \/ Take \/ Reject \/ Persist
    \/ TakePersisted \/ Derive
    \/ TakeCommitted \/ Project
    \/ Finish \/ Abandon

FifoSpec == FifoInit /\ [][FifoNext]_fifoVars
=============================================================================
