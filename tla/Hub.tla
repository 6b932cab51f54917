---------------------------------- MODULE Hub ----------------------------------
(***************************************************************************)
(* The public hub and the admission of its connections                      *)
(* (backend/internal/live/hub.go, internal/api/ws_admission.go and          *)
(* publicWebSocket of internal/api/routes.go).                              *)
(*                                                                          *)
(* A connection attempt passes the per-address limiter, is registered,      *)
(* greeted and then served by two goroutines.  The derived worker           *)
(* broadcasts: it announces the sequence, copies the set of clients and     *)
(* sends to one after the other without ever waiting for a full queue.      *)
(* Whoever ends a connection first unregisters it; the others find it gone. *)
(*                                                                          *)
(* LiveClient sees the hub from one browser; this module has the steps in   *)
(* between, the queues' limits and the end of a connection.                 *)
(***************************************************************************)
EXTENDS Integers, Sequences, FiniteSets, FiniteSetsExt, Functions

CONSTANTS
    Attempts,   \* connection attempts
    Ips,        \* client addresses
    IpOf,       \* IpOf[a]: the address attempt a comes from
    QueueSize,  \* capacity of a client's send queue (512 by default)
    MaxClients, \* maxClients (512 in the code)
    MaxPerIP,   \* wsAdmissionLimiter.maxPerIP
    MaxEvents,  \* bound: events broadcast
    MaxPings    \* bound: pings sent by the clients

ASSUME IpAssumption == IpOf \in [Attempts -> Ips]
ASSUME CapAssumption == {QueueSize, MaxClients, MaxPerIP} \subseteq Nat \ {0}
ASSUME BoundsAssumption == {MaxEvents, MaxPings} \subseteq Nat

VARIABLES
    slots,     \* wsAdmissionLimiter.byIP
    stage,     \* where the handler of each attempt is
    clients,   \* Hub.clients
    greeting,  \* the sequence the handler read for its hello
    queue,     \* client.send
    open,      \* client.send is not closed
    resetting, \* client.resetting; its goroutine is then on its way
    writer,    \* where writePump is
    hand,      \* the message writePump has taken from the queue
    reader,    \* where readPump is
    peer,      \* the other end of the connection
    teardown,  \* how far the call of removeWithReason that won has come
    latestSeq, \* Hub.latestSeq
    fan,       \* the broadcast in progress
    pings,
    delivered  \* history: the events each peer has received

handlerVars == <<slots, stage, greeting>>
queueVars   == <<queue, open, resetting>>
pumpVars    == <<writer, hand, reader, delivered>>
fanVars     == <<latestSeq, fan>>
vars == <<handlerVars, clients, queueVars, pumpVars, peer, teardown, fanVars, pings>>

\* Hellos and pongs have no durable sequence of their own.
Unsequenced == 0
Idle == [announced |-> FALSE, targets |-> {}]

Init ==
    /\ slots = [ip \in Ips |-> 0]
    /\ stage = [a \in Attempts |-> "new"]
    /\ clients = {}
    /\ greeting = [a \in Attempts |-> 0]
    /\ queue = [a \in Attempts |-> <<>>]
    /\ open = [a \in Attempts |-> TRUE]
    /\ resetting = [a \in Attempts |-> FALSE]
    /\ writer = [a \in Attempts |-> "off"]
    /\ hand = [a \in Attempts |-> Unsequenced]
    /\ reader = [a \in Attempts |-> "off"]
    /\ peer = [a \in Attempts |-> "up"]
    /\ teardown = [a \in Attempts |-> "no"]
    /\ latestSeq = 0 /\ fan = Idle /\ pings = 0
    /\ delivered = [a \in Attempts |-> <<>>]

-----------------------------------------------------------------------------
(* The handler: publicWebSocket and ServeHTTPWithClose. *)

Acquire(a) ==
    /\ stage[a] = "new"
    /\ \/ /\ slots[IpOf[a]] >= MaxPerIP
          /\ stage' = [stage EXCEPT ![a] = "refused"]
          /\ UNCHANGED slots
       \/ /\ slots[IpOf[a]] < MaxPerIP
          /\ stage' = [stage EXCEPT ![a] = "admitted"]
          /\ slots' = [slots EXCEPT ![IpOf[a]] = @ + 1]
    /\ UNCHANGED <<clients, greeting, queueVars, pumpVars, peer, teardown, fanVars, pings>>

\* release never makes a count negative.
Freed(ip) == [slots EXCEPT ![ip] = Max({@ - 1, 0})]

CheckRoom(a) ==
    /\ stage[a] = "admitted"
    /\ stage' = [stage EXCEPT ![a] =
                   IF Cardinality(clients) >= MaxClients THEN "refusing" ELSE "checked"]
    /\ UNCHANGED <<slots, clients, greeting, queueVars, pumpVars, peer, teardown, fanVars, pings>>

\* The upgrade fails, or the client is registered - whatever the others did
\* since the room was checked.
Upgrade(a) ==
    /\ stage[a] = "checked"
    /\ \/ /\ stage' = [stage EXCEPT ![a] = "refusing"]
          /\ UNCHANGED clients
       \/ /\ stage' = [stage EXCEPT ![a] = "registered"]
          /\ clients' = clients \cup {a}
    /\ UNCHANGED <<slots, greeting, queueVars, pumpVars, peer, teardown, fanVars, pings>>

\* ServeHTTPWithClose returned false.
Refuse(a) ==
    /\ stage[a] = "refusing"
    /\ stage' = [stage EXCEPT ![a] = "refused"]
    /\ slots' = Freed(IpOf[a])
    /\ UNCHANGED <<clients, greeting, queueVars, pumpVars, peer, teardown, fanVars, pings>>

ReadHello(a) ==
    /\ stage[a] = "registered"
    /\ stage' = [stage EXCEPT ![a] = "greeting"]
    /\ greeting' = [greeting EXCEPT ![a] = latestSeq]
    /\ UNCHANGED <<slots, clients, queueVars, pumpVars, peer, teardown, fanVars, pings>>

\* c.send <- hello waits for room: nothing reads the queue before the pumps.
SendHello(a) ==
    /\ stage[a] = "greeting"
    /\ open[a] /\ Len(queue[a]) < QueueSize
    /\ queue' = [queue EXCEPT ![a] = Append(@, Unsequenced)]
    /\ stage' = [stage EXCEPT ![a] = "serving"]
    /\ writer' = [writer EXCEPT ![a] = "ready"]
    /\ reader' = [reader EXCEPT ![a] = "reading"]
    /\ UNCHANGED <<slots, clients, greeting, open, resetting, hand, delivered, peer,
                   teardown, fanVars, pings>>

\* ... and panics if the queue is closed meanwhile.
HelloPanics(a) ==
    /\ stage[a] = "greeting"
    /\ ~open[a]
    /\ stage' = [stage EXCEPT ![a] = "panicked"]
    /\ UNCHANGED <<slots, clients, greeting, queueVars, pumpVars, peer, teardown, fanVars, pings>>

-----------------------------------------------------------------------------
(* Sending: safeSend never waits. *)

\* Mutant: the message of a full queue is dropped and nothing else happens.
MutDropSilently(a, message) ==
    \/ /\ open[a] /\ Len(queue[a]) < QueueSize
       /\ queue' = [queue EXCEPT ![a] = Append(@, message)]
       /\ UNCHANGED <<open, resetting>>
    \/ /\ ~open[a] \/ Len(queue[a]) >= QueueSize
       /\ UNCHANGED queueVars

\* A full queue marks the client for removal; the panic of a closed queue is
\* recovered.
SafeSend(a, message) ==
    \/ /\ open[a] /\ Len(queue[a]) < QueueSize
       /\ queue' = [queue EXCEPT ![a] = Append(@, message)]
       /\ UNCHANGED <<open, resetting>>
    \/ /\ open[a] /\ Len(queue[a]) >= QueueSize
       /\ resetting' = [resetting EXCEPT ![a] = TRUE]
       /\ UNCHANGED <<queue, open>>
    \/ ~open[a] /\ UNCHANGED queueVars

\* BroadcastPublicEvent. SetLatestSeq comes first: who registers from now on reads it for its hello.
Announce ==
    /\ fan = Idle
    /\ latestSeq < MaxEvents
    /\ latestSeq' = latestSeq + 1
    /\ fan' = [announced |-> TRUE, targets |-> {}]
    /\ UNCHANGED <<handlerVars, clients, queueVars, pumpVars, peer, teardown, pings>>

CopyClients ==
    /\ fan.announced
    /\ fan' = [announced |-> FALSE, targets |-> clients]
    /\ UNCHANGED <<handlerVars, clients, queueVars, pumpVars, peer, teardown, latestSeq, pings>>

SendTo(a) ==
    /\ a \in fan.targets
    /\ SafeSend(a, latestSeq)
    /\ fan' = [fan EXCEPT !.targets = @ \ {a}]
    /\ UNCHANGED <<handlerVars, clients, pumpVars, peer, teardown, latestSeq, pings>>

\* readPump answers a ping through the same queue.
Ping(a) ==
    /\ reader[a] = "reading" /\ peer[a] = "up"
    /\ pings < MaxPings
    /\ pings' = pings + 1
    /\ SafeSend(a, Unsequenced)
    /\ UNCHANGED <<handlerVars, clients, pumpVars, peer, teardown, fanVars>>

-----------------------------------------------------------------------------
(* The pumps. *)

\* The peer goes away without a word, or stops reading.
Leave(a) ==
    /\ a \in clients /\ peer[a] = "up"
    /\ peer' = [peer EXCEPT ![a] = "gone"]
    /\ UNCHANGED <<handlerVars, clients, queueVars, pumpVars, teardown, fanVars, pings>>

Dead(a) == peer[a] = "gone" \/ teardown[a] = "closed"

\* The queue of a closed channel is still read to its end.
TakeMessage(a) ==
    /\ writer[a] = "ready" /\ queue[a] # <<>>
    /\ hand' = [hand EXCEPT ![a] = Head(queue[a])]
    /\ queue' = [queue EXCEPT ![a] = Tail(@)]
    /\ writer' = [writer EXCEPT ![a] = "writing"]
    /\ UNCHANGED <<handlerVars, clients, open, resetting, reader, delivered, peer, teardown,
                   fanVars, pings>>

WriteMessage(a) ==
    /\ writer[a] = "writing" /\ ~Dead(a)
    /\ writer' = [writer EXCEPT ![a] = "ready"]
    /\ hand' = [hand EXCEPT ![a] = Unsequenced]
    /\ delivered' = [delivered EXCEPT ![a] =
                       IF hand[a] = Unsequenced THEN @ ELSE Append(@, hand[a])]
    /\ UNCHANGED <<handlerVars, clients, queueVars, reader, peer, teardown, fanVars, pings>>

\* A write or a ping fails (its deadline included), or the queue is closed and empty.
WriterEnds(a) ==
    /\ \/ writer[a] = "writing"
       \/ writer[a] = "ready" /\ Dead(a)
       \/ writer[a] = "ready" /\ ~open[a] /\ queue[a] = <<>>
    /\ writer' = [writer EXCEPT ![a] = "ended"]
    /\ UNCHANGED <<handlerVars, clients, queueVars, hand, reader, delivered, peer, teardown,
                   fanVars, pings>>

\* The read fails, by its deadline at the latest.
ReaderEnds(a) ==
    /\ reader[a] = "reading" /\ Dead(a)
    /\ reader' = [reader EXCEPT ![a] = "ended"]
    /\ UNCHANGED <<handlerVars, clients, queueVars, writer, hand, delivered, peer, teardown,
                   fanVars, pings>>

-----------------------------------------------------------------------------
(* removeWithReason: called by the reset's goroutine and by both pumps. *)

\* Mutant: the caller does not look whether another one has removed the client.
MutUnregisterTwice(a) ==
    /\ stage[a] \in {"registered", "greeting", "serving", "panicked"}
    /\ resetting[a] \/ "ended" \in {writer[a], reader[a]}
    /\ teardown[a] # "removed"
    /\ clients' = clients \ {a}
    /\ open' = [open EXCEPT ![a] = FALSE]
    /\ teardown' = [teardown EXCEPT ![a] = "removed"]
    /\ UNCHANGED <<handlerVars, queue, resetting, pumpVars, peer, fanVars, pings>>

\* Mutant: safeSend marks the client and does not remove it.
MutUnregisterByPumps(a) ==
    /\ a \in clients
    /\ "ended" \in {writer[a], reader[a]}
    /\ clients' = clients \ {a}
    /\ open' = [open EXCEPT ![a] = FALSE]
    /\ teardown' = [teardown EXCEPT ![a] = "removed"]
    /\ UNCHANGED <<handlerVars, queue, resetting, pumpVars, peer, fanVars, pings>>

Unregister(a) ==
    /\ a \in clients
    /\ resetting[a] \/ "ended" \in {writer[a], reader[a]}
    /\ clients' = clients \ {a}
    /\ open' = [open EXCEPT ![a] = FALSE]
    /\ teardown' = [teardown EXCEPT ![a] = "removed"]
    /\ UNCHANGED <<handlerVars, queue, resetting, pumpVars, peer, fanVars, pings>>

\* onClose gives the slot back.
Release(a) ==
    /\ teardown[a] = "removed"
    /\ teardown' = [teardown EXCEPT ![a] = "released"]
    /\ slots' = Freed(IpOf[a])
    /\ UNCHANGED <<stage, clients, greeting, queueVars, pumpVars, peer, fanVars, pings>>

CloseConn(a) ==
    /\ teardown[a] = "released"
    /\ teardown' = [teardown EXCEPT ![a] = "closed"]
    /\ UNCHANGED <<handlerVars, clients, queueVars, pumpVars, peer, fanVars, pings>>

-----------------------------------------------------------------------------
Handler(a) == Acquire(a) \/ CheckRoom(a) \/ Upgrade(a) \/ Refuse(a) \/ ReadHello(a)
                \/ SendHello(a) \/ HelloPanics(a)
Writer(a) == TakeMessage(a) \/ WriteMessage(a) \/ WriterEnds(a)
Teardown(a) == Unregister(a) \/ Release(a) \/ CloseConn(a)
Fan == Announce \/ CopyClients \/ \E a \in Attempts : SendTo(a)

Next ==
    \/ \E a \in Attempts :
          Handler(a) \/ Writer(a) \/ ReaderEnds(a) \/ Teardown(a) \/ Ping(a) \/ Leave(a)
    \/ Fan

Spec == Init /\ [][Next]_vars

\* Goroutines run, and writes and reads have deadlines.  Nobody has to connect,
\* to ping, to leave or to publish.
Fairness ==
    \A a \in Attempts :
        /\ WF_vars(Handler(a) /\ stage[a] # "new") /\ WF_vars(Writer(a))
        /\ WF_vars(ReaderEnds(a)) /\ WF_vars(Teardown(a)) /\ WF_vars(SendTo(a))
FairSpec == Spec /\ Fairness /\ WF_vars(CopyClients)

-----------------------------------------------------------------------------
(* Properties. *)

\* Every variable has its type; no send queue exceeds its capacity and no
\* address its limit (queueSize of NewHub, maxPerIP of ws_admission.go).
TypeOK ==
    /\ slots \in [Ips -> 0..MaxPerIP]
    /\ stage \in [Attempts -> {"new", "admitted", "checked", "refusing", "refused",
                               "registered", "greeting", "serving", "panicked"}]
    /\ clients \subseteq Attempts
    /\ greeting \in [Attempts -> Nat]
    /\ queue \in [Attempts -> Seq(Nat)]
    /\ \A a \in Attempts : Len(queue[a]) <= QueueSize
    /\ open \in [Attempts -> BOOLEAN] /\ resetting \in [Attempts -> BOOLEAN]
    /\ writer \in [Attempts -> {"off", "ready", "writing", "ended"}]
    /\ hand \in [Attempts -> Nat]
    /\ reader \in [Attempts -> {"off", "reading", "ended"}]
    /\ peer \in [Attempts -> {"up", "gone"}]
    /\ teardown \in [Attempts -> {"no", "removed", "released", "closed"}]
    /\ latestSeq \in Nat
    /\ fan \in [announced : BOOLEAN, targets : SUBSET Attempts]
    /\ pings \in Nat
    /\ delivered \in [Attempts -> Seq(Nat)]

\* The limiter counts exactly the connections that still hold a slot: it is
\* given back once, whoever ends the connection (onClose "exactly once"). The
\* types, with the limits in them, are checked with it.
Holds(a) ==
    /\ stage[a] \notin {"new", "refused"}
    /\ teardown[a] \in {"no", "removed"}

SlotsExact ==
    /\ TypeOK
    /\ \A ip \in Ips : slots[ip] = Cardinality({a \in Attempts : IpOf[a] = ip /\ Holds(a)})

\* A connection that is not being reset misses nothing: what it was sent names
\* every announced event since its hello, in order and without a gap, however
\* registration, hello and broadcasts interleave (hub.go:120-130, 162-179).
Stream(a) == delivered[a] \o <<hand[a]>> \o queue[a]
Due(a) == IF fan.announced \/ a \in fan.targets THEN latestSeq - 1 ELSE latestSeq
EventsOf(s) == Range(s) \ {Unsequenced}
Ordered(s) ==
    \A i, j \in DOMAIN s : i < j /\ Unsequenced \notin {s[i], s[j]} => s[i] < s[j]

HelloThenStream ==
    \A a \in clients :
        stage[a] \in {"greeting", "serving"} /\ ~resetting[a] =>
            /\ Ordered(Stream(a))
            /\ \E first \in 1..(greeting[a] + 1) : EventsOf(Stream(a)) = first..Due(a)

\* Every served connection whose peer is gone or that was marked for a reset is
\* closed and gives its slot back (deadlines of the pumps, safeSend's goroutine).
DeadIsReleased ==
    \A a \in Attempts :
        (stage[a] = "serving" /\ (peer[a] = "gone" \/ resetting[a])) ~> teardown[a] = "closed"

\* hub.go:190-192: the reconnecting client "resumes from its retained event
\* cursor", the last event it received: nothing below it may be missing.
Contiguous(s) == \A i \in 1..(Len(s) - 1) : s[i + 1] = s[i] + 1
ResumableCursor == \A a \in Attempts : Contiguous(delivered[a])

=============================================================================
