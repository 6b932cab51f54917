------------------------------ MODULE MqttSession ------------------------------
(***************************************************************************)
(* The MQTT session: the flags connected and subscribed, the paho client    *)
(* that is replaced while the old one's callbacks may still run, the        *)
(* rate-limited recovery, the watchdog and the shutdown                     *)
(* (backend/internal/mqtt/client.go).                                       *)
(*                                                                          *)
(* Every goroutine stores one flag at a time.  Of paho the model has what   *)
(* the options ask for: a client connects and reconnects by itself until it *)
(* is told to disconnect, and runs the OnConnect and ConnectionLost         *)
(* handlers in goroutines of their own.                                     *)
(***************************************************************************)
EXTENDS Integers

CONSTANTS
    PahoClients, \* paho clients; one that is done with is built anew
    NoClient,    \* nil
    MaxFaults    \* bound: lost connections, refused subscriptions, bad timing

ASSUME NoClientAssumption == NoClient \notin PahoClients
ASSUME FaultsAssumption == MaxFaults \in Nat

VARIABLES
    client,     \* Client.client
    connected,  \* Client.connected
    subscribed, \* Client.subscribed
    cooling,    \* lastSessionRecoveryAt is less than 30 s ago
    shutdown,   \* Client.shutdown
    stopper,    \* where the goroutine that waits for the context is
    watchdog,   \* where the watchdog is
    recovery,   \* where forceReconnect is, and the client it replaces
    link,       \* each paho client's connection
    onConnect,  \* where each client's OnConnect handler is
    onLost,     \* where its ConnectionLost handler, or its failed connect, is
    faults

pahoVars == <<link, onConnect, onLost>>
flagVars == <<connected, subscribed>>
controlVars == <<shutdown, stopper>>
sessionVars == <<client, flagVars, cooling, controlVars, watchdog, recovery, pahoVars, faults>>

NoRecovery == [pc |-> "idle", old |-> NoClient]

SessionInit ==
    /\ client = NoClient
    /\ connected = FALSE /\ subscribed = FALSE /\ cooling = FALSE
    /\ shutdown = FALSE /\ stopper = "waiting" /\ watchdog = "off"
    /\ recovery = NoRecovery
    /\ link = [p \in PahoClients |-> "unused"]
    /\ onConnect = [p \in PahoClients |-> "none"]
    /\ onLost = [p \in PahoClients |-> "none"]
    /\ faults = 0

\* What can go wrong goes wrong a bounded number of times.
Counted(fault) ==
    \/ ~fault /\ UNCHANGED faults
    \/ fault /\ faults < MaxFaults /\ faults' = faults + 1

\* A client nobody uses any more, as good as the one paho.NewClient returns.
Fresh(p) ==
    /\ link[p] \in {"unused", "closed"} /\ p # client
    /\ onConnect[p] = "none" /\ onLost[p] = "none"

\* Connect returns at once; paho retries until it succeeds.
Joining(p) == link' = [link EXCEPT ![p] = "joining"]

\* Disconnect(250). The wait of connect for a client that never got through
\* then ends with an error, unless it had timed out.
Disconnect(p) ==
    /\ link' = [link EXCEPT ![p] = IF @ = "unused" THEN @ ELSE "closed"]
    /\ onLost' \in IF link[p] = "joining"
                   THEN {onLost, [onLost EXCEPT ![p] = "due"]} ELSE {onLost}

StartClient(p) ==
    /\ client = NoClient
    /\ client' = p
    /\ Joining(p)
    /\ watchdog' = "waiting"
    /\ UNCHANGED <<flagVars, cooling, controlVars, recovery, onConnect, onLost, faults>>

-----------------------------------------------------------------------------
(* scheduleSessionRecovery and forceReconnect. *)

\* At most one recovery in 30 s, and none once the shutdown has begun.
Schedule ==
    \/ /\ ~shutdown /\ ~cooling
       /\ cooling' = TRUE
       /\ recovery' = [NoRecovery EXCEPT !.pc = "begin"]
    \/ /\ shutdown \/ cooling
       /\ UNCHANGED <<cooling, recovery>>

\* 30 s is longer than one forceReconnect takes, and than the 10 s for which a
\* handler of the client it has disconnected may still wait.
CoolDown ==
    /\ cooling /\ recovery.pc = "idle"
    /\ \A p \in PahoClients : link[p] = "closed" => onConnect[p] = "none"
    /\ cooling' = FALSE
    /\ UNCHANGED <<client, flagVars, controlVars, watchdog, recovery, pahoVars, faults>>

RecoveryBegins ==
    /\ recovery.pc = "begin"
    /\ \/ shutdown /\ recovery' = NoRecovery /\ UNCHANGED connected
       \/ /\ ~shutdown
          /\ connected' = FALSE
          /\ recovery' = [recovery EXCEPT !.pc = "clear"]
    /\ UNCHANGED <<client, subscribed, cooling, controlVars, watchdog, pahoVars, faults>>

RecoveryClears ==
    /\ recovery.pc = "clear"
    /\ subscribed' = FALSE
    /\ recovery' = [recovery EXCEPT !.pc = "replace"]
    /\ UNCHANGED <<client, connected, cooling, controlVars, watchdog, pahoVars, faults>>

\* Mutant: the client to disconnect is read after it has been replaced.
MutReadAfterReplace(p) ==
    /\ recovery.pc = "replace"
    /\ Fresh(p)
    /\ recovery' = [pc |-> "disconnect", old |-> p]
    /\ client' = p
    /\ link' = [link EXCEPT ![p] = "unused"]
    /\ UNCHANGED <<flagVars, cooling, controlVars, watchdog, onConnect, onLost, faults>>

\* Under clientMu.
ReplaceClient(p) ==
    /\ recovery.pc = "replace"
    /\ Fresh(p)
    /\ recovery' = [pc |-> "disconnect", old |-> client]
    /\ client' = p
    /\ link' = [link EXCEPT ![p] = "unused"]
    /\ UNCHANGED <<flagVars, cooling, controlVars, watchdog, onConnect, onLost, faults>>

DisconnectOld ==
    /\ recovery.pc = "disconnect"
    /\ Disconnect(recovery.old)
    /\ recovery' = [NoRecovery EXCEPT !.pc = "connect"]
    /\ UNCHANGED <<client, flagVars, cooling, controlVars, watchdog, onConnect, faults>>

ConnectNew ==
    /\ recovery.pc = "connect"
    /\ Joining(client)
    /\ recovery' = NoRecovery
    /\ UNCHANGED <<client, flagVars, cooling, controlVars, watchdog, onConnect, onLost, faults>>

-----------------------------------------------------------------------------
(* paho and its handlers. *)

\* A handler that only has stores left ends before a network round trip does:
\* no client gets through while one of a client that is not up still runs.
HandlersSettled(p) ==
    /\ onConnect[p] = "none"
    /\ \A q \in PahoClients : onLost[q] = "none" /\ (link[q] = "closed" => onConnect[q] = "none")

\* To get through in the middle of a recovery is bad timing, and counted.
LinkUp(p) ==
    /\ link[p] \in {"joining", "rejoining"}
    /\ HandlersSettled(p)
    /\ Counted(recovery.pc # "idle" \/ watchdog = "recovering")
    /\ link' = [link EXCEPT ![p] = "up"]
    /\ onConnect' = [onConnect EXCEPT ![p] = "begin"]
    /\ UNCHANGED <<client, flagVars, cooling, controlVars, watchdog, recovery, onLost>>

LinkLost(p) ==
    /\ link[p] = "up" /\ onLost[p] = "none"
    /\ Counted(TRUE)
    /\ link' = [link EXCEPT ![p] = "rejoining"]
    /\ onLost' = [onLost EXCEPT ![p] = "due"]
    /\ UNCHANGED <<client, flagVars, cooling, controlVars, watchdog, recovery, onConnect>>

\* ConnectionLost, and the error of connect's token: first one flag, then the other.
LostConnected(p) ==
    /\ onLost[p] = "due"
    /\ connected' = FALSE
    /\ onLost' = [onLost EXCEPT ![p] = "half"]
    /\ UNCHANGED <<client, subscribed, cooling, controlVars, watchdog, recovery, link, onConnect, faults>>

LostSubscribed(p) ==
    /\ onLost[p] = "half"
    /\ subscribed' = FALSE
    /\ onLost' = [onLost EXCEPT ![p] = "none"]
    /\ UNCHANGED <<client, connected, cooling, controlVars, watchdog, recovery, link, onConnect, faults>>

OnConnectBegins(p) ==
    /\ onConnect[p] = "begin"
    /\ connected' = TRUE
    /\ onConnect' = [onConnect EXCEPT ![p] = "noted"]
    /\ UNCHANGED <<client, subscribed, cooling, controlVars, watchdog, recovery, link, onLost, faults>>

Subscribe(p) ==
    /\ onConnect[p] = "noted"
    /\ subscribed' = FALSE
    /\ onConnect' = [onConnect EXCEPT ![p] = "subscribing"]
    /\ UNCHANGED <<client, connected, cooling, controlVars, watchdog, recovery, link, onLost, faults>>

\* The acknowledgement may have come just before the connection went.
SubscribeOk(p) ==
    /\ onConnect[p] = "subscribing"
    /\ subscribed' = TRUE
    /\ onConnect' = [onConnect EXCEPT ![p] = "none"]
    /\ UNCHANGED <<client, connected, cooling, controlVars, watchdog, recovery, link, onLost, faults>>

\* Ten seconds pass, or the token has an error, as it has when the connection goes.
SubscribeFails(p) ==
    /\ onConnect[p] = "subscribing"
    /\ Counted(link[p] = "up")
    /\ onConnect' = [onConnect EXCEPT ![p] = "none"]
    /\ Schedule
    /\ UNCHANGED <<client, flagVars, controlVars, watchdog, link, onLost>>

-----------------------------------------------------------------------------
(* The watchdog and the shutdown. *)

\* A tick finds a connection without a subscription; another one changes
\* nothing.  To find one that is just subscribing is bad timing, and counted.
Tick ==
    /\ watchdog = "waiting"
    /\ connected /\ ~subscribed
    /\ Counted(\E p \in PahoClients : onConnect[p] # "none")
    /\ watchdog' = "recovering"
    /\ UNCHANGED <<client, flagVars, cooling, controlVars, recovery, pahoVars>>

\* Mutant: the watchdog reports and leaves the recovery to the callbacks.
MutTickReports ==
    /\ watchdog = "recovering"
    /\ watchdog' = "waiting"
    /\ UNCHANGED <<client, flagVars, cooling, controlVars, recovery, pahoVars, faults>>

TickRecovers ==
    /\ watchdog = "recovering"
    /\ Schedule
    /\ watchdog' = "waiting"
    /\ UNCHANGED <<client, flagVars, controlVars, pahoVars, faults>>

ShutdownBegins ==
    /\ client # NoClient /\ ~shutdown
    /\ shutdown' = TRUE
    /\ UNCHANGED <<client, flagVars, cooling, stopper, watchdog, recovery, pahoVars, faults>>

\* It takes the client there is and disconnects it; the flags come last.
StopperDisconnects ==
    /\ shutdown /\ stopper = "waiting"
    /\ Disconnect(client)
    /\ stopper' = "clear"
    /\ UNCHANGED <<client, flagVars, cooling, shutdown, watchdog, recovery, onConnect, faults>>

StopperClears ==
    /\ stopper = "clear"
    /\ connected' = FALSE /\ subscribed' = FALSE
    /\ stopper' = "done"
    /\ UNCHANGED <<client, cooling, shutdown, watchdog, recovery, pahoVars, faults>>

WatchdogStops ==
    /\ shutdown /\ watchdog = "waiting"
    /\ watchdog' = "off"
    /\ UNCHANGED <<client, flagVars, cooling, controlVars, recovery, pahoVars, faults>>

-----------------------------------------------------------------------------
Recover == RecoveryBegins \/ RecoveryClears \/ (\E p \in PahoClients : ReplaceClient(p))
             \/ DisconnectOld \/ ConnectNew
Handlers(p) == LostConnected(p) \/ LostSubscribed(p) \/ OnConnectBegins(p) \/ Subscribe(p)
                 \/ SubscribeOk(p) \/ SubscribeFails(p)
Stopping == StopperDisconnects \/ StopperClears \/ WatchdogStops

SessionNext ==
    \/ \E p \in PahoClients : StartClient(p) \/ LinkUp(p) \/ LinkLost(p) \/ Handlers(p)
    \/ CoolDown \/ Recover \/ Tick \/ TickRecovers \/ ShutdownBegins \/ Stopping

SessionSpec == SessionInit /\ [][SessionNext]_sessionVars

\* Goroutines and timers run, and paho gets through in the end.  Nobody has to
\* start, to lose a connection or to shut down.
SessionFairness ==
    /\ WF_sessionVars(CoolDown) /\ WF_sessionVars(Recover) /\ WF_sessionVars(Stopping)
    /\ WF_sessionVars(Tick) /\ WF_sessionVars(TickRecovers)
    /\ \A p \in PahoClients : WF_sessionVars(LinkUp(p)) /\ WF_sessionVars(Handlers(p))

-----------------------------------------------------------------------------
(* Properties. *)

\* Every variable has its type; a client is on the way out only while it is
\* being disconnected (Client of client.go:42-71, oldClient of forceReconnect).
SessionTypeOK ==
    /\ client \in PahoClients \cup {NoClient}
    /\ {connected, subscribed, cooling, shutdown} \subseteq BOOLEAN
    /\ stopper \in {"waiting", "clear", "done"}
    /\ watchdog \in {"off", "waiting", "recovering"}
    /\ recovery \in [pc : {"idle", "begin", "clear", "replace", "disconnect", "connect"},
                     old : PahoClients \cup {NoClient}]
    /\ recovery.old # NoClient => recovery.pc = "disconnect"
    /\ link \in [PahoClients -> {"unused", "joining", "up", "rejoining", "closed"}]
    /\ onConnect \in [PahoClients -> {"none", "begin", "noted", "subscribing"}]
    /\ onLost \in [PahoClients -> {"none", "due", "half"}]
    /\ faults \in 0..MaxFaults

\* A client that was replaced is disconnected, or about to be by the recovery
\* that replaced it: two subscriptions never feed the queue side by side for
\* longer, whoever asked for the recovery (forceReconnect).
OneLiveClient ==
    \A p \in PahoClients \ {client} :
        link[p] \in {"unused", "closed"} \/ (recovery.pc = "disconnect" /\ recovery.old = p)

\* Once nothing fails any more the session is up, subscribed and reported as
\* ready for good, or the process shuts down: callbacks, skipped recoveries and
\* the watchdog leave no state behind that nobody repairs (client.go:149-258).
Serving == client # NoClient /\ link[client] = "up" /\ connected /\ subscribed
SessionComesBack == (client # NoClient) ~> [](Serving \/ shutdown)

=============================================================================
