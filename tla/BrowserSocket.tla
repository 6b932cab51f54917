----------------------------- MODULE BrowserSocket -----------------------------
(***************************************************************************)
(* The browser's end of the public WebSocket (web/src/ws.ts): one variable  *)
(* for the socket in use, one timer each for the retry, the liveness and    *)
(* the ping, and event listeners that stay on every socket ever opened.     *)
(*                                                                          *)
(* An event of a socket that has been replaced touches the same timers as   *)
(* one of the socket in use; nothing orders the close event of the old      *)
(* socket before the open event of the new one.  The back-off (attempts)    *)
(* only says how long the retry timer runs and is left out.  What is sent   *)
(* through the socket is LiveClient's and Hub's subject.                    *)
(***************************************************************************)
EXTENDS Integers

CONSTANTS
    Sockets,       \* browser sockets; one that is done with is built anew
    NoSocket,      \* null
    MaxWsFaults    \* bound: what the network and the browser do to a socket

ASSUME NoSocketAssumption == NoSocket \notin Sockets
ASSUME WsFaultsAssumption == MaxWsFaults \in Nat

VARIABLES
    mounted,       \* connectPublicSocket has been called
    socket,        \* socket
    wsClosed,      \* closed
    retryTimer,    \* retryTimer is set
    livenessTimer, \* livenessTimer is set
    pingTimer,     \* pingTimer is set
    intervals,     \* ping intervals that run, the one of pingTimer included
    wsState,       \* each socket's readyState; "ending": its close event is due
    wsFaults

wsTimers == <<retryTimer, livenessTimer, pingTimer, intervals>>
wsVars == <<mounted, socket, wsClosed, wsTimers, wsState, wsFaults>>

SocketInit ==
    /\ mounted = FALSE /\ wsClosed = FALSE
    /\ socket = NoSocket
    /\ retryTimer = FALSE /\ livenessTimer = FALSE
    /\ pingTimer = FALSE /\ intervals = 0
    /\ wsState = [s \in Sockets |-> "unused"]
    /\ wsFaults = 0

\* Faults are bounded.
WsFault == wsFaults < MaxWsFaults /\ wsFaults' = wsFaults + 1

-----------------------------------------------------------------------------
(* The closure's helpers. *)

\* clearPingTimer stops the interval it has the handle of.
ClearPingTimer ==
    /\ intervals' = IF pingTimer THEN intervals - 1 ELSE intervals
    /\ pingTimer' = FALSE

\* Mutant: a socket that was closed is watched as well.
MutResetLivenessTimer == livenessTimer' = TRUE

ResetLivenessTimer == livenessTimer' = ~wsClosed

ScheduleReconnect == retryTimer' = (retryTimer \/ ~wsClosed)

\* close() on a socket that has not ended; null and an ended one do not mind.
\* The close event comes later.
Ended(states, s) ==
    [q \in Sockets |-> IF q = s /\ states[q] \in {"connecting", "open"} THEN "ending" ELSE states[q]]

\* Mutant: the socket in use is closed first, and its close event reconnects.
MutConstruct ==
    \E s \in Sockets :
       /\ wsState[s] = "unused"
       /\ socket' = s
       /\ wsState' = [Ended(wsState, socket) EXCEPT ![s] = "connecting"]
       /\ retryTimer' = FALSE
       /\ UNCHANGED wsFaults

\* connect, once the retry timer is cleared: a socket, or a constructor that throws.
Construct ==
    \/ \E s \in Sockets :
          /\ wsState[s] = "unused"
          /\ socket' = s
          /\ wsState' = [wsState EXCEPT ![s] = "connecting"]
          /\ retryTimer' = FALSE
          /\ UNCHANGED wsFaults
    \/ /\ WsFault
       /\ retryTimer' = TRUE
       /\ UNCHANGED <<socket, wsState>>

-----------------------------------------------------------------------------
(* Timers. *)

Mount ==
    /\ ~mounted
    /\ mounted' = TRUE
    /\ Construct
    /\ UNCHANGED <<wsClosed, livenessTimer, pingTimer, intervals>>

RetryFires ==
    /\ retryTimer
    /\ Construct
    /\ UNCHANGED <<mounted, wsClosed, livenessTimer, pingTimer, intervals>>

\* 65 s without a message. The ping interval goes on until the close event.
LivenessFires ==
    /\ livenessTimer
    /\ WsFault
    /\ livenessTimer' = FALSE
    /\ wsState' = Ended(wsState, socket)
    /\ socket' = NoSocket
    /\ ScheduleReconnect
    /\ UNCHANGED <<mounted, wsClosed, pingTimer, intervals>>

\* An interval pings through the socket in use, and the send throws (handleSendFailure).
PingFails ==
    /\ intervals > 0
    /\ socket # NoSocket /\ wsState[socket] = "open"
    /\ WsFault
    /\ ClearPingTimer
    /\ livenessTimer' = FALSE
    /\ wsState' = Ended(wsState, socket)
    /\ socket' = NoSocket
    /\ ScheduleReconnect
    /\ UNCHANGED <<mounted, wsClosed>>

-----------------------------------------------------------------------------
(* Events of any socket, in use or not. *)

\* An interval that already runs is not cleared.
Opens(s) ==
    /\ wsState[s] = "connecting"
    /\ wsState' = [wsState EXCEPT ![s] = "open"]
    /\ ResetLivenessTimer
    /\ pingTimer' = TRUE
    /\ intervals' = intervals + 1
    /\ UNCHANGED <<mounted, socket, wsClosed, retryTimer, wsFaults>>

Receives(s) ==
    /\ wsState[s] = "open"
    /\ ResetLivenessTimer
    /\ UNCHANGED <<mounted, socket, wsClosed, retryTimer, pingTimer, intervals, wsState, wsFaults>>

\* The connection fails or is ended by the server.
Breaks(s) ==
    /\ wsState[s] \in {"connecting", "open"}
    /\ WsFault
    /\ wsState' = Ended(wsState, s)
    /\ UNCHANGED <<mounted, socket, wsClosed, wsTimers>>

\* Mutant: the event of a replaced socket clears the timers and does no more.
MutCloseEvent(s) ==
    /\ wsState[s] = "ending"
    /\ wsState' = [wsState EXCEPT ![s] = "unused"]
    /\ ClearPingTimer
    /\ livenessTimer' = FALSE
    /\ retryTimer' = (retryTimer \/ (~wsClosed /\ s = socket))
    /\ UNCHANGED <<mounted, socket, wsClosed, wsFaults>>

CloseEvent(s) ==
    /\ wsState[s] = "ending"
    /\ wsState' = [wsState EXCEPT ![s] = "unused"]
    /\ ClearPingTimer
    /\ livenessTimer' = FALSE
    /\ ScheduleReconnect
    /\ UNCHANGED <<mounted, socket, wsClosed, wsFaults>>

\* LiveSocket.close: only the socket in use is closed.
Unmount ==
    /\ mounted /\ ~wsClosed
    /\ wsClosed' = TRUE
    /\ retryTimer' = FALSE /\ livenessTimer' = FALSE
    /\ ClearPingTimer
    /\ wsState' = Ended(wsState, socket)
    /\ UNCHANGED <<mounted, socket, wsFaults>>

-----------------------------------------------------------------------------
SocketNext ==
    \/ Mount \/ RetryFires \/ LivenessFires \/ PingFails \/ Unmount
    \/ \E s \in Sockets : Opens(s) \/ Receives(s) \/ Breaks(s) \/ CloseEvent(s)

SocketSpec == SocketInit /\ [][SocketNext]_wsVars

\* Timers run out, sockets open once nothing breaks them, close events come.
\* Nobody has to mount, to send or to leave.
SocketFairness ==
    /\ WF_wsVars(RetryFires)
    /\ \A s \in Sockets : WF_wsVars(Opens(s)) /\ WF_wsVars(CloseEvent(s))

-----------------------------------------------------------------------------
(* Properties. *)

\* Every variable has its type; a ping timer that is set is an interval that
\* runs (the closure of connectPublicSocket, ws.ts:29-39).
SocketTypeOK ==
    /\ {mounted, wsClosed, retryTimer, livenessTimer, pingTimer} \subseteq BOOLEAN
    /\ socket \in Sockets \cup {NoSocket}
    /\ intervals \in Nat
    /\ pingTimer => intervals > 0
    /\ wsState \in [Sockets -> {"unused", "connecting", "open", "ending"}]
    /\ wsFaults \in 0..MaxWsFaults

\* The page is never left without a connection and without a way back to one:
\* until close() a retry is due, or the socket in use is opening, has its close
\* event before it, or is open and watched - whatever late events of replaced
\* sockets do to the shared timers (ws.ts:46-86, 109-136).
SomethingIsComing ==
    mounted /\ ~wsClosed =>
        \/ retryTimer
        \/ /\ socket # NoSocket
           /\ wsState[socket] = "open" => livenessTimer
           /\ wsState[socket] # "unused"

\* After close() no event, of whichever socket, arms the retry or the liveness
\* timer again (the checks of closed in ws.ts:48 and 64).
ClosedArmsNothing == wsClosed => ~retryTimer /\ ~livenessTimer

\* Once nothing breaks any more the socket in use is open and watched for good,
\* or the page has closed it (ws.ts:63-72, 99-137).
SocketSettles ==
    mounted ~> [](\/ wsClosed
                  \/ socket # NoSocket /\ wsState[socket] = "open" /\ livenessTimer)

=============================================================================
