------------------------------ MODULE EndsProofs ------------------------------
(***************************************************************************)
(* Proofs about the ends of the connections other than the hub's: the       *)
(* browser's socket (BrowserSocket) for every set of sockets, the page that *)
(* comes back to it (ResumeRecovery), and the session with the broker       *)
(* (MqttSession) for every set of paho clients; each for every bound on     *)
(* what goes wrong.                                                         *)
(***************************************************************************)
EXTENDS BrowserSocket, ResumeRecovery, MqttSession, TLAPS

-----------------------------------------------------------------------------
(* The browser's socket.                                                    *)

\* The sockets' states; the page closes only what it has opened.
StatesOK ==
    /\ socket \in Sockets \cup {NoSocket}
    /\ wsState \in [Sockets -> {"unused", "connecting", "open", "ending"}]
    /\ wsClosed => mounted

SocketInv == StatesOK /\ ClosedArmsNothing /\ SomethingIsComing

LEMMA SocketInitInv == SocketInit => SocketInv
BY DEF SocketInit, SocketInv, StatesOK, ClosedArmsNothing, SomethingIsComing

\* Closing a socket never makes an event of it unnecessary.
LEMMA EndedFacts ==
    ASSUME StatesOK, NEW s, wsState' = Ended(wsState, s)
    PROVE  wsState' \in [Sockets -> {"unused", "connecting", "open", "ending"}]
BY DEF StatesOK, Ended

LEMMA ConstructFacts ==
    ASSUME StatesOK, Construct
    PROVE  /\ socket' \in Sockets \cup {NoSocket}
           /\ wsState' \in [Sockets -> {"unused", "connecting", "open", "ending"}]
           /\ \/ retryTimer' /\ UNCHANGED <<socket, wsState>>
              \/ ~retryTimer' /\ socket' # NoSocket /\ wsState'[socket'] = "connecting"
BY NoSocketAssumption DEF Construct, StatesOK

LEMMA StatesStep ==
    ASSUME SocketInv, [SocketNext]_wsVars
    PROVE  StatesOK'
<1> USE DEF SocketInv
<1>1. CASE Mount
  BY <1>1, ConstructFacts DEF Mount, StatesOK
<1>2. CASE RetryFires
  BY <1>2, ConstructFacts DEF RetryFires, StatesOK
<1>3. CASE LivenessFires
  BY <1>3, EndedFacts DEF LivenessFires, StatesOK
<1>4. CASE PingFails
  BY <1>4, EndedFacts DEF PingFails, StatesOK
<1>5. CASE Unmount
  BY <1>5, EndedFacts DEF Unmount, StatesOK
<1>6. ASSUME NEW s \in Sockets, Opens(s) PROVE StatesOK'
  BY <1>6 DEF Opens, StatesOK
<1>7. ASSUME NEW s \in Sockets, Receives(s) PROVE StatesOK'
  BY <1>7 DEF Receives, StatesOK
<1>8. ASSUME NEW s \in Sockets, Breaks(s) PROVE StatesOK'
  BY <1>8, EndedFacts DEF Breaks, StatesOK
<1>9. ASSUME NEW s \in Sockets, CloseEvent(s) PROVE StatesOK'
  BY <1>9 DEF CloseEvent, StatesOK
<1>10. CASE UNCHANGED wsVars
  BY <1>10 DEF wsVars, StatesOK
<1> QED BY <1>1, <1>2, <1>3, <1>4, <1>5, <1>6, <1>7, <1>8, <1>9, <1>10 DEF SocketNext

\* A timer is armed only by scheduleReconnect and resetLivenessTimer, which look.
LEMMA ClosedStep ==
    ASSUME SocketInv, [SocketNext]_wsVars
    PROVE  ClosedArmsNothing'
<1> USE DEF SocketInv, ClosedArmsNothing
<1>1. CASE Mount
  BY <1>1 DEF Mount, StatesOK
<1>2. CASE RetryFires
  BY <1>2 DEF RetryFires
<1>3. CASE LivenessFires \/ PingFails
  BY <1>3 DEF LivenessFires, PingFails, ScheduleReconnect
<1>4. CASE Unmount
  BY <1>4 DEF Unmount
<1>5. ASSUME NEW s \in Sockets, Opens(s) \/ Receives(s) \/ Breaks(s) \/ CloseEvent(s)
      PROVE  ClosedArmsNothing'
  BY <1>5 DEF Opens, Receives, Breaks, CloseEvent, ScheduleReconnect, ResetLivenessTimer, wsTimers
<1>6. CASE UNCHANGED wsVars
  BY <1>6 DEF wsVars, wsTimers
<1> QED BY <1>1, <1>2, <1>3, <1>4, <1>5, <1>6 DEF SocketNext

\* Whatever ends a socket or clears its timers leaves a retry or a close event.
LEMMA ComingStep ==
    ASSUME SocketInv, [SocketNext]_wsVars
    PROVE  SomethingIsComing'
<1> USE DEF SocketInv
<1>1. CASE Mount \/ RetryFires
  BY <1>1, ConstructFacts DEF Mount, RetryFires, SomethingIsComing, ClosedArmsNothing, StatesOK
<1>2. CASE LivenessFires \/ PingFails
  <2>1. ScheduleReconnect /\ UNCHANGED wsClosed
    BY <1>2 DEF LivenessFires, PingFails
  <2>2. ~wsClosed => retryTimer' = TRUE
    BY <2>1 DEF ScheduleReconnect
  <2> QED BY <2>1, <2>2 DEF SomethingIsComing
<1>3. CASE Unmount
  BY <1>3 DEF Unmount, SomethingIsComing
<1>4. ASSUME NEW s \in Sockets, Opens(s) PROVE SomethingIsComing'
  BY <1>4 DEF Opens, ResetLivenessTimer, SomethingIsComing, StatesOK
<1>5. ASSUME NEW s \in Sockets, Receives(s) PROVE SomethingIsComing'
  BY <1>5 DEF Receives, ResetLivenessTimer, SomethingIsComing, StatesOK
<1>6. ASSUME NEW s \in Sockets, Breaks(s) PROVE SomethingIsComing'
  BY <1>6 DEF Breaks, Ended, wsTimers, SomethingIsComing, StatesOK
<1>7. ASSUME NEW s \in Sockets, CloseEvent(s) PROVE SomethingIsComing'
  BY <1>7 DEF CloseEvent, ScheduleReconnect, SomethingIsComing, StatesOK
<1>8. CASE UNCHANGED wsVars
  BY <1>8 DEF wsVars, wsTimers, SomethingIsComing
<1> QED BY <1>1, <1>2, <1>3, <1>4, <1>5, <1>6, <1>7, <1>8 DEF SocketNext

-----------------------------------------------------------------------------
LEMMA SocketStep == SocketInv /\ [SocketNext]_wsVars => SocketInv'
BY StatesStep, ClosedStep, ComingStep DEF SocketInv

\* However many sockets have been replaced and however late their events come,
\* a mounted page has a connection it watches or a way back to one (ws.ts:46-86,
\* 109-136).
THEOREM SomethingIsComingAlways == SocketSpec => []SomethingIsComing
<1>1. SocketInv => SomethingIsComing
  BY DEF SocketInv
<1> QED BY SocketInitInv, SocketStep, <1>1, PTL DEF SocketSpec

\* After close() neither timer is ever armed again (ws.ts:48, 64, 141-148).
THEOREM ClosedStaysQuiet == SocketSpec => []ClosedArmsNothing
<1>1. SocketInv => ClosedArmsNothing
  BY DEF SocketInv
<1> QED BY SocketInitInv, SocketStep, <1>1, PTL DEF SocketSpec

-----------------------------------------------------------------------------
(* The page that comes back.                                                *)

\* The numbers of the cycles.
CyclesOK ==
    /\ cycle \in Nat /\ startedCycle \in Nat /\ queuedCycle \in Nat
    /\ startedCycle <= cycle /\ queuedCycle <= cycle
    /\ suspended => startedCycle < cycle /\ queuedCycle < cycle

\* A page that has been told it is hidden is suspended: no resume is owed to it.
HiddenIsSuspended == hidden /\ ~visibilityDue /\ ~disposed => suspended

ResumeInv == CyclesOK /\ HiddenIsSuspended /\ ResumeOwed

\* What start leaves, for a cycle that is not over yet.
LEMMA RefreshFacts ==
    ASSUME NEW c \in Nat, NEW target \in Nat, CyclesOK, cycle <= c, target = c, Refresh(target)
    PROVE  /\ startedCycle' \in Nat /\ queuedCycle' \in Nat
           /\ startedCycle' <= c /\ queuedCycle' <= c
           /\ startedCycle' = c \/ (inFlight' /\ queuedCycle' = c)
<1>1. CASE target <= startedCycle /\ UNCHANGED cycleVars
  BY <1>1 DEF cycleVars, CyclesOK
<1>2. CASE /\ target > startedCycle /\ inFlight
           /\ queuedCycle' = IF target > queuedCycle THEN target ELSE queuedCycle
           /\ UNCHANGED <<startedCycle, inFlight>>
  BY <1>2 DEF CyclesOK
<1>3. CASE /\ target > startedCycle /\ ~inFlight
           /\ startedCycle' = target
           /\ inFlight' = TRUE
           /\ UNCHANGED queuedCycle
  BY <1>3 DEF CyclesOK
<1> QED BY <1>1, <1>2, <1>3 DEF Refresh

LEMMA MarkFacts ==
    ASSUME CyclesOK, MarkSuspended, UNCHANGED cycleVars
    PROVE  CyclesOK' /\ suspended'
<1>1. suspended' BY DEF MarkSuspended
<1>2. CASE suspended
  BY <1>2 DEF MarkSuspended, CyclesOK, cycleVars
<1>3. CASE ~suspended
  BY <1>3 DEF MarkSuspended, CyclesOK, cycleVars
<1> QED BY <1>1, <1>2, <1>3

\* resume leaves everything as it is, or owes nothing more.
LEMMA ResumeFacts ==
    ASSUME CyclesOK, NEW force \in BOOLEAN, Resume(force)
    PROVE  \/ UNCHANGED <<suspended, cycle, cycleVars>> /\ (hidden \/ ~suspended)
           \/ /\ CyclesOK' /\ ~hidden /\ ~suspended'
              /\ startedCycle' = cycle' \/ (inFlight' /\ queuedCycle' = cycle')
<1> DEFINE unpaired == force /\ ~suspended /\ ~recent
           current == IF unpaired THEN cycle + 1 ELSE cycle
<1>1. CASE /\ hidden \/ ~(suspended \/ unpaired)
           /\ UNCHANGED <<suspended, cycle, cycleVars, recent>>
  BY <1>1
<1>2. CASE /\ ~hidden /\ (suspended \/ unpaired)
           /\ current <= MaxCycles
           /\ cycle' = current
           /\ suspended' = FALSE
           /\ recent' = TRUE
           /\ Refresh(current)
  <2>1. current \in Nat /\ cycle <= current
    BY DEF CyclesOK
  <2>2. /\ startedCycle' \in Nat /\ queuedCycle' \in Nat
        /\ startedCycle' <= current /\ queuedCycle' <= current
        /\ startedCycle' = current \/ (inFlight' /\ queuedCycle' = current)
    <3> HIDE DEF current
    <3> QED BY <1>2, <2>1, RefreshFacts
  <2> HIDE DEF current, unpaired
  <2> QED BY <1>2, <2>1, <2>2 DEF CyclesOK
<1> QED BY <1>1, <1>2 DEF Resume

LEMMA ResumeInitInv == ResumeInit => ResumeInv
BY DEF ResumeInit, ResumeInv, CyclesOK, HiddenIsSuspended, ResumeOwed

\* The signals and the refresh keep the invariant, each in its own way.
LEMMA ResumeStep ==
    ASSUME ResumeInv, [ResumeNext]_resumeVars
    PROVE  ResumeInv'
<1> USE DEF ResumeInv
<1>1. CASE TurnVisibility
  BY <1>1 DEF TurnVisibility, CyclesOK, HiddenIsSuspended, ResumeOwed, cycleVars
<1>2. CASE HandleVisibility
  <2>1. CASE hidden
    <3>1. CyclesOK' /\ suspended'
      BY <1>2, <2>1, MarkFacts DEF HandleVisibility, cycleVars
    <3> QED BY <3>1 DEF HiddenIsSuspended, ResumeOwed
  <2>2. CASE ~hidden
    <3>1. Resume(FALSE) /\ UNCHANGED <<hidden, disposed>>
      BY <1>2, <2>2 DEF HandleVisibility
    <3> QED BY <2>2, <3>1, ResumeFacts DEF HiddenIsSuspended, ResumeOwed, CyclesOK, cycleVars
  <2> QED BY <2>1, <2>2
<1>3. CASE SuspendSignal
  <2>1. CyclesOK' /\ suspended'
    BY <1>3, MarkFacts DEF SuspendSignal, cycleVars
  <2> QED BY <2>1 DEF HiddenIsSuspended, ResumeOwed
<1>4. ASSUME NEW force \in BOOLEAN, ResumeSignal(force) PROVE ResumeInv'
  BY <1>4, ResumeFacts
     DEF ResumeSignal, HiddenIsSuspended, ResumeOwed, CyclesOK, cycleVars, pageVars
<1>5. CASE Settled
  <2>1. UNCHANGED <<hidden, visibilityDue, suspended, cycle, disposed>>
    BY <1>5 DEF Settled, pageVars
  <2>2. HiddenIsSuspended'
    BY <2>1 DEF HiddenIsSuspended
  <2>3. CASE /\ ~disposed /\ ~hidden /\ queuedCycle > startedCycle
             /\ startedCycle' = queuedCycle /\ queuedCycle' = 0
             /\ UNCHANGED inFlight
    <3>1. CyclesOK'
      BY <2>1, <2>3 DEF CyclesOK
    <3>2. ResumeOwed'
      BY <2>1, <2>3 DEF CyclesOK, ResumeOwed
    <3> QED BY <2>2, <3>1, <3>2
  <2>4. CASE /\ disposed \/ hidden \/ queuedCycle <= startedCycle
             /\ inFlight' = FALSE
             /\ UNCHANGED <<startedCycle, queuedCycle>>
    <3>1. CyclesOK'
      BY <2>1, <2>4 DEF CyclesOK
    <3>2. ~suspended /\ ~hidden /\ ~disposed => startedCycle = cycle
      BY <2>4 DEF CyclesOK, ResumeOwed
    <3>3. ResumeOwed'
      BY <2>1, <2>4, <3>2 DEF ResumeOwed
    <3> QED BY <2>2, <3>1, <3>3
  <2> QED BY <1>5, <2>3, <2>4 DEF Settled
<1>6. CASE EchoEnds
  BY <1>6 DEF EchoEnds, HiddenIsSuspended, ResumeOwed, CyclesOK, pageVars, cycleVars
<1>7. CASE Dispose
  BY <1>7 DEF Dispose, HiddenIsSuspended, ResumeOwed, CyclesOK, pageVars, cycleVars
<1>8. CASE UNCHANGED resumeVars
  BY <1>8 DEF resumeVars, HiddenIsSuspended, ResumeOwed, CyclesOK, pageVars, cycleVars
<1> QED BY <1>1, <1>2, <1>3, <1>4, <1>5, <1>6, <1>7, <1>8 DEF ResumeNext

-----------------------------------------------------------------------------
\* Whatever signals come, in whatever order and however often: on a page that
\* is to be seen the last resume has been refreshed for, or the refresh for it
\* waits behind the one that runs (start and finally of resumeRecovery.ts).
THEOREM ResumeOwedAlways == ResumeSpec => []ResumeOwed
<1>1. ResumeInv /\ [ResumeNext]_resumeVars => ResumeInv'
  BY ResumeStep
<1>2. ResumeInv => ResumeOwed
  BY DEF ResumeInv
<1> QED BY ResumeInitInv, <1>1, <1>2, PTL DEF ResumeSpec

\* No refresh begins on a page that is hidden or has let go of its listeners, and
\* none begins for a cycle that has had its own (resumeRecovery.ts:38, 50, 68).
THEOREM RefreshesOnlyInSight == ResumeSpec => RefreshesInSight
<1>1. ASSUME [ResumeNext]_resumeVars
      PROVE  [startedCycle' # startedCycle =>
                ~hidden /\ ~disposed /\ startedCycle < startedCycle']_startedCycle
  <2>1. ASSUME NEW target, Refresh(target), startedCycle' # startedCycle
        PROVE  startedCycle < startedCycle'
    BY <2>1 DEF Refresh, cycleVars
  <2>2. ASSUME NEW force, Resume(force), startedCycle' # startedCycle
        PROVE  ~hidden /\ startedCycle < startedCycle'
    BY <2>1, <2>2 DEF Resume, cycleVars
  <2>3. CASE HandleVisibility
    BY <2>2, <2>3 DEF HandleVisibility, cycleVars
  <2>4. ASSUME NEW force \in BOOLEAN, ResumeSignal(force)
        PROVE  startedCycle' # startedCycle => ~hidden /\ ~disposed /\ startedCycle < startedCycle'
    BY <2>2, <2>4 DEF ResumeSignal
  <2>5. CASE Settled
    BY <2>5 DEF Settled
  <2>6. CASE TurnVisibility \/ SuspendSignal \/ EchoEnds \/ Dispose \/ UNCHANGED resumeVars
    BY <2>6 DEF TurnVisibility, SuspendSignal, EchoEnds, Dispose, resumeVars, cycleVars
  <2> QED BY <1>1, <2>3, <2>4, <2>5, <2>6 DEF ResumeNext
<1> QED BY <1>1, PTL DEF ResumeSpec, RefreshesInSight

-----------------------------------------------------------------------------
(* The session with the broker.                                             *)

\* The invariant: types, no live client but the current one and the one
\* forceReconnect is about to disconnect, and no forceReconnect outside the 30 s
\* in which no other one begins - it would forget what the first one holds.
RecoveryCools == recovery.pc # "idle" => cooling
SessionInv == SessionTypeOK /\ RecoveryCools /\ OneLiveClient

\* What Disconnect does to the links and to the handlers of a failed connect.
LEMMA DisconnectFacts ==
    ASSUME SessionTypeOK, NEW p \in PahoClients \cup {NoClient}, Disconnect(p)
    PROVE  /\ link' \in [PahoClients -> {"unused", "joining", "up", "rejoining", "closed"}]
           /\ onLost' \in [PahoClients -> {"none", "due", "half"}]
           /\ p \in PahoClients => link'[p] \in {"unused", "closed"}
           /\ \A q \in PahoClients \ {p} : link'[q] = link[q]
<1>1. CASE link[p] = "joining"
  BY <1>1 DEF Disconnect, SessionTypeOK
<1>2. CASE link[p] # "joining"
  BY <1>2 DEF Disconnect, SessionTypeOK
<1> QED BY <1>1, <1>2

\* Whether a recovery is scheduled or not, nothing is being disconnected.
LEMMA ScheduleFacts ==
    ASSUME SessionTypeOK, Schedule
    PROVE  /\ cooling' \in BOOLEAN
           /\ \/ recovery' = recovery /\ cooling' = cooling
              \/ /\ recovery' = [pc |-> "begin", old |-> NoClient]
                 /\ ~cooling /\ cooling' = TRUE
BY DEF Schedule, SessionTypeOK, NoRecovery

LEMMA CountedFacts ==
    ASSUME SessionTypeOK, NEW f \in BOOLEAN, Counted(f)
    PROVE  faults' \in 0..MaxFaults
BY FaultsAssumption DEF Counted, SessionTypeOK

-----------------------------------------------------------------------------
LEMMA SessionInitInv == SessionInit => SessionInv
<1> SUFFICES ASSUME SessionInit PROVE SessionInv
  OBVIOUS
<1>1. {connected, subscribed, cooling, shutdown} \subseteq BOOLEAN
  BY DEF SessionInit
<1>2. SessionTypeOK
  BY <1>1, FaultsAssumption DEF SessionInit, SessionTypeOK, NoRecovery
<1>3. OneLiveClient
  BY DEF SessionInit, OneLiveClient
<1>4. RecoveryCools
  BY DEF SessionInit, RecoveryCools, NoRecovery
<1> QED BY <1>2, <1>3, <1>4 DEF SessionInv

\* Types.
LEMMA SessionTypeStep ==
    ASSUME SessionTypeOK, [SessionNext]_sessionVars
    PROVE  SessionTypeOK'
<1>1. ASSUME NEW p \in PahoClients, StartClient(p) PROVE SessionTypeOK'
  BY <1>1 DEF StartClient, Joining, SessionTypeOK, flagVars, controlVars, pahoVars
<1>2. ASSUME NEW p \in PahoClients, LinkUp(p) PROVE SessionTypeOK'
  BY <1>2, CountedFacts DEF LinkUp, SessionTypeOK, flagVars, controlVars, pahoVars
<1>3. ASSUME NEW p \in PahoClients, LinkLost(p) PROVE SessionTypeOK'
  BY <1>3, CountedFacts DEF LinkLost, SessionTypeOK, flagVars, controlVars, pahoVars
<1>4. ASSUME NEW p \in PahoClients, LostConnected(p) PROVE SessionTypeOK'
  BY <1>4 DEF LostConnected, SessionTypeOK, flagVars, controlVars, pahoVars
<1>5. ASSUME NEW p \in PahoClients, LostSubscribed(p) PROVE SessionTypeOK'
  BY <1>5 DEF LostSubscribed, SessionTypeOK, flagVars, controlVars, pahoVars
<1>6. ASSUME NEW p \in PahoClients, OnConnectBegins(p) PROVE SessionTypeOK'
  BY <1>6 DEF OnConnectBegins, SessionTypeOK, flagVars, controlVars, pahoVars
<1>7. ASSUME NEW p \in PahoClients, Subscribe(p) PROVE SessionTypeOK'
  BY <1>7 DEF Subscribe, SessionTypeOK, flagVars, controlVars, pahoVars
<1>8. ASSUME NEW p \in PahoClients, SubscribeOk(p) PROVE SessionTypeOK'
  BY <1>8 DEF SubscribeOk, SessionTypeOK, flagVars, controlVars, pahoVars
<1>9. ASSUME NEW p \in PahoClients, SubscribeFails(p) PROVE SessionTypeOK'
  <2>1. faults' \in 0..MaxFaults
    BY <1>9, CountedFacts DEF SubscribeFails
  <2>2. /\ cooling' \in BOOLEAN
        /\ recovery' = recovery \/ recovery' = [pc |-> "begin", old |-> NoClient]
    BY <1>9, ScheduleFacts DEF SubscribeFails
  <2> QED
    BY <1>9, <2>1, <2>2 DEF SubscribeFails, SessionTypeOK, flagVars, controlVars, pahoVars
<1>10. CASE CoolDown
  BY <1>10 DEF CoolDown, SessionTypeOK, flagVars, controlVars, pahoVars
<1>11. CASE RecoveryBegins
  <2>1. connected' \in BOOLEAN
    BY <1>11 DEF RecoveryBegins, SessionTypeOK
  <2>2. /\ recovery' \in [pc : {"idle", "begin", "clear", "replace", "disconnect", "connect"},
                           old : PahoClients \cup {NoClient}]
        /\ recovery'.old # NoClient => recovery'.pc = "disconnect"
    BY <1>11 DEF RecoveryBegins, NoRecovery, SessionTypeOK
  <2> QED
    BY <1>11, <2>1, <2>2 DEF RecoveryBegins, SessionTypeOK, flagVars, controlVars, pahoVars
<1>12. CASE RecoveryClears
  BY <1>12 DEF RecoveryClears, SessionTypeOK, flagVars, controlVars, pahoVars
<1>13. ASSUME NEW p \in PahoClients, ReplaceClient(p) PROVE SessionTypeOK'
  BY <1>13 DEF ReplaceClient, SessionTypeOK, flagVars, controlVars, pahoVars
<1>14. CASE DisconnectOld
  BY <1>14, DisconnectFacts DEF DisconnectOld, NoRecovery, SessionTypeOK, flagVars, controlVars, pahoVars
<1>15. CASE ConnectNew
  BY <1>15 DEF ConnectNew, Joining, NoRecovery, SessionTypeOK, flagVars, controlVars, pahoVars
<1>16. CASE Tick
  BY <1>16, CountedFacts DEF Tick, SessionTypeOK, flagVars, controlVars, pahoVars
<1>17. CASE TickRecovers
  <2>1. /\ cooling' \in BOOLEAN
        /\ recovery' = recovery \/ recovery' = [pc |-> "begin", old |-> NoClient]
    BY <1>17, ScheduleFacts DEF TickRecovers
  <2> QED
    BY <1>17, <2>1 DEF TickRecovers, SessionTypeOK, flagVars, controlVars, pahoVars
<1>18. CASE ShutdownBegins
  BY <1>18 DEF ShutdownBegins, SessionTypeOK, flagVars, controlVars, pahoVars
<1>19. CASE StopperDisconnects
  BY <1>19, DisconnectFacts DEF StopperDisconnects, SessionTypeOK, flagVars, controlVars, pahoVars
<1>20. CASE StopperClears
  BY <1>20 DEF StopperClears, SessionTypeOK, flagVars, controlVars, pahoVars
<1>21. CASE WatchdogStops
  BY <1>21 DEF WatchdogStops, SessionTypeOK, flagVars, controlVars, pahoVars
<1>22. CASE UNCHANGED sessionVars
  BY <1>22 DEF SessionTypeOK, flagVars, controlVars, pahoVars, sessionVars, flagVars, controlVars, pahoVars
<1> QED
  BY <1>1, <1>2, <1>3, <1>4, <1>5, <1>6, <1>7, <1>8, <1>9, <1>10, <1>11, <1>12, <1>13, <1>14, <1>15, <1>16, <1>17, <1>18, <1>19, <1>20, <1>21, <1>22
     DEF SessionNext, Recover, Handlers, Stopping

\* A recovery begins with the cooling and ends before it.
LEMMA CoolingStep ==
    ASSUME SessionInv, [SessionNext]_sessionVars
    PROVE  RecoveryCools'
<1>1. CASE UNCHANGED <<recovery, cooling>>
  BY <1>1 DEF SessionInv, RecoveryCools
<1>2. ASSUME Schedule PROVE RecoveryCools'
  BY <1>2, ScheduleFacts DEF SessionInv, RecoveryCools
<1>3. CASE CoolDown
  BY <1>3 DEF CoolDown, RecoveryCools
<1>4. CASE Recover
  BY <1>4 DEF Recover, RecoveryBegins, RecoveryClears, ReplaceClient, DisconnectOld, ConnectNew,
              SessionInv, SessionTypeOK, RecoveryCools, NoRecovery
<1>5. ASSUME NEW p \in PahoClients, StartClient(p) \/ LinkUp(p) \/ LinkLost(p) \/ Handlers(p)
      PROVE  Schedule \/ UNCHANGED <<recovery, cooling>>
  BY <1>5 DEF StartClient, LinkUp, LinkLost, Handlers, LostConnected, LostSubscribed, OnConnectBegins,
              Subscribe, SubscribeOk, SubscribeFails
<1>6. CASE Tick \/ ShutdownBegins \/ Stopping
  BY <1>1, <1>6 DEF Tick, ShutdownBegins, Stopping, StopperDisconnects, StopperClears, WatchdogStops
<1>7. CASE TickRecovers
  BY <1>2, <1>7 DEF TickRecovers
<1>8. CASE UNCHANGED sessionVars
  BY <1>1, <1>8 DEF sessionVars
<1> QED
  BY <1>1, <1>2, <1>3, <1>4, <1>5, <1>6, <1>7, <1>8 DEF SessionNext

\* A client becomes live only as the current one, and stops being the current
\* one only in the hands of the recovery that disconnects it next.
LEMMA OneLiveStep ==
    ASSUME SessionInv, [SessionNext]_sessionVars
    PROVE  OneLiveClient'
<1> USE DEF SessionInv
<1>1. ASSUME NEW p \in PahoClients, StartClient(p) PROVE OneLiveClient'
  BY <1>1, NoClientAssumption DEF StartClient, Joining, SessionTypeOK, OneLiveClient
<1>2. ASSUME NEW p \in PahoClients, LinkUp(p) PROVE OneLiveClient'
  BY <1>2 DEF LinkUp, SessionTypeOK, OneLiveClient
<1>3. ASSUME NEW p \in PahoClients, LinkLost(p) PROVE OneLiveClient'
  BY <1>3 DEF LinkLost, SessionTypeOK, OneLiveClient
<1>4. ASSUME NEW p \in PahoClients, LostConnected(p) PROVE OneLiveClient'
  BY <1>4 DEF LostConnected, OneLiveClient, pahoVars
<1>5. ASSUME NEW p \in PahoClients, LostSubscribed(p) PROVE OneLiveClient'
  BY <1>5 DEF LostSubscribed, OneLiveClient, pahoVars
<1>6. ASSUME NEW p \in PahoClients, OnConnectBegins(p) PROVE OneLiveClient'
  BY <1>6 DEF OnConnectBegins, OneLiveClient, pahoVars
<1>7. ASSUME NEW p \in PahoClients, Subscribe(p) PROVE OneLiveClient'
  BY <1>7 DEF Subscribe, OneLiveClient, pahoVars
<1>8. ASSUME NEW p \in PahoClients, SubscribeOk(p) PROVE OneLiveClient'
  BY <1>8 DEF SubscribeOk, OneLiveClient, pahoVars
<1>9. ASSUME NEW p \in PahoClients, SubscribeFails(p) PROVE OneLiveClient'
  <2>1. \/ recovery' = recovery
        \/ recovery.pc = "idle" /\ recovery' = [pc |-> "begin", old |-> NoClient]
    BY <1>9, ScheduleFacts DEF SubscribeFails, RecoveryCools
  <2> QED
    BY <1>9, <2>1 DEF SubscribeFails, OneLiveClient, pahoVars
<1>10. CASE CoolDown
  BY <1>10 DEF CoolDown, OneLiveClient, pahoVars
<1>11. CASE RecoveryBegins
  BY <1>11 DEF RecoveryBegins, NoRecovery, SessionTypeOK, OneLiveClient, pahoVars
<1>12. CASE RecoveryClears
  BY <1>12 DEF RecoveryClears, SessionTypeOK, OneLiveClient, pahoVars
<1>13. ASSUME NEW p \in PahoClients, ReplaceClient(p) PROVE OneLiveClient'
  BY <1>13 DEF ReplaceClient, Fresh, SessionTypeOK, OneLiveClient
<1>14. CASE DisconnectOld
  BY <1>14, DisconnectFacts DEF DisconnectOld, SessionTypeOK, OneLiveClient
<1>15. CASE ConnectNew
  BY <1>15 DEF ConnectNew, Joining, SessionTypeOK, OneLiveClient
<1>16. CASE Tick
  BY <1>16 DEF Tick, OneLiveClient, pahoVars
<1>17. CASE TickRecovers
  <2>1. \/ recovery' = recovery
        \/ recovery.pc = "idle" /\ recovery' = [pc |-> "begin", old |-> NoClient]
    BY <1>17, ScheduleFacts DEF TickRecovers, RecoveryCools
  <2> QED
    BY <1>17, <2>1 DEF TickRecovers, OneLiveClient, pahoVars
<1>18. CASE ShutdownBegins
  BY <1>18 DEF ShutdownBegins, OneLiveClient, pahoVars
<1>19. CASE StopperDisconnects
  BY <1>19, DisconnectFacts DEF StopperDisconnects, SessionTypeOK, OneLiveClient
<1>20. CASE StopperClears
  BY <1>20 DEF StopperClears, OneLiveClient, pahoVars
<1>21. CASE WatchdogStops
  BY <1>21 DEF WatchdogStops, OneLiveClient, pahoVars
<1>22. CASE UNCHANGED sessionVars
  BY <1>22 DEF OneLiveClient, sessionVars, pahoVars
<1> QED
  BY <1>1, <1>2, <1>3, <1>4, <1>5, <1>6, <1>7, <1>8, <1>9, <1>10, <1>11, <1>12, <1>13, <1>14, <1>15, <1>16, <1>17, <1>18, <1>19, <1>20, <1>21, <1>22
     DEF SessionNext, Recover, Handlers, Stopping

-----------------------------------------------------------------------------
\* The types, and the one client on its way out, hold in every reachable state
\* (Client of client.go, oldClient of forceReconnect).
THEOREM SessionTypeCorrect == SessionSpec => []SessionTypeOK
<1>1. SessionInit => SessionTypeOK
  BY SessionInitInv DEF SessionInv
<1>2. SessionTypeOK /\ [SessionNext]_sessionVars => SessionTypeOK'
  BY SessionTypeStep
<1> QED BY <1>1, <1>2, PTL DEF SessionSpec

\* However recoveries, callbacks, lost connections and the shutdown interleave,
\* and however many clients are built, a replaced client is disconnected or is
\* what the running forceReconnect disconnects next.
THEOREM OneLiveClientAlways == SessionSpec => []OneLiveClient
<1>1. SessionInit => SessionInv
  BY SessionInitInv
<1>2. SessionInv /\ [SessionNext]_sessionVars => SessionInv'
  BY SessionTypeStep, CoolingStep, OneLiveStep DEF SessionInv
<1>3. SessionInv => OneLiveClient
  BY DEF SessionInv
<1> QED BY <1>1, <1>2, <1>3, PTL DEF SessionSpec

=============================================================================
