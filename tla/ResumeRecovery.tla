---------------------------- MODULE ResumeRecovery ----------------------------
(***************************************************************************)
(* Recovery after the page was suspended (web/src/resumeRecovery.ts): the   *)
(* signals of the page lifecycle, which come in any order and number, are   *)
(* coalesced into one refresh for each suspend cycle.                       *)
(***************************************************************************)
EXTENDS Integers

CONSTANT MaxCycles \* bound: suspend cycles

ASSUME CyclesAssumption == MaxCycles \in Nat

VARIABLES
    hidden,        \* document.hidden
    visibilityDue, \* hidden has changed and its event is still to come
    suspended,     \* suspended
    cycle,         \* cycle
    startedCycle,  \* startedCycle
    queuedCycle,   \* queuedCycle
    inFlight,      \* inFlight: rehydrate has not settled
    recent,        \* lastResumeAt is less than forceDedupeMs ago
    disposed       \* disposed

pageVars == <<hidden, visibilityDue>>
cycleVars == <<startedCycle, queuedCycle, inFlight>>
resumeVars == <<pageVars, suspended, cycle, cycleVars, recent, disposed>>

ResumeInit ==
    /\ hidden \in BOOLEAN
    /\ visibilityDue = FALSE
    /\ suspended = hidden
    /\ cycle = IF hidden THEN 1 ELSE 0
    /\ startedCycle = 0 /\ queuedCycle = 0
    /\ inFlight = FALSE /\ recent = FALSE /\ disposed = FALSE

-----------------------------------------------------------------------------
\* Mutant: the refresh that runs is taken to cover the resume as well.
MutRefresh(target) ==
    \/ /\ target <= startedCycle \/ inFlight
       /\ UNCHANGED cycleVars
    \/ /\ target > startedCycle /\ ~inFlight
       /\ startedCycle' = target
       /\ inFlight' = TRUE
       /\ UNCHANGED queuedCycle

\* start: begin a refresh for the cycle, or queue it behind the one that runs.
Refresh(target) ==
    \/ target <= startedCycle /\ UNCHANGED cycleVars
    \/ /\ target > startedCycle /\ inFlight
       /\ queuedCycle' = IF target > queuedCycle THEN target ELSE queuedCycle
       /\ UNCHANGED <<startedCycle, inFlight>>
    \/ /\ target > startedCycle /\ ~inFlight
       /\ startedCycle' = target
       /\ inFlight' = TRUE
       /\ UNCHANGED queuedCycle

MarkSuspended ==
    /\ suspended \/ cycle < MaxCycles
    /\ cycle' = IF suspended THEN cycle ELSE cycle + 1
    /\ suspended' = TRUE

\* resume(force): nothing while hidden, nothing when the page was not suspended -
\* unless the signal alone proves it was, and is not an echo of the last one.
Resume(force) ==
    LET unpaired == force /\ ~suspended /\ ~recent
        current == IF unpaired THEN cycle + 1 ELSE cycle
    IN  \/ /\ hidden \/ ~(suspended \/ unpaired)
           /\ UNCHANGED <<suspended, cycle, cycleVars, recent>>
        \/ /\ ~hidden /\ (suspended \/ unpaired)
           /\ current <= MaxCycles
           /\ cycle' = current
           /\ suspended' = FALSE
           /\ recent' = TRUE
           /\ Refresh(current)

-----------------------------------------------------------------------------
(* The page and its signals. *)

TurnVisibility ==
    /\ ~visibilityDue
    /\ hidden' = ~hidden
    /\ visibilityDue' = TRUE
    /\ UNCHANGED <<suspended, cycle, cycleVars, recent, disposed>>

HandleVisibility ==
    /\ visibilityDue /\ ~disposed
    /\ visibilityDue' = FALSE
    /\ \/ hidden /\ MarkSuspended /\ UNCHANGED <<cycleVars, recent>>
       \/ ~hidden /\ Resume(FALSE)
    /\ UNCHANGED <<hidden, disposed>>

\* freeze, pagehide or blur.
SuspendSignal ==
    /\ ~disposed
    /\ MarkSuspended
    /\ UNCHANGED <<pageVars, cycleVars, recent, disposed>>

\* resume or a pageshow from the cache; a plain pageshow or focus.
ResumeSignal(force) ==
    /\ ~disposed
    /\ Resume(force)
    /\ UNCHANGED <<pageVars, disposed>>

\* Mutant: what is queued is started whether the page is to be seen or not.
MutSettled ==
    /\ inFlight
    /\ \/ /\ ~disposed /\ queuedCycle > startedCycle
          /\ startedCycle' = queuedCycle /\ queuedCycle' = 0
          /\ UNCHANGED inFlight
       \/ /\ disposed \/ queuedCycle <= startedCycle
          /\ inFlight' = FALSE
          /\ UNCHANGED <<startedCycle, queuedCycle>>
    /\ UNCHANGED <<pageVars, suspended, cycle, recent, disposed>>

\* finally: the refresh is over, well or badly, and the queued one follows.
Settled ==
    /\ inFlight
    /\ \/ /\ ~disposed /\ ~hidden /\ queuedCycle > startedCycle
          /\ startedCycle' = queuedCycle /\ queuedCycle' = 0
          /\ UNCHANGED inFlight
       \/ /\ disposed \/ hidden \/ queuedCycle <= startedCycle
          /\ inFlight' = FALSE
          /\ UNCHANGED <<startedCycle, queuedCycle>>
    /\ UNCHANGED <<pageVars, suspended, cycle, recent, disposed>>

\* forceDedupeMs pass.
EchoEnds ==
    /\ recent
    /\ recent' = FALSE
    /\ UNCHANGED <<pageVars, suspended, cycle, cycleVars, disposed>>

Dispose ==
    /\ ~disposed
    /\ disposed' = TRUE
    /\ UNCHANGED <<pageVars, suspended, cycle, cycleVars, recent>>

ResumeNext ==
    \/ TurnVisibility \/ HandleVisibility \/ SuspendSignal
    \/ \E force \in BOOLEAN : ResumeSignal(force)
    \/ Settled \/ EchoEnds \/ Dispose

ResumeSpec == ResumeInit /\ [][ResumeNext]_resumeVars

-----------------------------------------------------------------------------
(* Properties. *)

\* Every variable has its type, and a suspension is a cycle of its own
\* (resumeRecovery.ts:29-35, 59-65).
ResumeTypeOK ==
    /\ {hidden, visibilityDue, suspended, inFlight, recent, disposed} \subseteq BOOLEAN
    /\ {cycle, startedCycle, queuedCycle} \subseteq Nat
    /\ startedCycle <= cycle /\ queuedCycle <= cycle
    /\ suspended => startedCycle < cycle

\* A resume is never lost: on a page that is to be seen and not suspended the
\* last cycle has been refreshed, or is queued behind the refresh that runs -
\* whatever signals came, in whatever order (resumeRecovery.ts:22-25, 37-57).
ResumeOwed ==
    ~suspended /\ ~hidden /\ ~disposed => startedCycle = cycle \/ (inFlight /\ queuedCycle = cycle)

\* No refresh begins on a page that is hidden or gone, and each begins for a
\* later cycle than the one before (resumeRecovery.ts:38, 50, 68).
RefreshesInSight ==
    [][startedCycle' # startedCycle =>
         ~hidden /\ ~disposed /\ startedCycle < startedCycle']_startedCycle

=============================================================================
