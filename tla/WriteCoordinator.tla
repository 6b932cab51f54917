--------------------------- MODULE WriteCoordinator ---------------------------
(***************************************************************************)
(* The single admission point of all runtime SQLite mutations               *)
(* (backend/internal/app/write_coordinator.go).                             *)
(*                                                                          *)
(* Callers run Do concurrently; one worker goroutine (run) collects the     *)
(* requests of the buffered channel "in" into three lane queues and         *)
(* executes them one at a time.  A request is one call of Do: the two       *)
(* selects of Do are separate steps, because the request's own context and  *)
(* the coordinator's context may be cancelled between them, and the         *)
(* worker's receive, lane choice, context check and execution are separate  *)
(* steps, because callers run between them.                                 *)
(***************************************************************************)
EXTENDS Integers, FiniteSets, Sequences

CONSTANTS
    Requests,   \* the calls of Do
    LaneOf,     \* LaneOf[r]: the lane argument of call r
    InCap,      \* capacity of the channel "in" (8192 in the code)
    Cancelable, \* the calls whose context may be cancelled or have a deadline
    Reissue,    \* TRUE: a caller that got its answer calls Do again
    NoRequest   \* "the worker holds no request"

Lanes == {"primary", "live_core", "background"}
LiveLanes == {"primary", "live_core"}

ASSUME LaneAssumption == LaneOf \in [Requests -> Lanes]
ASSUME CapAssumption == InCap \in Nat \ {0}
ASSUME CancelableAssumption == Cancelable \subseteq Requests
ASSUME ReissueAssumption == Reissue \in BOOLEAN
ASSUME NoRequestAssumption == NoRequest \notin Requests

VARIABLES
    caller,     \* where each call of Do is
    ctxDone,    \* the call's own context is cancelled or past its deadline
    result,     \* the call's result channel (capacity 1)
    in,         \* the buffered admission channel
    queues,     \* the worker's local lane queues
    nextLive,   \* the live lane whose turn it is when both have work
    worker,     \* where run() is
    current,    \* the request the worker popped
    closing,    \* the coordinator's own context is cancelled (Close)
    depth,      \* RuntimeStats: queued writes reported per lane
    commits,    \* the store: how often the call's mutation was committed
    \* History variables: read by properties only.
    admitted,   \* requests accepted into "in" whose turn has not come
    ahead,      \* ahead[r]: those admitted before r, not yet started
    seen,       \* those admitted when the previous mutation ended
    bypass      \* consecutive turns given to another lane while this one waits, up to 2

callVars == <<caller, ctxDone, result>>
workVars == <<queues, nextLive, worker, current>>
history  == <<admitted, ahead, seen, bypass>>
vars == <<callVars, in, workVars, closing, depth, commits, history>>

Returned == {"ok", "failed", "abandoned", "refused"}
CallerStates == {"idle", "offering", "waiting"} \cup Returned
WorkerStates == {"blocked", "draining", "picked", "running", "stopped"}
Results == {"none", "ok", "error", "skipped"}

-----------------------------------------------------------------------------
Init ==
    /\ caller = [r \in Requests |-> "idle"]
    /\ ctxDone = [r \in Requests |-> FALSE]
    /\ result = [r \in Requests |-> "none"]
    /\ in = <<>>
    /\ queues = [l \in Lanes |-> <<>>]
    /\ nextLive = "primary"
    /\ worker = "blocked"
    /\ current = NoRequest
    /\ closing = FALSE
    /\ depth = [l \in Lanes |-> 0]
    /\ commits = [r \in Requests |-> 0]
    /\ admitted = {}
    /\ ahead = [r \in Requests |-> {}]
    /\ seen = {}
    /\ bypass = [l \in LiveLanes |-> 0]

-----------------------------------------------------------------------------
(* The callers. *)

\* Do up to its first select.  A caller reuses its slot only once the worker
\* is done with its previous request: this bounds the outstanding requests.
Call(r) ==
    /\ \/ caller[r] = "idle"
       \/ Reissue /\ caller[r] \in Returned /\ r \notin admitted /\ current # r
    /\ caller' = [caller EXCEPT ![r] = "offering"]
    /\ ctxDone' = [ctxDone EXCEPT ![r] = FALSE]
    /\ result' = [result EXCEPT ![r] = "none"]
    /\ commits' = [commits EXCEPT ![r] = 0]
    /\ depth' = [depth EXCEPT ![LaneOf[r]] = @ + 1]
    /\ UNCHANGED <<in, workVars, closing, history>>

\* c.in <- request.  The select may choose this branch even when a context is
\* already done, and even after the worker has stopped.
Offer(r) ==
    /\ caller[r] = "offering"
    /\ Len(in) < InCap
    /\ in' = Append(in, r)
    /\ caller' = [caller EXCEPT ![r] = "waiting"]
    /\ admitted' = admitted \cup {r}
    /\ ahead' = [ahead EXCEPT ![r] = admitted]
    /\ UNCHANGED <<ctxDone, result, workVars, closing, depth, commits, seen, bypass>>

\* Mutant: RecordWriterCanceled is forgotten.
MutRefusedStillCounted(r) ==
    /\ caller[r] = "offering"
    /\ ctxDone[r] \/ closing
    /\ caller' = [caller EXCEPT ![r] = "refused"]
    /\ UNCHANGED <<ctxDone, result, in, workVars, closing, depth, commits, history>>

\* Either context is done before the request is admitted.
OfferRefused(r) ==
    /\ caller[r] = "offering"
    /\ ctxDone[r] \/ closing
    /\ caller' = [caller EXCEPT ![r] = "refused"]
    /\ depth' = [depth EXCEPT ![LaneOf[r]] = @ - 1]
    /\ UNCHANGED <<ctxDone, result, in, workVars, closing, commits, history>>

\* err := <-request.result
Answer(res) == CASE res = "ok" -> "ok" [] res = "error" -> "failed" [] OTHER -> "abandoned"

Receive(r) ==
    /\ caller[r] = "waiting"
    /\ result[r] # "none"
    /\ caller' = [caller EXCEPT ![r] = Answer(result[r])]
    /\ UNCHANGED <<ctxDone, result, in, workVars, closing, depth, commits, history>>

\* Mutant: the second select lacks the coordinator's own context.
MutAbandonOwnContextOnly(r) ==
    /\ caller[r] = "waiting"
    /\ ctxDone[r]
    /\ caller' = [caller EXCEPT ![r] = "abandoned"]
    /\ UNCHANGED <<ctxDone, result, in, workVars, closing, depth, commits, history>>

\* Either context is done first: Do returns while its request may still be
\* queued or even running, so the caller does not know the outcome.
Abandon(r) ==
    /\ caller[r] = "waiting"
    /\ ctxDone[r] \/ closing
    /\ caller' = [caller EXCEPT ![r] = "abandoned"]
    /\ UNCHANGED <<ctxDone, result, in, workVars, closing, depth, commits, history>>

\* The environment cancels the context of a call in progress.
CancelContext(r) ==
    /\ r \in Cancelable
    /\ caller[r] \in {"offering", "waiting"}
    /\ ~ctxDone[r]
    /\ ctxDone' = [ctxDone EXCEPT ![r] = TRUE]
    /\ UNCHANGED <<caller, result, in, workVars, closing, depth, commits, history>>

\* Close cancels the coordinator's context; it returns when worker = "stopped".
Close ==
    /\ ~closing
    /\ closing' = TRUE
    /\ UNCHANGED <<callVars, in, workVars, depth, commits, history>>

-----------------------------------------------------------------------------
(* The worker goroutine. *)

QueuesEmpty == \A l \in Lanes : queues[l] = <<>>

\* Mutant: the newest request of a lane goes first.
MutPushFront ==
    /\ in # <<>>
    /\ queues' = [queues EXCEPT ![LaneOf[Head(in)]] = <<Head(in)>> \o @]
    /\ in' = Tail(in)
    /\ UNCHANGED <<callVars, nextLive, current, closing, depth, commits, history>>

\* Mutant: the lane's queue is assigned instead of appended to.
MutOverwriteQueue ==
    /\ in # <<>>
    /\ queues' = [queues EXCEPT ![LaneOf[Head(in)]] = <<Head(in)>>]
    /\ in' = Tail(in)
    /\ UNCHANGED <<callVars, nextLive, current, closing, depth, commits, history>>

MoveHeadOfIn ==
    /\ in # <<>>
    /\ queues' = [queues EXCEPT ![LaneOf[Head(in)]] = Append(@, Head(in))]
    /\ in' = Tail(in)
    /\ UNCHANGED <<callVars, nextLive, current, closing, depth, commits, history>>

\* With nothing queued, run blocks on its context and "in".
Wake == worker = "blocked" /\ worker' = "draining" /\ MoveHeadOfIn

Stop ==
    /\ worker = "blocked"
    /\ closing
    /\ worker' = "stopped"
    /\ UNCHANGED <<callVars, in, queues, nextLive, current, closing, depth, commits, history>>

\* One iteration of the non-blocking collection loop.
Drain == worker = "draining" /\ worker' = "draining" /\ MoveHeadOfIn

\* Mutant: the collection loop is cut short.
MutDrainSome ==
    /\ worker = "draining"
    /\ worker' = "picked"
    /\ ~QueuesEmpty
    /\ UNCHANGED <<callVars, in, queues, nextLive, current, closing, depth, commits, history>>

\* The collection loop found "in" empty.
DrainDone ==
    /\ worker = "draining"
    /\ in = <<>>
    /\ worker' = "picked"
    /\ UNCHANGED <<callVars, in, queues, nextLive, current, closing, depth, commits, history>>

Other(l) == IF l = "primary" THEN "live_core" ELSE "primary"

\* Mutant: strict priority instead of alternation.
MutPrimaryFirst ==
    IF queues["primary"] # <<>> THEN "primary"
    ELSE IF queues["live_core"] # <<>> THEN "live_core" ELSE "background"

NextLane ==
    LET hasWork == {l \in LiveLanes : queues[l] # <<>>}
    IN  CASE hasWork = LiveLanes -> nextLive
          [] hasWork = {"primary"} -> "primary"
          [] hasWork = {"live_core"} -> "live_core"
          [] OTHER -> "background"

\* Choose a lane, pop its head and report it started.
Pick ==
    LET lane == NextLane
        r == Head(queues[lane])
    IN  /\ worker = "picked" /\ current = NoRequest
        /\ queues[lane] # <<>>
        /\ current' = r
        /\ queues' = [queues EXCEPT ![lane] = Tail(@)]
        /\ nextLive' = IF lane \in LiveLanes THEN Other(lane) ELSE nextLive
        /\ depth' = [depth EXCEPT ![lane] = @ - 1]
        /\ admitted' = admitted \ {r}
        /\ ahead' = [q \in Requests |-> ahead[q] \ {r}]
        /\ bypass' = [l \in LiveLanes |->
                        IF l = lane \/ queues[l] = <<>> THEN 0
                        ELSE IF bypass[l] < 2 THEN bypass[l] + 1 ELSE 2]
        /\ UNCHANGED <<callVars, in, worker, closing, commits, seen>>

\* request.ctx.Err() == nil: the mutation starts.
Start ==
    /\ worker = "picked" /\ current # NoRequest
    /\ ~ctxDone[current]
    /\ worker' = "running"
    /\ UNCHANGED <<callVars, in, queues, nextLive, current, closing, depth, commits, history>>

\* request.result <- err, then back to the head of the loop.
Reply(res) ==
    /\ result' = [result EXCEPT ![current] = res]
    /\ current' = NoRequest
    /\ worker' = IF QueuesEmpty THEN "blocked" ELSE "draining"
    /\ seen' = admitted
    /\ UNCHANGED <<caller, ctxDone, in, queues, nextLive, closing, depth, admitted, ahead, bypass>>

\* Mutant: the context's error is shadowed and nil is sent.
MutSkipSaysOk ==
    /\ worker = "picked" /\ current # NoRequest
    /\ ctxDone[current]
    /\ Reply("ok")
    /\ UNCHANGED commits

Skip ==
    /\ worker = "picked" /\ current # NoRequest
    /\ ctxDone[current]
    /\ Reply("skipped")
    /\ UNCHANGED commits

\* fn(request.ctx) returns: it committed and said so, it failed without
\* committing, or the store committed and yet reported a transient error.
Commit ==
    /\ worker = "running"
    /\ commits' = [commits EXCEPT ![current] = @ + 1]
    /\ \/ Reply("ok")
       \/ Reply("error")

Fail ==
    /\ worker = "running"
    /\ Reply("error")
    /\ UNCHANGED commits

-----------------------------------------------------------------------------
CallerStep(r) == Offer(r) \/ OfferRefused(r) \/ Receive(r) \/ Abandon(r)
WorkerStep == Wake \/ Stop \/ Drain \/ DrainDone \/ Pick \/ Start \/ Skip \/ Commit \/ Fail

Next ==
    \/ \E r \in Requests : Call(r) \/ CallerStep(r) \/ CancelContext(r)
    \/ Close
    \/ WorkerStep

Spec == Init /\ [][Next]_vars

\* A runnable goroutine eventually runs and a mutation eventually returns
\* (store writes are bounded by SQLite's busy timeout).  Nobody is obliged to
\* call Do, to cancel a context or to call Close.
Fairness == WF_vars(WorkerStep) /\ \A r \in Requests : WF_vars(CallerStep(r))
FairSpec == Spec /\ Fairness

-----------------------------------------------------------------------------
(* Properties. *)

\* Every variable has its type; the admission channel never exceeds its
\* capacity (the make(chan ..., 8192) of newStoreWriteCoordinator).
TypeOK ==
    /\ caller \in [Requests -> CallerStates]
    /\ ctxDone \in [Requests -> BOOLEAN]
    /\ result \in [Requests -> Results]
    /\ in \in Seq(Requests)
    /\ Len(in) <= InCap
    /\ queues \in [Lanes -> Seq(Requests)]
    /\ nextLive \in LiveLanes
    /\ worker \in WorkerStates
    /\ current \in Requests \cup {NoRequest}
    /\ closing \in BOOLEAN
    /\ depth \in [Lanes -> Int]
    /\ commits \in [Requests -> Nat]
    /\ admitted \in SUBSET Requests
    /\ ahead \in [Requests -> SUBSET Requests]
    /\ seen \in SUBSET Requests
    /\ bypass \in [LiveLanes -> Nat]

\* What a caller may conclude from Do's answer: success means the mutation is
\* durable, refusal means it is not and never will be, and a retry loop that
\* calls Do again never doubles the previous call (at most one execution each).
OutcomeHonest ==
    \A r \in Requests :
        /\ commits[r] <= 1
        /\ caller[r] = "ok" => commits[r] = 1
        /\ caller[r] = "refused" => commits[r] = 0 /\ r \notin admitted /\ current # r
        /\ result[r] = "skipped" => commits[r] = 0

\* No admitted request is lost, duplicated or filed under another lane: until
\* its turn it is in exactly one place, either the channel or its lane queue.
Occurs(s, r) == \E i \in 1..Len(s) : s[i] = r
Injective(s) == \A i, j \in 1..Len(s) : s[i] = s[j] => i = j

Placement ==
    /\ Injective(in)
    /\ \A l \in Lanes : Injective(queues[l])
    /\ \A r \in Requests :
        /\ r \in admitted <=> Occurs(in, r) \/ Occurs(queues[LaneOf[r]], r)
        /\ ~(Occurs(in, r) /\ Occurs(queues[LaneOf[r]], r))
        /\ \A l \in Lanes \ {LaneOf[r]} : ~Occurs(queues[l], r)

\* Alternation: while a live lane has queued work, at most one request of
\* another lane is started before one of its own.
AlternationBound == \A l \in LiveLanes : bypass[l] <= 1

\* The queue depth that readiness and metrics report is exact: one per call
\* that is offering its request or whose admitted request has not started.
DepthAccurate ==
    \A l \in Lanes :
        depth[l] = Cardinality({r \in Requests :
                       LaneOf[r] = l /\ (caller[r] = "offering" \/ r \in admitted)})

Starts(r) == current # r /\ current' = r

\* Requests of one lane start in the order they were admitted.
LaneFifo ==
    [][\A r \in Requests : Starts(r) =>
           \A q \in ahead[r] : LaneOf[q] # LaneOf[r]]_vars

\* A background mutation never starts ahead of live work that was already
\* admitted when the previous mutation ended, wherever that work was waiting.
BackgroundYields ==
    [][\A r \in Requests : (Starts(r) /\ LaneOf[r] = "background") =>
           \A q \in seen \cap admitted : LaneOf[q] \notin LiveLanes]_vars

(* The inductive strengthening of the safety properties (see the proofs). *)

\* Where a call can be while its request is admitted, running or done.
Progress ==
    /\ worker = "running" => current \in Requests
    /\ worker \in {"blocked", "draining", "stopped"} => current = NoRequest
    /\ current \notin admitted
    /\ \A r \in Requests :
        /\ r \in admitted \/ current = r =>
              /\ caller[r] \in {"waiting", "abandoned"}
              /\ result[r] = "none" /\ commits[r] = 0
        /\ caller[r] \in {"idle", "offering", "refused"} => commits[r] = 0 /\ result[r] = "none"
        /\ caller[r] = "ok" => result[r] = "ok"
        /\ result[r] = "ok" => commits[r] = 1
        /\ result[r] = "skipped" => commits[r] = 0
        /\ commits[r] <= 1

\* The channel and the queues keep the order of admission.
Order ==
    /\ \A r \in Requests : ahead[r] \subseteq admitted
    /\ \A i, j \in 1..Len(in) : i <= j => in[j] \notin ahead[in[i]]
    /\ \A l \in Lanes : \A i, j \in 1..Len(queues[l]) :
          i <= j => queues[l][j] \notin ahead[queues[l][i]]
    /\ \A l \in Lanes : \A i \in 1..Len(queues[l]), j \in 1..Len(in) :
          in[j] \notin ahead[queues[l][i]]

\* What was admitted when the last mutation ended is collected before a turn.
Collected ==
    current = NoRequest =>
        /\ seen \subseteq admitted
        /\ worker = "picked" => \A q \in seen : ~Occurs(in, q)

\* A live lane that was passed over has the next turn.
Turns == \A l \in LiveLanes : bypass[l] = 0 \/ (bypass[l] = 1 /\ nextLive = l)

\* The invariant of write_coordinator.go that implies all of the above.
IInv == TypeOK /\ Placement /\ Progress /\ Order /\ Collected /\ Turns

\* No call on a live lane waits for ever behind other traffic, even with every
\* other caller calling again and again and background work always queued.
LiveLaneServed ==
    \A r \in Requests :
        (caller[r] = "waiting" /\ LaneOf[r] \in LiveLanes) ~> caller[r] # "waiting"

\* Close completes once no new call is made (context.Canceled, its answer, is
\* not retried by retryStoreWriteLane): the worker drains and stops, and nobody
\* stays in Do.
ShutdownCompletes ==
    <>[][\A r \in Requests : ~Call(r)]_vars =>
        (closing ~> /\ worker = "stopped"
                    /\ \A r \in Requests : caller[r] \notin {"offering", "waiting"})

=============================================================================
