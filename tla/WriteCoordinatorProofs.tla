------------------------ MODULE WriteCoordinatorProofs ------------------------
(***************************************************************************)
(* Proofs about WriteCoordinator for every set of requests, every lane      *)
(* assignment and every channel capacity.                                   *)
(***************************************************************************)
EXTENDS WriteCoordinator, FiniteSetTheorems, TLAPS

(* What Append does to a sequence, in the form the steps below use. *)
LEMMA AppendFacts ==
  ASSUME NEW S, NEW s \in Seq(S), NEW x \in S
  PROVE  /\ Append(s, x) \in Seq(S)
         /\ Len(Append(s, x)) = Len(s) + 1
         /\ \A i \in 1..Len(s) : Append(s, x)[i] = s[i]
         /\ Append(s, x)[Len(s) + 1] = x
         /\ \A r : Occurs(Append(s, x), r) <=> Occurs(s, r) \/ r = x
         /\ Injective(s) /\ ~Occurs(s, x) => Injective(Append(s, x))
  BY DEF Occurs, Injective

(* What removing the head of a sequence does. *)
LEMMA TailFacts ==
  ASSUME NEW S, NEW s \in Seq(S), s # <<>>
  PROVE  /\ Head(s) \in S
         /\ Head(s) = s[1]
         /\ Len(s) \in Nat \ {0}
         /\ Tail(s) \in Seq(S)
         /\ Len(Tail(s)) = Len(s) - 1
         /\ \A i \in 1..(Len(s) - 1) : Tail(s)[i] = s[i + 1]
         /\ \A r : Occurs(s, r) <=> Occurs(Tail(s), r) \/ r = Head(s)
         /\ Injective(s) => ~Occurs(Tail(s), Head(s)) /\ Injective(Tail(s))
  <1>1. /\ Head(s) \in S
        /\ Head(s) = s[1]
        /\ Len(s) \in Nat \ {0}
        /\ Tail(s) \in Seq(S)
        /\ Len(Tail(s)) = Len(s) - 1
        /\ \A i \in 1..(Len(s) - 1) : Tail(s)[i] = s[i + 1]
    OBVIOUS
  <1>2. ASSUME NEW r, Occurs(s, r) PROVE Occurs(Tail(s), r) \/ r = Head(s)
    <2>1. PICK i \in 1..Len(s) : s[i] = r
      BY <1>2 DEF Occurs
    <2>2. CASE i = 1
      BY <1>1, <2>1, <2>2
    <2>3. CASE i # 1
      <3>1. i - 1 \in 1..Len(Tail(s)) /\ Tail(s)[i - 1] = s[i]
        BY <1>1, <2>3
      <3>2. QED BY <3>1, <2>1 DEF Occurs
    <2>4. QED BY <2>2, <2>3
  <1>3. ASSUME NEW r, Occurs(Tail(s), r) \/ r = Head(s) PROVE Occurs(s, r)
    <2>1. CASE r = Head(s)
      BY <1>1, <2>1 DEF Occurs
    <2>2. CASE Occurs(Tail(s), r)
      <3>1. PICK i \in 1..Len(Tail(s)) : Tail(s)[i] = r
        BY <2>2 DEF Occurs
      <3>2. i + 1 \in 1..Len(s) /\ s[i + 1] = r
        BY <1>1, <3>1
      <3>3. QED BY <3>2 DEF Occurs
    <2>3. QED BY <1>3, <2>1, <2>2
  <1>4. ASSUME Injective(s) PROVE ~Occurs(Tail(s), Head(s)) /\ Injective(Tail(s))
    BY <1>1, <1>4 DEF Occurs, Injective
  <1>5. QED BY <1>1, <1>2, <1>3, <1>4

(* The worker's choice of lane and request, with its effects spelled out. *)
PickOf(lane, r) ==
    /\ queues[lane] # <<>>
    /\ r = Head(queues[lane])
    /\ worker = "picked" /\ current = NoRequest
    /\ current' = r
    /\ queues' = [queues EXCEPT ![lane] = Tail(@)]
    /\ nextLive' = IF lane \in LiveLanes THEN Other(lane) ELSE nextLive
    /\ depth' = [depth EXCEPT ![lane] = @ - 1]
    /\ admitted' = admitted \ {r}
    /\ ahead' = [q \in Requests |-> ahead[q] \ {r}]
    /\ bypass' = [l \in LiveLanes |->
                    IF l = lane \/ queues[l] = <<>> THEN 0
                    ELSE IF bypass[l] < 2 THEN bypass[l] + 1 ELSE 2]
    /\ UNCHANGED <<callVars, in, worker, closing, commits, seen>>

LEMMA PickFacts ==
  ASSUME TypeOK, Pick
  PROVE  \E lane \in Lanes, r \in Requests : lane = NextLane /\ PickOf(lane, r)
  <1> DEFINE lane == NextLane
  <1>1. lane \in Lanes
    BY DEF NextLane, Lanes, LiveLanes, TypeOK
  <1>2. queues[lane] \in Seq(Requests) /\ queues[lane] # <<>>
    BY <1>1 DEF TypeOK, Pick
  <1>3. Head(queues[lane]) \in Requests
    BY <1>2
  <1>4. PickOf(lane, Head(queues[lane]))
    BY <1>1, <1>2 DEF Pick, PickOf
  <1>5. QED BY <1>1, <1>3, <1>4

(* Every step keeps the types. *)
LEMMA TypeStep ==
  ASSUME TypeOK, [Next]_vars PROVE TypeOK'
  <1> USE LaneAssumption, CapAssumption, CancelableAssumption,
          ReissueAssumption, NoRequestAssumption
      DEF Lanes, LiveLanes, LaneAssumption, CapAssumption, CancelableAssumption,
          ReissueAssumption, NoRequestAssumption
  <1> USE DEF TypeOK, CallerStates, WorkerStates, Results, Returned,
          workVars, history, callVars
  <1>1. ASSUME NEW r \in Requests, Call(r) PROVE TypeOK'
    BY <1>1, SMTT(20) DEF Call
  <1>2. ASSUME NEW r \in Requests, Offer(r) PROVE TypeOK'
    BY <1>2 DEF Offer
  <1>3. ASSUME NEW r \in Requests, OfferRefused(r) PROVE TypeOK'
    BY <1>3, SMTT(20) DEF OfferRefused
  <1>4. ASSUME NEW r \in Requests, Receive(r) PROVE TypeOK'
    BY <1>4 DEF Receive, Answer
  <1>5. ASSUME NEW r \in Requests, Abandon(r) PROVE TypeOK'
    BY <1>5 DEF Abandon
  <1>6. ASSUME NEW r \in Requests, CancelContext(r) PROVE TypeOK'
    BY <1>6 DEF CancelContext
  <1>7. CASE Close
    BY <1>7 DEF Close
  <1>8. CASE Wake \/ Drain
    <2>1. MoveHeadOfIn /\ worker' = "draining"
      BY <1>8 DEF Wake, Drain
    <2>2. Head(in) \in Requests /\ Tail(in) \in Seq(Requests) /\ Len(Tail(in)) <= InCap
      BY <2>1 DEF MoveHeadOfIn
    <2>3. queues' \in [Lanes -> Seq(Requests)]
      BY <2>1, <2>2, SMTT(20) DEF MoveHeadOfIn
    <2>4. QED BY <2>1, <2>2, <2>3 DEF MoveHeadOfIn
  <1>9. CASE Stop \/ DrainDone
    BY <1>9 DEF Stop, DrainDone
  <1>10. CASE Pick
    <2>1. PICK lane \in Lanes, r \in Requests : PickOf(lane, r)
      BY <1>10, PickFacts
    <2>2. queues[lane] \in Seq(Requests) /\ Tail(queues[lane]) \in Seq(Requests)
      BY <2>1 DEF PickOf
    <2>3. queues' \in [Lanes -> Seq(Requests)]
      BY <2>1, <2>2 DEF PickOf
    <2>n. depth[lane] - 1 \in Int
      OBVIOUS
    <2>a. depth' \in [Lanes -> Int]
      BY <2>1, <2>n DEF PickOf
    <2>b. \A l \in LiveLanes : bypass[l] + 1 \in Nat
      OBVIOUS
    <2>4. bypass' \in [LiveLanes -> Nat]
      BY <2>1, <2>b DEF PickOf
    <2>5. ahead' \in [Requests -> SUBSET Requests] /\ admitted' \in SUBSET Requests
      BY <2>1 DEF PickOf
    <2>6. QED BY <2>1, <2>3, <2>a, <2>4, <2>5 DEF PickOf, Other
  <1>11. CASE Start
    BY <1>11 DEF Start
  <1>12. CASE Skip
    BY <1>12 DEF Skip, Reply
  <1>13. CASE Commit
    <2>n. \A r \in Requests : commits[r] + 1 \in Nat
      OBVIOUS
    <2>1. commits' \in [Requests -> Nat]
      BY <1>13, <2>n DEF Commit
    <2>2. QED BY <1>13, <2>1 DEF Commit, Reply
  <1>14. CASE Fail
    BY <1>14 DEF Fail, Reply
  <1>15. CASE UNCHANGED vars
    BY <1>15 DEF vars
  <1>16. QED
    BY <1>1, <1>2, <1>3, <1>4, <1>5, <1>6, <1>7, <1>8, <1>9, <1>10, <1>11,
       <1>12, <1>13, <1>14, <1>15 DEF Next, CallerStep, WorkerStep

(* A fresh coordinator has well-typed, empty queues. *)
LEMMA TypeInit == Init => TypeOK
  <1> SUFFICES ASSUME Init PROVE TypeOK
    OBVIOUS
  <1> USE LaneAssumption, CapAssumption, NoRequestAssumption
      DEF Init, Lanes, LiveLanes, LaneAssumption, CapAssumption, NoRequestAssumption
  <1>1. queues \in [Lanes -> Seq(Requests)]
    OBVIOUS
  <1>2. in \in Seq(Requests) /\ Len(in) <= InCap
    OBVIOUS
  <1>3. current \in Requests \cup {NoRequest} /\ nextLive \in LiveLanes
    OBVIOUS
  <1>4. bypass \in [LiveLanes -> Nat] /\ depth \in [Lanes -> Int]
    OBVIOUS
  <1>5. QED
    BY <1>1, <1>2, <1>3, <1>4
    DEF TypeOK, CallerStates, WorkerStates, Results, Returned

(* The channel, the queues, the counters and the statuses keep their types. *)
THEOREM TypeCorrect == Spec => []TypeOK
  BY TypeInit, TypeStep, PTL DEF Spec

-----------------------------------------------------------------------------
(* The steps as the conjuncts about the channel and the queues see them.    *)
LEMMA StepCases ==
  ASSUME TypeOK, [Next]_vars
  PROVE  \/ \E r \in Requests : Offer(r)
         \/ MoveHeadOfIn /\ worker \in {"blocked", "draining"} /\ worker' = "draining"
         \/ \E lane \in Lanes, r \in Requests : lane = NextLane /\ PickOf(lane, r)
         \/ UNCHANGED <<in, queues, nextLive, admitted, ahead, bypass>>
  <1>1. CASE Next
    <2>1. CASE \E r \in Requests : Call(r) \/ OfferRefused(r) \/ Receive(r)
                                   \/ Abandon(r) \/ CancelContext(r)
      BY <2>1 DEF Call, OfferRefused, Receive, Abandon, CancelContext, workVars, history
    <2>2. CASE Wake \/ Drain
      BY <2>2 DEF Wake, Drain
    <2>3. CASE Close \/ Stop \/ DrainDone \/ Start \/ Skip \/ Commit \/ Fail
      BY <2>3 DEF Close, Stop, DrainDone, Start, Skip, Commit, Fail, Reply, workVars, history
    <2>4. CASE Pick
      BY <2>4, PickFacts
    <2>5. QED BY <1>1, <2>1, <2>2, <2>3, <2>4 DEF Next, CallerStep, WorkerStep
  <1>2. CASE UNCHANGED vars
    BY <1>2 DEF vars, workVars, history
  <1>3. QED BY <1>1, <1>2

(* A request that is being offered is not admitted yet. *)
LEMMA OfferIsNew ==
  ASSUME Progress, NEW r \in Requests, Offer(r) PROVE r \notin admitted
  BY DEF Progress, Offer

(* A request moves from the channel to its lane's queue to the worker, never twice. *)
LEMMA PlacementStep ==
  ASSUME TypeOK, Placement, Progress, [Next]_vars PROVE Placement'
  <1> USE LaneAssumption DEF LaneAssumption
  <1>1. ASSUME NEW r \in Requests, Offer(r) PROVE Placement'
    <2>1. in \in Seq(Requests) /\ in' = Append(in, r) /\ queues' = queues
          /\ admitted' = admitted \cup {r} /\ r \notin admitted
      BY <1>1, OfferIsNew DEF Offer, TypeOK, workVars
    <2>2. ~Occurs(in, r) /\ \A l \in Lanes : ~Occurs(queues[l], r)
      BY <2>1 DEF Placement
    <2>3. /\ \A q : Occurs(in', q) <=> Occurs(in, q) \/ q = r
          /\ Injective(in')
      BY <2>1, <2>2, AppendFacts DEF Placement
    <2>4. QED BY <2>1, <2>2, <2>3 DEF Placement
  <1>2. CASE MoveHeadOfIn
    <2> DEFINE h == Head(in)
               L == LaneOf[h]
    <2>1. in \in Seq(Requests) /\ in # <<>> /\ in' = Tail(in) /\ admitted' = admitted
          /\ queues' = [queues EXCEPT ![L] = Append(@, h)]
      BY <1>2 DEF MoveHeadOfIn, TypeOK, history
    <2>2. /\ h \in Requests
          /\ \A q : Occurs(in, q) <=> Occurs(in', q) \/ q = h
          /\ ~Occurs(in', h) /\ Injective(in')
      BY <2>1, TailFacts DEF Placement
    <2>3. L \in Lanes /\ queues[L] \in Seq(Requests) /\ queues \in [Lanes -> Seq(Requests)]
      BY <2>2 DEF TypeOK
    <2>4. \A l \in Lanes : ~Occurs(queues[l], h)
      BY <2>2 DEF Placement
    <2>5. queues'[L] = Append(queues[L], h) /\ \A l \in Lanes \ {L} : queues'[l] = queues[l]
      BY <2>1, <2>3
    <2>6. /\ \A q : Occurs(queues'[L], q) <=> Occurs(queues[L], q) \/ q = h
          /\ Injective(queues'[L])
      BY <2>2, <2>3, <2>4, <2>5, AppendFacts DEF Placement
    <2>7. \A l \in Lanes : Injective(queues'[l])
      BY <2>5, <2>6 DEF Placement
    <2>8. \A q \in Requests, l \in Lanes :
             Occurs(queues'[l], q) <=> Occurs(queues[l], q) \/ (l = L /\ q = h)
      BY <2>5, <2>6
    <2> HIDE DEF h
    <2>9. QED BY <2>1, <2>2, <2>3, <2>4, <2>7, <2>8 DEF Placement
  <1>3. ASSUME NEW lane \in Lanes, NEW r \in Requests, PickOf(lane, r) PROVE Placement'
    <2>1. queues[lane] \in Seq(Requests) /\ queues[lane] # <<>> /\ r = Head(queues[lane])
          /\ queues \in [Lanes -> Seq(Requests)]
          /\ queues' = [queues EXCEPT ![lane] = Tail(@)]
          /\ in' = in /\ admitted' = admitted \ {r}
      BY <1>3 DEF PickOf, TypeOK
    <2>2. queues'[lane] = Tail(queues[lane]) /\ \A l \in Lanes \ {lane} : queues'[l] = queues[l]
      BY <2>1
    <2>3. /\ \A q : Occurs(queues[lane], q) <=> Occurs(queues'[lane], q) \/ q = r
          /\ ~Occurs(queues'[lane], r) /\ Injective(queues'[lane])
      BY <2>1, <2>2, TailFacts DEF Placement
    <2>4. \A l \in Lanes : Injective(queues'[l])
      BY <2>2, <2>3 DEF Placement
    <2>5. \A q \in Requests, l \in Lanes :
             Occurs(queues'[l], q) <=> Occurs(queues[l], q) /\ ~(l = lane /\ q = r)
      BY <2>2, <2>3
    <2>6. LaneOf[r] = lane /\ ~Occurs(in, r)
      BY <2>3 DEF Placement
    <2>7. QED BY <2>1, <2>4, <2>5, <2>6 DEF Placement
  <1>4. CASE UNCHANGED <<in, queues, nextLive, admitted, ahead, bypass>>
    BY <1>4 DEF Placement
  <1>5. QED BY <1>1, <1>2, <1>3, <1>4, StepCases

(* Whatever is in the channel or in a queue is admitted. *)
LEMMA PlacedIsAdmitted ==
  ASSUME TypeOK, Placement
  PROVE  /\ \A i \in 1..Len(in) : in[i] \in admitted
         /\ \A l \in Lanes : \A i \in 1..Len(queues[l]) : queues[l][i] \in admitted
  <1>1. ASSUME NEW i \in 1..Len(in) PROVE in[i] \in admitted
    BY DEF TypeOK, Placement, Occurs
  <1>2. ASSUME NEW l \in Lanes, NEW i \in 1..Len(queues[l]) PROVE queues[l][i] \in admitted
    <2>1. queues[l] \in Seq(Requests) /\ queues[l][i] \in Requests
      BY DEF TypeOK
    <2>2. Occurs(queues[l], queues[l][i])
      BY DEF Occurs
    <2>3. QED BY <2>1, <2>2 DEF Placement
  <1>3. QED BY <1>1, <1>2

(* Offer appends, the worker moves heads to tails and pops heads: order is kept. *)
LEMMA OrderStep ==
  ASSUME TypeOK, Placement, Progress, Order, [Next]_vars PROVE Order'
  <1>1. ASSUME NEW r \in Requests, Offer(r) PROVE Order'
    <2>1. /\ in \in Seq(Requests) /\ in' = Append(in, r) /\ queues' = queues
          /\ admitted' = admitted \cup {r} /\ r \notin admitted
          /\ ahead' = [ahead EXCEPT ![r] = admitted] /\ ahead \in [Requests -> SUBSET Requests]
      BY <1>1, OfferIsNew DEF Offer, TypeOK, workVars
    <2>2. ahead'[r] = admitted /\ \A q \in admitted : q # r /\ ahead'[q] = ahead[q]
      BY <2>1 DEF TypeOK
    <2>3. /\ Len(in') = Len(in) + 1 /\ Len(in) \in Nat
          /\ in'[Len(in) + 1] = r
          /\ \A i \in 1..Len(in) : in'[i] = in[i]
      BY <2>1, AppendFacts
    <2>4. \A q \in Requests : ahead'[q] \subseteq admitted'
      BY <2>1 DEF Order
    <2>5. ASSUME NEW i \in 1..Len(in'), NEW j \in 1..Len(in'), i <= j
          PROVE  in'[j] \notin ahead'[in'[i]]
      <3>1. CASE j \in 1..Len(in)
        <4>1. i \in 1..Len(in)
          BY <2>3, <2>5, <3>1
        <4>2. QED BY <2>2, <2>3, <3>1, <4>1, <2>5, PlacedIsAdmitted DEF Order
      <3>2. CASE j = Len(in) + 1
        <4>1. CASE i = j
          BY <2>1, <2>2, <2>3, <3>2, <4>1
        <4>2. CASE i \in 1..Len(in)
          BY <2>1, <2>2, <2>3, <3>2, <4>2, PlacedIsAdmitted DEF Order, TypeOK
        <4>3. QED BY <2>3, <2>5, <3>2, <4>1, <4>2
      <3>3. QED BY <2>3, <3>1, <3>2
    <2>6. ASSUME NEW l \in Lanes, NEW i \in 1..Len(queues[l]), NEW j \in 1..Len(queues[l]), i <= j
          PROVE  queues[l][j] \notin ahead'[queues[l][i]]
      BY <2>2, <2>6, PlacedIsAdmitted DEF Order
    <2>7. ASSUME NEW l \in Lanes, NEW i \in 1..Len(queues[l]), NEW j \in 1..Len(in')
          PROVE  in'[j] \notin ahead'[queues[l][i]]
      <3>1. queues[l][i] \in admitted /\ queues[l][i] \in Requests
        BY PlacedIsAdmitted DEF TypeOK
      <3>2. CASE j \in 1..Len(in)
        BY <2>2, <2>3, <3>1, <3>2 DEF Order
      <3>3. CASE j = Len(in) + 1
        BY <2>1, <2>2, <2>3, <3>1, <3>3 DEF Order
      <3>4. QED BY <2>3, <3>2, <3>3
    <2>8. QED BY <2>1, <2>4, <2>5, <2>6, <2>7 DEF Order
  <1>2. CASE MoveHeadOfIn
    <2> DEFINE h == Head(in)
               L == LaneOf[h]
    <2>1. in \in Seq(Requests) /\ in # <<>> /\ in' = Tail(in)
          /\ admitted' = admitted /\ ahead' = ahead
          /\ queues' = [queues EXCEPT ![L] = Append(@, h)]
      BY <1>2 DEF MoveHeadOfIn, TypeOK, history
    <2>2. /\ h \in Requests /\ h = in[1] /\ Len(in) \in Nat \ {0}
          /\ Len(in') = Len(in) - 1
          /\ \A i \in 1..Len(in') : in'[i] = in[i + 1] /\ i + 1 \in 1..Len(in)
      BY <2>1, TailFacts
    <2>3. L \in Lanes /\ queues[L] \in Seq(Requests) /\ queues \in [Lanes -> Seq(Requests)]
      BY <2>2, LaneAssumption DEF TypeOK, LaneAssumption
    <2>4. queues'[L] = Append(queues[L], h) /\ \A l \in Lanes \ {L} : queues'[l] = queues[l]
      BY <2>1, <2>3
    <2>5. /\ Len(queues'[L]) = Len(queues[L]) + 1 /\ Len(queues[L]) \in Nat
          /\ queues'[L][Len(queues[L]) + 1] = h
          /\ \A i \in 1..Len(queues[L]) : queues'[L][i] = queues[L][i]
      BY <2>2, <2>3, <2>4, AppendFacts
    <2>6. \A i, j \in 1..Len(in') : i <= j => in'[j] \notin ahead[in'[i]]
      BY <2>2 DEF Order
    <2>7. h \notin ahead[h] /\ \A j \in 1..Len(in') : in'[j] \notin ahead[h]
      BY <2>2 DEF Order
    <2>8. \A l \in Lanes : \A i \in 1..Len(queues[l]) :
             h \notin ahead[queues[l][i]] /\ \A j \in 1..Len(in') : in'[j] \notin ahead[queues[l][i]]
      BY <2>2 DEF Order
    <2> HIDE DEF h
    <2>9. ASSUME NEW l \in Lanes, NEW i \in 1..Len(queues'[l]), NEW j \in 1..Len(queues'[l]), i <= j
          PROVE  queues'[l][j] \notin ahead[queues'[l][i]]
      <3>1. CASE l # L
        BY <2>4, <2>9, <3>1 DEF Order
      <3>2. CASE l = L /\ j \in 1..Len(queues[L])
        <4>1. i \in 1..Len(queues[L])
          BY <2>5, <2>9, <3>2
        <4>2. QED BY <2>3, <2>5, <2>9, <3>2, <4>1 DEF Order
      <3>3. CASE l = L /\ j = Len(queues[L]) + 1
        <4>1. CASE i = j
          BY <2>5, <2>7, <3>3, <4>1
        <4>2. CASE i \in 1..Len(queues[L])
          BY <2>3, <2>5, <2>8, <3>3, <4>2
        <4>3. QED BY <2>5, <2>9, <3>3, <4>1, <4>2
      <3>4. QED BY <2>5, <2>9, <3>1, <3>2, <3>3
    <2>10. ASSUME NEW l \in Lanes, NEW i \in 1..Len(queues'[l]), NEW j \in 1..Len(in')
           PROVE  in'[j] \notin ahead[queues'[l][i]]
      <3>1. CASE l # L
        BY <2>4, <2>8, <2>10, <3>1
      <3>2. CASE l = L /\ i \in 1..Len(queues[L])
        BY <2>3, <2>5, <2>8, <3>2
      <3>3. CASE l = L /\ i = Len(queues[L]) + 1
        BY <2>5, <2>7, <3>3
      <3>4. QED BY <2>5, <2>10, <3>1, <3>2, <3>3
    <2>11. QED BY <2>1, <2>6, <2>9, <2>10 DEF Order
  <1>3. ASSUME NEW lane \in Lanes, NEW r \in Requests, PickOf(lane, r) PROVE Order'
    <2>1. queues[lane] \in Seq(Requests) /\ queues[lane] # <<>>
          /\ queues \in [Lanes -> Seq(Requests)] /\ in \in Seq(Requests)
          /\ queues' = [queues EXCEPT ![lane] = Tail(@)]
          /\ in' = in /\ admitted' = admitted \ {r}
          /\ ahead' = [q \in Requests |-> ahead[q] \ {r}]
      BY <1>3 DEF PickOf, TypeOK
    <2>2. queues'[lane] = Tail(queues[lane]) /\ \A l \in Lanes \ {lane} : queues'[l] = queues[l]
      BY <2>1
    <2>3. /\ Len(queues[lane]) \in Nat \ {0} /\ Len(queues'[lane]) = Len(queues[lane]) - 1
          /\ \A i \in 1..Len(queues'[lane]) :
                queues'[lane][i] = queues[lane][i + 1] /\ i + 1 \in 1..Len(queues[lane])
      BY <2>1, <2>2, TailFacts
    <2>4. \A q \in Requests : ahead'[q] \subseteq ahead[q] /\ ahead'[q] \subseteq admitted'
      BY <2>1 DEF Order
    <2>5. ASSUME NEW i \in 1..Len(in), NEW j \in 1..Len(in), i <= j
          PROVE  in[j] \notin ahead'[in[i]]
      BY <2>1, <2>4, <2>5 DEF Order
    <2>6. ASSUME NEW l \in Lanes, NEW i \in 1..Len(queues'[l])
          PROVE  \E k \in 1..Len(queues[l]) :
                    /\ queues'[l][i] = queues[l][k] /\ queues[l][k] \in Requests
                    /\ k = IF l = lane THEN i + 1 ELSE i
      <3>1. CASE l = lane
        BY <2>1, <2>3, <2>6, <3>1
      <3>2. CASE l # lane
        BY <2>1, <2>2, <2>6, <3>2
      <3>3. QED BY <3>1, <3>2
    <2>7. ASSUME NEW l \in Lanes, NEW i \in 1..Len(queues'[l]), NEW j \in 1..Len(queues'[l]), i <= j
          PROVE  queues'[l][j] \notin ahead'[queues'[l][i]]
      <3>1. PICK k \in 1..Len(queues[l]) :
              /\ queues'[l][i] = queues[l][k] /\ queues[l][k] \in Requests
              /\ k = IF l = lane THEN i + 1 ELSE i
        BY <2>6
      <3>2. PICK m \in 1..Len(queues[l]) :
              /\ queues'[l][j] = queues[l][m]
              /\ m = IF l = lane THEN j + 1 ELSE j
        BY <2>6
      <3>3. k <= m
        BY <2>7, <3>1, <3>2
      <3>4. QED BY <2>4, <3>1, <3>2, <3>3 DEF Order
    <2>8. ASSUME NEW l \in Lanes, NEW i \in 1..Len(queues'[l]), NEW j \in 1..Len(in)
          PROVE  in[j] \notin ahead'[queues'[l][i]]
      <3>1. PICK k \in 1..Len(queues[l]) :
              queues'[l][i] = queues[l][k] /\ queues[l][k] \in Requests
        BY <2>6
      <3>2. in[j] \notin ahead[queues[l][k]]
        BY DEF Order
      <3>3. QED BY <2>4, <3>1, <3>2
    <2>9. QED BY <2>1, <2>4, <2>5, <2>7, <2>8 DEF Order
  <1>4. CASE UNCHANGED <<in, queues, nextLive, admitted, ahead, bypass>>
    BY <1>4 DEF Order
  <1>5. QED BY <1>1, <1>2, <1>3, <1>4, StepCases

(* A lane passed over when both have work gets nextLive. *)
LEMMA TurnsStep ==
  ASSUME TypeOK, Turns, [Next]_vars PROVE Turns'
  <1>1. ASSUME NEW lane \in Lanes, NEW r \in Requests, lane = NextLane, PickOf(lane, r)
        PROVE  Turns'
    <2>1. ASSUME NEW l \in LiveLanes
          PROVE  bypass'[l] = 0 \/ (bypass'[l] = 1 /\ nextLive' = l)
      <3>1. CASE l = lane \/ queues[l] = <<>>
        BY <1>1, <3>1 DEF PickOf
      <3>2. CASE l # lane /\ queues[l] # <<>>
        <4>1. lane = nextLive /\ lane \in LiveLanes /\ lane # l
          BY <1>1, <3>2 DEF NextLane, LiveLanes, TypeOK
        <4>2. bypass[l] = 0
          BY <4>1 DEF Turns
        <4>3. Other(lane) = l
          BY <4>1 DEF Other, LiveLanes
        <4>4. bypass'[l] = 1
          BY <1>1, <3>2, <4>2 DEF PickOf
        <4>5. nextLive' = Other(lane)
          BY <1>1, <4>1 DEF PickOf
        <4>6. QED BY <4>3, <4>4, <4>5
      <3>3. QED BY <3>1, <3>2
    <2>2. QED BY <2>1 DEF Turns
  <1>2. CASE UNCHANGED <<nextLive, bypass>>
    BY <1>2 DEF Turns
  <1>3. (\E r \in Requests : Offer(r)) \/ MoveHeadOfIn => UNCHANGED <<nextLive, bypass>>
    BY DEF Offer, MoveHeadOfIn, workVars, history
  <1>4. QED BY <1>1, <1>2, <1>3, StepCases

(* What a caller and its request can be doing is preserved by every action. *)
LEMMA ProgressStep ==
  ASSUME TypeOK, Placement, Progress, [Next]_vars PROVE Progress'
  <1> USE NoRequestAssumption DEF NoRequestAssumption, Progress, TypeOK,
          Returned, callVars, workVars, history
  <1>1. ASSUME NEW r \in Requests, Call(r) PROVE Progress'
    BY <1>1 DEF Call
  <1>2. ASSUME NEW r \in Requests, Offer(r) PROVE Progress'
    BY <1>2 DEF Offer
  <1>3. ASSUME NEW r \in Requests, OfferRefused(r) PROVE Progress'
    BY <1>3 DEF OfferRefused
  <1>4. ASSUME NEW r \in Requests, Receive(r) PROVE Progress'
    <2>1. caller'[r] = Answer(result[r]) /\ \A q \in Requests : q # r => caller'[q] = caller[q]
      BY <1>4 DEF Receive
    <2>2. Answer(result[r]) \in {"ok", "failed", "abandoned"}
          /\ (Answer(result[r]) = "ok" => result[r] = "ok")
      BY DEF Answer
    <2>3. ~(r \in admitted \/ current = r)
      BY <1>4 DEF Receive
    <2>4. QED BY <1>4, <2>1, <2>2, <2>3 DEF Receive
  <1>5. ASSUME NEW r \in Requests, Abandon(r) PROVE Progress'
    BY <1>5 DEF Abandon
  <1>6. ASSUME NEW r \in Requests, CancelContext(r) PROVE Progress'
    BY <1>6 DEF CancelContext
  <1>7. CASE Close \/ Wake \/ Drain
    BY <1>7 DEF Close, Wake, Drain, MoveHeadOfIn
  <1>8. CASE Stop \/ DrainDone
    BY <1>8 DEF Stop, DrainDone
  <1>9. CASE Pick
    <2>1. PICK lane \in Lanes, r \in Requests : PickOf(lane, r)
      BY <1>9, PickFacts
    <2>2. queues[lane] \in Seq(Requests) /\ queues[lane] # <<>> /\ r = Head(queues[lane])
      BY <2>1 DEF PickOf
    <2>3. Occurs(queues[lane], r)
      BY <2>2, TailFacts
    <2>4. r \in admitted
      BY <2>3 DEF Placement
    <2>5. QED BY <2>1, <2>4 DEF PickOf
  <1>10. CASE Start
    BY <1>10 DEF Start
  <1>11. CASE Skip
    BY <1>11 DEF Skip, Reply
  <1>12. CASE Commit
    <2>1. current \in Requests /\ caller[current] \in {"waiting", "abandoned"}
          /\ commits[current] = 0
      BY <1>12 DEF Commit
    <2>2. commits' = [commits EXCEPT ![current] = 1]
      BY <1>12, <2>1 DEF Commit
    <2>3. \/ result' = [result EXCEPT ![current] = "ok"]
          \/ result' = [result EXCEPT ![current] = "error"]
      BY <1>12 DEF Commit, Reply
    <2>4. /\ caller' = caller /\ current' = NoRequest /\ admitted' = admitted
          /\ worker' \in {"blocked", "draining"}
      BY <1>12 DEF Commit, Reply
    <2>5. QED BY <2>1, <2>2, <2>3, <2>4
  <1>13. CASE Fail
    BY <1>13 DEF Fail, Reply
  <1>14. CASE UNCHANGED vars
    BY <1>14 DEF vars
  <1>15. QED
    BY <1>1, <1>2, <1>3, <1>4, <1>5, <1>6, <1>7, <1>8, <1>9, <1>10, <1>11,
       <1>12, <1>13, <1>14 DEF Next, CallerStep, WorkerStep

(* The collection loop ends only with the channel empty. *)
LEMMA CollectedStep ==
  ASSUME TypeOK, Placement, Progress, Collected, [Next]_vars PROVE Collected'
  <1> USE NoRequestAssumption DEF NoRequestAssumption, Collected, callVars, workVars, history
  <1>1. ASSUME NEW r \in Requests, Offer(r) PROVE Collected'
    <2>1. in \in Seq(Requests) /\ in' = Append(in, r) /\ admitted' = admitted \cup {r}
          /\ r \notin admitted
      BY <1>1, OfferIsNew DEF Offer, TypeOK
    <2>2. \A q : Occurs(in', q) <=> Occurs(in, q) \/ q = r
      BY <2>1, AppendFacts
    <2>3. QED BY <1>1, <2>1, <2>2 DEF Offer
  <1>2. ASSUME NEW r \in Requests,
               Call(r) \/ OfferRefused(r) \/ Receive(r) \/ Abandon(r) \/ CancelContext(r)
        PROVE  Collected'
    BY <1>2 DEF Call, OfferRefused, Receive, Abandon, CancelContext
  <1>3. CASE Close \/ Stop
    BY <1>3 DEF Close, Stop
  <1>4. CASE Wake \/ Drain
    BY <1>4 DEF Wake, Drain, MoveHeadOfIn
  <1>5. CASE DrainDone
    BY <1>5 DEF DrainDone, Occurs
  <1>6. CASE Pick
    BY <1>6, PickFacts DEF PickOf
  <1>7. CASE Start
    BY <1>7 DEF Start
  <1>8. CASE Skip \/ Commit \/ Fail
    BY <1>8 DEF Skip, Commit, Fail, Reply
  <1>9. CASE UNCHANGED vars
    BY <1>9 DEF vars
  <1>10. QED
    BY <1>1, <1>2, <1>3, <1>4, <1>5, <1>6, <1>7, <1>8, <1>9 DEF Next, CallerStep, WorkerStep

-----------------------------------------------------------------------------
(* The inductive invariant holds initially, *)
LEMMA InitIInv == Init => IInv
  <1> SUFFICES ASSUME Init PROVE IInv
    OBVIOUS
  <1>1. TypeOK
    BY TypeInit
  <1>2. Placement
    BY LaneAssumption DEF Init, Placement, Occurs, Injective, LaneAssumption
  <1>3. Progress
    BY NoRequestAssumption DEF Init, Progress, NoRequestAssumption
  <1>4. Order
    BY DEF Init, Order
  <1>5. Collected /\ Turns
    BY DEF Init, Collected, Turns
  <1>6. QED BY <1>1, <1>2, <1>3, <1>4, <1>5 DEF IInv

(* and every step keeps it. *)
LEMMA StepIInv == IInv /\ [Next]_vars => IInv'
  BY TypeStep, PlacementStep, ProgressStep, OrderStep, CollectedStep, TurnsStep DEF IInv

(* The inductive invariant behind every safety property of the module: the
   admission channel, the queues, the turns and the callers stay consistent. *)
THEOREM SafetyInvariant == Spec => []IInv
  BY InitIInv, StepIInv, PTL DEF Spec

(* No admitted request is lost, duplicated or filed under another lane. *)
THEOREM NothingLost == Spec => []Placement
  <1>1. IInv => Placement
    BY DEF IInv
  <1>2. QED BY <1>1, SafetyInvariant, PTL

(* writeCoordinator's comment: "Primary and live-core work alternate when both
   are queued" - at most one turn is given away by a lane that has work. *)
THEOREM Alternation == Spec => []AlternationBound
  <1>1. IInv => AlternationBound
    BY DEF IInv, Turns, AlternationBound
  <1>2. QED BY <1>1, SafetyInvariant, PTL

(* What the answer of Do lets a caller conclude about its mutation. *)
THEOREM AnswersHonest == Spec => []OutcomeHonest
  <1>1. IInv => OutcomeHonest
    BY DEF IInv, Progress, OutcomeHonest
  <1>2. QED BY <1>1, SafetyInvariant, PTL

-----------------------------------------------------------------------------
(* Only the worker's choice of a request makes one start. *)
LEMMA StartsOnlyByPick ==
  ASSUME IInv, [Next]_vars, NEW r \in Requests, Starts(r)
  PROVE  \E lane \in Lanes : lane = NextLane /\ PickOf(lane, r)
  <1>1. Pick
    BY NoRequestAssumption
    DEF IInv, Starts, NoRequestAssumption, Next, CallerStep, WorkerStep, vars, callVars,
        workVars, history, Call, Offer, OfferRefused, Receive, Abandon, CancelContext,
        Close, Wake, Stop, Drain, DrainDone, MoveHeadOfIn, Start, Skip, Commit, Fail, Reply
  <1>2. PICK lane \in Lanes, q \in Requests : lane = NextLane /\ PickOf(lane, q)
    BY <1>1, PickFacts DEF IInv
  <1>3. q = r
    BY <1>2 DEF PickOf, Starts
  <1>4. QED BY <1>2, <1>3

(* One lane is served in the order of admission. *)
THEOREM FifoWithinLane == Spec => LaneFifo
  <1>1. ASSUME IInv, [Next]_vars, NEW r \in Requests, Starts(r), NEW q \in ahead[r]
        PROVE  LaneOf[q] # LaneOf[r]
    <2>1. PICK lane \in Lanes : PickOf(lane, r)
      BY <1>1, StartsOnlyByPick
    <2>2. /\ queues[lane] \in Seq(Requests) /\ queues[lane] # <<>>
          /\ r = queues[lane][1] /\ 1 \in 1..Len(queues[lane]) /\ Occurs(queues[lane], r)
      BY <1>1, <2>1, TailFacts DEF PickOf, IInv, TypeOK, Occurs
    <2>3. LaneOf[r] = lane
      BY <1>1, <2>2 DEF IInv, Placement
    <2>4. q \in admitted /\ q \in Requests
      BY <1>1 DEF IInv, Order, TypeOK
    <2>5. ~Occurs(in, q)
      BY <1>1, <2>2 DEF IInv, Order, Occurs
    <2>6. ~Occurs(queues[lane], q)
      BY <1>1, <2>2 DEF IInv, Order, Occurs
    <2>7. QED BY <1>1, <2>3, <2>4, <2>5, <2>6 DEF IInv, Placement
  <1>2. IInv /\ [Next]_vars =>
          [\A r \in Requests : Starts(r) => \A q \in ahead[r] : LaneOf[q] # LaneOf[r]]_vars
    BY <1>1
  <1>3. QED BY <1>2, SafetyInvariant, PTL DEF Spec, LaneFifo

(* writeCoordinator's comment: "background work is admitted only after both
   live lanes are empty" - counting the requests still in the channel. *)
THEOREM BackgroundLast == Spec => BackgroundYields
  <1>1. ASSUME IInv, [Next]_vars, NEW r \in Requests, Starts(r), LaneOf[r] = "background",
               NEW q \in seen \cap admitted
        PROVE  LaneOf[q] \notin LiveLanes
    <2>1. PICK lane \in Lanes : lane = NextLane /\ PickOf(lane, r)
      BY <1>1, StartsOnlyByPick
    <2>2. Occurs(queues[lane], r)
      BY <1>1, <2>1, TailFacts DEF PickOf, IInv, TypeOK
    <2>3. lane = "background"
      BY <1>1, <2>2 DEF IInv, Placement
    <2>4. \A l \in LiveLanes : queues[l] = <<>>
      BY <1>1, <2>1, <2>3 DEF NextLane, LiveLanes, IInv, TypeOK
    <2>5. ~Occurs(in, q) /\ q \in Requests
      BY <1>1, <2>1 DEF IInv, Collected, PickOf, TypeOK
    <2>6. Occurs(queues[LaneOf[q]], q)
      BY <1>1, <2>5 DEF IInv, Placement
    <2>7. QED BY <2>4, <2>6 DEF Occurs
  <1>2. IInv /\ [Next]_vars =>
          [\A r \in Requests : (Starts(r) /\ LaneOf[r] = "background") =>
              \A q \in seen \cap admitted : LaneOf[q] \notin LiveLanes]_vars
    BY <1>1
  <1>3. QED BY <1>2, SafetyInvariant, PTL DEF Spec, BackgroundYields

-----------------------------------------------------------------------------
(* The calls that the reported depth of a lane counts. *)
Counted(l) == {r \in Requests : LaneOf[r] = l /\ (caller[r] = "offering" \/ r \in admitted)}

(* What is counted changes by one request of the lane, with the depth, or not at all. *)
DepthStepOf(l) ==
  \/ Counted(l)' = Counted(l) /\ depth'[l] = depth[l]
  \/ \E r \in Requests \ Counted(l) :
        Counted(l)' = Counted(l) \cup {r} /\ depth'[l] = depth[l] + 1
  \/ \E r \in Counted(l) :
        Counted(l)' = Counted(l) \ {r} /\ depth'[l] = depth[l] - 1

LEMMA DepthSteps ==
  ASSUME IInv, [Next]_vars, NEW l \in Lanes PROVE DepthStepOf(l)
  <1> USE LaneAssumption DEF LaneAssumption
  <1>1. /\ caller \in [Requests -> CallerStates] /\ depth \in [Lanes -> Int]
        /\ admitted \in SUBSET Requests
        /\ \A r \in Requests : r \in admitted => caller[r] \in {"waiting", "abandoned"}
    BY DEF IInv, TypeOK, Progress
  <1>2. ASSUME NEW r \in Requests, Call(r) PROVE DepthStepOf(l)
    <2>1. /\ caller' = [caller EXCEPT ![r] = "offering"] /\ admitted' = admitted
          /\ depth' = [depth EXCEPT ![LaneOf[r]] = @ + 1]
          /\ r \notin admitted /\ caller[r] # "offering"
      BY <1>1, <1>2 DEF Call, Returned, history
    <2>2. CASE LaneOf[r] = l
      <3>1. r \notin Counted(l) /\ depth'[l] = depth[l] + 1
        BY <1>1, <2>1, <2>2 DEF Counted
      <3>2. Counted(l)' = Counted(l) \cup {r}
        BY <1>1, <2>1, <2>2 DEF Counted
      <3>3. QED BY <3>1, <3>2 DEF DepthStepOf
    <2>3. CASE LaneOf[r] # l
      <3>1. depth'[l] = depth[l] /\ Counted(l)' = Counted(l)
        BY <1>1, <2>1, <2>3 DEF Counted
      <3>2. QED BY <3>1 DEF DepthStepOf
    <2>4. QED BY <2>2, <2>3
  <1>3. ASSUME NEW r \in Requests, OfferRefused(r) PROVE DepthStepOf(l)
    <2>1. /\ caller' = [caller EXCEPT ![r] = "refused"] /\ admitted' = admitted
          /\ depth' = [depth EXCEPT ![LaneOf[r]] = @ - 1]
          /\ r \notin admitted /\ caller[r] = "offering"
      BY <1>1, <1>3 DEF OfferRefused, history
    <2>2. CASE LaneOf[r] = l
      <3>1. r \in Counted(l) /\ depth'[l] = depth[l] - 1
        BY <1>1, <2>1, <2>2 DEF Counted
      <3>2. Counted(l)' = Counted(l) \ {r}
        BY <1>1, <2>1, <2>2 DEF Counted
      <3>3. QED BY <3>1, <3>2 DEF DepthStepOf
    <2>3. CASE LaneOf[r] # l
      <3>1. depth'[l] = depth[l] /\ Counted(l)' = Counted(l)
        BY <1>1, <2>1, <2>3 DEF Counted
      <3>2. QED BY <3>1 DEF DepthStepOf
    <2>4. QED BY <2>2, <2>3
  <1>4. ASSUME NEW r \in Requests, Offer(r) PROVE DepthStepOf(l)
    <2>1. /\ caller' = [caller EXCEPT ![r] = "waiting"] /\ admitted' = admitted \cup {r}
          /\ depth' = depth /\ caller[r] = "offering"
      BY <1>4 DEF Offer
    <2>2. Counted(l)' = Counted(l)
      BY <1>1, <2>1 DEF Counted
    <2>3. QED BY <2>1, <2>2 DEF DepthStepOf
  <1>5. ASSUME NEW r \in Requests, Receive(r) \/ Abandon(r) PROVE DepthStepOf(l)
    <2>1. PICK answer \in Returned : caller' = [caller EXCEPT ![r] = answer]
      BY <1>5 DEF Receive, Abandon, Answer, Returned
    <2>2. UNCHANGED <<admitted, depth>> /\ caller[r] = "waiting"
      BY <1>5 DEF Receive, Abandon, history
    <2>3. Counted(l)' = Counted(l)
      BY <1>1, <2>1, <2>2 DEF Counted, Returned
    <2>4. QED BY <2>2, <2>3 DEF DepthStepOf
  <1>6. CASE Pick
    <2>1. PICK lane \in Lanes, r \in Requests : lane = NextLane /\ PickOf(lane, r)
      BY <1>6, PickFacts DEF IInv
    <2>2. queues[lane] \in Seq(Requests) /\ queues[lane] # <<>> /\ r = Head(queues[lane])
      BY <2>1 DEF PickOf, IInv, TypeOK
    <2>3. LaneOf[r] = lane /\ r \in admitted
      <3>1. Occurs(queues[lane], r)
        BY <2>2 DEF Occurs
      <3>2. QED BY <3>1 DEF IInv, Placement
    <2>4. depth' = [depth EXCEPT ![lane] = @ - 1] /\ admitted' = admitted \ {r}
          /\ caller' = caller
      BY <1>6, <2>1, <2>2 DEF Pick, callVars
    <2>5. CASE lane = l
      <3>1. r \in Counted(l) /\ depth'[l] = depth[l] - 1
        BY <1>1, <2>3, <2>4, <2>5 DEF Counted
      <3>2. Counted(l)' = Counted(l) \ {r}
        BY <1>1, <2>3, <2>4, <2>5 DEF Counted
      <3>3. QED BY <3>1, <3>2 DEF DepthStepOf
    <2>6. CASE lane # l
      <3>1. depth'[l] = depth[l] /\ Counted(l)' = Counted(l)
        BY <1>1, <2>3, <2>4, <2>6 DEF Counted
      <3>2. QED BY <3>1 DEF DepthStepOf
    <2>7. QED BY <2>5, <2>6
  <1>7. CASE UNCHANGED <<caller, admitted, depth>>
    BY <1>7 DEF Counted, DepthStepOf
  <1>8. ASSUME NEW r \in Requests, CancelContext(r) PROVE UNCHANGED <<caller, admitted, depth>>
    BY <1>8 DEF CancelContext, history
  <1>9. Close \/ Wake \/ Stop \/ Drain \/ DrainDone => UNCHANGED <<caller, admitted, depth>>
    BY DEF Close, Wake, Stop, Drain, DrainDone, MoveHeadOfIn, callVars, history
  <1>10. Start \/ Skip \/ Commit \/ Fail => UNCHANGED <<caller, admitted, depth>>
    BY DEF Start, Skip, Commit, Fail, Reply, callVars, history
  <1>11. UNCHANGED vars => UNCHANGED <<caller, admitted, depth>>
    BY DEF vars, callVars, history
  <1>12. QED
    BY <1>2, <1>3, <1>4, <1>5, <1>6, <1>7, <1>8, <1>9, <1>10, <1>11
       DEF Next, CallerStep, WorkerStep

(* RuntimeStats' writer depth, which readiness and metrics report, is exact: per
   lane one for each call that is offering its request or whose admitted request
   has not started, whatever was refused, abandoned or skipped.  The calls in
   progress are finitely many. *)
THEOREM DepthExact ==
  ASSUME IsFiniteSet(Requests) PROVE Spec => []DepthAccurate
  <1>1. DepthAccurate <=> \A l \in Lanes : depth[l] = Cardinality(Counted(l))
    BY DEF DepthAccurate, Counted
  <1>2. Init => DepthAccurate
    <2> SUFFICES ASSUME Init PROVE DepthAccurate
      OBVIOUS
    <2>1. \A l \in Lanes : Counted(l) = {} /\ depth[l] = 0
      BY DEF Init, Counted
    <2>2. QED BY <1>1, <2>1, FS_EmptySet
  <1>3. IInv /\ DepthAccurate /\ [Next]_vars => DepthAccurate'
    <2> SUFFICES ASSUME IInv, DepthAccurate, [Next]_vars, NEW l \in Lanes
                 PROVE  depth'[l] = Cardinality(Counted(l)')
      BY DEF DepthAccurate, Counted
    <2>1. DepthStepOf(l) /\ depth[l] = Cardinality(Counted(l)) /\ depth[l] \in Int
      BY <1>1, DepthSteps DEF IInv, TypeOK
    <2> DEFINE now == Counted(l)
               next == Counted(l)'
    <2>2. IsFiniteSet(now)
      BY FS_Subset DEF Counted
    <2>3. \/ next = now /\ depth'[l] = depth[l]
          \/ \E r \in Requests \ now : next = now \cup {r} /\ depth'[l] = depth[l] + 1
          \/ \E r \in now : next = now \ {r} /\ depth'[l] = depth[l] - 1
      BY <2>1 DEF DepthStepOf
    <2>4. depth[l] = Cardinality(now)
      BY <2>1
    <2> HIDE DEF now, next
    <2>5. depth'[l] = Cardinality(next)
      BY <2>1, <2>2, <2>3, <2>4, FS_AddElement, FS_RemoveElement
    <2>6. QED BY <2>5 DEF next
  <1>4. QED BY <1>2, <1>3, SafetyInvariant, PTL DEF Spec

=============================================================================
