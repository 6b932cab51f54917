----------------------------- MODULE IngestProofs -----------------------------
(***************************************************************************)
(* Proofs about Ingest for every set of messages and all capacities: types, *)
(* exact accounting, and that the pipeline implements IngestFifo.           *)
(***************************************************************************)
EXTENDS Ingest, SequenceTheorems, TLAPS

(* An item before a sequence, which is how the invariants see a held item.  *)
LEMMA ConsFacts ==
  ASSUME NEW S, NEW s \in Seq(S), NEW x \in S
  PROVE  /\ <<x>> \in Seq(S) /\ <<x>> \o s \in Seq(S)
         /\ <<x>> \o s # <<>> /\ Len(<<x>> \o s) = Len(s) + 1
         /\ Head(<<x>> \o s) = x /\ Tail(<<x>> \o s) = s
         /\ <<>> \o s = s /\ s \o <<>> = s
         /\ Append(s, x) = s \o <<x>> /\ s \o <<x>> \in Seq(S)
  <1> DEFINE c == <<x>> \o s
  <1>1. <<x>> \in Seq(S) /\ Len(<<x>>) = 1 /\ <<x>>[1] = x
    OBVIOUS
  <1>2. /\ c \in Seq(S) /\ Len(c) = 1 + Len(s)
        /\ \A i \in 1..(1 + Len(s)) : c[i] = IF i <= 1 THEN <<x>>[i] ELSE s[i - 1]
    BY <1>1, ConcatProperties
  <1>3. Len(s) \in Nat
    BY LenProperties
  <1>4. c # <<>> /\ Head(c) = x
    BY <1>1, <1>2, <1>3
  <1>5. Tail(c) = s
    <2>1. /\ Tail(c) \in Seq(S) /\ Len(Tail(c)) = Len(s)
          /\ \A i \in 1..Len(Tail(c)) : Tail(c)[i] = c[i + 1]
      BY <1>2, <1>3, <1>4, HeadTailProperties
    <2>2. \A i \in 1..Len(s) : c[i + 1] = s[i]
      BY <1>2, <1>3
    <2> HIDE DEF c
    <2>3. QED BY <2>1, <2>2, SeqEqual
  <1>6. <<>> \o s = s /\ s \o <<>> = s
    BY ConcatEmptySeq
  <1>7. Append(s, x) = s \o <<x>> /\ s \o <<x>> \in Seq(S)
    BY <1>1, AppendIsConcat, ConcatProperties
  <1>8. Len(c) = Len(s) + 1
    BY <1>2, <1>3
  <1>9. QED BY <1>1, <1>2, <1>4, <1>5, <1>6, <1>7, <1>8

(* Taking the head of a sequence that something follows. *)
LEMMA HeadFacts ==
  ASSUME NEW S, NEW s \in Seq(S), NEW t \in Seq(S), s # <<>>
  PROVE  /\ Head(s) \in S /\ Tail(s) \in Seq(S)
         /\ Len(s) \in Nat \ {0} /\ Len(Tail(s)) = Len(s) - 1
         /\ s = <<Head(s)>> \o Tail(s)
         /\ s \o t # <<>> /\ Head(s \o t) = Head(s) /\ Tail(s \o t) = Tail(s) \o t
  <1> DEFINE h == Head(s)
             r == Tail(s)
             c == <<h>> \o r
  <1>1. /\ h \in S /\ r \in Seq(S) /\ Len(r) = Len(s) - 1
        /\ \A i \in 1..Len(r) : r[i] = s[i + 1]
    BY HeadTailProperties
  <1>2. Len(s) \in Nat \ {0} /\ h = s[1]
    BY EmptySeq
  <1>3. s = c
    <2>1. /\ c \in Seq(S) /\ Len(c) = 1 + Len(r)
          /\ \A i \in 1..(1 + Len(r)) : c[i] = IF i <= 1 THEN h ELSE r[i - 1]
      <3>1. <<h>> \in Seq(S) /\ Len(<<h>>) = 1 /\ <<h>>[1] = h
        BY <1>1
      <3> HIDE DEF h, r
      <3>2. QED BY <3>1, <1>1, ConcatProperties
    <2>2. \A i \in 1..Len(s) : s[i] = c[i]
      <3> HIDE DEF h, r, c
      <3>1. QED BY <1>1, <1>2, <2>1
    <2>3. Len(s) = Len(c)
      <3> HIDE DEF h, r, c
      <3>1. QED BY <1>1, <1>2, <2>1
    <2> HIDE DEF c
    <2>4. QED BY <2>1, <2>2, <2>3, SeqEqual
  <1>4. s \o t = <<h>> \o (r \o t) /\ r \o t \in Seq(S)
    <2>1. <<h>> \in Seq(S)
      BY <1>1
    <2> HIDE DEF h, r
    <2>2. c \o t = <<h>> \o (r \o t)
      BY <1>1, <2>1, ConcatAssociative
    <2>3. QED BY <1>1, <1>3, <2>2, ConcatProperties
  <1> HIDE DEF h, r
  <1>5. s \o t # <<>> /\ Head(s \o t) = h /\ Tail(s \o t) = r \o t
    BY <1>1, <1>4, ConsFacts
  <1>6. QED BY <1>1, <1>2, <1>3, <1>5 DEF h, r

(* Leaving out the item that was appended last. *)
LEMMA FrontFacts ==
  ASSUME NEW S, NEW s \in Seq(S), NEW x \in S
  PROVE  s \o <<x>> # <<>> /\ SubSeq(s \o <<x>>, 1, Len(s \o <<x>>) - 1) = s
  <1> DEFINE a == Append(s, x)
             f == SubSeq(a, 1, Len(s))
  <1>1. /\ a \in Seq(S) /\ a # <<>> /\ Len(a) = Len(s) + 1
        /\ \A i \in 1..Len(s) : a[i] = s[i]
    BY AppendProperties
  <1>2. Len(s) \in Nat /\ \A i \in 1..Len(s) : s[i] \in S
    BY LenProperties, ElementOfSeq
  <1>3. /\ f \in Seq(S) /\ Len(f) = Len(s)
        /\ \A i \in 1..Len(s) : f[i] = s[i]
    <2>1. \A i \in 1..Len(s) : a[i] \in S
      BY <1>1, <1>2
    <2> HIDE DEF a
    <2>2. /\ f \in Seq(S) /\ Len(f) = IF 1 <= Len(s) THEN Len(s) - 1 + 1 ELSE 0
          /\ \A i \in 1..(Len(s) - 1 + 1) : f[i] = a[1 + i - 1]
      BY <1>2, <2>1, SubSeqProperties
    <2> HIDE DEF f
    <2>3. QED BY <1>1, <1>2, <2>2
  <1>4. f = s
    <2> HIDE DEF f
    <2>1. QED BY <1>3, SeqEqual
  <1>5. a = s \o <<x>> /\ Len(a) - 1 = Len(s)
    BY <1>1, <1>2, AppendIsConcat
  <1>6. QED BY <1>1, <1>4, <1>5

-----------------------------------------------------------------------------
(* Who holds a message, and when the reported age may lag behind its list.  *)
InHand == {"received", "writing", "persisted", "blocked"}
Working == {"held", "node", "nodeEvent", "event", "commit", "offering", "done"}

HandsFull ==
    /\ IF dispatcher.pc \in InHand THEN dispatcher.msg \in Messages ELSE dispatcher.msg = Nothing
    /\ IF deriver.pc \in Working THEN deriver.msg \in Messages ELSE deriver.msg = Nothing
    /\ IF projector.pc = "writing" THEN projector.msg \in Messages ELSE projector.msg = Nothing

AgeFollows ==
    \/ stopping
    \/ derivedTimes # <<>>
    \/ IF deriver.pc = "recording" THEN ~ageRead ELSE ~derivedAge

\* The inductive invariant.
IngestInv == IngestTypeOK /\ HandsFull /\ InFlightExact /\ TimesMatchWork /\ AgeFollows

LEMMA InvInit ==
  IngestInit => IngestInv
  <1> SUFFICES ASSUME IngestInit PROVE IngestInv
    OBVIOUS
  <1> USE DEF IngestInit, Resting, At
  <1>1. IngestTypeOK
    <2>1. <<>> \in Seq(Messages) /\ Len(<<>>) = 0 /\ <<>> = mqttQueue /\ <<>> = mqttTimes
          /\ <<>> = derivedQueue /\ <<>> = derivedTimes /\ <<>> = edgeQueue /\ <<>> = edgeTimes
      OBVIOUS
    <2>2. /\ mqttQueue \in Seq(Messages) /\ Len(mqttQueue) <= MqttCap
          /\ derivedQueue \in Seq(Messages) /\ Len(derivedQueue) <= DerivedCap
          /\ edgeQueue \in Seq(Messages) /\ Len(edgeQueue) <= EdgeCap
          /\ {mqttTimes, derivedTimes, edgeTimes} \subseteq Seq(Messages)
      BY <2>1, IngestCapAssumption DEF IngestCapAssumption
    <2>3. QED
      <3>1. {derivedAge, ageRead, critical, stopping} \subseteq BOOLEAN
        OBVIOUS
      <3>2. /\ dispatcher \in Places(DispatcherStates) /\ deriver \in Places(DeriverStates)
            /\ projector \in Places(ProjectorStates)
        BY DEF Places, DispatcherStates, DeriverStates, ProjectorStates
      <3>3. submitting \in Messages \cup {Nothing} /\ outstanding \in Int
            /\ write \in [WriteLanes -> {"none", "queued", "running", "backoff"}]
            /\ liveTurn \in {"primary", "live_core"}
        BY DEF WriteLanes
      <3>4. /\ write["primary"] # "none" <=> dispatcher.pc = "writing"
            /\ write["live_core"] # "none" <=> deriver.pc \in {"node", "nodeEvent", "event", "commit"}
            /\ write["background"] # "none" <=> projector.pc = "writing"
        BY DEF WriteLanes
      <3>5. QED BY <2>2, <3>1, <3>2, <3>3, <3>4 DEF IngestTypeOK
  <1>2. HandsFull /\ AgeFollows
    BY DEF HandsFull, AgeFollows, InHand, Working
  <1>3. InFlightExact
    BY DEF InFlightExact
  <1>4. TimesMatchWork
    <2>1. <<>> \in Seq(Messages) /\ <<>> \o <<>> = <<>>
      BY ConcatEmptySeq
    <2>2. QED BY <2>1 DEF TimesMatchWork, MqttTimesMatch, DerivedTimesMatch, EdgeTimesMatch, Held
  <1>5. QED BY <1>1, <1>2, <1>3, <1>4 DEF IngestInv

(* What is left of a list without one of its entries is a list of messages. *)
LEMMA WithoutType ==
  ASSUME NEW s \in Seq(Messages), NEW m
  PROVE  Without(s, m) \in Seq(Messages)
  <1> DEFINE i == CHOOSE i \in 1..Len(s) : IsFirst(s, m, i)
  <1>1. CASE \E k \in 1..Len(s) : IsFirst(s, m, k)
    <2>1. i \in 1..Len(s)
      BY <1>1
    <2> HIDE DEF i
    <2>2. SubSeq(s, 1, i - 1) \in Seq(Messages) /\ SubSeq(s, i + 1, Len(s)) \in Seq(Messages)
      BY <2>1
    <2>3. SubSeq(s, 1, i - 1) \o SubSeq(s, i + 1, Len(s)) \in Seq(Messages)
      BY <2>2, ConcatProperties
    <2>4. QED BY <1>1, <2>3 DEF Without, i
  <1>2. CASE ~\E k \in 1..Len(s) : IsFirst(s, m, k)
    BY <1>2 DEF Without
  <1>3. QED BY <1>1, <1>2

(* Types: each step puts back what it takes, and asks for a lane exactly    *)
(* when its goroutine begins to wait for it.                                *)
LEMMA TypeStep ==
  ASSUME IngestTypeOK, HandsFull, [IngestNext]_ingestVars
  PROVE  IngestTypeOK' /\ HandsFull'
  <1> USE IngestCapAssumption, NothingAssumption
      DEF IngestTypeOK, HandsFull, InHand, Working, Places, DispatcherStates, DeriverStates,
          ProjectorStates, WriteLanes, IngestCapAssumption, NothingAssumption, Resting, Stopped, At,
          mqttVars, derivedVars, edgeVars, writerVars, Request, Release, Succeeds, FailsFor
  <1>1. ASSUME NEW m \in Messages, Submit(m) PROVE IngestTypeOK' /\ HandsFull'
    BY <1>1 DEF Submit
  <1>2. CASE SubmitCounted
    BY <1>2 DEF SubmitCounted
  <1>3. CASE TakeMessage
    <2>1. Head(mqttQueue) \in Messages /\ Tail(mqttQueue) \in Seq(Messages)
          /\ Len(Tail(mqttQueue)) <= MqttCap
      BY <1>3, HeadTailProperties DEF TakeMessage
    <2>2. QED BY <1>3, <2>1 DEF TakeMessage
  <1>4. CASE Handle
    <2>1. DropFirst(mqttTimes) \in Seq(Messages)
      BY HeadTailProperties DEF DropFirst
    <2>2. QED BY <1>4, <2>1 DEF Handle
  <1>5. CASE Persisted
    BY <1>5 DEF Persisted
  <1>6. CASE PersistFailed
    BY <1>6 DEF PersistFailed
  <1>7. CASE EnqueueDerived
    <2>1. dispatcher.msg \in Messages /\ Append(derivedTimes, dispatcher.msg) \in Seq(Messages)
      BY <1>7 DEF EnqueueDerived
    <2>2. CASE Len(derivedQueue) < DerivedCap
      <3>1. Append(derivedQueue, dispatcher.msg) \in Seq(Messages)
            /\ Len(Append(derivedQueue, dispatcher.msg)) <= DerivedCap
        BY <2>1, <2>2, AppendProperties
      <3>2. /\ derivedQueue' = Append(derivedQueue, dispatcher.msg)
            /\ derivedTimes' = Append(derivedTimes, dispatcher.msg)
            /\ derivedAge' = TRUE /\ dispatcher.pc = "persisted" /\ dispatcher' = Resting
            /\ outstanding' = outstanding - 1
            /\ UNCHANGED <<mqttQueue, mqttTimes, submitting, ageRead, deriver, edgeVars, projector,
                           writerVars, critical, stopping>>
        BY <1>7, <2>2 DEF EnqueueDerived
      <3>3. QED BY <2>1, <3>1, <3>2
    <2>3. CASE ~(Len(derivedQueue) < DerivedCap)
      BY <1>7, <2>1, <2>3 DEF EnqueueDerived
    <2>4. QED BY <2>2, <2>3
  <1>8. CASE BlockedSends
    BY <1>8 DEF BlockedSends
  <1>9. CASE BlockedGivesUp
    <2>1. Without(derivedTimes, dispatcher.msg) \in Seq(Messages)
      BY WithoutType
    <2>2. QED BY <1>9, <2>1 DEF BlockedGivesUp
  <1>10. CASE DispatchStops
    BY <1>10 DEF DispatchStops
  <1>11. CASE TakeJob
    <2>1. Head(derivedQueue) \in Messages /\ Tail(derivedQueue) \in Seq(Messages)
          /\ Len(Tail(derivedQueue)) <= DerivedCap
      BY <1>11, HeadTailProperties DEF TakeJob
    <2>2. QED BY <1>11, <2>1 DEF TakeJob
  <1>12. CASE ProcessJob
    <2>1. CASE deriver' = At("done", deriver.msg) /\ UNCHANGED writerVars
      BY <1>12, <2>1 DEF ProcessJob
    <2>2. ASSUME NEW pc \in {"event", "node", "commit"}, deriver' = At(pc, deriver.msg), Request("live_core")
          PROVE  IngestTypeOK' /\ HandsFull'
      BY <1>12, <2>2 DEF ProcessJob
    <2>3. QED BY <1>12, <2>1, <2>2 DEF ProcessJob
  <1>13. CASE NodeWritten
    BY <1>13 DEF NodeWritten
  <1>14. CASE Committed
    <2>1. deriver.msg \in Messages
          /\ Append(edgeTimes, deriver.msg) \in Seq(Messages)
      BY <1>14, AppendProperties DEF Committed
    <2>2. edgeTimes' \in Seq(Messages)
      BY <1>14, <2>1 DEF Committed
    <2>3. /\ deriver' = At("done", deriver.msg) \/ deriver' = At("offering", deriver.msg)
          /\ deriver.pc = "commit" /\ Release("live_core")
          /\ UNCHANGED <<mqttVars, dispatcher, derivedVars, edgeQueue, projector, critical, stopping>>
      BY <1>14 DEF Committed
    <2>4. QED BY <2>1, <2>2, <2>3
  <1>15. CASE CommitFailed
    BY <1>15 DEF CommitFailed
  <1>16. CASE OfferEdge
    BY <1>16 DEF OfferEdge
  <1>17. CASE OfferGivesUp
    <2>1. Without(edgeTimes, deriver.msg) \in Seq(Messages)
      BY WithoutType
    <2>2. QED BY <1>17, <2>1 DEF OfferGivesUp
  <1>18. CASE PopDerivedTime
    <2>1. DropFirst(derivedTimes) \in Seq(Messages)
      BY HeadTailProperties DEF DropFirst
    <2>2. QED BY <1>18, <2>1 DEF PopDerivedTime
  <1>19. CASE RecordProcessed
    BY <1>19 DEF RecordProcessed
  <1>20. CASE DeriverStops
    BY <1>20 DEF DeriverStops
  <1>21. CASE TakeEdge
    <2>1. Head(edgeQueue) \in Messages /\ Tail(edgeQueue) \in Seq(Messages)
          /\ Len(Tail(edgeQueue)) <= EdgeCap
      BY <1>21, HeadTailProperties DEF TakeEdge
    <2>2. QED BY <1>21, <2>1 DEF TakeEdge
  <1>22. CASE EndProjection
    <2>1. DropFirst(edgeTimes) \in Seq(Messages)
      BY HeadTailProperties DEF DropFirst
    <2>2. QED BY <1>22, <2>1 DEF EndProjection
  <1>23. CASE ProjectorStops
    BY <1>23 DEF ProjectorStops
  <1>24. ASSUME NEW l \in WriteLanes, WriteBegins(l) \/ WriteRetries(l)
         PROVE  IngestTypeOK' /\ HandsFull'
    BY <1>24 DEF WriteBegins, WriteRetries, OtherLive
  <1>25. CASE Pressure \/ Shutdown
    <2>1. stopping' \in BOOLEAN /\ critical' \in BOOLEAN
      BY <1>25 DEF Pressure, Shutdown
    <2>2. UNCHANGED <<mqttVars, dispatcher, derivedVars, deriver, edgeVars, projector, writerVars>>
      BY <1>25 DEF Pressure, Shutdown
    <2>3. QED BY <2>1, <2>2
  <1>26. CASE UNCHANGED ingestVars
    BY <1>26 DEF ingestVars
  <1>27. QED
    BY <1>1, <1>2, <1>3, <1>4, <1>5, <1>6, <1>7, <1>8, <1>9, <1>10, <1>11, <1>12, <1>13, <1>14,
       <1>15, <1>16, <1>17, <1>18, <1>19, <1>20, <1>21, <1>22, <1>23, <1>24, <1>25, <1>26
       DEF IngestNext, DispatchStep, DeriveStep, ProjectStep

-----------------------------------------------------------------------------
(* The client's queue: what touches it, its times, its count or its taker.  *)
LEMMA MqttCases ==
  ASSUME IngestTypeOK, [IngestNext]_ingestVars
  PROVE  \/ \E m \in Messages : Submit(m)
         \/ SubmitCounted \/ TakeMessage \/ Handle
         \/ /\ dispatcher.pc \in {"writing", "persisted", "blocked"}
            /\ dispatcher'.pc \in {"persisted", "blocked"} /\ outstanding' = outstanding
            /\ UNCHANGED <<mqttQueue, mqttTimes, submitting>>
         \/ /\ dispatcher.pc \in {"writing", "persisted", "blocked"}
            /\ dispatcher'.pc = "idle" /\ outstanding' = outstanding - 1
            /\ UNCHANGED <<mqttQueue, mqttTimes, submitting>>
         \/ /\ dispatcher.pc = "idle" /\ dispatcher'.pc = "stopped"
            /\ UNCHANGED mqttVars
         \/ UNCHANGED <<mqttVars, dispatcher>>
  <1> USE DEF mqttVars, Resting, Stopped, At
  <1>1. CASE DispatchStep
    <2>1. CASE Persisted
      BY <2>1 DEF Persisted
    <2>2. CASE PersistFailed
      BY <2>2 DEF PersistFailed
    <2>3. CASE EnqueueDerived
      BY <2>3 DEF EnqueueDerived
    <2>4. CASE BlockedSends
      BY <2>4 DEF BlockedSends
    <2>5. CASE BlockedGivesUp
      BY <2>5 DEF BlockedGivesUp
    <2>6. QED BY <1>1, <2>1, <2>2, <2>3, <2>4, <2>5 DEF DispatchStep
  <1>2. CASE DeriveStep \/ DeriverStops
    BY <1>2 DEF DeriveStep, DeriverStops, TakeJob, ProcessJob, NodeWritten, Committed, CommitFailed,
       OfferEdge, OfferGivesUp, PopDerivedTime, RecordProcessed
  <1>3. CASE ProjectStep \/ ProjectorStops \/ Pressure \/ Shutdown
    BY <1>3 DEF ProjectStep, ProjectorStops, TakeEdge, EndProjection, Pressure, Shutdown
  <1>4. ASSUME NEW l \in WriteLanes, WriteBegins(l) \/ WriteRetries(l)
        PROVE  UNCHANGED <<mqttVars, dispatcher>>
    BY <1>4 DEF WriteBegins, WriteRetries
  <1>5. CASE DispatchStops
    BY <1>5 DEF DispatchStops
  <1>6. CASE UNCHANGED ingestVars
    BY <1>6 DEF ingestVars
  <1>7. QED BY <1>1, <1>2, <1>3, <1>4, <1>5, <1>6 DEF IngestNext

(* Submission appends to queue and list, in two steps that the mutex makes  *)
(* one for the dispatcher's pop.                                            *)
LEMMA MqttTimesStep ==
  ASSUME IngestTypeOK, HandsFull, IngestTypeOK', HandsFull', MqttTimesMatch, [IngestNext]_ingestVars
  PROVE  MqttTimesMatch'
  <1> DEFINE hand == Held(dispatcher, {"received"})
  <1>1. /\ mqttQueue \in Seq(Messages) /\ mqttTimes \in Seq(Messages)
        /\ mqttTimes' \in Seq(Messages) /\ hand \in Seq(Messages) /\ <<>> \in Seq(Messages)
    BY DEF IngestTypeOK, HandsFull, InHand, Held
  <1>2. Nothing \notin Messages
    BY NothingAssumption DEF NothingAssumption
  <1>3. ASSUME NEW m \in Messages, Submit(m) PROVE MqttTimesMatch'
    <2>1. /\ submitting = Nothing /\ submitting' = m
          /\ mqttQueue' = Append(mqttQueue, m)
          /\ mqttTimes' = mqttTimes /\ dispatcher' = dispatcher
      BY <1>3 DEF Submit
    <2>2. mqttTimes = hand \o mqttQueue
      BY <1>1, <2>1, ConcatEmptySeq DEF MqttTimesMatch
    <2> HIDE DEF hand
    <2>3. mqttTimes \o <<m>> = hand \o Append(mqttQueue, m)
      BY <1>1, <2>2, ConcatAssociative, ConsFacts
    <2>4. mqttTimes' \o <<submitting'>> = hand' \o mqttQueue'
      BY <2>1, <2>3 DEF hand
    <2>5. QED BY <1>2, <2>1, <2>4 DEF MqttTimesMatch, hand
  <1>4. CASE SubmitCounted
    <2>1. /\ submitting \in Messages /\ submitting' = Nothing
          /\ mqttTimes' = Append(mqttTimes, submitting)
          /\ mqttQueue' = mqttQueue /\ dispatcher' = dispatcher
      BY <1>4 DEF SubmitCounted, IngestTypeOK
    <2>2. mqttTimes \o <<submitting>> = hand \o mqttQueue
      BY <1>2, <2>1 DEF MqttTimesMatch
    <2> HIDE DEF hand
    <2>3. Append(mqttTimes, submitting) = mqttTimes \o <<submitting>>
      BY <1>1, <2>1, ConsFacts
    <2>4. mqttTimes' = hand \o mqttQueue
      BY <2>1, <2>2, <2>3, Zenon
    <2>5. mqttTimes' \o <<>> = hand' \o mqttQueue'
      BY <1>1, <2>1, <2>4, ConcatEmptySeq DEF hand
    <2>6. QED BY <2>1, <2>5 DEF MqttTimesMatch, hand
  <1>5. CASE TakeMessage
    <2>1. /\ mqttQueue # <<>> /\ hand = <<>> /\ hand' = <<Head(mqttQueue)>>
          /\ mqttQueue' = Tail(mqttQueue) /\ UNCHANGED <<mqttTimes, submitting>>
      BY <1>5 DEF TakeMessage, At, Held
    <2>2. mqttQueue = <<Head(mqttQueue)>> \o Tail(mqttQueue)
      BY <1>1, <2>1, HeadFacts
    <2>3. hand \o mqttQueue = hand' \o mqttQueue'
      BY <1>1, <2>1, <2>2, ConcatEmptySeq
    <2>4. QED BY <2>1, <2>3 DEF MqttTimesMatch
  <1>6. CASE Handle
    <2>1. /\ submitting = Nothing /\ submitting' = Nothing
          /\ dispatcher.msg \in Messages /\ hand = <<dispatcher.msg>>
          /\ hand' = <<>> /\ mqttQueue' = mqttQueue /\ mqttTimes' = DropFirst(mqttTimes)
      BY <1>6 DEF Handle, HandsFull, InHand, Held, Resting, At
    <2>2. mqttTimes = <<dispatcher.msg>> \o mqttQueue
      BY <1>1, <2>1, ConcatEmptySeq DEF MqttTimesMatch
    <2>3. mqttTimes' = mqttQueue
      BY <1>1, <2>1, <2>2, ConsFacts DEF DropFirst
    <2>4. mqttTimes' \o <<>> = hand' \o mqttQueue'
      BY <1>1, <2>1, <2>3, ConcatEmptySeq
    <2>5. QED BY <2>1, <2>4 DEF MqttTimesMatch
  <1>7. CASE UNCHANGED <<mqttQueue, mqttTimes, submitting>> /\ hand' = hand
    BY <1>7 DEF MqttTimesMatch
  <1>8. QED BY <1>3, <1>4, <1>5, <1>6, <1>7, MqttCases DEF mqttVars, Held

(* A message that was sent and not yet counted is still in the client.      *)
LEMMA UncountedIsThere ==
  ASSUME NEW queue \in Seq(Messages), NEW times \in Seq(Messages), NEW m \in Messages, NEW hand,
         times \o <<m>> = hand \o queue
  PROVE  queue # <<>> \/ hand # <<>>
  <1>1. <<>> \in Seq(Messages) /\ <<>> \o <<>> = <<>>
    BY ConcatEmptySeq
  <1>2. times \o <<m>> # <<>>
    BY FrontFacts
  <1>3. QED BY <1>1, <1>2

LEMMA InFlightStep ==
  ASSUME IngestTypeOK, HandsFull, IngestTypeOK', HandsFull', MqttTimesMatch', InFlightExact,
         [IngestNext]_ingestVars
  PROVE  InFlightExact'
  <1> USE NothingAssumption DEF NothingAssumption, IngestTypeOK, InFlightExact, mqttVars
  <1> DEFINE uncounted == IF submitting = Nothing THEN 0 ELSE 1
             inHand == IF dispatcher.pc \in {"idle", "stopped"} THEN 0 ELSE 1
  <1>1. Len(mqttQueue) \in Nat /\ outstanding = Len(mqttQueue) + inHand - uncounted
    OBVIOUS
  <1>2. outstanding' = Len(mqttQueue') + inHand' - uncounted'
    <2>1. ASSUME NEW m \in Messages, Submit(m) PROVE outstanding' = Len(mqttQueue') + inHand' - uncounted'
      <3>1. Len(mqttQueue') = Len(mqttQueue) + 1
        BY <2>1, AppendProperties DEF Submit
      <3>2. submitting = Nothing /\ submitting' # Nothing /\ outstanding' = outstanding
            /\ dispatcher' = dispatcher
        BY <2>1 DEF Submit
      <3>3. QED BY <1>1, <3>1, <3>2
    <2>2. CASE SubmitCounted
      BY <1>1, <2>2 DEF SubmitCounted
    <2>3. CASE TakeMessage
      <3>1. Len(mqttQueue') = Len(mqttQueue) - 1
        BY <2>3, HeadTailProperties DEF TakeMessage
      <3>2. dispatcher.pc = "idle" /\ dispatcher'.pc = "received"
            /\ submitting' = submitting /\ outstanding' = outstanding
        BY <2>3 DEF TakeMessage, At
      <3>3. inHand = 0 /\ inHand' = 1 /\ uncounted' = uncounted /\ uncounted \in {0, 1}
        BY <3>2
      <3> HIDE DEF inHand, uncounted, IngestTypeOK, InFlightExact
      <3>4. QED BY <1>1, <3>1, <3>2, <3>3
    <2>4. CASE Handle
      BY <1>1, <2>4 DEF Handle, Resting, At
    <2>5. CASE /\ dispatcher.pc \in {"writing", "persisted", "blocked"}
               /\ dispatcher'.pc \in {"persisted", "blocked"} /\ outstanding' = outstanding
               /\ UNCHANGED <<mqttQueue, mqttTimes, submitting>>
      BY <1>1, <2>5
    <2>6. CASE /\ dispatcher.pc \in {"writing", "persisted", "blocked"}
               /\ dispatcher'.pc = "idle" /\ outstanding' = outstanding - 1
               /\ UNCHANGED <<mqttQueue, mqttTimes, submitting>>
      BY <1>1, <2>6
    <2>7. CASE UNCHANGED mqttVars /\ inHand' = inHand
      BY <1>1, <2>7
    <2>8. QED BY <2>1, <2>2, <2>3, <2>4, <2>5, <2>6, <2>7, MqttCases
  <1>3. submitting' # Nothing => mqttQueue' # <<>> \/ dispatcher'.pc = "received"
    <2>1. SUFFICES ASSUME submitting' # Nothing, dispatcher'.pc # "received" PROVE mqttQueue' # <<>>
      OBVIOUS
    <2>2. mqttTimes' \o <<submitting'>> = <<>> \o mqttQueue'
      BY <2>1 DEF MqttTimesMatch, Held
    <2>3. mqttQueue' \in Seq(Messages) /\ mqttTimes' \in Seq(Messages) /\ submitting' \in Messages
      BY <2>1
    <2>4. QED BY <2>2, <2>3, UncountedIsThere
  <1>4. Len(mqttQueue') \in Nat /\ (mqttQueue' # <<>> => Len(mqttQueue') > 0)
    BY EmptySeq
  <1>5. outstanding' >= 0
    BY <1>2, <1>3, <1>4
  <1>6. QED BY <1>2, <1>5

-----------------------------------------------------------------------------
(* A time list is hand, queue and blocked producer.  What the producer does. *)
LEMMA ProducerFacts ==
  ASSUME NEW h \in Seq(Messages), NEW q \in Seq(Messages), NEW m \in Messages
  PROVE  /\ Append(h \o q \o <<>>, m) = h \o Append(q, m) \o <<>>
         /\ Append(h \o q \o <<>>, m) = h \o q \o <<m>>
         /\ h \o q \o <<m>> = h \o Append(q, m) \o <<>>
  <1>1. /\ <<m>> \in Seq(Messages) /\ h \o q \in Seq(Messages)
        /\ Append(q, m) \in Seq(Messages) /\ h \o Append(q, m) \in Seq(Messages)
    BY ConcatProperties, AppendProperties
  <1>2. h \o q \o <<>> = h \o q /\ h \o Append(q, m) \o <<>> = h \o Append(q, m)
    BY <1>1, ConcatEmptySeq
  <1>3. Append(h \o q, m) = h \o q \o <<m>> /\ Append(q, m) = q \o <<m>>
    BY <1>1, ConsFacts
  <1>4. h \o q \o <<m>> = h \o (q \o <<m>>)
    BY <1>1, ConcatAssociative
  <1>5. QED BY <1>2, <1>3, <1>4

(* What the consumer does: it takes the head, and later pops its time.      *)
LEMMA TakeFacts ==
  ASSUME NEW q \in Seq(Messages), NEW b \in Seq(Messages), q # <<>>
  PROVE  <<>> \o q \o b = <<Head(q)>> \o Tail(q) \o b
  BY HeadFacts, ConcatEmptySeq

LEMMA PopFacts ==
  ASSUME NEW q \in Seq(Messages), NEW b \in Seq(Messages), NEW m \in Messages
  PROVE  DropFirst(<<m>> \o q \o b) = <<>> \o q \o b
  <1>1. <<m>> \in Seq(Messages) /\ q \o b \in Seq(Messages)
    BY ConcatProperties
  <1>2. <<m>> \o q \o b = <<m>> \o (q \o b) /\ <<>> \o q = q
    BY <1>1, ConcatAssociative, ConcatEmptySeq
  <1>3. <<m>> \o (q \o b) # <<>> /\ Tail(<<m>> \o (q \o b)) = q \o b
    BY <1>1, ConsFacts
  <1>4. QED BY <1>2, <1>3 DEF DropFirst

(* Shutdown is final. *)
LEMMA ShutdownIsFinal ==
  ASSUME IngestTypeOK, [IngestNext]_ingestVars, ~stopping'
  PROVE  ~stopping
  BY DEF IngestNext, Submit, SubmitCounted, DispatchStep, TakeMessage, Handle, Persisted,
     PersistFailed, EnqueueDerived, BlockedSends, BlockedGivesUp, DispatchStops, DeriveStep,
     TakeJob, ProcessJob, NodeWritten, Committed, CommitFailed, OfferEdge, OfferGivesUp,
     PopDerivedTime, RecordProcessed, DeriverStops, ProjectStep, TakeEdge, EndProjection,
     ProjectorStops, WriteBegins, WriteRetries, Pressure, Shutdown, ingestVars

(* The derived queue: what touches it, its times, its worker's hand or a    *)
(* blocked dispatcher while nothing shuts down.                             *)
LEMMA DerivedCases ==
  ASSUME IngestTypeOK, [IngestNext]_ingestVars, ~stopping'
  PROVE  \/ EnqueueDerived \/ BlockedSends \/ TakeJob \/ PopDerivedTime \/ RecordProcessed
         \/ /\ UNCHANGED <<derivedQueue, derivedTimes, derivedAge, ageRead>>
            /\ Held(deriver, Working)' = Held(deriver, Working)
            /\ Held(dispatcher, {"blocked"})' = Held(dispatcher, {"blocked"})
            /\ deriver'.pc = "recording" <=> deriver.pc = "recording"
  <1> USE DEF derivedVars, Resting, Stopped, At, Held, Working
  <1>1. ~stopping
    BY ShutdownIsFinal
  <1>2. CASE (\E m \in Messages : Submit(m)) \/ SubmitCounted
    BY <1>2 DEF Submit, SubmitCounted
  <1>3. CASE TakeMessage \/ Handle \/ Persisted \/ PersistFailed
    BY <1>3 DEF TakeMessage, Handle, Persisted, PersistFailed
  <1>4. CASE ProcessJob
    BY <1>4 DEF ProcessJob
  <1>5. CASE NodeWritten \/ Committed \/ CommitFailed \/ OfferEdge
    BY <1>5 DEF NodeWritten, Committed, CommitFailed, OfferEdge
  <1>6. CASE ProjectStep \/ Pressure
    BY <1>6 DEF ProjectStep, TakeEdge, EndProjection, Pressure
  <1>7. ASSUME NEW l \in WriteLanes, WriteBegins(l) \/ WriteRetries(l)
        PROVE  UNCHANGED <<derivedVars, deriver, dispatcher>>
    BY <1>7 DEF WriteBegins, WriteRetries
  <1>8. CASE UNCHANGED ingestVars
    BY <1>8 DEF ingestVars
  <1>9. ~(BlockedGivesUp \/ OfferGivesUp \/ DispatchStops \/ DeriverStops \/ ProjectorStops \/ Shutdown)
    BY <1>1 DEF BlockedGivesUp, OfferGivesUp, DispatchStops, DeriverStops, ProjectorStops, Shutdown
  <1>10. QED
    BY <1>2, <1>3, <1>4, <1>5, <1>6, <1>7, <1>8, <1>9
       DEF IngestNext, DispatchStep, DeriveStep

LEMMA DerivedTimesStep ==
  ASSUME IngestTypeOK, HandsFull, TimesMatchWork, [IngestNext]_ingestVars, ~stopping'
  PROVE  DerivedTimesMatch'
  <1> DEFINE h == Held(deriver, Working)
             b == Held(dispatcher, {"blocked"})
             m == dispatcher.msg
  <1>1. /\ derivedQueue \in Seq(Messages) /\ h \in Seq(Messages) /\ b \in Seq(Messages)
        /\ <<>> \in Seq(Messages)
    BY DEF IngestTypeOK, HandsFull, InHand, Working, Held
  <1>2. derivedTimes = h \o derivedQueue \o b
    BY ShutdownIsFinal DEF TimesMatchWork, DerivedTimesMatch, Working
  <1>3. SUFFICES derivedTimes' = h' \o derivedQueue' \o b'
    BY DEF DerivedTimesMatch, Working
  <1>4. CASE EnqueueDerived
    <2>1. m \in Messages /\ derivedTimes' = Append(derivedTimes, m) /\ b = <<>> /\ h' = h
      BY <1>4 DEF EnqueueDerived, HandsFull, InHand, Held
    <2>2. \/ derivedQueue' = Append(derivedQueue, m) /\ b' = <<>>
          \/ derivedQueue' = derivedQueue /\ b' = <<m>>
      BY <1>4 DEF EnqueueDerived, Resting, At, Held
    <2> HIDE DEF h, b, m
    <2>3. /\ Append(derivedTimes, m) = h \o Append(derivedQueue, m) \o <<>>
          /\ Append(derivedTimes, m) = h \o derivedQueue \o <<m>>
      BY <1>1, <1>2, <2>1, ProducerFacts
    <2>4. QED BY <1>2, <2>1, <2>2, <2>3
  <1>5. CASE BlockedSends
    <2>1. /\ m \in Messages /\ b = <<m>> /\ b' = <<>> /\ h' = h
          /\ derivedTimes' = derivedTimes /\ derivedQueue' = Append(derivedQueue, m)
      BY <1>5 DEF BlockedSends, HandsFull, InHand, Held, Resting, At
    <2> HIDE DEF h, b, m
    <2>2. QED BY <1>1, <1>2, <2>1, ProducerFacts
  <1>6. CASE TakeJob
    <2>1. /\ derivedQueue # <<>> /\ h = <<>> /\ h' = <<Head(derivedQueue)>> /\ b' = b
          /\ derivedTimes' = derivedTimes /\ derivedQueue' = Tail(derivedQueue)
      BY <1>6 DEF TakeJob, Working, Held, At
    <2>2. Head(derivedQueue) \in Messages
      BY <1>1, <2>1, HeadFacts
    <2> HIDE DEF h, b, m
    <2>3. QED BY <1>1, <1>2, <2>1, <2>2, TakeFacts
  <1>7. CASE PopDerivedTime
    <2>1. /\ deriver.msg \in Messages /\ h = <<deriver.msg>> /\ h' = <<>> /\ b' = b
          /\ derivedTimes' = DropFirst(derivedTimes) /\ derivedQueue' = derivedQueue
      BY <1>7 DEF PopDerivedTime, HandsFull, Working, Held, At
    <2> HIDE DEF h, b, m
    <2>2. QED BY <1>1, <1>2, <2>1, PopFacts
  <1>8. CASE RecordProcessed
    <2>1. /\ derivedQueue' = derivedQueue /\ derivedTimes' = derivedTimes /\ h' = h /\ b' = b
      BY <1>8 DEF RecordProcessed, Working, Held, Resting, At
    <2>2. QED BY <1>2, <2>1
  <1>9. CASE UNCHANGED <<derivedQueue, derivedTimes>> /\ h' = h /\ b' = b
    BY <1>2, <1>9
  <1>10. QED BY <1>4, <1>5, <1>6, <1>7, <1>8, <1>9, DerivedCases

(* The age is recorded from a list that only its reader shortens.           *)
LEMMA AgeStep ==
  ASSUME IngestTypeOK, HandsFull, AgeFollows, [IngestNext]_ingestVars
  PROVE  AgeFollows'
  <1> SUFFICES ASSUME ~stopping', ~(derivedTimes' # <<>>)
               PROVE  IF deriver'.pc = "recording" THEN ~ageRead' ELSE ~derivedAge'
    BY DEF AgeFollows
  <1>1. ~stopping
    BY ShutdownIsFinal
  <1>2. CASE EnqueueDerived
    <2>1. dispatcher.msg \in Messages /\ derivedTimes \in Seq(Messages)
          /\ derivedTimes' = Append(derivedTimes, dispatcher.msg)
      BY <1>2 DEF EnqueueDerived, IngestTypeOK, HandsFull, InHand
    <2>2. derivedTimes' # <<>>
      BY <2>1, AppendProperties
    <2>3. QED BY <2>2
  <1>3. CASE BlockedSends
    BY <1>1, <1>3 DEF AgeFollows, BlockedSends
  <1>4. CASE TakeJob
    BY <1>1, <1>4 DEF AgeFollows, TakeJob, At
  <1>5. CASE PopDerivedTime
    <2>1. deriver'.pc = "recording" /\ ageRead' = (derivedTimes' # <<>>)
      BY <1>5 DEF PopDerivedTime, At
    <2>2. QED BY <2>1
  <1>6. CASE RecordProcessed
    <2>1. ~ageRead
      BY <1>1, <1>6 DEF AgeFollows, RecordProcessed
    <2>2. deriver'.pc = "idle" /\ derivedAge' = ageRead
      BY <1>6 DEF RecordProcessed, Resting, At
    <2>3. QED BY <2>1, <2>2
  <1>7. CASE /\ UNCHANGED <<derivedTimes, derivedAge, ageRead>>
             /\ deriver'.pc = "recording" <=> deriver.pc = "recording"
    BY <1>1, <1>7 DEF AgeFollows
  <1>8. QED BY <1>2, <1>3, <1>4, <1>5, <1>6, <1>7, DerivedCases

-----------------------------------------------------------------------------
(* The edge queue, likewise.                                                *)
LEMMA EdgeCases ==
  ASSUME IngestTypeOK, [IngestNext]_ingestVars, ~stopping'
  PROVE  \/ Committed \/ OfferEdge \/ TakeEdge \/ EndProjection
         \/ /\ UNCHANGED <<edgeQueue, edgeTimes>>
            /\ Held(projector, {"writing"})' = Held(projector, {"writing"})
            /\ Held(deriver, {"offering"})' = Held(deriver, {"offering"})
  <1> USE DEF edgeVars, Resting, Stopped, At, Held
  <1>1. ~stopping
    BY ShutdownIsFinal
  <1>2. CASE (\E m \in Messages : Submit(m)) \/ SubmitCounted
    BY <1>2 DEF Submit, SubmitCounted
  <1>3. CASE DispatchStep
    BY <1>3 DEF DispatchStep, TakeMessage, Handle, Persisted, PersistFailed, EnqueueDerived,
       BlockedSends, BlockedGivesUp
  <1>4. CASE TakeJob \/ ProcessJob
    BY <1>4 DEF TakeJob, ProcessJob
  <1>5. CASE NodeWritten \/ CommitFailed \/ PopDerivedTime \/ RecordProcessed
    BY <1>5 DEF NodeWritten, CommitFailed, PopDerivedTime, RecordProcessed
  <1>6. CASE Pressure
    BY <1>6 DEF Pressure
  <1>7. ASSUME NEW l \in WriteLanes, WriteBegins(l) \/ WriteRetries(l)
        PROVE  UNCHANGED <<edgeVars, deriver, projector>>
    BY <1>7 DEF WriteBegins, WriteRetries
  <1>8. CASE UNCHANGED ingestVars
    BY <1>8 DEF ingestVars
  <1>9. ~(OfferGivesUp \/ DispatchStops \/ DeriverStops \/ ProjectorStops \/ Shutdown)
    BY <1>1 DEF OfferGivesUp, DispatchStops, DeriverStops, ProjectorStops, Shutdown
  <1>10. QED
    BY <1>2, <1>3, <1>4, <1>5, <1>6, <1>7, <1>8, <1>9
       DEF IngestNext, DeriveStep, ProjectStep

LEMMA EdgeTimesStep ==
  ASSUME IngestTypeOK, HandsFull, TimesMatchWork, [IngestNext]_ingestVars, ~stopping'
  PROVE  EdgeTimesMatch'
  <1> DEFINE h == Held(projector, {"writing"})
             b == Held(deriver, {"offering"})
             m == deriver.msg
  <1>1. /\ edgeQueue \in Seq(Messages) /\ h \in Seq(Messages) /\ b \in Seq(Messages)
        /\ <<>> \in Seq(Messages)
    BY DEF IngestTypeOK, HandsFull, Working, Held
  <1>2. edgeTimes = h \o edgeQueue \o b
    BY ShutdownIsFinal DEF TimesMatchWork, EdgeTimesMatch
  <1>3. SUFFICES edgeTimes' = h' \o edgeQueue' \o b'
    BY DEF EdgeTimesMatch
  <1>4. CASE Committed
    <2>1. m \in Messages /\ b = <<>> /\ h' = h /\ edgeQueue' = edgeQueue
      BY <1>4 DEF Committed, HandsFull, Working, Held
    <2>2. \/ edgeTimes' = edgeTimes /\ b' = <<>>
          \/ edgeTimes' = Append(edgeTimes, m) /\ b' = <<m>>
      BY <1>4 DEF Committed, At, Held
    <2> HIDE DEF h, b, m
    <2>3. /\ Append(edgeTimes, m) = h \o Append(edgeQueue, m) \o <<>>
          /\ Append(edgeTimes, m) = h \o edgeQueue \o <<m>>
      BY <1>1, <1>2, <2>1, ProducerFacts
    <2>4. QED BY <1>2, <2>1, <2>2, <2>3
  <1>5. CASE OfferEdge
    <2>1. /\ m \in Messages /\ b = <<m>> /\ b' = <<>> /\ h' = h
          /\ edgeTimes' = edgeTimes /\ edgeQueue' = Append(edgeQueue, m)
      BY <1>5 DEF OfferEdge, HandsFull, Working, Held, At
    <2> HIDE DEF h, b, m
    <2>2. QED BY <1>1, <1>2, <2>1, ProducerFacts
  <1>6. CASE TakeEdge
    <2>1. /\ edgeQueue # <<>> /\ h = <<>> /\ h' = <<Head(edgeQueue)>> /\ b' = b
          /\ edgeTimes' = edgeTimes /\ edgeQueue' = Tail(edgeQueue)
      BY <1>6 DEF TakeEdge, Held, At
    <2>2. Head(edgeQueue) \in Messages
      BY <1>1, <2>1, HeadFacts
    <2> HIDE DEF h, b, m
    <2>3. QED BY <1>1, <1>2, <2>1, <2>2, TakeFacts
  <1>7. CASE EndProjection
    <2>1. /\ projector.msg \in Messages /\ h = <<projector.msg>> /\ h' = <<>> /\ b' = b
          /\ edgeTimes' = DropFirst(edgeTimes) /\ edgeQueue' = edgeQueue
      BY <1>7 DEF EndProjection, HandsFull, Held, Resting, At
    <2> HIDE DEF h, b, m
    <2>2. QED BY <1>1, <1>2, <2>1, PopFacts
  <1>8. CASE UNCHANGED <<edgeQueue, edgeTimes>> /\ h' = h /\ b' = b
    BY <1>2, <1>8
  <1>9. QED BY <1>4, <1>5, <1>6, <1>7, <1>8, EdgeCases

-----------------------------------------------------------------------------
LEMMA InvStep ==
  IngestInv /\ [IngestNext]_ingestVars => IngestInv'
  <1> SUFFICES ASSUME IngestInv, [IngestNext]_ingestVars PROVE IngestInv'
    OBVIOUS
  <1> USE DEF IngestInv
  <1>1. IngestTypeOK' /\ HandsFull'
    BY TypeStep
  <1>2. MqttTimesMatch'
    BY <1>1, MqttTimesStep DEF TimesMatchWork
  <1>3. TimesMatchWork'
    <2>1. ~stopping' => DerivedTimesMatch' /\ EdgeTimesMatch'
      BY DerivedTimesStep, EdgeTimesStep
    <2>2. QED BY <1>2, <2>1 DEF TimesMatchWork
  <1>4. InFlightExact'
    BY <1>1, <1>2, InFlightStep
  <1>5. AgeFollows'
    BY AgeStep
  <1>6. QED BY <1>1, <1>3, <1>4, <1>5

THEOREM IngestSafety == IngestSpec => []IngestInv
  <1>1. IngestInit => IngestInv
    BY InvInit
  <1>2. IngestInv /\ [IngestNext]_ingestVars => IngestInv'
    BY InvStep
  <1>3. QED BY <1>1, <1>2, PTL DEF IngestSpec

(* The counters agree with the client's content. *)
THEOREM CountsExact == IngestSpec => []InFlightExact
  <1>1. IngestInv => InFlightExact
    BY DEF IngestInv
  <1>2. QED BY <1>1, IngestSafety, PTL

(* Each time list is the content of its queue, hands included. *)
THEOREM TimesExact == IngestSpec => []TimesMatchWork
  <1>1. IngestInv => TimesMatchWork
    BY DEF IngestInv
  <1>2. QED BY <1>1, IngestSafety, PTL

(* The reported age ends with the work. *)
THEOREM AgeEndsWithWork == IngestSpec => []AgeClears
  <1>1. IngestInv => AgeClears
    BY DEF IngestInv, AgeFollows, AgeClears
  <1>2. QED BY <1>1, IngestSafety, PTL

THEOREM IngestTypeCorrect == IngestSpec => []IngestTypeOK
  <1>1. IngestInv => IngestTypeOK
    BY DEF IngestInv
  <1>2. QED BY <1>1, IngestSafety, PTL

-----------------------------------------------------------------------------
(* The pipeline implements IngestFifo.  What each stage holds:              *)
Handling == Held(dispatcher, {"received", "writing"})
Entering == Held(dispatcher, {"persisted", "blocked"})
Deriving == Held(deriver, {"held", "node", "nodeEvent", "event", "commit"})
Offering == Held(deriver, {"offering"})
Projecting == Held(projector, {"writing"})

Unmoved == UNCHANGED <<mqttQueue, derivedQueue, edgeQueue, stopping,
                       Handling, Entering, Deriving, Offering, Projecting>>

LEMMA StageInit ==
  IngestInit => Fifo!FifoInit
  <1>1. <<>> \o <<>> = <<>>
    BY ConcatEmptySeq
  <1>2. QED BY <1>1 DEF IngestInit, Fifo!FifoInit, Resting, At, Held

LEMMA UnmovedStutters ==
  Unmoved => UNCHANGED Fifo!fifoVars
  BY DEF Unmoved, Handling, Entering, Deriving, Offering, Projecting, Fifo!fifoVars

(* Submission and the dispatcher. *)
LEMMA DispatchMaps ==
  ASSUME IngestInv,
         \/ \E m \in Messages : Submit(m)
         \/ SubmitCounted \/ DispatchStep \/ DispatchStops
  PROVE  [Fifo!FifoNext]_(Fifo!fifoVars)
  <1> USE DEF Held, Handling, Entering, Deriving, Offering, Projecting, mqttVars, edgeVars, derivedVars,
              Resting, Stopped, At
  <1>1. /\ derivedQueue \in Seq(Messages) /\ Len(derivedQueue) <= DerivedCap
        /\ dispatcher.pc \in InHand => dispatcher.msg \in Messages
        /\ <<>> \in Seq(Messages) /\ DerivedCap \in Nat /\ Len(derivedQueue) \in Nat
    BY IngestCapAssumption DEF IngestInv, IngestTypeOK, HandsFull, IngestCapAssumption
  <1>2. derivedQueue \o <<>> = derivedQueue
    BY <1>1, ConcatEmptySeq
  <1>3. ASSUME NEW m \in Messages, Submit(m) PROVE Fifo!Accept(m)
    BY <1>3 DEF Submit, Fifo!Accept
  <1>4. CASE SubmitCounted \/ DispatchStops
    <2>1. Unmoved
      BY <1>4 DEF SubmitCounted, DispatchStops, Unmoved
    <2>2. QED BY <2>1, UnmovedStutters
  <1>5. CASE TakeMessage
    <2>1. Fifo!Take
      BY <1>5 DEF TakeMessage, Fifo!Take
    <2>2. QED BY <2>1 DEF Fifo!FifoNext
  <1>6. CASE Handle
    <2>1. CASE dispatcher' = Resting
      <3>1. Fifo!Reject
        BY <1>6, <2>1 DEF Handle, Fifo!Reject
      <3>2. QED BY <3>1 DEF Fifo!FifoNext
    <2>2. CASE dispatcher' = At("writing", dispatcher.msg)
      <3>1. Unmoved
        BY <1>6, <2>2 DEF Handle, Unmoved
      <3>2. QED BY <3>1, UnmovedStutters
    <2>3. QED BY <1>6, <2>1, <2>2 DEF Handle
  <1>7. CASE Persisted
    <2>1. /\ dispatcher.msg \in Messages /\ Handling = <<dispatcher.msg>> /\ Handling' = <<>>
          /\ Entering = <<>> /\ Entering' = <<dispatcher.msg>>
          /\ UNCHANGED <<mqttQueue, derivedQueue, edgeQueue, stopping, Deriving, Offering, Projecting>>
      BY <1>1, <1>7 DEF Persisted, InHand
    <2> HIDE DEF Handling, Entering, Deriving, Offering, Projecting
    <2>2. derivedQueue \o Entering = derivedQueue /\ Len(derivedQueue \o Entering) < DerivedCap + 1
      BY <1>1, <1>2, <2>1
    <2>3. Fifo!Persist
      BY <2>1, <2>2 DEF Fifo!Persist, Handling, Entering, Deriving, Offering, Projecting
    <2>4. QED BY <2>3 DEF Fifo!FifoNext
  <1>8. CASE PersistFailed
    <2>1. Fifo!Reject
      BY <1>8 DEF PersistFailed, Fifo!Reject
    <2>2. QED BY <2>1 DEF Fifo!FifoNext
  <1>9. CASE EnqueueDerived \/ BlockedSends
    <2>1. /\ dispatcher.msg \in Messages /\ Entering = <<dispatcher.msg>>
          /\ UNCHANGED <<mqttQueue, edgeQueue, stopping, Handling, Deriving, Offering, Projecting>>
          /\ \/ derivedQueue' = Append(derivedQueue, dispatcher.msg) /\ Entering' = <<>>
             \/ derivedQueue' = derivedQueue /\ Entering' = Entering
      BY <1>1, <1>9 DEF EnqueueDerived, BlockedSends, InHand
    <2> HIDE DEF Handling, Entering, Deriving, Offering, Projecting
    <2>2. (derivedQueue \o Entering)' = derivedQueue \o Entering
      <3>1. /\ Append(derivedQueue, dispatcher.msg) \in Seq(Messages)
            /\ Append(derivedQueue, dispatcher.msg) = derivedQueue \o <<dispatcher.msg>>
        BY <1>1, <2>1, AppendProperties, AppendIsConcat
      <3>2. Append(derivedQueue, dispatcher.msg) \o <<>> = Append(derivedQueue, dispatcher.msg)
        BY <3>1, ConcatEmptySeq
      <3>3. QED BY <2>1, <3>1, <3>2
    <2>3. UNCHANGED Fifo!fifoVars
      BY <2>1, <2>2 DEF Fifo!fifoVars, Handling, Entering, Deriving, Offering, Projecting
    <2>4. QED BY <2>3
  <1>10. CASE BlockedGivesUp
    <2>1. /\ dispatcher.msg \in Messages /\ Entering = <<dispatcher.msg>> /\ Entering' = <<>> /\ stopping
          /\ UNCHANGED <<mqttQueue, derivedQueue, edgeQueue, stopping, Handling, Deriving, Offering, Projecting>>
      BY <1>1, <1>10 DEF BlockedGivesUp, InHand
    <2> HIDE DEF Handling, Entering, Deriving, Offering, Projecting
    <2>2. /\ derivedQueue \o Entering # <<>>
          /\ derivedQueue' \o Entering' = SubSeq(derivedQueue \o Entering, 1, Len(derivedQueue \o Entering) - 1)
      BY <1>1, <1>2, <2>1, FrontFacts
    <2>3. Fifo!Abandon
      BY <2>1, <2>2 DEF Fifo!Abandon, Fifo!Front, Handling, Entering, Deriving, Offering, Projecting
    <2>4. QED BY <2>3 DEF Fifo!FifoNext
  <1>11. QED
    BY <1>3, <1>4, <1>5, <1>6, <1>7, <1>8, <1>9, <1>10 DEF DispatchStep, Fifo!FifoNext

(* The worker. *)
LEMMA DeriveMaps ==
  ASSUME IngestInv, DeriveStep \/ DeriverStops
  PROVE  [Fifo!FifoNext]_(Fifo!fifoVars)
  <1> USE DEF Held, Handling, Entering, Deriving, Offering, Projecting, mqttVars, edgeVars, derivedVars,
              Resting, Stopped, At
  <1>1. /\ derivedQueue \in Seq(Messages) /\ edgeQueue \in Seq(Messages) /\ Len(edgeQueue) <= EdgeCap
        /\ deriver.pc \in Working => deriver.msg \in Messages
        /\ Entering \in Seq(Messages)
        /\ <<>> \in Seq(Messages) /\ EdgeCap \in Nat /\ Len(edgeQueue) \in Nat
    BY IngestCapAssumption DEF IngestInv, IngestTypeOK, HandsFull, IngestCapAssumption, InHand
  <1>2. edgeQueue \o <<>> = edgeQueue
    BY <1>1, ConcatEmptySeq
  <1>3. CASE TakeJob
    <2>1. /\ derivedQueue # <<>> /\ derivedQueue' = Tail(derivedQueue)
          /\ Deriving = <<>> /\ Deriving' = <<Head(derivedQueue)>>
          /\ UNCHANGED <<mqttQueue, edgeQueue, stopping, Handling, Entering, Offering, Projecting>>
      BY <1>3 DEF TakeJob
    <2> HIDE DEF Handling, Entering, Deriving, Offering, Projecting
    <2>2. /\ derivedQueue \o Entering # <<>>
          /\ Head(derivedQueue \o Entering) = Head(derivedQueue)
          /\ Tail(derivedQueue \o Entering) = Tail(derivedQueue) \o Entering
      BY <1>1, <2>1, HeadFacts
    <2>3. Fifo!TakePersisted
      BY <2>1, <2>2 DEF Fifo!TakePersisted, Handling, Entering, Deriving, Offering, Projecting
    <2>4. QED BY <2>3 DEF Fifo!FifoNext
  <1>4. CASE /\ Deriving # <<>> /\ Deriving' = <<>>
             /\ UNCHANGED <<mqttQueue, derivedQueue, edgeQueue, stopping, Handling, Entering, Offering, Projecting>>
    <2> HIDE DEF Handling, Entering, Deriving, Offering, Projecting
    <2>1. Fifo!Derive
      BY <1>4 DEF Fifo!Derive, Handling, Entering, Deriving, Offering, Projecting
    <2>2. QED BY <2>1 DEF Fifo!FifoNext
  <1>5. CASE Unmoved
    BY <1>5, UnmovedStutters
  <1>6. CASE ProcessJob
    <2>1. CASE deriver' = At("done", deriver.msg)
      BY <1>4, <1>6, <2>1 DEF ProcessJob
    <2>2. CASE \E pc \in {"event", "node", "commit"} : deriver' = At(pc, deriver.msg)
      BY <1>5, <1>6, <2>2 DEF ProcessJob, Unmoved
    <2>3. QED BY <1>6, <2>1, <2>2 DEF ProcessJob
  <1>7. CASE NodeWritten
    <2>1. CASE deriver.pc = "event" /\ deriver' = At("done", deriver.msg)
      BY <1>4, <1>7, <2>1 DEF NodeWritten
    <2>2. CASE /\ deriver.pc \in {"node", "nodeEvent"}
               /\ \E pc \in {"nodeEvent", "commit"} : deriver' = At(pc, deriver.msg)
      BY <1>5, <1>7, <2>2 DEF NodeWritten, Unmoved
    <2>3. QED BY <1>7, <2>1, <2>2 DEF NodeWritten
  <1>8. CASE Committed
    <2>1. CASE deriver' = At("done", deriver.msg)
      BY <1>4, <1>8, <2>1 DEF Committed
    <2>2. CASE deriver' = At("offering", deriver.msg)
      <3>1. /\ Deriving = <<deriver.msg>> /\ Deriving' = <<>>
            /\ Offering = <<>> /\ Offering' = <<deriver.msg>>
            /\ UNCHANGED <<mqttQueue, derivedQueue, edgeQueue, stopping, Handling, Entering, Projecting>>
        BY <1>8, <2>2 DEF Committed
      <3> HIDE DEF Handling, Entering, Deriving, Offering, Projecting
      <3>2. edgeQueue \o Offering = edgeQueue /\ Len(edgeQueue \o Offering) < EdgeCap + 1
        BY <1>1, <1>2, <3>1
      <3>3. Fifo!Derive
        BY <3>1, <3>2 DEF Fifo!Derive, Handling, Entering, Deriving, Offering, Projecting
      <3>4. QED BY <3>3 DEF Fifo!FifoNext
    <2>3. QED BY <1>8, <2>1, <2>2 DEF Committed
  <1>9. CASE CommitFailed
    BY <1>4, <1>9 DEF CommitFailed
  <1>10. CASE OfferEdge
    <2>1. /\ deriver.msg \in Messages /\ Offering = <<deriver.msg>> /\ Offering' = <<>>
          /\ edgeQueue' = Append(edgeQueue, deriver.msg)
          /\ UNCHANGED <<mqttQueue, derivedQueue, stopping, Handling, Entering, Deriving, Projecting>>
      BY <1>1, <1>10 DEF OfferEdge, Working
    <2> HIDE DEF Handling, Entering, Deriving, Offering, Projecting
    <2>2. (edgeQueue \o Offering)' = edgeQueue \o Offering
      <3>1. /\ Append(edgeQueue, deriver.msg) \in Seq(Messages)
            /\ Append(edgeQueue, deriver.msg) = edgeQueue \o <<deriver.msg>>
        BY <1>1, <2>1, AppendProperties, AppendIsConcat
      <3>2. Append(edgeQueue, deriver.msg) \o <<>> = Append(edgeQueue, deriver.msg)
        BY <3>1, ConcatEmptySeq
      <3>3. QED BY <2>1, <3>1, <3>2
    <2>3. UNCHANGED Fifo!fifoVars
      BY <2>1, <2>2 DEF Fifo!fifoVars, Handling, Entering, Deriving, Offering, Projecting
    <2>4. QED BY <2>3
  <1>11. CASE OfferGivesUp
    <2>1. /\ deriver.msg \in Messages /\ Offering = <<deriver.msg>> /\ Offering' = <<>> /\ stopping
          /\ UNCHANGED <<mqttQueue, derivedQueue, edgeQueue, stopping, Handling, Entering, Deriving, Projecting>>
      BY <1>1, <1>11 DEF OfferGivesUp, Working
    <2> HIDE DEF Handling, Entering, Deriving, Offering, Projecting
    <2>2. /\ edgeQueue \o Offering # <<>>
          /\ edgeQueue' \o Offering' = SubSeq(edgeQueue \o Offering, 1, Len(edgeQueue \o Offering) - 1)
      BY <1>1, <1>2, <2>1, FrontFacts
    <2>3. Fifo!Abandon
      BY <2>1, <2>2 DEF Fifo!Abandon, Fifo!Front, Handling, Entering, Deriving, Offering, Projecting
    <2>4. QED BY <2>3 DEF Fifo!FifoNext
  <1>12. CASE PopDerivedTime \/ RecordProcessed
    BY <1>5, <1>12 DEF PopDerivedTime, RecordProcessed, Unmoved
  <1>13. CASE DeriverStops
    <2>1. CASE deriver.pc = "idle"
      BY <1>5, <1>13, <2>1 DEF DeriverStops, Unmoved
    <2>2. CASE deriver.pc = "held"
      <3>1. /\ Deriving' = <<>> /\ stopping
            /\ UNCHANGED <<mqttQueue, derivedQueue, edgeQueue, stopping, Handling, Entering, Offering, Projecting>>
        BY <1>13, <2>2 DEF DeriverStops
      <3> HIDE DEF Handling, Entering, Deriving, Offering, Projecting
      <3>2. Fifo!Abandon
        BY <3>1 DEF Fifo!Abandon, Handling, Entering, Deriving, Offering, Projecting
      <3>3. QED BY <3>2 DEF Fifo!FifoNext
    <2>3. QED BY <1>13, <2>1, <2>2 DEF DeriverStops
  <1>14. QED
    BY <1>3, <1>6, <1>7, <1>8, <1>9, <1>10, <1>11, <1>12, <1>13 DEF DeriveStep

(* The projector, the writer, pressure and shutdown. *)
LEMMA RestMaps ==
  ASSUME IngestInv,
         \/ ProjectStep \/ ProjectorStops \/ Pressure \/ Shutdown
         \/ \E l \in WriteLanes : WriteBegins(l) \/ WriteRetries(l)
  PROVE  [Fifo!FifoNext]_(Fifo!fifoVars)
  <1> USE DEF Held, Handling, Entering, Deriving, Offering, Projecting, mqttVars, edgeVars, derivedVars,
              Resting, Stopped, At
  <1>1. edgeQueue \in Seq(Messages) /\ Offering \in Seq(Messages)
    BY DEF IngestInv, IngestTypeOK, HandsFull, Working
  <1>2. CASE TakeEdge
    <2>1. /\ edgeQueue # <<>> /\ edgeQueue' = Tail(edgeQueue)
          /\ Projecting = <<>> /\ Projecting' = <<Head(edgeQueue)>>
          /\ UNCHANGED <<mqttQueue, derivedQueue, stopping, Handling, Entering, Deriving, Offering>>
      BY <1>2 DEF TakeEdge
    <2> HIDE DEF Handling, Entering, Deriving, Offering, Projecting
    <2>2. /\ edgeQueue \o Offering # <<>>
          /\ Head(edgeQueue \o Offering) = Head(edgeQueue)
          /\ Tail(edgeQueue \o Offering) = Tail(edgeQueue) \o Offering
      BY <1>1, <2>1, HeadFacts
    <2>3. Fifo!TakeCommitted
      BY <2>1, <2>2 DEF Fifo!TakeCommitted, Handling, Entering, Deriving, Offering, Projecting
    <2>4. QED BY <2>3 DEF Fifo!FifoNext
  <1>3. CASE EndProjection
    <2>1. Fifo!Project
      BY <1>3 DEF EndProjection, Fifo!Project
    <2>2. QED BY <2>1 DEF Fifo!FifoNext
  <1>4. CASE Shutdown
    <2>1. Fifo!Finish
      BY <1>4 DEF Shutdown, Fifo!Finish
    <2>2. QED BY <2>1 DEF Fifo!FifoNext
  <1>5. CASE ProjectorStops \/ Pressure
    <2>1. Unmoved
      BY <1>5 DEF ProjectorStops, Pressure, Unmoved
    <2>2. QED BY <2>1, UnmovedStutters
  <1>6. CASE \E l \in WriteLanes : WriteBegins(l) \/ WriteRetries(l)
    <2>1. Unmoved
      BY <1>6 DEF WriteBegins, WriteRetries, Unmoved
    <2>2. QED BY <2>1, UnmovedStutters
  <1>7. QED BY <1>2, <1>3, <1>4, <1>5, <1>6 DEF ProjectStep

(* Nothing persisted is skipped, overtaken or lost before shutdown. *)
THEOREM PipelineIsLossless == IngestSpec => LosslessStages
  <1>1. IngestInit => Fifo!FifoInit
    BY StageInit
  <1>2. IngestInv /\ [IngestNext]_ingestVars => [Fifo!FifoNext]_(Fifo!fifoVars)
    <2> SUFFICES ASSUME IngestInv, [IngestNext]_ingestVars
                 PROVE  [Fifo!FifoNext]_(Fifo!fifoVars)
      OBVIOUS
    <2>1. CASE UNCHANGED ingestVars
      <3>1. Unmoved
        BY <2>1 DEF ingestVars, mqttVars, derivedVars, edgeVars, Unmoved, Handling, Entering,
           Deriving, Offering, Projecting, Held
      <3>2. QED BY <3>1, UnmovedStutters
    <2>2. QED BY <2>1, DispatchMaps, DeriveMaps, RestMaps DEF IngestNext
  <1>3. QED BY <1>1, <1>2, IngestSafety, PTL DEF IngestSpec, LosslessStages, Fifo!FifoSpec
=============================================================================
