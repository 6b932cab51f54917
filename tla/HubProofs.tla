------------------------------- MODULE HubProofs -------------------------------
(***************************************************************************)
(* Proofs about Hub for every number of connections, addresses and events,  *)
(* every size of the queues and every limit of the admission.               *)
(***************************************************************************)
EXTENDS Hub, FiniteSetTheorems, SequenceTheorems, TLAPS

-----------------------------------------------------------------------------
(* The invariant. *)

\* The handler has registered its connection.
Registered == {"registered", "greeting", "serving", "panicked"}

\* Before that nothing knows of it; a client is torn down once, and its queue is
\* closed with it; between two messages the writer holds none.
StageOK(a) ==
    /\ a \in clients => teardown[a] = "no"
    /\ open[a] <=> teardown[a] = "no"
    /\ a \in clients \/ teardown[a] # "no" \/ a \in fan.targets => stage[a] \in Registered
    /\ stage[a] \notin Registered =>
          queue[a] = <<>> /\ delivered[a] = <<>> /\ hand[a] = Unsequenced
    /\ stage[a] # "serving" => writer[a] = "off" /\ reader[a] = "off"
    /\ writer[a] \in {"off", "ready"} => hand[a] = Unsequenced
StagesOK == \A a \in Attempts : StageOK(a)

\* A broadcast is about the latest sequence; no greeting is ahead of it.
FanOK ==
    /\ fan.announced => fan.targets = {}
    /\ fan.announced \/ fan.targets # {} => latestSeq >= 1
    /\ \A a \in Attempts : greeting[a] <= latestSeq

\* HelloThenStream from the registration on, when the greeting is not yet read.
Whole(a) ==
    /\ Ordered(Stream(a))
    /\ \E first \in 1..(latestSeq + 1) :
          /\ EventsOf(Stream(a)) = first..Due(a)
          /\ stage[a] # "registered" => first <= greeting[a] + 1
StreamsOK == \A a \in clients : ~resetting[a] => Whole(a)

\* Only finitely many connections have been attempted, and each counts as long
\* as it holds its slot.
Holders(ip) == {a \in Attempts : IpOf[a] = ip /\ Holds(a)}
Attempted == {a \in Attempts : stage[a] # "new"}
SlotsOK ==
    /\ IsFiniteSet(Attempted)
    /\ \A ip \in Ips : slots[ip] = Cardinality(Holders(ip))

HubInv == TypeOK /\ StagesOK /\ FanOK /\ SlotsOK /\ StreamsOK

-----------------------------------------------------------------------------
(* Streams. *)

\* Ordered and EventsOf, by the positions of the sequence.
LEMMA ByPosition ==
    ASSUME NEW s \in Seq(Nat)
    PROVE  /\ EventsOf(s) = {s[i] : i \in 1..Len(s)} \ {Unsequenced}
           /\ Ordered(s) <=> \A i, j \in 1..Len(s) :
                i < j /\ s[i] # Unsequenced /\ s[j] # Unsequenced => s[i] < s[j]
<1>1. DOMAIN s = 1..Len(s)
  BY LenProperties
<1> QED BY <1>1, RangeEquality DEF EventsOf, Ordered

\* A stream of two parts: the second one has to begin after the end of the first.
LEMMA TwoParts ==
    ASSUME NEW s \in Seq(Nat), NEW t \in Seq(Nat)
    PROVE  /\ s \o t \in Seq(Nat)
           /\ EventsOf(s \o t) = EventsOf(s) \cup EventsOf(t)
           /\ Ordered(s \o t) <=>
                 /\ Ordered(s) /\ Ordered(t)
                 /\ \A x \in EventsOf(s), y \in EventsOf(t) : x < y
<1> DEFINE u == s \o t
           n == Len(s)
           m == Len(t)
<1>1. n \in Nat /\ m \in Nat
  BY LenProperties
<1>2. /\ u \in Seq(Nat) /\ Len(u) = n + m
      /\ \A i \in 1..n + m : u[i] = IF i <= n THEN s[i] ELSE t[i - n]
  BY ConcatProperties
<1>3. EventsOf(u) = EventsOf(s) \cup EventsOf(t)
  BY <1>2, RangeConcatenation DEF EventsOf
<1> HIDE DEF u
<1>4. /\ \A i \in 1..n : i \in 1..Len(u) /\ u[i] = s[i]
      /\ \A i \in 1..m : i + n \in 1..Len(u) /\ u[i + n] = t[i]
  <2>1. ASSUME NEW i \in 1..n PROVE i \in 1..Len(u) /\ u[i] = s[i]
    <3>1. i \in 1..n + m /\ i <= n
      BY <1>1
    <3> QED BY <1>2, <3>1
  <2>2. ASSUME NEW i \in 1..m PROVE i + n \in 1..Len(u) /\ u[i + n] = t[i]
    <3>1. i + n \in 1..n + m /\ ~(i + n <= n) /\ (i + n) - n = i
      BY <1>1
    <3> QED BY <1>2, <3>1
  <2> QED BY <2>1, <2>2
<1>5. ASSUME Ordered(u)
      PROVE  /\ Ordered(s) /\ Ordered(t)
             /\ \A x \in EventsOf(s), y \in EventsOf(t) : x < y
  <2>1. Ordered(s)
    BY <1>1, <1>2, <1>4, <1>5, ByPosition
  <2>2. Ordered(t)
    <3> SUFFICES ASSUME NEW i \in 1..m, NEW j \in 1..m, i < j,
                        t[i] # Unsequenced, t[j] # Unsequenced
                 PROVE  t[i] < t[j]
      BY ByPosition
    <3>1. i + n < j + n
      BY <1>1
    <3> QED BY <1>2, <1>4, <1>5, <3>1, ByPosition
  <2>3. ASSUME NEW x \in EventsOf(s), NEW y \in EventsOf(t) PROVE x < y
    <3>1. PICK i \in 1..n : s[i] = x /\ x # Unsequenced
      BY ByPosition
    <3>2. PICK j \in 1..m : t[j] = y /\ y # Unsequenced
      BY ByPosition
    <3>3. i < j + n
      BY <1>1
    <3> QED BY <1>2, <1>4, <1>5, <3>1, <3>2, <3>3, ByPosition
  <2> QED BY <2>1, <2>2, <2>3
<1>6. ASSUME Ordered(s), Ordered(t), \A x \in EventsOf(s), y \in EventsOf(t) : x < y
      PROVE  Ordered(u)
  <2> SUFFICES ASSUME NEW i \in 1..Len(u), NEW j \in 1..Len(u), i < j,
                      u[i] # Unsequenced, u[j] # Unsequenced
               PROVE  u[i] < u[j]
    BY <1>2, ByPosition
  <2>1. CASE j <= n
    <3>1. i \in 1..n /\ j \in 1..n
      BY <1>1, <1>2, <2>1
    <3> QED BY <1>4, <1>6, <3>1, ByPosition
  <2>2. CASE i <= n /\ j > n
    <3>1. i \in 1..n /\ j - n \in 1..m /\ (j - n) + n = j
      <4>1. Len(u) = n + m /\ i \in Nat /\ j \in Nat /\ i >= 1 /\ j <= n + m
        BY <1>1, <1>2
      <4> QED BY <1>1, <2>2, <4>1
    <3>2. u[i] = s[i] /\ u[j] = t[j - n]
      BY <1>4, <3>1
    <3>3. u[i] \in EventsOf(s) /\ u[j] \in EventsOf(t)
      BY <3>1, <3>2, ByPosition
    <3> QED BY <1>6, <3>3
  <2>3. CASE i > n
    <3>1. /\ i - n \in 1..m /\ (i - n) + n = i
          /\ j - n \in 1..m /\ (j - n) + n = j
          /\ i - n < j - n
      BY <1>1, <1>2, <2>3
    <3>2. u[i] = t[i - n] /\ u[j] = t[j - n]
      BY <1>4, <3>1
    <3> QED BY <1>6, <3>1, <3>2, ByPosition
  <2> QED BY <1>1, <1>2, <2>1, <2>2, <2>3
<1> QED BY <1>2, <1>3, <1>5, <1>6 DEF u

LEMMA OneMessage ==
    ASSUME NEW m \in Nat
    PROVE  /\ <<m>> \in Seq(Nat)
           /\ EventsOf(<<m>>) = {m} \ {Unsequenced}
           /\ Ordered(<<m>>)
<1> DEFINE one == <<m>>
<1>1. one \in Seq(Nat) /\ Len(one) = 1 /\ one[1] = m
  OBVIOUS
<1>2. 1..1 = {1}
  OBVIOUS
<1> HIDE DEF one
<1>3. 1..Len(one) = {1}
  BY <1>1, <1>2
<1>4. Range(one) = {m}
  BY <1>1, <1>3, RangeEquality
<1>5. Ordered(one)
  BY <1>1, <1>3, ByPosition
<1> QED BY <1>1, <1>4, <1>5 DEF one, EventsOf

\* What the empty stream, a newer event and a message without a sequence, last
\* or in the middle, do to a stream.
LEMMA EmptyStream == <<>> \in Seq(Nat) /\ EventsOf(<<>>) = {} /\ Ordered(<<>>)
<1> DEFINE none == <<>>
<1>1. none \in Seq(Nat) /\ 1..Len(none) = {}
  OBVIOUS
<1> HIDE DEF none
<1>2. Range(none) = {}
  BY <1>1, RangeEquality
<1>3. Ordered(none)
  BY <1>1, ByPosition
<1> QED BY <1>1, <1>2, <1>3 DEF none, EventsOf

LEMMA NatConcat ==
    \A s, t, u \in Seq(Nat) : (s \o t) \o u = s \o (t \o u)
<1> SUFFICES ASSUME NEW s \in Seq(Nat), NEW t \in Seq(Nat), NEW u \in Seq(Nat)
             PROVE  (s \o t) \o u = s \o (t \o u)
  OBVIOUS
<1> QED BY ConcatAssociative, SMTT(30)

LEMMA AppendOfConcat ==
    ASSUME NEW s \in Seq(Nat), NEW t \in Seq(Nat), NEW m \in Nat
    PROVE  s \o Append(t, m) = Append(s \o t, m)
<1> DEFINE last == <<m>>
<1>1. last \in Seq(Nat) /\ s \o t \in Seq(Nat)
  BY ConcatProperties
<1>2. Append(t, m) = t \o last /\ Append(s \o t, m) = (s \o t) \o last
  BY <1>1, AppendIsConcat
<1>3. (s \o t) \o last = s \o (t \o last)
  BY <1>1, NatConcat, Zenon
<1> QED BY <1>2, <1>3, Zenon

LEMMA HeadThenTail ==
    ASSUME NEW s \in Seq(Nat), s # <<>>
    PROVE  /\ <<Head(s)>> \in Seq(Nat) /\ Tail(s) \in Seq(Nat)
           /\ s = <<Head(s)>> \o Tail(s)
<1> DEFINE one == <<Head(s)>>
           rest == Tail(s)
           t == one \o rest
<1>1. /\ Head(s) \in Nat /\ Head(s) = s[1] /\ rest \in Seq(Nat)
      /\ Len(rest) = Len(s) - 1 /\ Len(s) \in Nat \ {0}
      /\ \A i \in 1..Len(rest) : rest[i] = s[i + 1]
  BY HeadTailProperties, LenProperties, EmptySeq
<1>2. one \in Seq(Nat) /\ Len(one) = 1 /\ one[1] = s[1]
  BY <1>1
<1> HIDE DEF one, rest
<1>3. /\ t \in Seq(Nat) /\ Len(t) = 1 + Len(rest)
      /\ \A i \in 1..1 + Len(rest) : t[i] = IF i <= 1 THEN one[i] ELSE rest[i - 1]
  <2>1. one \in Seq(Nat) /\ rest \in Seq(Nat)
    BY <1>1, <1>2
  <2>2. /\ t \in Seq(Nat) /\ Len(t) = Len(one) + Len(rest)
        /\ \A i \in 1..Len(one) + Len(rest) :
              t[i] = IF i <= Len(one) THEN one[i] ELSE rest[i - Len(one)]
    BY <2>1, ConcatProperties
  <2> HIDE DEF t
  <2> QED BY <1>2, <2>2
<1> HIDE DEF t
<1>4. ASSUME NEW i \in 1..Len(s) PROVE t[i] = s[i]
  <2>1. CASE i = 1
    BY <1>1, <1>2, <1>3, <2>1
  <2>2. CASE i > 1
    <3>1. i - 1 \in 1..Len(rest) /\ (i - 1) + 1 = i /\ i \in 1..1 + Len(rest)
      BY <1>1, <2>2
    <3>2. t[i] = rest[i - 1]
      BY <1>3, <2>2, <3>1
    <3>3. rest[i - 1] = s[(i - 1) + 1]
      BY <1>1, <3>1, Zenon
    <3> QED BY <3>1, <3>2, <3>3
  <2> QED BY <2>1, <2>2
<1>5. s = t
  <2>1. t \in Seq(Nat) /\ Len(s) = Len(t)
    BY <1>1, <1>3
  <2> QED BY <1>4, <2>1, SeqEqual, Zenon
<1> QED BY <1>1, <1>2, <1>5, Zenon DEF one, t, rest

LEMMA AppendedStream ==
    ASSUME NEW s \in Seq(Nat), NEW m \in Nat, Ordered(s),
           m # Unsequenced => \A e \in EventsOf(s) : e < m
    PROVE  /\ Ordered(Append(s, m))
           /\ EventsOf(Append(s, m)) = EventsOf(s) \cup ({m} \ {Unsequenced})
<1>1. Append(s, m) = s \o <<m>>
  BY AppendIsConcat
<1>2. /\ <<m>> \in Seq(Nat) /\ Ordered(<<m>>)
      /\ EventsOf(<<m>>) = {m} \ {Unsequenced}
  BY OneMessage
<1> DEFINE last == <<m>>
<1> HIDE DEF last
<1>3. /\ EventsOf(s \o last) = EventsOf(s) \cup EventsOf(last)
      /\ Ordered(s \o last) <=>
            /\ Ordered(s) /\ Ordered(last)
            /\ \A x \in EventsOf(s), y \in EventsOf(last) : x < y
  BY <1>2, TwoParts, Zenon DEF last
<1> QED BY <1>1, <1>2, <1>3 DEF last

LEMMA SkippedMessage ==
    ASSUME NEW s \in Seq(Nat), NEW t \in Seq(Nat)
    PROVE  /\ EventsOf(s \o <<Unsequenced>> \o t) = EventsOf(s \o t)
           /\ Ordered(s \o <<Unsequenced>> \o t) <=> Ordered(s \o t)
<1> DEFINE skipped == <<Unsequenced>>
<1>1. /\ skipped \in Seq(Nat) /\ Ordered(skipped) /\ EventsOf(skipped) = {}
  <2>1. Unsequenced \in Nat
    BY DEF Unsequenced
  <2> QED BY <2>1, OneMessage
<1> HIDE DEF skipped
<1> DEFINE u == s \o skipped
<1>2. /\ u \in Seq(Nat)
      /\ EventsOf(u) = EventsOf(s)
      /\ Ordered(u) <=> Ordered(s)
  <2>1. /\ EventsOf(u) = EventsOf(s) \cup EventsOf(skipped)
        /\ Ordered(u) <=>
              /\ Ordered(s) /\ Ordered(skipped)
              /\ \A x \in EventsOf(s), y \in EventsOf(skipped) : x < y
        /\ u \in Seq(Nat)
    BY <1>1, TwoParts, Zenon
  <2> QED BY <1>1, <2>1
<1> HIDE DEF u
<1>3. /\ EventsOf(u \o t) = EventsOf(s \o t)
      /\ Ordered(u \o t) <=> Ordered(s \o t)
  <2>1. ASSUME NEW v \in Seq(Nat)
        PROVE  /\ EventsOf(v \o t) = EventsOf(v) \cup EventsOf(t)
               /\ Ordered(v \o t) <=>
                     /\ Ordered(v) /\ Ordered(t)
                     /\ \A x \in EventsOf(v), y \in EventsOf(t) : x < y
    BY TwoParts, Zenon
  <2> QED BY <1>2, <2>1
<1> QED BY <1>3 DEF u, skipped

-----------------------------------------------------------------------------
(* What the operators of the actions do. *)

\* A count that is given back, never below zero.
LEMMA FreedFacts ==
    ASSUME TypeOK, NEW ip \in Ips
    PROVE  /\ Freed(ip) \in [Ips -> 0..MaxPerIP]
           /\ \A jp \in Ips \ {ip} : Freed(ip)[jp] = slots[jp]
           /\ slots[ip] > 0 => Freed(ip)[ip] = slots[ip] - 1
<1>1. slots[ip] \in 0..MaxPerIP /\ MaxPerIP \in Nat
  BY CapAssumption DEF TypeOK
<1> DEFINE m == Max({slots[ip] - 1, 0})
<1>2. /\ m \in {slots[ip] - 1, 0}
      /\ \A x \in {slots[ip] - 1, 0} : m >= x
  <2>1. \E x \in {slots[ip] - 1, 0} : \A y \in {slots[ip] - 1, 0} : x >= y
    <3>1. CASE slots[ip] = 0
      BY <1>1, <3>1
    <3>2. CASE slots[ip] > 0
      BY <1>1, <3>2
    <3> QED BY <1>1, <3>1, <3>2
  <2> QED BY <2>1 DEF Max
<1>3. Freed(ip) = [slots EXCEPT ![ip] = m]
  BY DEF Freed, TypeOK
<1> HIDE DEF m
<1>4. m \in 0..MaxPerIP /\ (slots[ip] > 0 => m = slots[ip] - 1)
  BY <1>1, <1>2
<1> QED BY <1>3, <1>4 DEF TypeOK

\* safeSend: the message is in the queue, the client is marked, or it is gone.
LEMMA SafeSendFacts ==
    ASSUME TypeOK, NEW a \in Attempts, NEW m \in Nat, SafeSend(a, m)
    PROVE  /\ queue' \in [Attempts -> Seq(Nat)]
           /\ \A b \in Attempts : Len(queue'[b]) <= QueueSize
           /\ open' = open
           /\ resetting' \in [Attempts -> BOOLEAN]
           /\ \A b \in Attempts \ {a} : queue'[b] = queue[b] /\ resetting'[b] = resetting[b]
           /\ \/ queue'[a] = Append(queue[a], m) /\ resetting'[a] = resetting[a] /\ open[a]
              \/ queue'[a] = queue[a] /\ (resetting'[a] \/ ~open[a])
<1>1. queue[a] \in Seq(Nat) /\ QueueSize \in Nat
  BY CapAssumption DEF TypeOK
<1>2. CASE open[a] /\ Len(queue[a]) < QueueSize
  <2>1. queue' = [queue EXCEPT ![a] = Append(@, m)] /\ UNCHANGED <<open, resetting>>
    BY <1>2, <1>1 DEF SafeSend, queueVars
  <2>2. /\ Append(queue[a], m) \in Seq(Nat) /\ Len(queue[a]) \in Nat
        /\ Len(Append(queue[a], m)) = Len(queue[a]) + 1
    BY <1>1, AppendProperties, LenProperties
  <2> QED BY <1>1, <1>2, <2>1, <2>2 DEF TypeOK
<1>3. CASE ~(open[a] /\ Len(queue[a]) < QueueSize)
  <2>1. /\ queue' = queue /\ open' = open
        /\ \/ resetting' = [resetting EXCEPT ![a] = TRUE]
           \/ resetting' = resetting /\ ~open[a]
    BY <1>1, <1>3 DEF SafeSend, queueVars
  <2>2. resetting' \in [Attempts -> BOOLEAN]
    BY <2>1 DEF TypeOK
  <2>3. \A b \in Attempts \ {a} : resetting'[b] = resetting[b]
    BY <2>1 DEF TypeOK
  <2>4. resetting'[a] \/ ~open[a]
    BY <2>1 DEF TypeOK
  <2> QED BY <2>1, <2>2, <2>3, <2>4 DEF TypeOK
<1> QED BY <1>2, <1>3

\* A connection's stream, as one sequence.
LEMMA StreamType ==
    ASSUME TypeOK, NEW a \in Attempts
    PROVE  /\ delivered[a] \in Seq(Nat) /\ hand[a] \in Nat /\ queue[a] \in Seq(Nat)
           /\ <<hand[a]>> \in Seq(Nat)
           /\ delivered[a] \o <<hand[a]>> \in Seq(Nat)
           /\ Stream(a) \in Seq(Nat)
BY ConcatProperties DEF Stream, TypeOK

-----------------------------------------------------------------------------
(* Types. *)

LEMMA HubTypeStep ==
    ASSUME TypeOK, [Next]_vars
    PROVE  TypeOK'
<1>1. ASSUME NEW a \in Attempts, Acquire(a) PROVE TypeOK'
  <2>1. IpOf[a] \in Ips /\ slots[IpOf[a]] \in 0..MaxPerIP /\ MaxPerIP \in Nat
    BY IpAssumption, CapAssumption DEF TypeOK
  <2>2. slots' \in [Ips -> 0..MaxPerIP]
    <3>1. CASE slots' = slots
      BY <3>1 DEF TypeOK
    <3>2. CASE slots[IpOf[a]] < MaxPerIP /\ slots' = [slots EXCEPT ![IpOf[a]] = @ + 1]
      <4>1. slots[IpOf[a]] + 1 \in 0..MaxPerIP
        BY <2>1, <3>2
      <4> QED BY <3>2, <4>1 DEF TypeOK
    <3> QED BY <1>1, <3>1, <3>2 DEF Acquire
  <2> QED BY <1>1, <2>2 DEF Acquire, TypeOK, queueVars, pumpVars, fanVars
<1>2. ASSUME NEW a \in Attempts, CheckRoom(a) \/ Upgrade(a) \/ ReadHello(a) \/ HelloPanics(a)
      PROVE  TypeOK'
  <2>1. UNCHANGED <<slots, queueVars, pumpVars, peer, teardown, fanVars, pings>>
    BY <1>2 DEF CheckRoom, Upgrade, ReadHello, HelloPanics
  <2>2. stage' \in [Attempts -> {"new", "admitted", "checked", "refusing", "refused",
                                 "registered", "greeting", "serving", "panicked"}]
    <3>1. CASE CheckRoom(a)
      BY <3>1 DEF CheckRoom, TypeOK
    <3>2. CASE Upgrade(a)
      <4>1. stage' = [stage EXCEPT ![a] = "refusing"] \/ stage' = [stage EXCEPT ![a] = "registered"]
        BY <3>2 DEF Upgrade
      <4> QED BY <4>1 DEF TypeOK
    <3>3. CASE ReadHello(a)
      BY <3>3 DEF ReadHello, TypeOK
    <3>4. CASE HelloPanics(a)
      BY <3>4 DEF HelloPanics, TypeOK
    <3> QED BY <1>2, <3>1, <3>2, <3>3, <3>4
  <2>3. clients' \subseteq Attempts
    BY <1>2 DEF CheckRoom, Upgrade, ReadHello, HelloPanics, TypeOK
  <2>4. greeting' \in [Attempts -> Nat]
    <3>1. CASE ReadHello(a)
      BY <3>1 DEF ReadHello, TypeOK
    <3>2. CASE UNCHANGED greeting
      BY <3>2 DEF TypeOK
    <3> QED BY <1>2, <3>1, <3>2 DEF CheckRoom, Upgrade, HelloPanics
  <2> QED BY <2>1, <2>2, <2>3, <2>4 DEF TypeOK, queueVars, pumpVars, fanVars
<1>3. ASSUME NEW a \in Attempts, Refuse(a) \/ Release(a) PROVE TypeOK'
  <2>1. slots' \in [Ips -> 0..MaxPerIP]
    BY <1>3, IpAssumption, FreedFacts DEF Refuse, Release
  <2>2. CASE Refuse(a)
    BY <2>1, <2>2 DEF Refuse, TypeOK, queueVars, pumpVars, fanVars
  <2>3. CASE Release(a)
    BY <2>1, <2>3 DEF Release, TypeOK, queueVars, pumpVars, fanVars
  <2> QED BY <1>3, <2>2, <2>3
<1>4. ASSUME NEW a \in Attempts, SendHello(a) PROVE TypeOK'
  <2>1. /\ Append(queue[a], Unsequenced) \in Seq(Nat) /\ Len(queue[a]) \in Nat
        /\ Len(Append(queue[a], Unsequenced)) = Len(queue[a]) + 1
    BY AppendProperties, LenProperties DEF TypeOK, Unsequenced
  <2>2. /\ queue' \in [Attempts -> Seq(Nat)]
        /\ \A b \in Attempts : Len(queue'[b]) <= QueueSize
    BY <1>4, <2>1, CapAssumption DEF SendHello, TypeOK
  <2>3. /\ stage' \in [Attempts -> {"new", "admitted", "checked", "refusing", "refused",
                                    "registered", "greeting", "serving", "panicked"}]
        /\ writer' \in [Attempts -> {"off", "ready", "writing", "ended"}]
        /\ reader' \in [Attempts -> {"off", "reading", "ended"}]
    BY <1>4 DEF SendHello, TypeOK
  <2>4. UNCHANGED <<slots, clients, greeting, open, resetting, hand, delivered, peer, teardown,
                    fanVars, pings>>
    BY <1>4 DEF SendHello
  <2> QED BY <2>2, <2>3, <2>4 DEF TypeOK, fanVars
<1>5. CASE Announce \/ CopyClients
  <2>1. fan' \in [announced : BOOLEAN, targets : SUBSET Attempts] /\ latestSeq' \in Nat
    <3>1. CASE Announce
      BY <3>1 DEF Announce, TypeOK
    <3>2. CASE CopyClients
      BY <3>2 DEF CopyClients, TypeOK
    <3> QED BY <1>5, <3>1, <3>2
  <2>2. UNCHANGED <<handlerVars, clients, queueVars, pumpVars, peer, teardown, pings>>
    BY <1>5 DEF Announce, CopyClients
  <2> QED BY <2>1, <2>2 DEF TypeOK, handlerVars, queueVars, pumpVars
<1>6. ASSUME NEW a \in Attempts, SendTo(a) PROVE TypeOK'
  <2>1. /\ queue' \in [Attempts -> Seq(Nat)] /\ resetting' \in [Attempts -> BOOLEAN]
        /\ \A b \in Attempts : Len(queue'[b]) <= QueueSize
        /\ open' = open
    BY <1>6, SafeSendFacts DEF SendTo, TypeOK
  <2> QED BY <1>6, <2>1 DEF SendTo, TypeOK, handlerVars, pumpVars
<1>7. ASSUME NEW a \in Attempts, Ping(a) PROVE TypeOK'
  <2>1. /\ queue' \in [Attempts -> Seq(Nat)] /\ resetting' \in [Attempts -> BOOLEAN]
        /\ \A b \in Attempts : Len(queue'[b]) <= QueueSize
        /\ open' = open
    BY <1>7, SafeSendFacts DEF Ping, Unsequenced
  <2> QED BY <1>7, <2>1 DEF Ping, TypeOK, handlerVars, pumpVars, fanVars
<1>8. ASSUME NEW a \in Attempts, Leave(a) \/ WriterEnds(a) \/ ReaderEnds(a) PROVE TypeOK'
  <2>1. CASE Leave(a)
    BY <2>1 DEF Leave, TypeOK, handlerVars, queueVars, pumpVars, fanVars
  <2>2. CASE WriterEnds(a)
    BY <2>2 DEF WriterEnds, TypeOK, handlerVars, queueVars, fanVars
  <2>3. CASE ReaderEnds(a)
    BY <2>3 DEF ReaderEnds, TypeOK, handlerVars, queueVars, fanVars
  <2> QED BY <1>8, <2>1, <2>2, <2>3
<1>9. ASSUME NEW a \in Attempts, TakeMessage(a) PROVE TypeOK'
  <2>1. queue[a] \in Seq(Nat) /\ queue[a] # <<>>
    BY <1>9 DEF TakeMessage, TypeOK
  <2>2. /\ Head(queue[a]) \in Nat /\ Tail(queue[a]) \in Seq(Nat)
        /\ Len(queue[a]) \in Nat /\ Len(Tail(queue[a])) = Len(queue[a]) - 1
    BY <2>1, HeadTailProperties, LenProperties
  <2>3. /\ queue' \in [Attempts -> Seq(Nat)]
        /\ \A b \in Attempts : Len(queue'[b]) <= QueueSize
    BY <1>9, <2>2, CapAssumption DEF TakeMessage, TypeOK
  <2> QED BY <1>9, <2>2, <2>3 DEF TakeMessage, TypeOK, handlerVars, fanVars
<1>10. ASSUME NEW a \in Attempts, WriteMessage(a) PROVE TypeOK'
  <2>1. delivered' \in [Attempts -> Seq(Nat)]
    BY <1>10, AppendProperties DEF WriteMessage, TypeOK
  <2> QED BY <1>10, <2>1 DEF WriteMessage, TypeOK, handlerVars, queueVars, fanVars, Unsequenced
<1>11. ASSUME NEW a \in Attempts, Unregister(a) \/ CloseConn(a) PROVE TypeOK'
  <2>1. CASE Unregister(a)
    BY <2>1 DEF Unregister, TypeOK, handlerVars, pumpVars, fanVars
  <2>2. CASE CloseConn(a)
    BY <2>2 DEF CloseConn, TypeOK, handlerVars, queueVars, pumpVars, fanVars
  <2> QED BY <1>11, <2>1, <2>2
<1>12. CASE UNCHANGED vars
  BY <1>12 DEF vars, TypeOK, handlerVars, queueVars, pumpVars, fanVars
<1> QED BY <1>1, <1>2, <1>3, <1>4, <1>5, <1>6, <1>7, <1>8, <1>9, <1>10, <1>11, <1>12
        DEF Next, Handler, Writer, Teardown, Fan

-----------------------------------------------------------------------------
(* The stages of a connection. *)

\* The step that does not touch a connection.
LEMMA OtherStage ==
    ASSUME NEW b, StageOK(b), b \in clients' => b \in clients,
           b \in fan'.targets => b \in fan.targets \/ b \in clients,
           <<stage[b], queue[b], delivered[b], hand[b], writer[b], reader[b], open[b],
             teardown[b]>>' =
           <<stage[b], queue[b], delivered[b], hand[b], writer[b], reader[b], open[b],
             teardown[b]>>
    PROVE  StageOK(b)'
BY DEF StageOK

LEMMA StagesStep ==
    ASSUME TypeOK, StagesOK, [Next]_vars
    PROVE  StagesOK'
<1> SUFFICES ASSUME NEW b \in Attempts PROVE StageOK(b)'
  BY DEF StagesOK
<1>0. StageOK(b)
  BY DEF StagesOK
<1>1. ASSUME NEW a \in Attempts, Acquire(a) \/ CheckRoom(a) \/ Refuse(a) PROVE StageOK(b)'
  <2>1. /\ UNCHANGED <<clients, queueVars, pumpVars, teardown, fan>>
        /\ stage' = [stage EXCEPT ![a] = stage'[a]]
        /\ {stage[a], stage'[a]} \cap Registered = {}
    <3>1. CASE Acquire(a)
      BY <3>1 DEF Acquire, TypeOK, Registered, fanVars
    <3>2. CASE CheckRoom(a)
      BY <3>2 DEF CheckRoom, TypeOK, Registered, fanVars
    <3>3. CASE Refuse(a)
      BY <3>3 DEF Refuse, TypeOK, Registered, fanVars
    <3> QED BY <1>1, <3>1, <3>2, <3>3
  <2>2. CASE b = a
    BY <1>0, <2>1, <2>2 DEF StageOK, Registered, queueVars, pumpVars
  <2>3. CASE b # a
    BY <1>0, <2>1, <2>3, OtherStage DEF TypeOK, queueVars, pumpVars
  <2> QED BY <2>2, <2>3
<1>2. ASSUME NEW a \in Attempts, Upgrade(a) PROVE StageOK(b)'
  BY <1>0, <1>2 DEF Upgrade, StageOK, TypeOK, Registered, queueVars, pumpVars, fanVars
<1>3. ASSUME NEW a \in Attempts, ReadHello(a) \/ HelloPanics(a) PROVE StageOK(b)'
  <2>1. /\ UNCHANGED <<clients, queueVars, pumpVars, teardown, fan>>
        /\ stage' = [stage EXCEPT ![a] = stage'[a]]
        /\ {stage[a], stage'[a]} \subseteq Registered \ {"serving"}
    <3>1. CASE ReadHello(a)
      BY <3>1 DEF ReadHello, TypeOK, Registered, fanVars
    <3>2. CASE HelloPanics(a)
      BY <3>2 DEF HelloPanics, TypeOK, Registered, fanVars
    <3> QED BY <1>3, <3>1, <3>2
  <2>2. CASE b = a
    BY <1>0, <2>1, <2>2 DEF StageOK, Registered, queueVars, pumpVars
  <2>3. CASE b # a
    BY <1>0, <2>1, <2>3, OtherStage DEF TypeOK, queueVars, pumpVars
  <2> QED BY <2>2, <2>3
<1>4. ASSUME NEW a \in Attempts, SendHello(a) PROVE StageOK(b)'
  <2>1. CASE b = a
    <3>1. stage[a] \in Registered /\ stage'[a] = "serving" /\ writer'[a] = "ready"
      BY <1>4 DEF SendHello, TypeOK, Registered
    <3>2. UNCHANGED <<clients, open, hand, teardown, fan>>
      BY <1>4 DEF SendHello, fanVars
    <3>3. hand[a] = Unsequenced
      BY <1>0, <1>4, <2>1 DEF StageOK, SendHello
    <3> QED BY <1>0, <2>1, <3>1, <3>2, <3>3 DEF StageOK, Registered
  <2>2. CASE b # a
    BY <1>0, <1>4, <2>2, OtherStage DEF SendHello, TypeOK, fanVars
  <2> QED BY <2>1, <2>2
<1>5. CASE Announce
  BY <1>0, <1>5, OtherStage DEF Announce, handlerVars, queueVars, pumpVars
<1>6. CASE CopyClients
  BY <1>0, <1>6, OtherStage DEF CopyClients, handlerVars, queueVars, pumpVars
<1>7. ASSUME NEW a \in Attempts, NEW m \in Nat, SafeSend(a, m), stage[a] \in Registered,
             UNCHANGED <<handlerVars, clients, pumpVars, teardown>>,
             fan'.targets \subseteq fan.targets
      PROVE  StageOK(b)'
  <2>1. CASE b = a
    BY <1>0, <1>7, <2>1, SafeSendFacts DEF StageOK, handlerVars, pumpVars
  <2>2. CASE b # a
    BY <1>0, <1>7, <2>2, SafeSendFacts, OtherStage DEF handlerVars, pumpVars
  <2> QED BY <2>1, <2>2
<1>8. ASSUME NEW a \in Attempts, SendTo(a) PROVE StageOK(b)'
  <2>1. stage[a] \in Registered /\ latestSeq \in Nat
    BY <1>8 DEF SendTo, StagesOK, StageOK, TypeOK
  <2>2. fan'.targets \subseteq fan.targets
    BY <1>8 DEF SendTo, TypeOK
  <2> QED BY <1>7, <1>8, <2>1, <2>2 DEF SendTo
<1>9. ASSUME NEW a \in Attempts, Ping(a) PROVE StageOK(b)'
  <2>1. stage[a] \in Registered /\ Unsequenced \in Nat
    BY <1>9 DEF Ping, StagesOK, StageOK, Registered, Unsequenced
  <2> QED BY <1>7, <1>9, <2>1 DEF Ping, fanVars
<1>10. ASSUME NEW a \in Attempts, Leave(a) PROVE StageOK(b)'
  BY <1>0, <1>10, OtherStage DEF Leave, handlerVars, queueVars, pumpVars, fanVars
<1>11. ASSUME NEW a \in Attempts, TakeMessage(a) \/ WriteMessage(a) \/ WriterEnds(a) \/ ReaderEnds(a)
       PROVE  StageOK(b)'
  <2>1. UNCHANGED <<handlerVars, clients, open, teardown, fanVars>>
    BY <1>11 DEF TakeMessage, WriteMessage, WriterEnds, ReaderEnds, queueVars
  <2>2. CASE b = a
    <3>1. stage[a] = "serving"
      BY <1>11, <1>0, <2>2 DEF TakeMessage, WriteMessage, WriterEnds, ReaderEnds, StageOK
    <3>2. writer'[a] \in {"off", "ready"} => hand'[a] = Unsequenced
      BY <1>11, <1>0, <2>2 DEF TakeMessage, WriteMessage, WriterEnds, ReaderEnds, StageOK, TypeOK
    <3> QED BY <1>0, <2>1, <2>2, <3>1, <3>2 DEF StageOK, Registered, handlerVars, fanVars
  <2>3. CASE b # a
    <3>1. /\ queue'[b] = queue[b] /\ delivered'[b] = delivered[b] /\ hand'[b] = hand[b]
          /\ writer'[b] = writer[b] /\ reader'[b] = reader[b]
      BY <1>11, <2>3 DEF TakeMessage, WriteMessage, WriterEnds, ReaderEnds, TypeOK, queueVars
    <3> QED BY <1>0, <2>1, <3>1, OtherStage DEF handlerVars, fanVars
  <2> QED BY <2>2, <2>3
<1>12. ASSUME NEW a \in Attempts, Unregister(a) PROVE StageOK(b)'
  <2>1. CASE b = a
    BY <1>0, <1>12, <2>1 DEF Unregister, StageOK, TypeOK, handlerVars, pumpVars, fanVars
  <2>2. CASE b # a
    BY <1>0, <1>12, <2>2, OtherStage DEF Unregister, TypeOK, handlerVars, pumpVars, fanVars
  <2> QED BY <2>1, <2>2
<1>13. ASSUME NEW a \in Attempts, Release(a) \/ CloseConn(a) PROVE StageOK(b)'
  <2>1. UNCHANGED <<stage, clients, queueVars, pumpVars, fanVars>>
    BY <1>13 DEF Release, CloseConn, handlerVars
  <2>2. CASE b = a
    <3>1. teardown[a] # "no" /\ teardown'[a] # "no"
      BY <1>13 DEF Release, CloseConn, TypeOK
    <3> QED BY <1>0, <2>1, <2>2, <3>1 DEF StageOK, queueVars, pumpVars, fanVars
  <2>3. CASE b # a
    <3>1. teardown'[b] = teardown[b]
      BY <1>13, <2>3 DEF Release, CloseConn, TypeOK
    <3> QED BY <1>0, <2>1, <3>1, OtherStage DEF queueVars, pumpVars, fanVars
  <2> QED BY <2>2, <2>3
<1>14. CASE UNCHANGED vars
  BY <1>0, <1>14, OtherStage DEF vars, handlerVars, queueVars, pumpVars, fanVars
<1> QED BY <1>1, <1>2, <1>3, <1>4, <1>5, <1>6, <1>8, <1>9, <1>10, <1>11, <1>12, <1>13, <1>14
        DEF Next, Handler, Writer, Teardown, Fan

\* Broadcasts.
LEMMA FanStep ==
    ASSUME TypeOK, FanOK, [Next]_vars
    PROVE  FanOK'
<1> USE DEF FanOK
<1>1. ASSUME UNCHANGED <<fan, latestSeq, greeting>> PROVE FanOK'
  BY <1>1
<1>2. ASSUME NEW a \in Attempts, ReadHello(a) PROVE FanOK'
  BY <1>2 DEF ReadHello, TypeOK, fanVars
<1>3. CASE Announce
  BY <1>3 DEF Announce, TypeOK, handlerVars
<1>4. CASE CopyClients
  BY <1>4 DEF CopyClients, TypeOK, handlerVars
<1>5. ASSUME NEW a \in Attempts, SendTo(a) PROVE FanOK'
  BY <1>5 DEF SendTo, TypeOK, handlerVars
<1>6. ASSUME NEW a \in Attempts, Handler(a), ~ReadHello(a) PROVE FanOK'
  BY <1>1, <1>6 DEF Handler, Acquire, CheckRoom, Upgrade, Refuse, SendHello, HelloPanics, fanVars
<1>7. ASSUME NEW a \in Attempts,
             Writer(a) \/ ReaderEnds(a) \/ Teardown(a) \/ Ping(a) \/ Leave(a)
      PROVE  FanOK'
  BY <1>1, <1>7 DEF Writer, TakeMessage, WriteMessage, WriterEnds, ReaderEnds, Teardown,
                    Unregister, Release, CloseConn, Ping, Leave, fanVars, handlerVars
<1>8. CASE UNCHANGED vars
  BY <1>1, <1>8 DEF vars, fanVars, handlerVars
<1> QED BY <1>2, <1>3, <1>4, <1>5, <1>6, <1>7, <1>8 DEF Next, Fan

-----------------------------------------------------------------------------
(* The limiter's slots. *)

LEMMA HoldersFinite ==
    ASSUME SlotsOK, NEW ip
    PROVE  IsFiniteSet(Holders(ip))
BY FS_Subset DEF SlotsOK, Holders, Attempted, Holds

\* The steps after which the same connections hold a slot.
LEMMA SlotsKept ==
    ASSUME SlotsOK, slots' = slots, Attempted' = Attempted,
           \A b \in Attempts : Holds(b)' <=> Holds(b)
    PROVE  SlotsOK'
<1>1. \A ip : Holders(ip)' = Holders(ip)
  BY DEF Holders
<1> QED BY <1>1 DEF SlotsOK

\* The steps that give one slot back, and the connection no longer holds it.
LEMMA SlotFreed ==
    ASSUME TypeOK, SlotsOK, NEW a \in Attempts, Holds(a), ~Holds(a)',
           slots' = Freed(IpOf[a]), Attempted' = Attempted,
           \A b \in Attempts \ {a} : Holds(b)' <=> Holds(b)
    PROVE  SlotsOK'
<1>0. IpOf[a] \in Ips
  BY IpAssumption
<1>1. /\ Holders(IpOf[a])' = Holders(IpOf[a]) \ {a}
      /\ \A ip \in Ips \ {IpOf[a]} : Holders(ip)' = Holders(ip)
      /\ a \in Holders(IpOf[a])
  BY DEF Holders
<1>2. /\ Cardinality(Holders(IpOf[a])') = Cardinality(Holders(IpOf[a])) - 1
      /\ Cardinality(Holders(IpOf[a])') \in Nat
      /\ Cardinality(Holders(IpOf[a])) \in Nat
  BY <1>1, HoldersFinite, FS_RemoveElement, FS_CardinalityType
<1>3. slots[IpOf[a]] = Cardinality(Holders(IpOf[a])) /\ slots[IpOf[a]] > 0
  BY <1>0, <1>2 DEF SlotsOK
<1>4. /\ slots'[IpOf[a]] = slots[IpOf[a]] - 1
      /\ \A ip \in Ips \ {IpOf[a]} : slots'[ip] = slots[ip]
  BY <1>0, <1>3, FreedFacts
<1>5. \A ip \in Ips : slots'[ip] = Cardinality(Holders(ip)')
  BY <1>1, <1>2, <1>3, <1>4 DEF SlotsOK
<1> QED BY <1>5 DEF SlotsOK

LEMMA SlotsStep ==
    ASSUME TypeOK, StagesOK, SlotsOK, [Next]_vars
    PROVE  SlotsOK'
<1>1. ASSUME UNCHANGED <<slots, stage, teardown>> PROVE SlotsOK'
  BY <1>1, SlotsKept DEF Holds, Attempted
<1>2. ASSUME NEW a \in Attempts, Acquire(a) PROVE SlotsOK'
  <2>1. /\ stage[a] = "new" /\ teardown[a] = "no" /\ teardown' = teardown /\ IpOf[a] \in Ips
        /\ \A b \in Attempts \ {a} : stage'[b] = stage[b]
        /\ stage'[a] \in {"refused", "admitted"}
    <3>1. StageOK(a) /\ stage[a] = "new"
      BY <1>2 DEF StagesOK, Acquire
    <3>2. teardown[a] = "no"
      BY <3>1 DEF StageOK, Registered
    <3>3. /\ \A b \in Attempts \ {a} : stage'[b] = stage[b]
          /\ stage'[a] \in {"refused", "admitted"}
      BY <1>2 DEF Acquire, TypeOK
    <3> QED BY <1>2, <3>1, <3>2, <3>3, IpAssumption DEF Acquire
  <2>2. Attempted' = Attempted \cup {a}
    BY <2>1 DEF Attempted
  <2>3. IsFiniteSet(Attempted')
    BY <2>2, FS_AddElement DEF SlotsOK
  <2>4. CASE stage'[a] = "refused"
    <3>1. slots' = slots
      BY <1>2, <2>4 DEF Acquire, TypeOK
    <3>2. \A ip : Holders(ip)' = Holders(ip)
      BY <2>1, <2>4 DEF Holders, Holds
    <3> QED BY <2>3, <3>1, <3>2 DEF SlotsOK
  <2>5. CASE stage'[a] = "admitted"
    <3>1. slots' = [slots EXCEPT ![IpOf[a]] = @ + 1]
      BY <1>2, <2>5 DEF Acquire, TypeOK
    <3>2. /\ Holders(IpOf[a])' = Holders(IpOf[a]) \cup {a}
          /\ \A ip \in Ips \ {IpOf[a]} : Holders(ip)' = Holders(ip)
          /\ a \notin Holders(IpOf[a])
      BY <2>1, <2>5 DEF Holders, Holds
    <3>3. Cardinality(Holders(IpOf[a])') = Cardinality(Holders(IpOf[a])) + 1
      BY <3>2, HoldersFinite, FS_AddElement
    <3>4. ASSUME NEW ip \in Ips PROVE slots'[ip] = Cardinality(Holders(ip)')
      <4>1. CASE ip = IpOf[a]
        BY <2>1, <3>1, <3>3, <4>1 DEF SlotsOK, TypeOK
      <4>2. CASE ip # IpOf[a]
        BY <3>1, <3>2, <4>2 DEF SlotsOK, TypeOK
      <4> QED BY <4>1, <4>2
    <3> QED BY <2>3, <3>4 DEF SlotsOK
  <2> QED BY <2>1, <2>4, <2>5
<1>3. ASSUME NEW a \in Attempts,
             CheckRoom(a) \/ Upgrade(a) \/ ReadHello(a) \/ SendHello(a) \/ HelloPanics(a)
      PROVE  SlotsOK'
  <2>1. /\ UNCHANGED <<slots, teardown>>
        /\ stage' = [stage EXCEPT ![a] = stage'[a]]
        /\ {stage[a], stage'[a]} \cap {"new", "refused"} = {}
    <3>1. CASE CheckRoom(a)
      BY <3>1 DEF CheckRoom, TypeOK
    <3>2. CASE Upgrade(a)
      BY <3>2 DEF Upgrade, TypeOK
    <3>3. CASE ReadHello(a)
      BY <3>3 DEF ReadHello, TypeOK
    <3>4. CASE SendHello(a)
      BY <3>4 DEF SendHello, TypeOK
    <3>5. CASE HelloPanics(a)
      BY <3>5 DEF HelloPanics, TypeOK
    <3> QED BY <1>3, <3>1, <3>2, <3>3, <3>4, <3>5
  <2>2. \A b \in Attempts : (stage'[b] = stage[b]) \/ b = a
    BY <2>1 DEF TypeOK
  <2> QED BY <2>1, <2>2, SlotsKept DEF Holds, Attempted
<1>4. ASSUME NEW a \in Attempts, Refuse(a) PROVE SlotsOK'
  <2>1. /\ stage[a] = "refusing" /\ stage'[a] = "refused" /\ teardown[a] = "no"
        /\ \A b \in Attempts \ {a} : stage'[b] = stage[b]
        /\ teardown' = teardown /\ slots' = Freed(IpOf[a])
    <3>1. StageOK(a) /\ stage[a] = "refusing"
      BY <1>4 DEF StagesOK, Refuse
    <3>2. teardown[a] = "no"
      BY <3>1 DEF StageOK, Registered
    <3>3. stage'[a] = "refused" /\ \A b \in Attempts \ {a} : stage'[b] = stage[b]
      BY <1>4 DEF Refuse, TypeOK
    <3> QED BY <1>4, <3>1, <3>2, <3>3 DEF Refuse
  <2> QED BY <2>1, SlotFreed DEF Holds, Attempted
<1>5. ASSUME NEW a \in Attempts, Release(a) PROVE SlotsOK'
  <2>1. /\ teardown[a] = "removed" /\ teardown'[a] = "released"
        /\ stage[a] \notin {"new", "refused"}
        /\ \A b \in Attempts \ {a} : teardown'[b] = teardown[b]
        /\ stage' = stage /\ slots' = Freed(IpOf[a])
    <3>1. StageOK(a) /\ teardown[a] = "removed"
      BY <1>5 DEF StagesOK, Release
    <3>2. stage[a] \notin {"new", "refused"}
      BY <3>1 DEF StageOK, Registered
    <3>3. teardown'[a] = "released" /\ \A b \in Attempts \ {a} : teardown'[b] = teardown[b]
      BY <1>5 DEF Release, TypeOK
    <3> QED BY <1>5, <3>1, <3>2, <3>3 DEF Release
  <2> QED BY <2>1, SlotFreed DEF Holds, Attempted
<1>6. ASSUME NEW a \in Attempts, Unregister(a) \/ CloseConn(a) PROVE SlotsOK'
  <2>1. UNCHANGED <<slots, stage>>
    BY <1>6 DEF Unregister, CloseConn, handlerVars
  <2>2. \/ teardown[a] = "no" /\ teardown'[a] = "removed"
        \/ teardown[a] = "released" /\ teardown'[a] = "closed"
    BY <1>6 DEF Unregister, CloseConn, StagesOK, StageOK, TypeOK
  <2>3. \A b \in Attempts \ {a} : teardown'[b] = teardown[b]
    BY <1>6 DEF Unregister, CloseConn, TypeOK
  <2> QED BY <2>1, <2>2, <2>3, SlotsKept DEF Holds, Attempted
<1>7. ASSUME NEW a \in Attempts, Writer(a) \/ ReaderEnds(a) \/ Ping(a) \/ Leave(a)
      PROVE  SlotsOK'
  BY <1>1, <1>7 DEF Writer, TakeMessage, WriteMessage, WriterEnds, ReaderEnds, Ping, Leave,
                    handlerVars
<1>8. CASE Fan
  BY <1>1, <1>8 DEF Fan, Announce, CopyClients, SendTo, handlerVars
<1>9. CASE UNCHANGED vars
  BY <1>1, <1>9 DEF vars, handlerVars
<1> QED BY <1>2, <1>3, <1>4, <1>5, <1>6, <1>7, <1>8, <1>9 DEF Next, Handler, Teardown

-----------------------------------------------------------------------------
(* The streams. *)

\* The steps that leave a client's stream and what is due to it alone.
LEMMA WholeKept ==
    ASSUME TypeOK, TypeOK', NEW b \in Attempts, Whole(b),
           delivered'[b] = delivered[b], hand'[b] = hand[b], queue'[b] = queue[b],
           Due(b)' = Due(b), latestSeq <= latestSeq', greeting'[b] = greeting[b],
           stage[b] = "registered" => stage'[b] = "registered"
    PROVE  Whole(b)'
<1>1. Stream(b)' = Stream(b)
  BY DEF Stream
<1>2. PICK first \in 1..(latestSeq + 1) :
        /\ EventsOf(Stream(b)) = first..Due(b)
        /\ stage[b] # "registered" => first <= greeting[b] + 1
  BY DEF Whole
<1>3. first \in 1..(latestSeq' + 1)
  <2>1. latestSeq \in Nat /\ latestSeq' \in Nat
    BY DEF TypeOK
  <2>2. \A m, n \in Nat : m <= n => 1..(m + 1) \subseteq 1..(n + 1)
    OBVIOUS
  <2> QED BY <2>1, <2>2
<1>4. EventsOf(Stream(b))' = first..Due(b)' /\ Ordered(Stream(b))'
  BY <1>1, <1>2 DEF Whole, EventsOf, Ordered
<1>5. stage'[b] # "registered" => first <= greeting'[b] + 1
  BY <1>2
<1> QED BY <1>3, <1>4, <1>5 DEF Whole

\* A hello or a pong.
LEMMA UnsequencedSent ==
    ASSUME TypeOK, NEW b \in Attempts, Whole(b),
           delivered'[b] = delivered[b], hand'[b] = hand[b],
           queue'[b] = Append(queue[b], Unsequenced),
           Due(b)' = Due(b), latestSeq' = latestSeq, greeting'[b] = greeting[b],
           stage[b] = "registered" => stage'[b] = "registered"
    PROVE  Whole(b)'
<1>1. Unsequenced \in Nat
  BY DEF Unsequenced
<1>2. Stream(b)' = Append(Stream(b), Unsequenced)
  <2> DEFINE start == delivered[b] \o <<hand[b]>>
  <2>1. start \in Seq(Nat) /\ queue[b] \in Seq(Nat) /\ <<Unsequenced>> \in Seq(Nat)
    BY <1>1, StreamType
  <2>2. Stream(b)' = start \o Append(queue[b], Unsequenced)
    BY DEF Stream
  <2>3. Stream(b) = start \o queue[b]
    BY DEF Stream
  <2> HIDE DEF start
  <2>4. start \o Append(queue[b], Unsequenced) = Append(start \o queue[b], Unsequenced)
    BY <1>1, <2>1, AppendOfConcat
  <2> QED BY <2>2, <2>3, <2>4, Zenon
<1>3. Stream(b) \in Seq(Nat) /\ Ordered(Stream(b))
  BY StreamType DEF Whole
<1>4. /\ EventsOf(Append(Stream(b), Unsequenced)) = EventsOf(Stream(b))
      /\ Ordered(Append(Stream(b), Unsequenced))
  <2>1. {Unsequenced} \ {Unsequenced} = {}
    OBVIOUS
  <2>2. /\ EventsOf(Append(Stream(b), Unsequenced))
              = EventsOf(Stream(b)) \cup ({Unsequenced} \ {Unsequenced})
        /\ Ordered(Append(Stream(b), Unsequenced))
    BY <1>1, <1>3, AppendedStream, Zenon
  <2> QED BY <2>1, <2>2
<1>5. EventsOf(Stream(b))' = EventsOf(Stream(b)) /\ Ordered(Stream(b))'
  BY <1>2, <1>4 DEF EventsOf, Ordered
<1> QED BY <1>5 DEF Whole

\* The latest event.
LEMMA EventSent ==
    ASSUME TypeOK, FanOK, NEW b \in Attempts, Whole(b),
           b \in fan.targets, fan' = [fan EXCEPT !.targets = @ \ {b}],
           delivered'[b] = delivered[b], hand'[b] = hand[b],
           queue'[b] = Append(queue[b], latestSeq),
           latestSeq' = latestSeq, greeting'[b] = greeting[b], stage'[b] = stage[b]
    PROVE  Whole(b)'
<1>1. latestSeq \in Nat \ {0} /\ ~fan.announced /\ ~fan'.announced /\ b \notin fan'.targets
  BY DEF TypeOK, FanOK
<1>2. Due(b) = latestSeq - 1 /\ Due(b)' = latestSeq
  BY <1>1 DEF Due
<1>3. Stream(b)' = Append(Stream(b), latestSeq)
  <2> DEFINE start == delivered[b] \o <<hand[b]>>
  <2>1. start \in Seq(Nat) /\ queue[b] \in Seq(Nat)
    BY StreamType
  <2>2. Stream(b)' = start \o Append(queue[b], latestSeq)
    BY DEF Stream
  <2>3. Stream(b) = start \o queue[b]
    BY DEF Stream
  <2> HIDE DEF start
  <2>4. start \o Append(queue[b], latestSeq) = Append(start \o queue[b], latestSeq)
    BY <1>1, <2>1, AppendOfConcat
  <2> QED BY <2>2, <2>3, <2>4, Zenon
<1>4. PICK first \in 1..(latestSeq + 1) :
        /\ EventsOf(Stream(b)) = first..(latestSeq - 1)
        /\ stage[b] # "registered" => first <= greeting[b] + 1
  BY <1>2 DEF Whole
<1>5. /\ EventsOf(Append(Stream(b), latestSeq)) = first..(latestSeq - 1) \cup {latestSeq}
      /\ Ordered(Append(Stream(b), latestSeq))
  <2>1. Stream(b) \in Seq(Nat) /\ Ordered(Stream(b))
    BY StreamType DEF Whole
  <2>2. \A e \in EventsOf(Stream(b)) : e < latestSeq
    BY <1>1, <1>4
  <2> QED BY <1>1, <1>4, <2>1, <2>2, AppendedStream DEF Unsequenced
<1> DEFINE start == IF first <= latestSeq THEN first ELSE latestSeq
<1>6. /\ start \in 1..(latestSeq + 1) /\ start <= first
      /\ first..(latestSeq - 1) \cup {latestSeq} = start..latestSeq
  BY <1>1
<1> HIDE DEF start
<1>7. EventsOf(Stream(b))' = start..Due(b)' /\ Ordered(Stream(b))'
  BY <1>2, <1>3, <1>5, <1>6 DEF EventsOf, Ordered
<1>8. stage'[b] # "registered" => start <= greeting'[b] + 1
  BY <1>4, <1>6 DEF TypeOK
<1> QED BY <1>6, <1>7, <1>8 DEF Whole

\* writePump carries the stream from the queue to the peer.
LEMMA StreamCarried ==
    ASSUME TypeOK, StagesOK, NEW b \in Attempts, TakeMessage(b) \/ WriteMessage(b)
    PROVE  /\ EventsOf(Stream(b))' = EventsOf(Stream(b))
           /\ Ordered(Stream(b))' <=> Ordered(Stream(b))
<1>1. CASE TakeMessage(b)
  <2> DEFINE d == delivered[b]
             q == queue[b]
             one == <<Head(q)>>
             rest == Tail(q)
  <2>1. /\ d \in Seq(Nat) /\ q \in Seq(Nat) /\ q # <<>> /\ hand[b] = Unsequenced
        /\ delivered'[b] = d /\ hand'[b] = Head(q) /\ queue'[b] = rest
    BY <1>1 DEF TakeMessage, StagesOK, StageOK, TypeOK
  <2>2. Stream(b) = d \o <<Unsequenced>> \o q /\ Stream(b)' = d \o one \o rest
    BY <2>1 DEF Stream
  <2> HIDE DEF d, q
  <2>3. one \in Seq(Nat) /\ rest \in Seq(Nat) /\ q = one \o rest
    BY <2>1, HeadThenTail
  <2> HIDE DEF one, rest
  <2>4. (d \o one) \o rest = d \o (one \o rest)
    <3>1. d \in Seq(Nat) /\ one \in Seq(Nat) /\ rest \in Seq(Nat)
      BY <2>1, <2>3
    <3> QED BY <3>1, NatConcat, Zenon
  <2>5. Stream(b)' = d \o q
    BY <2>2, <2>3, <2>4, Zenon
  <2>6. /\ EventsOf(Stream(b)) = EventsOf(d \o q)
        /\ Ordered(Stream(b)) <=> Ordered(d \o q)
    <3>1. /\ EventsOf(d \o <<Unsequenced>> \o q) = EventsOf(d \o q)
          /\ Ordered(d \o <<Unsequenced>> \o q) <=> Ordered(d \o q)
      BY <2>1, SkippedMessage, Zenon
    <3> QED BY <2>2, <3>1
  <2> QED BY <2>5, <2>6 DEF EventsOf, Ordered
<1>2. CASE WriteMessage(b)
  <2> DEFINE d == delivered[b]
             q == queue[b]
             h == hand[b]
  <2>1. /\ d \in Seq(Nat) /\ q \in Seq(Nat) /\ h \in Nat /\ queue'[b] = q
        /\ hand'[b] = Unsequenced
        /\ delivered'[b] = IF h = Unsequenced THEN d ELSE Append(d, h)
    BY <1>2 DEF WriteMessage, TypeOK, queueVars
  <2>2. /\ Stream(b) = d \o <<h>> \o q
        /\ Stream(b)' = delivered'[b] \o <<Unsequenced>> \o q
    BY <2>1 DEF Stream
  <2> HIDE DEF d, q, h
  <2>3. CASE h = Unsequenced
    BY <2>1, <2>2, <2>3 DEF EventsOf, Ordered
  <2>4. CASE h # Unsequenced
    <3> DEFINE e == d \o <<h>>
    <3>1. Append(d, h) = e /\ Append(d, h) \in Seq(Nat)
      BY <2>1, AppendIsConcat, AppendProperties
    <3>2. delivered'[b] = e
      BY <2>1, <2>4, <3>1, Zenon
    <3>3. e \in Seq(Nat) /\ Stream(b) = e \o q /\ Stream(b)' = e \o <<Unsequenced>> \o q
      BY <2>2, <3>1, <3>2, Zenon
    <3> HIDE DEF e
    <3>4. /\ EventsOf(e \o <<Unsequenced>> \o q) = EventsOf(e \o q)
          /\ Ordered(e \o <<Unsequenced>> \o q) <=> Ordered(e \o q)
      BY <2>1, <3>3, SkippedMessage, Zenon
    <3> QED BY <3>3, <3>4 DEF EventsOf, Ordered
  <2> QED BY <2>3, <2>4
<1> QED BY <1>1, <1>2

\* A client that has just been registered has missed nothing yet.
LEMMA FreshStream ==
    LET fresh == <<>> \o <<Unsequenced>> \o <<>>
    IN  EventsOf(fresh) = {} /\ Ordered(fresh)
<1> DEFINE one == <<Unsequenced>>
           none == <<>>
<1>1. /\ one \in Seq(Nat) /\ EventsOf(one) = {} /\ Ordered(one)
      /\ none \in Seq(Nat) /\ EventsOf(none) = {} /\ Ordered(none)
  <2>1. Unsequenced \in Nat
    BY DEF Unsequenced
  <2>2. one \in Seq(Nat) /\ EventsOf(one) = {Unsequenced} \ {Unsequenced} /\ Ordered(one)
    BY <2>1, OneMessage, Zenon
  <2>3. none \in Seq(Nat) /\ EventsOf(none) = {} /\ Ordered(none)
    BY EmptyStream, Zenon
  <2> HIDE DEF one, none
  <2> QED BY <2>2, <2>3
<1> HIDE DEF one, none
<1> DEFINE start == none \o one
<1>2. /\ EventsOf(start) = {} /\ start \in Seq(Nat) /\ Ordered(start)
  BY <1>1, TwoParts
<1> HIDE DEF start
<1>3. EventsOf(start \o none) = {} /\ Ordered(start \o none)
  <2>1. /\ EventsOf(start \o none) = EventsOf(start) \cup EventsOf(none)
        /\ Ordered(start \o none) <=>
              /\ Ordered(start) /\ Ordered(none)
              /\ \A x \in EventsOf(start), y \in EventsOf(none) : x < y
    BY <1>1, <1>2, TwoParts, Zenon
  <2> QED BY <1>1, <1>2, <2>1
<1> QED BY <1>3, Zenon DEF start, one, none

LEMMA FreshIsWhole ==
    ASSUME TypeOK', FanOK', NEW b \in Attempts,
           delivered'[b] = <<>>, hand'[b] = Unsequenced, queue'[b] = <<>>,
           stage'[b] = "registered"
    PROVE  Whole(b)'
<1>1. Stream(b)' = <<>> \o <<Unsequenced>> \o <<>>
  BY Zenon DEF Stream
<1>2. EventsOf(Stream(b))' = {} /\ Ordered(Stream(b))'
  BY <1>1, FreshStream, Zenon DEF EventsOf, Ordered
<1>3. Due(b)' \in 0..latestSeq' /\ latestSeq' \in Nat
  <2>1. latestSeq' \in Nat
    BY DEF TypeOK
  <2>2. CASE fan'.announced \/ b \in fan'.targets
    <3>1. latestSeq' >= 1 /\ Due(b)' = latestSeq' - 1
      BY <2>2 DEF FanOK, Due
    <3>2. \A n \in Nat : n >= 1 => n - 1 \in 0..n
      OBVIOUS
    <3> QED BY <2>1, <3>1, <3>2
  <2>3. CASE ~(fan'.announced \/ b \in fan'.targets)
    BY <2>1, <2>3 DEF Due
  <2> QED BY <2>1, <2>2, <2>3
<1>4. Due(b)' + 1 \in 1..(latestSeq' + 1) /\ (Due(b)' + 1)..Due(b)' = {}
  BY <1>3
<1> QED BY <1>2, <1>4 DEF Whole

\* Whatever happens to a client that is not being reset, its stream stays whole.
LEMMA StreamsStep ==
    ASSUME TypeOK, StagesOK, FanOK, StreamsOK, [Next]_vars, TypeOK', StagesOK', FanOK'
    PROVE  StreamsOK'
<1> SUFFICES ASSUME NEW b \in Attempts, b \in clients', ~resetting'[b]
             PROVE  Whole(b)'
  BY DEF StreamsOK, TypeOK
<1>0. latestSeq \in Nat /\ latestSeq' \in Nat
  BY DEF TypeOK
\* The steps that say nothing to b.
<1>1. ASSUME b \in clients, resetting'[b] = resetting[b],
             delivered'[b] = delivered[b], hand'[b] = hand[b], queue'[b] = queue[b],
             Due(b)' = Due(b), latestSeq <= latestSeq', greeting'[b] = greeting[b],
             stage[b] = "registered" => stage'[b] = "registered"
      PROVE  Whole(b)'
  BY <1>1, WholeKept DEF StreamsOK
<1>2. ASSUME UNCHANGED <<queueVars, delivered, hand, fanVars, greeting>>, b \in clients,
             stage'[b] = stage[b]
      PROVE  Whole(b)'
  <2>1. Due(b)' = Due(b) /\ latestSeq <= latestSeq'
    BY <1>0, <1>2 DEF Due, fanVars
  <2> QED BY <1>1, <1>2, <2>1 DEF queueVars
<1>3. ASSUME NEW a \in Attempts, Acquire(a) \/ CheckRoom(a) \/ Refuse(a) PROVE Whole(b)'
  <2>1. UNCHANGED <<clients, greeting, queueVars, pumpVars, fanVars>>
    BY <1>3 DEF Acquire, CheckRoom, Refuse
  <2>2. stage[a] \notin Registered
    BY <1>3 DEF Acquire, CheckRoom, Refuse, Registered
  <2>3. b # a
    BY <2>1, <2>2 DEF StagesOK, StageOK
  <2>4. stage'[b] = stage[b]
    <3>1. CASE Acquire(a)
      BY <2>3, <3>1 DEF Acquire, TypeOK
    <3>2. CASE CheckRoom(a)
      BY <2>3, <3>2 DEF CheckRoom, TypeOK
    <3>3. CASE Refuse(a)
      BY <2>3, <3>3 DEF Refuse, TypeOK
    <3> QED BY <1>3, <3>1, <3>2, <3>3
  <2> QED BY <1>2, <2>1, <2>4 DEF pumpVars
<1>4. ASSUME NEW a \in Attempts, Upgrade(a) PROVE Whole(b)'
  <2>1. UNCHANGED <<greeting, queueVars, pumpVars, fanVars>>
    BY <1>4 DEF Upgrade
  <2>2. CASE b = a
    <3>1. stage[a] = "checked" /\ stage'[a] = "registered"
      <4>1. (stage'[a] = "refusing" /\ clients' = clients) \/ stage'[a] = "registered"
        BY <1>4 DEF Upgrade, TypeOK
      <4>2. stage[a] = "checked"
        BY <1>4 DEF Upgrade
      <4>3. a \notin clients
        BY <4>2 DEF StagesOK, StageOK, Registered
      <4> QED BY <2>2, <4>1, <4>2, <4>3
    <3>2. /\ delivered'[a] = <<>> /\ hand'[a] = Unsequenced /\ queue'[a] = <<>>
      BY <2>1, <3>1 DEF StagesOK, StageOK, Registered, queueVars, pumpVars
    <3>3. Whole(a)'
      BY <3>1, <3>2, FreshIsWhole
    <3> QED BY <2>2, <3>3
  <2>3. CASE b # a
    <3>1. b \in clients /\ stage'[b] = stage[b]
      BY <1>4, <2>3 DEF Upgrade, TypeOK
    <3> QED BY <1>2, <2>1, <3>1 DEF pumpVars
  <2> QED BY <2>2, <2>3
<1>5. ASSUME NEW a \in Attempts, ReadHello(a) PROVE Whole(b)'
  <2>1. UNCHANGED <<clients, queueVars, pumpVars, fanVars>>
    BY <1>5 DEF ReadHello
  <2>2. CASE b = a
    <3>1. greeting'[b] = latestSeq
      BY <1>5, <2>2 DEF ReadHello, TypeOK
    <3>2. Whole(b)
      BY <2>1 DEF StreamsOK, queueVars
    <3>3. Stream(b)' = Stream(b) /\ Due(b)' = Due(b) /\ latestSeq' = latestSeq
      BY <2>1 DEF Stream, Due, queueVars, pumpVars, fanVars
    <3>4. EventsOf(Stream(b))' = EventsOf(Stream(b)) /\ Ordered(Stream(b))'
      BY <3>2, <3>3 DEF Whole, EventsOf, Ordered
    <3> QED BY <1>0, <3>1, <3>2, <3>3, <3>4 DEF Whole
  <2>3. CASE b # a
    <3>1. stage'[b] = stage[b] /\ greeting'[b] = greeting[b]
      BY <1>5, <2>3 DEF ReadHello, TypeOK
    <3>2. Due(b)' = Due(b) /\ latestSeq <= latestSeq'
      BY <1>0, <2>1 DEF Due, fanVars
    <3> QED BY <1>1, <2>1, <3>1, <3>2 DEF queueVars, pumpVars
  <2> QED BY <2>2, <2>3
<1>6. ASSUME NEW a \in Attempts, SendHello(a) PROVE Whole(b)'
  <2>1. UNCHANGED <<clients, greeting, resetting, hand, delivered, fanVars>>
    BY <1>6 DEF SendHello
  <2>2. Due(b)' = Due(b) /\ latestSeq' = latestSeq
    BY <2>1 DEF Due, fanVars
  <2>3. CASE b = a
    <3>1. queue'[b] = Append(queue[b], Unsequenced) /\ stage[b] # "registered"
      BY <1>6, <2>3 DEF SendHello, TypeOK
    <3>2. Whole(b)
      BY <2>1 DEF StreamsOK
    <3> QED BY <2>1, <2>2, <3>1, <3>2, UnsequencedSent
  <2>4. CASE b # a
    <3>1. stage'[b] = stage[b] /\ queue'[b] = queue[b]
      BY <1>6, <2>4 DEF SendHello, TypeOK
    <3> QED BY <1>0, <1>1, <2>1, <2>2, <3>1
  <2> QED BY <2>3, <2>4
<1>7. ASSUME NEW a \in Attempts, HelloPanics(a) PROVE Whole(b)'
  <2>1. UNCHANGED <<clients, greeting, queueVars, pumpVars, fanVars>> /\ ~open[a]
    BY <1>7 DEF HelloPanics
  <2>2. b # a
    BY <2>1 DEF StagesOK, StageOK
  <2>3. stage'[b] = stage[b]
    BY <1>7, <2>2 DEF HelloPanics, TypeOK
  <2> QED BY <1>2, <2>1, <2>3 DEF pumpVars
<1>8. CASE Announce
  <2>1. Due(b)' = Due(b) /\ latestSeq <= latestSeq'
    BY <1>0, <1>8 DEF Announce, Due, Idle
  <2> QED BY <1>1, <1>8, <2>1 DEF Announce, handlerVars, queueVars, pumpVars
<1>9. CASE CopyClients
  <2>1. Due(b)' = Due(b) /\ latestSeq <= latestSeq'
    BY <1>0, <1>9 DEF CopyClients, Due
  <2> QED BY <1>1, <1>9, <2>1 DEF CopyClients, handlerVars, queueVars, pumpVars
<1>10. ASSUME NEW a \in Attempts, SendTo(a) PROVE Whole(b)'
  <2>1. /\ UNCHANGED <<handlerVars, clients, pumpVars, latestSeq>>
        /\ fan' = [fan EXCEPT !.targets = @ \ {a}] /\ a \in fan.targets
        /\ SafeSend(a, latestSeq)
    BY <1>10 DEF SendTo
  <2>2. CASE b = a
    <3>1. open[b]
      BY <2>1 DEF StagesOK, StageOK
    <3>2. queue'[b] = Append(queue[b], latestSeq) /\ resetting'[b] = resetting[b]
      BY <1>0, <2>1, <2>2, <3>1, SafeSendFacts
    <3>3. Whole(b)
      BY <2>1, <3>2 DEF StreamsOK
    <3> QED BY <2>1, <2>2, <3>2, <3>3, EventSent DEF handlerVars, pumpVars
  <2>3. CASE b # a
    <3>1. queue'[b] = queue[b] /\ resetting'[b] = resetting[b]
      BY <1>0, <2>1, <2>3, SafeSendFacts
    <3>2. Due(b)' = Due(b) /\ latestSeq <= latestSeq'
      BY <1>0, <2>1, <2>3 DEF Due, TypeOK
    <3> QED BY <1>1, <2>1, <3>1, <3>2 DEF handlerVars, pumpVars
  <2> QED BY <2>2, <2>3
<1>11. ASSUME NEW a \in Attempts, Ping(a) PROVE Whole(b)'
  <2>1. /\ UNCHANGED <<handlerVars, clients, pumpVars, fanVars>>
        /\ SafeSend(a, Unsequenced) /\ Unsequenced \in Nat
    BY <1>11 DEF Ping, Unsequenced
  <2>2. Due(b)' = Due(b) /\ latestSeq' = latestSeq
    BY <2>1 DEF Due, fanVars
  <2>3. CASE b = a
    <3>1. open[b]
      BY <2>1 DEF StagesOK, StageOK
    <3>2. queue'[b] = Append(queue[b], Unsequenced) /\ resetting'[b] = resetting[b]
      BY <2>1, <2>3, <3>1, SafeSendFacts
    <3>3. Whole(b)
      BY <2>1, <3>2 DEF StreamsOK
    <3> QED BY <2>1, <2>2, <3>2, <3>3, UnsequencedSent DEF handlerVars, pumpVars
  <2>4. CASE b # a
    <3>1. queue'[b] = queue[b] /\ resetting'[b] = resetting[b]
      BY <2>1, <2>4, SafeSendFacts
    <3> QED BY <1>0, <1>1, <2>1, <2>2, <3>1 DEF handlerVars, pumpVars
  <2> QED BY <2>3, <2>4
<1>12. ASSUME NEW a \in Attempts, TakeMessage(a) \/ WriteMessage(a) PROVE Whole(b)'
  <2>1. UNCHANGED <<handlerVars, clients, resetting, fanVars>>
    BY <1>12 DEF TakeMessage, WriteMessage, queueVars
  <2>2. Due(b)' = Due(b) /\ latestSeq' = latestSeq
    BY <2>1 DEF Due, fanVars
  <2>3. CASE b = a
    <3>1. /\ EventsOf(Stream(b))' = EventsOf(Stream(b))
          /\ Ordered(Stream(b))' <=> Ordered(Stream(b))
      BY <1>12, <2>3, StreamCarried
    <3>2. Whole(b)
      BY <2>1 DEF StreamsOK
    <3> QED BY <2>1, <2>2, <3>1, <3>2 DEF Whole, handlerVars
  <2>4. CASE b # a
    <3>1. delivered'[b] = delivered[b] /\ hand'[b] = hand[b] /\ queue'[b] = queue[b]
      <4>1. CASE TakeMessage(a)
        BY <2>4, <4>1 DEF TakeMessage, TypeOK
      <4>2. CASE WriteMessage(a)
        BY <2>4, <4>2 DEF WriteMessage, queueVars, TypeOK
      <4> QED BY <1>12, <4>1, <4>2
    <3> QED BY <1>0, <1>1, <2>1, <2>2, <3>1 DEF handlerVars
  <2> QED BY <2>3, <2>4
<1>13. ASSUME NEW a \in Attempts, WriterEnds(a) \/ ReaderEnds(a) \/ Leave(a) PROVE Whole(b)'
  BY <1>2, <1>13 DEF WriterEnds, ReaderEnds, Leave, handlerVars, pumpVars
<1>14. ASSUME NEW a \in Attempts, Unregister(a) PROVE Whole(b)'
  <2>1. /\ UNCHANGED <<handlerVars, queue, resetting, pumpVars, fanVars>>
        /\ b \in clients
    BY <1>14 DEF Unregister
  <2>2. Due(b)' = Due(b) /\ latestSeq <= latestSeq'
    BY <1>0, <2>1 DEF Due, fanVars
  <2> QED BY <1>1, <2>1, <2>2 DEF handlerVars, pumpVars
<1>15. ASSUME NEW a \in Attempts, Release(a) \/ CloseConn(a) PROVE Whole(b)'
  BY <1>2, <1>15 DEF Release, CloseConn, handlerVars, pumpVars
<1>16. CASE UNCHANGED vars
  BY <1>2, <1>16 DEF vars, handlerVars, pumpVars
<1> QED BY <1>3, <1>4, <1>5, <1>6, <1>7, <1>8, <1>9, <1>10, <1>11, <1>12, <1>13, <1>14, <1>15,
           <1>16 DEF Next, Handler, Writer, Teardown, Fan

-----------------------------------------------------------------------------
LEMMA HubInitInv == Init => HubInv
<1> SUFFICES ASSUME Init PROVE HubInv
  OBVIOUS
<1>1. TypeOK
  BY CapAssumption, EmptySeq, LenProperties DEF Init, TypeOK, Idle, Unsequenced
<1>2. StagesOK
  BY DEF Init, StagesOK, StageOK, Idle, Registered
<1>3. FanOK
  BY DEF Init, FanOK, Idle
<1>4. SlotsOK
  <2>1. Attempted = {} /\ \A ip \in Ips : Holders(ip) = {}
    BY DEF Init, Attempted, Holders, Holds
  <2> QED BY <2>1, FS_EmptySet DEF Init, SlotsOK
<1>5. StreamsOK
  BY DEF Init, StreamsOK
<1> QED BY <1>1, <1>2, <1>3, <1>4, <1>5 DEF HubInv

LEMMA HubStep == HubInv /\ [Next]_vars => HubInv'
<1> SUFFICES ASSUME TypeOK, StagesOK, FanOK, SlotsOK, StreamsOK, [Next]_vars PROVE HubInv'
  BY DEF HubInv
<1>1. TypeOK'
  BY HubTypeStep
<1>2. StagesOK' /\ FanOK'
  BY StagesStep, FanStep
<1>3. SlotsOK'
  BY SlotsStep
<1>4. StreamsOK'
  BY <1>1, <1>2, StreamsStep
<1> QED BY <1>1, <1>2, <1>3, <1>4 DEF HubInv

\* Every connection that ends gives its slot back once, whoever ends it and in
\* whichever order the handler, the pumps and the reset come to it: the limiter
\* never counts one too many or too few (ws_admission.go, onClose of hub.go).
THEOREM SlotsAlwaysExact == Spec => []SlotsExact
<1>1. HubInv => SlotsExact
  BY DEF HubInv, SlotsOK, SlotsExact, Holders
<1> QED BY HubInitInv, HubStep, <1>1, PTL DEF Spec

\* However registration, hello and broadcasts interleave, a connection that is
\* not being reset is sent every event since its hello, in order and without a
\* gap (hub.go:120-130, 162-179).
THEOREM HelloThenWholeStream == Spec => []HelloThenStream
<1>1. HubInv => HelloThenStream
  <2> SUFFICES ASSUME HubInv, NEW a \in clients, stage[a] \in {"greeting", "serving"},
                      ~resetting[a]
               PROVE  /\ Ordered(Stream(a))
                      /\ \E first \in 1..(greeting[a] + 1) : EventsOf(Stream(a)) = first..Due(a)
    BY DEF HelloThenStream
  <2>1. Whole(a) /\ stage[a] # "registered"
    BY DEF HubInv, StreamsOK
  <2>2. PICK first \in 1..(latestSeq + 1) :
          EventsOf(Stream(a)) = first..Due(a) /\ first <= greeting[a] + 1
    BY <2>1 DEF Whole
  <2>3. greeting[a] \in Nat /\ latestSeq \in Nat
    BY DEF HubInv, TypeOK
  <2>4. first \in 1..(greeting[a] + 1)
    BY <2>2, <2>3
  <2> QED BY <2>1, <2>2, <2>4 DEF Whole
<1> QED BY HubInitInv, HubStep, <1>1, PTL DEF Spec

=============================================================================
