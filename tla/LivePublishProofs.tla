--------------------------- MODULE LivePublishProofs ---------------------------
(***************************************************************************)
(* Proofs about LivePublish for every set of nodes, every number of jobs,    *)
(* retries and crashes, and whether or not a commit may be ambiguous.        *)
(***************************************************************************)
EXTENDS LivePublish, SequenceTheorems, TLAPS

-----------------------------------------------------------------------------
(* The inductive invariant. *)

Types == {"activity", "routePulse", "nodeUpdate"}
LogRecords == [job : Nat, type : Types, node : Nodes \cup {NoNode}, version : Nat]

NodeStages == {"upsertNode", "insertNode", "broadcastNode", "applyNode"}
SendStages == {"apply", "broadcast"}
Stages == {"idle", "commit"} \cup NodeStages \cup SendStages

\* The log, and the job the worker is at.
LogOK ==
    /\ log \in Seq(LogRecords)
    /\ \A s \in Seqs : log[s].job \in 1..jobs

JobOK ==
    /\ pc \in Stages
    /\ job \in [id : Nat, kind : {"none", "packet", "status"}, node : Nodes \cup {NoNode},
                batch : Rows, version : Nat]
    /\ job.batch \in Batches \cup {<<>>}
    /\ pc # "idle" => job.id = jobs /\ jobs > 0
    /\ pc = "idle" => job = NoJob
    /\ pc \in NodeStages => job.node \in Nodes /\ job.version <= nodeRow[job.node]

\* The events of the job's batch that are in the log and still to be sent: the
\* last of the log, in the order of the batch.
Stored == \E s \in Items : log[s].job = job.id
Pending == IF pc \in SendStages THEN todo
           ELSE IF pc = "commit" /\ Stored THEN job.batch ELSE <<>>
Base == Len(log) - Len(Pending)
AppliedBase == IF pc = "broadcast" THEN Base + 1 ELSE Base

BlockOK ==
    /\ pc \in SendStages => todo \in Rows \ {<<>>}
    /\ Base \in Nat
    /\ \A i \in 1..Len(Pending) : Key(log[Base + i]) = <<job.id, Pending[i]>>
    /\ pc \in NodeStages => \A s \in Items : log[s].job # job.id
    /\ pc = "commit" => \A s \in Items : log[s].job = job.id => s > Base /\ attempts > 0
    /\ pc \in {"broadcastNode", "applyNode"} =>
          Len(log) > 0 /\ Key(log[Len(log)]) = <<job.id, "nodeUpdate">>

\* The hub has sent nothing past the pending events.
HubOK ==
    /\ restored \in Nat /\ hubSeq \in Nat
    /\ restored <= Base /\ hubSeq <= Base
    /\ pc = "broadcastNode" => restored < Len(log) /\ hubSeq < Len(log)

WireOK ==
    /\ wire \in Seq(Nat)
    /\ \A i \in 1..Len(wire) : restored < wire[i] /\ wire[i] <= hubSeq
    /\ \A i, j \in 1..Len(wire) : j < i => wire[j] < wire[i]

\* Whatever is not pending was sent, is older than this process or given up.
PublishedOK ==
    \A s \in Items :
        s > Base \/ s \in Range(wire) \/ s <= restored \/ log[s].job \in gaveUp

\* The rows, and the snapshots of them.
RowsOK ==
    /\ nodeRow \in [Nodes -> Nat]
    /\ jobs \in 0..MaxJobs /\ due \in [Nodes -> 0..MaxJobs]
    /\ attempts \in 0..MaxRetries /\ crashes \in 0..MaxCrashes
    /\ ready \in BOOLEAN

CacheOK ==
    /\ cache \in [items : SUBSET Nat, nodes : [Nodes -> Nat], nodeSeq : [Nodes -> Nat], latestSeq : Nat]
    /\ cache.items \subseteq Seqs
    /\ \A n \in Nodes : cache.nodes[n] <= nodeRow[n] /\ cache.nodeSeq[n] <= Len(log)
    /\ cache.latestSeq <= AppliedBase

RefreshOK ==
    /\ refresh \in [pc : {"idle", "reading", "nodes", "items", "read", "built"},
                    items : SUBSET Nat, nodes : [Nodes -> Nat], latestSeq : Nat]
    /\ refresh.items \subseteq Seqs
    /\ \A n \in Nodes : refresh.nodes[n] <= nodeRow[n]
    /\ refresh.latestSeq <= hubSeq

\* The sequences of the journaled mutations: the latest is the cache's.
Journaled == journal.items \cup {cache.nodeSeq[n] : n \in journal.nodes}

JournalOK ==
    /\ journal \in [items : SUBSET Nat, nodes : SUBSET Nodes]
    /\ journal.items \subseteq cache.items
    /\ \A s \in Journaled : s <= cache.latestSeq
    /\ Journaled # {} => cache.latestSeq \in Journaled

\* Every applied event is in the cache, and in what the refresher will install.
Excused == dropped \cup Unreported

SettledOK ==
    \A s \in Items \ Excused :
        s <= AppliedBase =>
            /\ ready => s \in cache.items
            /\ refresh.pc \in {"items", "read", "built"} => s \in refresh.items \cup journal.items

\* A refresh that began with the cache ready also brings what was dropped before.
RereadOK ==
    ready /\ refresh.pc \in {"items", "read", "built"} =>
        \A s \in Items \ Unreported : s <= AppliedBase => s \in refresh.items \cup journal.items

Core == LogOK /\ JobOK /\ BlockOK /\ OncePerKey /\ RowsOK
Sent == HubOK /\ WireOK /\ PublishedOK
Covered == CacheOK /\ RefreshOK /\ JournalOK /\ SettledOK /\ RereadOK

PublishInv == Core /\ Sent /\ Covered

-----------------------------------------------------------------------------
(* Rows and logs. *)

(* What a row of a batch is: at most two distinct events, none a node update. *)
LEMMA RowFacts ==
  ASSUME NEW r \in Rows
  PROVE  /\ r \in Seq({"activity", "routePulse"})
         /\ Len(r) \in Nat /\ DOMAIN r = 1..Len(r)
         /\ \A i \in 1..Len(r) : r[i] \in {"activity", "routePulse"}
         /\ \A i, j \in 1..Len(r) : r[i] = r[j] => i = j
         /\ r = <<>> <=> Len(r) = 0
  <1>1. CASE r = <<"activity", "routePulse">>
    BY <1>1
  <1>2. CASE r = <<"activity">>
    BY <1>2
  <1>3. CASE r = <<"routePulse">>
    BY <1>3
  <1>4. CASE r = <<>>
    BY <1>4
  <1>5. QED BY <1>1, <1>2, <1>3, <1>4 DEF Rows

LEMMA RowTail ==
  ASSUME NEW r \in Rows \ {<<>>}
  PROVE  /\ Head(r) = r[1] /\ Tail(r) \in Rows
         /\ Len(r) > 0 /\ Len(Tail(r)) = Len(r) - 1
         /\ \A i \in 1..Len(Tail(r)) : Tail(r)[i] = r[i + 1]
  <1>1. Tail(r) \in Rows
    <2>1. CASE r = <<"activity", "routePulse">>
      <3>1. Tail(r) = <<"routePulse">>
        BY <2>1
      <3>2. QED BY <3>1 DEF Rows
    <2>2. CASE r = <<"activity">> \/ r = <<"routePulse">>
      <3>0. Len(<<"activity">>) = 1 /\ Len(<<"routePulse">>) = 1
        OBVIOUS
      <3>1. Len(r) = 1 /\ r \in Seq({"activity", "routePulse"})
        BY <2>2, <3>0, RowFacts
      <3>2. Tail(r) \in Seq({"activity", "routePulse"}) /\ Len(Tail(r)) = 0
        BY <3>1
      <3>3. Tail(r) = <<>>
        BY <3>2, EmptySeq
      <3>4. QED BY <3>3 DEF Rows
    <2>3. QED BY <2>1, <2>2 DEF Rows
  <1>2. r \in Seq({"activity", "routePulse"}) /\ r # <<>>
    BY RowFacts
  <1>3. QED BY <1>1, <1>2

(* A row is known by the events it holds. *)
LEMMA RowRange ==
  ASSUME NEW r \in Rows, NEW q \in Rows, Range(r) = Range(q)
  PROVE  r = q
  <1>1. Range(<<"activity", "routePulse">>) = {"activity", "routePulse"}
    BY DEF Range
  <1>2. Range(<<"activity">>) = {"activity"} /\ Range(<<"routePulse">>) = {"routePulse"}
    BY DEF Range
  <1>3. Range(<<>>) = {}
    BY DEF Range
  <1>4. "activity" # "routePulse"
    OBVIOUS
  <1>5. QED BY <1>1, <1>2, <1>3, <1>4, SMTT(30) DEF Rows

LEMMA ConcatFacts ==
  ASSUME NEW S, NEW s \in Seq(S), NEW t \in Seq(S)
  PROVE  /\ s \o t \in Seq(S)
         /\ Len(s \o t) = Len(s) + Len(t)
         /\ \A i \in 1..Len(s) : (s \o t)[i] = s[i]
         /\ \A i \in 1..Len(t) : (s \o t)[Len(s) + i] = t[i]
         /\ Len(t) = 0 => s \o t = s
  OBVIOUS

(* An event of the job being processed. *)
LEMMA EventFacts ==
  ASSUME JobOK, NEW type \in Types
  PROVE  /\ Event(type) \in LogRecords
         /\ Key(Event(type)) = <<job.id, type>>
         /\ Event(type).job = job.id /\ Event(type).type = type
  BY DEF JobOK, Event, Key, LogRecords, Types

(* The log of the next state is that of this one, and maybe more. *)
Extends ==
    /\ Len(log') >= Len(log)
    /\ \A s \in Seqs : s \in Seqs' /\ log'[s] = log[s]

LEMMA ExtendsFacts ==
  ASSUME LogOK, LogOK', Extends
  PROVE  /\ Len(log) \in Nat /\ Len(log') \in Nat
         /\ Seqs \subseteq Seqs'
         /\ Items \subseteq Items'
         /\ \A s \in Items' : s \in Items \/ s > Len(log)
         /\ \A s \in Seqs : log'[s] = log[s]
  BY DEF LogOK, Extends, Seqs, Items

(* The sequence of an event in the log is the one place that holds its key. *)
LEMMA SeqOfIs ==
  ASSUME OncePerKey, NEW type, NEW s \in Seqs, Key(log[s]) = <<job.id, type>>
  PROVE  SeqOf(type) = s
  BY DEF OncePerKey, SeqOf

(* What a commit appends: the whole batch, unless an earlier attempt did. *)
LEMMA CommitFacts ==
  ASSUME LogOK, JobOK, BlockOK, CommitBatch
  PROVE  /\ Absent = IF Stored THEN <<>> ELSE job.batch
         /\ ToPublish = job.batch
  <1> USE BatchesAssumption DEF BatchesAssumption
  <1>1. pc = "commit" /\ job.batch \in Rows
    BY DEF JobOK, CommitBatch, Rows
  <1>2. /\ DOMAIN job.batch = 1..Len(job.batch) /\ Len(job.batch) \in Nat
        /\ \A i \in 1..Len(job.batch) : job.batch[i] \in {"activity", "routePulse"}
    BY <1>1, RowFacts
  <1> DEFINE left == {type \in Range(job.batch) : ~Committed(type)}
  <1>3. CASE ~Stored
    <2>1. \A type \in Range(job.batch) : ~Committed(type)
      <3>1. ASSUME NEW type \in Range(job.batch), NEW s \in Seqs, Key(log[s]) = <<job.id, type>>
            PROVE FALSE
        <4>1. type # "nodeUpdate"
          BY <1>2 DEF Range
        <4>2. s \in Items /\ log[s].job = job.id
          BY <3>1, <4>1 DEF Items, Key
        <4>3. QED BY <4>2, <1>3 DEF Stored
      <3>2. QED BY <3>1 DEF Committed
    <2>2. left = Range(job.batch)
      BY <2>1
    <2>3. \E rows \in Rows : Range(rows) = left
      BY <1>1, <2>2
    <2>4. Absent \in Rows /\ Range(Absent) = Range(job.batch)
      BY <2>2, <2>3 DEF Absent
    <2>5. Absent = job.batch
      BY <2>4, <1>1, RowRange
    <2>6. QED BY <2>5, <1>3 DEF ToPublish
  <1>4. CASE Stored
    <2>1. Pending = job.batch /\ attempts > 0
      BY <1>4, <1>1 DEF Pending, SendStages, BlockOK, Stored
    <2>2. \A type \in Range(job.batch) : Committed(type)
      <3>1. ASSUME NEW i \in 1..Len(job.batch) PROVE Committed(job.batch[i])
        <4>1. Key(log[Base + i]) = <<job.id, job.batch[i]>>
          BY <2>1 DEF BlockOK
        <4>2. Base + i \in Seqs
          BY <2>1, <1>2 DEF BlockOK, Base, Seqs, LogOK
        <4>3. QED BY <4>1, <4>2 DEF Committed
      <3>2. QED BY <3>1, <1>2 DEF Range
    <2>3. left = {}
      BY <2>2
    <2>4. <<>> \in Rows /\ Range(<<>>) = {}
      BY DEF Rows, Range
    <2>5. Absent \in Rows /\ Range(Absent) = {}
      BY <2>3, <2>4 DEF Absent
    <2>6. Absent = <<>>
      BY <2>4, <2>5, RowRange
    <2>7. QED BY <2>1, <2>6, <1>4 DEF ToPublish, BlockOK
  <1>5. QED BY <1>3, <1>4

-----------------------------------------------------------------------------
(* The worker and the log. *)

\* Where a step leaves the boundary between what is sent, what is applied and
\* what is pending.
SameBase == Base' = Base /\ AppliedBase' = AppliedBase
SameLog  == Seqs' = Seqs /\ Items' = Items

LEMMA BaseFacts ==
  ASSUME LogOK, JobOK, BlockOK
  PROVE  /\ Len(log) \in Nat /\ Base \in Nat /\ AppliedBase \in Nat
         /\ Base <= AppliedBase /\ AppliedBase <= Len(log)
         /\ Len(Pending) \in Nat /\ Base = Len(log) - Len(Pending)
         /\ pc \in SendStages => Pending = todo /\ todo \in Rows \ {<<>>} /\ Base < Len(log)
         /\ pc \notin {"commit"} \cup SendStages => Pending = <<>> /\ Base = Len(log)
  <1> USE BatchesAssumption DEF BatchesAssumption
  <1>1. Len(log) \in Nat
    BY DEF LogOK
  <1>2. Pending \in Rows
    BY DEF Pending, JobOK, BlockOK, Rows
  <1>3. Len(Pending) \in Nat /\ (Pending = <<>> <=> Len(Pending) = 0)
    BY <1>2, RowFacts
  <1>4. Base \in Nat /\ Base = Len(log) - Len(Pending)
    BY DEF BlockOK, Base
  <1>5. pc \in SendStages => Pending = todo /\ todo \in Rows \ {<<>>}
    BY DEF Pending, BlockOK
  <1>6. pc \in SendStages => Base < Len(log)
    BY <1>1, <1>3, <1>4, <1>5
  <1>7. pc \notin {"commit"} \cup SendStages => Pending = <<>>
    BY DEF Pending
  <1>8. pc \notin {"commit"} \cup SendStages => Base = Len(log)
    BY <1>1, <1>3, <1>4, <1>7
  <1>9. AppliedBase \in Nat /\ Base <= AppliedBase /\ AppliedBase <= Len(log)
    BY <1>1, <1>3, <1>4, <1>6 DEF AppliedBase, SendStages
  <1>10. QED BY <1>1, <1>3, <1>4, <1>5, <1>6, <1>7, <1>8, <1>9

(* A step that leaves the log and the worker where they are. *)
LEMMA OthersKeepCore ==
  ASSUME Core, RowsOK', UNCHANGED <<log, jobs, job, pc, todo>>, attempts' >= attempts,
         \A n \in Nodes : nodeRow'[n] >= nodeRow[n]
  PROVE  Core' /\ Extends /\ SameBase /\ SameLog
  <1>1. log' = log /\ jobs' = jobs /\ job' = job /\ pc' = pc /\ todo' = todo
    OBVIOUS
  <1>2. Seqs' = Seqs /\ Items' = Items
    BY <1>1 DEF Seqs, Items
  <1>3. LogOK' /\ OncePerKey'
    BY <1>1, <1>2 DEF Core, LogOK, OncePerKey, Key
  <1>4. JobOK'
    BY <1>1 DEF Core, JobOK, RowsOK, NodeStages
  <1>5. Stored' = Stored
    BY <1>1, <1>2 DEF Stored
  <1>6. Pending' = Pending
    BY <1>1, <1>5 DEF Pending
  <1>7. SameBase
    BY <1>1, <1>6 DEF Base, AppliedBase, SameBase
  <1>8. BlockOK'
    BY <1>1, <1>2, <1>6, <1>7 DEF Core, BlockOK, SameBase, Key, RowsOK
  <1>9. Extends
    BY <1>1, <1>2 DEF Extends, Core, LogOK
  <1>10. QED BY <1>2, <1>3, <1>4, <1>7, <1>8, <1>9 DEF Core, SameLog

(* A step within the node stages, or into the first stage, with the log as it is. *)
LEMMA NodeStageKeepsCore ==
  ASSUME Core, RowsOK', JobOK', UNCHANGED log,
         pc \in {"idle"} \cup NodeStages,
         pc' \in {"idle", "commit"} \cup NodeStages,
         jobs' >= jobs,
         pc' # "idle" => \A s \in Items : log[s].job # job'.id,
         pc' \in {"broadcastNode", "applyNode"} =>
             Len(log) > 0 /\ Key(log[Len(log)]) = <<job'.id, "nodeUpdate">>
  PROVE  Core' /\ Extends /\ SameBase /\ SameLog
  <1>1. Seqs' = Seqs /\ Items' = Items
    BY DEF Seqs, Items
  <1>2. LogOK' /\ OncePerKey'
    BY <1>1 DEF Core, LogOK, OncePerKey, Key, RowsOK
  <1>3. pc' = "commit" => ~Stored'
    BY <1>1 DEF Stored
  <1>4. Pending = <<>> /\ Pending' = <<>>
    BY <1>3 DEF Pending, NodeStages, SendStages
  <1>5. Base' = Base
    BY <1>4 DEF Base
  <1>6. pc # "broadcast" /\ pc' # "broadcast"
    BY DEF NodeStages
  <1>7. SameBase
    BY <1>5, <1>6 DEF SameBase, AppliedBase
  <1>8. Len(<<>>) = 0
    OBVIOUS
  <1>9. BlockOK'
    BY <1>1, <1>4, <1>5, <1>8 DEF BlockOK, Core, NodeStages, SendStages, Key
  <1>10. Extends
    BY <1>1 DEF Extends, Core, LogOK
  <1>11. QED BY <1>1, <1>2, <1>7, <1>9, <1>10 DEF Core, SameLog

(* Appending events of the job keeps every key once. *)
LEMMA AppendKeepsKeys ==
  ASSUME Core, LogOK', Extends,
         \A s, t \in Seqs' : s \notin Seqs /\ t \notin Seqs
                             /\ Key(log'[s]) = Key(log'[t]) => s = t,
         \A s \in Seqs, t \in Seqs' \ Seqs : Key(log'[t]) # Key(log[s])
  PROVE  OncePerKey'
  <1>1. SUFFICES ASSUME NEW s \in Seqs', NEW t \in Seqs', Key(log'[s]) = Key(log'[t])
                 PROVE s = t
    BY DEF OncePerKey, Key
  <1>2. CASE s \in Seqs /\ t \in Seqs
    <2>1. log'[s] = log[s] /\ log'[t] = log[t]
      BY <1>2 DEF Extends
    <2>2. QED BY <1>1, <1>2, <2>1 DEF Core, OncePerKey
  <1>3. CASE s \in Seqs /\ t \notin Seqs
    <2>1. log'[s] = log[s]
      BY <1>3 DEF Extends
    <2>2. QED BY <1>1, <1>3, <2>1
  <1>4. CASE s \notin Seqs /\ t \in Seqs
    <2>1. log'[t] = log[t]
      BY <1>4 DEF Extends
    <2>2. QED BY <1>1, <1>4, <2>1
  <1>5. CASE s \notin Seqs /\ t \notin Seqs
    BY <1>1, <1>5
  <1>6. QED BY <1>2, <1>3, <1>4, <1>5

(* A step that ends the job and writes nothing: whatever was pending is not any more. *)
LEMMA IdleKeepsCore ==
  ASSUME Core, RowsOK', JobOK', UNCHANGED log, jobs' >= jobs, pc' = "idle"
  PROVE  Core' /\ Extends /\ SameLog /\ Base' = Len(log) /\ AppliedBase' = Len(log)
  <1>1. Seqs' = Seqs /\ Items' = Items
    BY DEF Seqs, Items
  <1>2. LogOK' /\ OncePerKey'
    BY <1>1 DEF Core, LogOK, OncePerKey, Key, RowsOK
  <1>3. Len(<<>>) = 0
    OBVIOUS
  <1>4. Pending' = <<>>
    BY DEF Pending, SendStages
  <1>5. Base' = Len(log) /\ AppliedBase' = Len(log) /\ Len(log) \in Nat
    BY <1>3, <1>4 DEF Base, AppliedBase, Core, LogOK
  <1>6. BlockOK'
    BY <1>3, <1>4, <1>5 DEF BlockOK, NodeStages, SendStages
  <1>7. Extends
    BY <1>1 DEF Extends, Core, LogOK
  <1>8. QED BY <1>1, <1>2, <1>5, <1>6, <1>7 DEF Core, SameLog

(* The counters and the rows keep their bounds, and no row goes back. *)
LEMMA RowsStep ==
  ASSUME RowsOK, JobOK, [PublishNext]_publishVars
  PROVE  RowsOK' /\ (\A n \in Nodes : nodeRow'[n] >= nodeRow[n]) /\ jobs' >= jobs
  <1> USE BoundsAssumption DEF BoundsAssumption, RowsOK
  <1>n. \A m \in Nat : m + 1 \in Nat /\ m + 1 >= m
    OBVIOUS
  <1>0. MaxJobs \in Nat /\ MaxRetries \in Nat /\ MaxCrashes \in Nat
    OBVIOUS
  <1>1. ASSUME NEW n \in Nodes, ReceiveStatus(n)
        PROVE RowsOK' /\ (\A m \in Nodes : nodeRow'[m] >= nodeRow[m]) /\ jobs' >= jobs
    <2>1. UNCHANGED <<jobs, attempts, crashes, ready>>
      BY <1>1 DEF ReceiveStatus, workerVars, cacheVars
    <2>2. due'[n] \in 0..MaxJobs /\ due' = [due EXCEPT ![n] = @ + 1]
      BY <1>0, <1>1 DEF ReceiveStatus
    <2>3. QED BY <1>n, <1>1, <2>1, <2>2 DEF ReceiveStatus
  <1>2. ASSUME NEW n \in Nodes \cup {NoNode}, NEW batch \in Batches, TakePacket(n, batch)
        PROVE RowsOK' /\ (\A m \in Nodes : nodeRow'[m] >= nodeRow[m]) /\ jobs' >= jobs
    BY <1>0, <1>2 DEF TakePacket, Take, storeVars, cacheVars
  <1>3. ASSUME NEW n \in Nodes, TakeStatus(n)
        PROVE RowsOK' /\ (\A m \in Nodes : nodeRow'[m] >= nodeRow[m]) /\ jobs' >= jobs
    BY <1>0, <1>3 DEF TakeStatus, Take, storeVars, cacheVars
  <1>4. CASE TransientError
    BY <1>0, <1>4 DEF TransientError, Retry, storeVars, cacheVars
  <1>5. CASE UpsertNode
    <2>1. job.node \in Nodes
      BY <1>5 DEF UpsertNode, JobOK, NodeStages
    <2>2. attempts' \in 0..MaxRetries /\ UNCHANGED <<jobs, due, crashes, ready>>
      BY <1>0, <1>5 DEF UpsertNode, Retry, cacheVars
    <2>3. QED BY <1>n, <1>5, <2>1, <2>2 DEF UpsertNode
  <1>6. CASE InsertNode
    <2>1. attempts' \in 0..MaxRetries /\ UNCHANGED <<nodeRow, jobs, due, crashes, ready>>
      BY <1>0, <1>6 DEF InsertNode, Advance, Retry, cacheVars
    <2>2. QED BY <2>1
  <1>7. CASE BroadcastNode \/ BroadcastNext
    BY <1>0, <1>7 DEF BroadcastNode, BroadcastNext, Advance, Broadcast, storeVars, cacheVars
  <1>8. CASE ApplyNodeUpdate \/ ApplyNext
    <2>1. UNCHANGED <<ready>>
      BY <1>8 DEF ApplyNodeUpdate, ApplyNext, ApplyNode, ApplyItem, NotReady, Mutate, cacheVars
    <2>2. attempts' = 0 /\ UNCHANGED <<nodeRow, jobs, due, crashes>>
      BY <1>8 DEF ApplyNodeUpdate, ApplyNext, Advance, storeVars
    <2>3. QED BY <1>0, <2>1, <2>2
  <1>9. CASE CommitBatch
    <2>1. attempts' \in 0..MaxRetries /\ UNCHANGED <<nodeRow, jobs, due, crashes, ready>>
      BY <1>0, <1>9 DEF CommitBatch, Advance, Retry, cacheVars
    <2>2. QED BY <2>1
  <1>10. CASE GiveUp
    BY <1>0, <1>10 DEF GiveUp, Advance, storeVars, cacheVars
  <1>11. CASE RefreshStep \/ RefreshFail
    <2>1. CASE Install
      BY <1>0, <2>1 DEF Install, storeVars, workerVars
    <2>2. CASE ~Install
      <3>1. OthersIdle /\ ready' \in BOOLEAN
        BY <1>11, <2>2 DEF RefreshStep, RefreshBegin, ReadNodes, ReadItems, ReadSeq, RefreshFail, cacheVars
      <3>2. QED BY <3>1 DEF OthersIdle, storeVars, workerVars
    <2>3. QED BY <2>1, <2>2
  <1>12. CASE Crash
    <2>1. /\ crashes < MaxCrashes /\ crashes' = crashes + 1 /\ due' = [n \in Nodes |-> 0]
          /\ attempts' = 0 /\ ready' = FALSE /\ nodeRow' = nodeRow /\ jobs' = jobs
      BY <1>12 DEF Crash, storeVars
    <2>2. 0 \in 0..MaxJobs /\ 0 \in 0..MaxRetries /\ crashes' \in 0..MaxCrashes
      BY <1>0, <2>1
    <2>3. due' \in [Nodes -> 0..MaxJobs]
      BY <2>1, <2>2
    <2>4. \A n \in Nodes : nodeRow'[n] >= nodeRow[n]
      BY <2>1
    <2>5. RowsOK'
      BY <2>1, <2>2, <2>3
    <2>6. jobs' >= jobs
      BY <2>1
    <2>7. QED BY <2>4, <2>5, <2>6
  <1>13. CASE UNCHANGED publishVars
    BY <1>13 DEF publishVars, storeVars, workerVars, cacheVars
  <1>14. QED
    BY <1>1, <1>2, <1>3, <1>4, <1>5, <1>6, <1>7, <1>8, <1>9, <1>10, <1>11, <1>12, <1>13
    DEF PublishNext, TakeJob, PublishProgress

(* The job stays well formed. *)
JobRecords == [id : Nat, kind : {"none", "packet", "status"}, node : Nodes \cup {NoNode},
               batch : Rows, version : Nat]

LEMMA NoJobFacts == NoJob \in JobRecords /\ NoJob.batch = <<>> /\ NoJob.id = 0
  BY DEF NoJob, JobRecords, Rows

LEMMA AdvanceKeepsJob ==
  ASSUME JobOK, UNCHANGED <<jobs, nodeRow>>, pc # "idle", NEW stage \in Stages, Advance(stage),
         stage \in NodeStages => pc \in NodeStages
  PROVE  JobOK'
  <1>1. CASE stage = "idle"
    <2>1. pc' = "idle" /\ job' = NoJob
      BY <1>1 DEF Advance
    <2>2. job' \in JobRecords /\ job'.batch = <<>>
      BY <2>1, NoJobFacts
    <2>3. QED BY <2>1, <2>2 DEF JobOK, JobRecords, NodeStages, Stages
  <1>2. CASE stage # "idle"
    BY <1>2 DEF Advance, JobOK
  <1>3. QED BY <1>1, <1>2

LEMMA NextStageFacts == NextStage \in {"idle", "commit"}
  BY DEF NextStage

LEMMA TakeKeepsJob ==
  ASSUME RowsOK, NEW kind \in {"packet", "status"}, NEW n \in Nodes \cup {NoNode}, NEW batch \in Batches \cup {<<>>},
         NEW version \in Nat, NEW stage \in {"commit", "upsertNode", "insertNode"},
         stage # "commit" => n \in Nodes /\ version <= nodeRow[n],
         Take([id |-> jobs + 1, kind |-> kind, node |-> n, batch |-> batch, version |-> version], stage)
  PROVE  JobOK'
  <1> USE BatchesAssumption DEF BatchesAssumption
  <1> DEFINE j == [id |-> jobs + 1, kind |-> kind, node |-> n, batch |-> batch, version |-> version]
  <1>1. jobs \in Nat /\ jobs + 1 \in Nat /\ jobs + 1 > 0
    BY BoundsAssumption DEF RowsOK, BoundsAssumption
  <1>2. batch \in Rows
    BY DEF Rows
  <1>3. j \in JobRecords
    BY <1>1, <1>2 DEF JobRecords
  <1>4. job' = j /\ pc' = stage /\ jobs' = jobs + 1 /\ nodeRow' = nodeRow
    BY DEF Take, storeVars
  <1>5. j.batch = batch /\ j.id = jobs + 1 /\ j.node = n /\ j.version = version
    OBVIOUS
  <1> HIDE DEF j
  <1>6. QED BY <1>1, <1>3, <1>4, <1>5 DEF JobOK, JobRecords, NodeStages, Stages

LEMMA JobStep ==
  ASSUME RowsOK, JobOK, [PublishNext]_publishVars
  PROVE  JobOK'
  <1>0. MaxJobs \in Nat
    BY BoundsAssumption DEF BoundsAssumption
  <1>r. \A n \in Nodes : nodeRow[n] \in Nat
    BY DEF RowsOK
  <1>1. ASSUME NEW n \in Nodes, ReceiveStatus(n) PROVE JobOK'
    <2>1. \A m \in Nodes : nodeRow'[m] >= nodeRow[m] /\ nodeRow'[m] \in Nat
      BY <1>1, <1>r DEF ReceiveStatus, RowsOK
    <2>2. QED BY <1>1, <1>r, <2>1 DEF ReceiveStatus, workerVars, JobOK
  <1>2. ASSUME NEW n \in Nodes \cup {NoNode}, NEW batch \in Batches, TakePacket(n, batch)
        PROVE JobOK'
    <2>1. CASE n = NoNode
      BY <1>2, <2>1, TakeKeepsJob DEF TakePacket
    <2>2. CASE n # NoNode
      <3>1. n \in Nodes /\ 0 <= nodeRow[n]
        BY <1>r, <2>2
      <3>2. QED BY <1>2, <2>2, <3>1, TakeKeepsJob DEF TakePacket
    <2>3. QED BY <2>1, <2>2
  <1>3. ASSUME NEW n \in Nodes, TakeStatus(n) PROVE JobOK'
    BY <1>3, <1>r, TakeKeepsJob DEF TakeStatus
  <1>4. CASE TransientError
    BY <1>4 DEF TransientError, Retry, storeVars, JobOK
  <1>5. CASE UpsertNode
    <2>1. /\ job.node \in Nodes /\ job \in JobRecords /\ job.batch \in Batches \cup {<<>>}
          /\ job.id = jobs /\ jobs > 0 /\ job.version <= nodeRow[job.node]
      BY <1>5 DEF UpsertNode, JobOK, NodeStages, JobRecords
    <2>2. /\ nodeRow'[job.node] = nodeRow[job.node] + 1 /\ nodeRow[job.node] + 1 \in Nat
          /\ jobs' = jobs
      BY <1>5, <1>r, <2>1 DEF UpsertNode, RowsOK
    <2>3. CASE job' = [job EXCEPT !.version = nodeRow[job.node] + 1] /\ pc' = "insertNode"
      <3>1. /\ job' \in JobRecords /\ job'.batch = job.batch /\ job'.id = job.id
            /\ job'.node = job.node /\ job'.version = nodeRow[job.node] + 1
        BY <2>1, <2>2, <2>3 DEF JobRecords
      <3>2. job'.version <= nodeRow'[job'.node]
        BY <2>2, <3>1
      <3>3. QED BY <2>1, <2>2, <2>3, <3>1, <3>2 DEF JobOK, JobRecords, NodeStages, Stages
    <2>4. CASE UNCHANGED <<job, pc>>
      <3>1. job.version <= nodeRow'[job.node]
        BY <2>1, <2>2, <1>r DEF JobRecords
      <3>2. QED BY <2>1, <2>2, <2>4, <3>1 DEF JobOK, JobRecords
    <2>5. QED BY <1>5, <2>3, <2>4 DEF UpsertNode, Retry
  <1>6. CASE InsertNode
    <2>1. UNCHANGED <<jobs, nodeRow>> /\ pc = "insertNode"
      BY <1>6 DEF InsertNode
    <2>2. Advance(NextStage) \/ Advance("broadcastNode") \/ UNCHANGED <<job, pc>>
      BY <1>6 DEF InsertNode, Retry
    <2>3. pc # "idle" /\ pc \in NodeStages
      BY <2>1 DEF NodeStages
    <2>4. CASE UNCHANGED <<job, pc>>
      BY <2>1, <2>4 DEF JobOK
    <2>5. QED BY <2>1, <2>2, <2>3, <2>4, NextStageFacts, AdvanceKeepsJob DEF Stages, NodeStages
  <1>7. CASE BroadcastNode
    <2>1. UNCHANGED <<jobs, nodeRow>> /\ pc = "broadcastNode" /\ Advance("applyNode")
      BY <1>7 DEF BroadcastNode, storeVars
    <2>2. QED BY <2>1, AdvanceKeepsJob DEF NodeStages, SendStages, Stages
  <1>8. CASE ApplyNodeUpdate
    <2>1. UNCHANGED <<jobs, nodeRow>> /\ pc = "applyNode" /\ Advance(NextStage)
      BY <1>8 DEF ApplyNodeUpdate, storeVars
    <2>2. QED BY <2>1, NextStageFacts, AdvanceKeepsJob DEF NodeStages, SendStages, Stages
  <1>9. CASE CommitBatch
    <2>1. UNCHANGED <<jobs, nodeRow>> /\ pc = "commit"
      BY <1>9 DEF CommitBatch
    <2>2. Advance("idle") \/ Advance("apply") \/ UNCHANGED <<job, pc>>
      BY <1>9 DEF CommitBatch, Retry
    <2>3. CASE UNCHANGED <<job, pc>>
      BY <2>1, <2>3 DEF JobOK
    <2>4. QED BY <2>1, <2>2, <2>3, AdvanceKeepsJob DEF NodeStages, SendStages, Stages
  <1>10. CASE ApplyNext
    <2>1. UNCHANGED <<jobs, nodeRow>> /\ pc = "apply" /\ Advance("broadcast")
      BY <1>10 DEF ApplyNext, storeVars
    <2>2. QED BY <2>1, AdvanceKeepsJob DEF NodeStages, SendStages, Stages
  <1>11. CASE BroadcastNext
    <2>1. /\ UNCHANGED <<jobs, nodeRow>> /\ pc = "broadcast"
          /\ Advance("idle") \/ Advance("apply")
      BY <1>11 DEF BroadcastNext, storeVars
    <2>2. QED BY <2>1, AdvanceKeepsJob DEF NodeStages, SendStages, Stages
  <1>12. CASE GiveUp
    <2>1. /\ UNCHANGED <<jobs, nodeRow>> /\ pc # "idle"
          /\ Advance("idle") \/ Advance("commit")
      BY <1>12, NextStageFacts DEF GiveUp, storeVars
    <2>2. QED BY <2>1, AdvanceKeepsJob DEF NodeStages, SendStages, Stages
  <1>13. CASE RefreshStep \/ RefreshFail
    <2>1. UNCHANGED <<jobs, job, pc, nodeRow>>
      BY <1>13 DEF RefreshStep, RefreshBegin, ReadNodes, ReadItems, ReadSeq, Install, RefreshFail,
                   OthersIdle, storeVars, workerVars
    <2>2. QED BY <2>1 DEF JobOK
  <1>14. CASE Crash
    <2>1. job' = NoJob /\ pc' = "idle"
      BY <1>14 DEF Crash
    <2>2. QED BY <2>1, NoJobFacts DEF JobOK, JobRecords, NodeStages, Stages
  <1>15. CASE UNCHANGED publishVars
    BY <1>15 DEF publishVars, storeVars, workerVars, JobOK
  <1>16. QED
    BY <1>1, <1>2, <1>3, <1>4, <1>5, <1>6, <1>7, <1>8, <1>9, <1>10, <1>11, <1>12, <1>13, <1>14, <1>15
    DEF PublishNext, TakeJob, PublishProgress

(* The insert of a node update puts it last, or finds it there. *)
LEMMA InsertNodeStep ==
  ASSUME Core, RowsOK', JobOK', InsertNode
  PROVE  /\ Core' /\ Extends /\ Items' = Items
         /\ Base = Len(log) /\ AppliedBase = Len(log)
         /\ Base' = Len(log') /\ AppliedBase' = Len(log')
         /\ pc' = "broadcastNode" => Len(log') > Len(log)
  <1>0. /\ pc = "insertNode" /\ jobs' = jobs /\ job.id = jobs
        /\ LogOK /\ JobOK /\ BlockOK /\ OncePerKey /\ jobs \in Nat /\ Len(log) \in Nat
    BY BoundsAssumption DEF InsertNode, Core, JobOK, RowsOK, BoundsAssumption, LogOK
  <1>1. Base = Len(log) /\ AppliedBase = Len(log)
    BY <1>0, BaseFacts DEF SendStages, AppliedBase
  <1>2. \A s \in Items : log[s].job # job.id
    BY <1>0 DEF BlockOK, NodeStages
  <1>3. CASE UNCHANGED log /\ Advance(NextStage)
    <2>1. /\ pc' \in {"idle", "commit"}
          /\ pc' # "idle" => job' = job
      BY <1>3, NextStageFacts DEF Advance
    <2>2. pc' # "idle" => \A s \in Items : log[s].job # job'.id
      BY <1>2, <2>1
    <2>3. Core' /\ Extends /\ SameBase /\ SameLog
      BY <1>0, <1>3, <2>1, <2>2, NodeStageKeepsCore DEF NodeStages
    <2>4. QED BY <1>1, <1>3, <2>1, <2>3 DEF SameBase, SameLog
  <1>4. CASE /\ ~Committed("nodeUpdate")
             /\ log' = Append(log, Event("nodeUpdate"))
             /\ Advance("broadcastNode") \/ UNCHANGED <<job, pc>>
    <2>1. job' = job /\ pc' \in {"broadcastNode", "insertNode"}
      BY <1>0, <1>4 DEF Advance
    <2>2. /\ Event("nodeUpdate") \in LogRecords
          /\ Key(Event("nodeUpdate")) = <<job.id, "nodeUpdate">>
          /\ Event("nodeUpdate").job = job.id /\ Event("nodeUpdate").type = "nodeUpdate"
      BY <1>0, EventFacts DEF Types
    <2> DEFINE e == Event("nodeUpdate")
    <2>a. e \in LogRecords
      BY <2>2
    <2> HIDE DEF e
    <2>3. /\ log' \in Seq(LogRecords) /\ Len(log') = Len(log) + 1
          /\ \A s \in 1..Len(log) : log'[s] = log[s]
          /\ log'[Len(log) + 1] = e
      BY <1>0, <1>4, <2>a, AppendProperties DEF LogOK, e
    <2>4. Seqs' = Seqs \cup {Len(log) + 1} /\ Extends
      BY <1>0, <2>3 DEF Seqs, Extends
    <2>5. LogOK'
      <3>1. ASSUME NEW s \in Seqs' PROVE log'[s].job \in 1..jobs'
        <4>1. CASE s \in Seqs
          BY <1>0, <2>3, <4>1 DEF LogOK, Seqs
        <4>2. CASE s = Len(log) + 1
          BY <1>0, <2>2, <2>3, <4>2 DEF e, JobOK
        <4>3. QED BY <2>4, <4>1, <4>2
      <3>2. QED BY <2>3, <3>1 DEF LogOK
    <2>6. OncePerKey'
      <3>1. \A s \in Seqs : Key(log[s]) # <<job.id, "nodeUpdate">>
        BY <1>4 DEF Committed
      <3>2. \A t \in Seqs' \ Seqs : t = Len(log) + 1
        BY <2>4
      <3>3. Key(log'[Len(log) + 1]) = <<job.id, "nodeUpdate">>
        BY <2>2, <2>3 DEF e
      <3>4. \A s \in Seqs, t \in Seqs' \ Seqs : Key(log'[t]) # Key(log[s])
        BY <3>1, <3>2, <3>3
      <3>5. QED BY <2>4, <2>5, <3>2, <3>4, AppendKeepsKeys
    <2>7. Items' = Items
      <3>1. \A s \in Seqs : log'[s] = log[s]
        BY <2>3 DEF Seqs
      <3>2. log'[Len(log) + 1].type = "nodeUpdate"
        BY <2>2, <2>3 DEF e
      <3>3. QED BY <2>4, <3>1, <3>2 DEF Items
    <2>8. Pending' = <<>>
      BY <2>1 DEF Pending, SendStages
    <2>9. Base' = Len(log') /\ AppliedBase' = Len(log') /\ Len(log') \in Nat
      <3>1. Len(<<>>) = 0
        OBVIOUS
      <3>2. QED BY <1>0, <2>1, <2>3, <2>8, <3>1 DEF Base, AppliedBase
    <2>10. BlockOK'
      <3>1. \A s \in Items' : log'[s].job # job'.id
        BY <1>2, <2>1, <2>3, <2>7 DEF Items, Seqs
      <3>2. Len(log') > 0 /\ Key(log'[Len(log')]) = <<job'.id, "nodeUpdate">>
        BY <1>0, <2>1, <2>2, <2>3 DEF e
      <3>3. Len(<<>>) = 0
        OBVIOUS
      <3>4. QED BY <2>1, <2>8, <2>9, <3>1, <3>2, <3>3 DEF BlockOK, NodeStages, SendStages
    <2>11. QED BY <1>0, <1>1, <2>1, <2>3, <2>4, <2>5, <2>6, <2>7, <2>9, <2>10 DEF Core
  <1>5. QED BY <1>3, <1>4 DEF InsertNode, Retry

(* A commit makes its batch the pending events, and no other event of the job is in the log. *)
LEMMA CommitStep ==
  ASSUME Core, RowsOK', JobOK', CommitBatch
  PROVE  Core' /\ Extends /\ SameBase
  <1> USE BatchesAssumption DEF BatchesAssumption
  <1>0. /\ pc = "commit" /\ jobs' = jobs /\ job.id = jobs
        /\ LogOK /\ JobOK /\ BlockOK /\ OncePerKey /\ jobs \in Nat /\ Len(log) \in Nat
        /\ log' = log \o [i \in DOMAIN Absent |-> Event(Absent[i])]
        /\ attempts \in Nat
    BY BoundsAssumption DEF CommitBatch, Core, JobOK, RowsOK, BoundsAssumption, LogOK
  <1>1. /\ Absent = IF Stored THEN <<>> ELSE job.batch
        /\ ToPublish = job.batch
    BY <1>0, CommitFacts
  <1>2. job.batch \in Rows
    BY <1>0 DEF JobOK
  <1>3. /\ DOMAIN job.batch = 1..Len(job.batch) /\ Len(job.batch) \in Nat
        /\ \A i \in 1..Len(job.batch) : job.batch[i] \in {"activity", "routePulse"}
        /\ \A i, j \in 1..Len(job.batch) : job.batch[i] = job.batch[j] => i = j
        /\ job.batch = <<>> <=> Len(job.batch) = 0
    BY <1>2, RowFacts
  <1> DEFINE k == Len(Absent)
             new == [i \in DOMAIN Absent |-> Event(Absent[i])]
             b == Len(log') - Len(job.batch)
  \* What is new in the log: the rows that were absent.
  <1>4. /\ k \in Nat /\ DOMAIN Absent = 1..k
        /\ \A i \in 1..k : Absent[i] \in {"activity", "routePulse"}
    BY <1>1, <1>3
  <1>5. /\ new \in Seq(LogRecords) /\ Len(new) = k
        /\ \A i \in 1..k : new[i] = Event(Absent[i])
    <2>1. \A i \in 1..k : Event(Absent[i]) \in LogRecords
      BY <1>0, <1>4, EventFacts DEF Types
    <2>2. new = [i \in 1..k |-> Event(Absent[i])]
      BY <1>4
    <2> HIDE DEF new, k
    <2>3. new \in [1..k -> LogRecords]
      BY <2>1, <2>2
    <2>4. QED BY <1>4, <2>2, <2>3
  <1>k. Len(log) \in Nat /\ k \in Nat
    BY <1>0, <1>4
  <1> HIDE DEF new, k
  <1>6. /\ log' \in Seq(LogRecords) /\ Len(log') = Len(log) + k
        /\ \A s \in 1..Len(log) : log'[s] = log[s]
        /\ \A i \in 1..k : log'[Len(log) + i] = Event(Absent[i])
        /\ k = 0 => log' = log
    <2>1. /\ log \o new \in Seq(LogRecords) /\ Len(log \o new) = Len(log) + Len(new)
          /\ \A i \in 1..Len(log) : (log \o new)[i] = log[i]
          /\ \A i \in 1..Len(new) : (log \o new)[Len(log) + i] = new[i]
          /\ Len(new) = 0 => log \o new = log
      <3>1. log \in Seq(LogRecords)
        BY <1>0 DEF LogOK
      <3>2. new \in Seq(LogRecords)
        BY <1>5
      <3> HIDE DEF b
      <3>3. QED BY <3>1, <3>2
    <2>2. log' = log \o new
      BY <1>0 DEF new
    <2>3. QED BY <1>5, <2>1, <2>2
  <1>7. Extends /\ Seqs' = Seqs \cup {Len(log) + i : i \in 1..k} /\ Seqs = 1..Len(log)
    <2>1. Seqs = 1..Len(log) /\ Seqs' = 1..(Len(log) + k)
      BY <1>6 DEF Seqs
    <2>2. ASSUME NEW m \in Nat, NEW n \in Nat
          PROVE  1..(m + n) = (1..m) \cup {m + i : i \in 1..n} /\ m + n >= m
      <3>1. ASSUME NEW x \in 1..(m + n) PROVE x \in (1..m) \cup {m + i : i \in 1..n}
        <4>1. CASE x > m
          <5>1. x - m \in 1..n /\ x = m + (x - m)
            BY <4>1
          <5>2. QED BY <5>1
        <4>2. QED BY <4>1
      <3>2. ASSUME NEW i \in 1..n PROVE m + i \in 1..(m + n)
        OBVIOUS
      <3>3. \A i \in 1..m : i \in 1..(m + n)
        OBVIOUS
      <3>4. 1..(m + n) = (1..m) \cup {m + i : i \in 1..n}
        BY <3>1, <3>2, <3>3
      <3>5. m + n >= m
        OBVIOUS
      <3>6. QED BY <3>4, <3>5
    <2>3. Seqs' = Seqs \cup {Len(log) + i : i \in 1..k} /\ Len(log') >= Len(log)
      BY <1>k, <1>6, <2>1, <2>2
    <2>4. QED BY <1>6, <2>1, <2>3 DEF Extends
  <1>8. \A i \in 1..k : /\ Key(log'[Len(log) + i]) = <<job.id, Absent[i]>>
                        /\ log'[Len(log) + i].job = job.id
                        /\ log'[Len(log) + i].type = Absent[i]
    BY <1>0, <1>4, <1>6, EventFacts DEF Types
  <1>9. LogOK'
    <2>1. ASSUME NEW s \in Seqs' PROVE log'[s].job \in 1..jobs'
      <3>1. CASE s \in Seqs
        BY <1>0, <1>6, <3>1 DEF LogOK, Seqs
      <3>2. CASE s \notin Seqs
        <4>1. PICK i \in 1..k : s = Len(log) + i
          BY <1>7, <3>2
        <4>2. log'[s].job = jobs /\ jobs > 0
          BY <1>0, <1>8, <4>1 DEF JobOK
        <4>3. jobs \in 1..jobs' /\ jobs' = jobs
          BY <1>0, <4>2
        <4>4. QED BY <4>2, <4>3
      <3>3. QED BY <3>1, <3>2
    <2>2. QED BY <1>6, <2>1 DEF LogOK
  <1>10. OncePerKey'
    <2>1. ASSUME NEW s \in Seqs, NEW t \in Seqs' \ Seqs, Key(log'[t]) = Key(log[s]) PROVE FALSE
      <3>1. PICK i \in 1..k : t = Len(log) + i
        BY <1>7, <2>1
      <3>2. log[s].job = job.id /\ log[s].type = Absent[i]
        BY <1>8, <2>1, <3>1 DEF Key
      <3>3. s \in Items
        BY <1>4, <3>2 DEF Items
      <3>4. Stored
        BY <3>2, <3>3 DEF Stored
      <3>5. QED BY <1>1, <1>4, <3>1, <3>4
    <2>2. ASSUME NEW s \in Seqs' \ Seqs, NEW t \in Seqs' \ Seqs, Key(log'[s]) = Key(log'[t])
          PROVE s = t
      <3>1. PICK i \in 1..k : s = Len(log) + i
        BY <1>7
      <3>2. PICK j \in 1..k : t = Len(log) + j
        BY <1>7
      <3>3. Absent[i] = Absent[j]
        BY <1>8, <2>2, <3>1, <3>2
      <3>4. i = j
        BY <1>1, <1>3, <1>4, <3>3 DEF k
      <3>5. QED BY <3>1, <3>2, <3>4
    <2>3. QED BY <1>7, <1>9, <2>1, <2>2, AppendKeepsKeys
  \* The batch is what the log ends with.
  <1>11. /\ b \in Nat /\ b = Base
         /\ \A i \in 1..Len(job.batch) : Key(log'[b + i]) = <<job.id, job.batch[i]>>
         /\ \A s \in Items' : log'[s].job = job.id => s > b
    <2>1. CASE Stored
      <3>1. Pending = job.batch /\ log' = log
        BY <1>0, <1>1, <1>4, <1>6, <2>1 DEF Pending, SendStages
      <3>2. Base = b
        BY <3>1 DEF Base
      <3>3. Items' = Items
        BY <3>1 DEF Items, Seqs
      <3>4. QED BY <1>0, <3>1, <3>2, <3>3 DEF BlockOK
    <2>2. CASE ~Stored
      <3>1. Absent = job.batch /\ Pending = <<>>
        BY <1>0, <1>1, <2>2 DEF Pending, SendStages
      <3>2. b = Len(log)
        BY <1>0, <1>3, <1>6, <3>1 DEF k
      <3>3. Base = b
        BY <1>0, <3>1, <3>2, BaseFacts DEF Base
      <3>4. ASSUME NEW s \in Items', log'[s].job = job.id PROVE s > b
        <4>1. CASE s \in Seqs
          <5>1. s \in Items /\ log[s].job = job.id
            BY <1>6, <1>7, <3>4, <4>1 DEF Items
          <5>2. QED BY <2>2, <5>1 DEF Stored
        <4>2. CASE s \notin Seqs
          <5>1. PICK i \in 1..k : s = Len(log) + i
            BY <1>7, <4>2 DEF Items
          <5>2. QED BY <1>k, <3>2, <5>1
        <4>3. QED BY <4>1, <4>2
      <3>5. QED BY <1>0, <1>8, <3>1, <3>2, <3>3, <3>4 DEF k
    <2>3. QED BY <2>1, <2>2
  <1>12. Pending' = job.batch
    <2>1. CASE todo' = ToPublish /\ Advance(IF ToPublish = <<>> THEN "idle" ELSE "apply")
      BY <1>1, <2>1 DEF Pending, Advance, SendStages
    <2>2. CASE Retry
      <3>1. job' = job /\ pc' = "commit"
        BY <1>0, <2>2 DEF Retry
      <3>2. CASE job.batch = <<>>
        BY <3>1, <3>2 DEF Pending, SendStages
      <3>3. CASE job.batch # <<>>
        <4>1. 1 \in 1..Len(job.batch) /\ b + 1 \in Nat
          BY <1>3, <1>11, <3>3
        <4>2. Key(log'[b + 1]) = <<job.id, job.batch[1]>> /\ b + 1 \in Seqs'
          <5>1. Len(log') \in Nat
            BY <1>k, <1>6
          <5>2. b + 1 \in 1..Len(log')
            BY <1>3, <1>11, <4>1, <5>1
          <5>3. QED BY <1>11, <4>1, <5>2 DEF Seqs
        <4>3. log'[b + 1].job = job'.id /\ log'[b + 1].type # "nodeUpdate"
          BY <1>3, <3>1, <4>1, <4>2 DEF Key
        <4>4. Stored'
          BY <4>2, <4>3 DEF Stored, Items
        <4>5. QED BY <3>1, <4>4 DEF Pending, SendStages
      <3>4. QED BY <3>2, <3>3
    <2>3. QED BY <2>1, <2>2 DEF CommitBatch
  <1>13. Base' = b
    BY <1>12 DEF Base
  <1>14. pc' \in {"idle", "apply", "commit"} /\ (pc' # "idle" => job' = job)
    BY <1>0, <1>1 DEF CommitBatch, Advance, Retry
  <1>15. SameBase
    BY <1>0, <1>11, <1>13, <1>14 DEF SameBase, AppliedBase
  <1>16. BlockOK'
    <2>1. pc' \in SendStages => todo' \in Rows \ {<<>>}
      BY <1>0, <1>1, <1>2 DEF CommitBatch, Advance, Retry, SendStages
    <2>2. \A i \in 1..Len(Pending') : Key(log'[Base' + i]) = <<job'.id, Pending'[i]>>
      <3>1. CASE pc' = "idle"
        <4>1. Pending' = <<>> /\ Len(<<>>) = 0
          BY <3>1 DEF Pending, SendStages
        <4>2. QED BY <4>1
      <3>2. CASE pc' # "idle"
        BY <1>11, <1>12, <1>13, <1>14, <3>2
      <3>3. QED BY <3>1, <3>2
    <2>3. pc' = "commit" => attempts' > 0
      BY <1>0, <1>1 DEF CommitBatch, Advance, Retry
    <2>4. QED BY <1>11, <1>13, <1>14, <2>1, <2>2, <2>3 DEF BlockOK, NodeStages
  <1>17. QED BY <1>7, <1>9, <1>10, <1>15, <1>16 DEF Core

(* The sequence that a step applies or sends: the first pending event, or the last update. *)
LEMMA HeadSeq ==
  ASSUME Core, pc \in SendStages
  PROVE  /\ SeqOf(Head(todo)) = Base + 1 /\ Base + 1 \in Items
         /\ Base \in Nat /\ log[Base + 1].job = job.id
         /\ \A s \in Items : s > Base => s = Base + 1 \/ Len(todo) > 1
  <1>0. LogOK /\ JobOK /\ BlockOK /\ OncePerKey
    BY DEF Core
  <1>1. /\ Pending = todo /\ todo \in Rows \ {<<>>} /\ Base \in Nat
        /\ Len(log) \in Nat /\ Base < Len(log) /\ Base = Len(log) - Len(Pending)
    BY <1>0, BaseFacts
  <1>2. Len(todo) > 0 /\ Head(todo) = todo[1] /\ Len(todo) \in Nat
    BY <1>1, RowTail, RowFacts
  <1>3. todo[1] \in {"activity", "routePulse"}
    BY <1>1, <1>2, RowFacts
  <1>4. Key(log[Base + 1]) = <<job.id, Head(todo)>>
    BY <1>0, <1>1, <1>2 DEF BlockOK
  <1>5. Base + 1 \in Seqs
    BY <1>1 DEF Seqs
  <1>6. SeqOf(Head(todo)) = Base + 1
    BY <1>0, <1>4, <1>5, SeqOfIs
  <1>7. log[Base + 1].job = job.id /\ log[Base + 1].type = Head(todo)
    BY <1>4 DEF Key
  <1>8. Base + 1 \in Items
    BY <1>2, <1>3, <1>5, <1>7 DEF Items
  <1>9. \A s \in Items : s > Base => s = Base + 1 \/ Len(todo) > 1
    BY <1>1, <1>2 DEF Items, Seqs
  <1>10. QED BY <1>1, <1>6, <1>7, <1>8, <1>9

LEMMA NodeSeq ==
  ASSUME Core, pc \in {"broadcastNode", "applyNode"}
  PROVE  /\ SeqOf("nodeUpdate") = Len(log) /\ Len(log) \in Nat
         /\ Base = Len(log) /\ AppliedBase = Len(log)
  <1>1. Len(log) \in Nat /\ Len(log) > 0 /\ Key(log[Len(log)]) = <<job.id, "nodeUpdate">>
    BY DEF Core, BlockOK, LogOK
  <1>2. Len(log) \in Seqs
    BY <1>1 DEF Seqs
  <1>3. SeqOf("nodeUpdate") = Len(log)
    BY <1>1, <1>2, SeqOfIs DEF Core
  <1>4. Base = Len(log)
    BY BaseFacts DEF Core, SendStages
  <1>5. QED BY <1>1, <1>3, <1>4 DEF AppliedBase

LEMMA ApplyNextStep ==
  ASSUME Core, RowsOK', JobOK', ApplyNext
  PROVE  /\ Core' /\ Extends /\ SameLog
         /\ Base' = Base /\ AppliedBase = Base /\ AppliedBase' = Base + 1
  <1>1. /\ log' = log /\ jobs' = jobs /\ job' = job /\ todo' = todo
        /\ pc = "apply" /\ pc' = "broadcast"
    BY DEF ApplyNext, Advance, storeVars
  <1>2. Seqs' = Seqs /\ Items' = Items
    BY <1>1 DEF Seqs, Items
  <1>3. LogOK' /\ OncePerKey'
    BY <1>1, <1>2 DEF Core, LogOK, OncePerKey, Key
  <1>4. Pending' = Pending
    BY <1>1 DEF Pending, SendStages
  <1>5. Base' = Base /\ AppliedBase = Base /\ AppliedBase' = Base + 1
    BY <1>1, <1>4 DEF Base, AppliedBase
  <1>6. BlockOK'
    BY <1>1, <1>2, <1>4, <1>5 DEF Core, BlockOK, Key, SendStages, NodeStages
  <1>7. Extends
    BY <1>1, <1>2 DEF Extends, Core, LogOK
  <1>8. QED BY <1>2, <1>3, <1>5, <1>6, <1>7 DEF Core, SameLog

LEMMA BroadcastNextStep ==
  ASSUME Core, RowsOK', JobOK', BroadcastNext
  PROVE  /\ Core' /\ Extends /\ SameLog
         /\ Base' = Base + 1 /\ AppliedBase = Base + 1 /\ AppliedBase' = Base + 1
  <1>0. LogOK /\ JobOK /\ BlockOK /\ OncePerKey
    BY DEF Core
  <1>1. /\ log' = log /\ jobs' = jobs /\ todo' = Tail(todo) /\ pc = "broadcast"
        /\ pc' = (IF Tail(todo) = <<>> THEN "idle" ELSE "apply")
        /\ pc' = "apply" => job' = job
    BY DEF BroadcastNext, Advance, storeVars
  <1>2. Seqs' = Seqs /\ Items' = Items
    BY <1>1 DEF Seqs, Items
  <1>3. LogOK' /\ OncePerKey'
    BY <1>0, <1>1, <1>2 DEF LogOK, OncePerKey, Key
  <1>4. /\ Pending = todo /\ todo \in Rows \ {<<>>} /\ Base \in Nat
        /\ Len(log) \in Nat /\ Base = Len(log) - Len(todo)
    BY <1>0, <1>1, BaseFacts DEF SendStages
  <1>5. /\ Tail(todo) \in Rows /\ Len(todo) > 0 /\ Len(Tail(todo)) = Len(todo) - 1
        /\ \A i \in 1..Len(Tail(todo)) : Tail(todo)[i] = todo[i + 1]
        /\ Len(todo) \in Nat /\ Len(Tail(todo)) \in Nat
    BY <1>4, RowTail, RowFacts
  <1>6. Pending' = Tail(todo)
    BY <1>1 DEF Pending, SendStages
  <1>7. Base' = Base + 1
    <2>1. Base' = Len(log) - Len(Tail(todo))
      BY <1>1, <1>6 DEF Base
    <2>2. QED BY <1>4, <1>5, <2>1
  <1>8. AppliedBase = Base + 1 /\ AppliedBase' = Base + 1
    BY <1>1, <1>7 DEF AppliedBase
  <1>9. BlockOK'
    <2>1. pc' \in SendStages => todo' \in Rows \ {<<>>}
      BY <1>1, <1>5 DEF SendStages
    <2>2. ASSUME NEW i \in 1..Len(Tail(todo))
          PROVE  Key(log'[Base' + i]) = <<job'.id, Tail(todo)[i]>>
      <3>0. Len(Tail(todo)) # 0
        BY <1>5, <2>2
      <3>1. Tail(todo) # <<>>
        BY <1>5, <3>0, RowFacts
      <3>2. job' = job
        BY <1>1, <3>1
      <3>3. i + 1 \in 1..Len(todo) /\ Base' + i = Base + (i + 1)
        BY <1>4, <1>5, <1>7, <2>2
      <3>4. Key(log[Base + (i + 1)]) = <<job.id, todo[i + 1]>>
        BY <1>0, <1>4, <3>3 DEF BlockOK
      <3>5. QED BY <1>1, <1>5, <3>2, <3>3, <3>4
    <2>3. pc' \in {"idle", "apply"} /\ Base' \in Nat
      BY <1>1, <1>4, <1>7
    <2>4. QED BY <1>6, <2>1, <2>2, <2>3 DEF BlockOK, NodeStages
  <1>10. Extends
    BY <1>1, <1>2 DEF Extends, Core, LogOK
  <1>11. QED BY <1>2, <1>3, <1>7, <1>8, <1>9, <1>10 DEF Core, SameLog

(* Giving up leaves the log; a batch that was stored is not pending any more. *)
LEMMA GiveUpStep ==
  ASSUME Core, RowsOK', JobOK', GiveUp
  PROVE  /\ Core' /\ Extends /\ SameLog
         /\ Base' = Len(log) /\ AppliedBase' = Len(log)
         /\ \A s \in Items : s > Base => log[s].job = job.id
  <1>0. LogOK /\ JobOK /\ BlockOK /\ OncePerKey
    BY DEF Core
  <1>1. /\ log' = log /\ jobs' = jobs /\ jobs' >= jobs
        /\ pc \in {"upsertNode", "insertNode", "commit"}
    BY DEF GiveUp, storeVars, Core, RowsOK
  <1>2. CASE pc' = "idle"
    <2>1. /\ Core' /\ Extends /\ SameLog
          /\ Base' = Len(log) /\ AppliedBase' = Len(log)
      BY <1>1, <1>2, IdleKeepsCore
    <2>2. ASSUME NEW s \in Items, s > Base PROVE log[s].job = job.id
      <3>1. Len(log) \in Nat /\ Base \in Nat /\ Base = Len(log) - Len(Pending) /\ Len(Pending) \in Nat
        BY <1>0, BaseFacts
      <3>2. s - Base \in 1..Len(Pending) /\ s = Base + (s - Base)
        BY <2>2, <3>1 DEF Items, Seqs
      <3>3. Key(log[s]) = <<job.id, Pending[s - Base]>>
        BY <1>0, <3>2 DEF BlockOK
      <3>4. QED BY <3>3 DEF Key
    <2>3. QED BY <2>1, <2>2
  <1>3. CASE pc' # "idle"
    <2>1. pc \in {"upsertNode", "insertNode"} /\ pc' = "commit" /\ job' = job
      BY <1>3, NextStageFacts DEF GiveUp, Advance
    <2>2. \A s \in Items : log[s].job # job'.id
      BY <1>0, <2>1 DEF BlockOK, NodeStages
    <2>3. Core' /\ Extends /\ SameBase /\ SameLog
      BY <1>1, <2>1, <2>2, NodeStageKeepsCore DEF NodeStages
    <2>4. Base = Len(log) /\ Len(log) \in Nat
      BY <1>0, <2>1, BaseFacts DEF SendStages
    <2>5. AppliedBase = Base
      BY <2>1 DEF AppliedBase
    <2>6. QED BY <2>3, <2>4, <2>5 DEF SameBase, Items, Seqs
  <1>4. QED BY <1>2, <1>3

LEMMA CrashStep ==
  ASSUME Core, RowsOK', JobOK', Crash
  PROVE  Core' /\ Extends /\ SameLog /\ Base' = Len(log) /\ AppliedBase' = Len(log)
  <1>1. log' = log /\ jobs' = jobs /\ pc' = "idle" /\ jobs' >= jobs
    BY DEF Crash, storeVars, Core, RowsOK
  <1>2. QED BY <1>1, IdleKeepsCore

(* Every other step leaves the log and the boundary where they are. *)
Quiet ==
    \/ TakeJob \/ TransientError \/ UpsertNode \/ BroadcastNode \/ ApplyNodeUpdate
    \/ RefreshStep \/ RefreshFail \/ UNCHANGED publishVars

LEMMA QuietStep ==
  ASSUME Core, RowsOK', JobOK', \A n \in Nodes : nodeRow'[n] >= nodeRow[n], Quiet
  PROVE  Core' /\ Extends /\ SameBase /\ SameLog
  <1>0. /\ LogOK /\ JobOK /\ BlockOK /\ OncePerKey /\ RowsOK
        /\ jobs \in Nat /\ attempts \in Nat
    BY BoundsAssumption DEF Core, RowsOK, BoundsAssumption
  <1>1. ASSUME NEW j, NEW stage \in {"commit"} \cup (NodeStages \ {"broadcastNode", "applyNode"}),
               Take(j, stage), j.id = jobs + 1
        PROVE  Core' /\ Extends /\ SameBase /\ SameLog
    <2>1. /\ log' = log /\ pc = "idle" /\ pc' = stage /\ job' = j /\ jobs' = jobs + 1
          /\ jobs + 1 >= jobs
      BY <1>0, <1>1 DEF Take, storeVars
    <2>2. \A s \in Items : log[s].job # jobs + 1
      BY <1>0 DEF LogOK, Items
    <2>3. \A s \in Items : log[s].job # job'.id
      BY <1>1, <2>1, <2>2
    <2>4. pc' \in {"commit"} \cup NodeStages /\ pc' \notin {"broadcastNode", "applyNode"}
      BY <2>1
    <2>5. QED BY <2>1, <2>3, <2>4, NodeStageKeepsCore
  <1>2. ASSUME NEW n \in Nodes, ReceiveStatus(n)
        PROVE  Core' /\ Extends /\ SameBase /\ SameLog
    <2>1. UNCHANGED <<log, jobs, job, pc, todo>> /\ attempts' >= attempts
      BY <1>0, <1>2 DEF ReceiveStatus, workerVars
    <2>2. QED BY <2>1, OthersKeepCore
  <1>3. CASE TakeJob
    <2>1. ASSUME NEW n \in Nodes \cup {NoNode}, NEW batch \in Batches, TakePacket(n, batch)
          PROVE  Core' /\ Extends /\ SameBase /\ SameLog
      BY <1>1, <2>1 DEF TakePacket, NodeStages
    <2>2. ASSUME NEW n \in Nodes, TakeStatus(n)
          PROVE  Core' /\ Extends /\ SameBase /\ SameLog
      BY <1>1, <2>2 DEF TakeStatus, NodeStages
    <2>3. QED BY <1>2, <1>3, <2>1, <2>2 DEF TakeJob
  <1>4. CASE TransientError
    <2>1. UNCHANGED <<log, jobs, job, pc, todo>> /\ attempts' >= attempts
      BY <1>0, <1>4 DEF TransientError, Retry, storeVars
    <2>2. QED BY <2>1, OthersKeepCore
  <1>5. CASE UpsertNode
    <2>1. /\ log' = log /\ jobs' >= jobs /\ pc = "upsertNode" /\ pc' \in {"upsertNode", "insertNode"}
          /\ job' = job \/ job' = [job EXCEPT !.version = nodeRow[job.node] + 1]
      BY <1>0, <1>5 DEF UpsertNode, Retry
    <2>2. job'.id = job.id
      BY <1>0, <2>1 DEF JobOK
    <2>3. \A s \in Items : log[s].job # job'.id
      BY <1>0, <2>1, <2>2 DEF BlockOK, NodeStages
    <2>4. QED BY <2>1, <2>3, NodeStageKeepsCore DEF NodeStages
  <1>6. CASE BroadcastNode
    <2>1. /\ log' = log /\ jobs' >= jobs /\ pc = "broadcastNode" /\ pc' = "applyNode" /\ job' = job
      BY <1>0, <1>6 DEF BroadcastNode, Advance, storeVars
    <2>2. \A s \in Items : log[s].job # job'.id
      BY <1>0, <2>1 DEF BlockOK, NodeStages
    <2>3. Len(log) > 0 /\ Key(log[Len(log)]) = <<job'.id, "nodeUpdate">>
      BY <1>0, <2>1 DEF BlockOK
    <2>4. QED BY <2>1, <2>2, <2>3, NodeStageKeepsCore DEF NodeStages
  <1>7. CASE ApplyNodeUpdate
    <2>1. /\ log' = log /\ jobs' >= jobs /\ pc = "applyNode" /\ pc' \in {"idle", "commit"}
          /\ pc' # "idle" => job' = job
      BY <1>0, <1>7, NextStageFacts DEF ApplyNodeUpdate, Advance, storeVars
    <2>2. pc' # "idle" => \A s \in Items : log[s].job # job'.id
      BY <1>0, <2>1 DEF BlockOK, NodeStages
    <2>3. QED BY <2>1, <2>2, NodeStageKeepsCore DEF NodeStages
  <1>8. CASE RefreshStep \/ RefreshFail \/ UNCHANGED publishVars
    <2>1. UNCHANGED <<log, jobs, job, pc, todo, attempts>>
      BY <1>8 DEF RefreshStep, RefreshBegin, ReadNodes, ReadItems, ReadSeq, Install, RefreshFail,
                  OthersIdle, storeVars, workerVars, publishVars
    <2>2. attempts' >= attempts
      BY <1>0, <2>1
    <2>3. QED BY <2>1, <2>2, OthersKeepCore
  <1>9. QED BY <1>3, <1>4, <1>5, <1>6, <1>7, <1>8 DEF Quiet

LEMMA Steps ==
  ASSUME [PublishNext]_publishVars
  PROVE  \/ Quiet \/ InsertNode \/ CommitBatch \/ ApplyNext \/ BroadcastNext \/ GiveUp \/ Crash
  BY DEF PublishNext, PublishProgress, Quiet

LEMMA CoreStep ==
  ASSUME Core, [PublishNext]_publishVars
  PROVE  Core' /\ Extends
  <1>1. /\ RowsOK' /\ JobOK'
        /\ \A n \in Nodes : nodeRow'[n] >= nodeRow[n]
    BY RowsStep, JobStep DEF Core
  <1>2. CASE Quiet
    BY <1>1, <1>2, QuietStep
  <1>3. CASE InsertNode
    BY <1>1, <1>3, InsertNodeStep
  <1>4. CASE CommitBatch
    BY <1>1, <1>4, CommitStep
  <1>5. CASE ApplyNext
    BY <1>1, <1>5, ApplyNextStep
  <1>6. CASE BroadcastNext
    BY <1>1, <1>6, BroadcastNextStep
  <1>7. CASE GiveUp
    BY <1>1, <1>7, GiveUpStep
  <1>8. CASE Crash
    BY <1>1, <1>8, CrashStep
  <1>9. QED BY <1>2, <1>3, <1>4, <1>5, <1>6, <1>7, <1>8, Steps

-----------------------------------------------------------------------------
(* The hub and what it sent. *)

\* A step that sends nothing.
Silent == UNCHANGED <<hubSeq, wire, restored, gaveUp>>

LEMMA SilentKeepsSent ==
  ASSUME Core, Core', Extends, Sent, Silent, Base' >= Base,
         \A s \in Items' : s \in Items \/ s > Base',
         \A s \in Items : s > Base => s > Base',
         pc' = "broadcastNode" => restored < Len(log') /\ hubSeq < Len(log')
  PROVE  Sent'
  <1>0. hubSeq' = hubSeq /\ wire' = wire /\ restored' = restored /\ gaveUp' = gaveUp
    BY DEF Silent
  <1>1. Base \in Nat /\ Base' \in Nat
    BY DEF Core, BlockOK
  <1>2. HubOK'
    BY <1>0, <1>1 DEF Sent, HubOK
  <1>3. WireOK'
    BY <1>0 DEF Sent, WireOK
  <1>4. PublishedOK'
    <2>1. ASSUME NEW s \in Items'
          PROVE  s > Base' \/ s \in Range(wire) \/ s <= restored \/ log'[s].job \in gaveUp
      <3>1. CASE s \in Items
        <4>1. log'[s] = log[s]
          BY <3>1 DEF Extends, Items
        <4>2. QED BY <3>1, <4>1 DEF Sent, PublishedOK
      <3>2. QED BY <2>1, <3>1
    <2>2. QED BY <1>0, <2>1 DEF PublishedOK
  <1>5. QED BY <1>2, <1>3, <1>4 DEF Sent

\* The hub sends s, past everything it sent before.
LEMMA SendStep ==
  ASSUME HubOK, WireOK, NEW s \in Nat, restored < s, hubSeq < s, Broadcast(s), UNCHANGED restored
  PROVE  /\ WireOK' /\ hubSeq' = s /\ restored' < hubSeq'
         /\ Range(wire') = Range(wire) \cup {s}
  <1>1. /\ hubSeq \in Nat /\ restored \in Nat /\ wire \in Seq(Nat)
        /\ \A i \in 1..Len(wire) : restored < wire[i] /\ wire[i] <= hubSeq
        /\ \A i, j \in 1..Len(wire) : j < i => wire[j] < wire[i]
    BY DEF HubOK, WireOK
  <1>2. hubSeq' = s /\ wire' = Append(wire, s) /\ restored' = restored
    BY <1>1 DEF Broadcast, Larger
  <1>3. /\ wire' \in Seq(Nat) /\ Len(wire') = Len(wire) + 1 /\ Len(wire) \in Nat
        /\ \A i \in 1..Len(wire) : wire'[i] = wire[i]
        /\ wire'[Len(wire) + 1] = s
    BY <1>1, <1>2, AppendProperties
  <1>4. \A i \in 1..Len(wire') : i \in 1..Len(wire) \/ i = Len(wire) + 1
    BY <1>3
  <1>5. \A i \in 1..Len(wire') : restored' < wire'[i] /\ wire'[i] <= hubSeq'
    <2>1. ASSUME NEW i \in 1..Len(wire) PROVE restored' < wire'[i] /\ wire'[i] <= hubSeq'
      <3>1. wire[i] \in Nat
        BY <1>1
      <3>2. QED BY <1>1, <1>2, <1>3, <3>1
    <2>2. QED BY <1>1, <1>2, <1>3, <1>4, <2>1
  <1>6. ASSUME NEW i \in 1..Len(wire'), NEW j \in 1..Len(wire'), j < i
        PROVE  wire'[j] < wire'[i]
    <2>1. j \in 1..Len(wire)
      BY <1>3, <1>6
    <2>2. wire[j] \in Nat /\ wire[j] <= hubSeq /\ wire'[j] = wire[j]
      <3>1. wire[j] \in Nat
        BY <1>1, <2>1
      <3>2. wire[j] <= hubSeq /\ wire'[j] = wire[j]
        BY <1>1, <1>3, <2>1
      <3>3. QED BY <3>1, <3>2
    <2>3. CASE i \in 1..Len(wire)
      <3>1. wire[j] < wire[i]
        BY <1>1, <1>6, <2>1, <2>3
      <3>2. wire'[i] = wire[i]
        BY <1>3, <2>3
      <3>3. QED BY <2>2, <3>1, <3>2
    <2>4. CASE i = Len(wire) + 1
      BY <1>1, <1>3, <2>2, <2>4
    <2>5. QED BY <1>4, <2>3, <2>4
  <1>7. WireOK'
    BY <1>3, <1>5, <1>6 DEF WireOK
  <1>8. Range(wire') = Range(wire) \cup {s}
    <2>1. DOMAIN wire' = 1..Len(wire') /\ DOMAIN wire = 1..Len(wire)
      BY <1>1, <1>3
    <2>2. Len(wire) + 1 \in 1..Len(wire') /\ \A i \in 1..Len(wire) : i \in 1..Len(wire')
      BY <1>3
    <2>3. QED BY <1>3, <1>4, <2>1, <2>2 DEF Range
  <1>9. QED BY <1>1, <1>2, <1>7, <1>8

LEMMA QuietIsSilent ==
  ASSUME Quiet, ~BroadcastNode
  PROVE  Silent /\ UNCHANGED log /\ (pc' = "broadcastNode" => pc = "broadcastNode")
  <1>1. CASE TakeJob
    <2>1. ASSUME NEW n \in Nodes, ReceiveStatus(n)
          PROVE Silent /\ UNCHANGED log /\ (pc' = "broadcastNode" => pc = "broadcastNode")
      BY <2>1 DEF ReceiveStatus, workerVars, publishHistory, Silent
    <2>2. ASSUME NEW j, NEW stage \in {"commit", "upsertNode", "insertNode"}, Take(j, stage)
          PROVE Silent /\ UNCHANGED log /\ (pc' = "broadcastNode" => pc = "broadcastNode")
      BY <2>2 DEF Take, storeVars, publishHistory, Silent
    <2>3. QED BY <1>1, <2>1, <2>2 DEF TakeJob, TakePacket, TakeStatus
  <1>2. CASE TransientError
    BY <1>2 DEF TransientError, Retry, storeVars, publishHistory, Silent
  <1>3. CASE UpsertNode
    BY <1>3 DEF UpsertNode, Retry, publishHistory, Silent
  <1>4. CASE ApplyNodeUpdate
    <2>1. pc' \in {"idle", "commit"}
      BY <1>4, NextStageFacts DEF ApplyNodeUpdate, Advance
    <2>2. QED BY <1>4, <2>1 DEF ApplyNodeUpdate, storeVars, Silent
  <1>5. CASE RefreshStep \/ RefreshFail
    BY <1>5 DEF RefreshStep, RefreshBegin, ReadNodes, ReadItems, ReadSeq, Install, RefreshFail,
                OthersIdle, storeVars, workerVars, publishHistory, Silent
  <1>6. CASE UNCHANGED publishVars
    BY <1>6 DEF publishVars, storeVars, workerVars, publishHistory, Silent
  <1>7. QED BY <1>1, <1>2, <1>3, <1>4, <1>5, <1>6 DEF Quiet

LEMMA SentStep ==
  ASSUME Core, Sent, [PublishNext]_publishVars
  PROVE  Sent'
  <1>1. /\ RowsOK' /\ JobOK' /\ Core' /\ Extends
        /\ \A n \in Nodes : nodeRow'[n] >= nodeRow[n]
    BY RowsStep, JobStep, CoreStep DEF Core
  <1>2. /\ Len(log) \in Nat /\ Base \in Nat /\ Base <= Len(log)
        /\ Base' \in Nat /\ LogOK /\ LogOK'
    BY <1>1, BaseFacts DEF Core, BlockOK
  <1>3. /\ hubSeq \in Nat /\ hubSeq <= Base /\ restored \in Nat /\ restored <= Base
        /\ pc = "broadcastNode" => restored < Len(log) /\ hubSeq < Len(log)
    BY DEF Sent, HubOK
  <1>4. /\ \A s \in Items' : s \in Items \/ s > Len(log)
        /\ Items \subseteq Items'
        /\ \A s \in Items : s \in Nat /\ s <= Len(log) /\ log'[s] = log[s]
    BY <1>1, <1>2, ExtendsFacts DEF Items, Seqs
  <1>5. CASE Quiet /\ ~BroadcastNode
    <2>1. SameBase /\ SameLog
      BY <1>1, <1>5, QuietStep
    <2>2. Silent /\ UNCHANGED log /\ (pc' = "broadcastNode" => pc = "broadcastNode")
      BY <1>5, QuietIsSilent
    <2>3. Base' = Base /\ Items' = Items /\ Base' >= Base
      BY <1>2, <2>1 DEF SameBase, SameLog
    <2>4. pc' = "broadcastNode" => restored < Len(log') /\ hubSeq < Len(log')
      BY <1>3, <2>2
    <2>5. QED BY <1>1, <2>2, <2>3, <2>4, SilentKeepsSent
  <1>6. CASE BroadcastNode
    <2>1. /\ pc = "broadcastNode" /\ pc' = "applyNode" /\ Broadcast(SeqOf("nodeUpdate"))
          /\ restored' = restored /\ gaveUp' = gaveUp /\ log' = log
      BY <1>6 DEF BroadcastNode, Advance, storeVars
    <2>2. SeqOf("nodeUpdate") = Len(log) /\ Base = Len(log)
      BY <2>1, NodeSeq
    <2>3. SameBase /\ SameLog
      BY <1>1, <1>6, QuietStep DEF Quiet
    <2>4. /\ WireOK' /\ hubSeq' = Len(log) /\ restored' < hubSeq'
          /\ Range(wire') = Range(wire) \cup {Len(log)}
      BY <1>2, <1>3, <2>1, <2>2, SendStep DEF Sent
    <2>5. HubOK'
      BY <1>2, <1>3, <2>1, <2>2, <2>3, <2>4 DEF HubOK, SameBase
    <2>6. PublishedOK'
      BY <2>1, <2>3, <2>4 DEF Sent, PublishedOK, SameBase, SameLog
    <2>7. QED BY <2>4, <2>5, <2>6 DEF Sent
  <1>7. CASE InsertNode
    <2>1. /\ Items' = Items /\ Base = Len(log) /\ Base' = Len(log')
          /\ pc' = "broadcastNode" => Len(log') > Len(log)
      BY <1>1, <1>7, InsertNodeStep
    <2>2. Silent
      BY <1>7 DEF InsertNode, publishHistory, Silent
    <2>3. Base' >= Base /\ Len(log') \in Nat
      BY <1>1, <2>1, <1>2 DEF Extends
    <2>4. pc' = "broadcastNode" => restored < Len(log') /\ hubSeq < Len(log')
      BY <1>2, <1>3, <2>1, <2>3
    <2>5. \A s \in Items : s > Base => s > Base'
      BY <1>2, <1>4, <2>1
    <2>6. QED BY <1>1, <2>1, <2>2, <2>3, <2>4, <2>5, SilentKeepsSent
  <1>8. CASE CommitBatch
    <2>1. SameBase
      BY <1>1, <1>8, CommitStep
    <2>2. Silent /\ pc = "commit"
      BY <1>8 DEF CommitBatch, publishHistory, Silent
    <2>3. pc' # "broadcastNode"
      BY <1>8 DEF CommitBatch, Advance, Retry
    <2>4. Base' = Base /\ Base' >= Base
      BY <1>2, <2>1 DEF SameBase
    <2>5. \A s \in Items' : s \in Items \/ s > Base'
      <3>1. ASSUME NEW s \in Items', s > Len(log) PROVE s > Base'
        <4>1. s \in Int
          BY DEF Items, Seqs
        <4>2. QED BY <1>2, <2>4, <3>1, <4>1
      <3>2. QED BY <1>4, <3>1
    <2>6. QED BY <1>1, <2>2, <2>3, <2>4, <2>5, SilentKeepsSent
  <1>9. CASE ApplyNext
    <2>1. SameLog /\ Base' = Base
      BY <1>1, <1>9, ApplyNextStep
    <2>2. Silent /\ pc' = "broadcast"
      BY <1>9 DEF ApplyNext, Advance, Silent
    <2>3. Base' >= Base
      BY <1>2, <2>1
    <2>4. QED BY <1>1, <2>1, <2>2, <2>3, SilentKeepsSent DEF SameLog
  <1>10. CASE BroadcastNext
    <2>1. SameLog /\ Base' = Base + 1
      BY <1>1, <1>10, BroadcastNextStep
    <2>2. /\ pc = "broadcast" /\ pc' # "broadcastNode" /\ Broadcast(SeqOf(Head(todo)))
          /\ restored' = restored /\ gaveUp' = gaveUp /\ log' = log
      BY <1>10 DEF BroadcastNext, Advance, storeVars
    <2>3. SeqOf(Head(todo)) = Base + 1
      BY <2>2, HeadSeq DEF SendStages
    <2>4. Base + 1 \in Nat /\ restored < Base + 1 /\ hubSeq < Base + 1
      BY <1>2, <1>3
    <2>5. /\ WireOK' /\ hubSeq' = Base + 1 /\ restored' < hubSeq'
          /\ Range(wire') = Range(wire) \cup {Base + 1}
      BY <2>2, <2>3, <2>4, SendStep DEF Sent
    <2>6. HubOK'
      BY <1>3, <2>1, <2>2, <2>4, <2>5 DEF HubOK
    <2>7. PublishedOK'
      <3>1. ASSUME NEW s \in Items
            PROVE  s > Base + 1 \/ s \in Range(wire') \/ s <= restored \/ log[s].job \in gaveUp
        <4>1. CASE s > Base
          BY <1>2, <1>4, <2>5, <4>1
        <4>2. CASE ~(s > Base)
          BY <2>5, <4>2 DEF Sent, PublishedOK
        <4>3. QED BY <4>1, <4>2
      <3>2. QED BY <2>1, <2>2, <3>1 DEF PublishedOK, SameLog
    <2>8. QED BY <2>5, <2>6, <2>7 DEF Sent
  <1>11. CASE GiveUp
    <2>1. /\ SameLog /\ Base' = Len(log)
          /\ \A s \in Items : s > Base => log[s].job = job.id
      BY <1>1, <1>11, GiveUpStep
    <2>2. /\ hubSeq' = hubSeq /\ wire' = wire /\ restored' = restored /\ log' = log
          /\ gaveUp' = gaveUp \cup {j \in {job.id} : pc = "commit"}
          /\ pc \in NodeStages \/ pc = "commit"
      BY <1>11 DEF GiveUp, storeVars, NodeStages
    <2>3. pc' # "broadcastNode"
      BY <1>11, NextStageFacts DEF GiveUp, Advance
    <2>4. HubOK'
      BY <1>2, <1>3, <2>1, <2>2, <2>3 DEF Sent, HubOK
    <2>5. WireOK'
      BY <2>2 DEF Sent, WireOK
    <2>6. PublishedOK'
      <3>1. CASE pc = "commit"
        BY <2>1, <2>2, <3>1 DEF Sent, PublishedOK, SameLog
      <3>2. CASE pc \in NodeStages
        BY <2>1, <2>2, <3>2 DEF Sent, PublishedOK, SameLog, Core, BlockOK
      <3>3. QED BY <2>2, <3>1, <3>2
    <2>7. QED BY <2>4, <2>5, <2>6 DEF Sent
  <1>12. CASE Crash
    <2>1. SameLog /\ Base' = Len(log)
      BY <1>1, <1>12, CrashStep
    <2>2. hubSeq' \in {Len(log), 0} /\ wire' = <<>> /\ restored' = Len(log) /\ pc' = "idle"
      BY <1>12 DEF Crash
    <2>3. HubOK'
      BY <1>2, <2>1, <2>2 DEF HubOK
    <2>4. Len(<<>>) = 0 /\ <<>> \in Seq(Nat)
      OBVIOUS
    <2>5. WireOK'
      BY <2>2, <2>4 DEF WireOK
    <2>6. PublishedOK'
      BY <1>4, <2>1, <2>2 DEF PublishedOK, SameLog
    <2>7. QED BY <2>3, <2>5, <2>6 DEF Sent
  <1>13. QED BY <1>5, <1>6, <1>7, <1>8, <1>9, <1>10, <1>11, <1>12, Steps

-----------------------------------------------------------------------------
(* The cache and the refresher. *)

LEMMA MaxIs ==
  ASSUME NEW S \in SUBSET Nat, NEW x \in S, \A y \in S : y <= x
  PROVE  Max(S) = x
  <1>1. x \in Nat /\ \A y \in S : y \in Nat
    OBVIOUS
  <1>2. \A y \in S : x >= y
    BY <1>1
  <1>3. \A z \in S : (\A y \in S : z >= y) => z = x
    BY <1>1, <1>2
  <1>4. QED BY <1>2, <1>3 DEF Max

(* A step that neither mutates the cache nor reads the store for it. *)
CacheQuiet == UNCHANGED <<cacheVars, refresh, dropped>>

LEMMA CacheQuietKeepsCovered ==
  ASSUME Core, Core', Extends, Covered, HubOK, HubOK', CacheQuiet,
         \A n \in Nodes : nodeRow'[n] >= nodeRow[n],
         gaveUp \subseteq gaveUp', hubSeq' >= hubSeq, AppliedBase' >= AppliedBase,
         \A s \in Items' : s <= AppliedBase' =>
             s \in Items /\ (s <= AppliedBase \/ log'[s].job \in gaveUp')
  PROVE  Covered'
  <1>0. cache' = cache /\ ready' = ready /\ journal' = journal /\ refresh' = refresh /\ dropped' = dropped
    BY DEF CacheQuiet, cacheVars
  <1>1. /\ Len(log) \in Nat /\ Len(log') \in Nat /\ Len(log') >= Len(log)
        /\ AppliedBase \in Nat /\ AppliedBase' \in Nat /\ hubSeq \in Nat /\ hubSeq' \in Nat
        /\ Seqs \subseteq Seqs' /\ \A s \in Seqs : log'[s] = log[s]
        /\ \A n \in Nodes : nodeRow[n] \in Nat /\ nodeRow'[n] \in Nat /\ nodeRow'[n] >= nodeRow[n]
    <2>1. LogOK /\ JobOK /\ BlockOK /\ RowsOK /\ LogOK' /\ JobOK' /\ BlockOK' /\ RowsOK'
      BY DEF Core
    <2>2. Len(log) \in Nat /\ AppliedBase \in Nat
      BY <2>1, BaseFacts
    <2>3. Base' \in Nat /\ Len(log') \in Nat
      BY <2>1 DEF BlockOK, LogOK
    <2>n. \A m \in Nat : m + 1 \in Nat
      OBVIOUS
    <2>4. AppliedBase' \in Nat
      BY <2>3, <2>n, Zenon DEF AppliedBase
    <2>5. QED BY <2>1, <2>2, <2>3, <2>4 DEF Extends, RowsOK, HubOK
  <1>2. CacheOK'
    <2>1. /\ cache.items \subseteq Seqs' /\ cache.latestSeq \in Nat
          /\ cache.latestSeq <= AppliedBase'
      BY <1>1 DEF Covered, CacheOK
    <2>2. ASSUME NEW n \in Nodes
          PROVE  cache.nodes[n] <= nodeRow'[n] /\ cache.nodeSeq[n] <= Len(log')
      <3>1. cache.nodes[n] \in Nat /\ cache.nodeSeq[n] \in Nat
        BY DEF Covered, CacheOK
      <3>2. cache.nodes[n] <= nodeRow[n] /\ cache.nodeSeq[n] <= Len(log)
        BY DEF Covered, CacheOK
      <3>3. QED BY <1>1, <3>1, <3>2
    <2>3. QED BY <1>0, <2>1, <2>2 DEF Covered, CacheOK
  <1>3. RefreshOK'
    <2>1. refresh.items \subseteq Seqs' /\ refresh.latestSeq \in Nat /\ refresh.latestSeq <= hubSeq'
      BY <1>1 DEF Covered, RefreshOK
    <2>2. ASSUME NEW n \in Nodes PROVE refresh.nodes[n] <= nodeRow'[n]
      <3>1. refresh.nodes[n] \in Nat /\ refresh.nodes[n] <= nodeRow[n]
        BY DEF Covered, RefreshOK
      <3>2. QED BY <1>1, <3>1
    <2>3. QED BY <1>0, <2>1, <2>2 DEF Covered, RefreshOK
  <1>4. JournalOK'
    BY <1>0 DEF Covered, JournalOK, Journaled
  <1>5. SettledOK'
    <2>1. Excused \subseteq Excused'
      <3>1. Unreported \subseteq Unreported'
        BY <1>1 DEF Unreported
      <3>2. QED BY <1>0, <3>1 DEF Excused
    <2>2. ASSUME NEW s \in Items' \ Excused', s <= AppliedBase'
          PROVE  s \in Items \ Excused /\ s <= AppliedBase
      <3>1. s \in Items /\ (s <= AppliedBase \/ log'[s].job \in gaveUp')
        BY <2>2
      <3>2. log'[s].job \notin gaveUp'
        BY <2>2 DEF Excused, Unreported, Items
      <3>3. QED BY <2>1, <2>2, <3>1, <3>2
    <2>3. QED BY <1>0, <2>2 DEF Covered, SettledOK
  <1>6. RereadOK'
    <2>1. ASSUME NEW s \in Items' \ Unreported', s <= AppliedBase'
          PROVE  s \in Items \ Unreported /\ s <= AppliedBase
      <3>1. Unreported \subseteq Unreported'
        BY <1>1 DEF Unreported
      <3>2. s \in Items /\ (s <= AppliedBase \/ log'[s].job \in gaveUp')
        BY <2>1
      <3>3. log'[s].job \notin gaveUp'
        BY <2>1 DEF Unreported, Items
      <3>4. QED BY <2>1, <3>1, <3>2, <3>3
    <2>2. QED BY <1>0, <2>1 DEF Covered, RereadOK
  <1>7. QED BY <1>2, <1>3, <1>4, <1>5, <1>6 DEF Covered

(* A live mutation: an item just after those applied, or the update just inserted. *)
LEMMA ApplyNextKeepsCovered ==
  ASSUME Core, Core', Extends, Covered, ApplyNext
  PROVE  Covered'
  <1> DEFINE s == Base + 1
  <1>1. /\ RowsOK' /\ JobOK' /\ LogOK /\ JobOK /\ BlockOK
    BY DEF Core
  <1>2. SameLog /\ AppliedBase = Base /\ AppliedBase' = s
    BY <1>1, ApplyNextStep
  <1>3. /\ pc = "apply" /\ ApplyItem(SeqOf(Head(todo))) /\ log' = log /\ nodeRow' = nodeRow
        /\ refresh' = refresh /\ hubSeq' = hubSeq /\ gaveUp' = gaveUp
    BY DEF ApplyNext, storeVars
  <1>4. SeqOf(Head(todo)) = s /\ s \in Items /\ Base \in Nat
    BY <1>3, HeadSeq DEF SendStages
  <1>5. s \in Seqs /\ s \in Nat /\ Len(log) \in Nat /\ \A t \in Items : t \in Nat
    BY <1>1, <1>4 DEF Items, Seqs, LogOK
  <1>6. \A t \in Items : t <= s => t = s \/ t <= Base
    BY <1>4, <1>5
  <1>7. Items' = Items /\ Seqs' = Seqs /\ Unreported' = Unreported
    BY <1>2, <1>3 DEF SameLog, Unreported
  <1>8. RefreshOK'
    BY <1>3, <1>7 DEF Covered, RefreshOK
  <1>9. cache.latestSeq \in Nat /\ cache.latestSeq <= Base
    BY <1>2 DEF Covered, CacheOK
  <1> HIDE DEF s
  <1>10. CASE NotReady(s)
    <2>1. /\ ~ready /\ ready' = ready /\ cache' = cache /\ journal' = journal
          /\ dropped' = dropped \cup {s}
      BY <1>10 DEF NotReady, cacheVars
    <2>2. cache.latestSeq <= s
      BY <1>4, <1>9 DEF s
    <2>3. CacheOK'
      BY <1>2, <1>3, <1>7, <2>1, <2>2 DEF Covered, CacheOK
    <2>4. JournalOK'
      BY <2>1 DEF Covered, JournalOK, Journaled
    <2>5. SettledOK'
      <3>1. ASSUME NEW t \in Items' \ Excused', t <= AppliedBase'
            PROVE  t \in Items \ Excused /\ t <= AppliedBase
        <4>1. t \in Items /\ t # s /\ t \notin Excused
          BY <1>7, <2>1, <3>1 DEF Excused
        <4>2. t <= Base
          BY <1>2, <1>6, <3>1, <4>1
        <4>3. QED BY <1>2, <4>1, <4>2
      <3>2. QED BY <1>3, <2>1, <3>1 DEF Covered, SettledOK
    <2>6. RereadOK'
      BY <2>1 DEF RereadOK
    <2>7. QED BY <1>8, <2>3, <2>4, <2>5, <2>6 DEF Covered
  <1>11. CASE Mutate([cache EXCEPT !.items = @ \cup {s}, !.latestSeq = Larger(@, s)], {s}, {})
    <2>1. Larger(cache.latestSeq, s) = s
      BY <1>4, <1>9 DEF Larger, s
    <2>2. /\ ready /\ ready' = ready /\ dropped' = dropped
          /\ cache' = [cache EXCEPT !.items = @ \cup {s}, !.latestSeq = s]
          /\ journal' = [items |-> journal.items \cup {s}, nodes |-> journal.nodes]
      BY <1>11, <2>1 DEF Mutate
    <2>3. cache \in [items : SUBSET Nat, nodes : [Nodes -> Nat], nodeSeq : [Nodes -> Nat], latestSeq : Nat]
      BY DEF Covered, CacheOK
    <2>4. /\ cache' \in [items : SUBSET Nat, nodes : [Nodes -> Nat], nodeSeq : [Nodes -> Nat], latestSeq : Nat]
          /\ cache'.items = cache.items \cup {s} /\ cache'.latestSeq = s
          /\ cache'.nodes = cache.nodes /\ cache'.nodeSeq = cache.nodeSeq
      BY <1>5, <2>2, <2>3
    <2>5. CacheOK'
      BY <1>2, <1>3, <1>5, <1>7, <2>4 DEF Covered, CacheOK
    <2>6. journal'.items = journal.items \cup {s} /\ journal'.nodes = journal.nodes
      BY <2>2
    <2>7. Journaled' = Journaled \cup {s}
      BY <2>4, <2>6 DEF Journaled
    <2>8. \A t \in Journaled : t <= s
      <3>1. ASSUME NEW t \in Journaled PROVE t <= s
        <4>1. t \in Nat
          BY <2>3 DEF Covered, JournalOK, Journaled
        <4>2. t <= cache.latestSeq
          BY DEF Covered, JournalOK
        <4>3. QED BY <1>4, <1>9, <4>1, <4>2 DEF s
      <3>2. QED BY <3>1
    <2>9. JournalOK'
      <3>1. journal' \in [items : SUBSET Nat, nodes : SUBSET Nodes]
        BY <1>5, <2>2 DEF Covered, JournalOK
      <3>2. journal'.items \subseteq cache'.items
        BY <2>4, <2>6 DEF Covered, JournalOK
      <3>3. QED BY <1>5, <2>4, <2>7, <2>8, <3>1, <3>2 DEF JournalOK
    <2>10. SettledOK'
      <3>1. Excused' = Excused
        BY <1>7, <2>2 DEF Excused
      <3>2. ASSUME NEW t \in Items \ Excused, t <= s
            PROVE  /\ t \in cache'.items
                   /\ refresh.pc \in {"items", "read", "built"} => t \in refresh.items \cup journal'.items
        <4>1. CASE t = s
          BY <2>4, <2>6, <4>1
        <4>2. CASE t <= Base
          BY <1>2, <2>2, <2>4, <2>6, <4>2 DEF Covered, SettledOK
        <4>3. QED BY <1>6, <3>2, <4>1, <4>2
      <3>3. QED BY <1>2, <1>3, <1>7, <3>1, <3>2 DEF SettledOK
    <2>11. RereadOK'
      <3>1. Unreported' = Unreported
        BY <1>7
      <3>2. ASSUME NEW t \in Items \ Unreported, t <= s, refresh.pc \in {"items", "read", "built"}
            PROVE  t \in refresh.items \cup journal'.items
        <4>1. CASE t = s
          BY <2>6, <4>1
        <4>2. CASE t <= Base
          BY <1>2, <2>2, <2>6, <3>2, <4>2 DEF Covered, RereadOK
        <4>3. QED BY <1>6, <3>2, <4>1, <4>2
      <3>3. QED BY <1>2, <1>3, <1>7, <3>1, <3>2 DEF RereadOK
    <2>12. QED BY <1>8, <2>5, <2>9, <2>10, <2>11 DEF Covered
  <1>12. QED BY <1>3, <1>4, <1>10, <1>11 DEF ApplyItem, s

LEMMA ApplyNodeKeepsCovered ==
  ASSUME Core, Core', Extends, Covered, ApplyNodeUpdate, SameBase, SameLog
  PROVE  Covered'
  <1> DEFINE s == Len(log)
             n == job.node
  <1>1. /\ pc = "applyNode" /\ ApplyNode(n, job.version, SeqOf("nodeUpdate"))
        /\ log' = log /\ nodeRow' = nodeRow
        /\ refresh' = refresh /\ hubSeq' = hubSeq /\ gaveUp' = gaveUp
    BY DEF ApplyNodeUpdate, storeVars
  <1>2. SeqOf("nodeUpdate") = s /\ s \in Nat /\ AppliedBase = s /\ AppliedBase' = s
    BY <1>1, NodeSeq DEF SameBase
  <1>3. Items' = Items /\ Seqs' = Seqs /\ Unreported' = Unreported
    BY <1>1 DEF SameLog, Unreported
  <1>4. RefreshOK'
    BY <1>1, <1>3 DEF Covered, RefreshOK
  <1>5. cache.latestSeq \in Nat /\ cache.latestSeq <= s
    BY <1>2 DEF Covered, CacheOK
  <1>6. n \in Nodes /\ job.version \in Nat /\ job.version <= nodeRow[n]
    BY <1>1 DEF Core, JobOK, NodeStages
  <1>7. CASE NotReady(s)
    <2>1. /\ ~ready /\ ready' = ready /\ cache' = cache /\ journal' = journal
          /\ dropped' = dropped \cup {s}
      BY <1>7 DEF NotReady, cacheVars
    <2>2. CacheOK'
      BY <1>1, <1>2, <1>3, <2>1 DEF Covered, CacheOK
    <2>3. JournalOK'
      BY <2>1 DEF Covered, JournalOK, Journaled
    <2>4. Excused \subseteq Excused'
      BY <1>3, <2>1 DEF Excused
    <2>5. SettledOK'
      BY <1>1, <1>2, <1>3, <2>1, <2>4 DEF Covered, SettledOK
    <2>6. RereadOK'
      BY <2>1 DEF RereadOK
    <2>7. QED BY <1>4, <2>2, <2>3, <2>5, <2>6 DEF Covered
  <1> HIDE DEF s, n
  <1>8. CASE Mutate([cache EXCEPT !.nodes[n] = job.version, !.nodeSeq[n] = s, !.latestSeq = Larger(@, s)],
                    {}, {n})
    <2>1. Larger(cache.latestSeq, s) = s
      BY <1>2, <1>5 DEF Larger
    <2>2. /\ ready /\ ready' = ready /\ dropped' = dropped
          /\ cache' = [cache EXCEPT !.nodes[n] = job.version, !.nodeSeq[n] = s, !.latestSeq = s]
          /\ journal'.items = journal.items /\ journal'.nodes = journal.nodes \cup {n}
          /\ journal' = [items |-> journal.items, nodes |-> journal.nodes \cup {n}]
      BY <1>8, <2>1 DEF Mutate
    <2>3. cache \in [items : SUBSET Nat, nodes : [Nodes -> Nat], nodeSeq : [Nodes -> Nat], latestSeq : Nat]
      BY DEF Covered, CacheOK
    <2>4. /\ cache' \in [items : SUBSET Nat, nodes : [Nodes -> Nat], nodeSeq : [Nodes -> Nat], latestSeq : Nat]
          /\ cache'.items = cache.items /\ cache'.latestSeq = s
          /\ cache'.nodes = [cache.nodes EXCEPT ![n] = job.version]
          /\ cache'.nodeSeq = [cache.nodeSeq EXCEPT ![n] = s]
      BY <1>2, <1>6, <2>2, <2>3
    <2>5. CacheOK'
      <3>1. \A m \in Nodes : cache'.nodes[m] <= nodeRow'[m] /\ cache'.nodeSeq[m] <= Len(log')
        BY <1>1, <1>2, <1>6, <2>3, <2>4 DEF Covered, CacheOK, s
      <3>2. cache'.items \subseteq Seqs' /\ cache'.latestSeq <= AppliedBase'
        BY <1>2, <1>3, <2>4 DEF Covered, CacheOK
      <3>3. QED BY <2>4, <3>1, <3>2 DEF CacheOK
    <2>6. \A t \in Journaled' : t \in Journaled \/ t = s
      <3>1. ASSUME NEW m \in journal'.nodes
            PROVE  cache'.nodeSeq[m] \in Journaled \/ cache'.nodeSeq[m] = s
        <4>1. m \in Nodes
          BY <1>6, <2>2 DEF Covered, JournalOK
        <4>2. CASE m = n
          BY <2>3, <2>4, <4>1, <4>2
        <4>3. CASE m # n
          <5>1. m \in journal.nodes /\ cache'.nodeSeq[m] = cache.nodeSeq[m]
            BY <2>2, <2>3, <2>4, <4>1, <4>3
          <5>2. QED BY <5>1 DEF Journaled
        <4>4. QED BY <4>2, <4>3
      <3>2. \A t \in journal'.items : t \in Journaled
        BY <2>2 DEF Journaled
      <3>3. QED BY <3>1, <3>2 DEF Journaled
    <2>7. \A t \in Journaled : t <= s
      <3>1. ASSUME NEW t \in Journaled PROVE t <= s
        <4>1. t \in Nat
          BY <2>3 DEF Covered, JournalOK, Journaled
        <4>2. t <= cache.latestSeq
          BY DEF Covered, JournalOK
        <4>3. QED BY <1>2, <1>5, <4>1, <4>2
      <3>2. QED BY <3>1
    <2>8. s \in Journaled'
      <3>1. cache'.nodeSeq[n] = s /\ n \in journal'.nodes
        BY <1>6, <2>2, <2>3, <2>4
      <3>2. QED BY <3>1 DEF Journaled
    <2>9. JournalOK'
      <3>1. journal' \in [items : SUBSET Nat, nodes : SUBSET Nodes]
        BY <1>6, <2>2 DEF Covered, JournalOK
      <3>2. journal'.items \subseteq cache'.items
        BY <2>2, <2>4 DEF Covered, JournalOK
      <3>3. QED BY <1>2, <2>4, <2>6, <2>7, <2>8, <3>1, <3>2 DEF JournalOK
    <2>10. SettledOK'
      <3>1. Excused' = Excused
        BY <1>3, <2>2 DEF Excused
      <3>2. QED BY <1>1, <1>2, <1>3, <2>2, <2>4, <3>1 DEF Covered, SettledOK
    <2>11. RereadOK'
      BY <1>1, <1>2, <1>3, <2>2 DEF Covered, RereadOK
    <2>12. QED BY <1>4, <2>5, <2>9, <2>10, <2>11 DEF Covered
  <1>9. QED BY <1>1, <1>2, <1>7, <1>8 DEF ApplyNode, n

(* The refresher: the journal begins empty, the reading sees every item of the log. *)
LEMMA RefresherKeepsCovered ==
  ASSUME Core, Core', Covered, HubOK, SameBase, SameLog,
         RefreshBegin \/ ReadNodes \/ ReadItems \/ ReadSeq \/ RefreshFail
  PROVE  Covered'
  <1>1. /\ log' = log /\ nodeRow' = nodeRow /\ hubSeq' = hubSeq /\ gaveUp' = gaveUp
        /\ dropped' = dropped /\ cache' = cache /\ ready' = ready
    BY DEF RefreshBegin, ReadNodes, ReadItems, ReadSeq, RefreshFail, OthersIdle, storeVars,
           workerVars, publishHistory, cacheVars
  <1>2. /\ Items' = Items /\ Seqs' = Seqs /\ AppliedBase' = AppliedBase
        /\ Excused' = Excused /\ Unreported' = Unreported
    BY <1>1 DEF SameLog, SameBase, Excused, Unreported
  <1>3. CacheOK'
    BY <1>1, <1>2 DEF Covered, CacheOK
  <1>4. /\ refresh \in [pc : {"idle", "reading", "nodes", "items", "read", "built"},
                    items : SUBSET Nat, nodes : [Nodes -> Nat], latestSeq : Nat]
        /\ refresh.items \subseteq Seqs /\ refresh.latestSeq <= hubSeq
        /\ \A n \in Nodes : refresh.nodes[n] <= nodeRow[n]
        /\ hubSeq \in Nat /\ nodeRow \in [Nodes -> Nat] /\ Items \subseteq Seqs /\ Seqs \subseteq Nat
    BY DEF Covered, RefreshOK, HubOK, Core, RowsOK, Items, Seqs, LogOK
  <1>5. CASE RefreshBegin \/ RefreshFail
    <2>1. CASE RefreshBegin
      <3>1. /\ refresh' = [pc |-> "reading", items |-> {}, nodes |-> [n \in Nodes |-> 0], latestSeq |-> 0]
            /\ journal' = [items |-> {}, nodes |-> {}]
        BY <2>1 DEF RefreshBegin, IdleRefresh
      <3>2. RefreshOK'
        BY <1>1, <1>2, <1>4, <3>1 DEF RefreshOK
      <3>3. Journaled' = {} /\ journal'.items = {} /\ journal'.nodes = {}
        BY <3>1 DEF Journaled
      <3>4. JournalOK'
        BY <3>1, <3>3 DEF JournalOK
      <3>5. refresh'.pc \notin {"items", "read", "built"}
        BY <3>1
      <3>6. SettledOK' /\ RereadOK'
        BY <1>1, <1>2, <3>5 DEF Covered, SettledOK, RereadOK
      <3>7. QED BY <1>3, <3>2, <3>4, <3>6 DEF Covered
    <2>2. CASE RefreshFail
      <3>1. /\ refresh' = [pc |-> "idle", items |-> {}, nodes |-> [n \in Nodes |-> 0], latestSeq |-> 0]
            /\ journal' = journal
        BY <2>2 DEF RefreshFail, IdleRefresh, cacheVars
      <3>2. RefreshOK'
        BY <1>1, <1>2, <1>4, <3>1 DEF RefreshOK
      <3>3. JournalOK'
        BY <1>1, <3>1 DEF Covered, JournalOK, Journaled
      <3>4. refresh'.pc \notin {"items", "read", "built"}
        BY <3>1
      <3>5. SettledOK' /\ RereadOK'
        BY <1>1, <1>2, <3>4 DEF Covered, SettledOK, RereadOK
      <3>6. QED BY <1>3, <3>2, <3>3, <3>5 DEF Covered
    <2>3. QED BY <1>5, <2>1, <2>2
  <1>6. CASE ReadNodes \/ ReadItems \/ ReadSeq
    <2>1. journal' = journal
      BY <1>6 DEF ReadNodes, ReadItems, ReadSeq, cacheVars
    <2>2. JournalOK'
      BY <1>1, <2>1 DEF Covered, JournalOK, Journaled
    <2>3. RefreshOK'
      <3>1. CASE ReadNodes
        <4>1. /\ refresh'.pc \in {"nodes", "read"} /\ refresh'.nodes = nodeRow
              /\ refresh'.items = refresh.items /\ refresh'.latestSeq = refresh.latestSeq
              /\ refresh' = [pc |-> refresh'.pc, items |-> refresh'.items,
                             nodes |-> refresh'.nodes, latestSeq |-> refresh'.latestSeq]
          BY <1>4, <3>1 DEF ReadNodes
        <4>2. \A n \in Nodes : nodeRow[n] <= nodeRow[n]
          BY <1>4
        <4>3. refresh' \in [pc : {"idle", "reading", "nodes", "items", "read", "built"},
                            items : SUBSET Nat, nodes : [Nodes -> Nat], latestSeq : Nat]
          BY <1>4, <4>1
        <4>4. QED BY <1>1, <1>2, <1>4, <4>1, <4>2, <4>3 DEF RefreshOK
      <3>2. CASE ReadItems
        BY <1>1, <1>2, <1>4, <3>2 DEF ReadItems, RefreshOK
      <3>3. CASE ReadSeq
        <4>1. refresh' = [refresh EXCEPT !.pc = "built", !.latestSeq = hubSeq]
          BY <3>3 DEF ReadSeq
        <4>2. /\ refresh'.nodes = refresh.nodes /\ refresh'.items = refresh.items
              /\ refresh'.latestSeq = hubSeq
          BY <1>4, <4>1
        <4>3. refresh' \in [pc : {"idle", "reading", "nodes", "items", "read", "built"},
                            items : SUBSET Nat, nodes : [Nodes -> Nat], latestSeq : Nat]
          BY <1>4, <4>1
        <4>4. hubSeq <= hubSeq
          BY <1>4
        <4>5. QED BY <1>1, <1>2, <1>4, <4>2, <4>3, <4>4 DEF RefreshOK
      <3>4. QED BY <1>6, <3>1, <3>2, <3>3
    <2>4. SettledOK' /\ RereadOK'
      <3>1. CASE ReadNodes \/ ReadSeq
        <4>1. refresh'.items = refresh.items
          BY <1>4, <3>1 DEF ReadNodes, ReadSeq
        <4>2. refresh'.pc \in {"items", "read", "built"} => refresh.pc \in {"items", "read", "built"}
          BY <1>4, <3>1 DEF ReadNodes, ReadSeq
        <4>3. SettledOK'
          BY <1>1, <1>2, <2>1, <4>1, <4>2 DEF Covered, SettledOK
        <4>4. RereadOK'
          BY <1>1, <1>2, <2>1, <4>1, <4>2 DEF Covered, RereadOK
        <4>5. QED BY <4>3, <4>4
      <3>2. CASE ReadItems
        <4>1. refresh'.items = Items
          BY <1>4, <3>2 DEF ReadItems
        <4>2. SettledOK' /\ RereadOK'
          BY <1>1, <1>2, <4>1 DEF Covered, SettledOK, RereadOK
        <4>3. QED BY <4>2
      <3>3. QED BY <1>6, <3>1, <3>2
    <2>5. QED BY <1>3, <2>2, <2>3, <2>4 DEF Covered
  <1>7. QED BY <1>5, <1>6

(* What is installed holds what was read and what was journaled meanwhile. *)
LEMMA InstallKeepsCovered ==
  ASSUME Core, Core', Covered, HubOK, SameBase, SameLog, Install
  PROVE  Covered'
  <1> DEFINE J == Journaled
             S == {refresh.latestSeq} \cup J
  <1>1. /\ log' = log /\ nodeRow' = nodeRow /\ hubSeq' = hubSeq /\ gaveUp' = gaveUp
        /\ dropped' = {s \in dropped : ~ready}
        /\ cache' = Merged /\ ready' = TRUE /\ refresh.pc = "built"
        /\ journal' = [items |-> {}, nodes |-> {}] /\ refresh' = IdleRefresh
    BY DEF Install, storeVars
  <1>2. /\ Items' = Items /\ Seqs' = Seqs /\ AppliedBase' = AppliedBase /\ Unreported' = Unreported
        /\ ~ready => Excused' = Excused
    BY <1>1 DEF SameLog, SameBase, Excused, Unreported
  <1>3. /\ hubSeq \in Nat /\ hubSeq <= AppliedBase /\ AppliedBase \in Nat /\ Len(log) \in Nat
        /\ nodeRow \in [Nodes -> Nat] /\ Seqs \subseteq Nat
    BY BaseFacts DEF HubOK, Core, RowsOK, Seqs
  <1>4. /\ cache.items \in SUBSET Seqs /\ cache.latestSeq \in Nat /\ cache.latestSeq <= AppliedBase
        /\ cache.nodes \in [Nodes -> Nat] /\ cache.nodeSeq \in [Nodes -> Nat]
        /\ \A n \in Nodes : cache.nodes[n] <= nodeRow[n] /\ cache.nodeSeq[n] <= Len(log)
    BY DEF Covered, CacheOK
  <1>5. /\ refresh.items \in SUBSET Seqs /\ refresh.latestSeq \in Nat /\ refresh.latestSeq <= hubSeq
        /\ refresh.nodes \in [Nodes -> Nat]
        /\ \A n \in Nodes : refresh.nodes[n] <= nodeRow[n]
    BY DEF Covered, RefreshOK
  <1>6. /\ journal.items \subseteq cache.items /\ journal.nodes \subseteq Nodes
        /\ \A s \in J : s <= cache.latestSeq
        /\ J # {} => cache.latestSeq \in J
    BY DEF Covered, JournalOK
  <1>7. J \subseteq Nat
    BY <1>3, <1>4, <1>6 DEF Journaled
  <1>8. cache.items \cap journal.items = journal.items
    BY <1>6
  <1>9. {refresh.latestSeq} \cup journal.items \cup {cache.nodeSeq[n] : n \in journal.nodes} = S
    BY DEF Journaled
  <1>10. /\ cache'.items = refresh.items \cup journal.items
         /\ cache'.nodes = [n \in Nodes |-> IF KeepsLive(n) THEN cache.nodes[n] ELSE refresh.nodes[n]]
         /\ cache'.nodeSeq = [n \in Nodes |-> IF KeepsLive(n) THEN cache.nodeSeq[n] ELSE 0]
         /\ cache'.latestSeq = Max(S)
         /\ cache' = [items |-> cache'.items, nodes |-> cache'.nodes,
                      nodeSeq |-> cache'.nodeSeq, latestSeq |-> cache'.latestSeq]
    BY <1>1, <1>8, <1>9, Zenon DEF Merged
  <1> HIDE DEF J
  <1>11. Max(S) \in Nat /\ Max(S) <= AppliedBase
    <2>1. S \in SUBSET Nat /\ refresh.latestSeq \in S
      BY <1>5, <1>7
    <2>2. CASE \A s \in J : s <= refresh.latestSeq
      <3>1. \A s \in S : s <= refresh.latestSeq
        BY <1>5, <2>2
      <3> HIDE DEF S
      <3>2. Max(S) = refresh.latestSeq
        BY <2>1, <3>1, MaxIs
      <3>3. QED BY <1>3, <1>5, <3>2
    <2>3. CASE ~ \A s \in J : s <= refresh.latestSeq
      <3>1. PICK s \in J : ~(s <= refresh.latestSeq)
        BY <2>3
      <3>2. s \in Nat /\ s <= cache.latestSeq
        BY <1>6, <1>7
      <3>3. refresh.latestSeq <= cache.latestSeq
        BY <1>4, <1>5, <3>1, <3>2
      <3>4. cache.latestSeq \in S /\ \A t \in S : t <= cache.latestSeq
        BY <1>6, <3>1, <3>3
      <3> HIDE DEF S
      <3>5. Max(S) = cache.latestSeq
        BY <2>1, <3>4, MaxIs
      <3>6. QED BY <1>4, <3>5
    <2>4. QED BY <2>2, <2>3
  <1> HIDE DEF S
  <1>12. CacheOK'
    <2>1. cache'.items \subseteq Seqs /\ cache'.items \in SUBSET Nat
      BY <1>3, <1>4, <1>5, <1>6, <1>10
    <2>2. ASSUME NEW n \in Nodes
          PROVE  cache'.nodes[n] \in Nat /\ cache'.nodes[n] <= nodeRow[n]
      BY <1>4, <1>5, <1>10
    <2>3. ASSUME NEW n \in Nodes
          PROVE  cache'.nodeSeq[n] \in Nat /\ cache'.nodeSeq[n] <= Len(log)
      BY <1>3, <1>4, <1>10
    <2>4. cache'.nodes \in [Nodes -> Nat] /\ cache'.nodeSeq \in [Nodes -> Nat]
      BY <1>10, <2>2, <2>3
    <2>5. cache'.latestSeq \in Nat /\ cache'.latestSeq <= AppliedBase
      BY <1>10, <1>11
    <2>6. cache' \in [items : SUBSET Nat, nodes : [Nodes -> Nat], nodeSeq : [Nodes -> Nat], latestSeq : Nat]
      BY <1>10, <2>1, <2>4, <2>5
    <2>7. QED BY <1>1, <1>2, <2>1, <2>2, <2>3, <2>5, <2>6 DEF CacheOK
  <1>13. refresh' = [pc |-> "idle", items |-> {}, nodes |-> [n \in Nodes |-> 0], latestSeq |-> 0]
    BY <1>1 DEF IdleRefresh
  <1>14. RefreshOK'
    BY <1>1, <1>2, <1>3, <1>13 DEF RefreshOK
  <1>15. JournalOK'
    <2>1. Journaled' = {} /\ journal'.items = {} /\ journal'.nodes = {}
      BY <1>1 DEF Journaled
    <2>2. QED BY <1>1, <2>1 DEF JournalOK
  <1>16. SettledOK'
    <2>1. refresh'.pc \notin {"items", "read", "built"}
      BY <1>13
    <2>2. \A s \in Items \ Excused : s <= AppliedBase => s \in cache'.items
      BY <1>1, <1>10 DEF Covered, SettledOK
    <2>3. ready => \A s \in Items \ Unreported : s <= AppliedBase => s \in cache'.items
      BY <1>1, <1>10 DEF Covered, RereadOK
    <2>4. Unreported \subseteq Excused'
      BY <1>2 DEF Excused
    <2>5. CASE ready
      BY <1>2, <2>1, <2>3, <2>4, <2>5 DEF SettledOK
    <2>6. CASE ~ready
      BY <1>2, <2>1, <2>2, <2>6 DEF SettledOK
    <2>7. QED BY <2>5, <2>6
  <1>17. RereadOK'
    BY <1>13 DEF RereadOK
  <1>18. QED BY <1>12, <1>14, <1>15, <1>16, <1>17 DEF Covered

\* An empty cache, whatever the log.
Cleared ==
    /\ ready' = FALSE /\ cache' = Empty
    /\ journal' = [items |-> {}, nodes |-> {}]
    /\ refresh' = IdleRefresh

LEMMA ClearedIsCovered ==
  ASSUME Core', HubOK', Cleared
  PROVE  Covered'
  <1>1. /\ hubSeq' \in Nat /\ AppliedBase' \in Nat /\ Len(log)' \in Nat
        /\ nodeRow' \in [Nodes -> Nat]
    <2>1. Base' \in Nat
      BY DEF Core, BlockOK
    <2>n. \A m \in Nat : m + 1 \in Nat
      OBVIOUS
    <2>2. AppliedBase' \in Nat
      BY <2>1, <2>n, Zenon DEF AppliedBase
    <2>3. QED BY <2>2 DEF HubOK, Core, RowsOK, LogOK
  <1>2. /\ cache' = [items |-> {}, nodes |-> [n \in Nodes |-> 0], nodeSeq |-> [n \in Nodes |-> 0],
                     latestSeq |-> 0]
        /\ refresh' = [pc |-> "idle", items |-> {}, nodes |-> [n \in Nodes |-> 0], latestSeq |-> 0]
    BY DEF Cleared, Empty, IdleRefresh
  <1>3. CacheOK'
    BY <1>1, <1>2 DEF CacheOK
  <1>4. RefreshOK'
    BY <1>1, <1>2 DEF RefreshOK
  <1>5. JournalOK'
    <2>1. Journaled' = {} /\ journal'.items = {} /\ journal'.nodes = {}
      BY DEF Cleared, Journaled
    <2>2. QED BY <2>1 DEF Cleared, JournalOK
  <1>6. SettledOK' /\ RereadOK'
    BY <1>2 DEF Cleared, SettledOK, RereadOK
  <1>7. QED BY <1>3, <1>4, <1>5, <1>6 DEF Covered

LEMMA QuietCache ==
  ASSUME Quiet, ~ApplyNodeUpdate, ~RefreshStep, ~RefreshFail
  PROVE  CacheQuiet
  <1>1. CASE TakeJob
    <2>1. ASSUME NEW n \in Nodes, ReceiveStatus(n) PROVE CacheQuiet
      BY <2>1 DEF ReceiveStatus, publishHistory, CacheQuiet
    <2>2. ASSUME NEW j, NEW stage, Take(j, stage) PROVE CacheQuiet
      BY <2>2 DEF Take, publishHistory, CacheQuiet
    <2>3. QED BY <1>1, <2>1, <2>2 DEF TakeJob, TakePacket, TakeStatus
  <1>2. CASE TransientError \/ UpsertNode \/ BroadcastNode
    BY <1>2 DEF TransientError, UpsertNode, BroadcastNode, publishHistory, CacheQuiet
  <1>3. CASE UNCHANGED publishVars
    BY <1>3 DEF publishVars, cacheVars, publishHistory, CacheQuiet
  <1>4. QED BY <1>1, <1>2, <1>3 DEF Quiet

LEMMA CoveredStep ==
  ASSUME Core, Sent, Covered, [PublishNext]_publishVars
  PROVE  Covered'
  <1>1. /\ RowsOK' /\ JobOK' /\ Core' /\ Extends /\ Sent' /\ HubOK /\ HubOK'
        /\ \A n \in Nodes : nodeRow'[n] >= nodeRow[n]
    BY RowsStep, JobStep, CoreStep, SentStep DEF Core, Sent
  <1>2. /\ Len(log) \in Nat /\ Len(log') \in Nat /\ Base \in Nat /\ AppliedBase \in Nat
        /\ Base <= Len(log) /\ AppliedBase <= Len(log) /\ hubSeq \in Nat
        /\ hubSeq <= Base /\ LogOK /\ LogOK'
    BY <1>1, BaseFacts DEF Core, HubOK, LogOK
  <1>3. /\ \A s \in Items' : s \in Nat /\ (s \in Items \/ s > Len(log))
        /\ \A s \in Items : s \in Nat /\ s <= Len(log)
    BY <1>1, <1>2, ExtendsFacts DEF Items, Seqs
  <1>4. CASE Quiet
    <2>1. SameBase /\ SameLog
      BY <1>1, <1>4, QuietStep
    <2>2. CASE ApplyNodeUpdate
      BY <1>1, <2>1, <2>2, ApplyNodeKeepsCovered
    <2>3. CASE RefreshFail \/ RefreshStep
      BY <1>1, <2>1, <2>3, RefresherKeepsCovered, InstallKeepsCovered DEF RefreshStep
    <2>4. CASE ~ApplyNodeUpdate /\ ~RefreshFail /\ ~RefreshStep
      <3>1. CacheQuiet
        BY <1>4, <2>4, QuietCache
      <3>2. AppliedBase' = AppliedBase /\ Items' = Items /\ AppliedBase' >= AppliedBase
        BY <1>2, <2>1 DEF SameBase, SameLog
      <3>3. gaveUp' = gaveUp /\ hubSeq' >= hubSeq
        <4>1. CASE BroadcastNode
          <5>1. Broadcast(SeqOf("nodeUpdate")) /\ gaveUp' = gaveUp /\ pc = "broadcastNode"
            BY <4>1 DEF BroadcastNode
          <5>2. SeqOf("nodeUpdate") = Len(log)
            BY <5>1, NodeSeq
          <5>3. QED BY <1>2, <5>1, <5>2 DEF Broadcast, Larger
        <4>2. CASE ~BroadcastNode
          BY <1>2, <1>4, <4>2, QuietIsSilent DEF Silent
        <4>3. QED BY <4>1, <4>2
      <3>4. QED BY <1>1, <3>1, <3>2, <3>3, CacheQuietKeepsCovered
    <2>5. QED BY <2>2, <2>3, <2>4
  <1>5. CASE InsertNode
    <2>1. /\ Items' = Items /\ AppliedBase = Len(log) /\ AppliedBase' = Len(log')
      BY <1>1, <1>5, InsertNodeStep
    <2>2. CacheQuiet /\ gaveUp' = gaveUp /\ hubSeq' = hubSeq
      BY <1>5 DEF InsertNode, publishHistory, CacheQuiet
    <2>3. AppliedBase' >= AppliedBase /\ hubSeq' >= hubSeq
      BY <1>1, <1>2, <2>1, <2>2 DEF Extends
    <2>4. \A s \in Items' : s \in Items /\ s <= AppliedBase
      BY <1>3, <2>1
    <2>5. QED BY <1>1, <2>2, <2>3, <2>4, CacheQuietKeepsCovered
  <1>6. CASE CommitBatch
    <2>1. SameBase
      BY <1>1, <1>6, CommitStep
    <2>2. CacheQuiet /\ gaveUp' = gaveUp /\ hubSeq' = hubSeq
      BY <1>6 DEF CommitBatch, publishHistory, CacheQuiet
    <2>3. AppliedBase' = AppliedBase /\ AppliedBase' >= AppliedBase /\ hubSeq' >= hubSeq
      BY <1>2, <2>1, <2>2 DEF SameBase
    <2>4. ASSUME NEW s \in Items', s <= AppliedBase' PROVE s \in Items /\ s <= AppliedBase
      BY <1>2, <1>3, <2>3, <2>4
    <2>5. QED BY <1>1, <2>2, <2>3, <2>4, CacheQuietKeepsCovered
  <1>7. CASE ApplyNext
    BY <1>1, <1>7, ApplyNextKeepsCovered
  <1>8. CASE BroadcastNext
    <2>1. /\ SameLog /\ AppliedBase = Base + 1 /\ AppliedBase' = Base + 1
      BY <1>1, <1>8, BroadcastNextStep
    <2>2. /\ CacheQuiet /\ gaveUp' = gaveUp /\ Broadcast(SeqOf(Head(todo))) /\ pc = "broadcast"
      BY <1>8 DEF BroadcastNext, CacheQuiet
    <2>3. SeqOf(Head(todo)) = Base + 1
      BY <2>2, HeadSeq DEF SendStages
    <2>4. hubSeq' >= hubSeq
      BY <1>2, <2>2, <2>3 DEF Broadcast, Larger
    <2>5. Items' = Items /\ AppliedBase' >= AppliedBase /\ AppliedBase' = AppliedBase
      BY <1>2, <2>1 DEF SameLog
    <2>6. QED BY <1>1, <2>2, <2>4, <2>5, CacheQuietKeepsCovered
  <1>9. CASE GiveUp
    <2>1. /\ SameLog /\ AppliedBase' = Len(log)
          /\ \A s \in Items : s > Base => log[s].job = job.id
      BY <1>1, <1>9, GiveUpStep
    <2>2. /\ CacheQuiet /\ gaveUp' = gaveUp \cup {j \in {job.id} : pc = "commit"}
          /\ hubSeq' = hubSeq /\ log' = log /\ pc # "broadcast"
          /\ pc \in NodeStages \/ pc = "commit"
      BY <1>9 DEF GiveUp, CacheQuiet, storeVars, NodeStages
    <2>3. AppliedBase = Base
      BY <2>2 DEF AppliedBase
    <2>4. ASSUME NEW s \in Items' PROVE s \in Items /\ (s <= AppliedBase \/ log'[s].job \in gaveUp')
      <3>1. s \in Items /\ s \in Nat
        BY <1>3, <2>1 DEF SameLog
      <3>2. s > Base \/ s <= Base
        BY <1>2, <3>1
      <3>3. pc \in NodeStages => s <= Base
        BY <1>1, <2>1, <3>1, <3>2 DEF Core, BlockOK
      <3>4. QED BY <2>1, <2>2, <2>3, <3>1, <3>2, <3>3
    <2>5. AppliedBase' >= AppliedBase /\ hubSeq' >= hubSeq /\ gaveUp \subseteq gaveUp'
      BY <1>2, <2>1, <2>2
    <2>6. QED BY <1>1, <2>2, <2>4, <2>5, CacheQuietKeepsCovered
  <1>10. CASE Crash
    <2>1. Cleared
      BY <1>10 DEF Crash, Cleared
    <2>2. QED BY <1>1, <2>1, ClearedIsCovered
  <1>11. QED BY <1>4, <1>5, <1>6, <1>7, <1>8, <1>9, <1>10, Steps

-----------------------------------------------------------------------------
(* The theorems. *)

LEMMA InitPublishInv ==
  ASSUME PublishInit
  PROVE  PublishInv
  <1> USE BoundsAssumption DEF BoundsAssumption
  <1>1. /\ log = <<>> /\ jobs = 0 /\ job = NoJob /\ pc = "idle" /\ attempts = 0 /\ crashes = 0
        /\ nodeRow = [n \in Nodes |-> 0] /\ due = [n \in Nodes |-> 0] /\ ready = FALSE
        /\ hubSeq = 0 /\ restored = 0 /\ wire = <<>>
    BY DEF PublishInit
  <1>2. Len(log) = 0 /\ log \in Seq(LogRecords) /\ Len(<<>>) = 0 /\ wire \in Seq(Nat) /\ Len(wire) = 0
    BY <1>1
  <1>3. Seqs = {} /\ Items = {}
    BY <1>2 DEF Seqs, Items
  <1>4. LogOK /\ OncePerKey
    BY <1>2, <1>3 DEF LogOK, OncePerKey
  <1>5. JobOK
    BY <1>1, NoJobFacts DEF JobOK, JobRecords, NodeStages, SendStages, Stages
  <1>6. RowsOK
    <2>1. 0 \in 0..MaxJobs /\ 0 \in 0..MaxRetries /\ 0 \in 0..MaxCrashes /\ 0 \in Nat
      OBVIOUS
    <2>2. due \in [Nodes -> 0..MaxJobs] /\ nodeRow \in [Nodes -> Nat]
      BY <1>1, <2>1
    <2>3. QED BY <1>1, <2>1, <2>2 DEF RowsOK
  <1>7. Pending = <<>> /\ Base = 0 /\ AppliedBase = 0
    BY <1>1, <1>2 DEF Pending, Base, AppliedBase, SendStages
  <1>8. BlockOK
    BY <1>1, <1>2, <1>7 DEF BlockOK, NodeStages, SendStages
  <1>9. HubOK /\ WireOK /\ PublishedOK
    BY <1>1, <1>2, <1>3, <1>7 DEF HubOK, WireOK, PublishedOK
  <1>10. cache = Empty /\ journal = [items |-> {}, nodes |-> {}] /\ refresh = IdleRefresh
    BY DEF PublishInit
  <1>11. /\ cache = [items |-> {}, nodes |-> [n \in Nodes |-> 0], nodeSeq |-> [n \in Nodes |-> 0],
                     latestSeq |-> 0]
         /\ refresh = [pc |-> "idle", items |-> {}, nodes |-> [n \in Nodes |-> 0], latestSeq |-> 0]
    BY <1>10 DEF Empty, IdleRefresh
  <1>12. CacheOK /\ RefreshOK
    <2>1. CacheOK
      BY <1>1, <1>2, <1>7, <1>11 DEF CacheOK
    <2>2. RefreshOK
      BY <1>1, <1>11 DEF RefreshOK
    <2>3. QED BY <2>1, <2>2
  <1>13. JournalOK
    <2>1. Journaled = {} /\ journal.items = {} /\ journal.nodes = {}
      BY <1>10 DEF Journaled
    <2>2. QED BY <1>10, <2>1 DEF JournalOK
  <1>14. SettledOK /\ RereadOK
    BY <1>3, <1>11 DEF SettledOK, RereadOK
  <1>15. QED BY <1>4, <1>5, <1>6, <1>8, <1>9, <1>12, <1>13, <1>14 DEF PublishInv, Core, Sent, Covered

LEMMA StepPublishInv ==
  ASSUME PublishInv, [PublishNext]_publishVars
  PROVE  PublishInv'
  BY CoreStep, SentStep, CoveredStep DEF PublishInv

THEOREM PublishInvHolds == PublishSpec => []PublishInv
  <1>1. PublishInit => PublishInv
    BY InitPublishInv
  <1>2. PublishInv /\ [PublishNext]_publishVars => PublishInv'
    BY StepPublishInv
  <1>3. QED BY <1>1, <1>2, PTL DEF PublishSpec

(* "Dedupe keys preserve exactly-once cursor semantics when a live-core job   *)
(* is retried": no key is in the log twice, however often a commit that       *)
(* reported an error is retried (insertPublicEventOnceTx).                    *)
THEOREM KeysOnce == PublishSpec => []OncePerKey
  <1>1. PublishInv => OncePerKey
    BY DEF PublishInv, Core
  <1>2. QED BY <1>1, PublishInvHolds, PTL

LEMMA InvTypes == PublishInv => PublishTypeOK
  <1> SUFFICES ASSUME PublishInv PROVE PublishTypeOK
    OBVIOUS
  <1>0. /\ LogOK /\ JobOK /\ BlockOK /\ RowsOK /\ HubOK /\ CacheOK /\ RefreshOK
        /\ Len(log) \in Nat /\ AppliedBase \in Nat /\ AppliedBase <= Len(log) /\ Base <= AppliedBase
        /\ Base \in Nat
    BY BaseFacts DEF PublishInv, Core, Sent, Covered
  <1>1. \A s \in Seqs : log[s].job \in 1..jobs /\ log[s].node \in Nodes \cup {NoNode}
    <2>1. \A s \in Seqs : log[s] \in LogRecords
      BY <1>0 DEF LogOK, Seqs
    <2>2. QED BY <1>0, <2>1 DEF LogOK, LogRecords
  <1>2. pc \in {"idle", "upsertNode", "insertNode", "broadcastNode", "applyNode",
               "commit", "apply", "broadcast"}
    BY <1>0 DEF JobOK, Stages, NodeStages, SendStages
  <1>3. pc = "idle" <=> job = NoJob
    <2>1. pc # "idle" => job.id # 0
      BY <1>0 DEF JobOK
    <2>2. QED BY <1>0, <2>1, NoJobFacts DEF JobOK
  <1>4. Snapshot(cache)
    <2>1. /\ cache \in [items : SUBSET Nat, nodes : [Nodes -> Nat], nodeSeq : [Nodes -> Nat], latestSeq : Nat]
          /\ cache.items \subseteq Seqs
          /\ \A n \in Nodes : cache.nodes[n] <= nodeRow[n] /\ cache.nodeSeq[n] <= Len(log)
          /\ cache.latestSeq <= AppliedBase /\ nodeRow \in [Nodes -> Nat]
      BY <1>0 DEF CacheOK, RowsOK
    <2>2. DOMAIN cache.nodes = Nodes /\ DOMAIN cache.nodeSeq = Nodes
      BY <2>1
    <2>3. ASSUME NEW n \in Nodes
          PROVE  cache.nodes[n] \in 0..nodeRow[n] /\ cache.nodeSeq[n] \in 0..Len(log)
      <3>1. cache.nodes[n] \in Nat /\ cache.nodeSeq[n] \in Nat /\ nodeRow[n] \in Nat
        BY <2>1
      <3>2. QED BY <1>0, <2>1, <3>1
    <2>4. cache.latestSeq \in 0..Len(log)
      BY <1>0, <2>1
    <2>5. QED BY <2>1, <2>2, <2>3, <2>4 DEF Snapshot
  <1>5. refresh.pc \in {"idle", "reading", "nodes", "items", "read", "built"}
    BY <1>0 DEF RefreshOK
  <1>6. hubSeq \in 0..Len(log)
    BY <1>0 DEF HubOK
  <1>7. QED BY <1>0, <1>1, <1>2, <1>3, <1>4, <1>5, <1>6 DEF PublishTypeOK, RowsOK

(* The stream of a process is strictly increasing, names only durable events  *)
(* and never one from before the process; with it the types, so that no       *)
(* snapshot is ahead of the log (hub.go, public_cache.go, lifecycle.go).      *)
THEOREM StreamIncreases == PublishSpec => []WireIncreases
  <1>1. PublishInv => WireIncreases
    <2> SUFFICES ASSUME PublishInv PROVE WireIncreases
      OBVIOUS
    <2>1. /\ wire \in Seq(Nat) /\ restored \in Nat /\ hubSeq \in 0..Len(log) /\ Len(log) \in Nat
          /\ \A i \in 1..Len(wire) : restored < wire[i] /\ wire[i] <= hubSeq
          /\ \A i, j \in 1..Len(wire) : j < i => wire[j] < wire[i]
      BY InvTypes DEF PublishInv, Sent, HubOK, WireOK, PublishTypeOK, Core, LogOK
    <2>2. ASSUME NEW i \in 1..Len(wire)
          PROVE  /\ wire[i] \in (restored + 1)..Len(log)
                 /\ \A j \in 1..(i - 1) : wire[j] < wire[i]
      <3>1. wire[i] \in Nat /\ Len(wire) \in Nat
        BY <2>1
      <3>2. \A j \in 1..(i - 1) : j \in 1..Len(wire) /\ j < i
        BY <3>1
      <3>3. QED BY <2>1, <3>1, <3>2
    <2>3. QED BY <2>2, InvTypes DEF WireIncreases
  <1>2. QED BY <1>1, PublishInvHolds, PTL

(* Whatever the retries, every committed activity and pulse is on the live    *)
(* stream before the worker turns to another job, unless the write was given  *)
(* up (broadcastCommittedPublicEvent, retryStoreWriteLane).                   *)
THEOREM BatchesPublished == PublishSpec => []BatchPublished
  <1>1. PublishInv => BatchPublished
    <2> SUFFICES ASSUME PublishInv, NEW s \in Items,
                        s \notin {wire[i] : i \in 1..Len(wire)}, ~(s <= restored),
                        log[s].job \notin gaveUp
                 PROVE  log[s].job = job.id
      BY DEF BatchPublished
    <2>1. s \notin Range(wire)
      BY DEF PublishInv, Sent, WireOK, Range
    <2>2. s > Base
      BY <2>1 DEF PublishInv, Sent, PublishedOK
    <2>3. /\ Len(log) \in Nat /\ Base \in Nat /\ Base = Len(log) - Len(Pending)
          /\ Len(Pending) \in Nat
      BY BaseFacts DEF PublishInv, Core
    <2>4. s - Base \in 1..Len(Pending) /\ s = Base + (s - Base)
      BY <2>2, <2>3 DEF Items, Seqs
    <2>5. Key(log[s]) = <<job.id, Pending[s - Base]>>
      BY <2>4 DEF PublishInv, Core, BlockOK
    <2>6. QED BY <2>5 DEF Key
  <1>2. QED BY <1>1, PublishInvHolds, PTL

(* A snapshot that says "latestSeq" holds every activity and pulse up to it,  *)
(* whatever raced the refresh that built it (RefreshPublicStateCache,         *)
(* mergeMutationsAfterLocked and the Apply methods of public_cache.go).       *)
THEOREM SnapshotsCover == PublishSpec => []SnapshotCovers
  <1>1. PublishInv => SnapshotCovers
    <2> SUFFICES ASSUME PublishInv, ready, NEW s \in Items \ (dropped \cup Unreported),
                        s <= cache.latestSeq
                 PROVE  s \in cache.items
      BY DEF SnapshotCovers
    <2>1. /\ cache.latestSeq \in Nat /\ cache.latestSeq <= AppliedBase /\ AppliedBase \in Nat
          /\ s \in Nat
      BY BaseFacts DEF PublishInv, Core, Covered, CacheOK, Items, Seqs, LogOK
    <2>2. s <= AppliedBase
      BY <2>1
    <2>3. QED BY <2>2 DEF PublishInv, Covered, SettledOK, Excused
  <1>2. QED BY <1>1, PublishInvHolds, PTL

=============================================================================
