----------------------- MODULE MessagePipeline_proofs -----------------------
(***************************************************************************)
(* Proofs about MessagePipeline, for every set of messages, any number of  *)
(* workers and of callers that start and stop them, and every limit.       *)
(***************************************************************************)
EXTENDS MessagePipeline, FiniteSetTheorems, SequenceTheorems, TLAPS

HandTypes ==
    /\ queue \in Seq(Messages) /\ unfinished \in Nat
    /\ wpc \in [Workers -> {"new", "getting", "got", "handling", "cancelled", "done"}]
    /\ wmsg \in [Workers -> Messages \cup {NoMessage}]

\* A worker has a message from the get to the task_done, and at no other time.
\* A cancelled one has it when the cancellation found it at its handler.
HandsMatch ==
    \A w \in Workers :
        /\ wpc[w] \in {"new", "getting", "done"} => wmsg[w] = NoMessage
        /\ wpc[w] \in {"got", "handling"} => wmsg[w] # NoMessage

CountInv ==
    /\ HandTypes
    /\ HandsMatch
    /\ IsFiniteSet(Holding)
    /\ UnfinishedCounts

-----------------------------------------------------------------------------
\* What the tests of the queue's order find is a position of the queue.
LEMMA InsertLonger ==
    ASSUME NEW q \in Seq(Messages), NEW m \in Messages
    PROVE  Insert(q, m) \in Seq(Messages) /\ Len(Insert(q, m)) = Len(q) + 1
<1> DEFINE ahead == {i \in DOMAIN q : PriorityOf[q[i]] <= PriorityOf[m]}
           n == Cardinality(ahead)
<1>1. ahead \subseteq 1..Len(q)
  OBVIOUS
<1>2. IsFiniteSet(1..Len(q)) /\ Cardinality(1..Len(q)) = Len(q)
  <2>1. Len(q) \in Nat /\ 1 \in Int /\ Len(q) \in Int
    OBVIOUS
  <2>2. IsFiniteSet(1..Len(q)) /\ Cardinality(1..Len(q)) = IF 1 > Len(q) THEN 0 ELSE Len(q) - 1 + 1
    BY <2>1, FS_Interval
  <2> QED BY <2>1, <2>2
<1>3. n \in 0..Len(q)
  BY <1>1, <1>2, FS_Subset, FS_CardinalityType
<1>4. Insert(q, m) = SubSeq(q, 1, n) \o <<m>> \o SubSeq(q, n + 1, Len(q))
  BY DEF Insert
<1> HIDE DEF n
<1>5. /\ SubSeq(q, 1, n) \in Seq(Messages) /\ Len(SubSeq(q, 1, n)) = n
      /\ SubSeq(q, n + 1, Len(q)) \in Seq(Messages) /\ Len(SubSeq(q, n + 1, Len(q))) = Len(q) - n
  BY <1>3
<1>6. <<m>> \in Seq(Messages) /\ Len(<<m>>) = 1
  OBVIOUS
<1> DEFINE before == SubSeq(q, 1, n)
           after == SubSeq(q, n + 1, Len(q))
<1> HIDE DEF before, after
<1>7. /\ before \o <<m>> \in Seq(Messages) /\ Len(before \o <<m>>) = n + 1
      /\ after \in Seq(Messages) /\ Len(after) = Len(q) - n
  BY <1>3, <1>5, <1>6 DEF before, after
<1>8. (before \o <<m>>) \o after \in Seq(Messages) /\ Len((before \o <<m>>) \o after) = Len(q) + 1
  BY <1>3, <1>7
<1> QED BY <1>4, <1>8 DEF before, after

LEMMA CountInit == Init => CountInv
<1> SUFFICES ASSUME Init PROVE CountInv
  OBVIOUS
<1>1. Holding = {}
  BY DEF Init, Holding
<1>2. IsFiniteSet(Holding) /\ Cardinality(Holding) = 0
  BY <1>1, FS_EmptySet
<1> QED BY <1>2 DEF Init, CountInv, HandTypes, HandsMatch, UnfinishedCounts

\* A step that takes no message and ends none
LEMMA HandsAsBefore ==
    ASSUME CountInv, HandTypes', HandsMatch', UNCHANGED wmsg,
           unfinished' - Len(queue') = unfinished - Len(queue)
    PROVE  CountInv'
<1>1. Holding' = Holding
  BY DEF Holding
<1>2. Cardinality(Holding) \in Nat
  BY FS_CardinalityType DEF CountInv
<1> QED BY <1>1, <1>2 DEF CountInv, HandTypes, UnfinishedCounts

\* A worker that holds a message gives it up, and task_done() is called.
LEMMA HandEmptied ==
    ASSUME CountInv, HandTypes', HandsMatch', NEW w \in Workers, wmsg[w] # NoMessage,
           wmsg' = [wmsg EXCEPT ![w] = NoMessage], UNCHANGED queue, TaskDone
    PROVE  CountInv'
<1>1. w \in Holding /\ Holding' = Holding \ {w}
  BY DEF Holding, CountInv, HandTypes
<1>2. IsFiniteSet(Holding') /\ Cardinality(Holding') = Cardinality(Holding) - 1
  BY <1>1, FS_RemoveElement DEF CountInv
<1>3. Cardinality(Holding) \in Nat
  BY FS_CardinalityType DEF CountInv
<1> QED BY <1>2, <1>3 DEF CountInv, HandTypes, UnfinishedCounts, TaskDone

\* The first message of the queue goes to a worker that holds none.
LEMMA HandFilled ==
    ASSUME CountInv, NEW w \in Workers, WorkerGets(w)
    PROVE  CountInv'
<1>1. Head(queue) \in Messages /\ Tail(queue) \in Seq(Messages) /\ Len(Tail(queue)) = Len(queue) - 1
  BY DEF WorkerGets, CountInv, HandTypes
<1>2. wmsg[w] = NoMessage
  BY DEF WorkerGets, CountInv, HandsMatch
<1>3. HandTypes'
  BY <1>1 DEF WorkerGets, CountInv, HandTypes
<1>4. HandsMatch'
  BY <1>1, PipelineAssumption DEF WorkerGets, CountInv, HandTypes, HandsMatch
<1>5. w \notin Holding /\ Holding' = Holding \cup {w}
  BY <1>1, <1>2, PipelineAssumption DEF WorkerGets, Holding, CountInv, HandTypes
<1>6. IsFiniteSet(Holding') /\ Cardinality(Holding') = Cardinality(Holding) + 1
  BY <1>5, FS_AddElement DEF CountInv
<1>7. Cardinality(Holding) \in Nat
  BY FS_CardinalityType DEF CountInv
<1>8. unfinished' = unfinished /\ queue' = Tail(queue) /\ Len(queue) \in Nat
  BY DEF WorkerGets, CountInv, HandTypes
<1>9. UnfinishedCounts'
  BY <1>1, <1>6, <1>7, <1>8 DEF CountInv, UnfinishedCounts
<1> QED BY <1>3, <1>4, <1>6, <1>9 DEF CountInv

LEMMA CountStep == CountInv /\ [Next]_vars => CountInv'
<1> SUFFICES ASSUME CountInv, [Next]_vars PROVE CountInv'
  OBVIOUS
<1>0. HandTypes /\ HandsMatch
  BY DEF CountInv
<1>1. ASSUME UNCHANGED <<queueVars, wpc, wmsg>> PROVE CountInv'
  <2>1. HandTypes' /\ HandsMatch'
    BY <1>0, <1>1 DEF HandTypes, HandsMatch, queueVars
  <2> QED BY <1>1, <2>1, HandsAsBefore DEF queueVars
<1>2. CASE \/ Tick \/ ClearDedupe \/ Join \/ JoinReturns
           \/ \E c \in Callers : StopReturns(c)
           \/ UNCHANGED vars
  BY <1>1, <1>2 DEF Tick, ClearDedupe, Join, JoinReturns, StopReturns, vars, workerVars
<1>3. ASSUME NEW m \in Messages, Enqueue(m) PROVE CountInv'
  <2>1. queue' \in Seq(Messages) /\ Len(queue') = Len(queue) + 1
    BY <1>0, <1>3, InsertLonger DEF Enqueue, HandTypes
  <2>2. HandTypes' /\ HandsMatch'
    BY <1>0, <1>3, <2>1 DEF Enqueue, HandTypes, HandsMatch, workerVars
  <2> QED BY <1>0, <1>3, <2>1, <2>2, HandsAsBefore DEF Enqueue, workerVars, HandTypes
<1>4. ASSUME NEW w \in Workers, WorkerStarts(w) \/ WorkerTimesOut(w) \/ IdleCancelled(w) PROVE CountInv'
  <2>1. HandTypes' /\ HandsMatch' /\ UNCHANGED <<queueVars, wmsg>>
    BY <1>0, <1>4 DEF WorkerStarts, WorkerTimesOut, IdleCancelled, LoopTest, HandTypes, HandsMatch, queueVars
  <2> QED BY <2>1, HandsAsBefore DEF queueVars
<1>5. ASSUME NEW w \in Workers, WorkerGets(w) PROVE CountInv'
  BY <1>5, HandFilled
<1>6. ASSUME NEW w \in Workers, Dispatch(w) PROVE CountInv'
  <2>1. HandTypes' /\ HandsMatch' /\ UNCHANGED <<queueVars, wmsg>>
    BY <1>0, <1>6 DEF Dispatch, HandTypes, HandsMatch, queueVars
  <2> QED BY <2>1, HandsAsBefore DEF queueVars
<1>7. ASSUME NEW w \in Workers, Skip(w) \/ HandlerEnds(w) \/ HandlerCancelled(w) PROVE CountInv'
  <2>1. wmsg[w] # NoMessage /\ wmsg' = [wmsg EXCEPT ![w] = NoMessage] /\ UNCHANGED queue /\ TaskDone
    BY <1>0, <1>7 DEF Skip, HandlerEnds, HandlerCancelled, HandsMatch
  <2>2. unfinished' \in Nat
    <3>1. w \in Holding
      BY <2>1 DEF Holding
    <3>2. Cardinality(Holding) \in Nat /\ Cardinality(Holding) # 0
      BY <3>1, FS_CardinalityType, FS_EmptySet DEF CountInv
    <3> QED BY <1>0, <2>1, <3>2 DEF CountInv, UnfinishedCounts, HandTypes, TaskDone
  <2>3. wpc' = [wpc EXCEPT ![w] = "done"] \/ wpc' = [wpc EXCEPT ![w] = "getting"]
    BY <1>7 DEF Skip, HandlerEnds, HandlerCancelled, LoopTest
  <2>4. HandTypes' /\ HandsMatch'
    BY <1>0, <2>1, <2>2, <2>3 DEF HandTypes, HandsMatch
  <2> QED BY <2>1, <2>4, HandEmptied
<1>8. ASSUME NEW c \in Callers, StartWorkers(c) PROVE CountInv'
  <2>1. PICK W \in SUBSET Unused : wpc' = [w \in Workers |-> IF w \in W THEN "new" ELSE wpc[w]]
    BY <1>8 DEF StartWorkers
  <2>2. \A w \in W : wmsg[w] = NoMessage
    BY <1>0 DEF Unused, Live, HandsMatch
  <2>3. UNCHANGED <<queueVars, wmsg>>
    BY <1>8 DEF StartWorkers
  <2>4. HandTypes' /\ HandsMatch'
    BY <1>0, <2>1, <2>2, <2>3 DEF HandTypes, HandsMatch, queueVars
  <2> QED BY <2>3, <2>4, HandsAsBefore DEF queueVars
<1>9. ASSUME NEW c \in Callers, StopWorkers(c) PROVE CountInv'
  <2>1. HandTypes' /\ HandsMatch' /\ UNCHANGED <<queueVars, wmsg>>
    BY <1>0, <1>9 DEF StopWorkers, HandTypes, HandsMatch, queueVars
  <2> QED BY <2>1, HandsAsBefore DEF queueVars
<1> QED BY <1>2, <1>3, <1>4, <1>5, <1>6, <1>7, <1>8, <1>9 DEF Next, WorkerStep

-----------------------------------------------------------------------------
\* join() waits for exactly the messages that are queued or in the hands of a
\* worker, however many callers start and stop the workers in whatever order.
THEOREM JoinWaitsForTheRest == Spec => []UnfinishedCounts
<1>1. Spec => []CountInv
  BY CountInit, CountStep, PTL DEF Spec
<1>2. CountInv => UnfinishedCounts
  BY DEF CountInv
<1> QED BY <1>1, <1>2, PTL

-----------------------------------------------------------------------------
(* One coroutine starts and stops the workers, as the code's owners do.    *)

OneOwner == \A c, d \in Callers : c = d

\* The live workers are those of the list, and once the flag is down somebody
\* waits for each of them.
StopInv ==
    /\ wpc \in [Workers -> {"new", "getting", "got", "handling", "cancelled", "done"}]
    /\ gather \in [Callers -> SUBSET Workers] /\ workers \subseteq Workers
    /\ \A c \in Callers : gather[c] \in {{}, workers}
    /\ \A w \in Workers : Live(w) => w \in workers
    /\ ~running => \A w \in Workers : Live(w) => \E c \in Callers : w \in gather[c]

LEMMA StopInit == Init => StopInv
BY DEF Init, StopInv, Live

LEMMA StopStep ==
    ASSUME OneOwner, StopInv, [Next]_vars
    PROVE  StopInv'
<1>1. CASE \/ Tick \/ ClearDedupe \/ Join \/ JoinReturns \/ UNCHANGED vars
           \/ \E m \in Messages : Enqueue(m)
  BY <1>1 DEF StopInv, Live, Tick, ClearDedupe, Join, JoinReturns, Enqueue, vars, workerVars
<1>2. ASSUME NEW w \in Workers, WorkerStep(w) PROVE StopInv'
  <2>1. Live(w) /\ UNCHANGED <<running, workers, gather>>
    BY <1>2 DEF WorkerStep, WorkerStarts, WorkerGets, WorkerTimesOut, Skip, Dispatch, HandlerEnds,
                HandlerCancelled, IdleCancelled, Live
  <2>2. \E pc \in {"getting", "got", "handling", "done"} : wpc' = [wpc EXCEPT ![w] = pc]
    BY <1>2 DEF WorkerStep, WorkerStarts, WorkerGets, WorkerTimesOut, Skip, Dispatch, HandlerEnds,
                HandlerCancelled, IdleCancelled, LoopTest
  <2> QED BY <2>1, <2>2 DEF StopInv, Live
<1>3. ASSUME NEW c \in Callers, StartWorkers(c) PROVE StopInv'
  <2>1. \A d \in Callers : gather[d] = {}
    BY <1>3 DEF StartWorkers, OneOwner
  <2>2. \A w \in Workers : ~Live(w)
    BY <1>3, <2>1 DEF StartWorkers, StopInv
  <2> QED BY <1>3, <2>1, <2>2 DEF StartWorkers, StopInv, Live, Unused
<1>4. ASSUME NEW c \in Callers, StopWorkers(c) PROVE StopInv'
  <2>1. \A w \in Workers : Live(w)' => Live(w)
    BY <1>4 DEF StopWorkers, StopInv, Live
  <2> QED BY <1>4, <2>1 DEF StopWorkers, StopInv, Live, OneOwner
<1>5. ASSUME NEW c \in Callers, StopReturns(c) PROVE StopInv'
  <2>1. \A w \in Workers : ~Live(w)
    BY <1>5 DEF StopReturns, StopInv
  <2> QED BY <1>5, <2>1 DEF StopReturns, StopInv, Live, OneOwner
<1> QED BY <1>1, <1>2, <1>3, <1>4, <1>5 DEF Next

\* StopShutsDown, for any number of workers and with the one owner the code
\* has: when stop_workers has come back, no worker task is left, whichever of
\* them lost its cancellation to a message.
THEOREM StopLeavesNoWorker ==
    ASSUME OneOwner
    PROVE  Spec => []StopShutsDown
<1>1. StopInv /\ [Next]_vars => StopInv'
  BY StopStep
<1>2. StopInv => StopShutsDown
  BY DEF StopInv, StopShutsDown
<1> QED BY <1>1, <1>2, StopInit, PTL DEF Spec

-----------------------------------------------------------------------------
(* A message is dispatched again only for a reason: the table t of the ids *)
(* seen, with the dates d of their last dispatch and the ids o seen since. *)

IdsOf(t) == {t[i].id : i \in DOMAIN t}
After(t, i) == {m \in Identified : \E j \in i + 1 .. Len(t) : t[j].id = m}

Entry == [id : Identified, age : 0..Old]

TableTypes(t, d, o) ==
    /\ t \in Seq(Entry)
    /\ d \in [Identified -> 0..Old]
    /\ o \in [Identified -> SUBSET Identified]

\* The table is oldest first, an id is in it once, and its entry is as old as
\* its last dispatch.
InOrder(t, d) ==
    /\ \A i, j \in DOMAIN t : i < j => t[i].age >= t[j].age /\ t[i].id # t[j].id
    /\ \A i \in DOMAIN t : t[i].age = d[t[i].id]

\* The ids dispatched since an id of the table are those behind it ...
Followed(t, o) ==
    \A i \in DOMAIN t :
        o[t[i].id] = After(t, i) /\ Cardinality(After(t, i)) = Len(t) - i

\* ... and MaxSeen of them have driven out an id that should still be there.
DrivenOut(t, d, o) ==
    \A m \in Identified \ IdsOf(t) : d[m] <= TTL => Cardinality(o[m]) >= MaxSeen

GoodTable(t, d, o) ==
    TableTypes(t, d, o) /\ InOrder(t, d) /\ Followed(t, o) /\ DrivenOut(t, d, o)

LEMMA EndOfTable ==
    ASSUME NEW t \in Seq(Entry), NEW k \in 0..Len(t)
    PROVE  LET u == SubSeq(t, k + 1, Len(t))
           IN  /\ u \in Seq(Entry) /\ Len(u) = Len(t) - k /\ DOMAIN u = 1..(Len(t) - k)
               /\ \A i \in 1..(Len(t) - k) : u[i] = t[i + k]
<1> DEFINE m == k + 1
           n == Len(t)
           u == SubSeq(t, m, n)
<1>1. m \in Int /\ n \in Nat /\ k \in Nat /\ k <= n /\ m = k + 1 /\ n = Len(t)
  OBVIOUS
<1>2. \A i \in m .. n : t[i] \in Entry
  OBVIOUS
<1> HIDE DEF m, n
<1>3. /\ u \in Seq(Entry) /\ Len(u) = (IF m <= n THEN n - m + 1 ELSE 0)
      /\ \A i \in 1 .. n - m + 1 : u[i] = t[m + i - 1]
  BY <1>1, <1>2, SubSeqProperties
<1> HIDE DEF u
<1>4. Len(u) = n - k
  BY <1>1, <1>3
<1>5. \A i \in 1..(n - k) : i \in 1 .. n - m + 1 /\ m + i - 1 = i + k
  BY <1>1
<1>6. DOMAIN u = 1..(n - k) /\ \A i \in 1..(n - k) : u[i] = t[i + k]
  BY <1>1, <1>3, <1>4, <1>5
<1> QED BY <1>3, <1>4, <1>6 DEF u, m, n

\* The first entries go, all of them expired.
LEMMA OldestDropped ==
    ASSUME NEW t, NEW d, NEW o, GoodTable(t, d, o), NEW k \in 0..Len(t),
           \A i \in 1..k : t[i].age > TTL
    PROVE  GoodTable(SubSeq(t, k + 1, Len(t)), d, o)
<1> DEFINE u == SubSeq(t, k + 1, Len(t))
<1>1. TableTypes(t, d, o)
  BY DEF GoodTable
<1>2. t \in Seq(Entry) /\ Len(t) \in Nat /\ DOMAIN t = 1..Len(t)
  BY <1>1 DEF TableTypes
<1>3. /\ u \in Seq(Entry) /\ Len(u) = Len(t) - k /\ DOMAIN u = 1..(Len(t) - k)
      /\ \A i \in 1..(Len(t) - k) : u[i] = t[i + k]
  BY <1>2, EndOfTable
<1> HIDE DEF u
<1>4. InOrder(u, d)
  <2>1. \A i \in DOMAIN u : i + k \in DOMAIN t /\ u[i] = t[i + k]
    BY <1>2, <1>3
  <2>2. \A i, j \in DOMAIN u : i < j => i + k < j + k
    BY <1>3
  <2> QED BY <2>1, <2>2 DEF GoodTable, InOrder
<1>5. \A i \in DOMAIN u : After(u, i) = After(t, i + k)
  <2> SUFFICES ASSUME NEW i \in DOMAIN u PROVE After(u, i) = After(t, i + k)
    OBVIOUS
  <2>1. \A j \in i + 1 .. Len(u) : j + k \in i + k + 1 .. Len(t) /\ u[j] = t[j + k]
    BY <1>2, <1>3
  <2>2. \A j \in i + k + 1 .. Len(t) : j - k \in i + 1 .. Len(u) /\ u[j - k] = t[j]
    BY <1>2, <1>3
  <2> QED BY <2>1, <2>2 DEF After
<1>6. Followed(u, o)
  BY <1>2, <1>3, <1>5 DEF GoodTable, Followed
<1>7. DrivenOut(u, d, o)
  <2> SUFFICES ASSUME NEW m \in Identified \ IdsOf(u), d[m] <= TTL PROVE Cardinality(o[m]) >= MaxSeen
    BY DEF DrivenOut
  <2>1. \A i \in DOMAIN t : t[i].id # m
    <3> SUFFICES ASSUME NEW i \in DOMAIN t, t[i].id = m PROVE FALSE
      OBVIOUS
    <3>1. t[i].age = d[m] /\ d[m] \in 0..Old
      BY <1>1 DEF GoodTable, InOrder, TableTypes
    <3>2. CASE i <= k
      <4>1. t[i].age > TTL
        BY <1>2, <3>2
      <4> QED BY <3>1, <4>1, PipelineAssumption DEF Old
    <3>3. CASE i > k
      <4>1. i - k \in DOMAIN u /\ u[i - k] = t[i]
        BY <1>2, <1>3, <3>3
      <4> QED BY <4>1 DEF IdsOf
    <3> QED BY <1>2, <3>2, <3>3
  <2>2. m \in Identified \ IdsOf(t)
    BY <2>1 DEF IdsOf
  <2> QED BY <2>2 DEF GoodTable, DrivenOut
<1> QED BY <1>1, <1>3, <1>4, <1>6, <1>7 DEF GoodTable, TableTypes, u
\* Those _evict_expired drops are the first ones.
LEMMA FreshIsEnd ==
    ASSUME NEW t, NEW d, NEW o, GoodTable(t, d, o)
    PROVE  GoodTable(Fresh(t), d, o) /\ \A i \in DOMAIN Fresh(t) : Fresh(t)[i].age <= TTL
<1> DEFINE expired == {i \in DOMAIN t : t[i].age > TTL}
           k == Cardinality(expired)
<1>1. t \in Seq(Entry) /\ Len(t) \in Nat /\ DOMAIN t = 1..Len(t) /\ InOrder(t, d)
  BY DEF GoodTable, TableTypes
<1>2. \A i \in DOMAIN t : t[i].age \in Int
  <2>1. \A i \in DOMAIN t : t[i] \in Entry
    BY <1>1
  <2>2. \A e \in Entry : e.age \in 0..Old
    BY DEF Entry
  <2> QED BY <2>1, <2>2, PipelineAssumption DEF Old
<1>3. ASSUME NEW n \in 0..Len(t) PROVE IsFiniteSet(1..n) /\ Cardinality(1..n) = n
  BY <1>1, <1>3, FS_Interval
<1>4. expired \subseteq 1..Len(t)
  BY <1>1
<1>5. IsFiniteSet(expired) /\ k \in 0..Len(t)
  <2>1. IsFiniteSet(1..Len(t)) /\ Cardinality(1..Len(t)) = Len(t)
    BY <1>1, <1>3
  <2> QED BY <1>4, <2>1, FS_Subset, FS_CardinalityType
<1>6. ASSUME NEW i \in expired PROVE i <= k
  <2>1. \A j \in 1..i : j \in expired
    BY <1>1, <1>2, PipelineAssumption DEF InOrder, Old
  <2>2. 1..i \in SUBSET expired
    BY <2>1
  <2>3. Cardinality(1..i) <= k
    BY <1>5, <2>2, FS_Subset
  <2>4. i \in 0..Len(t)
    BY <1>1
  <2> QED BY <1>3, <2>3, <2>4
<1>7. expired = 1..k
  <2>1. expired \subseteq 1..k
    BY <1>4, <1>5, <1>6
  <2>2. IsFiniteSet(1..k) /\ Cardinality(1..k) = k
    BY <1>3, <1>5
  <2> QED BY <2>1, <2>2, FS_Subset
<1>8. Fresh(t) = SubSeq(t, k + 1, Len(t))
  BY DEF Fresh
<1>9. \A i \in 1..k : t[i].age > TTL
  BY <1>7
<1>10. \A i \in DOMAIN t : i > k => t[i].age <= TTL
  <2> SUFFICES ASSUME NEW i \in DOMAIN t, i > k PROVE t[i].age <= TTL
    OBVIOUS
  <2> HIDE DEF k, expired
  <2>1. i \notin expired
    BY <1>1, <1>5, <1>6
  <2>2. ~(t[i].age > TTL)
    BY <2>1 DEF expired
  <2> QED BY <1>2, <2>2, PipelineAssumption
<1> HIDE DEF k, expired
<1>11. GoodTable(SubSeq(t, k + 1, Len(t)), d, o)
  BY <1>5, <1>9, OldestDropped
<1>12. \A i \in DOMAIN SubSeq(t, k + 1, Len(t)) : SubSeq(t, k + 1, Len(t))[i].age <= TTL
  BY <1>1, <1>5, <1>10, EndOfTable
<1> QED BY <1>8, <1>11, <1>12
\* An id that is not in the table is remembered; a full table loses its oldest.
LEMMA IdRemembered ==
    ASSUME NEW t, NEW d, NEW o, GoodTable(t, d, o), NEW n \in Identified, n \notin IdsOf(t)
    PROVE  GoodTable(Append(IF Len(t) >= MaxSeen THEN Tail(t) ELSE t, [id |-> n, age |-> 0]),
                     [m \in Identified |-> IF m = n THEN 0 ELSE d[m]],
                     [m \in Identified |-> IF m = n THEN {} ELSE o[m] \cup {n}])
<1> DEFINE room == IF Len(t) >= MaxSeen THEN Tail(t) ELSE t
           e == [id |-> n, age |-> 0]
           u == Append(room, e)
           k == IF Len(t) >= MaxSeen THEN 1 ELSE 0
           last == Len(t) - k + 1
           d2 == [m \in Identified |-> IF m = n THEN 0 ELSE d[m]]
           o2 == [m \in Identified |-> IF m = n THEN {} ELSE o[m] \cup {n}]
<1>1. TableTypes(t, d, o) /\ InOrder(t, d) /\ Followed(t, o) /\ DrivenOut(t, d, o)
  BY DEF GoodTable
<1>2. /\ t \in Seq(Entry) /\ Len(t) \in Nat /\ DOMAIN t = 1..Len(t)
      /\ d \in [Identified -> 0..Old] /\ o \in [Identified -> SUBSET Identified]
  BY <1>1 DEF TableTypes
<1>3. /\ MaxSeen \in Nat /\ MaxSeen > 0 /\ TTL \in Nat /\ Old \in Nat
      /\ IsFiniteSet(Identified)
  <2>1. Identified \in SUBSET Messages
    BY DEF Identified
  <2> QED BY <2>1, PipelineAssumption, FS_Subset DEF Old
<1>4. /\ room \in Seq(Entry) /\ Len(room) = last - 1
      /\ \A i \in 1 .. last - 1 : room[i] = t[i + k]
  <2>1. CASE Len(t) >= MaxSeen
    <3>1. t # << >>
      BY <1>2, <1>3, <2>1
    <3>2. /\ Tail(t) \in Seq(Entry) /\ Len(Tail(t)) = Len(t) - 1
          /\ \A i \in 1 .. Len(Tail(t)) : Tail(t)[i] = t[i + 1]
      BY <1>2, <3>1, HeadTailProperties
    <3> QED BY <1>2, <2>1, <3>2
  <2>2. CASE ~(Len(t) >= MaxSeen)
    BY <1>2, <2>2
  <2> QED BY <2>1, <2>2
<1>5. /\ k \in {0, 1} /\ last \in Nat /\ last >= 1 /\ last = Len(t) - k + 1
      /\ (k = 1 <=> Len(t) >= MaxSeen)
  BY <1>2, <1>3
<1>6. e \in Entry /\ e.id = n /\ e.age = 0
  BY <1>3 DEF Entry
<1> HIDE DEF room, e
<1>7. /\ u \in Seq(Entry) /\ Len(u) = last /\ DOMAIN u = 1..last
      /\ \A i \in 1 .. last - 1 : u[i] = t[i + k]
      /\ u[last] = e
  BY <1>4, <1>5, <1>6, AppendProperties
<1>8. \A i \in DOMAIN t : t[i] \in Entry /\ t[i].id \in Identified /\ t[i].age \in 0..Old /\ t[i].id # n
  <2>1. \A x \in Entry : x.id \in Identified /\ x.age \in 0..Old
    BY DEF Entry
  <2>2. \A i \in DOMAIN t : t[i] \in Entry
    BY <1>2
  <2> QED BY <2>1, <2>2 DEF IdsOf
<1>9. \A i \in 1 .. last - 1 : i + k \in DOMAIN t /\ i + k \in Int
  BY <1>2, <1>5
<1>10. /\ d2 \in [Identified -> 0..Old] /\ o2 \in [Identified -> SUBSET Identified]
       /\ d2[n] = 0 /\ o2[n] = {}
       /\ \A m \in Identified : m # n => d2[m] = d[m] /\ o2[m] = o[m] \cup {n}
  BY <1>2, <1>3
<1> HIDE DEF u, k, last, d2, o2
<1>11. TableTypes(u, d2, o2)
  BY <1>7, <1>10 DEF TableTypes
<1>12. InOrder(u, d2)
  <2>1. ASSUME NEW i \in DOMAIN u PROVE u[i].age = d2[u[i].id]
    <3>1. CASE i = last
      BY <1>6, <1>7, <1>10, <3>1
    <3>2. CASE i \in 1 .. last - 1
      BY <1>1, <1>7, <1>8, <1>9, <1>10, <3>2 DEF InOrder
    <3> QED BY <1>5, <1>7, <3>1, <3>2
  <2>2. ASSUME NEW i \in DOMAIN u, NEW j \in DOMAIN u, i < j
        PROVE  u[i].age >= u[j].age /\ u[i].id # u[j].id
    <3>1. i \in 1 .. last - 1 /\ u[i] = t[i + k]
      BY <1>5, <1>7, <2>2
    <3>2. CASE j = last
      <4>1. u[i].age \in 0..Old /\ u[i].id # n
        BY <1>8, <1>9, <3>1
      <4> QED BY <1>3, <1>6, <1>7, <3>2, <4>1
    <3>3. CASE j \in 1 .. last - 1
      <4>1. u[j] = t[j + k] /\ i + k < j + k
        BY <1>5, <1>7, <2>2, <3>1, <3>3
      <4> QED BY <1>1, <1>9, <3>1, <3>3, <4>1 DEF InOrder
    <3> QED BY <1>5, <1>7, <3>2, <3>3
  <2> QED BY <2>1, <2>2 DEF InOrder
<1>13. ASSUME NEW i \in 1 .. last - 1 PROVE After(u, i) = After(t, i + k) \cup {n}
  <2>1. ASSUME NEW m \in After(u, i) PROVE m \in After(t, i + k) \cup {n}
    <3>1. PICK j \in i + 1 .. Len(u) : u[j].id = m
      BY <2>1 DEF After
    <3>2. CASE j = last
      BY <1>6, <1>7, <3>1, <3>2
    <3>3. CASE j # last
      <4>1. j \in 1 .. last - 1 /\ j + k \in i + k + 1 .. Len(t)
        BY <1>2, <1>5, <1>7, <3>3
      <4> QED BY <1>7, <1>8, <1>9, <3>1, <4>1 DEF After
    <3> QED BY <3>2, <3>3
  <2>2. ASSUME NEW m \in After(t, i + k) PROVE m \in After(u, i)
    <3>1. PICK j \in i + k + 1 .. Len(t) : t[j].id = m
      BY <2>2 DEF After
    <3>2. j - k \in 1 .. last - 1 /\ j - k \in i + 1 .. Len(u) /\ (j - k) + k = j
      BY <1>2, <1>5, <1>7
    <3>3. u[j - k] = t[j] /\ m \in Identified
      BY <1>7, <2>2, <3>2 DEF After
    <3> QED BY <3>1, <3>2, <3>3 DEF After
  <2>3. n \in After(u, i)
    <3>1. last \in i + 1 .. Len(u)
      BY <1>5, <1>7
    <3> QED BY <1>6, <1>7, <3>1 DEF After
  <2> QED BY <2>1, <2>2, <2>3
<1>14. ASSUME NEW i \in DOMAIN t
       PROVE  /\ IsFiniteSet(After(t, i)) /\ n \notin After(t, i)
              /\ Cardinality(After(t, i) \cup {n}) = Len(t) - i + 1
  <2>1. After(t, i) \in SUBSET Identified
    BY DEF After
  <2>2. IsFiniteSet(After(t, i))
    BY <1>3, <2>1, FS_Subset
  <2>3. n \notin After(t, i)
    BY <1>2, <1>8 DEF After
  <2>4. Cardinality(After(t, i)) = Len(t) - i
    BY <1>1 DEF Followed
  <2> QED BY <2>2, <2>3, <2>4, FS_AddElement
<1>15. Followed(u, o2)
  <2> SUFFICES ASSUME NEW i \in DOMAIN u
               PROVE  o2[u[i].id] = After(u, i) /\ Cardinality(After(u, i)) = Len(u) - i
    BY DEF Followed
  <2>1. CASE i = last
    <3>1. After(u, i) = {}
      BY <1>5, <1>7, <2>1 DEF After
    <3>2. Cardinality({}) = 0
      BY FS_EmptySet
    <3>3. u[i].id = n /\ o2[n] = {}
      BY <1>6, <1>7, <1>10, <2>1
    <3>4. Len(u) - i = 0
      BY <1>5, <1>7, <2>1
    <3>5. Cardinality(After(u, i)) = 0
      BY <3>1, <3>2
    <3>6. o2[u[i].id] = After(u, i)
      BY <3>1, <3>3
    <3> QED BY <3>4, <3>5, <3>6
  <2>2. CASE i \in 1 .. last - 1
    <3>5. i + k \in DOMAIN t /\ u[i] = t[i + k]
      BY <1>7, <1>9, <2>2
    <3>6. Len(t) - (i + k) + 1 = Len(u) - i
      BY <1>2, <1>5, <1>7, <2>2
    <3>1. i + k \in DOMAIN t /\ u[i] = t[i + k] /\ Len(t) - (i + k) + 1 = Len(u) - i
      BY <3>5, <3>6
    <3>2. o2[u[i].id] = o[t[i + k].id] \cup {n}
      BY <1>8, <1>10, <3>1
    <3>3. o[t[i + k].id] = After(t, i + k)
      BY <1>1, <3>1 DEF Followed
    <3>4. Cardinality(After(t, i + k) \cup {n}) = Len(u) - i
      BY <1>14, <3>1
    <3> QED BY <1>13, <2>2, <3>2, <3>3, <3>4
  <2> QED BY <1>5, <1>7, <2>1, <2>2
<1>16. DrivenOut(u, d2, o2)
  <2> SUFFICES ASSUME NEW m \in Identified \ IdsOf(u), d2[m] <= TTL
               PROVE  Cardinality(o2[m]) >= MaxSeen
    BY DEF DrivenOut
  <2>1. m # n
    <3>1. n \in IdsOf(u)
      BY <1>5, <1>6, <1>7 DEF IdsOf
    <3> QED BY <3>1
  <2>2. d2[m] = d[m] /\ o2[m] = o[m] \cup {n}
    BY <1>10, <2>1
  <2>3. CASE m \in IdsOf(t)
    <3>1. PICK i \in DOMAIN t : t[i].id = m
      BY <2>3 DEF IdsOf
    <3>2. ~(i - k \in 1 .. last - 1)
      <4>1. ASSUME i - k \in 1 .. last - 1 PROVE FALSE
        <5>1. u[i - k] = t[i] /\ i - k \in DOMAIN u
          BY <1>2, <1>5, <1>7, <4>1
        <5> QED BY <3>1, <5>1 DEF IdsOf
      <4> QED BY <4>1
    <3>3. i = 1 /\ Len(t) >= MaxSeen
      BY <1>2, <1>5, <3>2
    <3>4. o[m] = After(t, i)
      BY <1>1, <3>1 DEF Followed
    <3>5. Cardinality(After(t, i) \cup {n}) = Len(t) - i + 1
      BY <1>14, <3>1
    <3>6. Cardinality(o2[m]) = Len(t)
      BY <1>2, <2>2, <3>3, <3>4, <3>5
    <3> QED BY <1>2, <1>3, <3>3, <3>6
  <2>4. CASE m \notin IdsOf(t)
    <3>1. Cardinality(o[m]) >= MaxSeen
      BY <1>1, <2>2, <2>4 DEF DrivenOut
    <3>2. o[m] \cup {n} \in SUBSET Identified /\ o[m] \in SUBSET (o[m] \cup {n})
      BY <1>2
    <3>3. IsFiniteSet(o[m] \cup {n})
      BY <1>3, <3>2, FS_Subset
    <3>4. Cardinality(o[m]) <= Cardinality(o[m] \cup {n})
      BY <3>2, <3>3, FS_Subset
    <3>5. Cardinality(o[m]) \in Nat /\ Cardinality(o[m] \cup {n}) \in Nat
      BY <3>2, <3>3, FS_Subset, FS_CardinalityType
    <3> QED BY <1>3, <2>2, <3>1, <3>4, <3>5
  <2> QED BY <2>3, <2>4
<1>17. GoodTable(u, d2, o2)
  BY <1>11, <1>12, <1>15, <1>16 DEF GoodTable
<1> QED BY <1>17 DEF u, room, e, d2, o2

\* Time passes: everything ages alike.
LEMMA TableAged ==
    ASSUME NEW t, NEW d, NEW o, GoodTable(t, d, o)
    PROVE  GoodTable([i \in DOMAIN t |-> [t[i] EXCEPT !.age = Older(@)]],
                     [m \in Identified |-> Older(d[m])], o)
<1> DEFINE u == [i \in DOMAIN t |-> [t[i] EXCEPT !.age = Older(@)]]
           d2 == [m \in Identified |-> Older(d[m])]
<1>1. TableTypes(t, d, o) /\ InOrder(t, d) /\ Followed(t, o) /\ DrivenOut(t, d, o)
  BY DEF GoodTable
<1>2. /\ t \in Seq(Entry) /\ Len(t) \in Nat /\ DOMAIN t = 1..Len(t)
      /\ d \in [Identified -> 0..Old] /\ o \in [Identified -> SUBSET Identified]
  BY <1>1 DEF TableTypes
<1>3. TTL \in Nat /\ Old = TTL + 1
  BY PipelineAssumption DEF Old
<1>4. /\ \A a \in 0..Old : Older(a) \in 0..Old /\ (Older(a) <= TTL => a <= TTL)
      /\ \A a, b \in 0..Old : a >= b => Older(a) >= Older(b)
  BY <1>3 DEF Older
<1>5. ASSUME NEW e \in Entry
      PROVE  /\ e.id \in Identified /\ e.age \in 0..Old
             /\ [e EXCEPT !.age = Older(@)] \in Entry
             /\ [e EXCEPT !.age = Older(@)].id = e.id /\ [e EXCEPT !.age = Older(@)].age = Older(e.age)
  BY <1>4 DEF Entry
<1>6. \A i \in DOMAIN t : /\ t[i] \in Entry /\ t[i].id \in Identified /\ t[i].age \in 0..Old
                           /\ u[i] \in Entry /\ u[i].id = t[i].id /\ u[i].age = Older(t[i].age)
  <2>1. \A i \in DOMAIN t : t[i] \in Entry
    BY <1>2
  <2> QED BY <1>5, <2>1
<1>7. DOMAIN u = DOMAIN t
  OBVIOUS
<1>8. d2 \in [Identified -> 0..Old] /\ \A m \in Identified : d2[m] = Older(d[m])
  BY <1>2, <1>4
<1>9. u \in Seq(Entry) /\ Len(u) = Len(t)
  <2>1. u \in [1..Len(t) -> Entry]
    BY <1>2, <1>6
  <2> QED BY <1>2, <2>1
<1> HIDE DEF u, d2
<1>10. TableTypes(u, d2, o)
  BY <1>2, <1>8, <1>9 DEF TableTypes
<1>11. InOrder(u, d2)
  BY <1>1, <1>4, <1>6, <1>7, <1>8 DEF InOrder
<1>12. \A i \in DOMAIN t : After(u, i) = After(t, i)
  <2> SUFFICES ASSUME NEW i \in DOMAIN t PROVE After(u, i) = After(t, i)
    OBVIOUS
  <2>1. \A j \in i + 1 .. Len(t) : u[j].id = t[j].id
    BY <1>2, <1>6
  <2> QED BY <1>9, <2>1 DEF After
<1>13. Followed(u, o)
  BY <1>1, <1>6, <1>7, <1>9, <1>12 DEF Followed
<1>14. IdsOf(u) = IdsOf(t)
  BY <1>6, <1>7 DEF IdsOf
<1>15. DrivenOut(u, d2, o)
  BY <1>1, <1>2, <1>4, <1>8, <1>14 DEF DrivenOut
<1> QED BY <1>10, <1>11, <1>13, <1>15 DEF GoodTable, u, d2
RepeatInv == GoodTable(seen, since, others)

LEMMA RepeatInit == Init => RepeatInv
<1> SUFFICES ASSUME Init PROVE RepeatInv
  OBVIOUS
<1>1. /\ seen = << >> /\ since = [m \in Identified |-> Old] /\ others = [m \in Identified |-> {}]
      /\ Old = TTL + 1 /\ TTL \in Nat
  BY PipelineAssumption DEF Init, Old
<1>2. Old \in 0..Old
  BY <1>1
<1>3. TableTypes(seen, since, others)
  BY <1>1, <1>2 DEF TableTypes
<1>4. InOrder(seen, since) /\ Followed(seen, others)
  BY <1>1 DEF InOrder, Followed
<1>5. DrivenOut(seen, since, others)
  BY <1>1 DEF DrivenOut
<1> QED BY <1>3, <1>4, <1>5 DEF RepeatInv, GoodTable

\* The id a worker is about to be asked about, and what the answer means
LEMMA NoDuplicate ==
    ASSUME RepeatInv, NEW m \in Identified, ~IsDuplicate(m)
    PROVE  m \notin IdsOf(Fresh(seen)) /\ DispatchAgainOnlyIf(m)
<1>1. m \notin IdsOf(Fresh(seen))
  BY DEF IsDuplicate, IdsOf
<1>2. DrivenOut(Fresh(seen), since, others) /\ since \in [Identified -> 0..Old]
  BY FreshIsEnd DEF RepeatInv, GoodTable, TableTypes
<1>3. since[m] \in 0..Old /\ TTL \in Nat
  BY <1>2, PipelineAssumption
<1>4. since[m] <= TTL => Cardinality(others[m]) >= MaxSeen
  BY <1>1, <1>2 DEF DrivenOut
<1> QED BY <1>1, <1>3, <1>4 DEF DispatchAgainOnlyIf

LEMMA DispatchRemembers ==
    ASSUME RepeatInv, CountInv, NEW w \in Workers, Dispatch(w)
    PROVE  RepeatInv'
<1>1. wmsg[w] \in Messages
  BY PipelineAssumption DEF CountInv, HandTypes, HandsMatch, Dispatch
<1>2. since \in [Identified -> 0..Old] /\ others \in [Identified -> SUBSET Identified]
  BY DEF RepeatInv, GoodTable, TableTypes
<1>3. CASE wmsg[w] \in Unidentified
  <2>1. \A n \in Identified : n # wmsg[w]
    BY <1>3 DEF Identified
  <2>2. {wmsg[w]} \cap Identified = {}
    BY <1>3 DEF Identified
  <2>3. seen' = seen
    BY <1>3 DEF Dispatch, Remember
  <2>4. since' = [n \in Identified |-> since[n]] /\ others' = [n \in Identified |-> others[n] \cup {}]
    BY <2>1, <2>2 DEF Dispatch
  <2>5. since' = since /\ others' = others
    BY <1>2, <2>4
  <2> QED BY <2>3, <2>5 DEF RepeatInv
<1>4. CASE wmsg[w] \notin Unidentified
  <2> DEFINE n == wmsg[w]
             t == Fresh(seen)
  <2>1. n \in Identified /\ {n} \cap Identified = {n}
    BY <1>1, <1>4 DEF Identified
  <2>2. n \notin IdsOf(t) /\ GoodTable(t, since, others)
    BY <2>1, NoDuplicate, FreshIsEnd DEF Dispatch, RepeatInv
  <2>3. /\ seen' = Append(IF Len(t) >= MaxSeen THEN Tail(t) ELSE t, [id |-> n, age |-> 0])
        /\ since' = [m \in Identified |-> IF m = n THEN 0 ELSE since[m]]
        /\ others' = [m \in Identified |-> IF m = n THEN {} ELSE others[m] \cup {n}]
    BY <1>4, <2>1 DEF Dispatch, Remember
  <2> HIDE DEF n, t
  <2>4. GoodTable(seen', since', others')
    BY <2>1, <2>2, <2>3, IdRemembered
  <2> QED BY <2>4 DEF RepeatInv
<1> QED BY <1>3, <1>4

LEMMA RepeatStep ==
    ASSUME RepeatInv, CountInv, [Next]_vars
    PROVE  RepeatInv'
<1>1. ASSUME UNCHANGED <<seen, since, others>> PROVE RepeatInv'
  BY <1>1 DEF RepeatInv
<1>2. CASE \/ Join \/ JoinReturns \/ UNCHANGED vars
           \/ \E m \in Messages : Enqueue(m)
           \/ \E c \in Callers : StartWorkers(c) \/ StopWorkers(c) \/ StopReturns(c)
  BY <1>1, <1>2 DEF Join, JoinReturns, Enqueue, StartWorkers, StopWorkers, StopReturns, vars, historyVars
<1>3. CASE Tick
  BY <1>3, TableAged DEF Tick, RepeatInv
<1>4. CASE ClearDedupe
  <2>1. /\ seen' = << >> /\ since' = [m \in Identified |-> Old] /\ others' = others
        /\ Old = TTL + 1 /\ TTL \in Nat
    BY <1>4, PipelineAssumption DEF ClearDedupe, Old
  <2>2. Old \in 0..Old /\ others \in [Identified -> SUBSET Identified]
    BY <2>1 DEF RepeatInv, GoodTable, TableTypes
  <2>3. TableTypes(seen', since', others')
    BY <2>1, <2>2 DEF TableTypes
  <2>4. InOrder(seen', since') /\ Followed(seen', others') /\ DrivenOut(seen', since', others')
    BY <2>1 DEF InOrder, Followed, DrivenOut
  <2> QED BY <2>3, <2>4 DEF RepeatInv, GoodTable
<1>5. ASSUME NEW w \in Workers, Skip(w) PROVE RepeatInv'
  BY <1>5, FreshIsEnd DEF Skip, RepeatInv, historyVars
<1>6. ASSUME NEW w \in Workers, Dispatch(w) PROVE RepeatInv'
  BY <1>6, DispatchRemembers
<1>7. ASSUME NEW w \in Workers, WorkerStep(w), ~Skip(w), ~Dispatch(w) PROVE RepeatInv'
  BY <1>1, <1>7 DEF WorkerStep, WorkerStarts, WorkerGets, WorkerTimesOut, HandlerEnds, HandlerCancelled,
                    IdleCancelled, historyVars
<1> QED BY <1>2, <1>3, <1>4, <1>5, <1>6, <1>7 DEF Next

\* RepeatNeedsReason, for any number of workers and callers, any limit and any
\* window: is_duplicate lets an id through again only behind its window, behind
\* clear() or behind as many other ids as the table holds.
THEOREM OnlyForAReason == Spec => RepeatNeedsReason
<1>1. RepeatInv /\ CountInv /\ [Next]_vars => RepeatInv'
  BY RepeatStep
<1>2. ASSUME RepeatInv, CountInv, [Next]_vars, NEW w \in Workers, NEW m \in Identified,
             wpc[w] = "got", wpc'[w] = "handling", wmsg[w] = m
      PROVE  DispatchAgainOnlyIf(m)
  <2>1. CASE \E v \in Workers : Dispatch(v)
    <3>1. PICK v \in Workers : Dispatch(v)
      BY <2>1
    <3>2. v = w
      BY <1>2, <3>1 DEF Dispatch, CountInv, HandTypes
    <3> QED BY <1>2, <3>1, <3>2, NoDuplicate DEF Dispatch
  <2>2. CASE ~ \E v \in Workers : Dispatch(v)
    <3>1. wpc'[w] # "handling"
      BY <1>2, <2>2 DEF Next, WorkerStep, Tick, ClearDedupe, Join, JoinReturns, Enqueue, StartWorkers,
           StopWorkers, StopReturns, WorkerStarts, WorkerGets, WorkerTimesOut, Skip, HandlerEnds,
           HandlerCancelled, IdleCancelled, LoopTest, vars, workerVars, CountInv, HandTypes
    <3> QED BY <1>2, <3>1
  <2> QED BY <2>1, <2>2
<1>3. RepeatInv /\ CountInv /\ [Next]_vars
        => [\A w \in Workers : \A m \in Identified :
              (wpc[w] = "got" /\ wpc'[w] = "handling" /\ wmsg[w] = m) => DispatchAgainOnlyIf(m)]_vars
  BY <1>2
<1> QED BY <1>1, <1>3, RepeatInit, CountInit, CountStep, PTL DEF Spec, RepeatNeedsReason
=============================================================================
