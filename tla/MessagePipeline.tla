-------------------------- MODULE MessagePipeline --------------------------
(***************************************************************************)
(* MessagePipeline (app/runtime/message_pipeline.py) and the               *)
(* MessageDeduplicator it asks (app/runtime/dedupe.py): a bounded priority *)
(* queue, worker tasks that are started and stopped, and a table of the ids*)
(* seen within a time window.  Coroutines of one event loop: a step runs   *)
(* from one suspension to the next.  enqueue() never suspends.             *)
(***************************************************************************)
EXTENDS Integers, Sequences, FiniteSets, SequencesExt

CONSTANTS
    Messages,       \* the messages that arrive, any number of times each
    Unidentified,   \* those of them without a message id
    PriorityOf,     \* _get_queue_priority of a message, a natural number
    MaxQueue,       \* max_queue_size
    MaxSeen,        \* DEFAULT_MAX_SIZE of the deduplicator
    TTL,            \* its time window, in ticks
    Workers,        \* task objects of _worker_loop
    WorkerCount,    \* worker_count
    Callers,        \* coroutines that start and stop the workers
    NoMessage

ASSUME PipelineAssumption ==
    /\ IsFiniteSet(Messages)
    /\ Unidentified \subseteq Messages
    /\ PriorityOf \in [Messages -> Nat]
    /\ MaxQueue \in Nat \ {0} /\ MaxSeen \in Nat \ {0} /\ TTL \in Nat
    /\ WorkerCount \in 1..Cardinality(Workers)
    /\ NoMessage \notin Messages

VARIABLES
    queue,      \* the queued messages in the order they will be taken
    unfinished, \* put but not yet task_done, what join() waits for
    seen,       \* the deduplicator's table, oldest first: [id, age]
    running,    \* self._running
    workers,    \* self._workers
    wpc,        \* where each worker task is
    wmsg,       \* the message it has taken
    gather,     \* the tasks each caller waits for in stop_workers, or none
    joining,    \* a caller waits in join()
    since,      \* history: ticks since an identified message was dispatched
    others      \* history: the ids marked as seen since then

queueVars == <<queue, unfinished>>
workerVars == <<running, workers, wpc, wmsg>>
historyVars == <<since, others>>
vars == <<queueVars, seen, workerVars, gather, joining, historyVars>>

\* Ages are capped one tick past the window: nothing tells older ones apart.
Old == TTL + 1
Older(age) == IF age = Old THEN Old ELSE age + 1

Live(w) == wpc[w] # "done"

Identified == Messages \ Unidentified

\* _evict_expired: the table is oldest first, so the expired entries are the
\* first ones.
Fresh(table) ==
    LET expired == Cardinality({i \in DOMAIN table : table[i].age > TTL})
    IN  SubSeq(table, expired + 1, Len(table))

-----------------------------------------------------------------------------
(* Wrong variants of the definitions below: each breaks a property.        *)

\* The newest id makes room.
RememberDroppingNewest(m) ==
    LET table == Fresh(seen)
        room == IF Len(table) >= MaxSeen THEN Front(table) ELSE table
    IN  IF m \in Unidentified THEN seen
        ELSE Append(room, [id |-> m, age |-> 0])

\* task_done() only behind a handler that returned or raised an Exception.
HandlerCancelledNotDone(w) ==
    /\ wpc[w] = "cancelled" /\ wmsg[w] # NoMessage
    /\ wpc' = [wpc EXCEPT ![w] = "done"]
    /\ wmsg' = [wmsg EXCEPT ![w] = NoMessage]
    /\ UNCHANGED <<queueVars, seen, running, workers, gather, joining, historyVars>>

\* A duplicate leaves before the try statement.
SkipNotDone(w) ==
    /\ wpc[w] = "got"
    /\ \E i \in DOMAIN seen : seen[i].id = wmsg[w] /\ seen[i].age <= TTL
    /\ wpc' = [wpc EXCEPT ![w] = IF running THEN "getting" ELSE "done"]
    /\ wmsg' = [wmsg EXCEPT ![w] = NoMessage]
    /\ UNCHANGED <<queueVars, seen, running, workers, gather, joining, historyVars>>

\* The workers are cancelled and not waited for.
StopWorkersNoWait(c) ==
    /\ gather[c] = {}
    /\ running' = FALSE
    /\ workers' = {}
    /\ wpc' = [w \in Workers |->
                 IF w \in workers /\ wpc[w] \in {"new", "getting", "handling"}
                 THEN "cancelled" ELSE wpc[w]]
    /\ UNCHANGED <<queueVars, seen, wmsg, gather, joining, historyVars>>

\* The workers are cancelled, the flag their loop tests stays up.
StopWorkersFlagUp(c) ==
    /\ gather[c] = {}
    /\ wpc' = [w \in Workers |->
                 IF w \in workers /\ wpc[w] \in {"new", "getting", "handling"}
                 THEN "cancelled" ELSE wpc[w]]
    /\ gather' = [gather EXCEPT ![c] = workers]
    /\ UNCHANGED <<queueVars, seen, running, workers, wmsg, joining, historyVars>>

-----------------------------------------------------------------------------
Init ==
    /\ queue = <<>> /\ unfinished = 0
    /\ seen = <<>>
    /\ running = FALSE /\ workers = {}
    /\ wpc = [w \in Workers |-> "done"]
    /\ wmsg = [w \in Workers |-> NoMessage]
    /\ gather = [c \in Callers |-> {}]
    /\ joining = FALSE
    /\ since = [m \in Identified |-> Old]
    /\ others = [m \in Identified |-> {}]

\* Time passes.
Tick ==
    /\ seen' = [i \in DOMAIN seen |-> [seen[i] EXCEPT !.age = Older(@)]]
    /\ since' = [m \in Identified |-> Older(since[m])]
    /\ UNCHANGED <<queueVars, workerVars, gather, joining, others>>

-----------------------------------------------------------------------------
(* The queue: (priority, counter) order, that is, FIFO within a priority.  *)

Insert(q, m) ==
    LET ahead == Cardinality({i \in DOMAIN q : PriorityOf[q[i]] <= PriorityOf[m]})
    IN  SubSeq(q, 1, ahead) \o <<m>> \o SubSeq(q, ahead + 1, Len(q))

\* enqueue(): a full queue drops the message.
Enqueue(m) ==
    /\ Len(queue) < MaxQueue
    /\ queue' = Insert(queue, m)
    /\ unfinished' = unfinished + 1
    /\ UNCHANGED <<seen, workerVars, gather, joining, historyVars>>

TaskDone == unfinished' = unfinished - 1

-----------------------------------------------------------------------------
(* The deduplicator.                                                       *)

IsDuplicate(m) ==
    m \in Identified /\ \E i \in DOMAIN Fresh(seen) : Fresh(seen)[i].id = m

\* is_duplicate() for an id it has not seen: make room, then remember the id.
Remember(m) ==
    LET table == Fresh(seen)
        room == IF Len(table) >= MaxSeen THEN Tail(table) ELSE table
    IN  IF m \in Unidentified THEN seen
        ELSE Append(room, [id |-> m, age |-> 0])

ClearDedupe ==
    /\ seen' = <<>>
    /\ since' = [m \in Identified |-> Old]
    /\ UNCHANGED <<queueVars, workerVars, gather, joining, others>>

-----------------------------------------------------------------------------
(* The workers, _worker_loop().                                            *)

\* The while test after a step of worker w.
LoopTest(w) == [wpc EXCEPT ![w] = IF running THEN "getting" ELSE "done"]

WorkerStarts(w) ==
    /\ wpc[w] = "new"
    /\ wpc' = LoopTest(w)
    /\ UNCHANGED <<queueVars, seen, running, workers, wmsg, gather, joining, historyVars>>

\* The inner task of wait_for takes the first message; the worker resumes later,
\* and is not cancelled any more before it has.
WorkerGets(w) ==
    /\ wpc[w] = "getting" /\ queue # <<>>
    /\ queue' = Tail(queue)
    /\ wmsg' = [wmsg EXCEPT ![w] = Head(queue)]
    /\ wpc' = [wpc EXCEPT ![w] = "got"]
    /\ UNCHANGED <<unfinished, seen, running, workers, gather, joining, historyVars>>

\* Half a second without a message: back to the while test.  Nothing changes
\* while the workers run; a worker an overlapping stop forgot ends here.
WorkerTimesOut(w) ==
    /\ wpc[w] = "getting"
    /\ wpc' = LoopTest(w)
    /\ UNCHANGED <<queueVars, seen, running, workers, wmsg, gather, joining, historyVars>>

\* process_next() goes on: skip a duplicate ...
Skip(w) ==
    /\ wpc[w] = "got" /\ IsDuplicate(wmsg[w])
    /\ seen' = Fresh(seen)
    /\ TaskDone
    /\ wpc' = LoopTest(w)
    /\ wmsg' = [wmsg EXCEPT ![w] = NoMessage]
    /\ UNCHANGED <<queue, running, workers, gather, joining, historyVars>>

\* ... or remember the id and await the handler.
Dispatch(w) ==
    LET m == wmsg[w] IN
    /\ wpc[w] = "got" /\ ~IsDuplicate(m)
    /\ seen' = Remember(m)
    /\ wpc' = [wpc EXCEPT ![w] = "handling"]
    /\ since' = [n \in Identified |-> IF n = m THEN 0 ELSE since[n]]
    /\ others' = [n \in Identified |->
                    IF n = m THEN {} ELSE others[n] \cup ({m} \cap Identified)]
    /\ UNCHANGED <<queueVars, running, workers, wmsg, gather, joining>>

\* The handler returns or raises; the loop logs an exception and goes on.
HandlerEnds(w) ==
    /\ wpc[w] = "handling"
    /\ TaskDone
    /\ wpc' = LoopTest(w)
    /\ wmsg' = [wmsg EXCEPT ![w] = NoMessage]
    /\ UNCHANGED <<queue, seen, running, workers, gather, joining, historyVars>>

\* CancelledError arrives at the handler's await: the message is not retried.
HandlerCancelled(w) ==
    /\ wpc[w] = "cancelled" /\ wmsg[w] # NoMessage
    /\ TaskDone
    /\ wpc' = [wpc EXCEPT ![w] = "done"]
    /\ wmsg' = [wmsg EXCEPT ![w] = NoMessage]
    /\ UNCHANGED <<queue, seen, running, workers, gather, joining, historyVars>>

IdleCancelled(w) ==
    /\ wpc[w] = "cancelled" /\ wmsg[w] = NoMessage
    /\ wpc' = [wpc EXCEPT ![w] = "done"]
    /\ UNCHANGED <<queueVars, seen, running, workers, wmsg, gather, joining, historyVars>>

-----------------------------------------------------------------------------
(* start_workers(), stop_workers() and join().                             *)

\* Task objects that have ended and that no caller waits for any more.
Unused == {w \in Workers : ~Live(w) /\ \A c \in Callers : w \notin gather[c]}

StartWorkers(c) ==
    /\ gather[c] = {}
    /\ ~running
    /\ running' = TRUE
    /\ \E W \in SUBSET Unused :
          /\ Cardinality(W) = WorkerCount
          /\ workers' = W
          /\ wpc' = [w \in Workers |-> IF w \in W THEN "new" ELSE wpc[w]]
    /\ UNCHANGED <<queueVars, seen, wmsg, gather, joining, historyVars>>

\* Cancel every worker of the list and wait for them.  A worker that has just
\* been given a message keeps it: wait_for returns the result and the
\* cancellation is gone.
StopWorkers(c) ==
    /\ gather[c] = {}
    /\ running' = FALSE
    /\ wpc' = [w \in Workers |->
                 IF w \in workers /\ wpc[w] \in {"new", "getting", "handling"}
                 THEN "cancelled" ELSE wpc[w]]
    /\ gather' = [gather EXCEPT ![c] = workers]
    /\ UNCHANGED <<queueVars, seen, workers, wmsg, joining, historyVars>>

\* All of them have ended: empty the list, whichever list it is by now.
StopReturns(c) ==
    /\ gather[c] # {} /\ \A w \in gather[c] : ~Live(w)
    /\ gather' = [gather EXCEPT ![c] = {}]
    /\ workers' = {}
    /\ UNCHANGED <<queueVars, seen, running, wpc, wmsg, joining, historyVars>>

Join ==
    /\ ~joining /\ unfinished > 0
    /\ joining' = TRUE
    /\ UNCHANGED <<queueVars, seen, workerVars, gather, historyVars>>

JoinReturns ==
    /\ joining /\ unfinished = 0
    /\ joining' = FALSE
    /\ UNCHANGED <<queueVars, seen, workerVars, gather, historyVars>>

-----------------------------------------------------------------------------
WorkerStep(w) ==
    \/ WorkerStarts(w) \/ WorkerGets(w) \/ WorkerTimesOut(w)
    \/ Skip(w) \/ Dispatch(w) \/ HandlerEnds(w)
    \/ HandlerCancelled(w) \/ IdleCancelled(w)

Next ==
    \/ Tick \/ ClearDedupe \/ Join \/ JoinReturns
    \/ \E m \in Messages : Enqueue(m)
    \/ \E w \in Workers : WorkerStep(w)
    \/ \E c \in Callers : StartWorkers(c) \/ StopWorkers(c) \/ StopReturns(c)

Spec == Init /\ [][Next]_vars

\* The event loop runs every ready coroutine, timers fire and handlers end.
Fairness ==
    /\ WF_vars(JoinReturns)
    /\ \A w \in Workers : WF_vars(WorkerStep(w))
    /\ \A c \in Callers : WF_vars(StopReturns(c))

FairSpec == Spec /\ Fairness

-----------------------------------------------------------------------------
Entries == [id : Messages, age : 0..Old]

TypeOK ==
    /\ queue \in Seq(Messages) /\ Len(queue) <= MaxQueue
    /\ unfinished \in Nat
    /\ seen \in Seq(Entries) /\ Len(seen) <= MaxSeen
    /\ running \in BOOLEAN /\ workers \subseteq Workers
    /\ wpc \in [Workers -> {"new", "getting", "got", "handling", "cancelled", "done"}]
    /\ wmsg \in [Workers -> Messages \cup {NoMessage}]
    /\ gather \in [Callers -> SUBSET Workers]
    /\ joining \in BOOLEAN
    /\ since \in [Identified -> 0..Old]
    /\ others \in [Identified -> SUBSET Identified]

\* join() waits for exactly the messages that are queued or in the hands of a
\* worker, through duplicates, failing and cancelled handlers.
Holding == {w \in Workers : wmsg[w] # NoMessage}
UnfinishedCounts == unfinished = Len(queue) + Cardinality(Holding)

\* A message with an id is dispatched again only when its window has passed or
\* when MaxSeen other ids have been seen since, whatever the number of workers.
DispatchAgainOnlyIf(m) ==
    \/ since[m] > TTL
    \/ Cardinality(others[m]) >= MaxSeen

RepeatNeedsReason ==
    [][\A w \in Workers : \A m \in Identified :
        (wpc[w] = "got" /\ wpc'[w] = "handling" /\ wmsg[w] = m)
            => DispatchAgainOnlyIf(m)]_vars

\* stop_workers: "Cancel running workers and wait for shutdown."
StopShutsDown ==
    (~running /\ \A c \in Callers : gather[c] = {})
        => \A w \in Workers : ~Live(w)

\* A stop always comes back (stop_workers: "... and wait for shutdown").
StopEnds == \A c \in Callers : (gather[c] # {}) ~> (gather[c] = {})

\* While the workers run and no more messages come, join() comes back, whatever
\* the mix of duplicates and failing handlers.
Arrivals == unfinished' > unfinished
JoinEnds ==
    (<>[]running /\ <>[][~Arrivals]_vars) => (joining ~> ~joining)
=============================================================================
