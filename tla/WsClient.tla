------------------------------ MODULE WsClient ------------------------------
(***************************************************************************)
(* WebSocketClient (app/runtime/ws_client.py): connect, disconnect, the    *)
(* heartbeat task and the background connection loop, as coroutines of one *)
(* event loop.  A step runs from one suspension to the next; the loop picks*)
(* any ready coroutine.  The transport itself is a stub in the source.     *)
(*                                                                         *)
(* Processes are the runner tasks (run_forever) and the coroutines of the  *)
(* application that call the client.  Awaiting a task that was cancelled,  *)
(* _cancel_task swallows CancelledError, also one aimed at the awaiter.    *)
(***************************************************************************)
EXTENDS Integers, FiniteSets

CONSTANTS
    Manual,         \* callers of connect() and disconnect()
    Background,     \* callers of start_background() and stop_background()
    Runners,        \* task objects of run_forever
    Heartbeats,     \* task objects of _heartbeat_loop
    NoClientTask,
    MaxBackoffs      \* bound: the retry counter saturates here

ASSUME WsAssumption ==
    /\ NoClientTask \notin Runners \cup Heartbeats
    /\ (Manual \cup Background) \cap Runners = {}
    /\ MaxBackoffs \in Nat \ {0}

VARIABLES
    state,      \* self.state
    stop,       \* self._stop_event is set
    hb,         \* self._heartbeat_task
    runner,     \* self._runner_task
    retries,    \* self._reconnect_count
    cookieOK,   \* _validate_config accepts account_id and cookie_str
    at,         \* where each caller and each runner is suspended
    waitOn,     \* the task it awaits in _cancel_task
    leaving,    \* a runner with a CancelledError on its way out
    hbpc        \* where each heartbeat task is

clientVars == <<state, stop, hb, runner, retries>>
vars == <<clientVars, cookieOK, at, waitOn, leaving, hbpc>>

Callers == Manual \cup Background
Procs == Callers \cup Runners

-----------------------------------------------------------------------------
(* Wrong variants of the definitions below: each breaks a property.        *)

\* A heartbeat that has not taken its first step is overlooked.
LiveHbStarted(h) == h # NoClientTask /\ hbpc[h] = "waiting"

\* disconnect() leaves self.state alone.
DisconnectedTaskOnly ==
    /\ hb' = NoClientTask
    /\ UNCHANGED state

\* A runner is told to stop only where it waits.
CancelRunnerWaiting(f, r) ==
    [f EXCEPT ![r] = IF @ \in {"serving", "backoff"} THEN "woken" ELSE @]

\* stop_background() forgets the runner without cancelling it.
StopRunnerForgets(c, f) ==
    /\ at' = [f EXCEPT ![c] = "idle"]
    /\ waitOn' = [waitOn EXCEPT ![c] = NoClientTask]
    /\ runner' = NoClientTask
    /\ UNCHANGED leaving

-----------------------------------------------------------------------------
\* A task that has not ended: it may still have to notice its cancellation.
LiveHb(h) == h # NoClientTask /\ hbpc[h] # "done"
LiveRunner(r) == r # NoClientTask /\ at[r] # "done"

\* Task objects are fresh; one that has ended and is forgotten is used again.
FreshHbs ==
    {h \in Heartbeats : ~LiveHb(h) /\ h # hb /\ \A p \in Procs : waitOn[p] # h}
FreshRunners ==
    {r \in Runners : ~LiveRunner(r) /\ r # runner /\ \A p \in Procs : waitOn[p] # r}

Waiting(p) == at[p] \in {"connWait", "discWait", "stopDisc"}

\* Bound: a caller starts a connection only while every suspended coroutine could
\* still start a heartbeat of its own.
RoomForHeartbeat ==
    Cardinality({p \in Procs : at[p] \notin {"idle", "done"}}) < Cardinality(FreshHbs)

-----------------------------------------------------------------------------
Init ==
    /\ state = "disconnected" /\ stop = FALSE
    /\ hb = NoClientTask /\ runner = NoClientTask
    /\ retries = 0 /\ cookieOK = TRUE
    /\ at = [p \in Procs |-> IF p \in Callers THEN "idle" ELSE "done"]
    /\ waitOn = [p \in Procs |-> NoClientTask]
    /\ leaving = [r \in Runners |-> FALSE]
    /\ hbpc = [h \in Heartbeats |-> "done"]

\* The public attributes account_id and cookie_str are validated again on each
\* connect and may have been changed meanwhile.
ChangeCookie ==
    /\ cookieOK' = ~cookieOK
    /\ UNCHANGED <<clientVars, at, waitOn, leaving, hbpc>>

-----------------------------------------------------------------------------
(* The event and the tasks.                                                *)

\* stop_event.set() readies every runner that waits for the event, and clear()
\* does not take that back.
Woken(f) ==
    [p \in Procs |-> IF f[p] \in {"serving", "backoff"} THEN "woken" ELSE f[p]]

CancelHb(f) == IF LiveHb(hb) THEN [f EXCEPT ![hb] = "cancelled"] ELSE f

\* What connect() returns to: run_forever waits for the event, if it is not set.
AfterConnect(p, set) ==
    IF p \in Callers THEN "idle" ELSE IF set THEN "woken" ELSE "serving"

StartHeartbeat ==
    \E h \in FreshHbs :
        /\ hb' = h
        /\ hbpc' = [hbpc EXCEPT ![h] = "new"]

\* connect(), the configuration being valid: nothing to do when connected, else
\* cancel the heartbeat there may be and start a fresh one.
ConnectBy(p) ==
    IF state = "connected"
    THEN /\ at' = [at EXCEPT ![p] = AfterConnect(p, stop)]
         /\ UNCHANGED <<clientVars, waitOn, hbpc>>
    ELSE /\ stop' = FALSE
         /\ state' = "connected"
         /\ retries' = 0
         /\ IF LiveHb(hb)
            THEN /\ hbpc' = CancelHb(hbpc)
                 /\ waitOn' = [waitOn EXCEPT ![p] = hb]
                 /\ at' = [at EXCEPT ![p] = "connWait"]
                 /\ UNCHANGED hb
            ELSE /\ StartHeartbeat
                 /\ at' = [at EXCEPT ![p] = AfterConnect(p, FALSE)]
                 /\ UNCHANGED waitOn
         /\ UNCHANGED runner

\* ... the cancelled heartbeat has ended.
ConnectResumes(p) ==
    /\ at[p] = "connWait" /\ ~LiveHb(waitOn[p])
    /\ StartHeartbeat
    /\ waitOn' = [waitOn EXCEPT ![p] = NoClientTask]
    /\ at' = [at EXCEPT ![p] = AfterConnect(p, stop)]
    /\ UNCHANGED <<state, stop, runner, retries, cookieOK, leaving>>

\* disconnect() up to its await, suspended at the given place.
DisconnectWaits(p, place) ==
    /\ LiveHb(hb)
    /\ stop' = TRUE
    /\ hbpc' = CancelHb(hbpc)
    /\ waitOn' = [waitOn EXCEPT ![p] = hb]
    /\ at' = [Woken(at) EXCEPT ![p] = place]
    /\ UNCHANGED <<state, hb, runner, retries, leaving>>

\* The end of disconnect(): whatever was started since it began is forgotten.
Disconnected ==
    /\ state' = "disconnected"
    /\ hb' = NoClientTask

-----------------------------------------------------------------------------
(* Callers of connect() and disconnect().                                  *)

CallConnect(c) ==
    /\ at[c] = "idle" /\ cookieOK
    /\ ConnectBy(c)
    /\ UNCHANGED <<cookieOK, leaving>>

CallDisconnect(c) ==
    /\ at[c] = "idle"
    /\ \/ DisconnectWaits(c, "discWait")
       \/ /\ ~LiveHb(hb)
          /\ stop' = TRUE
          /\ Disconnected
          /\ at' = Woken(at)
          /\ UNCHANGED <<runner, retries, waitOn, leaving, hbpc>>
    /\ UNCHANGED cookieOK

DisconnectResumes(c) ==
    /\ c \in Callers
    /\ at[c] = "discWait" /\ ~LiveHb(waitOn[c])
    /\ Disconnected
    /\ waitOn' = [waitOn EXCEPT ![c] = NoClientTask]
    /\ at' = [at EXCEPT ![c] = "idle"]
    /\ UNCHANGED <<stop, runner, retries, cookieOK, leaving, hbpc>>

-----------------------------------------------------------------------------
(* Callers of start_background() and stop_background().                    *)

StartBackground(c) ==
    /\ at[c] = "idle"
    /\ ~LiveRunner(runner)
    /\ \E r \in FreshRunners :
          /\ runner' = r
          /\ at' = [at EXCEPT ![r] = "new"]
          /\ leaving' = [leaving EXCEPT ![r] = FALSE]
    /\ UNCHANGED <<state, stop, hb, retries, cookieOK, waitOn, hbpc>>

\* runner.cancel(): a runner that waits for the event or its timer leaves, one
\* inside _cancel_task swallows the cancellation, a new one never runs.
CancelRunner(f, r) ==
    [f EXCEPT ![r] = IF @ = "new" THEN "done"
                     ELSE IF @ \in {"serving", "backoff"} THEN "woken" ELSE @]

\* The rest of stop_background(), from at function f: cancel and await the runner.
StopRunner(c, f) ==
    IF LiveRunner(runner)
    THEN /\ at' = [CancelRunner(f, runner) EXCEPT ![c] = "stopRun"]
         /\ waitOn' = [waitOn EXCEPT ![c] = runner]
         /\ leaving' = [leaving EXCEPT ![runner] =
                            @ \/ f[runner] \in {"serving", "backoff", "woken"}]
         /\ UNCHANGED runner
    ELSE /\ at' = [f EXCEPT ![c] = "idle"]
         /\ waitOn' = [waitOn EXCEPT ![c] = NoClientTask]
         /\ runner' = NoClientTask
         /\ UNCHANGED leaving

StopBackground(c) ==
    /\ at[c] = "idle"
    /\ \/ DisconnectWaits(c, "stopDisc")
       \/ /\ ~LiveHb(hb)
          /\ stop' = TRUE
          /\ Disconnected
          /\ StopRunner(c, Woken(at))
          /\ UNCHANGED <<retries, hbpc>>
    /\ UNCHANGED cookieOK

StopDisconnected(c) ==
    /\ at[c] = "stopDisc" /\ ~LiveHb(waitOn[c])
    /\ Disconnected
    /\ StopRunner(c, at)
    /\ UNCHANGED <<stop, retries, cookieOK, hbpc>>

StopReturns(c) ==
    /\ at[c] = "stopRun" /\ ~LiveRunner(waitOn[c])
    /\ runner' = NoClientTask
    /\ waitOn' = [waitOn EXCEPT ![c] = NoClientTask]
    /\ at' = [at EXCEPT ![c] = "idle"]
    /\ UNCHANGED <<state, stop, hb, retries, cookieOK, leaving, hbpc>>

-----------------------------------------------------------------------------
(* run_forever().                                                          *)

\* The while test: enter the body ("loop"), or return.
LoopTest(r, set) == IF leaving[r] \/ set THEN "done" ELSE "loop"

RunnerStarts(r) ==
    /\ at[r] = "new"
    /\ stop' = FALSE
    /\ at' = [at EXCEPT ![r] = "loop"]
    /\ UNCHANGED <<state, hb, runner, retries, cookieOK, waitOn, leaving, hbpc>>

RunnerConnects(r) ==
    /\ at[r] = "loop" /\ cookieOK
    /\ ConnectBy(r)
    /\ UNCHANGED <<cookieOK, leaving>>

\* connect() raises: back off and wait for the event or the timer.
RunnerBacksOff(r) ==
    /\ at[r] = "loop" /\ ~cookieOK
    /\ state' = "reconnecting"
    /\ retries' = IF retries < MaxBackoffs THEN retries + 1 ELSE retries
    /\ at' = [at EXCEPT ![r] = "backoff"]
    /\ UNCHANGED <<stop, hb, runner, cookieOK, waitOn, leaving, hbpc>>

BackoffElapsed(r) ==
    /\ at[r] = "backoff"
    /\ at' = [at EXCEPT ![r] = "woken"]
    /\ UNCHANGED <<clientVars, cookieOK, waitOn, leaving, hbpc>>

\* The finally clause, reached from every way out of the body: disconnect()
\* unless disconnected, then the while test.
RunnerFinally(r) ==
    /\ at[r] = "woken"
    /\ \/ /\ state # "disconnected"
          /\ DisconnectWaits(r, "discWait")
       \/ /\ state # "disconnected" /\ ~LiveHb(hb)
          /\ stop' = TRUE
          /\ Disconnected
          /\ at' = [Woken(at) EXCEPT ![r] = "done"]
          /\ UNCHANGED <<runner, retries, waitOn, leaving, hbpc>>
       \/ /\ state = "disconnected"
          /\ at' = [at EXCEPT ![r] = LoopTest(r, stop)]
          /\ UNCHANGED <<clientVars, waitOn, leaving, hbpc>>
    /\ UNCHANGED cookieOK

RunnerDisconnected(r) ==
    /\ at[r] = "discWait" /\ ~LiveHb(waitOn[r])
    /\ Disconnected
    /\ waitOn' = [waitOn EXCEPT ![r] = NoClientTask]
    /\ at' = [at EXCEPT ![r] = LoopTest(r, stop)]
    /\ UNCHANGED <<stop, runner, retries, cookieOK, leaving, hbpc>>

-----------------------------------------------------------------------------
(* _heartbeat_loop(): woken by the interval, the event or a cancellation.   *)

HeartbeatStep(h) ==
    /\ hbpc[h] \in {"new", "waiting"}
    /\ hbpc' = [hbpc EXCEPT ![h] =
                    IF state = "connected" /\ ~stop THEN "waiting" ELSE "done"]
    /\ UNCHANGED <<clientVars, cookieOK, at, waitOn, leaving>>

HeartbeatCancelled(h) ==
    /\ hbpc[h] = "cancelled"
    /\ hbpc' = [hbpc EXCEPT ![h] = "done"]
    /\ UNCHANGED <<clientVars, cookieOK, at, waitOn, leaving>>

-----------------------------------------------------------------------------
\* Between the while test and the first await of the body nobody else runs.
InLoop == \E r \in Runners : at[r] = "loop"

RunnerStep(r) ==
    \/ RunnerConnects(r)
    \/ RunnerBacksOff(r)
    \/ /\ ~InLoop
       /\ \/ RunnerStarts(r) \/ BackoffElapsed(r) \/ RunnerFinally(r)
          \/ RunnerDisconnected(r) \/ ConnectResumes(r)

\* A caller goes on when what it awaits has ended.
CallerStep(c) ==
    /\ ~InLoop
    /\ \/ ConnectResumes(c) \/ DisconnectResumes(c)
       \/ StopDisconnected(c) \/ StopReturns(c)

HbStep(h) == ~InLoop /\ (HeartbeatStep(h) \/ HeartbeatCancelled(h))

Calls ==
    /\ ~InLoop
    /\ \/ \E c \in Manual : RoomForHeartbeat /\ CallConnect(c)
       \/ \E c \in Manual : CallDisconnect(c)
       \/ \E c \in Background : RoomForHeartbeat /\ StartBackground(c)
       \/ \E c \in Background : StopBackground(c)

Next ==
    \/ Calls
    \/ \E c \in Callers : CallerStep(c)
    \/ \E r \in Runners : RunnerStep(r)
    \/ \E h \in Heartbeats : HbStep(h)
    \/ ~InLoop /\ ChangeCookie

Spec == Init /\ [][Next]_vars

\* The event loop runs every ready coroutine and its timers fire.  Nobody has to
\* call the client.
Fairness ==
    /\ \A c \in Callers : WF_vars(CallerStep(c))
    /\ \A r \in Runners : WF_vars(RunnerStep(r))
    /\ \A h \in Heartbeats : WF_vars(HbStep(h))

FairSpec == Spec /\ Fairness

-----------------------------------------------------------------------------
\* CONNECTING and FAILED never outlive the step that assigns them.
TypeOK ==
    /\ state \in {"disconnected", "connected", "reconnecting"}
    /\ stop \in BOOLEAN /\ cookieOK \in BOOLEAN
    /\ hb \in Heartbeats \cup {NoClientTask}
    /\ runner \in Runners \cup {NoClientTask}
    /\ retries \in 0..MaxBackoffs
    /\ at \in [Procs -> {"idle", "connWait", "discWait", "stopDisc", "stopRun",
                         "new", "loop", "serving", "backoff", "woken", "done"}]
    /\ waitOn \in [Procs -> Heartbeats \cup Runners \cup {NoClientTask}]
    /\ leaving \in [Runners -> BOOLEAN]
    /\ hbpc \in [Heartbeats -> {"new", "waiting", "cancelled", "done"}]

\* A client that says it is connected, with no connect or disconnect suspended,
\* has a running heartbeat, however the calls overlapped before.
ConnectedBeats ==
    (state = "connected" /\ \A p \in Procs : ~Waiting(p))
        => hb # NoClientTask /\ hbpc[hb] \in {"new", "waiting"}

\* _start_heartbeat_task: "Cancel any existing heartbeat task and start a fresh
\* one", so there are never two that go on beating.
Beating == {h \in Heartbeats : hbpc[h] \in {"new", "waiting"}}
OneHeartbeat == \A h, g \in Beating : h = g

\* Once stop_background has returned and nothing else runs, the client is
\* disconnected and no heartbeat goes on.
StoppedIsQuiet ==
    (runner = NoClientTask /\ \A c \in Callers : at[c] = "idle")
        => state = "disconnected" /\ Beating = {}

\* stop_background comes back, although the cancellation it sends to the runner
\* may be swallowed in _cancel_task.
StopComesBack ==
    \A c \in Background :
        (at[c] \in {"stopDisc", "stopRun"}) ~> (at[c] = "idle")

\* "Reconnect: exponential backoff with max 32s": after a failed attempt and its
\* delay the runner connects or fails again, unless the client was disconnected
\* by a caller meanwhile.
Reconnects ==
    (state = "reconnecting" /\ retries = 1)
        ~> (state = "connected" \/ retries = 2
            \/ \E c \in Callers : at[c] # "idle")
=============================================================================
