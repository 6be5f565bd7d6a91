--------------------------- MODULE WsClient_proofs ---------------------------
(***************************************************************************)
(* Proofs about WsClient: for any callers, any number of runners and of    *)
(* heartbeats, that a connected client beats; and for the one owner the    *)
(* background loop is made for, that only one heartbeat goes on and that a *)
(* stop leaves nothing behind.                                             *)
(***************************************************************************)
EXTENDS WsClient, TLAPS

CallerPlaces == {"idle", "connWait", "discWait", "stopDisc", "stopRun"}
RunnerPlaces == {"new", "loop", "serving", "backoff", "woken", "connWait", "discWait", "done"}

AtPlaces(f) ==
    /\ f \in [Procs -> CallerPlaces \cup RunnerPlaces]
    /\ \A c \in Callers : f[c] \in CallerPlaces
    /\ \A r \in Runners : f[r] \in RunnerPlaces

HbPlaces == {"new", "waiting", "cancelled", "done"}

ClientTypes ==
    /\ state \in {"disconnected", "connected", "reconnecting"}
    /\ stop \in BOOLEAN
    /\ hb \in Heartbeats \cup {NoClientTask}
    /\ runner \in Runners \cup {NoClientTask}
    /\ AtPlaces(at)
    /\ waitOn \in [Procs -> Heartbeats \cup Runners \cup {NoClientTask}]
    /\ hbpc \in [Heartbeats -> HbPlaces]

-----------------------------------------------------------------------------
(* A connected client beats.                                               *)

Disconnecting(p) == at[p] \in {"discWait", "stopDisc"}

\* A connected client beats or somebody will start a heartbeat or disconnect,
\* and where the event is set it is the latter.
BeatInv ==
    /\ ClientTypes
    /\ state = "connected" =>
          \/ \E p \in Procs : Waiting(p)
          \/ hb # NoClientTask /\ hbpc[hb] \in {"new", "waiting"}
    /\ state = "connected" /\ stop => \E p \in Procs : Disconnecting(p)

-----------------------------------------------------------------------------
(* One owner: nobody calls connect and disconnect, and one coroutine starts *)
(* and stops the background loop.                                           *)

OneOwner == Manual = {} /\ \A c, d \in Background : c = d

OneRunner == \A r \in Runners : at[r] # "done" => r = runner

\* A heartbeat that has not ended is the client's, and the client is connected.
OwnHeartbeat == \A h \in Heartbeats : hbpc[h] # "done" => h = hb /\ state = "connected"

\* Nobody meets a heartbeat to replace; the owner is at a stop or nowhere.
Places ==
    /\ \A p \in Procs : at[p] # "connWait"
    /\ \A c \in Callers : at[c] \in {"idle", "stopDisc", "stopRun"}

\* A runner that is going to connect, or none at all: disconnected
AtRest ==
    /\ \A r \in Runners : at[r] \in {"new", "loop"} => state = "disconnected"
    /\ (\A r \in Runners : at[r] = "done") => state = "disconnected"

\* While the owner stops, the event is set and the runner is on its way out.
StopLasts ==
    \A c \in Callers : at[c] \in {"stopDisc", "stopRun"} =>
        stop /\ \A r \in Runners : at[r] \in {"woken", "discWait", "done"}

\* A disconnect waits for the heartbeat there is.
WaitsForIt == \A p \in Procs : Disconnecting(p) /\ LiveHb(hb) => waitOn[p] = hb

AwaitsRunner == \A c \in Callers : at[c] = "stopRun" => waitOn[c] = runner

QuietInv ==
    /\ ClientTypes /\ OneRunner /\ OwnHeartbeat /\ Places /\ AtRest /\ StopLasts /\ WaitsForIt /\ AwaitsRunner

-----------------------------------------------------------------------------
LEMMA ProcsApart == Procs = Callers \cup Runners /\ Callers \cap Runners = {}
BY WsAssumption DEF Procs, Callers

LEMMA MovedPlaces ==
    ASSUME NEW f, AtPlaces(f), NEW p \in Procs, NEW x,
           p \in Callers => x \in CallerPlaces, p \in Runners => x \in RunnerPlaces
    PROVE  AtPlaces([f EXCEPT ![p] = x])
BY ProcsApart DEF AtPlaces

LEMMA WokenPlaces ==
    ASSUME NEW f, AtPlaces(f)
    PROVE  AtPlaces(Woken(f))
BY ProcsApart DEF AtPlaces, Woken, CallerPlaces, RunnerPlaces

LEMMA CancelledPlaces ==
    ASSUME NEW f, AtPlaces(f), NEW r \in Runners
    PROVE  AtPlaces(CancelRunner(f, r))
<1> DEFINE x == IF f[r] = "new" THEN "done" ELSE IF f[r] \in {"serving", "backoff"} THEN "woken" ELSE f[r]
<1>1. f[r] \in RunnerPlaces /\ r \in Procs /\ r \notin Callers
  BY ProcsApart DEF AtPlaces
<1>2. x \in RunnerPlaces
  BY <1>1 DEF RunnerPlaces
<1>3. CancelRunner(f, r) = [f EXCEPT ![r] = x]
  BY DEF CancelRunner
<1> HIDE DEF x
<1>4. AtPlaces([f EXCEPT ![r] = x])
  BY <1>1, <1>2, MovedPlaces
<1> QED BY <1>3, <1>4

LEMMA CancelledHeartbeats ==
    ASSUME ClientTypes
    PROVE  CancelHb(hbpc) \in [Heartbeats -> HbPlaces]
BY DEF ClientTypes, CancelHb, LiveHb, HbPlaces

LEMMA StartedHeartbeat ==
    ASSUME ClientTypes, StartHeartbeat
    PROVE  hb' \in Heartbeats /\ hbpc' \in [Heartbeats -> HbPlaces] /\ hbpc'[hb'] = "new"
BY DEF ClientTypes, StartHeartbeat, FreshHbs, HbPlaces

LEMMA ConnectByTypes ==
    ASSUME ClientTypes, NEW p \in Procs, ConnectBy(p)
    PROVE  ClientTypes'
<1>1. AtPlaces(at) /\ hb \in Heartbeats \cup {NoClientTask}
  BY DEF ClientTypes
<1>2. ASSUME NEW set PROVE AtPlaces([at EXCEPT ![p] = AfterConnect(p, set)])
  <2>1. /\ p \in Callers => AfterConnect(p, set) \in CallerPlaces
        /\ p \in Runners => AfterConnect(p, set) \in RunnerPlaces
    BY ProcsApart DEF AfterConnect, CallerPlaces, RunnerPlaces
  <2> QED BY <1>1, <2>1, MovedPlaces
<1>3. AtPlaces([at EXCEPT ![p] = "connWait"])
  <2>1. "connWait" \in CallerPlaces /\ "connWait" \in RunnerPlaces
    BY DEF CallerPlaces, RunnerPlaces
  <2> QED BY <1>1, <2>1, MovedPlaces
<1>4. [waitOn EXCEPT ![p] = hb] \in [Procs -> Heartbeats \cup Runners \cup {NoClientTask}]
  BY DEF ClientTypes
<1>5. CASE state = "connected"
  BY <1>2, <1>5 DEF ConnectBy, ClientTypes, clientVars
<1>6. CASE state # "connected" /\ LiveHb(hb)
  BY <1>3, <1>4, <1>6, CancelledHeartbeats DEF ConnectBy, ClientTypes
<1>7. CASE state # "connected" /\ ~LiveHb(hb)
  BY <1>2, <1>7, StartedHeartbeat DEF ConnectBy, ClientTypes
<1> QED BY <1>5, <1>6, <1>7

LEMMA DisconnectWaitsTypes ==
    ASSUME ClientTypes, NEW p \in Procs, NEW place, DisconnectWaits(p, place),
           p \in Callers => place \in CallerPlaces, p \in Runners => place \in RunnerPlaces
    PROVE  ClientTypes'
<1>1. AtPlaces(Woken(at))
  BY WokenPlaces DEF ClientTypes
<1>2. AtPlaces([Woken(at) EXCEPT ![p] = place])
  BY <1>1, MovedPlaces
<1>3. [waitOn EXCEPT ![p] = hb] \in [Procs -> Heartbeats \cup Runners \cup {NoClientTask}]
  BY DEF ClientTypes
<1> QED BY <1>2, <1>3, CancelledHeartbeats DEF DisconnectWaits, ClientTypes

LEMMA StopRunnerTypes ==
    ASSUME ClientTypes, NEW c \in Callers, NEW f, AtPlaces(f), StopRunner(c, f),
           state' = "disconnected", stop' \in BOOLEAN, hb' = NoClientTask, UNCHANGED hbpc
    PROVE  ClientTypes'
<1>1. c \in Procs /\ c \notin Runners
  BY ProcsApart
<1>2. "idle" \in CallerPlaces /\ "stopRun" \in CallerPlaces
  BY DEF CallerPlaces
<1>3. CASE LiveRunner(runner)
  <2>1. runner \in Runners /\ runner' = runner
    BY <1>3 DEF LiveRunner, ClientTypes, StopRunner
  <2>2. AtPlaces(CancelRunner(f, runner))
    BY <2>1, CancelledPlaces
  <2>3. AtPlaces([CancelRunner(f, runner) EXCEPT ![c] = "stopRun"])
    BY <1>1, <1>2, <2>2, MovedPlaces
  <2>4. waitOn' \in [Procs -> Heartbeats \cup Runners \cup {NoClientTask}]
    BY <1>1, <1>3, <2>1 DEF StopRunner, ClientTypes
  <2> QED BY <1>3, <2>1, <2>3, <2>4 DEF StopRunner, ClientTypes
<1>4. CASE ~LiveRunner(runner)
  <2>1. AtPlaces([f EXCEPT ![c] = "idle"])
    BY <1>1, <1>2, MovedPlaces
  <2>2. waitOn' \in [Procs -> Heartbeats \cup Runners \cup {NoClientTask}]
    BY <1>1, <1>4 DEF StopRunner, ClientTypes
  <2> QED BY <1>4, <2>1, <2>2 DEF StopRunner, ClientTypes
<1> QED BY <1>3, <1>4

LEMMA NextTypes == ClientTypes /\ [Next]_vars => ClientTypes'
<1> SUFFICES ASSUME ClientTypes, [Next]_vars PROVE ClientTypes'
  OBVIOUS
<1> USE ProcsApart
<1>1. /\ AtPlaces(at) /\ AtPlaces(Woken(at))
      /\ {"idle", "connWait", "discWait", "stopDisc", "stopRun"} \subseteq CallerPlaces
      /\ {"new", "loop", "serving", "backoff", "woken", "connWait", "discWait", "done"} \subseteq RunnerPlaces
  BY WokenPlaces DEF ClientTypes, CallerPlaces, RunnerPlaces
<1>2. ASSUME NEW p \in Procs PROVE [waitOn EXCEPT ![p] = NoClientTask] \in [Procs -> Heartbeats \cup Runners \cup {NoClientTask}]
  BY <1>2 DEF ClientTypes
<1>3. ASSUME NEW c \in Callers, CallConnect(c) PROVE ClientTypes'
  BY <1>3, ConnectByTypes DEF CallConnect
<1>4. ASSUME NEW c \in Callers, CallDisconnect(c) PROVE ClientTypes'
  <2>1. CASE DisconnectWaits(c, "discWait")
    BY <1>1, <2>1, DisconnectWaitsTypes
  <2>2. CASE ~DisconnectWaits(c, "discWait")
    BY <1>1, <1>4, <2>2 DEF CallDisconnect, Disconnected, ClientTypes
  <2> QED BY <2>1, <2>2
<1>5. ASSUME NEW c \in Callers, StartBackground(c) PROVE ClientTypes'
  <2>1. PICK r \in FreshRunners : runner' = r /\ at' = [at EXCEPT ![r] = "new"]
    BY <1>5 DEF StartBackground
  <2>2. r \in Runners
    BY DEF FreshRunners
  <2>3. AtPlaces([at EXCEPT ![r] = "new"])
    BY <1>1, <2>2, MovedPlaces
  <2> QED BY <1>5, <2>1, <2>2, <2>3 DEF StartBackground, ClientTypes
<1>6. ASSUME NEW c \in Callers, StopBackground(c) PROVE ClientTypes'
  <2>1. CASE DisconnectWaits(c, "stopDisc")
    BY <1>1, <2>1, DisconnectWaitsTypes
  <2>2. CASE ~DisconnectWaits(c, "stopDisc")
    BY <1>1, <1>6, <2>2, StopRunnerTypes DEF StopBackground, Disconnected
  <2> QED BY <2>1, <2>2
<1>7. ASSUME NEW p \in Procs, ConnectResumes(p) PROVE ClientTypes'
  <2>1. AtPlaces([at EXCEPT ![p] = AfterConnect(p, stop)])
    <3>1. /\ p \in Callers => AfterConnect(p, stop) \in CallerPlaces
          /\ p \in Runners => AfterConnect(p, stop) \in RunnerPlaces
      BY <1>1 DEF AfterConnect
    <3> QED BY <1>1, <3>1, MovedPlaces
  <2> QED BY <1>2, <1>7, <2>1, StartedHeartbeat DEF ConnectResumes, ClientTypes
<1>8. ASSUME NEW c \in Callers, DisconnectResumes(c) PROVE ClientTypes'
  <2>1. AtPlaces([at EXCEPT ![c] = "idle"])
    BY <1>1, MovedPlaces
  <2> QED BY <1>2, <1>8, <2>1 DEF DisconnectResumes, Disconnected, ClientTypes
<1>9. ASSUME NEW c \in Callers, StopDisconnected(c) PROVE ClientTypes'
  BY <1>1, <1>9, StopRunnerTypes DEF StopDisconnected, Disconnected, ClientTypes
<1>10. ASSUME NEW c \in Callers, StopReturns(c) PROVE ClientTypes'
  <2>1. AtPlaces([at EXCEPT ![c] = "idle"])
    BY <1>1, MovedPlaces
  <2> QED BY <1>2, <1>10, <2>1 DEF StopReturns, ClientTypes
<1>11. ASSUME NEW r \in Runners, RunnerConnects(r) PROVE ClientTypes'
  BY <1>11, ConnectByTypes DEF RunnerConnects
<1>12. ASSUME NEW r \in Runners, RunnerBacksOff(r) \/ RunnerStarts(r) \/ BackoffElapsed(r) PROVE ClientTypes'
  <2>1. AtPlaces([at EXCEPT ![r] = "backoff"]) /\ AtPlaces([at EXCEPT ![r] = "loop"]) /\ AtPlaces([at EXCEPT ![r] = "woken"])
    BY <1>1, MovedPlaces
  <2> QED BY <1>12, <2>1 DEF RunnerBacksOff, RunnerStarts, BackoffElapsed, clientVars, ClientTypes
<1>13. ASSUME NEW r \in Runners, RunnerFinally(r) PROVE ClientTypes'
  <2>1. CASE DisconnectWaits(r, "discWait")
    BY <1>1, <2>1, DisconnectWaitsTypes
  <2>2. CASE ~DisconnectWaits(r, "discWait")
    <3>1. AtPlaces([Woken(at) EXCEPT ![r] = "done"])
      BY <1>1, MovedPlaces
    <3>2. AtPlaces([at EXCEPT ![r] = LoopTest(r, stop)])
      <4>1. LoopTest(r, stop) \in RunnerPlaces
        BY <1>1 DEF LoopTest
      <4> QED BY <1>1, <4>1, MovedPlaces
    <3> QED BY <1>13, <2>2, <3>1, <3>2 DEF RunnerFinally, Disconnected, clientVars, ClientTypes
  <2> QED BY <2>1, <2>2
<1>14. ASSUME NEW r \in Runners, RunnerDisconnected(r) PROVE ClientTypes'
  <2>1. AtPlaces([at EXCEPT ![r] = LoopTest(r, stop)])
    <3>1. LoopTest(r, stop) \in RunnerPlaces
      BY <1>1 DEF LoopTest
    <3> QED BY <1>1, <3>1, MovedPlaces
  <2> QED BY <1>2, <1>14, <2>1 DEF RunnerDisconnected, Disconnected, ClientTypes
<1>15. ASSUME NEW h \in Heartbeats, HeartbeatStep(h) \/ HeartbeatCancelled(h) PROVE ClientTypes'
  BY <1>15 DEF HeartbeatStep, HeartbeatCancelled, ClientTypes, clientVars, HbPlaces
<1>16. CASE ChangeCookie \/ UNCHANGED vars
  BY <1>16 DEF ChangeCookie, ClientTypes, clientVars, vars
<1> QED BY <1>3, <1>4, <1>5, <1>6, <1>7, <1>8, <1>9, <1>10, <1>11, <1>12, <1>13, <1>14, <1>15, <1>16
        DEF Next, Calls, CallerStep, RunnerStep, HbStep, Callers

-----------------------------------------------------------------------------
\* Who waits goes on waiting when another process moves.
LEMMA StillWaiting ==
    ASSUME ClientTypes, NEW p \in Procs, ~Waiting(p), NEW x, at' = [at EXCEPT ![p] = x]
    PROVE  \A q \in Procs : (Waiting(q) => Waiting(q)') /\ (Disconnecting(q) => Disconnecting(q)')
BY DEF ClientTypes, AtPlaces, Waiting, Disconnecting

LEMMA BeatStep == BeatInv /\ [Next]_vars => BeatInv'
<1> SUFFICES ASSUME BeatInv, [Next]_vars PROVE BeatInv'
  OBVIOUS
<1> USE ProcsApart
<1> DEFINE Beats == hb # NoClientTask /\ hbpc[hb] \in {"new", "waiting"}
           Somebody == \E p \in Procs : Waiting(p)
           Ending == \E p \in Procs : Disconnecting(p)
<1>1. /\ ClientTypes /\ ClientTypes'
      /\ state = "connected" => Somebody \/ Beats
      /\ state = "connected" /\ stop => Ending
  BY NextTypes DEF BeatInv
<1>2. ASSUME state' # "connected" PROVE BeatInv'
  BY <1>1, <1>2 DEF BeatInv
<1>3. ASSUME NEW p \in Procs, Disconnecting(p)' PROVE BeatInv'
  BY <1>1, <1>3 DEF BeatInv, Disconnecting, Waiting
<1>4. ASSUME state' = state, stop' => stop, hb' = hb, hbpc' = hbpc,
             \A q \in Procs : (Waiting(q) => Waiting(q)') /\ (Disconnecting(q) => Disconnecting(q)')
      PROVE  BeatInv'
  BY <1>1, <1>4 DEF BeatInv
<1>5. ASSUME NEW p \in Procs, NEW x, ~Waiting(p), at' = [at EXCEPT ![p] = x],
             UNCHANGED <<state, stop, hb, hbpc>>
      PROVE  BeatInv'
  BY <1>1, <1>4, <1>5, StillWaiting
<1>6. ASSUME NEW p \in Procs, NEW place \in {"discWait", "stopDisc"}, DisconnectWaits(p, place) PROVE BeatInv'
  <2>1. at'[p] = place
    BY <1>1, <1>6 DEF DisconnectWaits, ClientTypes, AtPlaces, Woken
  <2> QED BY <1>3, <2>1 DEF Disconnecting
<1>7. ASSUME NEW p \in Procs, ~Waiting(p), ConnectBy(p) PROVE BeatInv'
  <2>1. CASE state = "connected"
    BY <1>5, <1>7, <2>1 DEF ConnectBy, clientVars
  <2>2. CASE state # "connected" /\ LiveHb(hb)
    <3>1. at'[p] = "connWait" /\ stop' = FALSE
      BY <1>1, <1>7, <2>2 DEF ConnectBy, ClientTypes, AtPlaces
    <3>2. Waiting(p)'
      BY <3>1 DEF Waiting
    <3> QED BY <1>1, <3>1, <3>2 DEF BeatInv
  <2>3. CASE state # "connected" /\ ~LiveHb(hb)
    <3>1. StartHeartbeat /\ stop' = FALSE
      BY <1>7, <2>3 DEF ConnectBy
    <3>2. Beats'
      BY <1>1, <3>1, StartedHeartbeat, WsAssumption
    <3> QED BY <1>1, <3>1, <3>2 DEF BeatInv
  <2> QED BY <2>1, <2>2, <2>3
<1>8. ASSUME NEW c \in Callers, CallConnect(c) \/ CallDisconnect(c) PROVE BeatInv'
  <2>1. CASE CallConnect(c)
    BY <1>7, <2>1 DEF CallConnect, Waiting
  <2>2. CASE CallDisconnect(c)
    BY <1>2, <1>6, <2>2 DEF CallDisconnect, Disconnected
  <2> QED BY <1>8, <2>1, <2>2
<1>9. ASSUME NEW c \in Callers, StartBackground(c) PROVE BeatInv'
  <2>1. PICK r \in FreshRunners : runner' = r /\ at' = [at EXCEPT ![r] = "new"]
    BY <1>9 DEF StartBackground
  <2>2. r \in Procs /\ ~Waiting(r)
    BY <1>1, WsAssumption DEF FreshRunners, LiveRunner, Waiting
  <2> QED BY <1>5, <1>9, <2>1, <2>2 DEF StartBackground
<1>10. ASSUME NEW c \in Callers, StopBackground(c) PROVE BeatInv'
  BY <1>2, <1>6, <1>10 DEF StopBackground, Disconnected
<1>11. ASSUME NEW p \in Procs, ConnectResumes(p) PROVE BeatInv'
  <2>1. Beats'
    BY <1>1, <1>11, StartedHeartbeat, WsAssumption DEF ConnectResumes
  <2>2. \A q \in Procs : Disconnecting(q) => Disconnecting(q)'
    BY <1>1, <1>11 DEF ConnectResumes, ClientTypes, AtPlaces, Disconnecting
  <2> QED BY <1>1, <1>11, <2>1, <2>2 DEF ConnectResumes, BeatInv
<1>12. ASSUME NEW c \in Callers, DisconnectResumes(c) \/ StopDisconnected(c) PROVE BeatInv'
  BY <1>2, <1>12 DEF DisconnectResumes, StopDisconnected, Disconnected
<1>13. ASSUME NEW c \in Callers, StopReturns(c) PROVE BeatInv'
  BY <1>5, <1>13 DEF StopReturns, Waiting
<1>14. ASSUME NEW r \in Runners, RunnerConnects(r) \/ RunnerBacksOff(r) PROVE BeatInv'
  <2>1. CASE RunnerConnects(r)
    BY <1>7, <2>1 DEF RunnerConnects, Waiting
  <2>2. CASE RunnerBacksOff(r)
    BY <1>2, <2>2 DEF RunnerBacksOff
  <2> QED BY <1>14, <2>1, <2>2
<1>15. ASSUME NEW r \in Runners, RunnerStarts(r) PROVE BeatInv'
  <2>1. at' = [at EXCEPT ![r] = "loop"] /\ ~Waiting(r)
    BY <1>15 DEF RunnerStarts, Waiting
  <2> QED BY <1>1, <1>4, <1>15, <2>1, StillWaiting DEF RunnerStarts
<1>16. ASSUME NEW r \in Runners, BackoffElapsed(r) PROVE BeatInv'
  BY <1>5, <1>16 DEF BackoffElapsed, Waiting, clientVars
<1>17. ASSUME NEW r \in Runners, RunnerFinally(r) PROVE BeatInv'
  BY <1>2, <1>6, <1>17 DEF RunnerFinally, Disconnected, clientVars
<1>18. ASSUME NEW r \in Runners, RunnerDisconnected(r) PROVE BeatInv'
  BY <1>2, <1>18 DEF RunnerDisconnected, Disconnected
<1>19. ASSUME NEW h \in Heartbeats, HeartbeatStep(h) \/ HeartbeatCancelled(h) PROVE BeatInv'
  <2>1. /\ UNCHANGED <<state, stop, hb, at>>
        /\ \A g \in Heartbeats : g # h => hbpc'[g] = hbpc[g]
        /\ hbpc[h] \in {"new", "waiting"} /\ state = "connected" /\ ~stop => hbpc'[h] = "waiting"
    BY <1>1, <1>19 DEF HeartbeatStep, HeartbeatCancelled, clientVars, ClientTypes
  <2>2. Somebody' = Somebody /\ Ending' = Ending
    BY <2>1 DEF Waiting, Disconnecting
  <2>3. Ending => Somebody
    BY DEF Waiting, Disconnecting
  <2>4. Beats /\ state = "connected" /\ ~stop => Beats'
    BY <1>1, <2>1 DEF ClientTypes
  <2>5. state' = "connected" => Somebody' \/ Beats'
    BY <1>1, <2>1, <2>2, <2>3, <2>4
  <2> QED BY <1>1, <2>1, <2>2, <2>5 DEF BeatInv
<1>20. CASE ChangeCookie \/ UNCHANGED vars
  BY <1>1, <1>20 DEF ChangeCookie, BeatInv, clientVars, vars, Waiting, Disconnecting
<1> QED BY <1>8, <1>9, <1>10, <1>11, <1>12, <1>13, <1>14, <1>15, <1>16, <1>17, <1>18, <1>19, <1>20
        DEF Next, Calls, CallerStep, RunnerStep, HbStep, Callers

LEMMA TypesInit == Init => ClientTypes
BY ProcsApart DEF Init, ClientTypes, AtPlaces, CallerPlaces, RunnerPlaces, HbPlaces

LEMMA BeatInit == Init => BeatInv
BY TypesInit DEF Init, BeatInv

\* ConnectedBeats, whoever calls connect, disconnect, start_background and
\* stop_background and however their suspensions interleave: a connected client
\* that nobody is connecting or disconnecting has a heartbeat that goes on.
THEOREM ConnectedClientsBeat == Spec => []ConnectedBeats
<1>1. BeatInv => ConnectedBeats
  BY DEF BeatInv, ConnectedBeats
<1> QED BY <1>1, BeatInit, BeatStep, PTL DEF Spec

-----------------------------------------------------------------------------
LEMMA QuietInit == Init => QuietInv
<1> SUFFICES ASSUME Init PROVE QuietInv
  OBVIOUS
<1>1. \A p \in Procs : at[p] \in {"idle", "done"} /\ (p \in Callers => at[p] = "idle")
  BY DEF Init
<1>2. \A r \in Runners : at[r] = "done"
  BY ProcsApart DEF Init
<1>3. \A h \in Heartbeats : hbpc[h] = "done"
  BY DEF Init
<1> QED BY <1>1, <1>2, <1>3, ProcsApart, TypesInit
        DEF Init, QuietInv, OneRunner, OwnHeartbeat, Places, AtRest, StopLasts, WaitsForIt, AwaitsRunner, Disconnecting

\* A runner without a place is not live, and a live one has a place.
LEMMA QuietFacts ==
    ASSUME QuietInv
    PROVE  /\ LiveHb(hb) <=> \E h \in Heartbeats : hbpc[h] # "done"
           /\ LiveHb(hb) => state = "connected"
           /\ LiveRunner(runner) <=> \E r \in Runners : at[r] # "done"
           /\ \A r \in Runners : at[r] \in {"new", "loop", "serving", "backoff", "woken", "discWait", "done"}
           /\ \A p \in Procs : at[p] # "connWait"
BY WsAssumption, ProcsApart DEF QuietInv, ClientTypes, AtPlaces, RunnerPlaces, OneRunner, OwnHeartbeat, Places, LiveHb, LiveRunner

\* The runner about to connect finds no heartbeat, and nobody who stops.
LEMMA QuietConnect ==
    ASSUME QuietInv, ClientTypes', NEW r \in Runners, at[r] = "loop", ConnectBy(r), UNCHANGED leaving
    PROVE  QuietInv'
<1> USE ProcsApart
<1>1. /\ ClientTypes /\ OneRunner /\ OwnHeartbeat /\ Places /\ AtRest /\ StopLasts /\ WaitsForIt /\ AwaitsRunner
      /\ at \in [Procs -> CallerPlaces \cup RunnerPlaces]
  BY DEF QuietInv, ClientTypes, AtPlaces
<1>2. state = "disconnected" /\ ~LiveHb(hb)
  BY <1>1, QuietFacts DEF AtRest
<1>3. /\ StartHeartbeat /\ at' = [at EXCEPT ![r] = "serving"] /\ state' = "connected" /\ runner' = runner
      /\ waitOn' = waitOn
  BY <1>2 DEF ConnectBy, AfterConnect
<1>4. \A h \in Heartbeats : hbpc'[h] # "done" => h = hb'
  BY <1>1, <1>2, <1>3, QuietFacts DEF StartHeartbeat, FreshHbs, ClientTypes
<1>5. \A p \in Procs : p # r => ~Disconnecting(p)
  <2>1. ASSUME NEW c \in Callers PROVE at[c] = "idle"
    BY <1>1 DEF StopLasts, Places
  <2>2. ASSUME NEW q \in Runners, q # r PROVE at[q] = "done"
    BY <1>1, <2>2 DEF OneRunner
  <2> QED BY <2>1, <2>2 DEF Disconnecting
<1>6. OneRunner' /\ Places' /\ AtRest'
  BY <1>1, <1>3 DEF OneRunner, Places, AtRest
<1>7. StopLasts'
  BY <1>1, <1>3 DEF StopLasts
<1>8. WaitsForIt'
  BY <1>1, <1>3, <1>5 DEF WaitsForIt, Disconnecting
<1>9. AwaitsRunner'
  BY <1>1, <1>3 DEF QuietInv, AwaitsRunner
<1> QED BY <1>3, <1>4, <1>6, <1>7, <1>8, <1>9 DEF QuietInv, OwnHeartbeat

\* disconnect() up to its await: the heartbeat is cancelled, the runner woken.
LEMMA QuietDisconnectWaits ==
    ASSUME OneOwner, QuietInv, ClientTypes', NEW p \in Procs, NEW place, DisconnectWaits(p, place),
           \/ p \in Callers /\ place = "stopDisc"
           \/ p \in Runners /\ at[p] # "done" /\ place = "discWait"
    PROVE  QuietInv'
<1> USE ProcsApart
<1>1. /\ ClientTypes /\ OneRunner /\ OwnHeartbeat /\ Places /\ AtRest /\ StopLasts /\ WaitsForIt /\ AwaitsRunner
      /\ at \in [Procs -> CallerPlaces \cup RunnerPlaces]
  BY DEF QuietInv, ClientTypes, AtPlaces
<1>2. LiveHb(hb) /\ state = "connected" /\ UNCHANGED <<state, hb, runner>> /\ stop' = TRUE
  BY QuietFacts DEF DisconnectWaits
<1>3. /\ \A q \in Procs : q # p => at'[q] = IF at[q] \in {"serving", "backoff"} THEN "woken" ELSE at[q]
      /\ at'[p] = place
      /\ waitOn' = [waitOn EXCEPT ![p] = hb]
  BY <1>1 DEF DisconnectWaits, Woken
<1>4. \A r \in Runners : at[r] \in {"serving", "backoff", "woken", "discWait", "done"}
  BY <1>1, <1>2, QuietFacts DEF AtRest
<1>5. \A r \in Runners : at'[r] \in {"woken", "discWait", "done"}
  BY <1>3, <1>4
<1>6. OneRunner'
  BY <1>1, <1>2, <1>3 DEF OneRunner
<1>7. \A h \in Heartbeats : hbpc'[h] # "done" => hbpc[h] # "done"
  BY <1>1, <1>2 DEF DisconnectWaits, CancelHb, LiveHb, ClientTypes
<1>8. OwnHeartbeat'
  BY <1>1, <1>2, <1>7 DEF OwnHeartbeat
<1>9. Places'
  BY <1>1, <1>3 DEF Places
<1>10. \E r \in Runners : at[r] # "done"
  BY <1>1, <1>2 DEF AtRest
<1>11. \E r \in Runners : at'[r] # "done"
  BY <1>3, <1>10
<1>12. AtRest'
  BY <1>5, <1>11 DEF AtRest
<1>13. StopLasts'
  BY <1>2, <1>5 DEF StopLasts
<1>14. WaitsForIt'
  <2>1. ASSUME NEW q \in Procs, Disconnecting(q)' PROVE waitOn'[q] = hb
    <3>1. CASE q = p
      BY <1>1, <1>3, <3>1 DEF ClientTypes
    <3>2. CASE q # p
      <4>1. Disconnecting(q) /\ waitOn'[q] = waitOn[q]
        BY <1>1, <1>3, <2>1, <3>2 DEF Disconnecting, ClientTypes
      <4> QED BY <1>1, <1>2, <4>1 DEF WaitsForIt
    <3> QED BY <3>1, <3>2
  <2> QED BY <1>2, <2>1 DEF WaitsForIt
<1>15. AwaitsRunner'
  BY <1>1, <1>2, <1>3 DEF QuietInv, AwaitsRunner, ClientTypes
<1> QED BY <1>6, <1>8, <1>9, <1>12, <1>13, <1>14, <1>15 DEF QuietInv

\* The end of stop_background(): the runner is cancelled, or there is none.
LEMMA QuietStopRunner ==
    ASSUME OneOwner, QuietInv, ClientTypes', NEW c \in Callers, NEW f \in [Procs -> CallerPlaces \cup RunnerPlaces],
           \A r \in Runners : f[r] \in {"new", "woken", "discWait", "done"} /\ (f[r] = "done" <=> at[r] = "done"),
           StopRunner(c, f), ~LiveHb(hb), state' = "disconnected", hb' = NoClientTask, stop' = TRUE, UNCHANGED hbpc
    PROVE  QuietInv'
<1> USE ProcsApart
<1>1. OneRunner /\ OwnHeartbeat /\ Places /\ \A d \in Callers : d = c
  BY DEF QuietInv, OneOwner, Callers
<1>2. OwnHeartbeat' /\ WaitsForIt' /\ AtRest'
  BY QuietFacts DEF OwnHeartbeat, WaitsForIt, AtRest, LiveHb
<1>3. CASE LiveRunner(runner)
  <2>1. /\ runner \in Runners /\ runner' = runner
        /\ at' = [CancelRunner(f, runner) EXCEPT ![c] = "stopRun"]
    BY <1>3 DEF LiveRunner, QuietInv, ClientTypes, StopRunner
  <2>2. /\ at'[c] = "stopRun"
        /\ at'[runner] \in {"woken", "discWait", "done"}
        /\ \A q \in Runners : q # runner => at'[q] = f[q]
    BY <2>1 DEF CancelRunner
  <2>3. \A q \in Runners : q # runner => at'[q] = "done"
    BY <1>1, <2>2 DEF OneRunner
  <2>4. OneRunner' /\ StopLasts'
    BY <2>1, <2>2, <2>3 DEF OneRunner, StopLasts
  <2>5. Places'
    BY <1>1, <2>2, <2>3 DEF Places
  <2>6. AwaitsRunner'
    BY <1>1, <1>3, <2>1 DEF AwaitsRunner, StopRunner, QuietInv, ClientTypes
  <2> QED BY <1>2, <2>4, <2>5, <2>6 DEF QuietInv
<1>4. CASE ~LiveRunner(runner)
  <2>1. at' = [f EXCEPT ![c] = "idle"]
    BY <1>4 DEF StopRunner
  <2>2. at'[c] = "idle" /\ \A r \in Runners : at'[r] = "done"
    BY <1>4, <2>1, QuietFacts
  <2>3. OneRunner' /\ StopLasts' /\ Places' /\ AwaitsRunner'
    BY <1>1, <2>2 DEF OneRunner, StopLasts, Places, AwaitsRunner
  <2> QED BY <1>2, <2>3 DEF QuietInv
<1> QED BY <1>3, <1>4

\* The runner has disconnected: it goes on only when nobody stops it.
LEMMA QuietRunnerMoves ==
    ASSUME QuietInv, ClientTypes', NEW r \in Runners, at[r] # "done", ~LiveHb(hb),
           at'[r] \in {"done", "loop"}, state' = "disconnected", UNCHANGED <<runner, hbpc>>,
           \A q \in Procs : q # r => at'[q] = at[q] \/ (at[q] \in {"serving", "backoff"} /\ at'[q] = "woken"),
           stop => stop', stop => at'[r] = "done", hb' \in {hb, NoClientTask},
           \A q \in Procs : q # r => waitOn'[q] = waitOn[q]
    PROVE  QuietInv'
<1> USE ProcsApart
<1>1. OneRunner /\ OwnHeartbeat /\ Places /\ StopLasts /\ \A q \in Runners : q # r => at[q] = "done"
  BY DEF QuietInv, OneRunner
<1>2. OwnHeartbeat' /\ WaitsForIt' /\ AtRest'
  BY QuietFacts DEF OwnHeartbeat, WaitsForIt, AtRest, LiveHb
<1>3. \A q \in Runners : q # r => at'[q] = "done"
  BY <1>1
<1>4. \A c \in Callers : at'[c] = at[c]
  BY <1>1 DEF Places
<1>5. OneRunner' /\ StopLasts' /\ Places' /\ AwaitsRunner'
  BY <1>1, <1>3, <1>4 DEF OneRunner, StopLasts, Places, AwaitsRunner, QuietInv
<1> QED BY <1>2, <1>5 DEF QuietInv

LEMMA QuietHeartbeat ==
    ASSUME QuietInv, ClientTypes', NEW h \in Heartbeats, HeartbeatStep(h) \/ HeartbeatCancelled(h)
    PROVE  QuietInv'
<1>1. UNCHANGED <<state, stop, hb, runner, at, waitOn>> /\ \A g \in Heartbeats : hbpc'[g] # "done" => hbpc[g] # "done"
  BY DEF HeartbeatStep, HeartbeatCancelled, clientVars, QuietInv, ClientTypes
<1>2. LiveHb(hb)' => LiveHb(hb)
  BY <1>1 DEF LiveHb, QuietInv, ClientTypes
<1>3. OwnHeartbeat' /\ WaitsForIt'
  BY <1>1, <1>2 DEF QuietInv, OwnHeartbeat, WaitsForIt, Disconnecting
<1>4. OneRunner' /\ Places' /\ AtRest' /\ StopLasts' /\ AwaitsRunner'
  BY <1>1 DEF QuietInv, OneRunner, Places, AtRest, StopLasts, AwaitsRunner
<1> QED BY <1>3, <1>4 DEF QuietInv

LEMMA QuietStep ==
    ASSUME OneOwner, QuietInv, [Next]_vars
    PROVE  QuietInv'
<1> USE ProcsApart
<1>1. /\ ClientTypes /\ ClientTypes' /\ OneRunner /\ OwnHeartbeat /\ Places /\ AtRest /\ StopLasts /\ WaitsForIt /\ AwaitsRunner
      /\ at \in [Procs -> CallerPlaces \cup RunnerPlaces]
  BY NextTypes DEF QuietInv, ClientTypes, AtPlaces
<1>2. /\ Manual = {} /\ \A c, d \in Callers : c = d
      /\ \A r \in Runners : at[r] \in {"new", "loop", "serving", "backoff", "woken", "discWait", "done"}
  BY QuietFacts DEF OneOwner, Callers
<1>3. ASSUME NEW c \in Callers, StartBackground(c) PROVE QuietInv'
  <2>1. PICK r \in FreshRunners : runner' = r /\ at' = [at EXCEPT ![r] = "new"]
    BY <1>3 DEF StartBackground
  <2>2. /\ r \in Runners /\ \A q \in Runners : at[q] = "done"
        /\ \A d \in Callers : at[d] = "idle"
    BY <1>2, <1>3, QuietFacts DEF FreshRunners, StartBackground
  <2>3. /\ at'[r] = "new" /\ \A q \in Procs : q # r => at'[q] = at[q]
    BY <1>1, <2>1, <2>2
  <2>4. UNCHANGED <<state, stop, hb, waitOn, hbpc>> /\ state = "disconnected"
    BY <1>1, <1>3, <2>2 DEF StartBackground, AtRest
  <2>5. OneRunner' /\ Places' /\ AtRest' /\ StopLasts' /\ AwaitsRunner'
    BY <1>1, <2>1, <2>2, <2>3, <2>4 DEF OneRunner, Places, AtRest, StopLasts, AwaitsRunner
  <2>6. OwnHeartbeat' /\ WaitsForIt'
    BY <1>1, <2>2, <2>3, <2>4 DEF OwnHeartbeat, WaitsForIt, Disconnecting, LiveHb
  <2> QED BY <1>1, <2>5, <2>6 DEF QuietInv
<1>4. ASSUME NEW c \in Callers, StopBackground(c), ~InLoop PROVE QuietInv'
  <2>1. CASE DisconnectWaits(c, "stopDisc")
    BY <1>1, <2>1, QuietDisconnectWaits
  <2>2. CASE ~DisconnectWaits(c, "stopDisc")
    <3>1. ~LiveHb(hb) /\ stop' = TRUE /\ Disconnected /\ StopRunner(c, Woken(at)) /\ UNCHANGED hbpc
      BY <1>4, <2>2 DEF StopBackground
    <3>2. Woken(at) \in [Procs -> CallerPlaces \cup RunnerPlaces]
      BY WokenPlaces DEF QuietInv, ClientTypes, AtPlaces
    <3>3. \A r \in Runners : /\ Woken(at)[r] \in {"new", "woken", "discWait", "done"}
                             /\ Woken(at)[r] = "done" <=> at[r] = "done"
      BY <1>2, <1>4 DEF Woken, InLoop
    <3> QED BY <1>1, <3>1, <3>2, <3>3, QuietStopRunner DEF Disconnected
  <2> QED BY <2>1, <2>2
<1>5. ASSUME NEW c \in Callers, StopDisconnected(c) PROVE QuietInv'
  <2>1. Disconnecting(c) /\ ~LiveHb(waitOn[c])
    BY <1>5 DEF StopDisconnected, Disconnecting
  <2>2. ~LiveHb(hb)
    BY <1>1, <2>1 DEF WaitsForIt
  <2>3. stop /\ \A r \in Runners : at[r] \in {"new", "woken", "discWait", "done"}
    BY <1>1, <1>5 DEF StopDisconnected, StopLasts
  <2> QED BY <1>1, <1>5, <2>2, <2>3, QuietStopRunner DEF StopDisconnected, Disconnected
<1>6. ASSUME NEW c \in Callers, StopReturns(c) PROVE QuietInv'
  <2>1. /\ UNCHANGED <<state, stop, hb, hbpc>> /\ runner' = NoClientTask
        /\ at'[c] = "idle" /\ \A q \in Procs : q # c => at'[q] = at[q] /\ waitOn'[q] = waitOn[q]
    BY <1>1, <1>6 DEF StopReturns, ClientTypes
  <2>2. \A r \in Runners : at[r] = "done"
    BY <1>1, <1>6, QuietFacts DEF StopReturns, AwaitsRunner
  <2>3. OneRunner' /\ Places' /\ AtRest' /\ StopLasts' /\ AwaitsRunner'
    BY <1>1, <1>2, <2>1, <2>2 DEF OneRunner, Places, AtRest, StopLasts, AwaitsRunner
  <2>4. OwnHeartbeat' /\ WaitsForIt'
    BY <1>1, <2>1 DEF OwnHeartbeat, WaitsForIt, Disconnecting, LiveHb
  <2> QED BY <1>1, <2>3, <2>4 DEF QuietInv
<1>7. ASSUME NEW r \in Runners, RunnerConnects(r) PROVE QuietInv'
  BY <1>1, <1>7, QuietConnect DEF RunnerConnects
<1>8. ASSUME NEW r \in Runners, RunnerBacksOff(r) PROVE QuietInv'
  <2>1. /\ UNCHANGED <<stop, hb, runner, waitOn, hbpc>> /\ state' = "reconnecting"
        /\ at[r] = "loop" /\ at'[r] = "backoff" /\ \A q \in Procs : q # r => at'[q] = at[q]
    BY <1>1, <1>8 DEF RunnerBacksOff
  <2>2. state = "disconnected" /\ \A h \in Heartbeats : hbpc[h] = "done"
    BY <1>1, <2>1 DEF AtRest, OwnHeartbeat
  <2>3. OwnHeartbeat' /\ WaitsForIt'
    BY <1>1, <2>1, <2>2 DEF OwnHeartbeat, WaitsForIt, Disconnecting, LiveHb
  <2>4. OneRunner' /\ Places' /\ AtRest' /\ StopLasts' /\ AwaitsRunner'
    BY <1>1, <2>1 DEF OneRunner, Places, AtRest, StopLasts, AwaitsRunner
  <2> QED BY <1>1, <2>3, <2>4 DEF QuietInv
<1>9. ASSUME NEW r \in Runners, RunnerStarts(r) \/ BackoffElapsed(r) PROVE QuietInv'
  <2>1. /\ UNCHANGED <<state, hb, runner, waitOn, hbpc>>
        /\ \A q \in Procs : q # r => at'[q] = at[q]
        /\ \/ at[r] = "new" /\ at'[r] = "loop"
           \/ at[r] = "backoff" /\ at'[r] = "woken" /\ stop' = stop
    BY <1>1, <1>9 DEF RunnerStarts, BackoffElapsed, clientVars
  <2>2. OwnHeartbeat' /\ WaitsForIt'
    BY <1>1, <2>1 DEF OwnHeartbeat, WaitsForIt, Disconnecting, LiveHb
  <2>3. OneRunner' /\ Places' /\ AtRest' /\ StopLasts' /\ AwaitsRunner'
    BY <1>1, <2>1 DEF OneRunner, Places, AtRest, StopLasts, AwaitsRunner
  <2> QED BY <1>1, <2>2, <2>3 DEF QuietInv
<1>10. ASSUME NEW r \in Runners, RunnerFinally(r) PROVE QuietInv'
  <2>1. CASE DisconnectWaits(r, "discWait")
    BY <1>1, <1>10, <2>1, QuietDisconnectWaits DEF RunnerFinally
  <2>2. CASE ~DisconnectWaits(r, "discWait")
    <3>1. CASE state = "disconnected"
      <4>1. at[r] = "woken" /\ UNCHANGED <<state, stop, hb, runner, waitOn, hbpc>>
        BY <1>10, <2>2, <3>1 DEF RunnerFinally, clientVars
      <4>2. at' = [at EXCEPT ![r] = LoopTest(r, stop)]
        BY <1>10, <2>2, <3>1 DEF RunnerFinally
      <4>3. /\ at'[r] = LoopTest(r, stop) /\ \A q \in Procs : q # r => at'[q] = at[q]
        BY <1>1, <4>2
      <4>4. at'[r] \in {"done", "loop"} /\ (stop => at'[r] = "done")
        BY <4>3 DEF LoopTest
      <4>5. ~LiveHb(hb)
        BY <3>1, QuietFacts
      <4> QED BY <1>1, <3>1, <4>1, <4>3, <4>4, <4>5, QuietRunnerMoves
    <3>2. CASE state # "disconnected"
      <4>1. /\ at[r] = "woken" /\ ~LiveHb(hb) /\ UNCHANGED <<runner, waitOn, hbpc>>
            /\ state' = "disconnected" /\ stop' = TRUE /\ hb' = NoClientTask
            /\ at' = [Woken(at) EXCEPT ![r] = "done"]
        BY <1>10, <2>2, <3>2 DEF RunnerFinally, Disconnected
      <4>2. /\ at'[r] = "done"
            /\ \A q \in Procs : q # r => at'[q] = at[q] \/ (at[q] \in {"serving", "backoff"} /\ at'[q] = "woken")
        BY <1>1, <4>1 DEF Woken
      <4> QED BY <1>1, <4>1, <4>2, QuietRunnerMoves
    <3> QED BY <3>1, <3>2
  <2> QED BY <2>1, <2>2
<1>11. ASSUME NEW r \in Runners, RunnerDisconnected(r) PROVE QuietInv'
  <2>1. Disconnecting(r) /\ ~LiveHb(waitOn[r])
    BY <1>11 DEF RunnerDisconnected, Disconnecting
  <2>2. ~LiveHb(hb)
    BY <1>1, <2>1 DEF WaitsForIt
  <2>3. /\ at[r] = "discWait" /\ UNCHANGED <<runner, hbpc, stop>>
        /\ at'[r] \in {"done", "loop"} /\ state' = "disconnected" /\ hb' = NoClientTask
        /\ stop => at'[r] = "done"
        /\ \A q \in Procs : q # r => at'[q] = at[q] /\ waitOn'[q] = waitOn[q]
    BY <1>1, <1>11 DEF RunnerDisconnected, Disconnected, LoopTest, ClientTypes
  <2> QED BY <1>1, <2>2, <2>3, QuietRunnerMoves
<1>12. ASSUME NEW h \in Heartbeats, HbStep(h) PROVE QuietInv'
  BY <1>1, <1>12, QuietHeartbeat DEF HbStep
<1>13. CASE ChangeCookie \/ UNCHANGED vars
  <2>1. UNCHANGED <<state, stop, hb, runner, at, waitOn, hbpc>>
    BY <1>13 DEF ChangeCookie, clientVars, vars
  <2> QED BY <1>1, <2>1 DEF QuietInv, OneRunner, OwnHeartbeat, Places, AtRest, StopLasts, WaitsForIt, AwaitsRunner,
                            Disconnecting, LiveHb
<1>14. ASSUME NEW c \in Callers, DisconnectResumes(c) PROVE FALSE
  BY <1>1, <1>14 DEF DisconnectResumes, Places
<1>15. ASSUME NEW p \in Procs, ConnectResumes(p) PROVE FALSE
  BY <1>1, <1>15 DEF ConnectResumes, Places
<1>16. ASSUME Calls PROVE QuietInv'
  BY <1>2, <1>3, <1>4, <1>16 DEF Calls, Callers
<1>17. ASSUME NEW c \in Callers, CallerStep(c) PROVE QuietInv'
  BY <1>5, <1>6, <1>14, <1>15, <1>17 DEF CallerStep
<1>18. ASSUME NEW r \in Runners, RunnerStep(r) PROVE QuietInv'
  BY <1>7, <1>8, <1>9, <1>10, <1>11, <1>15, <1>18 DEF RunnerStep
<1> QED BY <1>12, <1>13, <1>16, <1>17, <1>18 DEF Next

LEMMA QuietInvariant ==
    ASSUME OneOwner
    PROVE  Spec => []QuietInv
<1>1. QuietInv /\ [Next]_vars => QuietInv'
  BY QuietStep
<1> QED BY <1>1, QuietInit, PTL DEF Spec

\* OneHeartbeat, with the one owner start_background is made for and any number
\* of restarts: _start_heartbeat_task leaves one heartbeat that goes on.
THEOREM OwnedClientBeatsOnce ==
    ASSUME OneOwner
    PROVE  Spec => []OneHeartbeat
<1>1. QuietInv => OneHeartbeat
  BY DEF QuietInv, OwnHeartbeat, OneHeartbeat, Beating
<1> QED BY <1>1, QuietInvariant, PTL

\* StoppedIsQuiet, with one owner: when stop_background has returned, the client
\* is disconnected and none of its heartbeats goes on, although the cancellation
\* of the runner may have been swallowed in _cancel_task.
THEOREM StopLeavesQuiet ==
    ASSUME OneOwner
    PROVE  Spec => []StoppedIsQuiet
<1>1. ASSUME QuietInv, runner = NoClientTask PROVE state = "disconnected" /\ Beating = {}
  <2>1. \A r \in Runners : at[r] = "done"
    BY <1>1, WsAssumption DEF QuietInv, OneRunner
  <2>2. state = "disconnected"
    BY <1>1, <2>1 DEF QuietInv, AtRest
  <2> QED BY <1>1, <2>2 DEF QuietInv, OwnHeartbeat, Beating
<1>2. QuietInv => StoppedIsQuiet
  BY <1>1 DEF StoppedIsQuiet
<1> QED BY <1>2, QuietInvariant, PTL
=============================================================================
